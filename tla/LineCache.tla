------------------------------ MODULE LineCache -----------------------------
(***************************************************************************)
(* SourceManager::getLocation: the line and the column of an offset into a *)
(* file, with the line of an earlier query remembered so that a lexer that *)
(* advances need not search.                                               *)
(***************************************************************************)
EXTENDS Naturals, Sequences

CONSTANT Size  \* bound: the length of a file

VARIABLES
  line_offsets,       \* the offset at which each line begins
  last_query_offset,
  last_query_line,
  answer              \* the query answered last: its offset, line and column

vars == <<line_offsets, last_query_offset, last_query_line, answer>>

Offsets == 0 .. Size
Lines == DOMAIN line_offsets

\* std::upper_bound: how many lines begin at or before o.
upper_bound(o) ==
  CHOOSE n \in 0 .. Len(line_offsets) :
    \A i \in Lines : line_offsets[i] <= o <=> i <= n

-----------------------------------------------------------------------------
Answer(o, line) == answer' = <<o, line, (o - line_offsets[line]) + 1>>
Remember(o, line) == last_query_offset' = o /\ last_query_line' = line

FollowsLastBlindly(o) ==
  last_query_line < Len(line_offsets) /\ o < line_offsets[last_query_line + 1]

\* The offset lies behind the last query and before the next line begins.
FollowsLast(o) ==
  /\ o >= last_query_offset
  /\ last_query_line < Len(line_offsets)
  /\ o < line_offsets[last_query_line + 1]

getLocation(o) ==
  /\ IF FollowsLast(o)
       THEN Answer(o, last_query_line) /\ UNCHANGED <<last_query_offset, last_query_line>>
       ELSE Answer(o, upper_bound(o)) /\ Remember(o, upper_bound(o))
  /\ UNCHANGED line_offsets

-----------------------------------------------------------------------------
\* buildLineOffsets: the first line begins at 0, a further one behind each \n.
LineOffsets ==
  {<<0>> \o s : s \in UNION {[1 .. n -> 1 .. Size] : n \in 0 .. Size}}
Increasing(s) == \A i \in DOMAIN s : i > 1 => s[i - 1] < s[i]

Init ==
  /\ line_offsets \in {s \in LineOffsets : Increasing(s)}
  /\ last_query_offset = 0 /\ last_query_line = 1
  /\ answer = <<0, 1, 1>>

Next == \E o \in Offsets : getLocation(o)

Spec == Init /\ [][Next]_vars

-----------------------------------------------------------------------------
\* Whatever was asked before, an offset is placed on the line it lies on: the
\* line begins at or before it, the next one behind it.
PlacedOnItsLine ==
  LET o == answer[1]  n == answer[2]
  IN /\ n \in Lines /\ line_offsets[n] <= o
     /\ n < Len(line_offsets) => o < line_offsets[n + 1]
     /\ line_offsets[n] + answer[3] = o + 1
=============================================================================
