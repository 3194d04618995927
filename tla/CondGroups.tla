----------------------------- MODULE CondGroups -----------------------------
(***************************************************************************)
(* What conditional directives promise.  Every open #if is a group that is *)
(* "on", "wait"ing for an #elif or #else that holds, or "off" for good; a  *)
(* line is taken if all groups are on.                                     *)
(***************************************************************************)
EXTENDS Naturals, Sequences, SequencesExt

VARIABLES
  groups,  \* the state of each open group, outermost first
  line,    \* the line read last: what it is and whether it was taken
  read,    \* how many lines have been read
  over     \* the text has been read

vars == <<groups, line, read, over>>

AllOn == \A i \in DOMAIN groups : groups[i] = "on"

\* A line of that kind counts, and is itself taken or not.
Count(kind, t) == ~over /\ read' = read + 1 /\ line' = <<kind, t>> /\ UNCHANGED over
Turn(state) == groups' = [groups EXCEPT ![Len(groups)] = state]

\* A line of text, or a directive like #define.
Line == Count("text", AllOn) /\ UNCHANGED groups

\* #if and its like, whose condition holds or not.
Open(holds) ==
  /\ Count("if", AllOn)
  /\ groups' = Append(groups, IF ~AllOn THEN "off" ELSE IF holds THEN "on" ELSE "wait")

Elif(holds) ==
  /\ groups # <<>>
  /\ Count("elif", FALSE)
  /\ CASE Last(groups) = "on" -> Turn("off")
       [] Last(groups) = "wait" /\ holds -> Turn("on")
       [] OTHER -> UNCHANGED groups

Else ==
  /\ groups # <<>>
  /\ Count("else", FALSE)
  /\ CASE Last(groups) = "on" -> Turn("off")
       [] Last(groups) = "wait" -> Turn("on")
       [] OTHER -> UNCHANGED groups

Close ==
  /\ groups # <<>>
  /\ Count("endif", FALSE)
  /\ groups' = Front(groups)

\* #elif, #else or #endif outside of any group.
Stray ==
  /\ groups = <<>>
  /\ \E kind \in {"elif", "else", "endif"} : Count(kind, FALSE)
  /\ UNCHANGED groups

Finish == ~over /\ over' = TRUE /\ groups' = <<>> /\ UNCHANGED <<line, read>>

Init == groups = <<>> /\ line = <<"none", FALSE>> /\ read = 0 /\ over = FALSE
Next ==
  \/ Line \/ Else \/ Close \/ Stray \/ Finish
  \/ \E holds \in BOOLEAN : Open(holds) \/ Elif(holds)
Spec == Init /\ [][Next]_vars
=============================================================================
