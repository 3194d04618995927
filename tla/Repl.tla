-------------------------------- MODULE Repl --------------------------------
(***************************************************************************)
(* The interactive session: run_repl of the driver, with the parts of the  *)
(* Interpreter that outlive an input (run, eval and reset).                *)
(*                                                                         *)
(* For the accumulator a line opens a brace, a parenthesis or a comment,   *)
(* closes it, or does neither; for the compiler a text is a unit, a small  *)
(* program.  A unit is typed on one line, or begun on one and ended on     *)
(* another; any other text is Garbage.                                     *)
(***************************************************************************)
EXTENDS Integers, Sequences, FiniteSets

CONSTANTS
  Units,     \* the programs the user types or keeps in a file
  LongUnits, \* those that may be typed on two lines
  Garbage,   \* the unit that other texts stand for
  MaxLines,  \* bound: how many lines are accumulated
  HCC_HAS_READLINE  \* the build: the lines come from readline, not from getline

VARIABLES
  acc,      \* the lines accumulated, without the empty ones
  scan_st,  \* what the scanner has found open in them
  errors,   \* diag.hasErrors()
  globals,  \* the names the interpreter knows
  hasMain,  \* Main is among its functions
  signal,   \* its signal_, between two inputs
  eof,      \* the user has ended the input
  pc,       \* "reading", then "ended", or "died" if it is terminated
  last      \* history: the text met last and what became of it, until the next is begun

vars == <<acc, scan_st, errors, globals, hasMain, signal, eof, pc, last>>
interp == <<globals, hasMain, signal>>

\* A unit is one expression statement, or statements, or declarations; it uses
\* and defines names; it may be wrong (bad); its value has a printable kind or
\* has not; its execution ends in some way; and a delimiter is open at the end
\* of the first of two lines.
Kinds == {"expr", "stmts", "decls"}
Ends == {"normally", "throw", "break", "return", "complaint"}
Delimiters == {"brace", "paren", "comment"}

\* A spliced line ends with a backslash, which is wrong outside of a comment.
Lines == [what : {"whole"}, unit : Units] \cup [what : {"begin", "end"}, unit : LongUnits]
         \cup [what : {"spliced"}, unit : {Garbage}]
Empty == [what |-> "empty", unit |-> Garbage]

Does(l, what, d) == l.what = what /\ l.unit.open = d

\* An open comment hides what lines hold, to the first line that closes one.
ScanState == [brace_depth |-> 0, paren_depth |-> 0, in_block_comment |-> FALSE]
Change(l, d) == IF Does(l, "begin", d) THEN 1 ELSE IF Does(l, "end", d) THEN -1 ELSE 0
scan_line(l, st) ==
  [brace_depth |-> st.brace_depth + IF st.in_block_comment THEN 0 ELSE Change(l, "brace"),
   paren_depth |-> st.paren_depth + IF st.in_block_comment THEN 0 ELSE Change(l, "paren"),
   in_block_comment |-> \/ Does(l, "begin", "comment")
                        \/ st.in_block_comment /\ ~Does(l, "end", "comment")]
needs_more_input(l, st) ==
  st.brace_depth > 0 \/ st.paren_depth > 0 \/ st.in_block_comment \/ l.what = "spliced"

\* What is typed within the comment of a unit is part of the comment.
Within(u, between) ==
  u.open = "comment" /\ \A i \in DOMAIN between : between[i].unit.open # "comment"

Parsed(text) ==
  LET first == text[1]  n == Len(text)
  IN IF \/ n = 1 /\ first.what = "whole"
        \/ /\ n > 1 /\ first.what = "begin" /\ text[n] = [first EXCEPT !.what = "end"]
           /\ n = 2 \/ Within(first.unit, SubSeq(text, 2, n - 1))
     THEN first.unit ELSE Garbage

\* Each input has a Sema of its own, which knows no name of an earlier one.
Fails(u) == u.bad \/ u.uses # {}

Note(how, text, u, log, printed) ==
  last' = [how |-> how, text |-> text, unit |-> u, before |-> signal,
           log |-> log, printed |-> printed]
Nothing ==
  [how |-> "none", text |-> <<>>, unit |-> Garbage, before |-> "None",
   log |-> <<>>, printed |-> FALSE]
Prompt == pc = "reading" /\ acc = <<>> /\ ~eof

-----------------------------------------------------------------------------
(* Interpreter::run                                                        *)

\* Declarations are executed in any case, statements only without a signal.
Executes(u) == u.kind = "decls" \/ signal = "None"

\* run returns before Main; a signal Return is taken back then.
Returns(u) == Executes(u) /\ u.ends \in {"throw", "return"}

\* The signal before Main.
Left(u) == IF Executes(u) /\ u.ends = "break" THEN "Break" ELSE signal

CallsMain(u) == (hasMain \/ u.main) /\ ~Returns(u)

\* Main is called by every run once it is defined, and with a signal pending
\* its body does nothing.
RunLog(u) ==
  (IF Executes(u) THEN <<"unit">> ELSE <<>>)
    \o (IF CallsMain(u) /\ Left(u) = "None" THEN <<"Main">> ELSE <<>>)

Run(u) ==
  /\ hasMain' = (hasMain \/ u.main)
  /\ globals' = IF Executes(u) THEN globals \cup u.defines ELSE globals
  /\ signal' = IF CallsMain(u) THEN "None" ELSE Left(u)

\* The interpreter reports errors of its own to the same Diagnostics.
Complains(u) == Executes(u) /\ u.ends = "complaint"

-----------------------------------------------------------------------------
(* A text that is complete.  Its errors do not keep it from being run.     *)

Process(text, errs) ==
  LET u == Parsed(text)
      evaluated == u.kind = "expr" /\ ~errs
  IN \/ /\ evaluated /\ u.ends = "throw"         \* nothing catches it
        /\ pc' = "died"
        /\ Note("typed", text, u, <<"unit">>, FALSE)
        /\ errors' = FALSE /\ UNCHANGED interp
     \/ /\ evaluated /\ u.ends # "throw" /\ u.value
        /\ Note("typed", text, u, <<"unit">>, TRUE)
        /\ errors' = (u.ends = "complaint")
        /\ UNCHANGED <<pc, interp>>
     \/ /\ evaluated /\ u.ends # "throw" /\ ~u.value
        /\ Run(u)
        /\ Note("typed", text, u, <<"unit">> \o RunLog(u), FALSE)
        /\ errors' = (u.ends = "complaint")
        /\ UNCHANGED pc
     \/ /\ ~evaluated
        /\ Run(u)
        /\ Note("typed", text, u, RunLog(u), FALSE)
        /\ errors' = (errs \/ Complains(u))
        /\ UNCHANGED pc
     \/ /\ u.bad                                   \* it may have no nodes to run
        /\ Note("typed", text, u, <<>>, FALSE)
        /\ errors' = TRUE
        /\ UNCHANGED <<pc, interp>>

Submit(text) == Process(text, Fails(Parsed(text)))

\* MUTANT of Accumulate: the state of the scanner is not reset.
AccumulateKeepsState(l, text) ==
  LET st == scan_line(l, scan_st)
  IN /\ scan_st' = st
     /\ IF needs_more_input(l, st)
        THEN /\ acc' = IF l = Empty THEN acc ELSE text
             /\ last' = Nothing /\ UNCHANGED <<errors, interp, pc>>
        ELSE acc' = <<>> /\ Submit(text)

\* text is what was accumulated with the line l behind it.
Accumulate(l, text) ==
  LET st == scan_line(l, scan_st)
  IN IF needs_more_input(l, st)
     THEN /\ acc' = IF l = Empty THEN acc ELSE text
          /\ scan_st' = st
          /\ last' = Nothing /\ UNCHANGED <<errors, interp, pc>>
     ELSE acc' = <<>> /\ scan_st' = ScanState /\ Submit(text)

\* A line of a program, at the prompt or in the middle of a text.
TypeLine(l) ==
  /\ pc = "reading" /\ ~eof /\ Len(acc) < MaxLines
  /\ Accumulate(l, Append(acc, l))
  /\ UNCHANGED eof

\* An empty line is passed over at the prompt, unless it is read at the end of
\* the input: that is seen where std::cin has been read.
ReadEmpty ==
  /\ pc = "reading"
  /\ IF acc = <<>>
     THEN /\ pc' = IF eof /\ ~HCC_HAS_READLINE THEN "ended" ELSE pc
          /\ UNCHANGED <<acc, scan_st, errors, interp, last>>
     ELSE Accumulate(Empty, Append(acc, Empty))
  /\ UNCHANGED eof

TypeEmpty == ~eof /\ ReadEmpty

\* A line of blanks, or a comment, at the prompt is a text without declarations.
TypeBlanks ==
  /\ Prompt
  /\ errors' = FALSE
  /\ UNCHANGED <<acc, scan_st, interp, eof, pc, last>>

-----------------------------------------------------------------------------
(* Commands, which are recognized at the prompt only.                      *)

\* Parse, Sema and run under the errors there are already.
RunUnlessErrors(how, u) ==
  IF errors \/ Fails(u)
  THEN Note(how, <<>>, u, <<>>, FALSE) /\ UNCHANGED interp
  ELSE Run(u) /\ Note(how, <<>>, u, RunLog(u), FALSE)

Load(u) ==
  /\ Prompt
  /\ RunUnlessErrors("load", u)
  /\ errors' = (errors \/ Fails(u) \/ Complains(u))
  /\ UNCHANGED <<acc, scan_st, eof, pc>>

\* :import and :time clear the errors afterwards.
ImportOrTime(u) ==
  /\ Prompt
  /\ RunUnlessErrors("import", u)
  /\ errors' = FALSE
  /\ UNCHANGED <<acc, scan_st, eof, pc>>

Reset ==
  /\ Prompt
  /\ globals' = {} /\ hasMain' = FALSE /\ signal' = "None"
  /\ UNCHANGED <<acc, scan_st, errors, eof, pc, last>>

Quit ==
  /\ Prompt
  /\ pc' = "ended"
  /\ UNCHANGED <<acc, scan_st, errors, interp, eof, last>>

-----------------------------------------------------------------------------
(* The end of the input: every read returns an empty line from then on.    *)
(* At a terminal readline reads again, so that Ctrl+D is an empty line.    *)

EndInput ==
  /\ pc = "reading" /\ ~eof
  /\ eof' = TRUE
  /\ UNCHANGED <<acc, scan_st, errors, interp, pc, last>>

ReadAtEof == eof /\ ReadEmpty

Over == pc # "reading" /\ UNCHANGED vars

Init ==
  /\ acc = <<>> /\ scan_st = ScanState /\ errors = FALSE
  /\ globals = {} /\ hasMain = FALSE /\ signal = "None"
  /\ eof = FALSE /\ pc = "reading"
  /\ last = Nothing

Next ==
  \/ \E l \in Lines : TypeLine(l)
  \/ \E u \in Units : Load(u) \/ ImportOrTime(u)
  \/ TypeEmpty \/ TypeBlanks
  \/ Reset \/ Quit \/ EndInput \/ ReadAtEof \/ Over

\* The loop of the session goes on reading; the user need not type anything.
Spec == Init /\ [][Next]_vars /\ WF_vars(ReadAtEof)

-----------------------------------------------------------------------------
(* Properties.                                                             *)

\* What a reader finds open at line i of a text, and whether the text ends there.
InComment(text, i) ==
  \E b \in 1 .. i - 1 : /\ Does(text[b], "begin", "comment")
                        /\ \A e \in b + 1 .. i - 1 : ~Does(text[e], "end", "comment")
Count(text, what, d) ==
  Cardinality({i \in DOMAIN text : Does(text[i], what, d) /\ ~InComment(text, i)})
Complete(text) ==
  /\ \A d \in {"brace", "paren"} : Count(text, "begin", d) <= Count(text, "end", d)
  /\ ~InComment(text, Len(text) + 1)
  /\ text[Len(text)].what # "spliced"

\* The accumulator hands over a text at the first line that leaves nothing open, and
\* no later: a stray closing brace, or whatever came before, does not shift where the
\* next text ends.
TextsAreShortest ==
  /\ last.how = "typed" =>
       /\ Complete(last.text)
       /\ \A i \in 1 .. Len(last.text) - 1 : ~Complete(SubSeq(last.text, 1, i))
  /\ \A i \in 1 .. Len(acc) : ~Complete(SubSeq(acc, 1, i))

\* "Expression results are auto-printed" (docs.html): a correct expression of
\* a printable kind is evaluated once and printed, after any errors, pending
\* signals or definitions of Main.
ValuesArePrinted ==
  last.how = "typed" /\ last.unit.kind = "expr" /\ ~Fails(last.unit)
    /\ last.unit.value /\ last.unit.ends # "throw"
  => last.log = <<"unit">> /\ last.printed

\* A correct program that is typed is run, and once: it is dropped only while a break
\* outside of any loop is pending, and run a second time only if it is an expression
\* without a value to print.
RunsOf(log) == {i \in DOMAIN log : log[i] = "unit"}
CorrectTextsRun ==
  last.how = "typed" /\ ~Fails(last.unit) =>
    /\ RunsOf(last.log) = {} => last.before = "Break"
    /\ \/ RunsOf(last.log) \subseteq {1}
       \/ last.unit.kind = "expr" /\ ~last.unit.value

\* ":quit or Ctrl+D to exit" (the banner of run_repl): once the input has ended, so does
\* the session.  With readline it reads empty lines for ever; with getline it does so in
\* the middle of a text, where an empty line is a line more of the text.
CtrlDExits == eof ~> pc # "reading"

\* "Load and execute a .HC file" (:help): a correct file is executed.
LoadExecutes ==
  last.how = "load" /\ ~Fails(last.unit) /\ last.unit.kind = "decls" =>
    last.log # <<>>

\* The example session of docs.html: an expression may use what earlier inputs
\* defined, and its value is printed.
SessionRemembers ==
  [][last' # last /\ last'.how = "typed" /\ last'.unit.kind = "expr"
       /\ ~last'.unit.bad /\ last'.unit.value /\ last'.unit.ends = "normally"
       /\ last'.unit.uses \subseteq globals
     => last'.printed]_vars
=============================================================================
