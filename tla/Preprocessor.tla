---------------------------- MODULE Preprocessor ----------------------------
(***************************************************************************)
(* The directives of the preprocessor: produce and the handlers it calls,  *)
(* over the stack of included files.  The text is chosen as it is read,    *)
(* one directive or word at a time; the body of a macro is one token.      *)
(***************************************************************************)
EXTENDS Naturals, Sequences, SequencesExt, FiniteSets

CONSTANTS
  Names,      \* the names of macros
  Undefined,  \* what a name that is no macro is in the table
  Files,      \* the files that may be included
  MainFile,   \* the file that is compiled
  AotMode,    \* aot_mode_
  MaxInclude, \* kMaxIncludeDepth
  MaxRead     \* bound: how many directives and words are read

VARIABLES
  macros,  \* macros_: for each name its body, Undefined if it has none
  files,   \* include_stack_, the file being read last
  conds,   \* cond_stack_
  mode,    \* "produce"; inside "skip" or "toEnd"; "over"; "crashed"
  depth,   \* the depth of those two loops
  errors,  \* how many errors have been reported
  line,    \* history: the kind of the item read last, and whether it was taken
  read     \* history: how many items have been read

vars == <<macros, files, conds, mode, depth, errors, line, read>>

-----------------------------------------------------------------------------
(* Conditions.                                                             *)

Bodies == Names \cup {"0", "1"}
IsMacro(b) == b \in Names /\ macros[b] # Undefined

\* evalPrimary: a name stands for the value of its body, and so on; it has no
\* record of the names it has been through.  A name that is no macro is 0.
Followed(b) ==
  LET f[k \in 0 .. Cardinality(Names)] ==
        IF k = 0 THEN b ELSE IF IsMacro(f[k - 1]) THEN macros[f[k - 1]] ELSE f[k - 1]
  IN f[Cardinality(Names)]

Endless(c) == c.test = "value" /\ IsMacro(Followed(c.of))

Conditions ==
  [test : {"value"}, of : Bodies] \cup [test : {"ifdef", "ifndef"}, of : Names]
    \cup [test : {"ifaot", "ifjit"}, of : {"0"}]

Holds(c) ==
  CASE c.test = "value" -> Followed(c.of) = "1"
    [] c.test = "ifdef" -> macros[c.of] # Undefined
    [] c.test = "ifndef" -> macros[c.of] = Undefined
    [] c.test = "ifaot" -> AotMode
    [] OTHER -> ~AotMode

-----------------------------------------------------------------------------
isActive == \A i \in DOMAIN conds : conds[i] = "Active"
condPush(s) == conds' = Append(conds, s)
condPop == conds' = Front(conds)
condSetBack(s) == conds' = [conds EXCEPT ![Len(conds)] = s]

\* An item that is taken is passed on or obeyed.
Item(kind, t) == read < MaxRead /\ read' = read + 1 /\ line' = <<kind, t>>
Producing == mode = "produce"
Report == errors' = errors + 1

-----------------------------------------------------------------------------
(* produce: an item outside of the loops that skip.                        *)

Word ==
  /\ Producing /\ Item("text", isActive)
  /\ UNCHANGED <<macros, files, conds, mode, depth, errors>>

\* #define, and #undef, which leaves no body.
Define(n, b) ==
  /\ Producing /\ Item("text", isActive)
  /\ macros' = IF isActive THEN [macros EXCEPT ![n] = b] ELSE macros
  /\ UNCHANGED <<files, conds, mode, depth, errors>>

\* A file that is being read already is refused.
Include(f) ==
  /\ Producing /\ Item("text", isActive)
  /\ IF ~isActive THEN UNCHANGED <<files, errors>>
     ELSE IF Len(files) >= MaxInclude \/ f \in ToSet(files)
          THEN Report /\ UNCHANGED files
          ELSE files' = Append(files, f) /\ UNCHANGED errors
  /\ UNCHANGED <<macros, conds, mode, depth>>

\* handleIf, handleIfdef, handleIfaot and handleIfjit; in an inactive part the
\* group is skipped to its end.
If(c) ==
  /\ Producing /\ ~(isActive /\ Endless(c)) /\ Item("if", isActive)
  /\ IF isActive /\ Holds(c)
     THEN condPush("Active") /\ UNCHANGED <<mode, depth>>
     ELSE /\ condPush(IF isActive THEN "SkipToElse" ELSE "SkipToEnd")
          /\ mode' = "skip" /\ depth' = 1
  /\ UNCHANGED <<macros, files, errors>>

\* MUTANT of ElifElse: a later branch may be chosen as well.
ElifElseAgain(kind) ==
  /\ Producing /\ Item(kind, FALSE)
  /\ IF conds = <<>> THEN Report /\ UNCHANGED <<conds, mode, depth>>
     ELSE condSetBack("SkipToElse") /\ mode' = "skip" /\ depth' = 1 /\ UNCHANGED errors
  /\ UNCHANGED <<macros, files>>

\* handleElif and handleElse after a branch that was taken.
ElifElse(kind) ==
  /\ Producing /\ Item(kind, FALSE)
  /\ IF conds = <<>> THEN Report /\ UNCHANGED <<conds, mode, depth>>
     ELSE condSetBack("SkipToEnd") /\ mode' = "toEnd" /\ depth' = 1 /\ UNCHANGED errors
  /\ UNCHANGED <<macros, files>>

Endif ==
  /\ Producing /\ Item("endif", FALSE)
  /\ IF conds = <<>> THEN Report /\ UNCHANGED conds ELSE condPop /\ UNCHANGED errors
  /\ UNCHANGED <<macros, files, mode, depth>>

-----------------------------------------------------------------------------
(* skipConditionalBlock, and the loops of handleElif and handleElse.       *)

Skipping == mode \in {"skip", "toEnd"}
Passed == UNCHANGED <<macros, files, conds, mode, depth, errors>>
Resume == mode' = "produce" /\ depth' = 0 /\ UNCHANGED <<macros, files, errors>>

SkipItem == Skipping /\ Item("text", FALSE) /\ Passed

SkipIf ==
  /\ Skipping /\ Item("if", FALSE)
  /\ depth' = depth + 1
  /\ UNCHANGED <<macros, files, conds, mode, errors>>

\* Both loops are left at the #endif of their group; the handler pops it.
SkipEndif ==
  /\ Skipping /\ Item("endif", FALSE)
  /\ IF depth = 1 THEN condPop /\ Resume
     ELSE depth' = depth - 1 /\ UNCHANGED <<macros, files, conds, mode, errors>>

SkipElse ==
  /\ Skipping /\ Item("else", FALSE)
  /\ IF mode = "skip" /\ depth = 1 THEN condSetBack("Active") /\ Resume ELSE Passed

SkipElif(c) ==
  LET examined == mode = "skip" /\ depth = 1
  IN /\ Skipping /\ ~(examined /\ Endless(c)) /\ Item("elif", FALSE)
     /\ IF examined /\ Holds(c) THEN condSetBack("Active") /\ Resume ELSE Passed

-----------------------------------------------------------------------------
\* A condition that names a macro whose expansion comes back to itself is never
\* evaluated: the stack overflows.
Overflow(c) ==
  /\ Endless(c)
  /\ (Producing /\ isActive) \/ (mode = "skip" /\ depth = 1)
  /\ mode' = "crashed"
  /\ UNCHANGED <<macros, files, conds, depth, errors, line, read>>

\* rawNext goes on with the file that included this one, whatever is open.
EndOfFile ==
  /\ mode \in {"produce", "skip", "toEnd"}
  /\ IF Len(files) > 1
     THEN files' = Front(files) /\ UNCHANGED <<mode, errors, conds>>
     ELSE /\ UNCHANGED files
          /\ mode' = "over"
          /\ errors' = IF Skipping THEN errors + 1 ELSE errors
          /\ conds' = IF mode = "skip" THEN Front(conds) ELSE conds
  /\ UNCHANGED <<macros, depth, line, read>>

Init ==
  /\ macros = [n \in Names |-> Undefined]
  /\ files = <<MainFile>> /\ conds = <<>> /\ mode = "produce" /\ depth = 0
  /\ errors = 0 /\ line = <<"none", FALSE>> /\ read = 0

Next ==
  \/ Word \/ SkipItem \/ ElifElse("elif") \/ ElifElse("else") \/ Endif \/ SkipIf \/ SkipEndif \/ SkipElse
  \/ \E n \in Names : \E b \in Bodies \cup {Undefined} : Define(n, b)
  \/ \E f \in Files : Include(f)
  \/ \E c \in Conditions : If(c) \/ SkipElif(c) \/ Overflow(c)
  \/ EndOfFile

Spec == Init /\ [][Next]_vars

-----------------------------------------------------------------------------
(* Properties.                                                             *)

\* The state of the group a cond_stack_ entry stands for.
GroupOf(s) == CASE s = "Active" -> "on" [] s = "SkipToElse" -> "wait" [] OTHER -> "off"

\* The groups that the loops only count are all off.
openGroups ==
  IF mode = "over" THEN <<>>
  ELSE [i \in DOMAIN conds |-> GroupOf(conds[i])] \o [i \in 1 .. depth - 1 |-> "off"]

Abstract == INSTANCE CondGroups WITH groups <- openGroups, over <- mode = "over"

\* Outside of the loops that skip everything is active, so that produce never
\* has to drop an item itself.
ProducesActive == Producing => isActive

\* A file is never read inside itself, and the stack of files is bounded.
IncludesAreChains ==
  Len(files) <= MaxInclude /\ \A i, j \in DOMAIN files : i # j => files[i] # files[j]

\* However groups are nested, in whichever files their parts are: exactly the
\* lines are passed on or obeyed all of whose groups have chosen their branch,
\* and a group chooses the first branch that holds.
ImplementsGroups == [](ProducesActive /\ IncludesAreChains) /\ Abstract!Spec
=============================================================================
