---------------------------- MODULE ControlFlow -----------------------------
(***************************************************************************)
(* What a HolyC program may do next: C control flow with try/catch, on a   *)
(* stack of activations.  An activation stands at the last point it        *)
(* reached.  Conditions are unknown, so a test may go either way; nothing  *)
(* else is free.  InterpControl is shown to implement this specification.  *)
(*                                                                         *)
(* A point is <<n, "enter">>, statement n begins, or <<n, "again">>, loop  *)
(* n is about to evaluate its condition after an iteration.                *)
(***************************************************************************)
EXTENDS HolyCAst

VARIABLES
  prog,  \* the program, any the parser builds
  act    \* the activations, the running one last

vars == <<prog, act>>

Enter(n) == <<n, "enter">>
Again(n) == <<n, "again">>
Exit == <<0, "exit">>

\* The points reached when statement n completes normally.
After(p, n) ==
  LET after[m \in DOMAIN p.node] ==
        LET u == p.node[m].up
            kids == p.node[u].kids
            i == Position(p, m)
        IN  IF u = 0 THEN {Exit}
            ELSE IF p.node[u].kind \in Loops THEN {Again(u)}
            ELSE IF p.node[u].kind \in {"compound", "switch"} /\ i < Len(kids)
            THEN {Enter(kids[i + 1])}
            ELSE after[u]
  IN  after[n]

\* The points that may follow a point within its activation.
Succ(p, pt) ==
  LET n == pt[1]
      kind == p.node[n].kind
      kids == p.node[n].kids
      loop == Enclosing(p, Loops, n)
      labelled == {m \in DOMAIN p.node :
                     /\ p.node[m].kind = "label" /\ p.node[m].name = p.node[n].name
                     /\ Root(p, m) = Root(p, n)}
  IN  CASE kind = "simple" -> After(p, n)
        [] kind \in {"compound", "label", "try"} ->
             IF kids = <<>> THEN After(p, n) ELSE {Enter(kids[1])}
        [] kind = "if" ->
             {Enter(kids[i]) : i \in DOMAIN kids}
             \cup (IF Len(kids) = 1 THEN After(p, n) ELSE {})
        [] kind \in {"while", "for"} -> {Enter(kids[1])} \cup After(p, n)
        [] kind = "dowhile" ->
             {Enter(kids[1])} \cup (IF pt = Again(n) THEN After(p, n) ELSE {})
        [] kind = "switch" ->
             {Enter(kids[i]) : i \in p.node[n].entries}
             \cup (IF p.node[n].dflt THEN {} ELSE After(p, n))
        [] kind = "break" -> After(p, Enclosing(p, Loops \cup {"switch"}, n))
        [] kind = "continue" -> {Again(loop)}
        [] kind = "goto" -> {Enter(m) : m \in labelled}
        [] kind = "return" -> {Exit}

-----------------------------------------------------------------------------
Here == act[Len(act)]
Below == SubSeq(act, 1, Len(act) - 1)

Init ==
  /\ WellFormed(prog)
  /\ act = <<Enter(prog.top)>>

Step ==
  /\ act # <<>>
  /\ \E pt \in Succ(prog, Here) \ {Exit} : act' = Append(Below, pt)

Call ==
  /\ act # <<>>
  /\ \E f \in Evaluated(prog, Here[1]) \cap Funcs :
       act' = Append(act, Enter(prog.body[f]))

Return ==
  /\ Len(act) > 1 /\ Exit \in Succ(prog, Here)
  /\ act' = Below

\* The statements outside every function are done: Main runs, if there is one,
\* unless they ended with a return.
StartMain ==
  /\ Len(act) = 1 /\ Exit \in Succ(prog, Here)
  /\ Root(prog, Here[1]) = prog.top /\ prog.main # 0 /\ prog.node[Here[1]].kind # "return"
  /\ act' = <<Enter(prog.main)>>

Finish ==
  /\ Len(act) = 1 /\ Exit \in Succ(prog, Here)
  /\ Root(prog, Here[1]) = prog.main \/ prog.main = 0 \/ prog.node[Here[1]].kind = "return"
  /\ act' = <<>>

\* An exception unwinds to the innermost activation that stands in a try body.
Catch ==
  /\ act # <<>> /\ Throw \in Evaluated(prog, Here[1])
  /\ \E k \in DOMAIN act :
       LET h == Handler(prog, act[k][1]) IN
       /\ h # 0
       /\ \A j \in k+1..Len(act) : Handler(prog, act[j][1]) = 0
       /\ act' = Append(SubSeq(act, 1, k - 1), Enter(prog.node[h].kids[2]))

Unhandled ==
  /\ act # <<>> /\ Throw \in Evaluated(prog, Here[1])
  /\ \A k \in DOMAIN act : Handler(prog, act[k][1]) = 0
  /\ act' = <<>>

Next ==
  /\ Step \/ Call \/ Return \/ StartMain \/ Finish \/ Catch \/ Unhandled
  /\ UNCHANGED prog

Spec == Init /\ [][Next]_vars
=============================================================================
