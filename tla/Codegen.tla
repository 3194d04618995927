------------------------------ MODULE Codegen -------------------------------
(***************************************************************************)
(* Control flow in the LLVM back end: how LLVMCodegen lowers statements to *)
(* basic blocks, and how the blocks run with the exceptions of holyc_rt.   *)
(*                                                                         *)
(* The compiler is the recursion of lowerStmt turned into a list of what   *)
(* it still has to do (todo): lower a statement, emit an instruction, move *)
(* the insertion point.  A block is named after the statement that creates *)
(* it and its role; the block of a label after the function and the label. *)
(*                                                                         *)
(* A "mark" is the debug location that emitLocation attaches: it tells     *)
(* which statement the running code has reached and has no effect.         *)
(*                                                                         *)
(* Conditions are unknown: a branch goes to any of its targets.  A         *)
(* function ends with a return whatever its value.                         *)
(***************************************************************************)
EXTENDS HolyCAst, SequencesExt

CONSTANTS
  Programs,   \* the programs
  MaxDepth    \* bound: active calls of the compiled program

VARIABLES
  prog,        \* the program
  todo,        \* what lowerStmt and its callers have still to do
  code,        \* the blocks, each a sequence of instructions
  ins,         \* the insertion block of builder_
  breakTo,     \* breakTargets_
  continueTo,  \* continueTargets_
  phase,       \* "compile", "run", "done", or "undefined"
  stack,       \* the calls of the running program, innermost last
  tryStack     \* __try_stack: the jmp_bufs of the tries entered

vars == <<prog, todo, code, ins, breakTo, continueTo, phase, stack, tryStack>>
compiler == <<todo, code, ins, breakTo, continueTo>>

Enter(n) == <<n, "enter">>
Again(n) == <<n, "again">>

\* Instructions.
Mark(pt) == <<"mark", pt>>
CallOf(f) == <<"call", prog.body[f]>>
CallMain == <<"main", prog.main>>
ThrowCall == <<"throw">>
SetJmp(n) == <<"setjmp", n>>   \* with the branch on its result
Push(n) == <<"push", n>>
Pop == <<"pop">>
Br(to) == <<"br", to>>
Ret == <<"ret">>
Terminators == {"br", "ret", "throw", "setjmp"}

\* Tasks.
Stmt(n) == <<"stmt", n>>
Eval(e) == <<"eval", e>>
Emit(i) == <<"emit", i>>
IfOpen(list) == <<"open", list>>    \* if the block has no terminator
At(b) == <<"at", b>>
LoopTargets(b, c) == <<"targets", b, <<c>>>>
SwitchTarget(b) == <<"targets", b, <<>>>>
DropTargets(loop) == <<"drop", loop>>
ScanLabels(n) == <<"labels", n>>
Fall(b) == IfOpen(<<Br({b})>>)

Terminated(b) == code[b] # <<>> /\ Last(code[b])[1] \in Terminators
Created(bs) == [b \in DOMAIN code \cup bs |-> IF b \in DOMAIN code THEN code[b] ELSE <<>>]
LabelBlock(root, name) == <<root, "label", name>>

-----------------------------------------------------------------------------
(***************************************************************************)
(* lowerStmt: what the case of each statement does, in order.              *)
(***************************************************************************)
LowerIf(n) ==
  LET kids == prog.node[n].kids
      else == IF Len(kids) = 2 THEN <<n, "else">> ELSE <<n, "merge">>
  IN  << Eval(prog.node[n].expr), Emit(Br({<<n, "then">>, else})),
         At(<<n, "then">>), Stmt(kids[1]), Fall(<<n, "merge">>) >>
      \o (IF Len(kids) = 1 THEN <<>>
          ELSE << At(else), Stmt(kids[2]), Fall(<<n, "merge">>) >>)
      \o << At(<<n, "merge">>) >>

\* MUTANT of LowerFor: continue skips the third clause.
LowerForContinueToCond(n) ==
  << Eval(prog.node[n].init), LoopTargets(<<n, "exit">>, <<n, "cond">>),
     Emit(Br({<<n, "cond">>})),
     At(<<n, "cond">>), Eval(prog.node[n].expr),
     Emit(Br({<<n, "body">>, <<n, "exit">>})),
     At(<<n, "body">>), Stmt(prog.node[n].kids[1]), Fall(<<n, "latch">>),
     At(<<n, "latch">>), Emit(Mark(Again(n))), Eval(prog.node[n].post),
     Emit(Br({<<n, "cond">>})),
     DropTargets(1), At(<<n, "exit">>) >>

LowerFor(n) ==
  << Eval(prog.node[n].init), LoopTargets(<<n, "exit">>, <<n, "latch">>),
     Emit(Br({<<n, "cond">>})),
     At(<<n, "cond">>), Eval(prog.node[n].expr),
     Emit(Br({<<n, "body">>, <<n, "exit">>})),
     At(<<n, "body">>), Stmt(prog.node[n].kids[1]), Fall(<<n, "latch">>),
     At(<<n, "latch">>), Emit(Mark(Again(n))), Eval(prog.node[n].post),
     Emit(Br({<<n, "cond">>})),
     DropTargets(1), At(<<n, "exit">>) >>

LowerWhile(n) ==
  << LoopTargets(<<n, "exit">>, <<n, "cond">>), Emit(Br({<<n, "cond">>})),
     At(<<n, "cond">>), Emit(Mark(Again(n))), Eval(prog.node[n].expr),
     Emit(Br({<<n, "body">>, <<n, "exit">>})),
     At(<<n, "body">>), Stmt(prog.node[n].kids[1]), Fall(<<n, "cond">>),
     DropTargets(1), At(<<n, "exit">>) >>

LowerDoWhile(n) ==
  << LoopTargets(<<n, "exit">>, <<n, "latch">>), Emit(Br({<<n, "body">>})),
     At(<<n, "body">>), Stmt(prog.node[n].kids[1]), Fall(<<n, "latch">>),
     At(<<n, "latch">>), Emit(Mark(Again(n))), Eval(prog.node[n].expr),
     Emit(Br({<<n, "body">>, <<n, "exit">>})),
     DropTargets(1), At(<<n, "exit">>) >>

\* The statements of a case follow those of the case before it: a case that
\* does not end in a jump falls into the next one.
LowerSwitch(n) ==
  LET s == prog.node[n]
      at(i) == IF i \in s.entries
               THEN << Fall(<<n, "case", i>>), At(<<n, "case", i>>), Stmt(s.kids[i]) >>
               ELSE << Stmt(s.kids[i]) >>
      upTo[i \in 0..Len(s.kids)] == IF i = 0 THEN <<>> ELSE upTo[i - 1] \o at(i)
      default == IF s.dflt THEN {} ELSE {<<n, "exit">>}
  IN  << Eval(s.expr), SwitchTarget(<<n, "exit">>),
         Emit(Br({<<n, "case", i>> : i \in s.entries} \cup default)) >>
      \o upTo[Len(s.kids)]
      \o << Fall(<<n, "exit">>), DropTargets(0), At(<<n, "exit">>) >>

\* MUTANT of LowerTry: the try body that falls off its end keeps its jmp_buf.
LowerTryWithoutPop(n) ==
  LET kids == prog.node[n].kids
  IN  << Emit(SetJmp(n)),
         At(<<n, "setup">>), Emit(Push(n)), Emit(Br({<<n, "try">>})),
         At(<<n, "try">>), Stmt(kids[1]), Fall(<<n, "merge">>),
         At(<<n, "catch">>), Stmt(kids[2]), Fall(<<n, "merge">>),
         At(<<n, "merge">>) >>

LowerTry(n) ==
  LET kids == prog.node[n].kids
  IN  << Emit(SetJmp(n)),
         At(<<n, "setup">>), Emit(Push(n)), Emit(Br({<<n, "try">>})),
         At(<<n, "try">>), Stmt(kids[1]), IfOpen(<<Pop, Br({<<n, "merge">>})>>),
         At(<<n, "catch">>), Stmt(kids[2]), Fall(<<n, "merge">>),
         At(<<n, "merge">>) >>

LowerLabel(n) ==
  LET b == LabelBlock(Root(prog, n), prog.node[n].name)
  IN  << Fall(b), At(b), Emit(Mark(Enter(n))) >>
      \o [i \in DOMAIN prog.node[n].kids |-> Stmt(prog.node[n].kids[i])]

\* A goto to a label without a block emits nothing.
LowerGoto(n) ==
  LET b == LabelBlock(Root(prog, n), prog.node[n].name)
  IN  (IF b \in DOMAIN code THEN << Fall(b) >> ELSE <<>>) \o << At(<<n, "dead">>) >>

LowerReturn(n) == << Eval(prog.node[n].expr), Emit(Ret), At(<<n, "dead">>) >>

JumpTo(targets) ==
  IF targets = <<>> THEN <<>> ELSE << Emit(Br({targets[Len(targets)]})) >>

Lower(n) ==
  CASE prog.node[n].kind = "simple" -> << Eval(prog.node[n].expr) >>
    [] prog.node[n].kind = "compound" ->
         [i \in DOMAIN prog.node[n].kids |-> Stmt(prog.node[n].kids[i])]
    [] prog.node[n].kind = "if" -> LowerIf(n)
    [] prog.node[n].kind = "for" -> LowerFor(n)
    [] prog.node[n].kind = "while" -> LowerWhile(n)
    [] prog.node[n].kind = "dowhile" -> LowerDoWhile(n)
    [] prog.node[n].kind = "switch" -> LowerSwitch(n)
    [] prog.node[n].kind = "try" -> LowerTry(n)
    [] prog.node[n].kind = "label" -> LowerLabel(n)
    [] prog.node[n].kind = "goto" -> LowerGoto(n)
    [] prog.node[n].kind = "return" -> LowerReturn(n)
    [] prog.node[n].kind = "break" -> JumpTo(breakTo)
    [] prog.node[n].kind = "continue" -> JumpTo(continueTo)

(***************************************************************************)
(* scanLabelsInStmt: the labels of a body that get their block before      *)
(* anything is lowered.  It does not enter a switch or a try.              *)
(***************************************************************************)
ScannedLabels(body) ==
  LET seen[m \in DOMAIN prog.node] ==
        LET u == prog.node[m].up
        IN  IF \/ m = body \/ u = 0
               \/ prog.node[u].kind \notin {"compound", "if", "label"} \cup Loops
            THEN m = body ELSE seen[u]
  IN  {m \in DOMAIN prog.node : prog.node[m].kind = "label" /\ seen[m]}

(***************************************************************************)
(* generate: the functions, then main, which runs the statements outside   *)
(* every function and calls Main.  The labels of main are not scanned.     *)
(***************************************************************************)
LowerFunction(body) ==
  << At(<<body, "entry">>), ScanLabels(body), Stmt(body), IfOpen(<<Ret>>) >>

LowerMainFunction ==
  << At(<<prog.top, "entry">>) >>
  \o [i \in DOMAIN prog.node[prog.top].kids |-> Stmt(prog.node[prog.top].kids[i])]
  \o (IF prog.main = 0 THEN << IfOpen(<<Ret>>) >>
      ELSE << Emit(CallMain), Emit(Ret) >>)

Bodies == {prog.body[f] : f \in Funcs} \cup ({prog.main} \ {0})
Generate ==
  LET order == SetToSeq(Bodies)
  IN  FlattenSeq([i \in DOMAIN order |-> LowerFunction(order[i])]) \o LowerMainFunction

-----------------------------------------------------------------------------
(* The compiler works through what is to be done.                          *)

Doing(task) == phase = "compile" /\ todo # <<>> /\ Head(todo)[1] = task
Arg == Head(todo)[2]
Continue(tasks) == todo' = tasks \o Tail(todo)
Extend(is) == code' = [code EXCEPT ![ins] = @ \o is]
Open == ~Terminated(ins)
Still == UNCHANGED <<prog, phase, stack, tryStack>>

\* A statement after a terminator of the block is dropped, labels and all.
LowerStmt ==
  /\ Doing("stmt")
  /\ IF Open
     THEN Continue(Lower(Arg)) /\ Extend(<<Mark(Enter(Arg))>>)
     ELSE Continue(<<>>) /\ UNCHANGED code
  /\ UNCHANGED <<ins, breakTo, continueTo>> /\ Still

LowerExpr ==
  /\ Doing("eval")
  /\ Continue(<<>>)
  /\ Extend(CASE Arg = Pure -> <<>>
              [] Arg = Throw -> <<ThrowCall>>
              [] Arg \in Funcs -> <<CallOf(Arg)>>)
  /\ UNCHANGED <<ins, breakTo, continueTo>> /\ Still

EmitInstruction ==
  /\ Doing("emit")
  /\ Continue(<<>>) /\ Extend(<<Arg>>)
  /\ UNCHANGED <<ins, breakTo, continueTo>> /\ Still

EmitIfOpen ==
  /\ Doing("open")
  /\ Continue(<<>>) /\ Extend(IF Open THEN Arg ELSE <<>>)
  /\ UNCHANGED <<ins, breakTo, continueTo>> /\ Still

SetInsertPoint ==
  /\ Doing("at")
  /\ Continue(<<>>)
  /\ code' = Created({Arg}) /\ ins' = Arg
  /\ UNCHANGED <<breakTo, continueTo>> /\ Still

ScanLabelsInStmt ==
  /\ Doing("labels")
  /\ Continue(<<>>)
  /\ code' = Created({LabelBlock(Arg, prog.node[m].name) : m \in ScannedLabels(Arg)})
  /\ UNCHANGED <<ins, breakTo, continueTo>> /\ Still

\* A loop sets both targets, a switch only that of break.
PushTargets ==
  /\ Doing("targets")
  /\ Continue(<<>>)
  /\ breakTo' = Append(breakTo, Arg)
  /\ continueTo' = continueTo \o Head(todo)[3]
  /\ UNCHANGED <<code, ins>> /\ Still

\* MUTANT of PopTargets: the switch leaves its break target behind.
PopTargetsOfLoops ==
  /\ Doing("drop")
  /\ Continue(<<>>)
  /\ breakTo' = IF Arg = 0 THEN breakTo ELSE Front(breakTo)
  /\ continueTo' = SubSeq(continueTo, 1, Len(continueTo) - Arg)
  /\ UNCHANGED <<code, ins>> /\ Still

PopTargets ==
  /\ Doing("drop")
  /\ Continue(<<>>)
  /\ breakTo' = Front(breakTo)
  /\ continueTo' = SubSeq(continueTo, 1, Len(continueTo) - Arg)
  /\ UNCHANGED <<code, ins>> /\ Still

-----------------------------------------------------------------------------
(* The program runs.                                                       *)

Activation(body) == [blk |-> <<body, "entry">>, i |-> 1, pt |-> Enter(body)]

Start ==
  /\ phase = "compile" /\ todo = <<>>
  /\ phase' = "run"
  /\ stack' = <<Activation(prog.top)>>
  /\ UNCHANGED <<prog, todo, code, ins, breakTo, continueTo, tryStack>>

Top == stack[Len(stack)]
Here == code[Top.blk][Top.i]
Ready(op) == phase = "run" /\ Here[1] = op
Continued == [Top EXCEPT !.i = @ + 1]
Replaced(a) == stack' = Append(Front(stack), a)

\* The debug location does nothing; the point of a loop that is entered stays
\* until its body has run.
ReachMark ==
  /\ Ready("mark")
  /\ Replaced(IF Here[2] = Again(Top.pt[1]) /\ Top.pt = Enter(Top.pt[1])
                  /\ prog.node[Top.pt[1]].kind = "while"
               THEN Continued ELSE [Continued EXCEPT !.pt = Here[2]])
  /\ UNCHANGED <<prog, phase, tryStack, compiler>>

Branch ==
  /\ Ready("br")
  /\ \E b \in Here[2] : Replaced([Top EXCEPT !.blk = b, !.i = 1])
  /\ UNCHANGED <<prog, phase, tryStack, compiler>>

Call ==
  /\ phase = "run" /\ Here[1] \in {"call", "main"}
  /\ Len(stack) < MaxDepth
  /\ stack' = Append(Front(stack), Continued) \o <<Activation(Here[2])>>
  /\ UNCHANGED <<prog, phase, tryStack, compiler>>

\* The jmp_bufs of calls deeper than d are gone: they are in dead frames.
Dangling(tries, d) ==
  [k \in DOMAIN tries |-> IF tries[k].frame > d THEN [tries[k] EXCEPT !.frame = 0]
                          ELSE tries[k]]

Return ==
  /\ Ready("ret")
  /\ stack' = Front(stack)
  /\ phase' = IF Len(stack) = 1 THEN "done" ELSE "run"
  /\ tryStack' = Dangling(tryStack, Len(stack) - 1)
  /\ UNCHANGED <<prog, compiler>>

\* setjmp returns 0.
EnterTry ==
  /\ Ready("setjmp")
  /\ Replaced([Top EXCEPT !.blk = <<Here[2], "setup">>, !.i = 1])
  /\ UNCHANGED <<prog, phase, tryStack, compiler>>

\* __holyc_try_push, __holyc_try_pop
TryPush ==
  /\ Ready("push")
  /\ tryStack' = Append(tryStack, [frame |-> Len(stack), try |-> Here[2]])
  /\ Replaced(Continued)
  /\ UNCHANGED <<prog, phase, compiler>>

TryPop ==
  /\ Ready("pop")
  /\ tryStack' = IF tryStack = <<>> THEN <<>> ELSE Front(tryStack)
  /\ Replaced(Continued)
  /\ UNCHANGED <<prog, phase, compiler>>

(***************************************************************************)
(* __holyc_throw: setjmp returns again, not 0, in the call that pushed the *)
(* last jmp_buf.  To jump into a call that has ended is undefined.         *)
(***************************************************************************)
ThrowTo ==
  /\ Ready("throw") /\ tryStack # <<>>
  /\ LET jb == Last(tryStack)
     IN  IF jb.frame = 0
         THEN phase' = "undefined" /\ UNCHANGED <<stack, tryStack>>
         ELSE /\ stack' = Append(SubSeq(stack, 1, jb.frame - 1),
                                 [blk |-> <<jb.try, "catch">>, i |-> 1,
                                  pt |-> Enter(prog.node[jb.try].kids[2])])
              /\ tryStack' = Dangling(Front(tryStack), jb.frame)
              /\ UNCHANGED phase
  /\ UNCHANGED <<prog, compiler>>

ThrowUnhandled ==
  /\ Ready("throw") /\ tryStack = <<>>
  /\ phase' = "done" /\ stack' = <<>>
  /\ UNCHANGED <<prog, tryStack, compiler>>

\* The program is over, or at the bound on its depth.
Ended ==
  /\ \/ phase \in {"done", "undefined"}
     \/ phase = "run" /\ Here[1] \in {"call", "main"} /\ Len(stack) = MaxDepth
  /\ UNCHANGED vars

-----------------------------------------------------------------------------
InitOf(p) ==
  /\ prog = p
  /\ todo = Generate
  /\ code = <<>> /\ ins = <<>>
  /\ breakTo = <<>> /\ continueTo = <<>>
  /\ phase = "compile"
  /\ stack = <<>> /\ tryStack = <<>>

Init == \E p \in Programs : InitOf(p)

Compile == LowerStmt \/ LowerExpr \/ EmitInstruction \/ EmitIfOpen \/ SetInsertPoint
           \/ ScanLabelsInStmt \/ PushTargets \/ PopTargets
Run == Start \/ ReachMark \/ Branch \/ Call \/ Return \/ EnterTry \/ TryPush
       \/ TryPop \/ ThrowTo \/ ThrowUnhandled

Next == Compile \/ Run \/ Ended

Spec == Init /\ [][Next]_vars

-----------------------------------------------------------------------------
(* Properties.                                                             *)

TypeOK ==
  /\ phase \in {"compile", "run", "done", "undefined"}
  /\ phase = "run" =>
       \A k \in DOMAIN stack : /\ stack[k].blk \in DOMAIN code
                               /\ stack[k].i \in DOMAIN code[stack[k].blk]
  /\ \A k \in DOMAIN tryStack : tryStack[k].frame \in 0..Len(stack)

\* What verifyModule asks of the module generated, which is why its code runs from
\* instruction to instruction: every block, also those of
\* dead code and of labels, ends with its only terminator and branches to blocks
\* that exist; and the targets of break and continue are all dropped.
ModuleVerifies ==
  /\ TypeOK
  /\ phase = "run" =>
    /\ breakTo = <<>> /\ continueTo = <<>>
    /\ \A b \in DOMAIN code :
         /\ \A i \in DOMAIN code[b] :
              code[b][i][1] \in Terminators <=> i = Len(code[b])
         /\ Terminated(b)
         /\ Last(code[b])[1] = "br" => Last(code[b])[2] \subseteq DOMAIN code

\* Call k has reached the end of the top level and waits for Main.
InMain(k) == stack[k].i > 1 /\ code[stack[k].blk][stack[k].i - 1] = CallMain

\* The try bodies the running calls are in, outermost first: of each call those
\* around the statement it has reached, none when it waits for Main.
OpenTries(k) ==
  LET around[n \in DOMAIN prog.node \cup {0}] ==
        IF n = 0 THEN <<>>
        ELSE LET h == Handler(prog, n)
             IN  around[h] \o IF h = 0 THEN <<>> ELSE <<[frame |-> k, try |-> h]>>
  IN  IF InMain(k) THEN <<>> ELSE around[stack[k].pt[1]]

\* Whenever the program may throw, the jmp_bufs on the runtime's stack are those
\* of the try bodies it is in, innermost last: a throw reaches the nearest try.
TryStackMatches ==
  phase = "run" /\ Here[1] \in {"throw", "call"} =>
    tryStack = FlattenSeq([k \in DOMAIN stack |-> OpenTries(k)])

\* The blocks run as the source reads: whatever statement the compiled program
\* reaches, whatever call it begins, ends or unwinds, ControlFlow allows next.
CF == INSTANCE ControlFlow
        WITH act <- IF phase = "compile" THEN <<Enter(prog.top)>>
                    ELSE LET pts == [k \in DOMAIN stack |-> stack[k].pt]
                         IN  IF stack # <<>> /\ InMain(1) THEN Tail(pts) ELSE pts
ImplementsControlFlow == CF!Spec

\* "throws by a longjmp to the nearest try block" (the comment of __holyc_throw):
\* the jmp_buf used is that of the innermost try body the program is in.  A try
\* body left by return, break, continue or goto keeps its jmp_buf on the stack.
ThrowReachesNearestTry ==
  phase = "run" /\ Here[1] = "throw" /\ tryStack # <<>> =>
    LET open == FlattenSeq([k \in DOMAIN stack |-> OpenTries(k)])
    IN  open # <<>> /\ Last(tryStack) = Last(open)
=============================================================================
