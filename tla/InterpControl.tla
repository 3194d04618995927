--------------------------- MODULE InterpControl ----------------------------
(***************************************************************************)
(* The statement walker of the tree-walk interpreter: run, execStmt and    *)
(* the functions it dispatches to, evalCall, throw and catch.              *)
(*                                                                         *)
(* The C++ stack of active exec/eval functions is ctl, innermost last.  An *)
(* activation stands at a control point `at` of its function; the          *)
(* interpreter's own fields are the other variables.  A break, continue,   *)
(* goto or return only raises signal and returns; each activation below    *)
(* looks at signal when its callee comes back.                             *)
(*                                                                         *)
(* The value of a condition is not modelled: a test goes either way.       *)
(* Arguments are evaluated without effect on control.                      *)
(***************************************************************************)
EXTENDS HolyCAst, FiniteSets

CONSTANTS
  Programs,      \* the programs
  MaxCallDepth   \* kMaxCallDepth

ASSUME ProgramsAssumption == \A p \in Programs : WellFormed(p)
ASSUME MaxCallDepthAssumption == MaxCallDepth \in Nat \ {0}

VARIABLES
  prog,      \* the program that runs
  ctl,       \* activations of the C++ functions, innermost last
  frames,    \* call_stack_
  signal,    \* signal_
  pending,   \* pending_goto_
  labels,    \* labels_: the body whose table it holds, 0 for the empty map
  curFunc,   \* current_func_name_ (current_method_class_ goes with it)
  overflow,  \* a "call stack overflow" was diagnosed
  flow       \* history: the point each activation of the program has reached

vars == <<prog, ctl, frames, signal, pending, labels, curFunc, overflow, flow>>

Outside == "outside"     \* current_func_name_ is empty

Signals == {"None", "Break", "Continue", "Return"}
Points == {"start", "done", "loop", "check", "cond", "test", "after", "step",
           "select", "case", "caseCheck", "ret", "try", "call",
           "top", "topCheck", "main"}

(***************************************************************************)
(* at: where the activation stands; node: its statement, for a call the    *)
(* body called; i: the position in a statement list; saved: the context in *)
(* force when the activation began.  evalCall keeps func and labels of it  *)
(* in saved_func_name and saved_labels; the rest is history.               *)
(***************************************************************************)
Context == [depth : Nat, func : Funcs \cup {Outside}, labels : Nat]
Activation == [at : Points, node : Nat, i : Nat \ {0}, saved : Context]
Frame == [func : Funcs \cup {Outside}, ret : Nat]

Ctx == [depth |-> Len(frames), func |-> curFunc, labels |-> labels]
Active(at, n) == [at |-> at, node |-> n, i |-> 1, saved |-> Ctx]

\* The body of a call begins, in the context the call establishes.
Callee(n) == [at |-> "start", node |-> n, i |-> 1, saved |-> Ctx']

Top == ctl[Len(ctl)]
Rest == SubSeq(ctl, 1, Len(ctl) - 1)
Kids == prog.node[Top.node].kids
Is(kind, at) == ctl # <<>> /\ Top.at = at /\ prog.node[Top.node].kind = kind
At(at) == ctl # <<>> /\ Top.at = at

Resume(at) == [Top EXCEPT !.at = at]
ResumeAt(at, i) == [Top EXCEPT !.at = at, !.i = i]

Reach(pt) == Append(SubSeq(flow, 1, Len(flow) - 1), pt)
Enter(n) == <<n, "enter">>
Again(n) == <<n, "again">>

Go(next) == ctl' = Append(Rest, next)
Push(next, a) == ctl' = Append(Append(Rest, next), a)
Pop == ctl' = Rest
Quiet == UNCHANGED <<prog, frames, signal, pending, labels, curFunc, overflow, flow>>

-----------------------------------------------------------------------------
(***************************************************************************)
(* execStmt(n) called by the top activation, which resumes as next: a      *)
(* pending signal makes it return at once.                                 *)
(***************************************************************************)
Exec(n, next) ==
  /\ IF signal # "None"
     THEN Go(next) /\ UNCHANGED flow
     ELSE /\ Push(next, Active("start", n))
          /\ flow' = Reach(Enter(n))
  /\ UNCHANGED <<prog, frames, signal, pending, labels, curFunc, overflow>>

\* A call of one of the exec functions itself, without execStmt's guard.
ExecBody(n, next) ==
  /\ Push(next, Active("start", n))
  /\ flow' = Reach(Enter(n))
  /\ UNCHANGED <<prog, frames, signal, pending, labels, curFunc, overflow>>

(***************************************************************************)
(* evalCall: over the limit it reports an error and yields nothing;        *)
(* otherwise a frame is pushed, the context saved and replaced, and the    *)
(* body executed.                                                          *)
(***************************************************************************)
\* MUTANT of EnterCall: the limit counts the call about to be made.
EnterCallLimitOffByOne(f, next) ==
  \/ /\ Len(frames) + 1 >= MaxCallDepth
     /\ overflow' = TRUE
     /\ Go(next)
     /\ UNCHANGED <<prog, frames, signal, pending, labels, curFunc, flow>>
  \/ /\ Len(frames) + 1 < MaxCallDepth
     /\ frames' = Append(frames, [func |-> f, ret |-> 0])
     /\ curFunc' = f
     /\ labels' = prog.body[f]
     /\ LET call == Append(Append(Rest, next), Active("call", prog.body[f]))
        IN  ctl' = Append(call, Callee(prog.body[f]))
     /\ flow' = Append(flow, Enter(prog.body[f]))
     /\ UNCHANGED <<prog, signal, pending, overflow>>

EnterCall(f, next) ==
  \/ /\ Len(frames) >= MaxCallDepth
     /\ overflow' = TRUE
     /\ Go(next)
     /\ UNCHANGED <<prog, frames, signal, pending, labels, curFunc, flow>>
  \/ /\ Len(frames) < MaxCallDepth
     /\ frames' = Append(frames, [func |-> f, ret |-> 0])
     /\ curFunc' = f
     /\ labels' = prog.body[f]
     /\ LET call == Append(Append(Rest, next), Active("call", prog.body[f]))
        IN  ctl' = Append(call, Callee(prog.body[f]))
     /\ flow' = Append(flow, Enter(prog.body[f]))
     /\ UNCHANGED <<prog, signal, pending, overflow>>

(***************************************************************************)
(* throw unwinds the C++ stack to the nearest execStmt that is in a try.   *)
(* The C++ locals of the functions unwound die with them; the fields they  *)
(* would have restored stay as they are.  The catch clause clears signal   *)
(* and executes the catch body.  Without a try, run reports the exception  *)
(* and ends; under Main it pops one frame first.                           *)
(***************************************************************************)
CallsAbove(k) == Cardinality({j \in k+1..Len(ctl) : ctl[j].at = "call"})

\* MUTANT of Catch: the handler pops a frame, as if exactly one call unwound.
CatchPopsOneFrame ==
  \E k \in DOMAIN ctl :
    LET c == prog.node[ctl[k].node].kids[2] IN
    /\ ctl[k].at = "try"
    /\ \A j \in k+1..Len(ctl) : ctl[j].at # "try"
    /\ ctl' = Append(Append(SubSeq(ctl, 1, k - 1), [ctl[k] EXCEPT !.at = "done"]),
                     Active("start", c))
    /\ flow' = Append(SubSeq(flow, 1, Len(flow) - CallsAbove(k) - 1), Enter(c))
    /\ signal' = "None"
    /\ frames' = SubSeq(frames, 1, Len(frames) - 1)
    /\ UNCHANGED <<prog, pending, labels, curFunc, overflow>>

Catch ==
  \E k \in DOMAIN ctl :
    LET c == prog.node[ctl[k].node].kids[2] IN
    /\ ctl[k].at = "try"
    /\ \A j \in k+1..Len(ctl) : ctl[j].at # "try"
    /\ ctl' = Append(Append(SubSeq(ctl, 1, k - 1), [ctl[k] EXCEPT !.at = "done"]),
                     Active("start", c))
    /\ flow' = Append(SubSeq(flow, 1, Len(flow) - CallsAbove(k) - 1), Enter(c))
    /\ signal' = "None"
    /\ UNCHANGED <<prog, frames, pending, labels, curFunc, overflow>>

Unhandled ==
  /\ \A k \in DOMAIN ctl : ctl[k].at # "try"
  /\ ctl' = <<>> /\ flow' = <<>>
  /\ frames' = IF ctl[1].at = "main" THEN SubSeq(frames, 1, Len(frames) - 1)
               ELSE frames
  /\ UNCHANGED <<prog, signal, pending, labels, curFunc, overflow>>

\* The top activation evaluates e and resumes as next.
Eval(e, next) ==
  \/ e = Pure /\ Go(next) /\ Quiet
  \/ e \in Funcs /\ EnterCall(e, next)
  \/ e = Throw /\ (Catch \/ Unhandled)

-----------------------------------------------------------------------------
(* execStmt                                                                *)

Done == At("done") /\ Pop /\ Quiet

ExecSimple ==
  Is("simple", "start") /\ Eval(prog.node[Top.node].expr, Resume("done"))

SetSignal(s) ==
  /\ signal' = s
  /\ Pop
  /\ UNCHANGED <<prog, frames, labels, curFunc, overflow, flow>>

ExecBreak == Is("break", "start") /\ SetSignal("Break") /\ UNCHANGED pending
ExecContinue == Is("continue", "start") /\ SetSignal("Continue") /\ UNCHANGED pending
ExecGoto == /\ Is("goto", "start") /\ SetSignal("Break")
            /\ pending' = prog.node[Top.node].name

ExecLabel ==
  /\ Is("label", "start")
  /\ IF Kids = <<>> THEN Go(Resume("done")) /\ Quiet
     ELSE Exec(Kids[1], Resume("done"))

ExecTry == Is("try", "start") /\ ExecBody(Kids[1], Resume("try"))
LeaveTry == At("try") /\ Pop /\ Quiet

-----------------------------------------------------------------------------
(* execCompound: the loop over the statements, and the loop that runs the  *)
(* statements from a label on, which does the same after a jump.           *)

StartCompound == Is("compound", "start") /\ Go(Resume("loop")) /\ Quiet

ExecCompound ==
  /\ At("loop")
  /\ IF Top.i > Len(Kids) THEN Pop /\ Quiet
     ELSE Exec(Kids[Top.i], Resume("check"))

NextStatement ==
  /\ At("check") /\ signal = "None"
  /\ Go(ResumeAt("loop", Top.i + 1)) /\ Quiet

\* The pending label is looked up in labels_; it is taken if its entry names
\* this compound.
Target == LabelEntry(prog, labels, pending)
Found == /\ signal = "Break" /\ pending # NoLabel /\ labels # 0
         /\ Target # 0 /\ prog.node[Target].up = Top.node

\* MUTANT of Jump: the label stays pending.
JumpKeepsPending ==
  /\ At("check") /\ Found
  /\ signal' = "None"
  /\ Go(ResumeAt("loop", Position(prog, Target)))
  /\ UNCHANGED <<prog, frames, pending, labels, curFunc, overflow, flow>>

Jump ==
  /\ At("check") /\ Found
  /\ pending' = NoLabel
  /\ signal' = "None"
  /\ Go(ResumeAt("loop", Position(prog, Target)))
  /\ UNCHANGED <<prog, frames, labels, curFunc, overflow, flow>>

LeaveCompound == At("check") /\ signal # "None" /\ ~Found /\ Pop /\ Quiet

-----------------------------------------------------------------------------
(* execIf, execWhile, execFor, execDoWhile, execSwitch                     *)

EvalIf == Is("if", "start") /\ Eval(prog.node[Top.node].expr, Resume("test"))

ExecIf ==
  /\ Is("if", "test")
  /\ \/ \E i \in DOMAIN Kids : Exec(Kids[i], Resume("done"))
     \/ Len(Kids) = 1 /\ Pop /\ Quiet

StartWhile == Is("while", "start") /\ Go(Resume("cond")) /\ Quiet
StartFor == Is("for", "start") /\ Eval(prog.node[Top.node].init, Resume("cond"))
StartDoWhile == Is("dowhile", "start") /\ Exec(Kids[1], Resume("after"))

EvalCond == At("cond") /\ Eval(prog.node[Top.node].expr, Resume("test"))

TestLoop ==
  /\ At("test") /\ prog.node[Top.node].kind \in Loops
  /\ Exec(Kids[1], Resume("after")) \/ (Pop /\ Quiet)

\* After the body: a for evaluates its post expression, then the condition.
AfterBody ==
  /\ At("after") /\ signal \in {"None", "Continue"}
  /\ signal' = "None"
  /\ flow' = Reach(Again(Top.node))
  /\ Go(Resume(IF prog.node[Top.node].kind = "for" THEN "step" ELSE "cond"))
  /\ UNCHANGED <<prog, frames, pending, labels, curFunc, overflow>>

EvalPost == At("step") /\ Eval(prog.node[Top.node].post, Resume("cond"))

BreakLoop ==
  /\ At("after") /\ signal = "Break"
  /\ signal' = "None" /\ Pop
  /\ UNCHANGED <<prog, frames, pending, labels, curFunc, overflow, flow>>

ReturnFromLoop == At("after") /\ signal = "Return" /\ Pop /\ Quiet

EvalSwitch ==
  Is("switch", "start") /\ Eval(prog.node[Top.node].expr, Resume("select"))

SelectCase ==
  /\ At("select")
  /\ \/ \E i \in prog.node[Top.node].entries : Go(ResumeAt("case", i))
     \/ ~prog.node[Top.node].dflt /\ Pop
  /\ Quiet

ExecCase ==
  /\ At("case")
  /\ IF Top.i > Len(Kids) THEN Pop /\ Quiet
     ELSE Exec(Kids[Top.i], Resume("caseCheck"))

\* MUTANT of AfterCase: a break leaves the switch and goes on breaking.
AfterCaseKeepsBreak ==
  /\ At("caseCheck")
  /\ IF signal = "None" THEN Go(ResumeAt("case", Top.i + 1)) ELSE Pop
  /\ Quiet

AfterCase ==
  /\ At("caseCheck")
  /\ signal' = IF signal = "Break" THEN "None" ELSE signal
  /\ IF signal = "None" THEN Go(ResumeAt("case", Top.i + 1)) ELSE Pop
  /\ UNCHANGED <<prog, frames, pending, labels, curFunc, overflow, flow>>

-----------------------------------------------------------------------------
(* execReturn and the end of evalCall                                      *)

EvalReturn == Is("return", "start") /\ Eval(prog.node[Top.node].expr, Resume("ret"))

\* The value of a return is identified by the statement that returns it.
\* MUTANT of ExecReturn: the value goes to the outermost frame.
ExecReturnToFirstFrame ==
  /\ At("ret")
  /\ frames' = IF frames = <<>> THEN frames ELSE [frames EXCEPT ![1].ret = Top.node]
  /\ signal' = "Return"
  /\ Pop
  /\ UNCHANGED <<prog, pending, labels, curFunc, overflow, flow>>

ExecReturn ==
  /\ At("ret")
  /\ frames' = IF frames = <<>> THEN frames
               ELSE [frames EXCEPT ![Len(frames)].ret = Top.node]
  /\ signal' = "Return"
  /\ Pop
  /\ UNCHANGED <<prog, pending, labels, curFunc, overflow, flow>>

\* MUTANT of LeaveCall: the frame is not popped.
LeaveCallKeepsFrame ==
  /\ At("call")
  /\ labels' = Top.saved.labels
  /\ curFunc' = Top.saved.func
  /\ signal' = "None"
  /\ flow' = SubSeq(flow, 1, Len(flow) - 1)
  /\ Pop
  /\ UNCHANGED <<prog, frames, pending, overflow>>

\* MUTANT of LeaveCall: labels_ stays the table of the callee.
LeaveCallKeepsLabels ==
  /\ At("call")
  /\ frames' = SubSeq(frames, 1, Len(frames) - 1)
  /\ curFunc' = Top.saved.func
  /\ signal' = "None"
  /\ flow' = SubSeq(flow, 1, Len(flow) - 1)
  /\ Pop
  /\ UNCHANGED <<prog, pending, labels, overflow>>

LeaveCall ==
  /\ At("call")
  /\ frames' = SubSeq(frames, 1, Len(frames) - 1)
  /\ labels' = Top.saved.labels
  /\ curFunc' = Top.saved.func
  /\ signal' = "None"
  /\ flow' = SubSeq(flow, 1, Len(flow) - 1)
  /\ Pop
  /\ UNCHANGED <<prog, pending, overflow>>

-----------------------------------------------------------------------------
(* run                                                                     *)

RunStatement ==
  /\ At("top") /\ Top.i <= Len(Kids)
  /\ Exec(Kids[Top.i], Resume("topCheck"))

NextTop ==
  /\ At("topCheck")
  /\ IF signal = "Return"
     THEN signal' = "None" /\ ctl' = <<>> /\ flow' = <<>>
     ELSE Go(ResumeAt("top", Top.i + 1)) /\ UNCHANGED <<signal, flow>>
  /\ UNCHANGED <<prog, frames, pending, labels, curFunc, overflow>>

StartMain ==
  /\ At("top") /\ Top.i > Len(Kids) /\ prog.main # 0
  /\ frames' = Append(frames, [func |-> Outside, ret |-> 0])
  /\ labels' = prog.main
  /\ UNCHANGED <<prog, signal, pending, curFunc, overflow>>
  /\ ctl' = <<Active("main", prog.main), Callee(prog.main)>>
  /\ flow' = <<Enter(prog.main)>>

EndRun ==
  /\ At("top") /\ Top.i > Len(Kids) /\ prog.main = 0
  /\ ctl' = <<>> /\ flow' = <<>>
  /\ UNCHANGED <<prog, frames, signal, pending, labels, curFunc, overflow>>

EndMain ==
  /\ At("main")
  /\ ctl' = <<>> /\ flow' = <<>>
  /\ frames' = SubSeq(frames, 1, Len(frames) - 1)
  /\ signal' = "None"
  /\ UNCHANGED <<prog, pending, labels, curFunc, overflow>>

Ended == ctl = <<>> /\ UNCHANGED vars

-----------------------------------------------------------------------------
Init ==
  /\ prog \in Programs
  /\ frames = <<>>
  /\ signal = "None"
  /\ pending = NoLabel
  /\ labels = 0
  /\ curFunc = Outside
  /\ overflow = FALSE
  /\ ctl = <<Active("top", prog.top)>>
  /\ flow = <<Enter(prog.top)>>

Statement == Done \/ ExecSimple \/ ExecBreak \/ ExecContinue \/ ExecGoto
             \/ ExecLabel \/ ExecTry \/ LeaveTry
Compound == StartCompound \/ ExecCompound \/ NextStatement \/ Jump \/ LeaveCompound
Branch == EvalIf \/ ExecIf \/ EvalSwitch \/ SelectCase \/ ExecCase \/ AfterCase
Loop == StartWhile \/ StartFor \/ StartDoWhile \/ EvalCond \/ TestLoop
        \/ AfterBody \/ EvalPost \/ BreakLoop \/ ReturnFromLoop
CallReturn == EvalReturn \/ ExecReturn \/ LeaveCall
Run == RunStatement \/ NextTop \/ StartMain \/ EndRun \/ EndMain

Next == Statement \/ Compound \/ Branch \/ Loop \/ CallReturn \/ Run \/ Ended

Spec == Init /\ [][Next]_vars

-----------------------------------------------------------------------------
(* Properties.                                                             *)

\* Every field and every activation stays in its domain.
TypeOK ==
  /\ ctl \in Seq(Activation)
  /\ frames \in Seq(Frame)
  /\ signal \in Signals
  /\ pending \in Labels \cup {NoLabel}
  /\ labels \in Nat
  /\ curFunc \in Funcs \cup {Outside}
  /\ overflow \in BOOLEAN

\* Which statements have an activation that stands at which point.
StandsAt(kind, at) ==
  \/ at \in {"start", "done"}
  \/ kind = "compound"
     /\ at \in {"loop", "check", "call", "top", "topCheck", "main"}
  \/ kind \in Loops /\ at \in {"cond", "test", "after", "step"}
  \/ kind = "if" /\ at = "test"
  \/ kind = "switch" /\ at \in {"select", "case", "caseCheck"}
  \/ kind = "return" /\ at = "ret"
  \/ kind = "try" /\ at = "try"

Fitting == {a \in Activation : /\ a.node \in DOMAIN prog.node
                               /\ StandsAt(prog.node[a.node].kind, a.at)}

\* Signals, call frames, labels and exceptions together implement C control
\* flow with try/catch: whatever statement the walker begins next, whatever
\* call it ends, ControlFlow allows at that point of that activation.
CF == INSTANCE ControlFlow WITH act <- flow
ImplementsControlFlow == CF!Spec

\* The frames that evalCall and run push are there when they read back() and
\* pop: the call at depth d of the C++ stack finds more than d frames, and the
\* deeper call more than the shallower one, however exceptions unwound others.
IsCall(k) == ctl[k].at \in {"call", "main"}
FramesCoverCalls ==
  \A k \in DOMAIN ctl : IsCall(k) =>
    /\ ctl[k].saved.depth < Len(frames)
    /\ \A j \in 1..k-1 : IsCall(j) => ctl[j].saved.depth < ctl[k].saved.depth

\* A frame holds a return value only between its return statement and the end
\* of its call: it is the last frame and the Return signal is on its way.  No
\* call can then yield the value an earlier return left behind.
ReturnValueInFlight ==
  ctl # <<>> =>
    \A k \in DOMAIN frames :
      frames[k].ret # 0 => k = Len(frames) /\ signal = "Return"

\* Where a callee has come back, with whatever signal it left.
Unwinding == {"done", "check", "after", "caseCheck", "try", "call", "topCheck", "main"}

\* The inductive invariant behind FramesCoverCalls and ReturnValueInFlight: an
\* activation below the top waits where it expects a signal, unless it waits for
\* a call, which clears the signal; so Return is only seen by activations that
\* unwind, and nothing is called, thrown or pushed while it is under way.
Waiting == \A k \in 1..(Len(ctl) - 1) :
             ctl[k + 1].at # "call" => ctl[k].at \in Unwinding
ReturnUnwinds == ctl # <<>> /\ signal = "Return" => Top.at \in Unwinding
FramesInv ==
  /\ prog \in Programs
  /\ TypeOK
  /\ ctl \in Seq(Fitting)
  /\ FramesCoverCalls
  /\ Waiting
  /\ ReturnUnwinds
  /\ ReturnValueInFlight

\* What a call yields was returned by the function called, or nothing was.
ResultIsOwn ==
  At("call") =>
    LET ret == frames[Len(frames)].ret
    IN  ret # 0 => Root(prog, ret) = Top.node

\* The statement begun next after a goto, in the same activation, is the one its
\* label names.
GotoReachesLabel ==
  [][LET n == flow[Len(flow)][1]
     IN  prog.node[n].kind = "goto" /\ Len(flow') = Len(flow) =>
           /\ prog.node[flow'[Len(flow)][1]].name = prog.node[n].name
           /\ prog.node[flow'[Len(flow)][1]].kind = "label"]_flow

\* A goto that has not arrived is under way: no statement begins while the
\* interpreter still owes a jump.
PendingInFlight == pending # NoLabel => signal = "Break"

\* The unconditional reset of signal_ at the end of a call never hides a break
\* or a continue that the body failed to absorb.
NoSignalLost == At("call") \/ At("main") => signal \in {"None", "Return"}

\* So a jump is neither lost nor begun twice.
SignalsInFlight == PendingInFlight /\ NoSignalLost

\* Whatever calls an activation made, when it goes on the frame stack, the
\* function name and the label table are those it began with: evalCall
\* restores the interpreter's state.
StateRestored ==
  ctl # <<>> /\ Top.at \notin {"call", "main", "top", "topCheck"} => Ctx = Top.saved

\* The calls that are active, which is what kMaxCallDepth is meant to limit.
ActiveCalls == Cardinality({k \in DOMAIN ctl : IsCall(k)})
=============================================================================
