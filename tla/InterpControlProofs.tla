------------------------ MODULE InterpControlProofs -------------------------
(***************************************************************************)
(* Theorems about the statement walker (InterpControl), for every set of   *)
(* well-formed programs and every limit of the call depth.                 *)
(*                                                                         *)
(*  1. The helpers Go, Pop, Exec, EnterCall, Catch and Unhandled, and then *)
(*     one step per action: FramesInv is inductive.                        *)
(*  2. Trees: what the recursive functions of HolyCAst compute at a node,  *)
(*     from what they compute at its parent.                               *)
(*  3. Nested: on which activation which other may stand, and Kept: what   *)
(*     they have saved, where no exception leaves its call.  From it, that *)
(*     results are of the function called and that the context is kept.    *)
(*  4. Flowing: what each activation, at its point and with the signal it  *)
(*     sees, means for the history of the program.  From it, that no jump  *)
(*     is lost and that the walker implements ControlFlow, for the         *)
(*     programs that are Safe.                                             *)
(***************************************************************************)
EXTENDS InterpControl, CommonLemmas, FiniteSetTheorems

-----------------------------------------------------------------------------
(* The frames.                                                             *)

\* The facts about the running program and the top activation that the step
\* lemmas start from.
LEMMA TopFacts ==
  ASSUME FramesInv, ctl # <<>>
  PROVE  /\ Len(ctl) \in Nat \ {0}
         /\ Top \in Fitting
         /\ Rest \in Seq(Fitting)
         /\ Len(Rest) = Len(ctl) - 1
         /\ \A k \in 1..(Len(ctl) - 1) : Rest[k] = ctl[k]
         /\ WellFormed(prog)
         /\ prog.node[Top.node] \in Node
         /\ prog.node[Top.node].expr \in Exprs
         /\ prog.node[Top.node].init \in Exprs
         /\ prog.node[Top.node].post \in Exprs
         /\ \A i \in DOMAIN Kids : Kids[i] \in DOMAIN prog.node
         /\ Ctx \in Context
<1>1. /\ Len(ctl) \in Nat \ {0}
      /\ Top \in Fitting
      /\ Rest \in Seq(Fitting)
      /\ Len(Rest) = Len(ctl) - 1
      /\ \A k \in 1..(Len(ctl) - 1) : Rest[k] = ctl[k]
  BY PopStack DEF FramesInv, Top, Rest
<1>2. WellFormed(prog)
  BY ProgramsAssumption DEF FramesInv
<1>3. prog.node[Top.node] \in Node
  BY <1>1, <1>2 DEF WellFormed, Fitting
<1>4. /\ prog.node[Top.node].expr \in Exprs
      /\ prog.node[Top.node].init \in Exprs
      /\ prog.node[Top.node].post \in Exprs
  BY <1>3 DEF Node
<1>5. \A i \in DOMAIN Kids : Kids[i] \in DOMAIN prog.node
  BY <1>1, <1>2 DEF WellFormed, Kids, Fitting
<1>6. Ctx \in Context
  BY DEF Ctx, Context, FramesInv, TypeOK
<1> QED
  BY <1>1, <1>2, <1>3, <1>4, <1>5, <1>6

\* A node index is a number.
LEMMA NodesAreNumbers ==
  ASSUME FramesInv, NEW n \in DOMAIN prog.node
  PROVE  n \in Nat \ {0}
<1>1. prog.node \in Seq(Node)
  BY ProgramsAssumption DEF FramesInv, WellFormed
<1> QED
  BY <1>1

\* The top activation resumed at another point that its statement has.
LEMMA ResumeFits ==
  ASSUME FramesInv, ctl # <<>>, NEW at \in Points, NEW i \in Nat \ {0},
         StandsAt(prog.node[Top.node].kind, at)
  PROVE  /\ Resume(at) \in Fitting /\ Resume(at).at = at
         /\ Resume(at).saved = Top.saved /\ Resume(at).node = Top.node
         /\ ResumeAt(at, i) \in Fitting /\ ResumeAt(at, i).at = at
         /\ ResumeAt(at, i).saved = Top.saved /\ ResumeAt(at, i).node = Top.node
<1>1. Top \in Fitting
  BY TopFacts
<1>2. Top \in Activation /\ Top.node \in DOMAIN prog.node
  BY <1>1 DEF Fitting
<1>3. /\ Resume(at) \in Activation /\ Resume(at).at = at
      /\ Resume(at).saved = Top.saved /\ Resume(at).node = Top.node
  BY <1>2 DEF Resume, Activation
<1>4. /\ ResumeAt(at, i) \in Activation /\ ResumeAt(at, i).at = at
      /\ ResumeAt(at, i).saved = Top.saved /\ ResumeAt(at, i).node = Top.node
  BY <1>2 DEF ResumeAt, Activation
<1> QED
  BY <1>2, <1>3, <1>4 DEF Fitting

-----------------------------------------------------------------------------
(* The part of the invariant that speaks of ctl.                           *)

CtlInv == ctl \in Seq(Fitting) /\ FramesCoverCalls /\ Waiting

\* The top activation goes on at another point; it was not in a call.
LEMMA GoKeeps ==
  ASSUME FramesInv, ctl # <<>>, NEW next \in Fitting, Go(next),
         prog' = prog, Len(frames') = Len(frames),
         Top.at \notin {"call", "main"}, next.at \notin {"call", "main"}
  PROVE  CtlInv' /\ ctl' # <<>> /\ Top' = next
<1>1. /\ ctl' \in Seq(Fitting)
      /\ Len(ctl') = Len(ctl)
      /\ ctl'[Len(ctl)] = next
      /\ \A k \in 1..(Len(ctl) - 1) : ctl'[k] = ctl[k]
  <2>1. ctl \in Seq(Fitting)
    BY DEF FramesInv
  <2> QED
    BY <2>1, ReplaceTop DEF Go, Rest
<1>2. Fitting' = Fitting
  BY DEF Fitting
<1>3. Len(ctl) \in Nat \ {0} /\ DOMAIN ctl = 1..Len(ctl) /\ DOMAIN ctl' = 1..Len(ctl)
  BY <1>1, TopFacts DEF FramesInv
<1>4. FramesCoverCalls'
  BY <1>1, <1>3 DEF FramesInv, FramesCoverCalls, IsCall
<1>5. Waiting'
  <2> SUFFICES ASSUME NEW k \in 1..(Len(ctl) - 1), ctl'[k + 1].at # "call"
               PROVE  ctl'[k].at \in Unwinding
    BY <1>1 DEF Waiting, Unwinding
  <2>1. ctl[k + 1].at # "call" => ctl[k].at \in Unwinding
    BY DEF FramesInv, Waiting
  <2>2. ctl'[k] = ctl[k]
    BY <1>1
  <2>3. CASE k = Len(ctl) - 1
    BY <2>1, <2>2, <2>3, <1>3 DEF Top
  <2>4. CASE k # Len(ctl) - 1
    <3>0. Len(ctl) \in Nat
      BY <1>3
    <3>1. k + 1 \in 1..(Len(ctl) - 1)
      BY <2>4, <3>0
    <3> QED
      BY <3>1, <2>1, <2>2, <1>1
  <2> QED
    BY <2>3, <2>4
<1>6. ctl' # <<>> /\ Top' = next
  BY <1>1, <1>3 DEF Top
<1> QED
  BY <1>1, <1>2, <1>4, <1>5, <1>6 DEF CtlInv

\* The top activation ends; the one below it, if it did not wait for a call,
\* looks at the signal.
LEMMA PopKeeps ==
  ASSUME FramesInv, ctl # <<>>, Pop, prog' = prog, Len(frames') = Len(frames)
  PROVE  CtlInv' /\ (ctl' # <<>> /\ Top.at # "call" => Top'.at \in Unwinding)
<1>1. /\ ctl' \in Seq(Fitting)
      /\ Len(ctl) \in Nat \ {0}
      /\ Len(ctl') = Len(ctl) - 1
      /\ \A k \in 1..(Len(ctl) - 1) : ctl'[k] = ctl[k]
  BY TopFacts DEF Pop
<1>2. Fitting' = Fitting
  BY DEF Fitting
<1>3. DOMAIN ctl = 1..Len(ctl) /\ DOMAIN ctl' = 1..(Len(ctl) - 1)
  BY <1>1 DEF FramesInv
<1>4. FramesCoverCalls'
  BY <1>1, <1>3 DEF FramesInv, FramesCoverCalls, IsCall
<1>5. Waiting'
  BY <1>1, <1>3 DEF FramesInv, Waiting
<1>6. ASSUME ctl' # <<>>, Top.at # "call"
      PROVE  Top'.at \in Unwinding
  <2>1. Len(ctl) - 1 \in 1..(Len(ctl) - 1)
    BY <1>1, <1>6
  <2>2. ctl[Len(ctl) - 1].at \in Unwinding
    BY <2>1, <1>6 DEF FramesInv, Waiting, Top
  <2> QED
    BY <1>1, <2>1, <2>2 DEF Top
<1> QED
  BY <1>1, <1>2, <1>4, <1>5, <1>6 DEF CtlInv

\* The top activation, at a point that looks at signals, calls an exec function.
LEMMA PushKeeps ==
  ASSUME FramesInv, ctl # <<>>, NEW next \in Fitting, NEW a \in Fitting,
         Push(next, a), prog' = prog, Len(frames') = Len(frames),
         Top.at \notin {"call", "main"}, next.at \in Unwinding \ {"call", "main"},
         a.at = "start"
  PROVE  CtlInv' /\ ctl' # <<>> /\ Top' = a
<1> DEFINE s == Append(Rest, next)
<1>0. ctl \in Seq(Fitting)
  BY DEF FramesInv
<1>1. /\ s \in Seq(Fitting)
      /\ Len(s) = Len(ctl)
      /\ s[Len(ctl)] = next
      /\ \A k \in 1..(Len(ctl) - 1) : s[k] = ctl[k]
  BY <1>0, ReplaceTop DEF Rest
<1>2. ctl' = Append(s, a)
  BY DEF Push
<1> HIDE DEF s
<1>3. /\ ctl' \in Seq(Fitting)
      /\ Len(ctl') = Len(ctl) + 1
      /\ ctl'[Len(ctl) + 1] = a
      /\ \A k \in 1..Len(ctl) : ctl'[k] = s[k]
  BY <1>1, <1>2, PushStack
<1>4. /\ Len(ctl) \in Nat \ {0}
      /\ DOMAIN ctl = 1..Len(ctl) /\ DOMAIN ctl' = 1..(Len(ctl) + 1)
  BY <1>3, TopFacts DEF FramesInv
<1>5. /\ ctl'[Len(ctl)] = next
      /\ \A k \in 1..(Len(ctl) - 1) : ctl'[k] = ctl[k]
  BY <1>1, <1>3, <1>4
<1>6. Fitting' = Fitting
  BY DEF Fitting
<1>7. FramesCoverCalls'
  BY <1>3, <1>4, <1>5 DEF FramesInv, FramesCoverCalls, IsCall
<1>8. Waiting'
  <2> SUFFICES ASSUME NEW k \in 1..(Len(ctl') - 1), ctl'[k + 1].at # "call"
               PROVE  ctl'[k].at \in Unwinding
    BY DEF Waiting, Unwinding
  <2>0. k \in 1..Len(ctl) /\ Len(ctl) \in Nat
    BY <1>3, <1>4
  <2>1. CASE k = Len(ctl)
    BY <2>1, <1>5
  <2>2. CASE k = Len(ctl) - 1
    <3>1. ctl[k + 1].at # "call" => ctl[k].at \in Unwinding
      BY <2>2, <1>3, <1>4 DEF FramesInv, Waiting
    <3> QED
      BY <3>1, <2>2, <1>4, <1>5 DEF Top
  <2>3. CASE k < Len(ctl) - 1
    <3>1. ctl[k + 1].at # "call" => ctl[k].at \in Unwinding
      BY <2>3, <1>3, <1>4 DEF FramesInv, Waiting
    <3> QED
      BY <3>1, <2>3, <1>3, <1>4, <1>5
  <2> QED
    BY <2>0, <2>1, <2>2, <2>3
<1>9. ctl' # <<>> /\ Top' = a
  BY <1>3, <1>4 DEF Top
<1> QED
  BY <1>3, <1>6, <1>7, <1>8, <1>9 DEF CtlInv

-----------------------------------------------------------------------------
(* The helpers that evaluate and execute.                                  *)

LEMMA FittingTyped ==
  Seq(Fitting) \subseteq Seq(Activation)
BY SeqMonotonic DEF Fitting

\* A step that leaves everything but ctl alone.
LEMMA QuietKeeps ==
  ASSUME FramesInv, ctl # <<>>, CtlInv', Quiet,
         ctl' # <<>> /\ signal = "Return" => Top'.at \in Unwinding
  PROVE  FramesInv'
<1>1. prog' \in Programs /\ (ctl \in Seq(Fitting))' /\ FramesCoverCalls' /\ Waiting'
  BY DEF FramesInv, CtlInv, Quiet
<1>2. TypeOK'
  <2>1. Fitting' = Fitting
    BY DEF Fitting, Quiet
  <2>2. ctl' \in Seq(Activation)
    BY <1>1, <2>1, FittingTyped
  <2> QED
    BY <2>2 DEF FramesInv, TypeOK, Quiet
<1>3. ReturnUnwinds'
  BY DEF ReturnUnwinds, Quiet
<1>4. ReturnValueInFlight'
  BY DEF FramesInv, ReturnValueInFlight, Quiet
<1> QED
  BY <1>1, <1>2, <1>3, <1>4 DEF FramesInv

\* Going on at a point that looks at signals, or when there is no Return.
LEMMA GoQuietly ==
  ASSUME FramesInv, ctl # <<>>, NEW next \in Fitting, Go(next), Quiet,
         Top.at \notin {"call", "main"}, next.at \notin {"call", "main"},
         signal # "Return" \/ next.at \in Unwinding
  PROVE  FramesInv'
<1>1. CtlInv' /\ Top' = next
  BY GoKeeps DEF Quiet
<1> QED
  BY <1>1, QuietKeeps

LEMMA PopQuietly ==
  ASSUME FramesInv, ctl # <<>>, Pop, Quiet, Top.at # "call"
  PROVE  FramesInv'
<1>1. CtlInv' /\ (ctl' # <<>> => Top'.at \in Unwinding)
  BY PopKeeps DEF Quiet
<1> QED
  BY <1>1, QuietKeeps

\* A new activation at the beginning of a statement.
LEMMA ActiveFits ==
  ASSUME FramesInv, ctl # <<>>, NEW n \in DOMAIN prog.node
  PROVE  Active("start", n) \in Fitting /\ Active("start", n).at = "start"
BY TopFacts, NodesAreNumbers DEF Active, Fitting, Activation, StandsAt, Points

LEMMA ExecKeeps ==
  ASSUME FramesInv, ctl # <<>>, NEW n \in DOMAIN prog.node, NEW next \in Fitting,
         Exec(n, next) \/ (ExecBody(n, next) /\ signal # "Return"),
         Top.at \notin {"call", "main"}, next.at \in Unwinding \ {"call", "main"}
  PROVE  FramesInv'
<1>1. CASE signal # "None" /\ Exec(n, next)
  <2>1. Go(next) /\ Quiet
    BY <1>1 DEF Exec, Quiet
  <2> QED
    BY <2>1, GoQuietly
<1>2. CASE \/ signal = "None" /\ Exec(n, next)
           \/ ExecBody(n, next) /\ signal # "Return"
  <2> DEFINE a == Active("start", n)
  <2>1. a \in Fitting /\ a.at = "start"
    BY ActiveFits
  <2>2. /\ Push(next, a) /\ signal # "Return"
        /\ UNCHANGED <<prog, frames, signal, pending, labels, curFunc, overflow>>
    BY <1>2 DEF Exec, ExecBody
  <2>3. CtlInv' /\ ctl' # <<>>
    BY <2>1, <2>2, PushKeeps
  <2>4. TypeOK'
    BY <2>2, <2>3, FittingTyped DEF FramesInv, TypeOK, CtlInv, Fitting
  <2>5. ReturnUnwinds'
    BY <2>2 DEF ReturnUnwinds
  <2>6. ReturnValueInFlight'
    BY <2>2 DEF FramesInv, ReturnValueInFlight
  <2> QED
    BY <2>2, <2>3, <2>4, <2>5, <2>6 DEF FramesInv, CtlInv
<1> QED
  BY <1>1, <1>2

\* A call: the frame pushed is above every frame of a caller.
LEMMA EnterCallKeeps ==
  ASSUME FramesInv, ctl # <<>>, NEW f \in Funcs, NEW next \in Fitting,
         EnterCall(f, next), Top.at \notin {"call", "main"},
         next.at \notin {"call", "main"}, signal # "Return"
  PROVE  FramesInv'
<1>1. CASE /\ overflow' = TRUE
           /\ Go(next)
           /\ UNCHANGED <<prog, frames, signal, pending, labels, curFunc, flow>>
  <2>1. CtlInv'
    BY <1>1, GoKeeps
  <2>2. Fitting' = Fitting
    BY <1>1 DEF Fitting
  <2>3. TypeOK'
    BY <1>1, <2>1, <2>2, FittingTyped DEF FramesInv, TypeOK, CtlInv
  <2>4. ReturnUnwinds' /\ ReturnValueInFlight'
    BY <1>1 DEF ReturnUnwinds, FramesInv, ReturnValueInFlight
  <2> QED
    BY <1>1, <2>1, <2>3, <2>4 DEF FramesInv, CtlInv
<1>2. CASE \E call :
           /\ frames' = Append(frames, [func |-> f, ret |-> 0])
           /\ curFunc' = f
           /\ labels' = prog.body[f]
           /\ call = Append(Append(Rest, next), Active("call", prog.body[f]))
           /\ ctl' = Append(call, Callee(prog.body[f]))
           /\ UNCHANGED <<prog, signal, pending, overflow>>
  <2> DEFINE b == prog.body[f]
             s == Append(Rest, next)
             t == Append(s, Active("call", b))
  <2>1. /\ s \in Seq(Fitting)
        /\ Len(s) = Len(ctl)
        /\ s[Len(ctl)] = next
        /\ \A k \in 1..(Len(ctl) - 1) : s[k] = ctl[k]
    <3>1. ctl \in Seq(Fitting)
      BY DEF FramesInv
    <3> QED
      BY <3>1, ReplaceTop DEF Rest
  <2>2. b \in DOMAIN prog.node /\ b \in Nat \ {0} /\ prog.node[b].kind = "compound"
    BY TopFacts, NodesAreNumbers DEF WellFormed
  <2>3. /\ frames' \in Seq(Frame) /\ Len(frames') = Len(frames) + 1
        /\ frames'[Len(frames) + 1].ret = 0
        /\ \A k \in 1..Len(frames) : frames'[k] = frames[k]
        /\ Len(frames) \in Nat
    BY <1>2 DEF FramesInv, TypeOK, Frame
  <2>4. Active("call", b) \in Fitting /\ Active("call", b).at = "call"
        /\ Active("call", b).saved.depth = Len(frames)
    BY <2>2, TopFacts DEF Active, Fitting, Activation, StandsAt, Points, Ctx
  <2>5. Callee(b) \in Fitting /\ Callee(b).at = "start"
    BY <1>2, <2>2, <2>3 DEF Callee, Ctx, Context, Fitting, Activation, StandsAt, Points
  <2>6. ctl' = Append(t, Callee(b))
    BY <1>2
  <2> HIDE DEF s, b
  <2>7. /\ t \in Seq(Fitting)
        /\ Len(t) = Len(ctl) + 1
        /\ t[Len(ctl) + 1] = Active("call", b)
        /\ \A k \in 1..Len(ctl) : t[k] = s[k]
    BY <2>1, <2>4, PushStack
  <2> HIDE DEF t
  <2>8. /\ ctl' \in Seq(Fitting)
        /\ Len(ctl') = Len(ctl) + 2
        /\ ctl'[Len(ctl) + 2] = Callee(b)
        /\ \A k \in 1..(Len(ctl) + 1) : ctl'[k] = t[k]
    BY <2>5, <2>6, <2>7, PushStack, TopFacts
  <2>9. /\ Len(ctl) \in Nat \ {0}
        /\ DOMAIN ctl = 1..Len(ctl) /\ DOMAIN ctl' = 1..(Len(ctl) + 2)
        /\ ctl'[Len(ctl) + 1] = Active("call", b)
        /\ ctl'[Len(ctl)] = next
        /\ \A k \in 1..(Len(ctl) - 1) : ctl'[k] = ctl[k]
    <3>1. Len(ctl) \in Nat \ {0} /\ DOMAIN ctl = 1..Len(ctl)
      BY TopFacts DEF FramesInv
    <3>2. DOMAIN ctl' = 1..(Len(ctl) + 2)
      BY <2>8
    <3>3. ctl'[Len(ctl) + 1] = Active("call", b)
      BY <3>1, <2>7, <2>8
    <3>4. ctl'[Len(ctl)] = next
      BY <3>1, <2>1, <2>7, <2>8
    <3>5. \A k \in 1..(Len(ctl) - 1) : ctl'[k] = ctl[k]
      BY <3>1, <2>1, <2>7, <2>8
    <3> QED
      BY <3>1, <3>2, <3>3, <3>4, <3>5
  <2>10. Fitting' = Fitting
    BY <1>2 DEF Fitting
  <2>11. FramesCoverCalls'
    <3>1. ASSUME NEW k \in 1..(Len(ctl) + 2), IsCall(k)'
          PROVE  (k < Len(ctl) /\ IsCall(k) /\ ctl'[k] = ctl[k]) \/ k = Len(ctl) + 1
      BY <3>1, <2>5, <2>8, <2>9 DEF IsCall
    <3>2. ASSUME NEW k \in 1..Len(ctl), IsCall(k)
          PROVE  ctl[k].saved.depth \in Nat /\ ctl[k].saved.depth < Len(frames)
      <4>1. ctl[k] \in Activation
        BY DEF FramesInv, TypeOK
      <4> QED
        BY <3>2, <4>1, <2>9 DEF FramesInv, FramesCoverCalls, Activation, Context
    <3>3. ASSUME NEW k \in 1..(Len(ctl) + 2), IsCall(k)'
          PROVE  ctl'[k].saved.depth < Len(frames')
      BY <3>1, <3>2, <3>3, <2>3, <2>4, <2>9
    <3>4. ASSUME NEW k \in 1..(Len(ctl) + 2), IsCall(k)',
                 NEW j \in 1..(k - 1), IsCall(j)'
          PROVE  ctl'[j].saved.depth < ctl'[k].saved.depth
      <4>1. j \in 1..(Len(ctl) + 2) /\ j < k
        BY <2>9
      <4>2. j < Len(ctl) /\ IsCall(j) /\ ctl'[j] = ctl[j]
        BY <3>1, <3>4, <4>1, <2>9
      <4>3. CASE k = Len(ctl) + 1
        BY <4>2, <4>3, <3>2, <2>4, <2>9
      <4>4. CASE k < Len(ctl) /\ IsCall(k) /\ ctl'[k] = ctl[k]
        BY <4>1, <4>2, <4>4, <2>9 DEF FramesInv, FramesCoverCalls
      <4> QED
        BY <3>1, <3>4, <4>3, <4>4
    <3> QED
      BY <3>3, <3>4, <2>9 DEF FramesCoverCalls, IsCall
  <2>12. Waiting'
    <3> SUFFICES ASSUME NEW k \in 1..(Len(ctl) + 1), ctl'[k + 1].at # "call"
                 PROVE  ctl'[k].at \in Unwinding
      BY <2>8 DEF Waiting, Unwinding
    <3>0. k \in Nat /\ Len(ctl) \in Nat
      BY <2>9
    <3>1. CASE k = Len(ctl) + 1
      BY <3>1, <2>4, <2>9 DEF Unwinding
    <3>2. CASE k = Len(ctl)
      BY <3>2, <2>4, <2>9
    <3>3. CASE k = Len(ctl) - 1
      <4>1. ctl[k + 1].at # "call" => ctl[k].at \in Unwinding
        BY <3>3, <3>0 DEF FramesInv, Waiting
      <4> QED
        BY <4>1, <3>3, <2>9 DEF Top
    <3>4. CASE k < Len(ctl) - 1
      <4>1. ctl[k + 1].at # "call" => ctl[k].at \in Unwinding
        BY <3>4, <3>0 DEF FramesInv, Waiting
      <4>2. k + 1 \in 1..(Len(ctl) - 1) /\ k \in 1..(Len(ctl) - 1)
        BY <3>0, <3>4
      <4> QED
        BY <4>1, <4>2, <2>9
    <3> QED
      BY <3>0, <3>1, <3>2, <3>3, <3>4
  <2>13. TypeOK'
    BY <1>2, <2>2, <2>3, <2>8, FittingTyped DEF FramesInv, TypeOK, b
  <2>14. ReturnUnwinds'
    BY <1>2 DEF ReturnUnwinds
  <2>15. ReturnValueInFlight'
    <3>1. \A k \in DOMAIN frames' : frames'[k].ret = 0
      BY <2>3, <1>2 DEF FramesInv, TypeOK, ReturnValueInFlight
    <3> QED
      BY <3>1 DEF ReturnValueInFlight
  <2> QED
    BY <1>2, <2>8, <2>10, <2>11, <2>12, <2>13, <2>14, <2>15 DEF FramesInv
<1> QED
  BY <1>1, <1>2 DEF EnterCall

\* A step that changes the signal while no return is under way.
LEMMA SignalKeeps ==
  ASSUME FramesInv, CtlInv', ctl # <<>>,
         signal # "Return", signal' \in Signals \ {"Return"},
         pending' \in Labels \cup {NoLabel},
         UNCHANGED <<prog, frames, labels, curFunc, overflow>>
  PROVE  FramesInv'
<1>1. Fitting' = Fitting
  BY DEF Fitting
<1>2. TypeOK'
  BY <1>1, FittingTyped DEF FramesInv, TypeOK, CtlInv
<1>3. ReturnUnwinds'
  BY DEF ReturnUnwinds
<1>4. ReturnValueInFlight'
  BY DEF FramesInv, ReturnValueInFlight
<1> QED
  BY <1>1, <1>2, <1>3, <1>4 DEF FramesInv, CtlInv

\* A step that ends the program.
LEMMA EndKeeps ==
  ASSUME FramesInv, ctl' = <<>>, signal' \in Signals, frames' \in Seq(Frame),
         UNCHANGED <<prog, pending, labels, curFunc, overflow>>
  PROVE  FramesInv'
<1>1. TypeOK' /\ (ctl \in Seq(Fitting))'
  BY DEF FramesInv, TypeOK
<1>2. FramesCoverCalls' /\ Waiting' /\ ReturnUnwinds' /\ ReturnValueInFlight'
  BY DEF FramesCoverCalls, Waiting, ReturnUnwinds, ReturnValueInFlight
<1> QED
  BY <1>1, <1>2 DEF FramesInv

\* Throwing into a try: what is left of the stack is a part of it that was
\* waiting already, and the frames of the calls unwound stay.
LEMMA CatchKeeps ==
  ASSUME FramesInv, ctl # <<>>, Catch, signal # "Return"
  PROVE  FramesInv'
<1>1. PICK k \in DOMAIN ctl :
        /\ ctl[k].at = "try"
        /\ ctl' = Append(Append(SubSeq(ctl, 1, k - 1), [ctl[k] EXCEPT !.at = "done"]),
                         Active("start", prog.node[ctl[k].node].kids[2]))
        /\ signal' = "None"
        /\ UNCHANGED <<prog, frames, pending, labels, curFunc, overflow>>
  BY DEF Catch
<1> DEFINE c == prog.node[ctl[k].node].kids[2]
           r == [ctl[k] EXCEPT !.at = "done"]
           s == SubSeq(ctl, 1, k - 1)
           t == Append(s, r)
<1>2. ctl \in Seq(Fitting) /\ DOMAIN ctl = 1..Len(ctl) /\ Len(ctl) \in Nat
  BY DEF FramesInv
<1>3. ctl[k] \in Fitting /\ k \in Nat \ {0} /\ k <= Len(ctl)
  BY <1>2
<1>4. r \in Fitting /\ r.at = "done" /\ r.node = ctl[k].node /\ r.saved = ctl[k].saved
  BY <1>3 DEF Fitting, Activation, StandsAt, Points
<1>5. c \in DOMAIN prog.node
  <2>1. WellFormed(prog)
    BY TopFacts
  <2>2. prog.node[ctl[k].node].kind = "try"
    BY <1>1, <1>3 DEF Fitting, StandsAt, Loops
  <2>3. prog.node[ctl[k].node] \in Node /\ Len(prog.node[ctl[k].node].kids) = 2
    BY <1>3, <2>1, <2>2 DEF WellFormed, Fitting
  <2>4. 2 \in DOMAIN prog.node[ctl[k].node].kids
    BY <2>3 DEF Node
  <2> QED
    BY <1>3, <2>1, <2>4 DEF WellFormed, Fitting
<1>6. Active("start", c) \in Fitting /\ Active("start", c).at = "start"
  BY <1>5, ActiveFits
<1> DEFINE a == Active("start", c)
<1>7. ctl' = Append(t, a) /\ a \in Fitting /\ a.at = "start"
  BY <1>1, <1>6
<1> HIDE DEF c, r, a
<1>8. /\ s \in Seq(Fitting)
      /\ Len(s) = k - 1
      /\ \A j \in 1..(k - 1) : s[j] = ctl[j]
  BY <1>2, <1>3, CutStack
<1> HIDE DEF s
<1>9. /\ t \in Seq(Fitting)
      /\ Len(t) = k
      /\ t[k] = r
      /\ \A j \in 1..(k - 1) : t[j] = s[j]
  BY <1>3, <1>4, <1>8, PushStack
<1> HIDE DEF t
<1>10. /\ ctl' \in Seq(Fitting)
       /\ Len(ctl') = k + 1
       /\ ctl'[k + 1] = a
       /\ \A j \in 1..k : ctl'[j] = t[j]
  BY <1>7, <1>9, PushStack
<1>11. /\ DOMAIN ctl' = 1..(k + 1)
       /\ ctl'[k] = r
       /\ \A j \in 1..(k - 1) : ctl'[j] = ctl[j]
  BY <1>3, <1>8, <1>9, <1>10
<1>12. Fitting' = Fitting
  BY <1>1 DEF Fitting
<1>13. FramesCoverCalls'
  <2>1. ASSUME NEW m \in 1..(k + 1), IsCall(m)'
        PROVE  m < k /\ IsCall(m) /\ ctl'[m] = ctl[m]
    BY <2>1, <1>3, <1>4, <1>7, <1>10, <1>11 DEF IsCall
  <2>2. ASSUME NEW m \in 1..(k + 1), IsCall(m)'
        PROVE  /\ ctl'[m].saved.depth < Len(frames)
               /\ \A j \in 1..(m - 1) :
                    IsCall(j)' => ctl'[j].saved.depth < ctl'[m].saved.depth
    <3>1. m \in 1..(k - 1) /\ m \in DOMAIN ctl /\ IsCall(m) /\ ctl'[m] = ctl[m]
      BY <2>1, <2>2, <1>2, <1>3
    <3>2. \A j \in 1..(m - 1) : ctl'[j] = ctl[j] /\ (IsCall(j)' => IsCall(j))
      BY <3>1, <1>3, <1>11 DEF IsCall
    <3> QED
      BY <3>1, <3>2 DEF FramesInv, FramesCoverCalls
  <2> QED
    BY <2>2, <1>1, <1>11 DEF FramesCoverCalls, IsCall
<1>14. Waiting'
  <2> SUFFICES ASSUME NEW m \in 1..k, ctl'[m + 1].at # "call"
               PROVE  ctl'[m].at \in Unwinding
    BY <1>3, <1>10 DEF Waiting, Unwinding
  <2>0. k \in Nat /\ m \in Nat
    BY <1>3
  <2>1. CASE m = k
    BY <2>1, <1>4, <1>11 DEF Unwinding
  <2>2. CASE m = k - 1
    <3>1. ctl[m + 1].at # "call" => ctl[m].at \in Unwinding
      BY <2>2, <2>0, <1>2, <1>3 DEF FramesInv, Waiting
    <3> QED
      BY <3>1, <2>2, <2>0, <1>1, <1>11
  <2>3. CASE m < k - 1
    <3>1. ctl[m + 1].at # "call" => ctl[m].at \in Unwinding
      BY <2>3, <2>0, <1>2, <1>3 DEF FramesInv, Waiting
    <3>2. m + 1 \in 1..(k - 1) /\ m \in 1..(k - 1)
      BY <2>3, <2>0
    <3> QED
      BY <3>1, <3>2, <1>11
  <2> QED
    BY <2>0, <2>1, <2>2, <2>3
<1>15. CtlInv'
  BY <1>10, <1>12, <1>13, <1>14 DEF CtlInv
<1>16. pending' \in Labels \cup {NoLabel} /\ signal' \in Signals \ {"Return"}
  BY <1>1 DEF FramesInv, TypeOK, Signals
<1> QED
  BY <1>1, <1>15, <1>16, SignalKeeps

LEMMA UnhandledKeeps ==
  ASSUME FramesInv, ctl # <<>>, Unhandled
  PROVE  FramesInv'
<1>1. frames \in Seq(Frame) /\ signal' \in Signals
  BY DEF FramesInv, TypeOK, Unhandled
<1>2. frames' \in Seq(Frame)
  <2>1. CASE ctl[1].at = "main"
    <3>1. 1 \in DOMAIN ctl /\ ctl[1] \in Activation
      BY TopFacts DEF FramesInv, TypeOK
    <3>2. ctl[1].saved.depth \in Nat /\ ctl[1].saved.depth < Len(frames)
      BY <3>1, <2>1 DEF FramesInv, FramesCoverCalls, IsCall, Activation, Context
    <3>3. frames # <<>>
      BY <3>2
    <3> QED
      BY <1>1, <2>1, <3>3, PopStack DEF Unhandled
  <2>2. CASE ctl[1].at # "main"
    BY <1>1, <2>2 DEF Unhandled
  <2> QED
    BY <2>1, <2>2
<1> QED
  BY <1>1, <1>2, EndKeeps DEF Unhandled

LEMMA EvalKeeps ==
  ASSUME FramesInv, ctl # <<>>, NEW e \in Exprs, NEW next \in Fitting,
         Eval(e, next), Top.at \notin {"call", "main"},
         next.at \notin {"call", "main"}, signal # "Return"
  PROVE  FramesInv'
<1>1. CASE e = Pure /\ Go(next) /\ Quiet
  BY <1>1, GoQuietly
<1>2. CASE e \in Funcs /\ EnterCall(e, next)
  BY <1>2, EnterCallKeeps
<1>3. CASE Catch
  BY <1>3, CatchKeeps
<1>4. CASE Unhandled
  BY <1>4, UnhandledKeeps
<1> QED
  BY <1>1, <1>2, <1>3, <1>4 DEF Eval

-----------------------------------------------------------------------------
(* The actions, one step each, in the groups of Next.                      *)

\* An activation of a statement at its beginning, or at another point that
\* looks at no signal: no return is under way.
LEMMA NoReturnHere ==
  ASSUME FramesInv, ctl # <<>>, Top.at \notin Unwinding
  PROVE  signal # "Return"
BY DEF FramesInv, ReturnUnwinds

LEMMA StatementKeeps ==
  ASSUME FramesInv, Statement
  PROVE  FramesInv'
<1>0. ctl # <<>>
  BY DEF Statement, Done, ExecSimple, ExecBreak, ExecContinue, ExecGoto, ExecLabel,
         ExecTry, LeaveTry, At, Is
<1> USE <1>0
<1>f. Resume("done") \in Fitting /\ Resume("done").at = "done"
  BY ResumeFits DEF StandsAt, Points
<1>j. ASSUME NEW s \in {"Break", "Continue"}, Top.at = "start", SetSignal(s),
             pending' \in Labels \cup {NoLabel}
      PROVE  FramesInv'
  <2>1. CtlInv'
    BY <1>j, PopKeeps DEF SetSignal
  <2>2. signal # "Return"
    BY <1>j, NoReturnHere DEF Unwinding
  <2> QED
    BY <1>j, <2>1, <2>2, SignalKeeps DEF SetSignal, Signals
<1>1. CASE Done
  BY <1>1, PopQuietly DEF Done, At
<1>2. CASE ExecSimple
  <2>1. Top.at = "start" /\ Eval(prog.node[Top.node].expr, Resume("done"))
    BY <1>2 DEF ExecSimple, Is
  <2>2. prog.node[Top.node].expr \in Exprs
    BY TopFacts
  <2> QED
    BY <2>1, <2>2, <1>f, NoReturnHere, EvalKeeps DEF Unwinding
<1>3. CASE ExecBreak
  BY <1>3, <1>j DEF ExecBreak, Is, FramesInv, TypeOK
<1>4. CASE ExecContinue
  BY <1>4, <1>j DEF ExecContinue, Is, FramesInv, TypeOK
<1>5. CASE ExecGoto
  <2>1. prog.node[Top.node].name \in Labels \cup {NoLabel}
    BY TopFacts DEF Node
  <2> QED
    BY <1>5, <2>1, <1>j DEF ExecGoto, Is
<1>6. CASE ExecLabel
  <2>1. Top.at = "start" /\ signal # "Return"
    BY <1>6, NoReturnHere DEF ExecLabel, Is, Unwinding
  <2>2. CASE Go(Resume("done")) /\ Quiet
    BY <2>1, <2>2, <1>f, GoQuietly
  <2>3. CASE Kids # <<>> /\ Exec(Kids[1], Resume("done"))
    <3>1. Kids[1] \in DOMAIN prog.node
      <4>1. Kids \in Seq(Nat \ {0})
        BY TopFacts DEF Kids, Node
      <4>2. 1 \in DOMAIN Kids
        BY <4>1, <2>3
      <4> QED
        BY <4>2, TopFacts
    <3> QED
      BY <2>1, <2>3, <3>1, <1>f, ExecKeeps DEF Unwinding
  <2> QED
    BY <1>6, <2>2, <2>3 DEF ExecLabel
<1>7. CASE ExecTry
  <2>1. Top.at = "start" /\ signal # "Return" /\ prog.node[Top.node].kind = "try"
        /\ ExecBody(Kids[1], Resume("try"))
    BY <1>7, NoReturnHere DEF ExecTry, Is, Unwinding
  <2>2. Kids[1] \in DOMAIN prog.node
    <3>1. Kids \in Seq(Nat \ {0}) /\ Len(Kids) = 2
      BY TopFacts, <2>1 DEF Kids, Node, WellFormed, Fitting
    <3>2. 1 \in DOMAIN Kids
      BY <3>1
    <3> QED
      BY <3>2, TopFacts
  <2>3. Resume("try") \in Fitting /\ Resume("try").at = "try"
    BY <2>1, ResumeFits DEF StandsAt, Points
  <2> QED
    BY <2>1, <2>2, <2>3, ExecKeeps DEF Unwinding
<1>8. CASE LeaveTry
  BY <1>8, PopQuietly DEF LeaveTry, At
<1> QED
  BY <1>1, <1>2, <1>3, <1>4, <1>5, <1>6, <1>7, <1>8 DEF Statement

\* The statement lists are walked within their bounds: a position is one of
\* the list, and the label a jump takes has one in the compound it lands in.
LEMMA CompoundKeeps ==
  ASSUME FramesInv, Compound
  PROVE  FramesInv'
<1>0. ctl # <<>>
  BY DEF Compound, StartCompound, ExecCompound, NextStatement, Jump, LeaveCompound,
         At, Is
<1> USE <1>0
<1>t. Top \in Activation /\ Top \in Fitting
  BY TopFacts DEF Fitting
<1>1. CASE StartCompound
  <2>1. Resume("loop") \in Fitting /\ Resume("loop").at = "loop"
    BY <1>1, ResumeFits DEF StartCompound, Is, StandsAt, Points
  <2> QED
    BY <1>1, <2>1, NoReturnHere, GoQuietly DEF StartCompound, Is, Unwinding
<1>k. ASSUME Top.at \in {"loop", "check"}
      PROVE  prog.node[Top.node].kind = "compound"
  BY <1>k, <1>t DEF Fitting, StandsAt, Loops
<1>2. CASE ExecCompound
  <2>1. Top.at = "loop"
    BY <1>2 DEF ExecCompound, At
  <2>2. CASE Pop /\ Quiet
    BY <2>1, <2>2, PopQuietly
  <2>3. CASE Top.i <= Len(Kids) /\ Exec(Kids[Top.i], Resume("check"))
    <3>1. Resume("check") \in Fitting /\ Resume("check").at = "check"
      BY <2>1, <1>k, ResumeFits DEF StandsAt, Points
    <3>2. Kids[Top.i] \in DOMAIN prog.node
      <4>1. Kids \in Seq(Nat \ {0}) /\ Top.i \in Nat \ {0}
        BY TopFacts, <1>t DEF Kids, Node, Activation
      <4>2. Top.i \in DOMAIN Kids
        BY <4>1, <2>3
      <4> QED
        BY <4>2, TopFacts
    <3> QED
      BY <2>1, <2>3, <3>1, <3>2, ExecKeeps DEF Unwinding
  <2>4. Kids \in Seq(Nat \ {0}) /\ Top.i \in Nat
    BY TopFacts, <1>t DEF Kids, Node, Activation
  <2> QED
    BY <1>2, <2>2, <2>3, <2>4 DEF ExecCompound
<1>3. CASE NextStatement
  <2>1. Top.at = "check" /\ signal # "Return"
    BY <1>3 DEF NextStatement, At
  <2>2. Top.i + 1 \in Nat \ {0}
    BY <1>t DEF Activation
  <2>3. ResumeAt("loop", Top.i + 1) \in Fitting /\ ResumeAt("loop", Top.i + 1).at = "loop"
    BY <2>1, <2>2, <1>k, ResumeFits DEF StandsAt, Points
  <2> QED
    BY <1>3, <2>1, <2>3, GoQuietly DEF NextStatement
<1>4. CASE Jump
  <2> DEFINE pos == Position(prog, Target)
  <2>1. Top.at = "check" /\ signal # "Return"
    BY <1>4 DEF Jump, At, Found
  <2>2. pos \in Nat \ {0}
    <3>1. Target # 0 /\ prog.node[Target].up = Top.node
      BY <1>4 DEF Jump, Found
    <3>2. Target \in DOMAIN prog.node
      BY <3>1 DEF Target, LabelEntry
    <3>3. WellFormed(prog) /\ Top.node \in DOMAIN prog.node /\ prog.node[Top.node] \in Node
      BY TopFacts, <1>t DEF Fitting
    <3>4. Top.node # 0
      BY <3>3, NodesAreNumbers
    <3>5. \E i \in DOMAIN Kids : Kids[i] = Target
      BY <3>1, <3>2, <3>3, <3>4 DEF WellFormed, Kids
    <3>6. pos \in DOMAIN Kids
      BY <3>1, <3>5 DEF Position, Kids
    <3> QED
      BY <3>3, <3>6 DEF Node, Kids
  <2>3. ResumeAt("loop", pos) \in Fitting /\ ResumeAt("loop", pos).at = "loop"
    BY <2>1, <2>2, <1>k, ResumeFits DEF StandsAt, Points
  <2> HIDE DEF pos
  <2>4. Go(ResumeAt("loop", pos)) /\ pending' = NoLabel /\ signal' = "None"
        /\ UNCHANGED <<prog, frames, labels, curFunc, overflow>>
    BY <1>4 DEF Jump, pos
  <2>5. CtlInv'
    BY <2>1, <2>3, <2>4, GoKeeps
  <2> QED
    BY <2>1, <2>4, <2>5, SignalKeeps DEF Signals
<1>5. CASE LeaveCompound
  BY <1>5, PopQuietly DEF LeaveCompound, At
<1> QED
  BY <1>1, <1>2, <1>3, <1>4, <1>5 DEF Compound

LEMMA BranchKeeps ==
  ASSUME FramesInv, Branch
  PROVE  FramesInv'
<1>0. ctl # <<>>
  BY DEF Branch, EvalIf, ExecIf, EvalSwitch, SelectCase, ExecCase, AfterCase, At, Is
<1> USE <1>0
<1>t. /\ Top \in Activation /\ Top \in Fitting /\ prog.node[Top.node].expr \in Exprs
      /\ Kids \in Seq(Nat \ {0}) /\ Top.i \in Nat \ {0}
  BY TopFacts DEF Fitting, Activation, Kids, Node
<1>k. ASSUME Top.at \in {"select", "case", "caseCheck"}
      PROVE  prog.node[Top.node].kind = "switch"
  BY <1>k, <1>t DEF Fitting, StandsAt, Loops
<1>1. CASE EvalIf
  <2>1. Resume("test") \in Fitting /\ Resume("test").at = "test"
    BY <1>1, ResumeFits DEF EvalIf, Is, StandsAt, Points
  <2> QED
    BY <1>1, <1>t, <2>1, NoReturnHere, EvalKeeps DEF EvalIf, Is, Unwinding
<1>2. CASE ExecIf
  <2>1. Top.at = "test"
    BY <1>2 DEF ExecIf, Is
  <2>2. Resume("done") \in Fitting /\ Resume("done").at = "done"
    BY ResumeFits DEF StandsAt, Points
  <2>3. CASE \E i \in DOMAIN Kids : Exec(Kids[i], Resume("done"))
    BY <2>1, <2>2, <2>3, TopFacts, ExecKeeps DEF Unwinding
  <2>4. CASE Pop /\ Quiet
    BY <2>1, <2>4, PopQuietly
  <2> QED
    BY <1>2, <2>3, <2>4 DEF ExecIf
<1>3. CASE EvalSwitch
  <2>1. Resume("select") \in Fitting /\ Resume("select").at = "select"
    BY <1>3, ResumeFits DEF EvalSwitch, Is, StandsAt, Points
  <2> QED
    BY <1>3, <1>t, <2>1, NoReturnHere, EvalKeeps DEF EvalSwitch, Is, Unwinding
<1>4. CASE SelectCase
  <2>1. Top.at = "select" /\ Quiet
    BY <1>4 DEF SelectCase, At
  <2>2. ASSUME NEW i \in prog.node[Top.node].entries, Go(ResumeAt("case", i))
        PROVE  FramesInv'
    <3>1. i \in Nat \ {0}
      BY <1>t, TopFacts DEF WellFormed, Fitting, Kids
    <3>2. ResumeAt("case", i) \in Fitting /\ ResumeAt("case", i).at = "case"
      BY <2>1, <1>k, <3>1, ResumeFits DEF StandsAt, Points
    <3> QED
      BY <2>1, <2>2, <3>2, NoReturnHere, GoQuietly DEF Unwinding
  <2>3. CASE Pop
    BY <2>1, <2>3, PopQuietly
  <2> QED
    BY <1>4, <2>2, <2>3 DEF SelectCase
<1>5. CASE ExecCase
  <2>1. Top.at = "case"
    BY <1>5 DEF ExecCase, At
  <2>2. CASE Pop /\ Quiet
    BY <2>1, <2>2, PopQuietly
  <2>3. CASE Top.i <= Len(Kids) /\ Exec(Kids[Top.i], Resume("caseCheck"))
    <3>1. Resume("caseCheck") \in Fitting /\ Resume("caseCheck").at = "caseCheck"
      BY <2>1, <1>k, ResumeFits DEF StandsAt, Points
    <3>2. Top.i \in DOMAIN Kids
      BY <1>t, <2>3
    <3>3. Kids[Top.i] \in DOMAIN prog.node
      BY <3>2, TopFacts
    <3> QED
      BY <2>1, <2>3, <3>1, <3>3, ExecKeeps DEF Unwinding
  <2> QED
    BY <1>5, <1>t, <2>2, <2>3 DEF ExecCase
<1>6. CASE AfterCase
  <2>1. Top.at = "caseCheck"
        /\ UNCHANGED <<prog, frames, pending, labels, curFunc, overflow, flow>>
    BY <1>6 DEF AfterCase, At
  <2>2. CASE signal = "Return"
    BY <1>6, <2>1, <2>2, PopQuietly DEF AfterCase, Quiet
  <2>3. CASE signal # "Return"
    <3>1. ASSUME Pop
          PROVE  CtlInv'
      BY <2>1, <3>1, PopKeeps
    <3>2. ASSUME Go(ResumeAt("case", Top.i + 1))
          PROVE  CtlInv'
      <4>1. /\ ResumeAt("case", Top.i + 1) \in Fitting
            /\ ResumeAt("case", Top.i + 1).at = "case"
        BY <2>1, <1>k, <1>t, ResumeFits DEF StandsAt, Points
      <4> QED
        BY <2>1, <3>2, <4>1, GoKeeps
    <3>3. CtlInv'
      BY <1>6, <3>1, <3>2 DEF AfterCase
    <3>4. /\ signal' \in Signals \ {"Return"}
          /\ pending' \in Labels \cup {NoLabel}
      BY <1>6, <2>1, <2>3 DEF AfterCase, Signals, FramesInv, TypeOK
    <3> QED
      BY <2>1, <2>3, <3>3, <3>4, SignalKeeps
  <2> QED
    BY <2>2, <2>3
<1> QED
  BY <1>1, <1>2, <1>3, <1>4, <1>5, <1>6 DEF Branch

LEMMA LoopKeeps ==
  ASSUME FramesInv, Loop
  PROVE  FramesInv'
<1>0. ctl # <<>>
  BY DEF Loop, StartWhile, StartFor, StartDoWhile, EvalCond, TestLoop, AfterBody,
         EvalPost, BreakLoop, ReturnFromLoop, At, Is
<1> USE <1>0
<1>t. /\ Top \in Activation /\ Top \in Fitting
      /\ prog.node[Top.node].expr \in Exprs
      /\ prog.node[Top.node].init \in Exprs
      /\ prog.node[Top.node].post \in Exprs
      /\ Kids \in Seq(Nat \ {0}) /\ pending \in Labels \cup {NoLabel}
  BY TopFacts DEF Fitting, Activation, Kids, Node, FramesInv, TypeOK
<1>l. ASSUME Top.at \in {"cond", "after", "step"}
      PROVE  prog.node[Top.node].kind \in Loops
  BY <1>l, <1>t DEF Fitting, StandsAt
<1>f. ASSUME prog.node[Top.node].kind \in Loops, NEW at \in {"cond", "test", "after", "step"}
      PROVE  Resume(at) \in Fitting /\ Resume(at).at = at
  BY <1>f, ResumeFits DEF StandsAt, Points
<1>b. ASSUME prog.node[Top.node].kind \in Loops
      PROVE  Kids[1] \in DOMAIN prog.node
  <2>1. 1 \in DOMAIN Kids
    BY <1>b, <1>t, TopFacts DEF WellFormed, Fitting, Kids
  <2> QED
    BY <2>1, TopFacts
<1>1. CASE StartWhile
  BY <1>1, <1>f, NoReturnHere, GoQuietly DEF StartWhile, Is, Unwinding, Loops
<1>2. CASE StartFor
  BY <1>2, <1>f, <1>t, NoReturnHere, EvalKeeps DEF StartFor, Is, Unwinding, Loops
<1>3. CASE StartDoWhile
  <2>1. Top.at = "start" /\ prog.node[Top.node].kind \in Loops
        /\ Exec(Kids[1], Resume("after"))
    BY <1>3 DEF StartDoWhile, Is, Loops
  <2> QED
    BY <2>1, <1>f, <1>b, ExecKeeps DEF Unwinding
<1>4. CASE EvalCond
  BY <1>4, <1>f, <1>l, <1>t, NoReturnHere, EvalKeeps DEF EvalCond, At, Unwinding
<1>5. CASE TestLoop
  <2>1. Top.at = "test" /\ prog.node[Top.node].kind \in Loops
    BY <1>5 DEF TestLoop, At
  <2>2. CASE Exec(Kids[1], Resume("after"))
    BY <2>1, <2>2, <1>f, <1>b, ExecKeeps DEF Unwinding
  <2>3. CASE Pop /\ Quiet
    BY <2>1, <2>3, PopQuietly
  <2> QED
    BY <1>5, <2>2, <2>3 DEF TestLoop
<1>6. CASE AfterBody
  <2> DEFINE at == IF prog.node[Top.node].kind = "for" THEN "step" ELSE "cond"
  <2>1. Top.at = "after" /\ signal # "Return" /\ signal' = "None" /\ Go(Resume(at))
        /\ UNCHANGED <<prog, frames, pending, labels, curFunc, overflow>>
    BY <1>6 DEF AfterBody, At
  <2>2. Resume(at) \in Fitting /\ Resume(at).at \in {"step", "cond"}
    BY <2>1, <1>l, <1>f
  <2>3. CtlInv'
    BY <2>1, <2>2, GoKeeps
  <2> QED
    BY <2>1, <2>3, <1>t, SignalKeeps DEF Signals
<1>7. CASE EvalPost
  BY <1>7, <1>f, <1>l, <1>t, NoReturnHere, EvalKeeps DEF EvalPost, At, Unwinding
<1>8. CASE BreakLoop
  <2>1. signal = "Break" /\ signal' = "None" /\ Pop
        /\ UNCHANGED <<prog, frames, pending, labels, curFunc, overflow>>
    BY <1>8 DEF BreakLoop
  <2>2. CtlInv'
    BY <2>1, PopKeeps
  <2> QED
    BY <2>1, <2>2, <1>t, SignalKeeps DEF Signals
<1>9. CASE ReturnFromLoop
  BY <1>9, PopQuietly DEF ReturnFromLoop, At
<1> QED
  BY <1>1, <1>2, <1>3, <1>4, <1>5, <1>6, <1>7, <1>8, <1>9 DEF Loop

\* The end of a call pops the frame that its beginning pushed: the calls that
\* are left hold strictly shallower frames, and only the last frame could hold
\* a return value.
LEMMA LeaveCallKeeps ==
  ASSUME FramesInv, LeaveCall
  PROVE  FramesInv'
<1>0. ctl # <<>> /\ Top.at = "call" /\ Pop /\ prog' = prog
      /\ frames' = SubSeq(frames, 1, Len(frames) - 1) /\ signal' = "None"
      /\ labels' = Top.saved.labels /\ curFunc' = Top.saved.func
      /\ UNCHANGED <<pending, overflow>>
  BY DEF LeaveCall, At
<1>1. /\ ctl' \in Seq(Fitting)
      /\ Len(ctl) \in Nat \ {0}
      /\ Len(ctl') = Len(ctl) - 1
      /\ \A k \in 1..(Len(ctl) - 1) : ctl'[k] = ctl[k]
  BY <1>0, TopFacts DEF Pop
<1>2. Fitting' = Fitting
  BY <1>0 DEF Fitting
<1>3. DOMAIN ctl = 1..Len(ctl) /\ DOMAIN ctl' = 1..(Len(ctl) - 1)
  BY <1>1 DEF FramesInv
<1>4. Top \in Activation /\ Top.saved \in Context /\ frames \in Seq(Frame)
  BY <1>0, TopFacts DEF Fitting, Activation, FramesInv, TypeOK
<1>5. Top.saved.depth \in Nat /\ Top.saved.depth < Len(frames) /\ IsCall(Len(ctl))
  BY <1>0, <1>1, <1>3, <1>4 DEF FramesInv, FramesCoverCalls, IsCall, Top, Context
<1>6. /\ frames' \in Seq(Frame) /\ Len(frames) \in Nat
      /\ Len(frames') = Len(frames) - 1
      /\ \A k \in 1..(Len(frames) - 1) : frames'[k] = frames[k]
  <2>1. frames # <<>>
    BY <1>4, <1>5
  <2> QED
    BY <2>1, <1>0, <1>4, PopStack
<1>7. FramesCoverCalls'
  <2>1. ASSUME NEW k \in 1..(Len(ctl) - 1), IsCall(k)
        PROVE  /\ ctl[k].saved.depth < Len(frames')
               /\ \A j \in 1..(k - 1) :
                    IsCall(j) => ctl[j].saved.depth < ctl[k].saved.depth
    <3>1. k \in DOMAIN ctl /\ k \in 1..(Len(ctl) - 1) /\ Len(ctl) \in DOMAIN ctl
      BY <1>1, <1>3
    <3>2. ctl[k].saved.depth < Top.saved.depth
      BY <2>1, <3>1, <1>5 DEF FramesInv, FramesCoverCalls, Top
    <3>3. ctl[k].saved.depth \in Nat
      <4>1. ctl[k] \in Activation
        BY <3>1 DEF FramesInv, TypeOK
      <4> QED
        BY <4>1 DEF Activation, Context
    <3>4. \A j \in 1..(k - 1) : IsCall(j) => ctl[j].saved.depth < ctl[k].saved.depth
      BY <2>1, <3>1 DEF FramesInv, FramesCoverCalls
    <3> QED
      BY <3>2, <3>3, <3>4, <1>5, <1>6
  <2> QED
    BY <2>1, <1>1, <1>3 DEF FramesCoverCalls, IsCall
<1>8. Waiting'
  BY <1>1, <1>3 DEF FramesInv, Waiting
<1>9. TypeOK'
  <2>1. labels' \in Nat /\ curFunc' \in Funcs \cup {Outside}
    BY <1>0, <1>4 DEF Context
  <2> QED
    BY <2>1, <1>0, <1>1, <1>6, FittingTyped DEF FramesInv, TypeOK, Signals
<1>10. ReturnUnwinds'
  BY <1>0 DEF ReturnUnwinds
<1>11. ReturnValueInFlight'
  <2>1. ASSUME NEW k \in 1..(Len(frames) - 1)
        PROVE  frames'[k].ret = 0
    BY <2>1, <1>0, <1>4, <1>6 DEF FramesInv, ReturnValueInFlight
  <2>2. DOMAIN frames' = 1..(Len(frames) - 1)
    BY <1>6
  <2> QED
    BY <2>1, <2>2 DEF ReturnValueInFlight
<1> QED
  BY <1>0, <1>1, <1>2, <1>7, <1>8, <1>9, <1>10, <1>11 DEF FramesInv

LEMMA CallReturnKeeps ==
  ASSUME FramesInv, CallReturn
  PROVE  FramesInv'
<1>1. CASE EvalReturn
  <2>0. ctl # <<>> /\ Top.at = "start" /\ prog.node[Top.node].kind = "return"
        /\ Eval(prog.node[Top.node].expr, Resume("ret"))
    BY <1>1 DEF EvalReturn, Is
  <2>1. Resume("ret") \in Fitting /\ Resume("ret").at = "ret"
    BY <2>0, ResumeFits DEF StandsAt, Points
  <2>2. prog.node[Top.node].expr \in Exprs
    BY <2>0, TopFacts
  <2> QED
    BY <2>0, <2>1, <2>2, NoReturnHere, EvalKeeps DEF Unwinding
<1>2. CASE ExecReturn
  <2>0. ctl # <<>> /\ Top.at = "ret" /\ Pop /\ signal' = "Return"
        /\ UNCHANGED <<prog, pending, labels, curFunc, overflow>>
        /\ frames' = IF frames = <<>> THEN frames
                     ELSE [frames EXCEPT ![Len(frames)].ret = Top.node]
    BY <1>2 DEF ExecReturn, At
  <2>1. signal # "Return"
    BY <2>0, NoReturnHere DEF Unwinding
  <2>2. Top.node \in Nat /\ frames \in Seq(Frame)
    BY <2>0, TopFacts DEF Fitting, Activation, FramesInv, TypeOK
  <2>3. /\ frames' \in Seq(Frame) /\ Len(frames') = Len(frames)
        /\ DOMAIN frames' = DOMAIN frames
        /\ \A k \in DOMAIN frames : k # Len(frames) => frames'[k] = frames[k]
    <3>1. CASE frames = <<>>
      BY <3>1, <2>0, <2>2
    <3>2. CASE frames # <<>>
      <4>1. frames[Len(frames)] \in Frame /\ Len(frames) \in DOMAIN frames
        BY <3>2, <2>2
      <4>2. [frames[Len(frames)] EXCEPT !.ret = Top.node] \in Frame
        BY <4>1, <2>2 DEF Frame
      <4>3. frames' = [frames EXCEPT ![Len(frames)] =
                         [frames[Len(frames)] EXCEPT !.ret = Top.node]]
        BY <3>2, <2>0
      <4> QED
        BY <4>1, <4>2, <4>3, <2>2, ExceptSeq
    <3> QED
      BY <3>1, <3>2
  <2>4. CtlInv' /\ (ctl' # <<>> => Top'.at \in Unwinding)
    BY <2>0, <2>3, PopKeeps
  <2>5. TypeOK'
    <3>1. Fitting' = Fitting
      BY <2>0 DEF Fitting
    <3> QED
      BY <3>1, <2>0, <2>3, <2>4, FittingTyped DEF FramesInv, TypeOK, CtlInv, Signals
  <2>6. ReturnUnwinds'
    BY <2>4 DEF ReturnUnwinds
  <2>7. ReturnValueInFlight'
    BY <2>0, <2>1, <2>3 DEF FramesInv, ReturnValueInFlight
  <2> QED
    BY <2>0, <2>4, <2>5, <2>6, <2>7 DEF FramesInv, CtlInv
<1>3. CASE LeaveCall
  BY <1>3, LeaveCallKeeps
<1> QED
  BY <1>1, <1>2, <1>3 DEF CallReturn

LEMMA RunKeeps ==
  ASSUME FramesInv, Run
  PROVE  FramesInv'
<1>0. ctl # <<>>
  BY DEF Run, RunStatement, NextTop, StartMain, EndRun, EndMain, At
<1> USE <1>0
<1>t. /\ Top \in Activation /\ Top \in Fitting
      /\ Kids \in Seq(Nat \ {0}) /\ Top.i \in Nat \ {0}
      /\ frames \in Seq(Frame) /\ signal \in Signals
  BY TopFacts DEF Fitting, Activation, Kids, Node, FramesInv, TypeOK
<1>k. ASSUME Top.at \in {"top", "topCheck"}
      PROVE  prog.node[Top.node].kind = "compound"
  BY <1>k, <1>t DEF Fitting, StandsAt, Loops
<1>1. CASE RunStatement
  <2>1. Top.at = "top" /\ Top.i <= Len(Kids) /\ Exec(Kids[Top.i], Resume("topCheck"))
    BY <1>1 DEF RunStatement, At
  <2>2. Resume("topCheck") \in Fitting /\ Resume("topCheck").at = "topCheck"
    BY <2>1, <1>k, ResumeFits DEF StandsAt, Points
  <2>3. Top.i \in DOMAIN Kids
    BY <2>1, <1>t
  <2>4. Kids[Top.i] \in DOMAIN prog.node
    BY <2>3, TopFacts
  <2> QED
    BY <2>1, <2>2, <2>4, ExecKeeps DEF Unwinding
<1>2. CASE NextTop
  <2>1. CASE signal = "Return"
    BY <1>2, <1>t, <2>1, EndKeeps DEF NextTop, Signals
  <2>2. CASE signal # "Return"
    <3>1. /\ Top.at = "topCheck" /\ Go(ResumeAt("top", Top.i + 1))
          /\ UNCHANGED <<prog, frames, signal, pending, labels, curFunc, overflow, flow>>
      BY <1>2, <2>2 DEF NextTop, At
    <3>2. /\ ResumeAt("top", Top.i + 1) \in Fitting
          /\ ResumeAt("top", Top.i + 1).at = "top"
      BY <3>1, <1>k, <1>t, ResumeFits DEF StandsAt, Points
    <3> QED
      BY <2>2, <3>1, <3>2, GoQuietly DEF Quiet
  <2> QED
    BY <2>1, <2>2
<1>3. CASE StartMain
  <2> DEFINE m == prog.main
             a == Active("main", m)
             c == Callee(m)
  <2>1. /\ Top.at = "top" /\ m # 0
        /\ frames' = Append(frames, [func |-> Outside, ret |-> 0])
        /\ labels' = m /\ ctl' = <<a, c>>
        /\ UNCHANGED <<prog, signal, pending, curFunc, overflow>>
    BY <1>3 DEF StartMain, At
  <2>2. signal # "Return"
    BY <2>1, NoReturnHere DEF Unwinding
  <2>3. m \in DOMAIN prog.node /\ m \in Nat \ {0} /\ prog.node[m].kind = "compound"
    BY <2>1, TopFacts, NodesAreNumbers DEF WellFormed
  <2>4. /\ frames' \in Seq(Frame) /\ Len(frames') = Len(frames) + 1
        /\ frames'[Len(frames) + 1].ret = 0
        /\ \A k \in 1..Len(frames) : frames'[k] = frames[k]
        /\ Len(frames) \in Nat /\ DOMAIN frames' = 1..(Len(frames) + 1)
        /\ DOMAIN frames = 1..Len(frames)
    BY <2>1, <1>t DEF Frame
  <2>5. a \in Fitting /\ a.at = "main" /\ a.saved.depth = Len(frames)
    BY <2>3, TopFacts DEF Active, Fitting, Activation, StandsAt, Points, Ctx
  <2>6. c \in Fitting /\ c.at = "start"
    BY <2>1, <2>3, <2>4
       DEF Callee, Ctx, Context, Fitting, Activation, StandsAt, Points, FramesInv, TypeOK
  <2> HIDE DEF a, c, m
  <2>7. ctl' \in Seq(Fitting) /\ Len(ctl') = 2 /\ ctl'[1] = a /\ ctl'[2] = c
        /\ DOMAIN ctl' = 1..2
    BY <2>1, <2>5, <2>6
  <2>8. Fitting' = Fitting
    BY <2>1 DEF Fitting, m
  <2>9. FramesCoverCalls'
    <3>1. ASSUME NEW k \in 1..2, IsCall(k)'
          PROVE  k = 1
      BY <3>1, <2>6, <2>7 DEF IsCall
    <3>2. ctl'[1].saved.depth < Len(frames')
      BY <2>4, <2>5, <2>7
    <3>3. \A k \in 1..2 : k = 1 => 1..(k - 1) = {}
      OBVIOUS
    <3> QED
      BY <3>1, <3>2, <3>3, <2>7 DEF FramesCoverCalls, IsCall
  <2>10. Waiting'
    <3>1. 1..(Len(ctl') - 1) = {1}
      BY <2>7
    <3> QED
      BY <3>1, <2>5, <2>7 DEF Waiting, Unwinding
  <2>11. TypeOK'
    BY <2>1, <2>3, <2>4, <2>7, FittingTyped DEF FramesInv, TypeOK, m
  <2>12. ReturnUnwinds' /\ ReturnValueInFlight'
    BY <2>1, <2>2, <2>4 DEF ReturnUnwinds, FramesInv, ReturnValueInFlight
  <2> QED
    BY <2>1, <2>7, <2>8, <2>9, <2>10, <2>11, <2>12 DEF FramesInv, m
<1>4. CASE EndRun
  BY <1>4, <1>t, EndKeeps DEF EndRun
<1>5. CASE EndMain
  <2>1. Top.at = "main"
    BY <1>5 DEF EndMain, At
  <2>2. Len(ctl) \in DOMAIN ctl /\ IsCall(Len(ctl))
    BY <2>1, TopFacts DEF FramesInv, IsCall, Top
  <2>3. Top.saved.depth < Len(frames) /\ Top.saved.depth \in Nat
    BY <2>2, <1>t DEF FramesInv, FramesCoverCalls, Top, Activation, Context
  <2>4. frames # <<>>
    BY <2>3
  <2>5. SubSeq(frames, 1, Len(frames) - 1) \in Seq(Frame)
    BY <2>4, <1>t, PopStack
  <2> QED
    BY <1>5, <2>5, EndKeeps DEF EndMain, Signals
<1> QED
  BY <1>1, <1>2, <1>3, <1>4, <1>5 DEF Run

-----------------------------------------------------------------------------
(* The theorems.                                                           *)

LEMMA FramesInvInit ==
  ASSUME Init
  PROVE  FramesInv
<1>1. WellFormed(prog)
  BY ProgramsAssumption DEF Init
<1>2. prog.top \in DOMAIN prog.node /\ prog.node[prog.top].kind = "compound"
      /\ prog.top \in Nat \ {0}
  BY <1>1 DEF WellFormed
<1>3. Ctx \in Context
  BY DEF Init, Ctx, Context
<1>4. Active("top", prog.top) \in Fitting /\ Active("top", prog.top).at = "top"
  BY <1>2, <1>3 DEF Active, Fitting, Activation, StandsAt, Points
<1>5. ctl \in Seq(Fitting) /\ Len(ctl) = 1 /\ ctl[1].at = "top" /\ DOMAIN ctl = {1}
  BY <1>4 DEF Init
<1>6. TypeOK
  <2>1. ctl \in Seq(Activation)
    BY <1>5, FittingTyped
  <2>2. frames \in Seq(Frame) /\ signal \in Signals /\ overflow \in BOOLEAN
    <3>1. frames = <<>> /\ signal = "None" /\ overflow = FALSE
      BY DEF Init
    <3>2. frames \in Seq(Frame)
      BY <3>1
    <3>3. signal \in Signals
      BY <3>1 DEF Signals
    <3>4. overflow \in BOOLEAN
      BY <3>1
    <3> QED
      BY <3>2, <3>3, <3>4
  <2>3. /\ pending \in Labels \cup {NoLabel} /\ labels \in Nat
        /\ curFunc \in Funcs \cup {Outside}
    BY DEF Init
  <2> QED
    BY <2>1, <2>2, <2>3 DEF TypeOK
<1>7. FramesCoverCalls /\ Waiting
  BY <1>5 DEF FramesCoverCalls, IsCall, Waiting
<1>8. ReturnUnwinds /\ ReturnValueInFlight
  BY DEF Init, ReturnUnwinds, ReturnValueInFlight
<1> QED
  BY <1>5, <1>6, <1>7, <1>8 DEF FramesInv, Init

LEMMA FramesInvNext ==
  ASSUME FramesInv, [Next]_vars
  PROVE  FramesInv'
<1>1. CASE Statement
  BY <1>1, StatementKeeps
<1>2. CASE Compound
  BY <1>2, CompoundKeeps
<1>3. CASE Branch
  BY <1>3, BranchKeeps
<1>4. CASE Loop
  BY <1>4, LoopKeeps
<1>5. CASE CallReturn
  BY <1>5, CallReturnKeeps
<1>6. CASE Run
  BY <1>6, RunKeeps
<1>7. CASE UNCHANGED vars
  <2>1. UNCHANGED <<prog, ctl, frames, signal, pending, labels, curFunc, overflow>>
    BY <1>7 DEF vars
  <2> QED
    BY <2>1 DEF FramesInv, TypeOK, Fitting, FramesCoverCalls, IsCall, Waiting,
                ReturnUnwinds, ReturnValueInFlight, Top
<1> QED
  BY <1>1, <1>2, <1>3, <1>4, <1>5, <1>6, <1>7 DEF Next, Ended

\* The invariant that carries the theorems below: at every point of every run,
\* the activations are of the running program and stand where their statement
\* can, calls have their frames, and a Return signal is only seen on its way out.
THEOREM FramesInvariant == Spec => []FramesInv
<1> QED
  BY FramesInvInit, FramesInvNext, PTL DEF Spec

\* The fields and the activations of the walker stay in their domains; every
\* child, label and position that the exec functions index is there.
THEOREM TypeCorrectness == Spec => []TypeOK
<1>1. FramesInv => TypeOK
  BY DEF FramesInv
<1> QED
  BY <1>1, FramesInvariant, PTL

\* evalCall and run never read or pop call_stack_ where there is no frame of
\* theirs, for every program, every depth of calls and every throw.
THEOREM FramesCoverCallsHolds == Spec => []FramesCoverCalls
<1>1. FramesInv => FramesCoverCalls
  BY DEF FramesInv
<1> QED
  BY <1>1, FramesInvariant, PTL

\* The value of a return never outlives the return: a frame holds one only
\* while the Return signal is on its way to the end of the call.
THEOREM ReturnValueInFlightHolds == Spec => []ReturnValueInFlight
<1>1. FramesInv => ReturnValueInFlight
  BY DEF FramesInv
<1> QED
  BY <1>1, FramesInvariant, PTL

(* The tree of a program.                                                  *)

\* A function that a node either has of its own or takes over from its parent.
Inherits(f, n, up, own, value) ==
  f = [m \in 1 .. n |-> IF own[m] THEN value[m] ELSE f[up[m]]]

LEMMA InheritedExists ==
  ASSUME NEW n \in Nat, NEW up \in [1 .. n -> Nat], NEW own \in [1 .. n -> BOOLEAN], NEW value,
         \A m \in 1 .. n : up[m] < m /\ (up[m] = 0 => own[m])
  PROVE  \E f : Inherits(f, n, up, own, value)
<1> DEFINE Fits(f, k) == Inherits(f, k, up, own, value)
           T == {k \in 0 .. n : \E f : Fits(f, k)}
<1>1. 0 \in T
  <2> DEFINE e == [m \in 1 .. 0 |-> 0]
             h == [m \in 1 .. 0 |-> IF own[m] THEN value[m] ELSE e[up[m]]]
  <2>1. e = h
    <3>1. \A m \in 1 .. 0 : e[m] = h[m]
      OBVIOUS
    <3>2. e = [m \in 1 .. 0 |-> e[m]] /\ h = [m \in 1 .. 0 |-> h[m]]
      OBVIOUS
    <3> HIDE DEF e, h
    <3> QED
      BY <3>1, <3>2
  <2>2. Fits(e, 0)
    BY <2>1 DEF Inherits
  <2> HIDE DEF e, Fits
  <2> QED
    BY <2>2
<1>2. ASSUME NEW k \in 0 .. n - 1, k \in T
      PROVE  k + 1 \in T
  <2>1. PICK f : Fits(f, k)
    BY <1>2
  <2> DEFINE last == IF own[k + 1] THEN value[k + 1] ELSE f[up[k + 1]]
             g == [m \in 1 .. k + 1 |-> IF m = k + 1 THEN last ELSE f[m]]
  <2>2. \A m \in 1 .. k : f[m] = IF own[m] THEN value[m] ELSE f[up[m]]
    BY <2>1 DEF Inherits
  <2>3. ASSUME NEW m \in 1 .. k + 1
        PROVE  g[m] = IF own[m] THEN value[m] ELSE g[up[m]]
    <3>1. ASSUME ~ own[m] PROVE up[m] \in 1 .. k + 1 /\ up[m] # k + 1
      <4>1. m \in 1 .. n /\ up[m] \in Nat /\ up[m] < m /\ up[m] # 0
        BY <3>1
      <4> QED
        BY <4>1
    <3>2. CASE m = k + 1
      BY <3>1, <3>2
    <3>3. CASE m # k + 1
      <4>1. m \in 1 .. k
        BY <3>3
      <4> QED
        BY <2>2, <3>1, <3>3, <4>1
    <3> QED
      BY <3>2, <3>3
  <2> DEFINE h == [m \in 1 .. k + 1 |-> IF own[m] THEN value[m] ELSE g[up[m]]]
  <2>4. \A m \in 1 .. k + 1 : g[m] = h[m]
    <3> HIDE DEF g
    <3> QED
      BY <2>3
  <2>5. g = h
    <3>1. DOMAIN g = 1 .. k + 1 /\ DOMAIN h = 1 .. k + 1
      OBVIOUS
    <3>2. g = [m \in 1 .. k + 1 |-> g[m]]
      OBVIOUS
    <3>3. h = [m \in 1 .. k + 1 |-> h[m]]
      OBVIOUS
    <3> HIDE DEF g, h
    <3> QED
      BY <2>4, <3>2, <3>3
  <2>6. Fits(g, k + 1)
    <3> QED
      BY <2>5 DEF Inherits
  <2> HIDE DEF Fits
  <2> QED
    BY <2>6
<1>3. n \in T
  <2> HIDE DEF T
  <2>1. \A k \in 0 .. n : k \in T
    BY <1>1, <1>2, IntervalInduction
  <2> QED
    BY <2>1
<1> QED
  BY <1>3

\* What a parser's tree is.
LEMMA TreeIs ==
  ASSUME NEW p, WellFormed(p)
  PROVE  /\ Len(p.node) \in Nat /\ DOMAIN p.node = 1 .. Len(p.node)
         /\ \A n \in DOMAIN p.node :
              /\ n \in Nat \ {0} /\ p.node[n] \in Node
              /\ p.node[n].up \in Nat /\ p.node[n].up < n
              /\ p.node[n].up # 0 => p.node[n].up \in DOMAIN p.node
<1>1. p.node \in Seq(Node)
  BY DEF WellFormed
<1>2. /\ Len(p.node) \in Nat /\ DOMAIN p.node = 1 .. Len(p.node)
      /\ \A n \in DOMAIN p.node : n \in Nat \ {0} /\ p.node[n] \in Node
  BY <1>1
<1>3. \A n \in DOMAIN p.node : p.node[n].up \in DOMAIN p.node \cup {0} /\ p.node[n].up < n
  BY DEF WellFormed
<1> QED
  BY <1>2, <1>3

\* A node's kids are kids of that node only, and none is listed twice.
LEMMA KidsAre ==
  ASSUME NEW p, WellFormed(p), NEW n \in DOMAIN p.node, NEW i \in DOMAIN p.node[n].kids
  PROVE  /\ p.node[n].kids[i] \in DOMAIN p.node
         /\ p.node[p.node[n].kids[i]].up = n
         /\ Position(p, p.node[n].kids[i]) = i
         /\ n # 0 /\ i \in Nat \ {0} /\ i <= Len(p.node[n].kids)
<1> DEFINE kids == p.node[n].kids
           m == kids[i]
<1>1. m \in DOMAIN p.node /\ p.node[m].up = n
  BY DEF WellFormed
<1>2. \A j \in DOMAIN kids : kids[i] = kids[j] => i = j
  BY DEF WellFormed
<1>3. Position(p, m) = CHOOSE j \in DOMAIN kids : kids[j] = m
  BY <1>1 DEF Position
<1>4. n # 0 /\ p.node[n] \in Node
  BY TreeIs
<1>5. kids \in Seq(Nat \ {0})
  BY <1>4 DEF Node
<1> HIDE DEF kids
<1> QED
  BY <1>1, <1>2, <1>3, <1>4, <1>5 DEF kids

LEMMA RootIs ==
  ASSUME NEW p, WellFormed(p), NEW n \in DOMAIN p.node
  PROVE  Root(p, n) = IF p.node[n].up = 0 THEN n ELSE Root(p, p.node[n].up)
<1> DEFINE len == Len(p.node)
           up == [m \in 1 .. len |-> p.node[m].up]
           own == [m \in 1 .. len |-> p.node[m].up = 0]
           value == [m \in 1 .. len |-> m]
           Fits(f) == f = [m \in DOMAIN p.node |->
                             IF p.node[m].up = 0 THEN m ELSE f[p.node[m].up]]
<1>1. len \in Nat /\ DOMAIN p.node = 1 .. len /\ up \in [1 .. len -> Nat]
      /\ own \in [1 .. len -> BOOLEAN]
      /\ \A m \in 1 .. len : up[m] < m /\ (up[m] = 0 => own[m])
      /\ (p.node[n].up # 0 => p.node[n].up \in DOMAIN p.node)
  BY TreeIs
<1>2. PICK f : Inherits(f, len, up, own, value)
  <2> HIDE DEF len, up, own, value
  <2> QED
    BY <1>1, InheritedExists
<1>3. Fits(f)
  BY <1>1, <1>2 DEF Inherits
<1>4. \A m \in DOMAIN p.node : Root(p, m) = (CHOOSE r : Fits(r))[m]
  BY DEF Root
<1>5. Fits(CHOOSE r : Fits(r))
  <2> HIDE DEF Fits
  <2> QED
    BY <1>3
<1>6. PICK r : Fits(r) /\ \A m \in DOMAIN p.node : Root(p, m) = r[m]
  <2> HIDE DEF Fits
  <2> QED
    BY <1>4, <1>5
<1> QED
  BY <1>1, <1>6

LEMMA EnclosingIs ==
  ASSUME NEW p, WellFormed(p), NEW K, NEW n \in DOMAIN p.node
  PROVE  Enclosing(p, K, n) = LET u == p.node[n].up
                              IN  IF u = 0 \/ p.node[u].kind \in K THEN u
                                  ELSE Enclosing(p, K, u)
<1> DEFINE len == Len(p.node)
           up == [m \in 1 .. len |-> p.node[m].up]
           own == [m \in 1 .. len |-> p.node[m].up = 0 \/ p.node[p.node[m].up].kind \in K]
           value == [m \in 1 .. len |-> p.node[m].up]
           Fits(f) == f = [m \in DOMAIN p.node |->
                             IF p.node[m].up = 0 \/ p.node[p.node[m].up].kind \in K
                             THEN p.node[m].up ELSE f[p.node[m].up]]
<1>1. len \in Nat /\ DOMAIN p.node = 1 .. len /\ up \in [1 .. len -> Nat]
      /\ own \in [1 .. len -> BOOLEAN]
      /\ \A m \in 1 .. len : up[m] < m /\ (up[m] = 0 => own[m])
      /\ (p.node[n].up # 0 => p.node[n].up \in DOMAIN p.node)
  BY TreeIs
<1>2. PICK f : Inherits(f, len, up, own, value)
  <2> HIDE DEF len, up, own, value
  <2> QED
    BY <1>1, InheritedExists
<1>3. Fits(f)
  BY <1>1, <1>2 DEF Inherits
<1>4. \A m \in DOMAIN p.node : Enclosing(p, K, m) = (CHOOSE r : Fits(r))[m]
  BY DEF Enclosing
<1>5. Fits(CHOOSE r : Fits(r))
  <2> HIDE DEF Fits
  <2> QED
    BY <1>3
<1>6. PICK r : Fits(r) /\ \A m \in DOMAIN p.node : Enclosing(p, K, m) = r[m]
  <2> HIDE DEF Fits
  <2> QED
    BY <1>4, <1>5
<1> QED
  BY <1>1, <1>6

LEMMA HandlerIs ==
  ASSUME NEW p, WellFormed(p), NEW n \in DOMAIN p.node
  PROVE  Handler(p, n) = LET u == p.node[n].up
                         IN  IF u = 0 \/ (p.node[u].kind = "try" /\ p.node[u].kids[1] = n)
                             THEN u ELSE Handler(p, u)
<1> DEFINE len == Len(p.node)
           up == [m \in 1 .. len |-> p.node[m].up]
           own == [m \in 1 .. len |-> \/ p.node[m].up = 0
                              \/ /\ p.node[p.node[m].up].kind = "try"
                                 /\ p.node[p.node[m].up].kids[1] = m]
           value == [m \in 1 .. len |-> p.node[m].up]
           Fits(f) == f = [m \in DOMAIN p.node |->
                             IF \/ p.node[m].up = 0
                                \/ /\ p.node[p.node[m].up].kind = "try"
                                   /\ p.node[p.node[m].up].kids[1] = m
                             THEN p.node[m].up ELSE f[p.node[m].up]]
<1>1. len \in Nat /\ DOMAIN p.node = 1 .. len /\ up \in [1 .. len -> Nat]
      /\ own \in [1 .. len -> BOOLEAN]
      /\ \A m \in 1 .. len : up[m] < m /\ (up[m] = 0 => own[m])
      /\ (p.node[n].up # 0 => p.node[n].up \in DOMAIN p.node)
  BY TreeIs
<1>2. PICK f : Inherits(f, len, up, own, value)
  <2> HIDE DEF len, up, own, value
  <2> QED
    BY <1>1, InheritedExists
<1>3. Fits(f)
  BY <1>1, <1>2 DEF Inherits
<1>4. \A m \in DOMAIN p.node : Handler(p, m) = (CHOOSE r : Fits(r))[m]
  BY DEF Handler
<1>5. Fits(CHOOSE r : Fits(r))
  <2> HIDE DEF Fits
  <2> QED
    BY <1>3
<1>6. PICK r : Fits(r) /\ \A m \in DOMAIN p.node : Handler(p, m) = r[m]
  <2> HIDE DEF Fits
  <2> QED
    BY <1>4, <1>5
<1> QED
  BY <1>1, <1>6

LEMMA ReachesIs ==
  ASSUME NEW p, WellFormed(p), NEW c, NEW n \in DOMAIN p.node
  PROVE  Reaches(p, c, n) = LET u == p.node[n].up
                            IN  IF u \in {0, c} \/ p.node[u].kind \in Loops \cup {"switch"}
                                THEN u = c ELSE Reaches(p, c, u)
<1> DEFINE len == Len(p.node)
           up == [m \in 1 .. len |-> p.node[m].up]
           own == [m \in 1 .. len |-> \/ p.node[m].up \in {0, c}
                              \/ p.node[p.node[m].up].kind \in Loops \cup {"switch"}]
           value == [m \in 1 .. len |-> p.node[m].up = c]
           Fits(f) == f = [m \in DOMAIN p.node |->
                             IF \/ p.node[m].up \in {0, c}
                                \/ p.node[p.node[m].up].kind \in Loops \cup {"switch"}
                             THEN p.node[m].up = c ELSE f[p.node[m].up]]
<1>1. len \in Nat /\ DOMAIN p.node = 1 .. len /\ up \in [1 .. len -> Nat]
      /\ own \in [1 .. len -> BOOLEAN]
      /\ \A m \in 1 .. len : up[m] < m /\ (up[m] = 0 => own[m])
      /\ (p.node[n].up # 0 => p.node[n].up \in DOMAIN p.node)
  BY TreeIs
<1>2. PICK f : Inherits(f, len, up, own, value)
  <2> HIDE DEF len, up, own, value
  <2> QED
    BY <1>1, InheritedExists
<1>3. Fits(f)
  BY <1>1, <1>2 DEF Inherits
<1>4. \A m \in DOMAIN p.node : Reaches(p, c, m) = (CHOOSE r : Fits(r))[m]
  BY DEF Reaches
<1>5. Fits(CHOOSE r : Fits(r))
  <2> HIDE DEF Fits
  <2> QED
    BY <1>3
<1>6. PICK r : Fits(r) /\ \A m \in DOMAIN p.node : Reaches(p, c, m) = r[m]
  <2> HIDE DEF Fits
  <2> QED
    BY <1>4, <1>5
<1> QED
  BY <1>1, <1>6

\* The abstract specification speaks of the same trees.
LEMMA CFNames ==
  /\ CF!Loops = Loops
  /\ \A p, n : CF!Position(p, n) = Position(p, n) /\ CF!Root(p, n) = Root(p, n)
                /\ CF!Handler(p, n) = Handler(p, n) /\ CF!Evaluated(p, n) = Evaluated(p, n)
  /\ \A p, K, n : CF!Enclosing(p, K, n) = Enclosing(p, K, n)
<1>1. CF!Loops = Loops
  BY DEF CF!Loops, Loops
<1>2. ASSUME NEW p, NEW n
      PROVE  CF!Position(p, n) = Position(p, n)
  BY DEF CF!Position, Position
<1>3. ASSUME NEW p, NEW n
      PROVE  CF!Root(p, n) = Root(p, n)
  BY DEF CF!Root, Root
<1>4. ASSUME NEW p, NEW n
      PROVE  CF!Handler(p, n) = Handler(p, n)
  BY DEF CF!Handler, Handler
<1>5. ASSUME NEW p, NEW n
      PROVE  CF!Evaluated(p, n) = Evaluated(p, n)
  BY DEF CF!Evaluated, Evaluated
<1>6. ASSUME NEW p, NEW K, NEW n
      PROVE  CF!Enclosing(p, K, n) = Enclosing(p, K, n)
  BY DEF CF!Enclosing, Enclosing
<1> QED
  BY <1>1, <1>2, <1>3, <1>4, <1>5, <1>6

LEMMA AfterIs ==
  ASSUME NEW p, WellFormed(p), NEW n \in DOMAIN p.node
  PROVE  CF!After(p, n) =
           LET u == p.node[n].up
               i == Position(p, n)
           IN  IF u = 0 THEN {CF!Exit}
               ELSE IF p.node[u].kind \in Loops THEN {Again(u)}
               ELSE IF p.node[u].kind \in {"compound", "switch"} /\ i < Len(p.node[u].kids)
               THEN {Enter(p.node[u].kids[i + 1])}
               ELSE CF!After(p, u)
<1> DEFINE len == Len(p.node)
           up == [m \in 1 .. len |-> p.node[m].up]
           own == [m \in 1 .. len |-> \/ p.node[m].up = 0 \/ p.node[p.node[m].up].kind \in Loops
                              \/ /\ p.node[p.node[m].up].kind \in {"compound", "switch"}
                                 /\ Position(p, m) < Len(p.node[p.node[m].up].kids)]
           value == [m \in 1 .. len |-> IF p.node[m].up = 0 THEN {CF!Exit}
                                ELSE IF p.node[p.node[m].up].kind \in Loops
                                THEN {Again(p.node[m].up)}
                                ELSE {Enter(p.node[p.node[m].up].kids[Position(p, m) + 1])}]
           Fits(f) == f = [m \in DOMAIN p.node |->
                             IF p.node[m].up = 0 THEN {CF!Exit}
                             ELSE IF p.node[p.node[m].up].kind \in Loops
                             THEN {Again(p.node[m].up)}
                             ELSE IF /\ p.node[p.node[m].up].kind \in {"compound", "switch"}
                                     /\ Position(p, m) < Len(p.node[p.node[m].up].kids)
                             THEN {Enter(p.node[p.node[m].up].kids[Position(p, m) + 1])}
                             ELSE f[p.node[m].up]]
<1>1. len \in Nat /\ DOMAIN p.node = 1 .. len /\ up \in [1 .. len -> Nat]
      /\ own \in [1 .. len -> BOOLEAN]
      /\ \A m \in 1 .. len : up[m] < m /\ (up[m] = 0 => own[m])
      /\ (p.node[n].up # 0 => p.node[n].up \in DOMAIN p.node)
  BY TreeIs
<1>2. PICK f : Inherits(f, len, up, own, value)
  <2> HIDE DEF len, up, own, value
  <2> QED
    BY <1>1, InheritedExists
<1>3. Fits(f)
  BY <1>1, <1>2 DEF Inherits
<1>4. \A m \in DOMAIN p.node : CF!After(p, m) = (CHOOSE r : Fits(r))[m]
  BY DEF CF!After, CF!Position, Position, CF!Loops, Loops, CF!Again, Again, CF!Enter, Enter
<1>5. Fits(CHOOSE r : Fits(r))
  <2> HIDE DEF Fits
  <2> QED
    BY <1>3
<1>6. PICK r : Fits(r) /\ \A m \in DOMAIN p.node : CF!After(p, m) = r[m]
  <2> HIDE DEF Fits
  <2> QED
    BY <1>4, <1>5
<1> QED
  BY <1>1, <1>6

\* A body is the root of all that it contains.
LEMMA RootIsBody ==
  ASSUME NEW p, WellFormed(p), NEW n \in DOMAIN p.node
  PROVE  Root(p, n) \in DOMAIN p.node /\ p.node[Root(p, n)].up = 0
<1> DEFINE S == {m \in DOMAIN p.node :
                   ~ (Root(p, m) \in DOMAIN p.node /\ p.node[Root(p, m)].up = 0)}
<1>1. ASSUME S # {} PROVE FALSE
  <2>1. S \subseteq Nat
    BY TreeIs
  <2>2. PICK m \in S : \A k \in S : m <= k
    <3> HIDE DEF S
    <3> QED
      BY <1>1, <2>1, LeastExists
  <2>3. /\ p.node[m].up \in Nat /\ p.node[m].up < m /\ m \in Nat
        /\ p.node[m].up # 0 => p.node[m].up \in DOMAIN p.node
    BY TreeIs
  <2>4. Root(p, m) = IF p.node[m].up = 0 THEN m ELSE Root(p, p.node[m].up)
    BY RootIs
  <2>5. p.node[m].up \notin S
    BY <2>2, <2>3
  <2> QED
    BY <2>3, <2>4, <2>5
<1> QED
  BY <1>1

\* The compounds whose labels are recorded for a body are in that body.
LooksInto(p, b, f, m) ==
  LET u == p.node[m].up IN
  /\ p.node[m].kind = "compound"
  /\ \/ m = b
     \/ u # 0 /\ p.node[u].kind = "compound" /\ f[u]
     \/ /\ u # 0 /\ p.node[u].kind \in Loops \cup {"if"}
        /\ p.node[u].up # 0 /\ p.node[p.node[u].up].kind = "compound"
        /\ f[p.node[u].up]

LEMMA ScanExists ==
  ASSUME NEW p, WellFormed(p), NEW b
  PROVE  \E f : f = [m \in DOMAIN p.node |-> LooksInto(p, b, f, m)]
<1> DEFINE n == Len(p.node)
           Fits(f, k) == f = [m \in 1 .. k |-> LooksInto(p, b, f, m)]
           T == {k \in 0 .. n : \E f : Fits(f, k)}
<1>0. n \in Nat /\ DOMAIN p.node = 1 .. n
  BY TreeIs
<1>1. 0 \in T
  <2> DEFINE e == [m \in 1 .. 0 |-> FALSE]
             h == [m \in 1 .. 0 |-> LooksInto(p, b, e, m)]
  <2>1. e = h
    <3>1. \A m \in 1 .. 0 : e[m] = h[m]
      OBVIOUS
    <3>2. e = [m \in 1 .. 0 |-> e[m]] /\ h = [m \in 1 .. 0 |-> h[m]]
      OBVIOUS
    <3> HIDE DEF e, h
    <3> QED
      BY <3>1, <3>2
  <2>2. Fits(e, 0)
    BY <2>1
  <2> HIDE DEF e, Fits
  <2> QED
    BY <1>0, <2>2
<1>2. ASSUME NEW k \in 0 .. n - 1, k \in T
      PROVE  k + 1 \in T
  <2>1. PICK f : Fits(f, k)
    BY <1>2
  <2> DEFINE last == LooksInto(p, b, f, k + 1)
             g == [m \in 1 .. k + 1 |-> IF m = k + 1 THEN last ELSE f[m]]
             h == [m \in 1 .. k + 1 |-> LooksInto(p, b, g, m)]
  <2>2. \A m \in 1 .. k : f[m] = LooksInto(p, b, f, m)
    BY <2>1
  <2>3. ASSUME NEW m \in 1 .. k + 1
        PROVE  g[m] = h[m]
    <3>1. ASSUME NEW u \in Nat, u < m, u # 0
          PROVE  g[u] = f[u]
      BY <3>1
    <3>2. /\ p.node[m].up \in Nat /\ p.node[m].up < m
          /\ p.node[m].up # 0 => /\ p.node[p.node[m].up].up \in Nat
                                 /\ p.node[p.node[m].up].up < p.node[m].up
      <4>1. m \in DOMAIN p.node
        BY <1>0
      <4> QED
        BY <4>1, TreeIs
    <3>3. h[m] = LooksInto(p, b, g, m)
      <4> HIDE DEF g
      <4> QED
        OBVIOUS
    <3>4. g[m] = LooksInto(p, b, f, m)
      BY <2>2
    <3> HIDE DEF g, h
    <3>5. \A u \in Nat : u < m /\ u # 0 => g[u] = f[u]
      BY <3>1
    <3>6. LooksInto(p, b, g, m) = LooksInto(p, b, f, m)
      <4>1. p.node[m].up # 0 => g[p.node[m].up] = f[p.node[m].up]
        BY <3>2, <3>5
      <4>2. p.node[m].up # 0 /\ p.node[p.node[m].up].up # 0
              => g[p.node[p.node[m].up].up] = f[p.node[p.node[m].up].up]
        BY <3>2, <3>5
      <4> QED
        BY <4>1, <4>2 DEF LooksInto
    <3> QED
      BY <3>3, <3>4, <3>6
  <2>4. g = h
    <3>1. g = [m \in 1 .. k + 1 |-> g[m]] /\ h = [m \in 1 .. k + 1 |-> h[m]]
      OBVIOUS
    <3> HIDE DEF g, h
    <3> QED
      BY <2>3, <3>1
  <2>5. Fits(g, k + 1)
    BY <2>4
  <2> HIDE DEF g, Fits
  <2> QED
    BY <1>0, <2>5
<1>3. n \in T
  <2> HIDE DEF T
  <2>1. \A k \in 0 .. n : k \in T
    BY <1>0, <1>1, <1>2, IntervalInduction
  <2> QED
    BY <1>0, <2>1
<1> QED
  BY <1>0, <1>3

LEMMA ScannedIsInBody ==
  ASSUME NEW p, WellFormed(p), NEW b \in DOMAIN p.node, p.node[b].up = 0,
         NEW c \in DOMAIN p.node, Scanned(p, b, c)
  PROVE  Root(p, c) = b /\ p.node[c].kind = "compound"
<1> DEFINE Fits(f) == f = [m \in DOMAIN p.node |-> LooksInto(p, b, f, m)]
<1>1. \E f : Fits(f)
  BY ScanExists
<1>2. Scanned(p, b, c) = (CHOOSE f : Fits(f))[c]
  BY DEF Scanned, LooksInto
<1>3. PICK f : Fits(f) /\ f[c]
  <2> HIDE DEF Fits
  <2> QED
    BY <1>1, <1>2
<1>4. \A m \in DOMAIN p.node : f[m] = LooksInto(p, b, f, m)
  BY <1>3
<1> DEFINE S == {m \in DOMAIN p.node : f[m] /\ Root(p, m) # b}
<1>5. ASSUME S # {} PROVE FALSE
  <2>1. S \subseteq Nat
    BY TreeIs
  <2>2. PICK m \in S : \A k \in S : m <= k
    <3> HIDE DEF S
    <3> QED
      BY <1>5, <2>1, LeastExists
  <2>3. m \in DOMAIN p.node /\ LooksInto(p, b, f, m) /\ Root(p, m) # b
    BY <1>4
  <2>4. /\ p.node[m].up \in Nat /\ p.node[m].up < m /\ m \in Nat
        /\ p.node[m].up # 0 => /\ p.node[m].up \in DOMAIN p.node
                               /\ p.node[p.node[m].up].up \in Nat
                               /\ p.node[p.node[m].up].up < p.node[m].up
                               /\ p.node[p.node[m].up].up # 0
                                    => p.node[p.node[m].up].up \in DOMAIN p.node
    BY <2>3, TreeIs
  <2>5. Root(p, m) = IF p.node[m].up = 0 THEN m ELSE Root(p, p.node[m].up)
    BY <2>3, RootIs
  <2>6. \A u \in DOMAIN p.node : u \in Nat /\ u < m /\ f[u] => Root(p, u) = b
    BY <2>2, <2>4
  <2>7. CASE m = b
    BY <2>3, <2>5, <2>7
  <2>8. CASE p.node[m].up # 0 /\ f[p.node[m].up]
    BY <2>3, <2>4, <2>5, <2>6, <2>8
  <2>9. CASE p.node[m].up # 0 /\ p.node[p.node[m].up].up # 0 /\ f[p.node[p.node[m].up].up]
    <3>1. Root(p, p.node[m].up) = Root(p, p.node[p.node[m].up].up)
      BY <2>4, <2>9, RootIs
    <3>2. Root(p, p.node[p.node[m].up].up) = b
      BY <2>4, <2>6, <2>9
    <3> QED
      BY <2>3, <2>5, <2>9, <3>1, <3>2
  <2> QED
    BY <2>3, <2>7, <2>8, <2>9 DEF LooksInto
<1>6. p.node[c].kind = "compound"
  BY <1>3, <1>4 DEF LooksInto
<1> QED
  BY <1>3, <1>5, <1>6

\* An entry of the table of a body is a label of that body.
LEMMA EntryIs ==
  ASSUME NEW p, WellFormed(p), NEW b \in DOMAIN p.node, p.node[b].up = 0, NEW l,
         LabelEntry(p, b, l) # 0
  PROVE  LET m == LabelEntry(p, b, l)
         IN  /\ m \in DOMAIN p.node /\ p.node[m].kind = "label" /\ p.node[m].name = l
             /\ p.node[m].up \in DOMAIN p.node /\ p.node[m].up # 0 /\ Root(p, m) = b
             /\ p.node[p.node[m].up].kind = "compound"
<1> DEFINE found == {n \in DOMAIN p.node :
                       /\ p.node[n].kind = "label" /\ p.node[n].name = l
                       /\ p.node[n].up # 0 /\ Scanned(p, b, p.node[n].up)}
           m == LabelEntry(p, b, l)
<1>1. m = IF found = {} THEN 0 ELSE CHOOSE n \in found : TRUE
  BY DEF LabelEntry
<1>2. m \in found
  <2> HIDE DEF found
  <2> QED
    BY <1>1
<1> HIDE DEF m
<1>3. /\ m \in DOMAIN p.node /\ p.node[m].kind = "label" /\ p.node[m].name = l
      /\ p.node[m].up # 0 /\ Scanned(p, b, p.node[m].up)
  BY <1>2
<1>4. p.node[m].up \in DOMAIN p.node
  BY <1>3, TreeIs
<1>5. Root(p, p.node[m].up) = b /\ p.node[p.node[m].up].kind = "compound"
  BY <1>3, <1>4, ScannedIsInBody
<1>6. Root(p, m) = b
  BY <1>3, <1>5, RootIs
<1> QED
  BY <1>3, <1>4, <1>5, <1>6 DEF m

-----------------------------------------------------------------------------
(* What may follow a point.                                                *)

\* The points at which a statement begins and a loop goes on.
AtNode(pt, n) == pt = Enter(n) \/ pt = Again(n)

LEMMA PointsAre ==
  /\ \A n : Enter(n)[1] = n /\ Again(n)[1] = n /\ Enter(n) # CF!Exit /\ Again(n) # CF!Exit
  /\ \A n : CF!Enter(n) = Enter(n) /\ CF!Again(n) = Again(n)
  /\ \A m, n : Enter(m) # Again(n)
  /\ \A pt, n : AtNode(pt, n) => pt[1] = n
BY DEF Enter, Again, CF!Exit, CF!Enter, CF!Again, AtNode

LEMMA SuccIs ==
  ASSUME NEW p, NEW pt, NEW n, AtNode(pt, n)
  PROVE  LET kind == p.node[n].kind
             kids == p.node[n].kids
             S == CF!Succ(p, pt)
             A == CF!After(p, n)
         IN  /\ kind = "simple" => S = A
             /\ kind \in {"compound", "label", "try"}
                  => S = IF kids = <<>> THEN A ELSE {Enter(kids[1])}
             /\ kind = "if" => S = {Enter(kids[i]) : i \in DOMAIN kids}
                                    \cup (IF Len(kids) = 1 THEN A ELSE {})
             /\ kind \in {"while", "for"} => S = {Enter(kids[1])} \cup A
             /\ kind = "dowhile"
                  => S = {Enter(kids[1])} \cup (IF pt = Again(n) THEN A ELSE {})
             /\ kind = "switch" => S = {Enter(kids[i]) : i \in p.node[n].entries}
                                        \cup (IF p.node[n].dflt THEN {} ELSE A)
             /\ kind = "break"
                  => S = CF!After(p, Enclosing(p, Loops \cup {"switch"}, n))
             /\ kind = "continue" => S = {Again(Enclosing(p, Loops, n))}
             /\ kind = "goto"
                  => \A m \in DOMAIN p.node :
                       p.node[m].kind = "label" /\ p.node[m].name = p.node[n].name
                       /\ Root(p, m) = Root(p, n) => Enter(m) \in S
             /\ kind = "return" => S = {CF!Exit}
<1>1. pt[1] = n
  BY PointsAre
<1> DEFINE kind == p.node[n].kind
<1>2. ASSUME kind \in {"simple", "compound", "label", "try", "while", "for", "break", "return"}
      PROVE  /\ kind = "simple" => CF!Succ(p, pt) = CF!After(p, n)
             /\ kind \in {"compound", "label", "try"}
                  => CF!Succ(p, pt) = IF p.node[n].kids = <<>> THEN CF!After(p, n)
                                     ELSE {Enter(p.node[n].kids[1])}
             /\ kind \in {"while", "for"}
                  => CF!Succ(p, pt) = {Enter(p.node[n].kids[1])} \cup CF!After(p, n)
             /\ kind = "break"
                  => CF!Succ(p, pt) = CF!After(p, Enclosing(p, Loops \cup {"switch"}, n))
             /\ kind = "return" => CF!Succ(p, pt) = {CF!Exit}
  BY <1>1, <1>2, CFNames, PointsAre DEF CF!Succ
<1>3. ASSUME kind = "if"
      PROVE  CF!Succ(p, pt) = {Enter(p.node[n].kids[i]) : i \in DOMAIN p.node[n].kids}
                               \cup (IF Len(p.node[n].kids) = 1 THEN CF!After(p, n) ELSE {})
  BY <1>1, <1>3 DEF CF!Succ, CF!Enter, Enter
<1>4. ASSUME kind = "dowhile"
      PROVE  CF!Succ(p, pt) = {Enter(p.node[n].kids[1])}
                               \cup (IF pt = Again(n) THEN CF!After(p, n) ELSE {})
  BY <1>1, <1>4, PointsAre DEF CF!Succ
<1>5. ASSUME kind = "switch"
      PROVE  CF!Succ(p, pt) = {Enter(p.node[n].kids[i]) : i \in p.node[n].entries}
                               \cup (IF p.node[n].dflt THEN {} ELSE CF!After(p, n))
  BY <1>1, <1>5 DEF CF!Succ, CF!Enter, Enter
<1>6. ASSUME kind = "continue"
      PROVE  CF!Succ(p, pt) = {Again(Enclosing(p, Loops, n))}
  BY <1>1, <1>6, CFNames, PointsAre DEF CF!Succ
<1>7. ASSUME kind = "goto", NEW m \in DOMAIN p.node, p.node[m].kind = "label",
             p.node[m].name = p.node[n].name, Root(p, m) = Root(p, n)
      PROVE  Enter(m) \in CF!Succ(p, pt)
  <2>1. CF!Succ(p, pt) = {CF!Enter(k) : k \in {k \in DOMAIN p.node :
           /\ p.node[k].kind = "label" /\ p.node[k].name = p.node[n].name
           /\ CF!Root(p, k) = CF!Root(p, n)}}
    BY <1>1, <1>7 DEF CF!Succ
  <2>2. CF!Root(p, m) = CF!Root(p, n)
    BY <1>7, CFNames
  <2> QED
    BY <1>7, <2>1, <2>2, PointsAre
<1> QED
  BY <1>2, <1>3, <1>4, <1>5, <1>6, <1>7

-----------------------------------------------------------------------------
(* How the activations stand on each other.                                *)

\* The points at which an activation waits for a call, and for a statement.
Callers == {"done", "test", "cond", "select", "ret"}
Outermost == {"top", "topCheck", "main"}

\* A statement that runs for activation a is n.
Under(p, a, n) ==
  LET kids == p.node[a.node].kids IN
  /\ n \in DOMAIN p.node
  /\ IF a.at \in {"call", "main"} THEN n = a.node
     ELSE /\ p.node[n].up = a.node
          /\ a.at \in {"done", "check", "after", "caseCheck", "try", "topCheck"}
          /\ a.at = "done" => p.node[a.node].kind \in {"label", "if", "try"}
          /\ a.at = "done" /\ p.node[a.node].kind = "try" => n = kids[2]
          /\ a.at \in {"try", "after"} => n = kids[1]
          /\ a.at \in {"check", "caseCheck", "topCheck"} =>
               a.i \in DOMAIN kids /\ n = kids[a.i]

\* b may stand on a.
Link(p, a, b) ==
  /\ b.at \notin Outermost
  /\ IF b.at = "call" THEN a.at \in Callers /\ p.node[b.node].up = 0
     ELSE Under(p, a, b.node)

\* a may stand on nothing.
Bottom(p, a) ==
  /\ a.at \in Outermost
  /\ a.node = IF a.at = "main" THEN p.main ELSE p.top

Nested ==
  /\ ctl # <<>> => Bottom(prog, ctl[1])
  /\ \A k \in 1 .. Len(ctl) - 1 : Link(prog, ctl[k], ctl[k + 1])

\* A return value on its way is of the function it is in.
OwnReturn ==
  ctl # <<>> /\ frames # <<>> /\ frames[Len(frames)].ret # 0 =>
    /\ frames[Len(frames)].ret \in DOMAIN prog.node
    /\ Root(prog, frames[Len(frames)].ret) = Root(prog, Top.node)

-----------------------------------------------------------------------------
(* What the activations have saved, where no exception leaves its call.    *)

\* What b found when it began, on a.
TakesOver(a, b) ==
  IF b.at = "call" \/ a.at \notin {"call", "main"} THEN b.saved = a.saved
  ELSE b.saved.depth = a.saved.depth + 1 /\ b.saved.labels = b.node

Kept ==
  ctl # <<>> =>
    /\ ctl[1].saved.depth = 0
    /\ \A k \in 1 .. Len(ctl) - 1 : TakesOver(ctl[k], ctl[k + 1])
    /\ IF Top.at \in {"call", "main"} THEN Len(frames) = Top.saved.depth + 1
       ELSE Ctx = Top.saved

-----------------------------------------------------------------------------
(* What the activations mean for the program.                              *)

Calls(s, k) == Cardinality({j \in 1 .. k : s[j].at = "call"})

\* Statement n has come back with signal s: what may follow the point pt then.
Came(p, pend, n, pt, s) ==
  /\ s = "None" => CF!After(p, n) \subseteq CF!Succ(p, pt)
  /\ s = "Return" => CF!Exit \in CF!Succ(p, pt)
  /\ s = "Continue" => LET l == Enclosing(p, Loops, n)
                       IN  l # 0 /\ Again(l) \in CF!Succ(p, pt)
  /\ s = "Break" /\ pend = NoLabel =>
       LET b == Enclosing(p, Loops \cup {"switch"}, n)
       IN  b # 0 /\ CF!After(p, b) \subseteq CF!Succ(p, pt)
  /\ s = "Break" /\ pend # NoLabel =>
       LET m == LabelEntry(p, Root(p, n), pend)
       IN  /\ m # 0 /\ Root(p, n) # p.top /\ Reaches(p, p.node[m].up, n)
           /\ Enter(m) \in CF!Succ(p, pt)
  /\ p.node[pt[1]].kind = "return" <=> s = "Return"

Stands(p, pend, a, pt, s) ==
  LET n == a.node
      kids == p.node[n].kids
  IN
  /\ pt[1] \in DOMAIN p.node /\ AtNode(pt, pt[1]) /\ Root(p, pt[1]) = Root(p, n)
  /\ a.at \in {"start", "select", "ret", "test", "cond", "step", "loop", "case", "top"}
       => s = "None" /\ pend = NoLabel
  /\ a.at = "start" => a.i = 1
  /\ a.at \in {"start", "select", "ret"} => pt = Enter(n)
  /\ a.at \in {"test", "cond"} =>
       AtNode(pt, n) /\ (p.node[n].kind = "dowhile" => pt = Again(n))
  /\ a.at = "step" => pt = Again(n)
  /\ a.at \in {"done", "call", "main"} => Came(p, pend, n, pt, s)
  /\ a.at \in {"try", "after"} => Came(p, pend, kids[1], pt, s)
  /\ a.at \in {"check", "caseCheck", "topCheck"} =>
       a.i \in DOMAIN kids /\ Came(p, pend, kids[a.i], pt, s)
  /\ a.at \in {"loop", "case", "top"} =>
       /\ p.node[pt[1]].kind # "return"
       /\ IF a.i <= Len(kids) THEN Enter(kids[a.i]) \in CF!Succ(p, pt)
          ELSE CF!After(p, n) \subseteq CF!Succ(p, pt)

\* a waits for a call that its statement makes.
Waits(p, a, pt) == AtNode(pt, a.node) /\ Stands(p, NoLabel, a, pt, "None")

Flowing ==
  /\ flow \in Seq(Nat \X {"enter", "again"})
  /\ PendingInFlight
  /\ pending # NoLabel => HasGoto(prog)
  /\ IF ctl = <<>> THEN flow = <<>>
     ELSE /\ Len(flow) = Calls(ctl, Len(ctl)) + 1
          /\ Stands(prog, pending, Top, flow[Len(flow)], signal)
  /\ \A k \in 1 .. Len(ctl) - 1 :
       ctl[k + 1].at = "call" => Waits(prog, ctl[k], flow[Calls(ctl, k) + 1])

\* Programs that C allows, whose gotos the label table can follow, and in which
\* an exception that leaves a call meets no goto.
Safe(p) == CLegal(p) /\ GotoSafe(p) /\ (LocalThrows(p) \/ ~HasGoto(p))

-----------------------------------------------------------------------------
(* Calls on the stack.                                                     *)

LEMMA CallsGrow ==
  ASSUME NEW s, NEW k \in Nat
  PROVE  /\ Calls(s, k) \in Nat /\ Calls(s, 0) = 0
         /\ Calls(s, k + 1) = Calls(s, k) + IF s[k + 1].at = "call" THEN 1 ELSE 0
<1> DEFINE C(j) == {i \in 1 .. j : s[i].at = "call"}
<1>1. \A j \in Nat : IsFiniteSet(C(j))
  <2> SUFFICES ASSUME NEW j \in Nat PROVE IsFiniteSet(C(j))
    OBVIOUS
  <2>1. IsFiniteSet(1 .. j)
    BY FS_Interval
  <2> QED
    BY <2>1, FS_Subset
<1>2. Calls(s, k) \in Nat
  BY <1>1, FS_CardinalityType DEF Calls
<1>3. Calls(s, 0) = 0
  <2>1. C(0) = {}
    OBVIOUS
  <2> QED
    BY <2>1, FS_EmptySet DEF Calls
<1>4. CASE s[k + 1].at = "call"
  <2>1. C(k + 1) = C(k) \cup {k + 1} /\ k + 1 \notin C(k)
    BY <1>4
  <2>2. Cardinality(C(k + 1)) = Cardinality(C(k)) + 1
    <3> HIDE DEF C
    <3> QED
      BY <1>1, <2>1, FS_AddElement
  <2> QED
    BY <1>2, <1>3, <1>4, <2>2 DEF Calls
<1>5. CASE s[k + 1].at # "call"
  <2>1. C(k + 1) = C(k)
    BY <1>5
  <2>2. Calls(s, k + 1) = Calls(s, k)
    BY <2>1 DEF Calls
  <2> QED
    BY <1>2, <1>3, <1>5, <2>2
<1> QED
  BY <1>4, <1>5

\* The count looks no further than where it is taken.
LEMMA CallsAgree ==
  ASSUME NEW s, NEW t, NEW k \in Nat,
         \A j \in 1 .. k : (s[j].at = "call") <=> (t[j].at = "call")
  PROVE  Calls(s, k) = Calls(t, k)
<1>1. {j \in 1 .. k : s[j].at = "call"} = {j \in 1 .. k : t[j].at = "call"}
  OBVIOUS
<1> QED
  BY <1>1 DEF Calls

LEMMA CallsMonotone ==
  ASSUME NEW s, NEW m \in Nat, NEW n \in Nat, m <= n
  PROVE  Calls(s, m) <= Calls(s, n)
<1> DEFINE C(j) == {i \in 1 .. j : s[i].at = "call"}
<1>1. IsFiniteSet(C(n))
  <2>1. IsFiniteSet(1 .. n)
    BY FS_Interval
  <2> QED
    BY <2>1, FS_Subset
<1>2. C(m) \subseteq C(n)
  OBVIOUS
<1> HIDE DEF C
<1>3. Cardinality(C(m)) <= Cardinality(C(n))
  BY <1>1, <1>2, FS_Subset
<1> QED
  BY <1>3 DEF Calls, C

\* The calls that an exception unwinds.
LEMMA CallsAboveIs ==
  ASSUME NEW k \in Nat, Len(ctl) \in Nat, k <= Len(ctl)
  PROVE  CallsAbove(k) = Calls(ctl, Len(ctl)) - Calls(ctl, k)
<1> DEFINE A == {j \in k + 1 .. Len(ctl) : ctl[j].at = "call"}
           B == {j \in 1 .. k : ctl[j].at = "call"}
           W == {j \in 1 .. Len(ctl) : ctl[j].at = "call"}
<1>1. IsFiniteSet(A) /\ IsFiniteSet(B)
  <2>1. IsFiniteSet(1 .. Len(ctl))
    BY FS_Interval
  <2>2. A \subseteq 1 .. Len(ctl) /\ B \subseteq 1 .. Len(ctl)
    OBVIOUS
  <2> HIDE DEF A, B
  <2> QED
    BY <2>1, <2>2, FS_Subset
<1>2. A \cup B = W /\ A \cap B = {}
  OBVIOUS
<1> HIDE DEF A, B, W
<1>3. Cardinality(W) = Cardinality(A) + Cardinality(B) - Cardinality({})
  BY <1>1, <1>2, FS_Union
<1>4. Cardinality(A) \in Nat /\ Cardinality(B) \in Nat /\ Cardinality({}) = 0
  BY <1>1, FS_CardinalityType, FS_EmptySet
<1> QED
  BY <1>3, <1>4 DEF CallsAbove, Calls, A, B, W

-----------------------------------------------------------------------------
(* What a step does to the stack.                                          *)

LEMMA GoShape ==
  ASSUME FramesInv, ctl # <<>>, NEW next \in Fitting, Go(next)
  PROVE  /\ Len(ctl) \in Nat \ {0} /\ DOMAIN ctl = 1 .. Len(ctl)
         /\ ctl' # <<>> /\ Len(ctl') = Len(ctl) /\ Top' = next
         /\ ctl'[Len(ctl)] = next
         /\ \A k \in 1 .. Len(ctl) - 1 : ctl'[k] = ctl[k]
<1>1. ctl \in Seq(Fitting)
  BY DEF FramesInv
<1>2. /\ Len(ctl') = Len(ctl) /\ ctl'[Len(ctl)] = next /\ ctl' \in Seq(Fitting)
      /\ \A k \in 1 .. Len(ctl) - 1 : ctl'[k] = ctl[k]
  BY <1>1, ReplaceTop DEF Go, Rest
<1>3. Len(ctl) \in Nat \ {0} /\ DOMAIN ctl = 1 .. Len(ctl)
  BY <1>1
<1>4. ctl' # <<>>
  BY <1>2, <1>3
<1> QED
  BY <1>2, <1>3, <1>4 DEF Top

LEMMA PopShape ==
  ASSUME FramesInv, ctl # <<>>, Pop
  PROVE  /\ Len(ctl) \in Nat \ {0} /\ DOMAIN ctl = 1 .. Len(ctl)
         /\ Len(ctl') = Len(ctl) - 1
         /\ \A k \in 1 .. Len(ctl) - 1 : ctl'[k] = ctl[k]
         /\ Len(ctl) # 1 => ctl' # <<>> /\ Top' = ctl[Len(ctl) - 1]
         /\ Len(ctl) = 1 => ctl' = <<>>
<1>1. ctl \in Seq(Fitting)
  BY DEF FramesInv
<1>2. /\ Len(ctl') = Len(ctl) - 1 /\ ctl' \in Seq(Fitting)
      /\ \A k \in 1 .. Len(ctl) - 1 : ctl'[k] = ctl[k]
  BY <1>1, PopStack DEF Pop, Rest
<1>3. Len(ctl) \in Nat \ {0} /\ DOMAIN ctl = 1 .. Len(ctl)
  BY <1>1
<1>4. Len(ctl) # 1 => ctl' # <<>>
  BY <1>2, <1>3
<1>5. Len(ctl) = 1 => ctl' = <<>>
  BY <1>2
<1> QED
  BY <1>2, <1>3, <1>4, <1>5 DEF Top

LEMMA PushShape ==
  ASSUME FramesInv, ctl # <<>>, NEW next \in Fitting, NEW a \in Fitting, Push(next, a)
  PROVE  /\ Len(ctl) \in Nat \ {0} /\ DOMAIN ctl = 1 .. Len(ctl)
         /\ ctl' # <<>> /\ Len(ctl') = Len(ctl) + 1 /\ Top' = a
         /\ ctl'[Len(ctl) + 1] = a /\ ctl'[Len(ctl)] = next
         /\ \A k \in 1 .. Len(ctl) - 1 : ctl'[k] = ctl[k]
<1> DEFINE s == Append(Rest, next)
<1>0. ctl \in Seq(Fitting)
  BY DEF FramesInv
<1>1. /\ s \in Seq(Fitting) /\ Len(s) = Len(ctl) /\ s[Len(ctl)] = next
      /\ \A k \in 1 .. Len(ctl) - 1 : s[k] = ctl[k]
  BY <1>0, ReplaceTop DEF Rest
<1>2. ctl' = Append(s, a)
  BY DEF Push
<1> HIDE DEF s
<1>3. /\ ctl' \in Seq(Fitting) /\ Len(ctl') = Len(ctl) + 1 /\ ctl'[Len(ctl) + 1] = a
      /\ \A k \in 1 .. Len(ctl) : ctl'[k] = s[k]
  BY <1>1, <1>2, PushStack
<1>4. Len(ctl) \in Nat \ {0} /\ DOMAIN ctl = 1 .. Len(ctl)
  BY <1>0
<1>5. ctl'[Len(ctl)] = next /\ \A k \in 1 .. Len(ctl) - 1 : ctl'[k] = ctl[k]
  BY <1>1, <1>3, <1>4
<1>6. ctl' # <<>> /\ Top' = a
  BY <1>3, <1>4 DEF Top
<1> QED
  BY <1>3, <1>4, <1>5, <1>6

LEMMA CallShape ==
  ASSUME FramesInv, ctl # <<>>, NEW next \in Fitting, NEW a \in Fitting, NEW c \in Fitting,
         ctl' = Append(Append(Append(Rest, next), a), c)
  PROVE  /\ Len(ctl) \in Nat \ {0} /\ DOMAIN ctl = 1 .. Len(ctl)
         /\ ctl' # <<>> /\ Len(ctl') = Len(ctl) + 2 /\ Top' = c
         /\ ctl'[Len(ctl) + 2] = c /\ ctl'[Len(ctl) + 1] = a /\ ctl'[Len(ctl)] = next
         /\ \A k \in 1 .. Len(ctl) - 1 : ctl'[k] = ctl[k]
<1> DEFINE s == Append(Rest, next)
           t == Append(s, a)
<1>0. ctl \in Seq(Fitting)
  BY DEF FramesInv
<1>1. /\ s \in Seq(Fitting) /\ Len(s) = Len(ctl) /\ s[Len(ctl)] = next
      /\ \A k \in 1 .. Len(ctl) - 1 : s[k] = ctl[k]
  BY <1>0, ReplaceTop DEF Rest
<1>2. ctl' = Append(t, c)
  OBVIOUS
<1> HIDE DEF s
<1>3. /\ t \in Seq(Fitting) /\ Len(t) = Len(ctl) + 1 /\ t[Len(ctl) + 1] = a
      /\ \A k \in 1 .. Len(ctl) : t[k] = s[k]
  BY <1>1, PushStack
<1> HIDE DEF t
<1>4. Len(ctl) \in Nat \ {0} /\ DOMAIN ctl = 1 .. Len(ctl)
  BY <1>0
<1>5. /\ ctl' \in Seq(Fitting) /\ Len(ctl') = Len(ctl) + 2 /\ ctl'[Len(ctl) + 2] = c
      /\ \A k \in 1 .. Len(ctl) + 1 : ctl'[k] = t[k]
  BY <1>2, <1>3, <1>4, PushStack
<1>6. /\ ctl'[Len(ctl) + 1] = a /\ ctl'[Len(ctl)] = next
      /\ \A k \in 1 .. Len(ctl) - 1 : ctl'[k] = ctl[k]
  BY <1>1, <1>3, <1>4, <1>5
<1>7. ctl' # <<>> /\ Top' = c
  BY <1>4, <1>5 DEF Top
<1> QED
  BY <1>4, <1>5, <1>6, <1>7

LEMMA CatchShape ==
  ASSUME FramesInv, ctl # <<>>, NEW k \in DOMAIN ctl, NEW r \in Fitting, NEW a \in Fitting,
         ctl' = Append(Append(SubSeq(ctl, 1, k - 1), r), a)
  PROVE  /\ k \in Nat \ {0} /\ k <= Len(ctl) /\ Len(ctl) \in Nat
         /\ ctl' # <<>> /\ Len(ctl') = k + 1 /\ Top' = a
         /\ ctl'[k + 1] = a /\ ctl'[k] = r
         /\ \A j \in 1 .. k - 1 : ctl'[j] = ctl[j]
<1> DEFINE s == SubSeq(ctl, 1, k - 1)
           t == Append(s, r)
<1>0. ctl \in Seq(Fitting) /\ k \in Nat \ {0} /\ k <= Len(ctl) /\ Len(ctl) \in Nat
  BY DEF FramesInv
<1>1. s \in Seq(Fitting) /\ Len(s) = k - 1 /\ \A j \in 1 .. k - 1 : s[j] = ctl[j]
  BY <1>0, CutStack
<1>2. ctl' = Append(t, a)
  OBVIOUS
<1> HIDE DEF s
<1>3. t \in Seq(Fitting) /\ Len(t) = k /\ t[k] = r /\ \A j \in 1 .. k - 1 : t[j] = s[j]
  BY <1>0, <1>1, PushStack
<1> HIDE DEF t
<1>4. /\ ctl' \in Seq(Fitting) /\ Len(ctl') = k + 1 /\ ctl'[k + 1] = a
      /\ \A j \in 1 .. k : ctl'[j] = t[j]
  BY <1>2, <1>3, PushStack
<1>5. ctl'[k] = r /\ \A j \in 1 .. k - 1 : ctl'[j] = ctl[j]
  BY <1>0, <1>1, <1>3, <1>4
<1>6. ctl' # <<>> /\ Top' = a
  BY <1>0, <1>4 DEF Top
<1> QED
  BY <1>0, <1>4, <1>5, <1>6

\* What the steps below start from.
Standing == FramesInv /\ Nested /\ (LocalThrows(prog) => Kept)

\* The context stays as it is.
Stays == UNCHANGED <<prog, curFunc, labels>> /\ Len(frames') = Len(frames)

LEMMA StaysCtx == ASSUME Stays PROVE Ctx' = Ctx
BY DEF Stays, Ctx

\* An activation goes on in another place.
Onward(next) ==
  /\ next.node = Top.node /\ next.saved = Top.saved
  /\ Top.at \notin {"call", "main"} /\ next.at \notin {"call", "main"}
  /\ next.at \in Outermost <=> Top.at \in Outermost

LEMMA FittingIs ==
  ASSUME FramesInv, NEW a \in Fitting
  PROVE  /\ WellFormed(prog)
         /\ a.node \in DOMAIN prog.node /\ a.node \in Nat \ {0}
         /\ a \in Activation /\ a.saved \in Context /\ a.i \in Nat \ {0}
         /\ prog.node[a.node] \in Node
         /\ prog.node[a.node].kids \in Seq(Nat \ {0})
<1>1. WellFormed(prog)
  BY ProgramsAssumption DEF FramesInv
<1>2. a \in Activation /\ a.node \in DOMAIN prog.node
  BY DEF Fitting
<1>3. a.node \in Nat \ {0} /\ prog.node[a.node] \in Node
  BY <1>1, <1>2, TreeIs
<1>4. prog.node[a.node].kids \in Seq(Nat \ {0})
  BY <1>3 DEF Node
<1>5. a.saved \in Context /\ a.i \in Nat \ {0}
  BY <1>2 DEF Activation
<1> QED
  BY <1>1, <1>2, <1>3, <1>4, <1>5

LEMMA StackIs ==
  ASSUME FramesInv, ctl # <<>>
  PROVE  /\ Len(ctl) \in Nat \ {0} /\ DOMAIN ctl = 1 .. Len(ctl)
         /\ \A k \in 1 .. Len(ctl) : ctl[k] \in Fitting
         /\ Top \in Fitting /\ Top = ctl[Len(ctl)]
<1>1. ctl \in Seq(Fitting)
  BY DEF FramesInv
<1> QED
  BY <1>1 DEF Top

\* What runs for an activation is in the same body.
LEMMA UnderRoot ==
  ASSUME NEW p, WellFormed(p), NEW a, a.node \in DOMAIN p.node, NEW n, Under(p, a, n)
  PROVE  n \in DOMAIN p.node /\ Root(p, n) = Root(p, a.node)
<1>1. n \in DOMAIN p.node /\ (n = a.node \/ p.node[n].up = a.node)
  BY DEF Under
<1>2. a.node # 0
  BY TreeIs
<1>3. p.node[n].up = a.node => Root(p, n) = Root(p, a.node)
  BY <1>1, <1>2, RootIs
<1> QED
  BY <1>1, <1>3

LEMMA MoreThanOne ==
  ASSUME NEW n \in Nat \ {0}, n # 1
  PROVE  1 \in 1 .. n - 1 /\ n - 1 \in 1 .. n - 1 /\ (n - 1) + 1 = n
OBVIOUS

LEMMA GoStands ==
  ASSUME Standing, ctl # <<>>, NEW next \in Fitting, Go(next), Onward(next), Stays
  PROVE  Nested' /\ (LocalThrows(prog) => Kept')
<1>1. /\ Len(ctl) \in Nat \ {0} /\ ctl' # <<>> /\ Len(ctl') = Len(ctl) /\ Top' = next
      /\ ctl'[Len(ctl)] = next /\ \A k \in 1 .. Len(ctl) - 1 : ctl'[k] = ctl[k]
  BY GoShape DEF Standing
<1>2. Top = ctl[Len(ctl)] /\ prog' = prog
  BY DEF Top, Stays
<1>3. Nested'
  <2>1. Bottom(prog, ctl'[1])
    <3>1. Bottom(prog, ctl[1])
      BY DEF Standing, Nested
    <3>2. CASE Len(ctl) = 1
      BY <1>1, <1>2, <3>1, <3>2 DEF Bottom, Onward, Outermost
    <3>3. CASE Len(ctl) # 1
      <4>0. Len(ctl) \in Nat \ {0}
        BY <1>1
      <4>1. 1 \in 1 .. Len(ctl) - 1
        BY <4>0, <3>3, MoreThanOne
      <4> QED
        BY <1>1, <3>1, <4>1
    <3> QED
      BY <3>2, <3>3
  <2>2. ASSUME NEW k \in 1 .. Len(ctl) - 1
        PROVE  Link(prog, ctl'[k], ctl'[k + 1])
    <3>1. Link(prog, ctl[k], ctl[k + 1]) /\ ctl'[k] = ctl[k]
      BY <1>1 DEF Standing, Nested
    <3>2. CASE k = Len(ctl) - 1
      BY <1>1, <1>2, <3>1, <3>2 DEF Link, Onward
    <3>3. CASE k # Len(ctl) - 1
      <4>1. k + 1 \in 1 .. Len(ctl) - 1
        BY <1>1, <3>3
      <4> QED
        BY <1>1, <3>1, <4>1
    <3> QED
      BY <3>2, <3>3
  <2> QED
    BY <1>1, <1>2, <2>1, <2>2 DEF Nested
<1>4. ASSUME LocalThrows(prog) PROVE Kept'
  <2>1. Kept
    BY <1>4 DEF Standing
  <2>2. ctl'[1].saved.depth = 0
    <3>1. ctl[1].saved.depth = 0
      BY <2>1 DEF Kept
    <3> QED
      BY <1>1, <1>2, <3>1 DEF Onward
  <2>3. ASSUME NEW k \in 1 .. Len(ctl) - 1
        PROVE  TakesOver(ctl'[k], ctl'[k + 1])
    <3>1. TakesOver(ctl[k], ctl[k + 1]) /\ ctl'[k] = ctl[k]
      BY <1>1, <2>1 DEF Kept
    <3>2. CASE k = Len(ctl) - 1
      BY <1>1, <1>2, <3>1, <3>2 DEF TakesOver, Onward
    <3>3. CASE k # Len(ctl) - 1
      <4>1. k + 1 \in 1 .. Len(ctl) - 1
        BY <1>1, <3>3
      <4> QED
        BY <1>1, <3>1, <4>1
    <3> QED
      BY <3>2, <3>3
  <2>4. Top'.at \notin {"call", "main"} /\ Ctx' = Top'.saved
    BY <1>1, <2>1, StaysCtx DEF Kept, Onward
  <2> QED
    BY <1>1, <2>2, <2>3, <2>4 DEF Kept
<1> QED
  BY <1>3, <1>4

LEMMA PushStands ==
  ASSUME Standing, ctl # <<>>, NEW next \in Fitting, NEW a \in Fitting, Push(next, a),
         Onward(next), Stays, a.at = "start", a.saved = Ctx, Under(prog, next, a.node)
  PROVE  Nested' /\ (LocalThrows(prog) => Kept')
<1>1. /\ Len(ctl) \in Nat \ {0} /\ ctl' # <<>> /\ Len(ctl') = Len(ctl) + 1 /\ Top' = a
      /\ ctl'[Len(ctl)] = next /\ ctl'[Len(ctl) + 1] = a
      /\ \A k \in 1 .. Len(ctl) - 1 : ctl'[k] = ctl[k]
  BY PushShape DEF Standing
<1>2. Top = ctl[Len(ctl)] /\ prog' = prog
  BY DEF Top, Stays
<1>3. Nested'
  <2>1. Bottom(prog, ctl'[1])
    <3>1. Bottom(prog, ctl[1])
      BY DEF Standing, Nested
    <3>2. CASE Len(ctl) = 1
      BY <1>1, <1>2, <3>1, <3>2 DEF Bottom, Onward, Outermost
    <3>3. CASE Len(ctl) # 1
      <4>0. Len(ctl) \in Nat \ {0}
        BY <1>1
      <4>1. 1 \in 1 .. Len(ctl) - 1
        BY <4>0, <3>3, MoreThanOne
      <4> QED
        BY <1>1, <3>1, <4>1
    <3> QED
      BY <3>2, <3>3
  <2>2. ASSUME NEW k \in 1 .. Len(ctl)
        PROVE  Link(prog, ctl'[k], ctl'[k + 1])
    <3>1. CASE k = Len(ctl)
      BY <1>1, <3>1 DEF Link, Outermost
    <3>2. CASE k = Len(ctl) - 1
      <4>1. Link(prog, ctl[k], ctl[k + 1]) /\ ctl'[k] = ctl[k]
        BY <1>1, <3>2 DEF Standing, Nested
      <4> QED
        BY <1>1, <1>2, <3>2, <4>1 DEF Link, Onward
    <3>3. CASE k < Len(ctl) - 1
      <4>1. k \in 1 .. Len(ctl) - 1 /\ k + 1 \in 1 .. Len(ctl) - 1
        BY <1>1, <3>3
      <4> QED
        BY <1>1, <4>1 DEF Standing, Nested
    <3>4. k = Len(ctl) \/ k = Len(ctl) - 1 \/ k < Len(ctl) - 1
      BY <1>1
    <3> QED
      BY <3>1, <3>2, <3>3, <3>4
  <2> QED
    BY <1>1, <1>2, <2>1, <2>2 DEF Nested
<1>4. ASSUME LocalThrows(prog) PROVE Kept'
  <2>1. Kept
    BY <1>4 DEF Standing
  <2>2. ctl'[1].saved.depth = 0
    <3>1. ctl[1].saved.depth = 0
      BY <2>1 DEF Kept
    <3> QED
      BY <1>1, <1>2, <3>1 DEF Onward
  <2>3. ASSUME NEW k \in 1 .. Len(ctl)
        PROVE  TakesOver(ctl'[k], ctl'[k + 1])
    <3>1. CASE k = Len(ctl)
      BY <1>1, <2>1, <3>1 DEF TakesOver, Onward, Kept
    <3>2. CASE k = Len(ctl) - 1
      <4>1. TakesOver(ctl[k], ctl[k + 1]) /\ ctl'[k] = ctl[k]
        BY <1>1, <2>1, <3>2 DEF Kept
      <4> QED
        BY <1>1, <1>2, <3>2, <4>1 DEF TakesOver, Onward
    <3>3. CASE k < Len(ctl) - 1
      <4>1. k \in 1 .. Len(ctl) - 1 /\ k + 1 \in 1 .. Len(ctl) - 1
        BY <1>1, <3>3
      <4> QED
        BY <1>1, <2>1, <4>1 DEF Kept
    <3>4. k = Len(ctl) \/ k = Len(ctl) - 1 \/ k < Len(ctl) - 1
      BY <1>1
    <3> QED
      BY <3>1, <3>2, <3>3, <3>4
  <2>4. Top'.at \notin {"call", "main"} /\ Ctx' = Top'.saved
    BY <1>1, StaysCtx
  <2> QED
    BY <1>1, <2>2, <2>3, <2>4 DEF Kept
<1> QED
  BY <1>3, <1>4

LEMMA PopStands ==
  ASSUME Standing, ctl # <<>>, Pop, Stays, Top.at \notin Outermost \cup {"call"}
  PROVE  /\ Nested' /\ (LocalThrows(prog) => Kept')
         /\ Len(ctl) \in Nat /\ Len(ctl) > 1 /\ ctl' # <<>> /\ Len(ctl') = Len(ctl) - 1
         /\ Top' = ctl[Len(ctl) - 1] /\ \A k \in 1 .. Len(ctl) - 1 : ctl'[k] = ctl[k]
         /\ Top' \in Fitting /\ Under(prog, Top', Top.node)
<1>1. /\ Len(ctl) \in Nat \ {0} /\ Len(ctl') = Len(ctl) - 1
      /\ Len(ctl) # 1 => ctl' # <<>> /\ Top' = ctl[Len(ctl) - 1]
      /\ \A k \in 1 .. Len(ctl) - 1 : ctl'[k] = ctl[k]
  BY PopShape DEF Standing
<1>2. Top = ctl[Len(ctl)] /\ prog' = prog
  BY DEF Top, Stays
<1>3. Len(ctl) # 1
  BY <1>2 DEF Standing, Nested, Bottom
<1>4. Link(prog, ctl[Len(ctl) - 1], Top)
  <2>1. Len(ctl) - 1 \in 1 .. Len(ctl) - 1 /\ (Len(ctl) - 1) + 1 = Len(ctl)
    BY <1>1, <1>3
  <2> QED
    BY <1>2, <2>1 DEF Standing, Nested
<1>5. Nested'
  <2>1. ctl'[1] = ctl[1]
    BY <1>1, <1>3
  <2>2. \A k \in 1 .. Len(ctl') - 1 : ctl'[k] = ctl[k] /\ ctl'[k + 1] = ctl[k + 1]
    BY <1>1
  <2>3. \A k \in 1 .. Len(ctl') - 1 : k \in 1 .. Len(ctl) - 1
    BY <1>1
  <2> QED
    BY <1>2, <2>1, <2>2, <2>3 DEF Standing, Nested
<1>6. ASSUME LocalThrows(prog) PROVE Kept'
  <2>1. Kept
    BY <1>6 DEF Standing
  <2>2. ctl'[1] = ctl[1]
    BY <1>1, <1>3
  <2>3. \A k \in 1 .. Len(ctl') - 1 : TakesOver(ctl'[k], ctl'[k + 1])
    <3>1. \A k \in 1 .. Len(ctl') - 1 :
             ctl'[k] = ctl[k] /\ ctl'[k + 1] = ctl[k + 1] /\ k \in 1 .. Len(ctl) - 1
      BY <1>1
    <3> QED
      BY <2>1, <3>1 DEF Kept
  <2>4. TakesOver(ctl[Len(ctl) - 1], Top)
    <3>1. Len(ctl) - 1 \in 1 .. Len(ctl) - 1 /\ (Len(ctl) - 1) + 1 = Len(ctl)
      BY <1>1, <1>3
    <3> QED
      BY <1>2, <2>1, <3>1 DEF Kept
  <2>5. Ctx = Top.saved
    BY <2>1 DEF Kept, Outermost
  <2>6. Ctx' = Ctx /\ Len(frames') = Len(frames) /\ Ctx.depth = Len(frames)
    BY StaysCtx DEF Ctx, Stays
  <2>7. IF Top'.at \in {"call", "main"} THEN Len(frames') = Top'.saved.depth + 1
        ELSE Ctx' = Top'.saved
    BY <1>1, <1>3, <2>4, <2>5, <2>6 DEF TakesOver
  <2> QED
    BY <2>1, <2>2, <2>3, <2>7 DEF Kept
<1>7. Top' \in Fitting
  BY <1>1, <1>3, StackIs DEF Standing
<1> QED
  BY <1>1, <1>3, <1>4, <1>5, <1>6, <1>7 DEF Link

LEMMA BodiesAreRoots ==
  ASSUME FramesInv
  PROVE  /\ \A f \in Funcs : prog.body[f] \in DOMAIN prog.node /\ prog.node[prog.body[f]].up = 0
         /\ prog.top \in DOMAIN prog.node /\ prog.node[prog.top].up = 0
         /\ prog.main # 0 => prog.main \in DOMAIN prog.node /\ prog.node[prog.main].up = 0
<1>1. WellFormed(prog)
  BY ProgramsAssumption DEF FramesInv
<1>2. /\ prog.body \in [Funcs -> DOMAIN prog.node]
      /\ prog.top \in DOMAIN prog.node /\ prog.main \in DOMAIN prog.node \cup {0}
      /\ \A b \in {prog.body[f] : f \in Funcs} \cup ({prog.top, prog.main} \ {0}) :
           prog.node[b].up = 0
  BY <1>1 DEF WellFormed
<1>3. prog.top # 0
  BY <1>1, <1>2, TreeIs
<1> QED
  BY <1>2, <1>3

\* A call begins: the activation that makes it waits as next.
Entered(f, next) ==
  /\ frames' = Append(frames, [func |-> f, ret |-> 0])
  /\ curFunc' = f
  /\ labels' = prog.body[f]
  /\ LET call == Append(Append(Rest, next), Active("call", prog.body[f]))
     IN  ctl' = Append(call, Callee(prog.body[f]))
  /\ flow' = Append(flow, Enter(prog.body[f]))
  /\ UNCHANGED <<prog, signal, pending, overflow>>

LEMMA EnteredShape ==
  ASSUME FramesInv, ctl # <<>>, NEW f \in Funcs, NEW next \in Fitting, Entered(f, next)
  PROVE  LET b == prog.body[f]
             a == Active("call", b)
             c == Callee(b)
         IN  /\ Len(ctl) \in Nat \ {0} /\ DOMAIN ctl = 1 .. Len(ctl)
             /\ ctl' # <<>> /\ Len(ctl') = Len(ctl) + 2 /\ Top' = c
             /\ ctl'[Len(ctl) + 2] = c /\ ctl'[Len(ctl) + 1] = a /\ ctl'[Len(ctl)] = next
             /\ \A k \in 1 .. Len(ctl) - 1 : ctl'[k] = ctl[k]
             /\ b \in DOMAIN prog.node /\ prog.node[b].up = 0
             /\ a.at = "call" /\ a.node = b /\ a.saved = Ctx
             /\ c.at = "start" /\ c.node = b /\ c.i = 1 /\ c.saved = Ctx'
             /\ Len(frames') = Len(frames) + 1 /\ labels' = b /\ prog' = prog
             /\ c \in Fitting
<1> DEFINE b == prog.body[f]
           a == Active("call", b)
           c == Callee(b)
<1>1. b \in DOMAIN prog.node /\ prog.node[b].up = 0 /\ prog.node[b].kind = "compound"
  BY BodiesAreRoots, ProgramsAssumption DEF FramesInv, WellFormed
<1>2. b \in Nat \ {0}
  BY <1>1, NodesAreNumbers
<1>3. Len(frames') = Len(frames) + 1 /\ Len(frames) \in Nat
  BY DEF Entered, FramesInv, TypeOK
<1>4. a \in Fitting /\ a.at = "call" /\ a.node = b /\ a.saved = Ctx
  BY <1>1, <1>2, TopFacts DEF Active, Fitting, Activation, StandsAt, Points
<1>5. c \in Fitting /\ c.at = "start" /\ c.node = b /\ c.i = 1 /\ c.saved = Ctx'
  BY <1>1, <1>2, <1>3
     DEF Callee, Ctx, Context, Fitting, Activation, StandsAt, Points, Entered
<1>6. ctl' = Append(Append(Append(Rest, next), a), c) /\ labels' = b /\ prog' = prog
  BY DEF Entered
<1> HIDE DEF a, b, c
<1>7. /\ Len(ctl) \in Nat \ {0} /\ DOMAIN ctl = 1 .. Len(ctl)
      /\ ctl' # <<>> /\ Len(ctl') = Len(ctl) + 2 /\ Top' = c
      /\ ctl'[Len(ctl) + 2] = c /\ ctl'[Len(ctl) + 1] = a /\ ctl'[Len(ctl)] = next
      /\ \A k \in 1 .. Len(ctl) - 1 : ctl'[k] = ctl[k]
  BY <1>4, <1>5, <1>6, CallShape
<1> QED
  BY <1>1, <1>3, <1>4, <1>5, <1>6, <1>7 DEF a, b, c

LEMMA CallStands ==
  ASSUME Standing, ctl # <<>>, NEW f \in Funcs, NEW next \in Fitting, Entered(f, next),
         Onward(next), next.at \in Callers, Top.at \notin Outermost
  PROVE  Nested' /\ (LocalThrows(prog) => Kept')
<1> DEFINE b == prog.body[f]
           a == Active("call", b)
           c == Callee(b)
<1>1. /\ Len(ctl) \in Nat \ {0}
      /\ ctl' # <<>> /\ Len(ctl') = Len(ctl) + 2 /\ Top' = c
      /\ ctl'[Len(ctl) + 2] = c /\ ctl'[Len(ctl) + 1] = a /\ ctl'[Len(ctl)] = next
      /\ \A k \in 1 .. Len(ctl) - 1 : ctl'[k] = ctl[k]
  BY EnteredShape DEF Standing
<1>2. /\ b \in DOMAIN prog.node /\ prog.node[b].up = 0
      /\ a.at = "call" /\ a.node = b /\ a.saved = Ctx
      /\ c.at = "start" /\ c.node = b /\ c.saved = Ctx'
      /\ Len(frames') = Len(frames) + 1 /\ labels' = b /\ prog' = prog
  BY EnteredShape DEF Standing
<1>3. Top = ctl[Len(ctl)]
  BY DEF Top
<1> HIDE DEF a, b, c
<1>4. Len(ctl) # 1
  BY <1>3 DEF Standing, Nested, Bottom
<1>5. \A k \in 1 .. Len(ctl) + 1 :
        \/ k = Len(ctl) + 1 \/ k = Len(ctl) \/ (k = Len(ctl) - 1 /\ k \in 1 .. Len(ctl) - 1)
        \/ (k \in 1 .. Len(ctl) - 1 /\ k + 1 \in 1 .. Len(ctl) - 1)
  <2>1. Len(ctl) \in Nat \ {0}
    BY <1>1
  <2> QED
    BY <2>1
<1>6. ctl'[1] = ctl[1]
  <2>1. 1 \in 1 .. Len(ctl) - 1
    BY <1>1, <1>4, MoreThanOne
  <2> QED
    BY <1>1, <2>1
<1>7. Nested'
  <2>1. ASSUME NEW k \in 1 .. Len(ctl) + 1
        PROVE  Link(prog, ctl'[k], ctl'[k + 1])
    <3>1. CASE k = Len(ctl) + 1
      <4>1. ctl'[k] = a /\ ctl'[k + 1] = c
        BY <1>1, <3>1
      <4> QED
        BY <1>2, <4>1 DEF Link, Under, Outermost
    <3>2. CASE k = Len(ctl)
      BY <1>1, <1>2, <3>2 DEF Link, Outermost
    <3>3. CASE k = Len(ctl) - 1 /\ k \in 1 .. Len(ctl) - 1
      <4>1. Link(prog, ctl[k], ctl[k + 1]) /\ ctl'[k] = ctl[k] /\ k + 1 = Len(ctl)
        BY <1>1, <3>3 DEF Standing, Nested
      <4> QED
        BY <1>1, <1>3, <4>1 DEF Link, Onward
    <3>4. CASE k \in 1 .. Len(ctl) - 1 /\ k + 1 \in 1 .. Len(ctl) - 1
      BY <1>1, <3>4 DEF Standing, Nested
    <3> QED
      BY <1>5, <3>1, <3>2, <3>3, <3>4
  <2>2. Len(ctl') - 1 = Len(ctl) + 1
    BY <1>1
  <2> QED
    BY <1>2, <1>6, <2>1, <2>2 DEF Standing, Nested
<1>8. ASSUME LocalThrows(prog) PROVE Kept'
  <2>1. Kept
    BY <1>8 DEF Standing
  <2>2. Ctx = Top.saved /\ next.saved = Top.saved /\ Ctx.depth = Len(frames)
        /\ Ctx'.depth = Len(frames') /\ Ctx'.labels = labels'
    BY <2>1 DEF Kept, Ctx, Onward
  <2>3. ASSUME NEW k \in 1 .. Len(ctl) + 1
        PROVE  TakesOver(ctl'[k], ctl'[k + 1])
    <3>1. CASE k = Len(ctl) + 1
      <4>1. ctl'[k] = a /\ ctl'[k + 1] = c
        BY <1>1, <3>1
      <4> QED
        BY <1>2, <2>2, <4>1 DEF TakesOver
    <3>2. CASE k = Len(ctl)
      BY <1>1, <1>2, <2>2, <3>2 DEF TakesOver
    <3>3. CASE k = Len(ctl) - 1 /\ k \in 1 .. Len(ctl) - 1
      <4>1. TakesOver(ctl[k], ctl[k + 1]) /\ ctl'[k] = ctl[k] /\ k + 1 = Len(ctl)
        BY <1>1, <2>1, <3>3 DEF Kept
      <4> QED
        BY <1>1, <1>3, <4>1 DEF TakesOver, Onward
    <3>4. CASE k \in 1 .. Len(ctl) - 1 /\ k + 1 \in 1 .. Len(ctl) - 1
      BY <1>1, <2>1, <3>4 DEF Kept
    <3> QED
      BY <1>5, <3>1, <3>2, <3>3, <3>4
  <2>4. Len(ctl') - 1 = Len(ctl) + 1
    BY <1>1
  <2>5. Top'.at \notin {"call", "main"} /\ Ctx' = Top'.saved
    BY <1>1, <1>2
  <2> QED
    BY <1>6, <2>1, <2>3, <2>4, <2>5 DEF Kept
<1> QED
  BY <1>7, <1>8

LEMMA LeaveStands ==
  ASSUME Standing, LeaveCall
  PROVE  /\ Nested' /\ (LocalThrows(prog) => Kept')
         /\ ctl # <<>> /\ Len(ctl) \in Nat /\ Len(ctl) > 1
         /\ ctl' # <<>> /\ Len(ctl') = Len(ctl) - 1
         /\ Top' = ctl[Len(ctl) - 1] /\ \A k \in 1 .. Len(ctl) - 1 : ctl'[k] = ctl[k]
         /\ Top = ctl[Len(ctl)] /\ Link(prog, Top', Top)
<1>0. ctl # <<>> /\ Top.at = "call" /\ Pop /\ prog' = prog
      /\ frames' = SubSeq(frames, 1, Len(frames) - 1)
      /\ labels' = Top.saved.labels /\ curFunc' = Top.saved.func
  BY DEF LeaveCall, At
<1>1. /\ Len(ctl) \in Nat \ {0} /\ Len(ctl') = Len(ctl) - 1
      /\ Len(ctl) # 1 => ctl' # <<>> /\ Top' = ctl[Len(ctl) - 1]
      /\ \A k \in 1 .. Len(ctl) - 1 : ctl'[k] = ctl[k]
  BY <1>0, PopShape DEF Standing
<1>2. Top = ctl[Len(ctl)]
  BY DEF Top
<1>3. Len(ctl) # 1
  BY <1>0, <1>2 DEF Standing, Nested, Bottom, Outermost
<1>4. Len(ctl) - 1 \in 1 .. Len(ctl) - 1 /\ (Len(ctl) - 1) + 1 = Len(ctl)
      /\ 1 \in 1 .. Len(ctl) - 1
  BY <1>1, <1>3, MoreThanOne
<1>5. Link(prog, ctl[Len(ctl) - 1], Top)
  BY <1>2, <1>4 DEF Standing, Nested
<1>6. \A k \in 1 .. Len(ctl') - 1 :
         ctl'[k] = ctl[k] /\ ctl'[k + 1] = ctl[k + 1] /\ k \in 1 .. Len(ctl) - 1
  BY <1>1
<1>7. ctl'[1] = ctl[1]
  BY <1>1, <1>4
<1>8. Nested'
  BY <1>0, <1>6, <1>7 DEF Standing, Nested
<1>9. ASSUME LocalThrows(prog) PROVE Kept'
  <2>1. Kept
    BY <1>9 DEF Standing
  <2>2. TakesOver(ctl[Len(ctl) - 1], Top)
    BY <1>2, <1>4, <2>1 DEF Kept
  <2>3. Len(frames) = Top.saved.depth + 1 /\ Top.saved \in Context
    BY <1>0, <2>1, StackIs, FittingIs DEF Kept, Standing
  <2>4. Len(frames') = Top.saved.depth
    <3>1. Top.saved.depth \in Nat
      BY <2>3 DEF Context
    <3>2. frames \in Seq(Frame)
      BY DEF Standing, FramesInv, TypeOK
    <3>3. frames # <<>>
      BY <2>3, <3>1, <3>2
    <3> QED
      BY <1>0, <2>3, <3>1, <3>2, <3>3, PopStack
  <2>5. Ctx' = Top.saved
    BY <1>0, <2>3, <2>4 DEF Ctx, Context
  <2>6. Top'.at \notin {"call", "main"} /\ Ctx' = Top'.saved
    BY <1>0, <1>1, <1>3, <1>5, <2>2, <2>5 DEF TakesOver, Link, Callers
  <2>7. \A k \in 1 .. Len(ctl') - 1 : TakesOver(ctl'[k], ctl'[k + 1])
    BY <1>6, <2>1 DEF Kept
  <2>8. ctl'[1].saved.depth = 0
    BY <1>1, <1>3, <1>7, <2>1 DEF Kept
  <2> QED
    BY <2>6, <2>7, <2>8 DEF Kept
<1> QED
  BY <1>0, <1>1, <1>2, <1>3, <1>5, <1>8, <1>9

-----------------------------------------------------------------------------
(* Exceptions.                                                             *)

\* The handler of an activation's statement is the innermost try of its call.
LEMMA HandlersAre ==
  ASSUME FramesInv, Nested, ctl # <<>>, NEW k \in 0 .. Len(ctl) - 1,
         k # 0 => ctl[k].at = "try",
         \A j \in k + 1 .. Len(ctl) : ctl[j].at # "try"
  PROVE  \A m \in k + 1 .. Len(ctl) :
           Handler(prog, ctl[m].node)
             = IF k # 0 /\ Calls(ctl, m) = Calls(ctl, k) THEN ctl[k].node ELSE 0
<1> DEFINE H(m) == Handler(prog, ctl[m].node)
                     = IF k # 0 /\ Calls(ctl, m) = Calls(ctl, k) THEN ctl[k].node ELSE 0
           T == {m \in k + 1 .. Len(ctl) : H(m)}
<1>0. /\ Len(ctl) \in Nat \ {0} /\ k \in Nat /\ k + 1 \in 1 .. Len(ctl)
      /\ \A j \in 1 .. Len(ctl) : ctl[j] \in Fitting
  BY StackIs
<1>w. WellFormed(prog)
  BY ProgramsAssumption DEF FramesInv
<1>1. ASSUME NEW m \in 1 .. Len(ctl)
      PROVE  /\ ctl[m].node \in DOMAIN prog.node
             /\ prog.node[ctl[m].node].up = 0 => Handler(prog, ctl[m].node) = 0
  <2>1. ctl[m].node \in DOMAIN prog.node
    BY <1>0 DEF Fitting
  <2> QED
    BY <1>w, <2>1, HandlerIs
<1>2. H(k + 1)
  <2>1. CASE k = 0
    <3>1. Bottom(prog, ctl[1])
      BY DEF Nested
    <3>2. ctl[1].node \in DOMAIN prog.node /\ ctl[1].node # 0
      BY <1>0, FittingIs
    <3>3. prog.node[ctl[1].node].up = 0
      BY <3>1, <3>2, BodiesAreRoots DEF Bottom
    <3> QED
      BY <1>0, <1>1, <2>1, <3>3
  <2>2. CASE k # 0
    <3>0. k \in 1 .. Len(ctl) - 1 /\ k \in 1 .. Len(ctl)
      BY <1>0, <2>2
    <3>1. Link(prog, ctl[k], ctl[k + 1]) /\ ctl[k].at = "try" /\ ctl[k] \in Fitting
      BY <1>0, <2>2, <3>0 DEF Nested
    <3>2. ctl[k + 1].at # "call" /\ Under(prog, ctl[k], ctl[k + 1].node)
      BY <3>1 DEF Link, Callers
    <3>3. /\ prog.node[ctl[k + 1].node].up = ctl[k].node
          /\ ctl[k + 1].node = prog.node[ctl[k].node].kids[1]
          /\ ctl[k + 1].node \in DOMAIN prog.node
      BY <3>1, <3>2 DEF Under
    <3>4. prog.node[ctl[k].node].kind = "try"
      BY <3>1 DEF Fitting, StandsAt, Loops
    <3>5. Calls(ctl, k + 1) = Calls(ctl, k)
      BY <1>0, <3>2, CallsGrow
    <3> QED
      BY <1>w, <2>2, <3>3, <3>4, <3>5, HandlerIs
  <2> QED
    BY <2>1, <2>2
<1>3. ASSUME NEW m \in k + 1 .. Len(ctl) - 1, H(m)
      PROVE  H(m + 1)
  <2>0. m \in 1 .. Len(ctl) - 1 /\ m \in 1 .. Len(ctl) /\ m + 1 \in 1 .. Len(ctl)
        /\ m \in k + 1 .. Len(ctl)
    BY <1>0
  <2>1. Link(prog, ctl[m], ctl[m + 1]) /\ ctl[m] \in Fitting /\ ctl[m].at # "try"
    BY <1>0, <2>0 DEF Nested
  <2>2. CASE ctl[m + 1].at = "call"
    <3>1. Handler(prog, ctl[m + 1].node) = 0
      BY <1>1, <2>0, <2>1, <2>2 DEF Link
    <3>2. Calls(ctl, m + 1) = Calls(ctl, m) + 1 /\ Calls(ctl, m) >= Calls(ctl, k)
          /\ Calls(ctl, m) \in Nat /\ Calls(ctl, k) \in Nat
      <4>1. m \in Nat /\ k <= m
        BY <1>0
      <4> QED
        BY <1>0, <2>2, <4>1, CallsGrow, CallsMonotone
    <3> QED
      BY <3>1, <3>2
  <2>3. CASE ctl[m + 1].at # "call"
    <3>1. Under(prog, ctl[m], ctl[m + 1].node)
      BY <2>1, <2>3 DEF Link
    <3>2. Calls(ctl, m + 1) = Calls(ctl, m)
      <4>1. m \in Nat
        BY <1>0
      <4>2. Calls(ctl, m) \in Nat
            /\ Calls(ctl, m + 1) = Calls(ctl, m) + IF ctl[m + 1].at = "call" THEN 1 ELSE 0
        BY <4>1, CallsGrow
      <4> HIDE DEF H, T
      <4> QED
        BY <2>3, <4>2
    <3>3. Handler(prog, ctl[m + 1].node) = Handler(prog, ctl[m].node)
      <4>1. CASE ctl[m].at \in {"call", "main"}
        BY <3>1, <4>1 DEF Under
      <4>2. CASE ctl[m].at \notin {"call", "main"}
        <5> DEFINE u == ctl[m].node
                   n == ctl[m + 1].node
        <5>1. n \in DOMAIN prog.node /\ prog.node[n].up = u
          BY <3>1, <4>2 DEF Under
        <5>2. u \in DOMAIN prog.node /\ u # 0
          BY <2>1, FittingIs
        <5>3. ~ (prog.node[u].kind = "try" /\ prog.node[u].kids[1] = n)
          <6>1. ASSUME prog.node[u].kind = "try"
                PROVE  n = prog.node[u].kids[2] /\ Len(prog.node[u].kids) = 2
            <7>1. ctl[m].at \in {"start", "done", "try"}
              BY <2>1, <6>1 DEF Fitting, StandsAt, Loops
            <7>2. ctl[m].at = "done"
              BY <2>1, <3>1, <4>2, <7>1 DEF Under
            <7> QED
              BY <1>w, <3>1, <4>2, <5>2, <6>1, <7>2 DEF Under, WellFormed
          <6>2. ASSUME prog.node[u].kind = "try" PROVE prog.node[u].kids[1] # prog.node[u].kids[2]
            <7>0. prog.node[u].kids \in Seq(Nat \ {0})
              BY <2>1, FittingIs
            <7>1. 1 \in DOMAIN prog.node[u].kids /\ 2 \in DOMAIN prog.node[u].kids
              BY <6>1, <6>2, <7>0
            <7> QED
              BY <1>w, <5>2, <7>1, KidsAre
          <6> QED
            BY <6>1, <6>2
        <5>4. Handler(prog, n) = Handler(prog, u)
          BY <1>w, <5>1, <5>2, <5>3, HandlerIs
        <5> QED
          BY <5>4
      <4> QED
        BY <4>1, <4>2
    <3> QED
      BY <1>3, <3>2, <3>3
  <2> QED
    BY <2>2, <2>3
<1>4. \A m \in k + 1 .. Len(ctl) : m \in T
  <2>1. k + 1 \in Nat /\ Len(ctl) \in Nat /\ k + 1 \in T
    BY <1>0, <1>2
  <2>2. \A m \in k + 1 .. Len(ctl) - 1 : m \in T => m + 1 \in T
    <3> SUFFICES ASSUME NEW m \in k + 1 .. Len(ctl) - 1, m \in T PROVE m + 1 \in T
      OBVIOUS
    <3>1. H(m + 1)
      BY <1>3
    <3>2. m + 1 \in k + 1 .. Len(ctl)
      BY <1>0
    <3> QED
      BY <3>1, <3>2
  <2> HIDE DEF T
  <2> QED
    BY <2>1, <2>2, IntervalInduction
<1> QED
  BY <1>4

\* Within a call nothing but the call itself changes what is saved.
LEMMA SegmentKeeps ==
  ASSUME FramesInv, Nested, Kept, ctl # <<>>, NEW k \in 1 .. Len(ctl),
         ctl[k].at \notin {"call", "main"}, Calls(ctl, Len(ctl)) = Calls(ctl, k)
  PROVE  Top.at \notin {"call", "main"} /\ Top.saved = ctl[k].saved
<1> DEFINE T == {m \in k .. Len(ctl) :
                   ctl[m].at \notin {"call", "main"} /\ ctl[m].saved = ctl[k].saved}
<1>0. Len(ctl) \in Nat \ {0} /\ k \in Nat \ {0} /\ k <= Len(ctl)
  BY StackIs
<1>1. k \in T
  BY <1>0
<1>2. ASSUME NEW m \in k .. Len(ctl) - 1, m \in T
      PROVE  m + 1 \in T
  <2>0. m \in Nat /\ m \in 1 .. Len(ctl) - 1 /\ m + 1 \in k .. Len(ctl) /\ k <= m
        /\ m + 1 \in Nat /\ m + 1 <= Len(ctl)
    BY <1>0
  <2>1. Link(prog, ctl[m], ctl[m + 1]) /\ TakesOver(ctl[m], ctl[m + 1])
    BY <2>0 DEF Nested, Kept
  <2>2. ctl[m + 1].at # "call"
    <3>1. /\ Calls(ctl, k) <= Calls(ctl, m) /\ Calls(ctl, m + 1) <= Calls(ctl, Len(ctl))
          /\ Calls(ctl, m + 1) = Calls(ctl, m) + IF ctl[m + 1].at = "call" THEN 1 ELSE 0
          /\ Calls(ctl, k) \in Nat /\ Calls(ctl, m) \in Nat
      BY <1>0, <2>0, CallsGrow, CallsMonotone
    <3> QED
      BY <3>1
  <2> QED
    BY <1>2, <2>0, <2>1, <2>2 DEF Link, Outermost, TakesOver
<1>3. Len(ctl) \in T
  <2> HIDE DEF T
  <2>1. \A m \in k .. Len(ctl) : m \in T
    BY <1>0, <1>1, <1>2, IntervalInduction
  <2> QED
    BY <1>0, <2>1
<1> QED
  BY <1>3 DEF Top

LEMMA CatchStands ==
  ASSUME Standing, ctl # <<>>, NEW k \in DOMAIN ctl, ctl[k].at = "try",
         \A j \in k + 1 .. Len(ctl) : ctl[j].at # "try",
         Throw \in Evaluated(prog, Top.node), Top.at # "try",
         ctl' = Append(Append(SubSeq(ctl, 1, k - 1), [ctl[k] EXCEPT !.at = "done"]),
                       Active("start", prog.node[ctl[k].node].kids[2])),
         UNCHANGED <<prog, frames, labels, curFunc>>
  PROVE  Nested' /\ (LocalThrows(prog) => Kept')
<1> DEFINE c == prog.node[ctl[k].node].kids[2]
           r == [ctl[k] EXCEPT !.at = "done"]
           a == Active("start", c)
<1>0. ctl[k] \in Fitting /\ Len(ctl) \in Nat \ {0} /\ DOMAIN ctl = 1 .. Len(ctl)
      /\ k \in 1 .. Len(ctl) /\ FramesInv /\ Nested
  BY StackIs DEF Standing
<1>1. WellFormed(prog) /\ ctl[k].node \in DOMAIN prog.node
  BY <1>0, FittingIs
<1>2. prog.node[ctl[k].node].kind = "try" /\ Len(prog.node[ctl[k].node].kids) = 2
  BY <1>0, <1>1 DEF Fitting, StandsAt, Loops, WellFormed
<1>3. 2 \in DOMAIN prog.node[ctl[k].node].kids
  <2>1. prog.node[ctl[k].node].kids \in Seq(Nat \ {0})
    BY <1>0, FittingIs
  <2> QED
    BY <1>2, <2>1
<1>4. c \in DOMAIN prog.node /\ prog.node[c].up = ctl[k].node
  BY <1>1, <1>3, KidsAre
<1>5. r \in Fitting /\ r.at = "done" /\ r.node = ctl[k].node /\ r.saved = ctl[k].saved
  BY <1>0 DEF Fitting, Activation, StandsAt, Points
<1>6. a \in Fitting /\ a.at = "start" /\ a.node = c /\ a.saved = Ctx
  BY <1>0, <1>4, ActiveFits DEF Active
<1>7. ctl' = Append(Append(SubSeq(ctl, 1, k - 1), r), a)
  OBVIOUS
<1>8. Under(prog, r, c)
  BY <1>2, <1>4, <1>5 DEF Under
<1> HIDE DEF a, c, r
<1>9. /\ k \in Nat \ {0} /\ k <= Len(ctl) /\ Len(ctl) \in Nat
      /\ ctl' # <<>> /\ Len(ctl') = k + 1 /\ Top' = a
      /\ ctl'[k + 1] = a /\ ctl'[k] = r
      /\ \A j \in 1 .. k - 1 : ctl'[j] = ctl[j]
  BY <1>0, <1>5, <1>6, <1>7, CatchShape
<1>10. k # 1
  BY <1>0 DEF Nested, Bottom, Outermost
<1>11. ctl'[1] = ctl[1]
  <2>1. 1 \in 1 .. k - 1
    BY <1>9, <1>10, MoreThanOne
  <2> QED
    BY <1>9, <2>1
<1>12. \A j \in 1 .. k : j = k \/ (j = k - 1 /\ j \in 1 .. Len(ctl) - 1)
                         \/ (j \in 1 .. k - 1 /\ j + 1 \in 1 .. k - 1 /\ j \in 1 .. Len(ctl) - 1)
  <2>1. k \in Nat \ {0} /\ k <= Len(ctl) /\ Len(ctl) \in Nat
    BY <1>9
  <2> QED
    BY <2>1
<1>13. Nested'
  <2>1. ASSUME NEW j \in 1 .. k
        PROVE  Link(prog, ctl'[j], ctl'[j + 1])
    <3>1. CASE j = k
      BY <1>6, <1>8, <1>9, <3>1 DEF Link, Outermost
    <3>2. CASE j = k - 1 /\ j \in 1 .. Len(ctl) - 1
      <4>1. Link(prog, ctl[j], ctl[j + 1]) /\ j + 1 = k /\ j \in 1 .. k - 1
        BY <1>9, <3>2 DEF Standing, Nested
      <4>2. ctl'[j] = ctl[j] /\ ctl'[j + 1] = r
        BY <1>9, <4>1
      <4> QED
        BY <1>5, <4>1, <4>2 DEF Link, Outermost
    <3>3. CASE j \in 1 .. k - 1 /\ j + 1 \in 1 .. k - 1 /\ j \in 1 .. Len(ctl) - 1
      BY <1>9, <3>3 DEF Standing, Nested
    <3> QED
      BY <1>12, <3>1, <3>2, <3>3
  <2>2. Len(ctl') - 1 = k /\ prog' = prog
    BY <1>9
  <2> QED
    BY <1>11, <2>1, <2>2 DEF Standing, Nested
<1>14. ASSUME LocalThrows(prog) PROVE Kept'
  <2>1. Kept
    BY <1>14 DEF Standing
  <2>2. Calls(ctl, Len(ctl)) = Calls(ctl, k)
    <3>1. Handler(prog, Top.node) # 0
      <4>1. Top.node \in DOMAIN prog.node
        BY <1>0, StackIs, FittingIs
      <4> QED
        BY <1>14, <4>1 DEF LocalThrows
    <3>2. k # Len(ctl)
      BY DEF Top
    <3>3. k \in 0 .. Len(ctl) - 1 /\ Len(ctl) \in k + 1 .. Len(ctl)
      BY <1>9, <3>2
    <3>4. Handler(prog, ctl[Len(ctl)].node)
            = IF k # 0 /\ Calls(ctl, Len(ctl)) = Calls(ctl, k) THEN ctl[k].node ELSE 0
      BY <1>0, <3>3, HandlersAre
    <3> QED
      BY <3>1, <3>4 DEF Top
  <2>3. Top.at \notin {"call", "main"} /\ Top.saved = ctl[k].saved
    BY <1>0, <2>1, <2>2, SegmentKeeps
  <2>4. Ctx = ctl[k].saved /\ Ctx' = Ctx
    BY <2>1, <2>3 DEF Kept, Ctx
  <2>5. ASSUME NEW j \in 1 .. k
        PROVE  TakesOver(ctl'[j], ctl'[j + 1])
    <3>1. CASE j = k
      BY <1>5, <1>6, <1>9, <2>4, <3>1 DEF TakesOver
    <3>2. CASE j = k - 1 /\ j \in 1 .. Len(ctl) - 1
      <4>1. TakesOver(ctl[j], ctl[j + 1]) /\ j + 1 = k /\ j \in 1 .. k - 1
        BY <1>9, <2>1, <3>2 DEF Kept
      <4>2. ctl'[j] = ctl[j] /\ ctl'[j + 1] = r
        BY <1>9, <4>1
      <4> QED
        BY <1>5, <4>1, <4>2 DEF TakesOver
    <3>3. CASE j \in 1 .. k - 1 /\ j + 1 \in 1 .. k - 1 /\ j \in 1 .. Len(ctl) - 1
      BY <1>9, <2>1, <3>3 DEF Kept
    <3> QED
      BY <1>12, <3>1, <3>2, <3>3
  <2>6. Len(ctl') - 1 = k
    BY <1>9
  <2>7. Top'.at \notin {"call", "main"} /\ Ctx' = Top'.saved
    BY <1>6, <1>9, <2>4
  <2> QED
    BY <1>11, <2>1, <2>5, <2>6, <2>7 DEF Kept
<1> QED
  BY <1>13, <1>14

\* The top activation evaluates an expression of its statement.
LEMMA EvalStands ==
  ASSUME Standing, ctl # <<>>, NEW e \in Evaluated(prog, Top.node), NEW next \in Fitting,
         Eval(e, next), Onward(next), next.at \in Callers, Top.at \notin Outermost \cup {"try"}
  PROVE  ctl' # <<>> => Nested' /\ (LocalThrows(prog) => Kept')
<1>1. CASE Go(next) /\ Stays
  BY <1>1, GoStands
<1>2. CASE e \in Funcs /\ Entered(e, next)
  BY <1>2, CallStands
<1>3. CASE e = Throw /\ Catch
  <2>1. PICK k \in DOMAIN ctl :
          /\ ctl[k].at = "try" /\ \A j \in k + 1 .. Len(ctl) : ctl[j].at # "try"
          /\ ctl' = Append(Append(SubSeq(ctl, 1, k - 1), [ctl[k] EXCEPT !.at = "done"]),
                           Active("start", prog.node[ctl[k].node].kids[2]))
          /\ UNCHANGED <<prog, frames, labels, curFunc>>
    BY <1>3 DEF Catch
  <2> QED
    BY <1>3, <2>1, CatchStands
<1>4. CASE ctl' = <<>>
  BY <1>4
<1>5. \/ Go(next) /\ Stays
      \/ e \in Funcs /\ Entered(e, next)
      \/ e = Throw /\ Catch
      \/ ctl' = <<>>
  BY DEF Eval, EnterCall, Entered, Quiet, Unhandled, Stays
<1> QED
  BY <1>1, <1>2, <1>3, <1>4, <1>5

\* The top activation executes statement n.
LEMMA ExecStands ==
  ASSUME Standing, ctl # <<>>, NEW n, NEW next \in Fitting,
         Exec(n, next) \/ ExecBody(n, next), Onward(next), Under(prog, next, n)
  PROVE  Nested' /\ (LocalThrows(prog) => Kept')
<1>1. Stays
  BY DEF Exec, ExecBody, Stays
<1>2. CASE Go(next)
  BY <1>1, <1>2, GoStands
<1>3. CASE Push(next, Active("start", n))
  <2>1. n \in DOMAIN prog.node
    BY DEF Under
  <2>2. /\ Active("start", n) \in Fitting /\ Active("start", n).at = "start"
        /\ Active("start", n).node = n /\ Active("start", n).saved = Ctx
    BY <2>1, ActiveFits DEF Standing, Active
  <2> QED
    BY <1>1, <1>3, <2>2, PushStands
<1> QED
  BY <1>2, <1>3 DEF Exec, ExecBody

LEMMA MainStands ==
  ASSUME Standing, StartMain
  PROVE  Nested' /\ (LocalThrows(prog) => Kept')
<1> DEFINE a == Active("main", prog.main)
           c == Callee(prog.main)
<1>1. /\ ctl # <<>> /\ Top.at = "top" /\ prog.main # 0 /\ prog' = prog
      /\ frames' = Append(frames, [func |-> Outside, ret |-> 0]) /\ labels' = prog.main
      /\ ctl' = <<a, c>>
  BY DEF StartMain, At
<1>2. Len(frames') = Len(frames) + 1 /\ Len(frames) \in Nat
  BY <1>1 DEF Standing, FramesInv, TypeOK
<1>3. prog.main \in DOMAIN prog.node /\ prog.node[prog.main].up = 0
  BY <1>1, BodiesAreRoots DEF Standing
<1>4. a.at = "main" /\ a.node = prog.main /\ a.saved = Ctx
  BY DEF Active
<1>5. c.at = "start" /\ c.node = prog.main /\ c.saved = Ctx'
  BY DEF Callee
<1>6. Len(ctl) = 1
  <2>1. Len(ctl) \in Nat \ {0} /\ Top = ctl[Len(ctl)]
    BY <1>1, StackIs DEF Standing
  <2>2. ASSUME Len(ctl) # 1 PROVE FALSE
    <3>1. Len(ctl) - 1 \in 1 .. Len(ctl) - 1 /\ (Len(ctl) - 1) + 1 = Len(ctl)
      BY <2>1, <2>2, MoreThanOne
    <3>2. Link(prog, ctl[Len(ctl) - 1], Top)
      BY <2>1, <3>1 DEF Standing, Nested
    <3> QED
      BY <1>1, <3>2 DEF Link, Outermost
  <2> QED
    BY <2>2
<1> HIDE DEF a, c
<1>7. Len(ctl') = 2 /\ ctl'[1] = a /\ ctl'[2] = c /\ ctl' # <<>> /\ Top' = c
  BY <1>1 DEF Top
<1>8. \A k \in 1 .. Len(ctl') - 1 : k = 1 /\ k + 1 = 2
  BY <1>7
<1>9. Nested'
  <2>1. Bottom(prog', a)
    BY <1>1, <1>4 DEF Bottom, Outermost
  <2>2. Link(prog', a, c)
    BY <1>1, <1>3, <1>4, <1>5 DEF Link, Under, Outermost
  <2> QED
    BY <1>7, <1>8, <2>1, <2>2 DEF Nested
<1>10. ASSUME LocalThrows(prog) PROVE Kept'
  <2>1. Kept
    BY <1>10 DEF Standing
  <2>2. Ctx = Top.saved /\ Top.saved.depth = 0 /\ Ctx.depth = Len(frames)
    BY <1>1, <1>6, <2>1 DEF Kept, Ctx, Top
  <2>3. Ctx'.depth = Len(frames') /\ Ctx'.labels = labels'
    BY DEF Ctx
  <2>4. TakesOver(a, c)
    BY <1>1, <1>2, <1>4, <1>5, <2>2, <2>3 DEF TakesOver
  <2>5. Top'.at \notin {"call", "main"} /\ Ctx' = Top'.saved
    BY <1>5, <1>7
  <2> QED
    BY <1>4, <1>7, <1>8, <2>2, <2>4, <2>5 DEF Kept
<1> QED
  BY <1>9, <1>10

LEMMA KidUnder ==
  ASSUME FramesInv, ctl # <<>>, NEW i \in DOMAIN Kids
  PROVE  Kids[i] \in DOMAIN prog.node /\ prog.node[Kids[i]].up = Top.node
<1>1. WellFormed(prog) /\ Top.node \in DOMAIN prog.node
  BY StackIs, FittingIs
<1> QED
  BY <1>1, KidsAre DEF Kids

\* The top activation resumed elsewhere goes on.
LEMMA ResumeOnward ==
  ASSUME FramesInv, ctl # <<>>, NEW at \in Points, NEW i \in Nat \ {0},
         StandsAt(prog.node[Top.node].kind, at),
         Top.at \notin {"call", "main"}, at \notin {"call", "main"},
         at \in Outermost <=> Top.at \in Outermost
  PROVE  /\ Resume(at) \in Fitting /\ Onward(Resume(at))
         /\ ResumeAt(at, i) \in Fitting /\ Onward(ResumeAt(at, i))
         /\ Resume(at).at = at /\ Resume(at).node = Top.node
         /\ ResumeAt(at, i).at = at /\ ResumeAt(at, i).node = Top.node
         /\ Resume(at).i = Top.i /\ ResumeAt(at, i).i = i
<1>1. /\ Resume(at) \in Fitting /\ Resume(at).at = at
      /\ Resume(at).saved = Top.saved /\ Resume(at).node = Top.node
      /\ ResumeAt(at, i) \in Fitting /\ ResumeAt(at, i).at = at
      /\ ResumeAt(at, i).saved = Top.saved /\ ResumeAt(at, i).node = Top.node
  BY ResumeFits
<1>2. Top \in Activation
  BY StackIs, FittingIs
<1>3. Resume(at).i = Top.i /\ ResumeAt(at, i).i = i
  BY <1>2 DEF Activation, Resume, ResumeAt
<1> QED
  BY <1>1, <1>3 DEF Onward

-----------------------------------------------------------------------------
(* The steps of the walker.                                                *)

Holds == ctl' # <<>> => Nested' /\ (LocalThrows(prog) => Kept')

LEMMA StatementStands ==
  ASSUME Standing, Statement
  PROVE  Holds
<1>0. ctl # <<>>
  BY DEF Statement, Done, ExecSimple, ExecBreak, ExecContinue, ExecGoto, ExecLabel,
         ExecTry, LeaveTry, At, Is
<1>1. FramesInv /\ Top.node \in DOMAIN prog.node /\ WellFormed(prog)
  BY <1>0, StackIs, FittingIs DEF Standing
<1>2. CASE Done \/ LeaveTry \/ ExecBreak \/ ExecContinue \/ ExecGoto
  <2>1. Pop /\ Stays /\ Top.at \in {"done", "try", "start"}
    BY <1>2 DEF Done, LeaveTry, ExecBreak, ExecContinue, ExecGoto, SetSignal, At, Is,
                Quiet, Stays
  <2> QED
    BY <1>0, <2>1, PopStands DEF Outermost, Holds
<1>3. CASE ExecSimple
  <2>1. Top.at = "start" /\ Eval(prog.node[Top.node].expr, Resume("done"))
    BY <1>3 DEF ExecSimple, Is
  <2>2. Resume("done") \in Fitting /\ Onward(Resume("done")) /\ Resume("done").at = "done"
    BY <1>0, <1>1, <2>1, ResumeOnward DEF StandsAt, Points, Outermost
  <2> QED
    BY <1>0, <2>1, <2>2, EvalStands DEF Evaluated, Callers, Outermost, Holds
<1>4. CASE ExecLabel
  <2>1. Top.at = "start" /\ prog.node[Top.node].kind = "label"
    BY <1>4 DEF ExecLabel, Is
  <2>2. /\ Resume("done") \in Fitting /\ Onward(Resume("done")) /\ Resume("done").at = "done"
        /\ Resume("done").node = Top.node
    BY <1>0, <1>1, <2>1, ResumeOnward DEF StandsAt, Points, Outermost
  <2>3. CASE Go(Resume("done")) /\ Quiet
    <3>1. Stays
      BY <2>3 DEF Quiet, Stays
    <3> QED
      BY <1>0, <2>2, <2>3, <3>1, GoStands DEF Holds
  <2>4. CASE Kids # <<>> /\ Exec(Kids[1], Resume("done"))
    <3>1. 1 \in DOMAIN Kids
      <4>1. Kids \in Seq(Nat \ {0})
        BY <1>0, <1>1, StackIs, FittingIs DEF Kids
      <4> QED
        BY <2>4, <4>1
    <3>2. Under(prog, Resume("done"), Kids[1])
      BY <1>0, <1>1, <2>1, <2>2, <3>1, KidUnder DEF Under
    <3> QED
      BY <1>0, <2>2, <2>4, <3>2, ExecStands DEF Holds
  <2> QED
    BY <1>4, <2>3, <2>4 DEF ExecLabel
<1>5. CASE ExecTry
  <2>1. Top.at = "start" /\ prog.node[Top.node].kind = "try" /\ ExecBody(Kids[1], Resume("try"))
    BY <1>5 DEF ExecTry, Is
  <2>2. /\ Resume("try") \in Fitting /\ Onward(Resume("try")) /\ Resume("try").at = "try"
        /\ Resume("try").node = Top.node
    BY <1>0, <1>1, <2>1, ResumeOnward DEF StandsAt, Points, Outermost
  <2>3. 1 \in DOMAIN Kids
    <3>1. Kids \in Seq(Nat \ {0}) /\ Len(Kids) = 2
      BY <1>0, <1>1, <2>1, StackIs, FittingIs DEF Kids, WellFormed
    <3> QED
      BY <3>1
  <2>4. Under(prog, Resume("try"), Kids[1])
    BY <1>0, <1>1, <2>1, <2>2, <2>3, KidUnder DEF Under, Kids
  <2> QED
    BY <1>0, <2>1, <2>2, <2>4, ExecStands DEF Holds
<1> QED
  BY <1>2, <1>3, <1>4, <1>5 DEF Statement

LEMMA CompoundStands ==
  ASSUME Standing, Compound
  PROVE  Holds
<1>0. ctl # <<>>
  BY DEF Compound, StartCompound, ExecCompound, NextStatement, Jump, LeaveCompound, At, Is
<1>1. FramesInv /\ Top \in Fitting /\ Top.i \in Nat \ {0} /\ Kids \in Seq(Nat \ {0})
      /\ Top.node \in DOMAIN prog.node
  BY <1>0, StackIs, FittingIs DEF Standing, Kids
<1>2. Compound => Top.at \in {"start", "loop", "check"} /\ prog.node[Top.node].kind = "compound"
  BY <1>1 DEF Compound, StartCompound, ExecCompound, NextStatement, Jump, LeaveCompound, At, Is,
              Fitting, StandsAt, Loops
<1>3. \A at \in {"loop", "check"}, i \in Nat \ {0} :
        /\ Resume(at) \in Fitting /\ Onward(Resume(at)) /\ Resume(at).at = at
        /\ Resume(at).node = Top.node /\ Resume(at).i = Top.i
        /\ ResumeAt(at, i) \in Fitting /\ Onward(ResumeAt(at, i))
  BY <1>0, <1>1, <1>2, ResumeOnward DEF StandsAt, Points, Outermost
<1>4. CASE Pop /\ Quiet
  <2>1. Stays
    BY <1>4 DEF Quiet, Stays
  <2> QED
    BY <1>0, <1>2, <1>4, <2>1, PopStands DEF Outermost, Holds
<1>5. ASSUME NEW at \in {"loop", "check"}, NEW i \in Nat \ {0}, Stays,
             Go(Resume(at)) \/ Go(ResumeAt(at, i))
      PROVE  Holds
  BY <1>0, <1>3, <1>5, GoStands DEF Holds
<1>6. CASE StartCompound
  BY <1>5, <1>6 DEF StartCompound, Quiet, Stays
<1>7. CASE NextStatement
  <2>1. Top.i + 1 \in Nat \ {0}
    BY <1>1
  <2> QED
    BY <1>5, <1>7, <2>1 DEF NextStatement, Quiet, Stays
<1>8. CASE Jump
  <2>1. Position(prog, Target) \in Nat \ {0}
    <3>1. Target # 0 /\ labels # 0 /\ prog.node[Target].up = Top.node
      BY <1>8 DEF Jump, Found
    <3>2. Target \in DOMAIN prog.node
      BY <3>1 DEF Target, LabelEntry
    <3>3. WellFormed(prog) /\ Top.node # 0
      BY <1>1, FittingIs
    <3>4. PICK i \in DOMAIN prog.node[Top.node].kids : prog.node[Top.node].kids[i] = Target
      BY <3>1, <3>2, <3>3 DEF WellFormed
    <3> QED
      BY <1>1, <3>3, <3>4, KidsAre
  <2> QED
    BY <1>5, <1>8, <2>1 DEF Jump, Stays
<1>9. CASE ExecCompound /\ Exec(Kids[Top.i], Resume("check")) /\ Top.i <= Len(Kids)
  <2>1. Top.i \in DOMAIN Kids
    BY <1>1, <1>9
  <2>2. Under(prog, Resume("check"), Kids[Top.i])
    BY <1>0, <1>1, <1>3, <2>1, KidUnder DEF Under, Kids
  <2> QED
    BY <1>0, <1>3, <1>9, <2>2, ExecStands DEF Holds
<1>10. ExecCompound => (Pop /\ Quiet) \/ (Exec(Kids[Top.i], Resume("check")) /\ Top.i <= Len(Kids))
  BY <1>1 DEF ExecCompound
<1> QED
  BY <1>4, <1>6, <1>7, <1>8, <1>9, <1>10 DEF Compound, LeaveCompound

LEMMA BranchStands ==
  ASSUME Standing, Branch
  PROVE  Holds
<1>0. ctl # <<>>
  BY DEF Branch, EvalIf, ExecIf, EvalSwitch, SelectCase, ExecCase, AfterCase, At, Is
<1>1. FramesInv /\ Top \in Fitting /\ Top.i \in Nat \ {0} /\ Kids \in Seq(Nat \ {0})
      /\ Top.node \in DOMAIN prog.node /\ prog.node[Top.node].entries \subseteq DOMAIN Kids
  BY <1>0, StackIs, FittingIs DEF Standing, Kids, WellFormed
<1>2. CASE Pop /\ Stays /\ Top.at \in {"test", "select", "case", "caseCheck"}
  BY <1>0, <1>2, PopStands DEF Outermost, Holds
<1>3. CASE EvalIf
  <2>1. Top.at = "start" /\ prog.node[Top.node].kind = "if"
        /\ Eval(prog.node[Top.node].expr, Resume("test"))
    BY <1>3 DEF EvalIf, Is
  <2>2. Resume("test") \in Fitting /\ Onward(Resume("test")) /\ Resume("test").at = "test"
    BY <1>0, <1>1, <2>1, ResumeOnward DEF StandsAt, Points, Outermost
  <2> QED
    BY <1>0, <2>1, <2>2, EvalStands DEF Evaluated, Callers, Outermost, Holds
<1>4. CASE EvalSwitch
  <2>1. Top.at = "start" /\ prog.node[Top.node].kind = "switch"
        /\ Eval(prog.node[Top.node].expr, Resume("select"))
    BY <1>4 DEF EvalSwitch, Is
  <2>2. Resume("select") \in Fitting /\ Onward(Resume("select")) /\ Resume("select").at = "select"
    BY <1>0, <1>1, <2>1, ResumeOnward DEF StandsAt, Points, Outermost
  <2> QED
    BY <1>0, <2>1, <2>2, EvalStands DEF Evaluated, Callers, Outermost, Holds
<1>5. ASSUME NEW i \in DOMAIN Kids, Is("if", "test"), Exec(Kids[i], Resume("done"))
      PROVE  Holds
  <2>1. Top.at = "test" /\ prog.node[Top.node].kind = "if"
    BY <1>5 DEF Is
  <2>2. /\ Resume("done") \in Fitting /\ Onward(Resume("done")) /\ Resume("done").at = "done"
        /\ Resume("done").node = Top.node
    BY <1>0, <1>1, <2>1, ResumeOnward DEF StandsAt, Points, Outermost
  <2>3. Under(prog, Resume("done"), Kids[i])
    BY <1>0, <1>1, <1>5, <2>1, <2>2, KidUnder DEF Under
  <2> QED
    BY <1>0, <1>5, <2>2, <2>3, ExecStands DEF Holds
<1>6. CASE ExecIf
  <2>1. (Pop /\ Quiet /\ Top.at = "test") \/ \E i \in DOMAIN Kids : Exec(Kids[i], Resume("done"))
    BY <1>6 DEF ExecIf, Is
  <2>2. Pop /\ Quiet /\ Top.at = "test" => Holds
    BY <1>2 DEF Quiet, Stays
  <2> QED
    BY <1>5, <1>6, <2>1, <2>2 DEF ExecIf
<1>k. Top.at \in {"select", "case", "caseCheck"} => prog.node[Top.node].kind = "switch"
  BY <1>1 DEF Fitting, StandsAt, Loops
<1>7. ASSUME NEW i \in Nat \ {0}, Top.at \in {"select", "case", "caseCheck"}
      PROVE  /\ ResumeAt("case", i) \in Fitting /\ Onward(ResumeAt("case", i))
             /\ Resume("caseCheck") \in Fitting /\ Onward(Resume("caseCheck"))
             /\ Resume("caseCheck").at = "caseCheck" /\ Resume("caseCheck").node = Top.node
             /\ Resume("caseCheck").i = Top.i
  <2>1. StandsAt(prog.node[Top.node].kind, "case") /\ StandsAt(prog.node[Top.node].kind, "caseCheck")
    BY <1>k, <1>7 DEF StandsAt
  <2> QED
    BY <1>0, <1>1, <1>7, <2>1, ResumeOnward DEF Points, Outermost
<1>8. ASSUME NEW i \in Nat \ {0}, Top.at \in {"select", "case", "caseCheck"}, Stays,
             Go(ResumeAt("case", i))
      PROVE  Holds
  BY <1>0, <1>7, <1>8, GoStands DEF Holds
<1>9. CASE SelectCase
  <2>1. Top.at = "select" /\ Stays
    BY <1>9 DEF SelectCase, At, Quiet, Stays
  <2>2. Pop \/ \E i \in prog.node[Top.node].entries : Go(ResumeAt("case", i))
    BY <1>9 DEF SelectCase
  <2>3. \A i \in prog.node[Top.node].entries : i \in Nat \ {0}
    BY <1>1
  <2> QED
    BY <1>2, <1>8, <2>1, <2>2, <2>3
<1>10. CASE ExecCase
  <2>1. Top.at = "case"
    BY <1>10 DEF ExecCase, At
  <2>2. Pop /\ Quiet => Holds
    BY <1>2, <2>1 DEF Quiet, Stays
  <2>3. ASSUME Top.i <= Len(Kids), Exec(Kids[Top.i], Resume("caseCheck")) PROVE Holds
    <3>1. Top.i \in DOMAIN Kids
      BY <1>1, <2>3
    <3>2. Under(prog, Resume("caseCheck"), Kids[Top.i])
      BY <1>0, <1>1, <1>7, <2>1, <3>1, KidUnder DEF Under, Kids
    <3> QED
      BY <1>0, <1>1, <1>7, <2>1, <2>3, <3>2, ExecStands DEF Holds
  <2> QED
    BY <1>1, <1>10, <2>2, <2>3 DEF ExecCase
<1>11. CASE AfterCase
  <2>1. Top.at = "caseCheck" /\ Stays /\ (Pop \/ Go(ResumeAt("case", Top.i + 1)))
    BY <1>11 DEF AfterCase, At, Stays
  <2>2. Top.i + 1 \in Nat \ {0}
    BY <1>1
  <2> QED
    BY <1>2, <1>8, <2>1, <2>2
<1> QED
  BY <1>3, <1>4, <1>6, <1>9, <1>10, <1>11 DEF Branch

LEMMA LoopStands ==
  ASSUME Standing, Loop
  PROVE  Holds
<1>0. ctl # <<>>
  BY DEF Loop, StartWhile, StartFor, StartDoWhile, EvalCond, TestLoop, AfterBody,
         EvalPost, BreakLoop, ReturnFromLoop, At, Is
<1>1. FramesInv /\ Top \in Fitting /\ Top.i \in Nat \ {0} /\ Top.node \in DOMAIN prog.node
  BY <1>0, StackIs, FittingIs DEF Standing
<1>2. Top.at \in {"start", "cond", "test", "after", "step"} /\ prog.node[Top.node].kind \in Loops
  BY <1>1 DEF Fitting, StandsAt, Loop, StartWhile, StartFor, StartDoWhile, EvalCond, TestLoop,
              AfterBody, EvalPost, BreakLoop, ReturnFromLoop, At, Is, Loops
<1>3. ASSUME NEW at \in {"cond", "test", "after", "step"}
      PROVE  /\ Resume(at) \in Fitting /\ Onward(Resume(at)) /\ Resume(at).at = at
             /\ Resume(at).node = Top.node
  BY <1>0, <1>1, <1>2, <1>3, ResumeOnward DEF StandsAt, Points, Outermost
<1>4. CASE Pop /\ Stays
  BY <1>0, <1>2, <1>4, PopStands DEF Outermost, Holds
<1>5. ASSUME NEW at \in {"cond", "test", "after", "step"}, Stays, Go(Resume(at))
      PROVE  Holds
  BY <1>0, <1>3, <1>5, GoStands DEF Holds
<1>6. ASSUME NEW e \in Evaluated(prog, Top.node), NEW at \in {"cond", "test"}, Eval(e, Resume(at))
      PROVE  Holds
  BY <1>0, <1>2, <1>3, <1>6, EvalStands DEF Callers, Outermost, Holds
<1>7. ASSUME Exec(Kids[1], Resume("after"))
      PROVE  Holds
  <2>1. 1 \in DOMAIN Kids
    <3>1. Kids \in Seq(Nat \ {0}) /\ Len(Kids) = 1
      BY <1>0, <1>1, <1>2, StackIs, FittingIs DEF Kids, WellFormed
    <3> QED
      BY <3>1
  <2>2. Under(prog, Resume("after"), Kids[1])
    BY <1>0, <1>1, <1>3, <2>1, KidUnder DEF Under, Kids
  <2> QED
    BY <1>0, <1>3, <1>7, <2>2, ExecStands DEF Holds
<1>8. CASE StartWhile \/ AfterBody
  <2>1. \E at \in {"cond", "step"} : Stays /\ Go(Resume(at))
    BY <1>8 DEF StartWhile, AfterBody, Quiet, Stays
  <2> QED
    BY <1>5, <2>1
<1>9. CASE StartFor \/ EvalCond \/ EvalPost
  <2>1. \E e \in Evaluated(prog, Top.node), at \in {"cond", "test"} : Eval(e, Resume(at))
    BY <1>9 DEF StartFor, EvalCond, EvalPost, Evaluated
  <2> QED
    BY <1>6, <2>1
<1>10. CASE StartDoWhile \/ TestLoop \/ BreakLoop \/ ReturnFromLoop
  <2>1. (Pop /\ Stays) \/ Exec(Kids[1], Resume("after"))
    BY <1>10 DEF StartDoWhile, TestLoop, BreakLoop, ReturnFromLoop, Quiet, Stays
  <2> QED
    BY <1>4, <1>7, <2>1
<1> QED
  BY <1>8, <1>9, <1>10 DEF Loop

LEMMA CallReturnStands ==
  ASSUME Standing, CallReturn
  PROVE  Holds
<1>1. CASE EvalReturn
  <2>1. ctl # <<>> /\ Top.at = "start" /\ prog.node[Top.node].kind = "return"
        /\ Eval(prog.node[Top.node].expr, Resume("ret"))
    BY <1>1 DEF EvalReturn, Is
  <2>2. Resume("ret") \in Fitting /\ Onward(Resume("ret")) /\ Resume("ret").at = "ret"
    <3>1. Top.i \in Nat \ {0}
      BY <2>1, StackIs, FittingIs DEF Standing
    <3> QED
      BY <2>1, <3>1, ResumeOnward DEF StandsAt, Points, Outermost, Standing
  <2> QED
    BY <2>1, <2>2, EvalStands DEF Evaluated, Callers, Outermost, Holds
<1>2. CASE ExecReturn
  <2>1. ctl # <<>> /\ Top.at = "ret" /\ Pop /\ Stays
    <3>1. Len(frames') = Len(frames)
      <4>1. frames \in Seq(Frame)
        BY DEF Standing, FramesInv, TypeOK
      <4> QED
        BY <1>2, <4>1 DEF ExecReturn
    <3> QED
      BY <1>2, <3>1 DEF ExecReturn, At, Stays
  <2> QED
    BY <2>1, PopStands DEF Outermost, Holds
<1>3. CASE LeaveCall
  BY <1>3, LeaveStands DEF Holds
<1> QED
  BY <1>1, <1>2, <1>3 DEF CallReturn

LEMMA RunStands ==
  ASSUME Standing, Run
  PROVE  Holds
<1>0. ctl # <<>>
  BY DEF Run, RunStatement, NextTop, StartMain, EndRun, EndMain, At
<1>1. FramesInv /\ Top \in Fitting /\ Top.i \in Nat \ {0} /\ Kids \in Seq(Nat \ {0})
      /\ Top.node \in DOMAIN prog.node
  BY <1>0, StackIs, FittingIs DEF Standing, Kids
<1>2. ASSUME NEW at \in {"top", "topCheck"}, NEW i \in Nat \ {0}, Top.at \in {"top", "topCheck"}
      PROVE  /\ Resume(at) \in Fitting /\ Onward(Resume(at)) /\ Resume(at).at = at
             /\ Resume(at).node = Top.node /\ Resume(at).i = Top.i
             /\ ResumeAt(at, i) \in Fitting /\ Onward(ResumeAt(at, i))
  <2>1. StandsAt(prog.node[Top.node].kind, at)
    BY <1>1, <1>2 DEF Fitting, StandsAt, Loops
  <2> QED
    BY <1>0, <1>1, <1>2, <2>1, ResumeOnward DEF Points, Outermost
<1>3. CASE RunStatement
  <2>1. Top.at = "top" /\ Top.i \in DOMAIN Kids /\ Exec(Kids[Top.i], Resume("topCheck"))
    BY <1>1, <1>3 DEF RunStatement, At
  <2>2. Under(prog, Resume("topCheck"), Kids[Top.i])
    BY <1>0, <1>1, <1>2, <2>1, KidUnder DEF Under, Kids
  <2> QED
    BY <1>0, <1>1, <1>2, <2>1, <2>2, ExecStands DEF Holds
<1>4. CASE NextTop
  <2>1. Top.i + 1 \in Nat \ {0}
    BY <1>1
  <2>2. Top.at = "topCheck" /\ (ctl' = <<>> \/ (Go(ResumeAt("top", Top.i + 1)) /\ Stays))
    BY <1>4 DEF NextTop, At, Stays
  <2> QED
    BY <1>0, <1>2, <2>1, <2>2, GoStands DEF Holds
<1>5. CASE StartMain
  BY <1>5, MainStands DEF Holds
<1>6. CASE EndRun \/ EndMain
  BY <1>6 DEF EndRun, EndMain, Holds
<1> QED
  BY <1>3, <1>4, <1>5, <1>6 DEF Run

LEMMA StandingNext ==
  ASSUME Standing, [Next]_vars
  PROVE  Standing' /\ prog' = prog
<1>1. FramesInv'
  BY FramesInvNext DEF Standing
<1>2. Holds
  <2>1. CASE UNCHANGED vars
    BY <2>1 DEF vars, Standing, Holds, Nested, Kept, Top, Ctx
  <2>2. CASE Ended
    BY <2>2 DEF Ended, vars, Holds
  <2> QED
    BY <2>1, <2>2, StatementStands, CompoundStands, BranchStands, LoopStands,
       CallReturnStands, RunStands DEF Next
<1>3. prog' = prog
  BY DEF vars, Next, Statement, Done, ExecSimple, ExecBreak, ExecContinue, ExecGoto, ExecLabel,
         ExecTry, LeaveTry, Compound, StartCompound, ExecCompound, NextStatement, Jump,
         LeaveCompound, Branch, EvalIf, ExecIf, EvalSwitch, SelectCase, ExecCase, AfterCase,
         Loop, StartWhile, StartFor, StartDoWhile, EvalCond, TestLoop, AfterBody, EvalPost,
         BreakLoop, ReturnFromLoop, CallReturn, EvalReturn, ExecReturn, LeaveCall, Run,
         RunStatement, NextTop, StartMain, EndRun, EndMain, Ended, Quiet, SetSignal, Exec,
         ExecBody, Eval, EnterCall, Catch, Unhandled
<1>4. CASE ctl' = <<>>
  <2>1. Nested'
    <3>1. Len(ctl') = 0
      BY <1>4
    <3> QED
      BY <1>4, <3>1 DEF Nested
  <2> QED
    BY <1>1, <1>3, <1>4, <2>1 DEF Standing, Kept
<1> QED
  BY <1>1, <1>2, <1>3, <1>4 DEF Standing, Holds

\* A program whose exceptions stay in the call that raises them finds the state
\* of the interpreter as it left it when it comes back to an activation, and is told
\* of an overflow only when that many calls are really active.
ContextKeptWithoutCrossing ==
  /\ [](LocalThrows(prog) => StateRestored)
  /\ [][LocalThrows(prog) /\ overflow' /\ ~overflow => ActiveCalls >= MaxCallDepth]_vars
-----------------------------------------------------------------------------
(* What a call yields.                                                     *)

LEMMA OwnReturnNext ==
  ASSUME Standing, OwnReturn, [Next]_vars
  PROVE  OwnReturn'
<1>1. FramesInv' /\ prog' = prog
  BY StandingNext DEF Standing
<1>2. CASE UNCHANGED vars
  BY <1>2 DEF vars, OwnReturn, Top
<1>3. CASE Next /\ ctl' # <<>> /\ frames' # <<>> /\ frames'[Len(frames')].ret # 0
  <2> DEFINE ret == frames[Len(frames)].ret
  <2>1. signal' = "Return"
    <3>1. Len(frames') \in DOMAIN frames'
      BY <1>1, <1>3 DEF FramesInv, TypeOK
    <3> QED
      BY <1>1, <1>3, <3>1 DEF FramesInv, ReturnValueInFlight
  <2>2. ctl # <<>>
    BY <1>3 DEF Next, Statement, Done, ExecSimple, ExecBreak, ExecContinue, ExecGoto, ExecLabel,
         ExecTry, LeaveTry, Compound, StartCompound, ExecCompound, NextStatement, Jump,
         LeaveCompound, Branch, EvalIf, ExecIf, EvalSwitch, SelectCase, ExecCase, AfterCase,
         Loop, StartWhile, StartFor, StartDoWhile, EvalCond, TestLoop, AfterBody, EvalPost,
         BreakLoop, ReturnFromLoop, CallReturn, EvalReturn, ExecReturn, LeaveCall, Run,
         RunStatement, NextTop, StartMain, EndRun, EndMain, Ended, Is, At, vars
  <2>3. FramesInv /\ WellFormed(prog) /\ Top \in Fitting /\ Top.node \in DOMAIN prog.node
    BY <2>2, StackIs, FittingIs DEF Standing
  <2>4. CASE signal = "Return"
    <3>1. Top.at \in Unwinding
      BY <2>2, <2>3, <2>4 DEF FramesInv, ReturnUnwinds
    <3>2. Pop /\ frames' = frames /\ Stays /\ Top.at \notin Outermost \cup {"call"}
      BY <1>3, <2>1, <2>2, <2>4, <3>1
         DEF Unwinding, Outermost, Stays, Next, Statement, Done, ExecSimple, ExecBreak,
         ExecContinue, ExecGoto, ExecLabel,
         ExecTry, LeaveTry, Compound, StartCompound, ExecCompound, NextStatement, Jump,
         LeaveCompound, Found, Branch, EvalIf, ExecIf, EvalSwitch, SelectCase, ExecCase, AfterCase,
         Loop, StartWhile, StartFor, StartDoWhile, EvalCond, TestLoop, AfterBody, EvalPost,
         BreakLoop, ReturnFromLoop, CallReturn, EvalReturn, ExecReturn, LeaveCall, Run,
         RunStatement, NextTop, StartMain, EndRun, EndMain, Ended, Is, At, Quiet
    <3>3. Top' \in Fitting /\ Under(prog, Top', Top.node)
      BY <2>2, <3>2, PopStands
    <3>4. Root(prog, Top.node) = Root(prog, Top'.node)
      <4>1. Top'.node \in DOMAIN prog.node
        BY <3>3 DEF Fitting
      <4> QED
        BY <2>3, <3>3, <4>1, UnderRoot
    <3> QED
      BY <1>1, <1>3, <2>2, <3>2, <3>4 DEF OwnReturn
  <2>5. CASE signal # "Return"
    <3>1. ExecReturn
      BY <1>3, <2>1, <2>2, <2>5
         DEF Next, Statement, Done, ExecSimple, ExecBreak, ExecContinue, ExecGoto, ExecLabel,
         ExecTry, LeaveTry, Compound, StartCompound, ExecCompound, NextStatement, Jump,
         LeaveCompound, Branch, EvalIf, ExecIf, EvalSwitch, SelectCase, ExecCase, AfterCase,
         Loop, StartWhile, StartFor, StartDoWhile, EvalCond, TestLoop, AfterBody, EvalPost,
         BreakLoop, ReturnFromLoop, CallReturn, EvalReturn, LeaveCall, Run,
         RunStatement, NextTop, StartMain, EndRun, EndMain, Ended, vars, Quiet, SetSignal, Exec,
         ExecBody, Eval, EnterCall, Catch, Unhandled
    <3>2. Pop /\ Top.at = "ret"
      BY <3>1 DEF ExecReturn, At
    <3>3. frames \in Seq(Frame)
      BY <2>3 DEF FramesInv, TypeOK
    <3>4. frames # <<>> /\ frames' = [frames EXCEPT ![Len(frames)].ret = Top.node]
      BY <1>3, <3>1 DEF ExecReturn
    <3>5. Len(frames') = Len(frames) /\ frames'[Len(frames')].ret = Top.node
      BY <3>3, <3>4 DEF Frame
    <3>6. Stays
      BY <3>1, <3>5 DEF ExecReturn, Stays
    <3>7. Top' \in Fitting /\ Under(prog, Top', Top.node)
      BY <2>2, <3>2, <3>6, PopStands DEF Outermost
    <3>8. Root(prog, Top.node) = Root(prog, Top'.node)
      <4>1. Top'.node \in DOMAIN prog.node
        BY <3>7 DEF Fitting
      <4> QED
        BY <2>3, <3>7, <4>1, UnderRoot
    <3> QED
      BY <1>1, <2>3, <3>5, <3>8 DEF OwnReturn
  <2> QED
    BY <2>4, <2>5
<1> QED
  BY <1>2, <1>3 DEF OwnReturn

LEMMA StandingInit ==
  ASSUME Init
  PROVE  Standing /\ OwnReturn
<1>1. FramesInv
  BY FramesInvInit
<1>2. /\ prog \in Programs /\ frames = <<>>
      /\ ctl = <<Active("top", prog.top)>> /\ Len(ctl) = 1 /\ ctl # <<>>
  BY DEF Init
<1>3. Top = Active("top", prog.top) /\ ctl[1] = Active("top", prog.top)
  BY <1>2 DEF Top
<1>4. Top.at = "top" /\ Top.node = prog.top /\ Top.saved = Ctx /\ Ctx.depth = 0
  BY <1>2, <1>3 DEF Active, Ctx
<1>5. \A k \in 1 .. Len(ctl) - 1 : FALSE
  BY <1>2
<1> QED
  BY <1>1, <1>2, <1>3, <1>4, <1>5 DEF Standing, Nested, Kept, Bottom, Outermost, OwnReturn

\* A call reads what the return statement of its own function left, or nothing.
THEOREM ResultIsOwnHolds == Spec => []ResultIsOwn
<1>1. Init => Standing /\ OwnReturn
  BY StandingInit
<1>2. Standing /\ OwnReturn /\ [Next]_vars => (Standing /\ OwnReturn)'
  BY StandingNext, OwnReturnNext
<1>3. Standing /\ OwnReturn => ResultIsOwn
  <2> SUFFICES ASSUME Standing, OwnReturn, At("call"), frames[Len(frames)].ret # 0
               PROVE  Root(prog, frames[Len(frames)].ret) = Top.node
    BY DEF ResultIsOwn
  <2>1. ctl # <<>> /\ Top.at = "call" /\ FramesInv
    BY DEF At, Standing
  <2>2. Len(ctl) \in Nat \ {0} /\ Top = ctl[Len(ctl)] /\ Top \in Fitting
        /\ DOMAIN ctl = 1 .. Len(ctl)
    BY <2>1, StackIs
  <2>3. frames # <<>>
    <3>1. Len(ctl) \in DOMAIN ctl /\ IsCall(Len(ctl))
      BY <2>1, <2>2 DEF IsCall
    <3>2. ctl[Len(ctl)].saved.depth < Len(frames)
      BY <2>1, <3>1 DEF FramesInv, FramesCoverCalls
    <3>3. Top.saved.depth \in Nat
      BY <2>1, <2>2, FittingIs DEF Context
    <3> QED
      BY <2>2, <3>2, <3>3
  <2>4. Root(prog, Top.node) = Top.node
    <3>1. Len(ctl) # 1
      BY <2>1, <2>2 DEF Standing, Nested, Bottom, Outermost
    <3>2. Link(prog, ctl[Len(ctl) - 1], Top)
      <4>1. Len(ctl) - 1 \in 1 .. Len(ctl) - 1 /\ (Len(ctl) - 1) + 1 = Len(ctl)
        BY <2>2, <3>1, MoreThanOne
      <4> QED
        BY <2>2, <4>1 DEF Standing, Nested
    <3>3. prog.node[Top.node].up = 0
      BY <2>1, <3>2 DEF Link
    <3> QED
      BY <2>1, <2>2, <3>3, FittingIs, RootIs
  <2> QED
    BY <2>1, <2>3, <2>4 DEF OwnReturn
<1> QED
  BY <1>1, <1>2, <1>3, PTL DEF Spec

-----------------------------------------------------------------------------
(* The context of the interpreter.                                         *)

\* Where no exception leaves its call, the depth an activation has saved is the
\* number of calls below it.
LEMMA DepthIsCalls ==
  ASSUME FramesInv, Nested, Kept, ctl # <<>>
  PROVE  \A k \in 1 .. Len(ctl) :
           ctl[k].saved.depth = Cardinality({j \in 1 .. k - 1 : IsCall(j)})
<1> DEFINE C(k) == {j \in 1 .. k - 1 : IsCall(j)}
           T == {k \in 1 .. Len(ctl) : ctl[k].saved.depth = Cardinality(C(k))}
<1>0. Len(ctl) \in Nat \ {0}
  BY StackIs
<1>1. 1 \in T
  <2>1. C(1) = {}
    OBVIOUS
  <2> HIDE DEF C
  <2>2. Cardinality(C(1)) = 0
    BY <2>1, FS_EmptySet
  <2>3. ctl[1].saved.depth = 0 /\ 1 \in 1 .. Len(ctl)
    BY <1>0 DEF Kept
  <2> QED
    BY <2>2, <2>3
<1>2. ASSUME NEW k \in 1 .. Len(ctl) - 1, k \in T
      PROVE  k + 1 \in T
  <2>1. Link(prog, ctl[k], ctl[k + 1]) /\ TakesOver(ctl[k], ctl[k + 1])
    BY <1>2 DEF Nested, Kept
  <2>2. k \in Nat \ {0} /\ k + 1 \in 1 .. Len(ctl)
    BY <1>0
  <2>3. CASE IsCall(k)
    <3>1. ctl[k + 1].saved.depth = ctl[k].saved.depth + 1
      BY <2>1, <2>3 DEF Link, TakesOver, Callers, IsCall
    <3>2. C(k + 1) = C(k) \cup {k} /\ k \notin C(k)
      BY <2>2, <2>3
    <3>3. IsFiniteSet(C(k))
      <4>1. C(k) \subseteq 1 .. k
        BY <2>2
      <4>2. IsFiniteSet(1 .. k)
        BY <2>2, FS_Interval
      <4> HIDE DEF C
      <4> QED
        BY <4>1, <4>2, FS_Subset
    <3> HIDE DEF C
    <3>4. Cardinality(C(k + 1)) = Cardinality(C(k)) + 1
      BY <3>2, <3>3, FS_AddElement
    <3> QED
      BY <1>2, <2>2, <3>1, <3>4
  <2>4. CASE ~ IsCall(k)
    <3>1. ctl[k + 1].saved.depth = ctl[k].saved.depth
      BY <2>1, <2>4 DEF TakesOver, IsCall
    <3>2. C(k + 1) = C(k)
      BY <2>2, <2>4
    <3> HIDE DEF C
    <3> QED
      BY <1>2, <2>2, <3>1, <3>2
  <2> QED
    BY <2>3, <2>4
<1>3. \A k \in 1 .. Len(ctl) : k \in T
  <2> HIDE DEF T
  <2> QED
    BY <1>0, <1>1, <1>2, IntervalInduction
<1> QED
  BY <1>3

\* An overflow is only raised where a call finds the stack of frames full.
LEMMA OverflowAtLimit ==
  ASSUME Standing, [Next]_vars, overflow', ~ overflow
  PROVE  ctl # <<>> /\ Len(frames) >= MaxCallDepth /\ Top.at \notin {"call", "main"}
BY DEF vars, Next, Statement, Done, ExecSimple, ExecBreak, ExecContinue, ExecGoto, ExecLabel,
       ExecTry, LeaveTry, Compound, StartCompound, ExecCompound, NextStatement, Jump,
       LeaveCompound, Branch, EvalIf, ExecIf, EvalSwitch, SelectCase, ExecCase, AfterCase,
       Loop, StartWhile, StartFor, StartDoWhile, EvalCond, TestLoop, AfterBody, EvalPost,
       BreakLoop, ReturnFromLoop, CallReturn, EvalReturn, ExecReturn, LeaveCall, Run,
       RunStatement, NextTop, StartMain, EndRun, EndMain, Ended, Quiet, SetSignal, Exec,
       ExecBody, Eval, EnterCall, Catch, Unhandled, At, Is

LEMMA ActiveCallsAre ==
  ASSUME FramesInv, Nested, Kept, ctl # <<>>, Top.at \notin {"call", "main"}
  PROVE  Len(frames) = ActiveCalls
<1>1. Len(ctl) \in Nat \ {0} /\ DOMAIN ctl = 1 .. Len(ctl) /\ Top = ctl[Len(ctl)]
  BY StackIs
<1>2. Len(frames) = Top.saved.depth
  BY DEF Kept, Ctx
<1>3. Top.saved.depth = Cardinality({j \in 1 .. Len(ctl) - 1 : IsCall(j)})
  BY <1>1, DepthIsCalls
<1>4. {j \in 1 .. Len(ctl) - 1 : IsCall(j)} = {k \in DOMAIN ctl : IsCall(k)}
  BY <1>1 DEF IsCall
<1> QED
  BY <1>2, <1>3, <1>4 DEF ActiveCalls

\* A call that no exception ends gives back the frame stack, the function name and
\* the label table as they were, and the depth limit counts the active calls.
THEOREM ContextKeptHolds == Spec => ContextKeptWithoutCrossing
<1> DEFINE Restored == LocalThrows(prog) => StateRestored
           Full == LocalThrows(prog) /\ overflow' /\ ~overflow => ActiveCalls >= MaxCallDepth
<1>1. Init => Standing
  BY StandingInit
<1>2. Standing /\ [Next]_vars => Standing'
  BY StandingNext
<1>3. Standing => Restored
  BY DEF Standing, Kept, StateRestored
<1>4. Standing /\ [Next]_vars => Full
  <2> SUFFICES ASSUME Standing, [Next]_vars, LocalThrows(prog), overflow', ~overflow
               PROVE  ActiveCalls >= MaxCallDepth
    OBVIOUS
  <2>1. ctl # <<>> /\ Len(frames) >= MaxCallDepth /\ Top.at \notin {"call", "main"}
    BY OverflowAtLimit
  <2> QED
    BY <2>1, ActiveCallsAre DEF Standing
<1>5. Standing /\ [Next]_vars => [Full]_vars
  BY <1>4
<1>6. Spec => []Restored /\ [][Full]_vars
  <2> HIDE DEF Restored, Full
  <2> QED
    BY <1>1, <1>2, <1>3, <1>5, PTL DEF Spec
<1> QED
  BY <1>6 DEF ContextKeptWithoutCrossing

-----------------------------------------------------------------------------
(* How a statement that has come back lets the one around it come back.    *)

\* The label that a goto on its way is to reach.
Wanted(p, n, pend) == LabelEntry(p, Root(p, n), pend)

LEMMA CameIs ==
  ASSUME NEW p, NEW pend, NEW n, NEW pt, NEW s
  PROVE  Came(p, pend, n, pt, s) <=>
           /\ s = "None" => CF!After(p, n) \subseteq CF!Succ(p, pt)
           /\ s = "Return" => CF!Exit \in CF!Succ(p, pt)
           /\ s = "Continue" => /\ Enclosing(p, Loops, n) # 0
                                /\ Again(Enclosing(p, Loops, n)) \in CF!Succ(p, pt)
           /\ s = "Break" /\ pend = NoLabel =>
                /\ Enclosing(p, Loops \cup {"switch"}, n) # 0
                /\ CF!After(p, Enclosing(p, Loops \cup {"switch"}, n)) \subseteq CF!Succ(p, pt)
           /\ s = "Break" /\ pend # NoLabel =>
                /\ Wanted(p, n, pend) # 0 /\ Root(p, n) # p.top
                /\ Reaches(p, p.node[Wanted(p, n, pend)].up, n)
                /\ Enter(Wanted(p, n, pend)) \in CF!Succ(p, pt)
           /\ p.node[pt[1]].kind = "return" <=> s = "Return"
BY DEF Came, Wanted

LEMMA WantedIs ==
  ASSUME NEW p, WellFormed(p), NEW n \in DOMAIN p.node, NEW pend, Wanted(p, n, pend) # 0
  PROVE  LET m == Wanted(p, n, pend)
         IN  /\ m \in DOMAIN p.node /\ p.node[m].kind = "label" /\ p.node[m].name = pend
             /\ p.node[m].up \in DOMAIN p.node /\ p.node[m].up # 0 /\ Root(p, m) = Root(p, n)
             /\ p.node[p.node[m].up].kind = "compound"
BY RootIsBody, EntryIs DEF Wanted

LEMMA CameLifts ==
  ASSUME NEW p, WellFormed(p), NEW pend, NEW n \in DOMAIN p.node, NEW pt, NEW s,
         NEW u, u = p.node[n].up, u # 0, Came(p, pend, n, pt, s),
         \/ p.node[u].kind \in {"label", "if", "try"}
         \/ /\ p.node[u].kind = "compound"
            /\ s # "None" \/ Position(p, n) = Len(p.node[u].kids)
            /\ s = "Break" /\ pend # NoLabel => p.node[Wanted(p, n, pend)].up # u
         \/ p.node[u].kind = "switch" /\ s \in {"Return", "Continue"}
         \/ p.node[u].kind \in Loops /\ s = "Return"
  PROVE  Came(p, pend, u, pt, s)
<1>1. u \in DOMAIN p.node /\ p.node[u].kids \in Seq(Nat \ {0})
  BY TreeIs DEF Node
<1>2. ASSUME s = "None" PROVE CF!After(p, n) = CF!After(p, u)
  <2>1. CASE p.node[u].kind \in {"label", "if", "try"}
    BY <2>1, AfterIs DEF Loops
  <2>2. CASE p.node[u].kind = "compound" /\ Position(p, n) = Len(p.node[u].kids)
    <3>1. ~ (Position(p, n) < Len(p.node[u].kids)) /\ p.node[u].kind \notin Loops
      BY <1>1, <2>2 DEF Loops
    <3> QED
      BY <3>1, AfterIs
  <2> QED
    BY <1>2, <2>1, <2>2
<1>3. ASSUME s = "Continue" PROVE Enclosing(p, Loops, n) = Enclosing(p, Loops, u)
  BY <1>3, EnclosingIs DEF Loops
<1>4. ASSUME s = "Break"
      PROVE  Enclosing(p, Loops \cup {"switch"}, n) = Enclosing(p, Loops \cup {"switch"}, u)
  BY <1>4, EnclosingIs DEF Loops
<1>5. Root(p, u) = Root(p, n) /\ Wanted(p, u, pend) = Wanted(p, n, pend)
  BY RootIs DEF Wanted
<1>6. ASSUME s = "Break", pend # NoLabel
      PROVE  Reaches(p, p.node[Wanted(p, n, pend)].up, u)
  <2> DEFINE c == p.node[Wanted(p, n, pend)].up
  <2>1. Wanted(p, n, pend) # 0 /\ Reaches(p, c, n)
    BY <1>6, CameIs
  <2>2. c # u
    BY <1>6, <2>1, WantedIs
  <2>3. u \notin {0, c} /\ p.node[u].kind \notin Loops \cup {"switch"}
    BY <1>6, <2>2 DEF Loops
  <2> HIDE DEF c
  <2>4. Reaches(p, c, n) = Reaches(p, c, u)
    BY <2>3, ReachesIs
  <2> QED
    BY <2>1, <2>4 DEF c
<1>7. Came(p, pend, n, pt, s)
  OBVIOUS
<1> QED
  BY <1>2, <1>3, <1>4, <1>5, <1>6, <1>7, CameIs

\* A goto on its way does not come to a loop or to a switch.
LEMMA NoLabelAtLoop ==
  ASSUME NEW p, WellFormed(p), NEW pend, NEW n \in DOMAIN p.node, NEW pt,
         p.node[n].up # 0, p.node[p.node[n].up].kind \in Loops \cup {"switch"},
         Came(p, pend, n, pt, "Break")
  PROVE  pend = NoLabel
<1> SUFFICES ASSUME pend # NoLabel PROVE FALSE
  OBVIOUS
<1> DEFINE c == p.node[Wanted(p, n, pend)].up
<1>1. Wanted(p, n, pend) # 0 /\ Reaches(p, c, n)
  BY CameIs
<1>2. p.node[c].kind = "compound"
  BY <1>1, WantedIs
<1>3. c # p.node[n].up
  BY <1>2 DEF Loops
<1> HIDE DEF c
<1>4. Reaches(p, c, n) = (p.node[n].up = c)
  BY ReachesIs
<1> QED
  BY <1>1, <1>3, <1>4

\* A break that comes to a loop or to a switch was meant for it.
LEMMA BreakIsOurs ==
  ASSUME NEW p, WellFormed(p), NEW pend, NEW n \in DOMAIN p.node, NEW pt, NEW u,
         u = p.node[n].up, u # 0, p.node[u].kind \in Loops \cup {"switch"},
         Came(p, pend, n, pt, "Break")
  PROVE  pend = NoLabel /\ Came(p, pend, u, pt, "None")
<1>1. pend = NoLabel
  BY NoLabelAtLoop
<1>2. Enclosing(p, Loops \cup {"switch"}, n) = u
  BY EnclosingIs
<1>3. CF!After(p, u) \subseteq CF!Succ(p, pt) /\ p.node[pt[1]].kind # "return"
  BY <1>1, <1>2, CameIs
<1> QED
  BY <1>1, <1>3, CameIs

\* A body comes back completed or with a return.
LEMMA BodyCame ==
  ASSUME NEW p, WellFormed(p), NEW pend, NEW n \in DOMAIN p.node, NEW pt, p.node[n].up = 0,
         NEW s \in Signals, Came(p, pend, n, pt, s)
  PROVE  s \in {"None", "Return"} /\ CF!Exit \in CF!Succ(p, pt)
<1>1. \A K : Enclosing(p, K, n) = 0
  BY EnclosingIs
<1>2. s # "Continue" /\ ~ (s = "Break" /\ pend = NoLabel)
  BY <1>1, CameIs
<1>3. ~ (s = "Break" /\ pend # NoLabel)
  <2> SUFFICES ASSUME s = "Break", pend # NoLabel PROVE FALSE
    OBVIOUS
  <2> DEFINE c == p.node[Wanted(p, n, pend)].up
  <2>1. Wanted(p, n, pend) # 0 /\ Reaches(p, c, n)
    BY CameIs
  <2>2. c # 0
    BY <2>1, WantedIs
  <2> HIDE DEF c
  <2>3. Reaches(p, c, n) = (p.node[n].up = c)
    BY ReachesIs
  <2> QED
    BY <2>1, <2>2, <2>3
<1>4. s = "None" => CF!Exit \in CF!Succ(p, pt)
  <2>1. CF!After(p, n) = {CF!Exit}
    BY AfterIs
  <2> QED
    BY <2>1, CameIs
<1>5. s = "Return" => CF!Exit \in CF!Succ(p, pt)
  BY CameIs
<1> QED
  BY <1>2, <1>3, <1>4, <1>5 DEF Signals

\* The parts of Stands, by the point at which the activation stands.
LEMMA StandsIs ==
  ASSUME NEW p, NEW pend, NEW a, NEW pt, NEW s
  PROVE  Stands(p, pend, a, pt, s) <=>
           /\ pt[1] \in DOMAIN p.node /\ AtNode(pt, pt[1]) /\ Root(p, pt[1]) = Root(p, a.node)
           /\ a.at \in {"start", "select", "ret", "test", "cond", "step", "loop", "case", "top"}
                => s = "None" /\ pend = NoLabel
           /\ a.at = "start" => a.i = 1
           /\ a.at \in {"start", "select", "ret"} => pt = Enter(a.node)
           /\ a.at \in {"test", "cond"} =>
                AtNode(pt, a.node) /\ (p.node[a.node].kind = "dowhile" => pt = Again(a.node))
           /\ a.at = "step" => pt = Again(a.node)
           /\ a.at \in {"done", "call", "main"} => Came(p, pend, a.node, pt, s)
           /\ a.at \in {"try", "after"} => Came(p, pend, p.node[a.node].kids[1], pt, s)
           /\ a.at \in {"check", "caseCheck", "topCheck"} =>
                a.i \in DOMAIN p.node[a.node].kids /\ Came(p, pend, p.node[a.node].kids[a.i], pt, s)
           /\ a.at \in {"loop", "case", "top"} =>
                /\ p.node[pt[1]].kind # "return"
                /\ IF a.i <= Len(p.node[a.node].kids)
                   THEN Enter(p.node[a.node].kids[a.i]) \in CF!Succ(p, pt)
                   ELSE CF!After(p, a.node) \subseteq CF!Succ(p, pt)
BY DEF Stands

\* Where a statement has come back, the activation under it sees how.
LEMMA CameStands ==
  ASSUME NEW p, WellFormed(p), NEW pend, NEW a, a.node \in DOMAIN p.node,
         NEW n, Under(p, a, n), NEW pt, NEW s,
         pt[1] \in DOMAIN p.node, AtNode(pt, pt[1]), Root(p, pt[1]) = Root(p, n),
         Came(p, pend, n, pt, s)
  PROVE  Stands(p, pend, a, pt, s)
<1>1. Root(p, n) = Root(p, a.node) /\ n \in DOMAIN p.node
  BY UnderRoot
<1>2. CASE a.at \in {"call", "main"}
  <2>1. n = a.node
    BY <1>2 DEF Under
  <2> QED
    BY <1>1, <1>2, <2>1, StandsIs
<1>3. CASE a.at = "done"
  <2>1. p.node[n].up = a.node /\ p.node[a.node].kind \in {"label", "if", "try"}
    BY <1>3 DEF Under
  <2>2. a.node # 0
    BY TreeIs
  <2>3. Came(p, pend, a.node, pt, s)
    BY <1>1, <2>1, <2>2, CameLifts
  <2> QED
    BY <1>1, <1>3, <2>3, StandsIs
<1>4. CASE a.at \in {"try", "after"}
  <2>1. n = p.node[a.node].kids[1]
    BY <1>4 DEF Under
  <2> QED
    BY <1>1, <1>4, <2>1, StandsIs
<1>5. CASE a.at \in {"check", "caseCheck", "topCheck"}
  <2>1. a.i \in DOMAIN p.node[a.node].kids /\ n = p.node[a.node].kids[a.i]
    BY <1>5 DEF Under
  <2> QED
    BY <1>1, <1>5, <2>1, StandsIs
<1> QED
  BY <1>2, <1>3, <1>4, <1>5 DEF Under

-----------------------------------------------------------------------------
(* The history of the activations, and what a step does to it.             *)

Going == Standing /\ Safe(prog) /\ Flowing

Here == flow[Len(flow)]

\* A step of the program, or none.
Moves == (CF!Next \/ UNCHANGED flow) /\ prog' = prog

LEMMA GoingFacts ==
  ASSUME Going, ctl # <<>>
  PROVE  /\ FramesInv /\ WellFormed(prog) /\ Nested
         /\ Len(ctl) \in Nat \ {0} /\ Top \in Fitting /\ Top = ctl[Len(ctl)]
         /\ Top.node \in DOMAIN prog.node /\ Top.i \in Nat \ {0}
         /\ Kids \in Seq(Nat \ {0}) /\ Kids = prog.node[Top.node].kids
         /\ flow \in Seq(Nat \X {"enter", "again"}) /\ Len(flow) \in Nat \ {0} /\ flow # <<>>
         /\ Len(flow) = Calls(ctl, Len(ctl)) + 1
         /\ Stands(prog, pending, Top, Here, signal)
         /\ Here[1] \in DOMAIN prog.node /\ AtNode(Here, Here[1])
         /\ Root(prog, Here[1]) = Root(prog, Top.node)
         /\ CF!Here = Here /\ PendingInFlight /\ signal \in Signals
         /\ pending \in Labels \cup {NoLabel}
<1>1. FramesInv /\ Nested
  BY DEF Going, Standing
<1>2. /\ WellFormed(prog) /\ Len(ctl) \in Nat \ {0} /\ Top \in Fitting /\ Top = ctl[Len(ctl)]
      /\ Top.node \in DOMAIN prog.node /\ Top.i \in Nat \ {0}
      /\ Kids \in Seq(Nat \ {0}) /\ Kids = prog.node[Top.node].kids
  BY <1>1, StackIs, FittingIs DEF Kids
<1>3. /\ flow \in Seq(Nat \X {"enter", "again"})
      /\ Len(flow) = Calls(ctl, Len(ctl)) + 1
      /\ Stands(prog, pending, Top, Here, signal) /\ PendingInFlight
  BY DEF Going, Flowing, Here
<1>4. Len(flow) \in Nat \ {0} /\ flow # <<>>
  <2>1. Calls(ctl, Len(ctl)) \in Nat
    BY <1>2, CallsGrow
  <2>2. Len(flow) \in Nat \ {0}
    BY <1>3, <2>1
  <2> QED
    BY <2>2
<1>5. /\ Here[1] \in DOMAIN prog.node /\ AtNode(Here, Here[1])
      /\ Root(prog, Here[1]) = Root(prog, Top.node)
  BY <1>3, StandsIs
<1>6. CF!Here = Here
  BY DEF CF!Here, Here
<1>7. signal \in Signals /\ pending \in Labels \cup {NoLabel}
  BY <1>1 DEF FramesInv, TypeOK
<1> QED
  BY <1>1, <1>2, <1>3, <1>4, <1>5, <1>6, <1>7

LEMMA PointsOf ==
  ASSUME FramesInv, NEW n \in DOMAIN prog.node
  PROVE  Enter(n) \in Nat \X {"enter", "again"} /\ Again(n) \in Nat \X {"enter", "again"}
BY NodesAreNumbers DEF Enter, Again

\* The point at which an activation below the top waits is not the last.
LEMMA WaitsBelow ==
  ASSUME NEW s, NEW n \in Nat, NEW k \in 1 .. n - 1, s[k + 1].at = "call"
  PROVE  Calls(s, k) + 1 \in 1 .. Calls(s, n) /\ Calls(s, k) \in Nat /\ Calls(s, n) \in Nat
<1>1. k \in Nat /\ k + 1 \in Nat /\ k + 1 <= n
  OBVIOUS
<1>2. Calls(s, k) \in Nat /\ Calls(s, n) \in Nat /\ Calls(s, k + 1) = Calls(s, k) + 1
  BY <1>1, CallsGrow
<1>3. Calls(s, k + 1) <= Calls(s, n)
  BY <1>1, CallsMonotone
<1> QED
  BY <1>2, <1>3

\* The last point is another one, or not; the other activations stay.
Last == /\ flow' \in Seq(Nat \X {"enter", "again"}) /\ Len(flow') = Len(flow)
        /\ \A j \in 1 .. Len(flow) - 1 : flow'[j] = flow[j]

LEMMA LastIs ==
  ASSUME Going, ctl # <<>>
  PROVE  /\ UNCHANGED flow => Last /\ flow'[Len(flow')] = Here
         /\ \A n \in DOMAIN prog.node :
              /\ flow' = Reach(Enter(n)) => Last /\ flow'[Len(flow')] = Enter(n)
              /\ flow' = Reach(Again(n)) => Last /\ flow'[Len(flow')] = Again(n)
<1>1. flow \in Seq(Nat \X {"enter", "again"}) /\ flow # <<>> /\ FramesInv /\ Len(flow) \in Nat
  BY GoingFacts
<1>2. ASSUME NEW pt \in Nat \X {"enter", "again"}, flow' = Reach(pt)
      PROVE  Last /\ flow'[Len(flow')] = pt
  <2> DEFINE S == Nat \X {"enter", "again"}
  <2>1. flow \in Seq(S) /\ pt \in S /\ flow' = Append(SubSeq(flow, 1, Len(flow) - 1), pt)
    BY <1>1, <1>2 DEF Reach
  <2> HIDE DEF S
  <2>2. flow' \in Seq(S) /\ Len(flow') = Len(flow) /\ flow'[Len(flow)] = pt
        /\ \A j \in 1 .. Len(flow) - 1 : flow'[j] = flow[j]
    BY <1>1, <2>1, ReplaceTop
  <2> QED
    BY <2>2 DEF Last, S
<1>3. UNCHANGED flow => Last /\ flow'[Len(flow')] = Here
  BY <1>1 DEF Last, Here
<1> QED
  BY <1>1, <1>2, <1>3, PointsOf

LEMMA FlowGo ==
  ASSUME Going, ctl # <<>>, NEW next \in Fitting, Go(next), prog' = prog, Last,
         Top.at # "call", next.at # "call", PendingInFlight',
         pending' # NoLabel => HasGoto(prog),
         Stands(prog, pending', next, flow'[Len(flow')], signal')
  PROVE  Flowing'
<1>1. /\ Len(ctl) \in Nat \ {0} /\ ctl' # <<>> /\ Len(ctl') = Len(ctl) /\ Top' = next
      /\ ctl'[Len(ctl)] = next /\ \A k \in 1 .. Len(ctl) - 1 : ctl'[k] = ctl[k]
  BY GoShape DEF Going, Standing
<1>2. Top = ctl[Len(ctl)] /\ Len(flow) = Calls(ctl, Len(ctl)) + 1
  BY GoingFacts
<1>3. ASSUME NEW k \in Nat, k <= Len(ctl) PROVE Calls(ctl', k) = Calls(ctl, k)
  <2>1. \A j \in 1 .. k : (ctl'[j].at = "call") <=> (ctl[j].at = "call")
    <3> SUFFICES ASSUME NEW j \in 1 .. k PROVE (ctl'[j].at = "call") <=> (ctl[j].at = "call")
      OBVIOUS
    <3>1. j = Len(ctl) \/ j \in 1 .. Len(ctl) - 1
      BY <1>1, <1>3
    <3> QED
      BY <1>1, <1>2, <3>1
  <2> QED
    BY <2>1, CallsAgree
<1>4. Len(flow') = Calls(ctl', Len(ctl')) + 1
  BY <1>1, <1>2, <1>3 DEF Last
<1>5. ASSUME NEW k \in 1 .. Len(ctl') - 1, ctl'[k + 1].at = "call"
      PROVE  Waits(prog', ctl'[k], flow'[Calls(ctl', k) + 1])
  <2>1. k \in 1 .. Len(ctl) - 1 /\ k + 1 # Len(ctl) /\ k + 1 \in 1 .. Len(ctl) - 1
    BY <1>1, <1>5
  <2>2. ctl'[k] = ctl[k] /\ ctl[k + 1].at = "call" /\ Calls(ctl', k) = Calls(ctl, k)
    BY <1>1, <1>3, <1>5, <2>1
  <2>3. Calls(ctl, k) + 1 \in 1 .. Len(flow) - 1
    BY <1>1, <1>2, <2>1, <2>2, WaitsBelow
  <2>4. Waits(prog, ctl[k], flow[Calls(ctl, k) + 1])
    BY <2>1, <2>2 DEF Going, Flowing
  <2> QED
    BY <2>2, <2>3, <2>4 DEF Last
<1> QED
  BY <1>1, <1>4, <1>5 DEF Flowing, Last

LEMMA FlowPush ==
  ASSUME Going, ctl # <<>>, NEW next \in Fitting, NEW a \in Fitting, Push(next, a),
         prog' = prog, Last, Top.at # "call", next.at # "call", a.at # "call",
         PendingInFlight', pending' # NoLabel => HasGoto(prog),
         Stands(prog, pending', a, flow'[Len(flow')], signal')
  PROVE  Flowing'
<1>1. /\ Len(ctl) \in Nat \ {0} /\ ctl' # <<>> /\ Len(ctl') = Len(ctl) + 1 /\ Top' = a
      /\ ctl'[Len(ctl) + 1] = a /\ ctl'[Len(ctl)] = next
      /\ \A k \in 1 .. Len(ctl) - 1 : ctl'[k] = ctl[k]
  BY PushShape DEF Going, Standing
<1>2. Top = ctl[Len(ctl)] /\ Len(flow) = Calls(ctl, Len(ctl)) + 1
  BY GoingFacts
<1>3. ASSUME NEW k \in Nat, k <= Len(ctl) PROVE Calls(ctl', k) = Calls(ctl, k)
  <2>1. \A j \in 1 .. k : (ctl'[j].at = "call") <=> (ctl[j].at = "call")
    <3> SUFFICES ASSUME NEW j \in 1 .. k PROVE (ctl'[j].at = "call") <=> (ctl[j].at = "call")
      OBVIOUS
    <3>1. j = Len(ctl) \/ j \in 1 .. Len(ctl) - 1
      BY <1>1, <1>3
    <3> QED
      BY <1>1, <1>2, <3>1
  <2> QED
    BY <2>1, CallsAgree
<1>4. Len(flow') = Calls(ctl', Len(ctl')) + 1
  <2>1. Calls(ctl', Len(ctl) + 1) = Calls(ctl', Len(ctl)) /\ Calls(ctl', Len(ctl)) \in Nat
    <3>1. Len(ctl) \in Nat /\ ctl'[Len(ctl) + 1].at # "call"
      BY <1>1
    <3>2. /\ Calls(ctl', Len(ctl)) \in Nat
          /\ Calls(ctl', Len(ctl) + 1)
               = Calls(ctl', Len(ctl)) + IF ctl'[Len(ctl) + 1].at = "call" THEN 1 ELSE 0
      BY <3>1, CallsGrow
    <3> QED
      BY <3>1, <3>2
  <2> QED
    BY <1>1, <1>2, <1>3, <2>1 DEF Last
<1>5. ASSUME NEW k \in 1 .. Len(ctl') - 1, ctl'[k + 1].at = "call"
      PROVE  Waits(prog', ctl'[k], flow'[Calls(ctl', k) + 1])
  <2>1. k \in 1 .. Len(ctl) - 1 /\ k + 1 # Len(ctl) /\ k + 1 \in 1 .. Len(ctl) - 1
    BY <1>1, <1>5
  <2>2. ctl'[k] = ctl[k] /\ ctl[k + 1].at = "call" /\ Calls(ctl', k) = Calls(ctl, k)
    BY <1>1, <1>3, <1>5, <2>1
  <2>3. Calls(ctl, k) + 1 \in 1 .. Len(flow) - 1
    BY <1>1, <1>2, <2>1, <2>2, WaitsBelow
  <2>4. Waits(prog, ctl[k], flow[Calls(ctl, k) + 1])
    BY <2>1, <2>2 DEF Going, Flowing
  <2> QED
    BY <2>2, <2>3, <2>4 DEF Last
<1> QED
  BY <1>1, <1>4, <1>5 DEF Flowing, Last

\* The top activation comes back, and the statement under it with it.
LEMMA FlowPop ==
  ASSUME Going, ctl # <<>>, Pop, Stays, UNCHANGED flow, Top.at \notin Outermost \cup {"call"},
         PendingInFlight', pending' # NoLabel => HasGoto(prog),
         Came(prog, pending', Top.node, Here, signal')
  PROVE  Flowing'
<1>1. /\ Len(ctl) \in Nat /\ Len(ctl) > 1 /\ ctl' # <<>> /\ Len(ctl') = Len(ctl) - 1
      /\ Top' = ctl[Len(ctl) - 1] /\ \A k \in 1 .. Len(ctl) - 1 : ctl'[k] = ctl[k]
      /\ Top' \in Fitting /\ Under(prog, Top', Top.node)
  BY PopStands DEF Going
<1>2. Top = ctl[Len(ctl)] /\ Len(flow) = Calls(ctl, Len(ctl)) + 1 /\ WellFormed(prog)
      /\ Here[1] \in DOMAIN prog.node /\ AtNode(Here, Here[1])
      /\ Root(prog, Here[1]) = Root(prog, Top.node)
      /\ flow \in Seq(Nat \X {"enter", "again"})
  BY GoingFacts
<1>3. ASSUME NEW k \in Nat, k <= Len(ctl) - 1 PROVE Calls(ctl', k) = Calls(ctl, k)
  <2>1. \A j \in 1 .. k : (ctl'[j].at = "call") <=> (ctl[j].at = "call")
    BY <1>1, <1>3
  <2> QED
    BY <2>1, CallsAgree
<1>4. Len(flow') = Calls(ctl', Len(ctl')) + 1
  <2>1. Calls(ctl, Len(ctl)) = Calls(ctl, Len(ctl) - 1)
    <3>1. Len(ctl) - 1 \in Nat /\ (Len(ctl) - 1) + 1 = Len(ctl)
      BY <1>1
    <3>2. Calls(ctl, Len(ctl) - 1) \in Nat
          /\ Calls(ctl, (Len(ctl) - 1) + 1)
               = Calls(ctl, Len(ctl) - 1) + IF ctl[(Len(ctl) - 1) + 1].at = "call" THEN 1 ELSE 0
      BY <3>1, CallsGrow
    <3> QED
      BY <1>2, <3>1, <3>2
  <2> QED
    BY <1>1, <1>2, <1>3, <2>1
<1>5. Stands(prog, pending', Top', Here, signal')
  <2>1. Top'.node \in DOMAIN prog.node
    BY <1>1 DEF Fitting
  <2> QED
    BY <1>1, <1>2, <2>1, CameStands
<1>6. ASSUME NEW k \in 1 .. Len(ctl') - 1, ctl'[k + 1].at = "call"
      PROVE  Waits(prog', ctl'[k], flow'[Calls(ctl', k) + 1])
  <2>1. k \in 1 .. Len(ctl) - 1 /\ k + 1 \in 1 .. Len(ctl) - 1 /\ k \in Nat /\ k <= Len(ctl) - 1
    BY <1>1
  <2>2. ctl'[k] = ctl[k] /\ ctl[k + 1].at = "call" /\ Calls(ctl', k) = Calls(ctl, k)
    BY <1>1, <1>3, <1>6, <2>1
  <2> QED
    BY <2>1, <2>2 DEF Going, Flowing, Stays
<1> QED
  BY <1>1, <1>2, <1>4, <1>5, <1>6 DEF Flowing, Stays, Here

\* All activations have ended.
LEMMA FlowEnds ==
  ASSUME Going, ctl' = <<>>, flow' = <<>>, UNCHANGED pending,
         pending = NoLabel
  PROVE  Flowing'
<1>1. Len(ctl') = 0 /\ flow' \in Seq(Nat \X {"enter", "again"})
  OBVIOUS
<1> QED
  BY <1>1 DEF Flowing, PendingInFlight

LEMMA StepMoves ==
  ASSUME Going, ctl # <<>>, NEW n \in DOMAIN prog.node, NEW pt \in {Enter(n), Again(n)},
         pt \in CF!Succ(prog, Here), flow' = Reach(pt), prog' = prog
  PROVE  Moves
<1>1. CF!Here = Here /\ flow # <<>>
  BY GoingFacts
<1>2. pt # CF!Exit
  BY PointsAre
<1>3. flow' = Append(CF!Below, pt)
  BY DEF Reach, CF!Below
<1>4. CF!Step
  BY <1>1, <1>2, <1>3 DEF CF!Step
<1> QED
  BY <1>4 DEF Moves, CF!Next

\* The invariant and the abstract step.
Advances == Flowing' /\ Moves

\* Nothing but the stack of activations changes.
LEMMA GoAdvances ==
  ASSUME Going, ctl # <<>>, NEW next \in Fitting, Go(next), Onward(next), prog' = prog,
         UNCHANGED flow, next.at # "call", Top.at # "call", PendingInFlight',
         pending' # NoLabel => HasGoto(prog),
         Stands(prog, pending', next, Here, signal')
  PROVE  Advances
<1>1. Last /\ flow'[Len(flow')] = Here
  BY LastIs
<1> QED
  BY <1>1, FlowGo DEF Advances, Moves

LEMMA PopAdvances ==
  ASSUME Going, ctl # <<>>, Pop, Stays, UNCHANGED flow, Top.at \notin Outermost \cup {"call"},
         PendingInFlight', pending' # NoLabel => HasGoto(prog),
         Came(prog, pending', Top.node, Here, signal')
  PROVE  Advances
BY FlowPop DEF Advances, Moves, Stays

\* The signals and the goto on its way stay as they are.
LEMMA KeptSignals ==
  ASSUME Going, UNCHANGED <<signal, pending>>
  PROVE  PendingInFlight' /\ (pending' # NoLabel => HasGoto(prog))
BY DEF Going, Flowing, PendingInFlight

\* Statement n begins.
LEMMA BeginAdvances ==
  ASSUME Going, ctl # <<>>, NEW next \in Fitting, NEW n, Under(prog, next, n), Onward(next),
         signal = "None", Exec(n, next) \/ ExecBody(n, next),
         Enter(n) \in CF!Succ(prog, Here), Top.at # "call", next.at # "call"
  PROVE  Advances
<1> DEFINE a == Active("start", n)
<1>1. /\ Push(next, a) /\ flow' = Reach(Enter(n))
      /\ UNCHANGED <<prog, frames, signal, pending, labels, curFunc, overflow>>
  BY DEF Exec, ExecBody
<1>2. n \in DOMAIN prog.node /\ FramesInv /\ PendingInFlight /\ WellFormed(prog)
  BY GoingFacts DEF Under
<1>3. a \in Fitting /\ a.at = "start" /\ a.node = n /\ a.i = 1
  BY <1>2, ActiveFits DEF Active
<1>4. pending = NoLabel
  BY <1>2 DEF PendingInFlight
<1>5. Stands(prog, pending, a, Enter(n), "None")
  BY <1>2, <1>3, <1>4, StandsIs, PointsAre DEF AtNode
<1> HIDE DEF a
<1>6. Last /\ flow'[Len(flow')] = Enter(n)
  BY <1>1, <1>2, LastIs
<1>7. Flowing'
  BY <1>1, <1>3, <1>4, <1>5, <1>6, FlowPush DEF PendingInFlight
<1>8. Moves
  BY <1>1, <1>2, StepMoves
<1> QED
  BY <1>7, <1>8 DEF Advances

-----------------------------------------------------------------------------
(* The actions that evaluate nothing.                                      *)

LEMMA BareStatementFlows ==
  ASSUME Going, Statement, ~ ExecSimple
  PROVE  Advances
<1>0. ctl # <<>>
  BY DEF Statement, Done, ExecSimple, ExecBreak, ExecContinue, ExecGoto, ExecLabel,
         ExecTry, LeaveTry, At, Is
<1> DEFINE n == Top.node
           kind == prog.node[n].kind
<1>1. /\ FramesInv /\ WellFormed(prog) /\ n \in DOMAIN prog.node /\ n # 0
      /\ Kids \in Seq(Nat \ {0}) /\ Kids = prog.node[n].kids /\ Top.i \in Nat \ {0}
      /\ Stands(prog, pending, Top, Here, signal)
      /\ PendingInFlight /\ signal \in Signals /\ pending \in Labels \cup {NoLabel}
      /\ Here[1] \in DOMAIN prog.node /\ AtNode(Here, Here[1])
      /\ Root(prog, Here[1]) = Root(prog, n)
  BY <1>0, GoingFacts, FittingIs
<1>2. Top.at = "start" => Here = Enter(n) /\ signal = "None" /\ pending = NoLabel
  BY <1>1, StandsIs
<1>3. Top.at = "start" => AtNode(Here, n) /\ Here[1] = n
  BY <1>2, PointsAre DEF AtNode
<1>4. CASE Done
  <2>1. Top.at = "done" /\ Pop /\ Stays /\ UNCHANGED <<flow, signal, pending>>
    BY <1>4 DEF Done, At, Quiet, Stays
  <2>2. Came(prog, pending, n, Here, signal)
    BY <1>1, <2>1, StandsIs
  <2> QED
    BY <1>0, <2>1, <2>2, KeptSignals, PopAdvances DEF Outermost
<1>5. CASE LeaveTry
  <2>1. Top.at = "try" /\ Pop /\ Stays /\ UNCHANGED <<flow, signal, pending>>
    BY <1>5 DEF LeaveTry, At, Quiet, Stays
  <2>2. kind = "try"
    BY <1>0, <2>1, GoingFacts DEF Fitting, StandsAt, Loops
  <2>3. Came(prog, pending, Kids[1], Here, signal)
    BY <1>1, <2>1, StandsIs
  <2>4. 1 \in DOMAIN Kids
    <3>1. Len(Kids) = 2
      BY <1>1, <2>2 DEF WellFormed
    <3> QED
      BY <1>1, <3>1
  <2>5. Kids[1] \in DOMAIN prog.node /\ prog.node[Kids[1]].up = n
    BY <1>1, <2>4, KidsAre
  <2>6. Came(prog, pending, n, Here, signal)
    BY <1>1, <2>2, <2>3, <2>5, CameLifts
  <2> QED
    BY <1>0, <2>1, <2>6, KeptSignals, PopAdvances DEF Outermost
<1>6. CASE ExecBreak \/ ExecContinue \/ ExecGoto
  <2>1. Top.at = "start" /\ Pop /\ Stays /\ UNCHANGED flow
    BY <1>6 DEF ExecBreak, ExecContinue, ExecGoto, SetSignal, Is, Stays
  <2>2. CLegal(prog) /\ GotoSafe(prog)
    BY DEF Going, Safe
  <2>3. CASE ExecBreak
    <3>1. kind = "break" /\ signal' = "Break" /\ pending' = NoLabel
      BY <1>2, <2>1, <2>3 DEF ExecBreak, SetSignal, Is
    <3>2. Enclosing(prog, Loops \cup {"switch"}, n) # 0
      BY <1>1, <2>2, <3>1 DEF CLegal
    <3>3. Came(prog, NoLabel, n, Here, "Break")
      BY <1>3, <2>1, <3>1, <3>2, SuccIs, CameIs
    <3> QED
      BY <1>0, <2>1, <3>1, <3>3, PopAdvances DEF Outermost, PendingInFlight
  <2>4. CASE ExecContinue
    <3>1. kind = "continue" /\ signal' = "Continue" /\ pending' = NoLabel
      BY <1>2, <2>1, <2>4 DEF ExecContinue, SetSignal, Is
    <3>2. Enclosing(prog, Loops, n) # 0
      BY <1>1, <2>2, <3>1 DEF CLegal
    <3>3. Came(prog, NoLabel, n, Here, "Continue")
      BY <1>3, <2>1, <3>1, <3>2, SuccIs, CameIs
    <3> QED
      BY <1>0, <2>1, <3>1, <3>3, PopAdvances DEF Outermost, PendingInFlight
  <2>5. CASE ExecGoto
    <3>1. kind = "goto" /\ signal' = "Break" /\ pending' = prog.node[n].name
      BY <2>1, <2>5 DEF ExecGoto, SetSignal, Is
    <3>2. HasGoto(prog)
      BY <1>1, <3>1 DEF HasGoto
    <3>3. prog.node[n].name \in Labels
      BY <1>1, <3>1 DEF WellFormed
    <3>4. pending' # NoLabel
      BY <3>1, <3>3, LabelsAssumption
    <3>5. /\ Wanted(prog, n, pending') # 0 /\ Root(prog, n) # prog.top
          /\ Reaches(prog, prog.node[Wanted(prog, n, pending')].up, n)
      BY <1>1, <2>2, <3>1 DEF GotoSafe, Wanted
    <3>6. Enter(Wanted(prog, n, pending')) \in CF!Succ(prog, Here)
      BY <1>1, <1>3, <2>1, <3>1, <3>5, WantedIs, SuccIs
    <3>7. Came(prog, pending', n, Here, "Break")
      BY <1>3, <2>1, <3>1, <3>4, <3>5, <3>6, CameIs
    <3> QED
      BY <1>0, <2>1, <3>1, <3>2, <3>7, PopAdvances DEF Outermost, PendingInFlight
  <2> QED
    BY <1>6, <2>3, <2>4, <2>5
<1>7. CASE ExecLabel
  <2>1. Top.at = "start" /\ kind = "label"
    BY <1>7 DEF ExecLabel, Is
  <2>2. /\ Resume("done") \in Fitting /\ Onward(Resume("done")) /\ Resume("done").at = "done"
        /\ Resume("done").node = Top.node
    BY <1>0, <1>1, <2>1, ResumeOnward DEF StandsAt, Points, Outermost
  <2>3. CASE Kids = <<>> /\ Go(Resume("done")) /\ Quiet
    <3>1. CF!After(prog, n) \subseteq CF!Succ(prog, Here)
      <4>1. CF!Succ(prog, Here) = IF prog.node[n].kids = <<>> THEN CF!After(prog, n)
                                 ELSE {Enter(prog.node[n].kids[1])}
        BY <1>3, <2>1, SuccIs
      <4>2. prog.node[n].kids = <<>>
        BY <1>1, <2>3
      <4> QED
        BY <4>1, <4>2
    <3>2. Came(prog, pending, n, Here, "None")
      BY <1>3, <2>1, <3>1, CameIs
    <3>3. Stands(prog, pending, Resume("done"), Here, signal)
      BY <1>1, <1>2, <2>1, <2>2, <3>2, StandsIs
    <3> QED
      BY <1>0, <2>1, <2>2, <2>3, <3>3, KeptSignals, GoAdvances DEF Quiet
  <2>4. CASE Kids # <<>> /\ Exec(Kids[1], Resume("done"))
    <3>1. 1 \in DOMAIN Kids
      BY <1>1, <2>4
    <3>2. Under(prog, Resume("done"), Kids[1])
      BY <1>0, <1>1, <2>1, <2>2, <3>1, KidUnder DEF Under
    <3>3. Enter(Kids[1]) \in CF!Succ(prog, Here)
      BY <1>1, <1>3, <2>1, <2>4, SuccIs
    <3> QED
      BY <1>0, <1>2, <2>1, <2>2, <2>4, <3>2, <3>3, BeginAdvances
  <2> QED
    BY <1>7, <2>3, <2>4 DEF ExecLabel
<1>8. CASE ExecTry
  <2>1. Top.at = "start" /\ kind = "try" /\ ExecBody(Kids[1], Resume("try"))
    BY <1>8 DEF ExecTry, Is
  <2>2. /\ Resume("try") \in Fitting /\ Onward(Resume("try")) /\ Resume("try").at = "try"
        /\ Resume("try").node = Top.node
    BY <1>0, <1>1, <2>1, ResumeOnward DEF StandsAt, Points, Outermost
  <2>3. 1 \in DOMAIN Kids /\ Kids # <<>>
    <3>1. Len(Kids) = 2
      BY <1>1, <2>1 DEF WellFormed
    <3>2. 1 \in DOMAIN Kids
      BY <1>1, <3>1
    <3>3. Kids # <<>>
      BY <3>1
    <3> QED
      BY <3>2, <3>3
  <2>4. Under(prog, Resume("try"), Kids[1])
    BY <1>0, <1>1, <2>1, <2>2, <2>3, KidUnder DEF Under
  <2>5. Enter(Kids[1]) \in CF!Succ(prog, Here)
    BY <1>1, <1>3, <2>1, <2>3, SuccIs
  <2> QED
    BY <1>0, <1>2, <2>1, <2>2, <2>4, <2>5, BeginAdvances
<1> QED
  BY <1>4, <1>5, <1>6, <1>7, <1>8 DEF Statement

\* Where no exception leaves its call, the label table is that of the body that
\* runs, but for the statements outside every function, which have none.
LEMMA LabelsAreOwn ==
  ASSUME FramesInv, Nested, Kept, ctl # <<>>, Top.at \notin {"call", "main"}
  PROVE  labels = Root(prog, Top.node) \/ Root(prog, Top.node) = prog.top
<1> DEFINE R(k) == IF ctl[k].at \in {"call", "main"} THEN prog.node[ctl[k].node].up = 0
                   ELSE \/ ctl[k].saved.labels = Root(prog, ctl[k].node)
                        \/ Root(prog, ctl[k].node) = prog.top
           T == {k \in 1 .. Len(ctl) : R(k)}
<1>0. /\ Len(ctl) \in Nat \ {0} /\ WellFormed(prog) /\ Top = ctl[Len(ctl)]
      /\ \A k \in 1 .. Len(ctl) : ctl[k] \in Fitting /\ ctl[k].node \in DOMAIN prog.node
                                  /\ ctl[k].node # 0
  BY StackIs, FittingIs
<1>1. 1 \in T
  <2>1. 1 \in 1 .. Len(ctl)
    BY <1>0
  <2>2. Bottom(prog, ctl[1])
    BY DEF Nested
  <2>3. prog.node[ctl[1].node].up = 0
    BY <1>0, <2>1, <2>2, BodiesAreRoots DEF Bottom
  <2>4. ctl[1].at # "main" => Root(prog, ctl[1].node) = prog.top
    BY <1>0, <2>1, <2>2, <2>3, RootIs DEF Bottom
  <2>5. ctl[1].at # "call"
    BY <2>2 DEF Bottom, Outermost
  <2> QED
    BY <2>1, <2>3, <2>4, <2>5
<1>2. ASSUME NEW k \in 1 .. Len(ctl) - 1, k \in T
      PROVE  k + 1 \in T
  <2>0. k \in 1 .. Len(ctl) /\ k + 1 \in 1 .. Len(ctl)
    BY <1>0
  <2>1. Link(prog, ctl[k], ctl[k + 1]) /\ TakesOver(ctl[k], ctl[k + 1]) /\ R(k)
    BY <1>2 DEF Nested, Kept
  <2>2. CASE ctl[k + 1].at = "call"
    BY <2>0, <2>1, <2>2 DEF Link
  <2>3. CASE ctl[k + 1].at # "call" /\ ctl[k].at \in {"call", "main"}
    <3>1. ctl[k + 1].node = ctl[k].node /\ ctl[k + 1].at # "main"
      BY <2>1, <2>3 DEF Link, Under, Outermost
    <3>2. ctl[k + 1].saved.labels = ctl[k + 1].node
      BY <2>1, <2>3 DEF TakesOver
    <3>3. Root(prog, ctl[k + 1].node) = ctl[k + 1].node
      BY <1>0, <2>0, <2>1, <2>3, <3>1, RootIs
    <3> QED
      BY <2>0, <2>3, <3>1, <3>2, <3>3
  <2>4. CASE ctl[k + 1].at # "call" /\ ctl[k].at \notin {"call", "main"}
    <3>1. Under(prog, ctl[k], ctl[k + 1].node) /\ ctl[k + 1].at # "main"
      BY <2>1, <2>4 DEF Link, Outermost
    <3>2. Root(prog, ctl[k + 1].node) = Root(prog, ctl[k].node)
      BY <1>0, <2>0, <3>1, UnderRoot
    <3>3. ctl[k + 1].saved = ctl[k].saved
      BY <2>1, <2>4 DEF TakesOver
    <3> QED
      BY <2>0, <2>1, <2>4, <3>1, <3>2, <3>3
  <2> QED
    BY <2>2, <2>3, <2>4
<1>3. \A k \in 1 .. Len(ctl) : k \in T
  <2> HIDE DEF T
  <2> QED
    BY <1>0, <1>1, <1>2, IntervalInduction
<1>4. R(Len(ctl))
  <2>1. Len(ctl) \in 1 .. Len(ctl)
    BY <1>0
  <2> QED
    BY <1>3, <2>1
<1>5. labels = Top.saved.labels
  BY DEF Kept, Ctx
<1> QED
  BY <1>0, <1>4, <1>5

\* A list of statements goes on behind its i-th statement.
LEMMA NextInList ==
  ASSUME NEW p, WellFormed(p), NEW u \in DOMAIN p.node, NEW i \in DOMAIN p.node[u].kids,
         p.node[u].kind \in {"compound", "switch"}, NEW pt, NEW pend,
         Came(p, pend, p.node[u].kids[i], pt, "None")
  PROVE  /\ p.node[pt[1]].kind # "return"
         /\ IF i + 1 <= Len(p.node[u].kids)
            THEN Enter(p.node[u].kids[i + 1]) \in CF!Succ(p, pt)
            ELSE CF!After(p, u) \subseteq CF!Succ(p, pt)
<1> DEFINE n == p.node[u].kids[i]
<1>1. /\ n \in DOMAIN p.node /\ p.node[n].up = u /\ Position(p, n) = i /\ u # 0
      /\ i \in Nat \ {0} /\ i <= Len(p.node[u].kids)
  BY KidsAre
<1>2. CF!After(p, n) \subseteq CF!Succ(p, pt) /\ p.node[pt[1]].kind # "return"
  BY CameIs
<1> HIDE DEF n
<1>3. p.node[u].kind \notin Loops /\ Len(p.node[u].kids) \in Nat
  <2>1. p.node[u].kids \in Seq(Nat \ {0})
    BY TreeIs DEF Node
  <2> QED
    BY <2>1 DEF Loops
<1>4. CASE i + 1 <= Len(p.node[u].kids)
  <2>1. CF!After(p, n) = {Enter(p.node[u].kids[i + 1])}
    <3>1. i < Len(p.node[u].kids)
      BY <1>1, <1>3, <1>4
    <3> QED
      BY <1>1, <1>3, <3>1, AfterIs
  <2> QED
    BY <1>2, <1>4, <2>1
<1>5. CASE ~ (i + 1 <= Len(p.node[u].kids))
  <2>1. CF!After(p, n) = CF!After(p, u)
    <3>1. ~ (i < Len(p.node[u].kids))
      BY <1>1, <1>3, <1>5
    <3> QED
      BY <1>1, <1>3, <3>1, AfterIs
  <2> QED
    BY <1>2, <1>5, <2>1
<1> QED
  BY <1>4, <1>5

LEMMA CompoundFlows ==
  ASSUME Going, Compound
  PROVE  Advances
<1>0. ctl # <<>>
  BY DEF Compound, StartCompound, ExecCompound, NextStatement, Jump, LeaveCompound, At, Is
<1> DEFINE n == Top.node
           kind == prog.node[n].kind
<1>1. /\ FramesInv /\ WellFormed(prog) /\ n \in DOMAIN prog.node /\ n # 0
      /\ Kids \in Seq(Nat \ {0}) /\ Kids = prog.node[n].kids /\ Top.i \in Nat \ {0}
      /\ Stands(prog, pending, Top, Here, signal) /\ Top \in Fitting
      /\ PendingInFlight /\ signal \in Signals /\ pending \in Labels \cup {NoLabel}
      /\ Here[1] \in DOMAIN prog.node /\ AtNode(Here, Here[1])
      /\ Root(prog, Here[1]) = Root(prog, n)
  BY <1>0, GoingFacts, FittingIs
<1>2. Top.at \in {"start", "loop", "check"} /\ prog.node[Top.node].kind = "compound"
  BY <1>1 DEF Compound, StartCompound, ExecCompound, NextStatement, Jump, LeaveCompound, At, Is,
              Fitting, StandsAt, Loops
<1>3. \A at \in {"loop", "check"}, i \in Nat \ {0} :
        /\ Resume(at) \in Fitting /\ Onward(Resume(at)) /\ Resume(at).at = at
        /\ Resume(at).node = Top.node /\ Resume(at).i = Top.i
        /\ ResumeAt(at, i) \in Fitting /\ Onward(ResumeAt(at, i))
        /\ ResumeAt(at, i).at = at /\ ResumeAt(at, i).node = Top.node /\ ResumeAt(at, i).i = i
  BY <1>0, <1>1, <1>2, ResumeOnward DEF StandsAt, Points, Outermost
<1>4. Top.at \in {"start", "loop"} => signal = "None" /\ pending = NoLabel
  BY <1>1, StandsIs
<1>5. ASSUME NEW next \in Fitting, Onward(next), next.at = "loop", next.node = n,
             Go(next), UNCHANGED <<prog, flow>>, signal' = "None", pending' = NoLabel,
             prog.node[Here[1]].kind # "return",
             IF next.i <= Len(Kids) THEN Enter(Kids[next.i]) \in CF!Succ(prog, Here)
             ELSE CF!After(prog, n) \subseteq CF!Succ(prog, Here)
      PROVE  Advances
  <2>1. Stands(prog, pending', next, Here, signal')
    BY <1>1, <1>5, StandsIs
  <2> QED
    BY <1>0, <1>2, <1>5, <2>1, GoAdvances DEF PendingInFlight
<1>6. CASE StartCompound
  <2>1. Top.at = "start" /\ Go(Resume("loop")) /\ UNCHANGED <<prog, flow, signal, pending>>
    BY <1>6 DEF StartCompound, Is, Quiet
  <2>2. Here = Enter(n) /\ Top.i = 1
    BY <1>1, <2>1, StandsIs
  <2>3. AtNode(Here, n) /\ Here[1] = n
    BY <2>2, PointsAre DEF AtNode
  <2>4. CF!Succ(prog, Here) = IF prog.node[n].kids = <<>> THEN CF!After(prog, n)
                              ELSE {Enter(prog.node[n].kids[1])}
    BY <1>2, <2>3, SuccIs
  <2>5. IF 1 <= Len(Kids) THEN Enter(Kids[1]) \in CF!Succ(prog, Here)
        ELSE CF!After(prog, n) \subseteq CF!Succ(prog, Here)
    BY <1>1, <2>4
  <2> QED
    BY <1>2, <1>3, <1>4, <1>5, <2>1, <2>2, <2>3, <2>5
<1>7. CASE ExecCompound
  <2>1. Top.at = "loop"
    BY <1>7 DEF ExecCompound, At
  <2>2. CASE Top.i > Len(Kids) /\ Pop /\ Quiet
    <3>1. CF!After(prog, n) \subseteq CF!Succ(prog, Here) /\ prog.node[Here[1]].kind # "return"
      <4>1. ~ (Top.i <= Len(Kids))
        BY <1>1, <2>2
      <4> QED
        BY <1>1, <2>1, <4>1, StandsIs
    <3>2. Came(prog, pending, n, Here, "None")
      BY <3>1, CameIs
    <3>3. Stays /\ UNCHANGED <<flow, signal, pending>>
      BY <2>2 DEF Quiet, Stays
    <3> QED
      BY <1>0, <1>4, <2>1, <2>2, <3>2, <3>3, KeptSignals, PopAdvances DEF Outermost
  <2>3. CASE Top.i <= Len(Kids) /\ Exec(Kids[Top.i], Resume("check"))
    <3>1. Top.i \in DOMAIN Kids
      BY <1>1, <2>3
    <3>2. Under(prog, Resume("check"), Kids[Top.i])
      BY <1>0, <1>1, <1>3, <3>1, KidUnder DEF Under
    <3>3. Enter(Kids[Top.i]) \in CF!Succ(prog, Here)
      BY <1>1, <2>1, <2>3, StandsIs
    <3> QED
      BY <1>0, <1>3, <1>4, <2>1, <2>3, <3>2, <3>3, BeginAdvances
  <2> QED
    BY <1>1, <1>7, <2>2, <2>3 DEF ExecCompound
<1>8. ASSUME Top.at = "check"
      PROVE  /\ Top.i \in DOMAIN Kids /\ Kids[Top.i] \in DOMAIN prog.node
             /\ prog.node[Kids[Top.i]].up = n /\ Root(prog, Kids[Top.i]) = Root(prog, n)
             /\ Came(prog, pending, Kids[Top.i], Here, signal)
  <2>1. Top.i \in DOMAIN Kids /\ Came(prog, pending, Kids[Top.i], Here, signal)
    BY <1>1, <1>8, StandsIs
  <2> QED
    BY <1>1, <2>1, KidsAre, RootIs
<1>9. CASE NextStatement
  <2>1. Top.at = "check" /\ signal = "None" /\ Go(ResumeAt("loop", Top.i + 1))
        /\ UNCHANGED <<prog, flow, signal, pending>>
    BY <1>9 DEF NextStatement, At, Quiet
  <2>2. pending = NoLabel /\ Top.i + 1 \in Nat \ {0}
    BY <1>1, <2>1 DEF PendingInFlight
  <2>3. /\ prog.node[Here[1]].kind # "return"
        /\ IF Top.i + 1 <= Len(Kids) THEN Enter(Kids[Top.i + 1]) \in CF!Succ(prog, Here)
           ELSE CF!After(prog, n) \subseteq CF!Succ(prog, Here)
    BY <1>1, <1>2, <1>8, <2>1, NextInList
  <2> QED
    BY <1>3, <1>5, <2>1, <2>2, <2>3
<1>10. ASSUME Top.at = "check", signal = "Break", pending # NoLabel
       PROVE  /\ Wanted(prog, Kids[Top.i], pending) = Target /\ labels # 0
              /\ Target \in DOMAIN prog.node /\ Target # 0
              /\ Enter(Target) \in CF!Succ(prog, Here)
  <2>1. Kept
    BY <1>10 DEF Going, Standing, Safe, Flowing
  <2>2. Root(prog, Kids[Top.i]) # prog.top /\ Wanted(prog, Kids[Top.i], pending) # 0
        /\ Enter(Wanted(prog, Kids[Top.i], pending)) \in CF!Succ(prog, Here)
    BY <1>8, <1>10, CameIs
  <2>3. labels = Root(prog, n)
    BY <1>0, <1>1, <1>8, <1>10, <2>1, <2>2, LabelsAreOwn, GoingFacts
  <2>4. labels # 0
    BY <1>1, <2>3, RootIsBody, TreeIs
  <2>5. Wanted(prog, Kids[Top.i], pending) = Target
    BY <1>8, <1>10, <2>3 DEF Wanted, Target
  <2>6. Target \in DOMAIN prog.node
    BY <1>1, <1>8, <1>10, <2>2, <2>5, WantedIs
  <2> QED
    BY <2>2, <2>4, <2>5, <2>6
<1>11. CASE Jump
  <2>1. /\ Top.at = "check" /\ signal = "Break" /\ pending # NoLabel
        /\ prog.node[Target].up = Top.node
        /\ Go(ResumeAt("loop", Position(prog, Target)))
        /\ pending' = NoLabel /\ signal' = "None" /\ UNCHANGED <<prog, flow>>
    BY <1>11 DEF Jump, At, Found
  <2>2. Target \in DOMAIN prog.node /\ Target # 0 /\ Enter(Target) \in CF!Succ(prog, Here)
    BY <1>10, <2>1
  <2>3. PICK i \in DOMAIN Kids : Kids[i] = Target
    BY <1>1, <2>1, <2>2 DEF WellFormed
  <2>4. Position(prog, Target) = i
    BY <1>1, <2>3, KidsAre
  <2>5. i \in Nat \ {0} /\ i <= Len(Kids)
    BY <1>1, <2>3
  <2>6. prog.node[Here[1]].kind # "return"
    BY <1>8, <2>1, CameIs
  <2> QED
    BY <1>3, <1>5, <2>1, <2>2, <2>3, <2>4, <2>5, <2>6
<1>12. CASE LeaveCompound
  <2>1. Top.at = "check" /\ signal # "None" /\ ~Found /\ Pop /\ Stays
        /\ UNCHANGED <<flow, signal, pending>>
    BY <1>12 DEF LeaveCompound, At, Quiet, Stays
  <2>2. signal = "Break" /\ pending # NoLabel
          => prog.node[Wanted(prog, Kids[Top.i], pending)].up # n
    BY <1>10, <2>1 DEF Found
  <2>3. Came(prog, pending, n, Here, signal)
    BY <1>1, <1>2, <1>8, <2>1, <2>2, CameLifts
  <2> QED
    BY <1>0, <2>1, <2>3, KeptSignals, PopAdvances DEF Outermost
<1> QED
  BY <1>6, <1>7, <1>9, <1>11, <1>12 DEF Compound

-----------------------------------------------------------------------------
(* Calls.                                                                  *)

LEMMA FlowCall ==
  ASSUME Going, ctl # <<>>, NEW f \in Evaluated(prog, Top.node) \cap Funcs, NEW next \in Fitting,
         Entered(f, next), signal = "None", Top.at # "call", next.at # "call",
         next.node = Top.node, Waits(prog, next, Here)
  PROVE  Advances
<1> DEFINE b == prog.body[f]
           a == Active("call", b)
           c == Callee(b)
           P == Nat \X {"enter", "again"}
<1>1. /\ Len(ctl) \in Nat \ {0}
      /\ ctl' # <<>> /\ Len(ctl') = Len(ctl) + 2 /\ Top' = c
      /\ ctl'[Len(ctl) + 2] = c /\ ctl'[Len(ctl) + 1] = a /\ ctl'[Len(ctl)] = next
      /\ \A k \in 1 .. Len(ctl) - 1 : ctl'[k] = ctl[k]
  BY EnteredShape DEF Going, Standing
<1>2. /\ b \in DOMAIN prog.node /\ a.at = "call" /\ c.at = "start" /\ c.node = b /\ c.i = 1
      /\ prog' = prog
  BY EnteredShape DEF Going, Standing
<1>3. flow' = Append(flow, Enter(b)) /\ UNCHANGED <<signal, pending>>
  BY DEF Entered
<1>4. Top = ctl[Len(ctl)] /\ Len(flow) = Calls(ctl, Len(ctl)) + 1 /\ WellFormed(prog)
      /\ flow \in Seq(P) /\ CF!Here = Here /\ FramesInv /\ PendingInFlight
      /\ flow # <<>> /\ Len(flow) \in Nat \ {0}
  BY GoingFacts
<1>5. pending = NoLabel
  BY <1>4 DEF PendingInFlight
<1>6. Stands(prog, pending, c, Enter(b), "None")
  BY <1>2, <1>5, StandsIs, PointsAre DEF AtNode
<1>7. Enter(b) \in P
  BY <1>2, <1>4, PointsOf
<1>8. Moves
  <2>1. AtNode(Here, Top.node)
    BY DEF Waits
  <2>2. Here[1] = Top.node
    BY <2>1, PointsAre
  <2>3. f \in CF!Evaluated(prog, CF!Here[1]) \cap Funcs
    BY <1>4, <2>2, CFNames
  <2>4. flow' = Append(flow, CF!Enter(prog.body[f]))
    BY <1>3, PointsAre
  <2>5. CF!Call
    BY <1>4, <2>3, <2>4 DEF CF!Call
  <2> QED
    BY <1>2, <2>5 DEF Moves, CF!Next
<1> HIDE DEF a, b, c, P
<1>9. flow' \in Seq(P) /\ Len(flow') = Len(flow) + 1 /\ flow'[Len(flow) + 1] = Enter(b)
      /\ \A j \in 1 .. Len(flow) : flow'[j] = flow[j]
  BY <1>3, <1>4, <1>7, PushStack
<1>10. ASSUME NEW k \in Nat, k <= Len(ctl) PROVE Calls(ctl', k) = Calls(ctl, k)
  <2>1. \A j \in 1 .. k : (ctl'[j].at = "call") <=> (ctl[j].at = "call")
    <3> SUFFICES ASSUME NEW j \in 1 .. k PROVE (ctl'[j].at = "call") <=> (ctl[j].at = "call")
      OBVIOUS
    <3>1. j = Len(ctl) \/ j \in 1 .. Len(ctl) - 1
      BY <1>1, <1>10
    <3> QED
      BY <1>1, <1>4, <3>1
  <2> QED
    BY <2>1, CallsAgree
<1>11. Calls(ctl', Len(ctl) + 2) = Calls(ctl, Len(ctl)) + 1 /\ Calls(ctl, Len(ctl)) \in Nat
  <2>1. Len(ctl) \in Nat /\ Len(ctl) + 1 \in Nat /\ (Len(ctl) + 1) + 1 = Len(ctl) + 2
    BY <1>1
  <2>2. /\ Calls(ctl', Len(ctl)) \in Nat
        /\ Calls(ctl', Len(ctl) + 1)
             = Calls(ctl', Len(ctl)) + IF ctl'[Len(ctl) + 1].at = "call" THEN 1 ELSE 0
    BY <2>1, CallsGrow
  <2>3. Calls(ctl', (Len(ctl) + 1) + 1)
          = Calls(ctl', Len(ctl) + 1) + IF ctl'[(Len(ctl) + 1) + 1].at = "call" THEN 1 ELSE 0
    BY <2>1, CallsGrow
  <2>4. ctl'[Len(ctl) + 1].at = "call" /\ ctl'[(Len(ctl) + 1) + 1].at # "call"
    BY <1>1, <1>2, <2>1
  <2>5. Calls(ctl', Len(ctl)) = Calls(ctl, Len(ctl))
    BY <1>10, <2>1
  <2> QED
    BY <2>1, <2>2, <2>3, <2>4, <2>5
<1>12. ASSUME NEW k \in 1 .. Len(ctl') - 1, ctl'[k + 1].at = "call"
       PROVE  Waits(prog', ctl'[k], flow'[Calls(ctl', k) + 1])
  <2>1. \/ k = Len(ctl) + 1
        \/ k = Len(ctl)
        \/ (k \in 1 .. Len(ctl) - 1 /\ k + 1 = Len(ctl))
        \/ (k \in 1 .. Len(ctl) - 1 /\ k + 1 \in 1 .. Len(ctl) - 1)
    BY <1>1
  <2>2. k # Len(ctl) + 1
    BY <1>1, <1>2, <1>12
  <2>3. CASE k = Len(ctl)
    <3>1. ctl'[k] = next /\ Calls(ctl', k) + 1 = Len(flow)
      BY <1>1, <1>4, <1>10, <2>3
    <3>2. flow'[Len(flow)] = Here
      BY <1>4, <1>9 DEF Here
    <3> QED
      BY <1>2, <3>1, <3>2
  <2>4. k + 1 # Len(ctl)
    BY <1>1, <1>12
  <2>5. CASE k \in 1 .. Len(ctl) - 1 /\ k + 1 \in 1 .. Len(ctl) - 1
    <3>1. ctl'[k] = ctl[k] /\ ctl[k + 1].at = "call"
      BY <1>1, <1>12, <2>5
    <3>2. Calls(ctl', k) = Calls(ctl, k)
      BY <1>1, <1>10, <2>5
    <3>3. Calls(ctl, k) + 1 \in 1 .. Len(flow)
      <4>1. Calls(ctl, k) + 1 \in 1 .. Calls(ctl, Len(ctl))
        BY <1>1, <2>5, <3>1, WaitsBelow
      <4> QED
        BY <1>4, <1>11, <4>1
    <3>4. Waits(prog, ctl[k], flow[Calls(ctl, k) + 1])
      BY <2>5, <3>1 DEF Going, Flowing
    <3> QED
      BY <1>2, <1>9, <3>1, <3>2, <3>3, <3>4
  <2> QED
    BY <2>1, <2>2, <2>3, <2>4, <2>5
<1>13. Len(flow') = Calls(ctl', Len(ctl')) + 1
  BY <1>1, <1>4, <1>9, <1>11
<1>14. Stands(prog', pending', Top', flow'[Len(flow')], signal')
  BY <1>1, <1>2, <1>3, <1>6, <1>9
<1>15. PendingInFlight' /\ (pending' # NoLabel => HasGoto(prog'))
  BY <1>3, <1>5 DEF PendingInFlight
<1>16. flow' \in Seq(Nat \X {"enter", "again"})
  BY <1>9 DEF P
<1>17. Flowing'
  BY <1>1, <1>12, <1>13, <1>14, <1>15, <1>16 DEF Flowing
<1> QED
  BY <1>8, <1>17 DEF Advances

LEMMA FlowLeave ==
  ASSUME Going, LeaveCall
  PROVE  Advances
<1> DEFINE P == Nat \X {"enter", "again"}
<1>1. /\ ctl # <<>> /\ Len(ctl) \in Nat /\ Len(ctl) > 1
      /\ ctl' # <<>> /\ Len(ctl') = Len(ctl) - 1
      /\ Top' = ctl[Len(ctl) - 1] /\ \A k \in 1 .. Len(ctl) - 1 : ctl'[k] = ctl[k]
      /\ Link(prog, Top', Top)
  BY LeaveStands DEF Going
<1>2. /\ Top.at = "call" /\ signal' = "None" /\ flow' = SubSeq(flow, 1, Len(flow) - 1)
      /\ UNCHANGED <<prog, pending>>
  BY DEF LeaveCall, At
<1>3. Top = ctl[Len(ctl)] /\ Len(flow) = Calls(ctl, Len(ctl)) + 1 /\ WellFormed(prog)
      /\ flow \in Seq(P) /\ CF!Here = Here /\ FramesInv /\ PendingInFlight
      /\ flow # <<>> /\ Len(flow) \in Nat \ {0} /\ Stands(prog, pending, Top, Here, signal)
      /\ signal \in Signals /\ Top.node \in DOMAIN prog.node
  BY <1>1, GoingFacts
<1>4. prog.node[Top.node].up = 0
  BY <1>1, <1>2 DEF Link
<1>5. signal \in {"None", "Return"} /\ CF!Exit \in CF!Succ(prog, Here)
  <2>1. Came(prog, pending, Top.node, Here, signal)
    BY <1>2, <1>3, StandsIs
  <2> QED
    BY <1>3, <1>4, <2>1, BodyCame
<1>6. pending = NoLabel
  BY <1>3, <1>5 DEF PendingInFlight
<1>7. Len(ctl) - 1 \in 1 .. Len(ctl) - 1 /\ (Len(ctl) - 1) + 1 = Len(ctl) /\ Len(ctl) - 1 \in Nat
  BY <1>1
<1>8. Calls(ctl, Len(ctl)) = Calls(ctl, Len(ctl) - 1) + 1 /\ Calls(ctl, Len(ctl) - 1) \in Nat
  <2>1. /\ Calls(ctl, Len(ctl) - 1) \in Nat
        /\ Calls(ctl, (Len(ctl) - 1) + 1)
             = Calls(ctl, Len(ctl) - 1) + IF ctl[(Len(ctl) - 1) + 1].at = "call" THEN 1 ELSE 0
    BY <1>7, CallsGrow
  <2> QED
    BY <1>2, <1>3, <1>7, <2>1
<1> HIDE DEF P
<1>9. flow' \in Seq(P) /\ Len(flow') = Len(flow) - 1
      /\ \A j \in 1 .. Len(flow) - 1 : flow'[j] = flow[j]
  BY <1>2, <1>3, PopStack
<1>10. ASSUME NEW k \in Nat, k <= Len(ctl) - 1 PROVE Calls(ctl', k) = Calls(ctl, k)
  <2>1. \A j \in 1 .. k : (ctl'[j].at = "call") <=> (ctl[j].at = "call")
    BY <1>1, <1>10
  <2> QED
    BY <2>1, CallsAgree
<1>11. Len(flow') = Calls(ctl', Len(ctl')) + 1
  BY <1>1, <1>3, <1>7, <1>8, <1>9, <1>10
<1>12. Stands(prog', pending', Top', flow'[Len(flow')], signal')
  <2>1. Waits(prog, ctl[Len(ctl) - 1], flow[Calls(ctl, Len(ctl) - 1) + 1])
    BY <1>2, <1>3, <1>7 DEF Going, Flowing
  <2>2. Calls(ctl, Len(ctl) - 1) + 1 = Len(flow) - 1 /\ Len(flow) - 1 \in 1 .. Len(flow) - 1
    BY <1>3, <1>8
  <2>3. flow'[Len(flow')] = flow[Calls(ctl, Len(ctl) - 1) + 1]
    BY <1>9, <2>2
  <2> QED
    BY <1>1, <1>2, <1>6, <2>1, <2>3 DEF Waits
<1>13. ASSUME NEW k \in 1 .. Len(ctl') - 1, ctl'[k + 1].at = "call"
       PROVE  Waits(prog', ctl'[k], flow'[Calls(ctl', k) + 1])
  <2>1. k \in 1 .. Len(ctl) - 1 /\ k + 1 \in 1 .. Len(ctl) - 1 /\ k \in Nat /\ k <= Len(ctl) - 1
        /\ k \in 1 .. (Len(ctl) - 1) - 1
    BY <1>1
  <2>2. ctl'[k] = ctl[k] /\ ctl[k + 1].at = "call" /\ Calls(ctl', k) = Calls(ctl, k)
    BY <1>1, <1>10, <1>13, <2>1
  <2>3. Calls(ctl, k) + 1 \in 1 .. Calls(ctl, Len(ctl) - 1)
    BY <1>7, <2>1, <2>2, WaitsBelow
  <2>4. Calls(ctl, k) + 1 \in 1 .. Len(flow) - 1
    BY <1>3, <1>8, <2>3
  <2>5. Waits(prog, ctl[k], flow[Calls(ctl, k) + 1])
    BY <2>1, <2>2 DEF Going, Flowing
  <2> QED
    BY <1>2, <1>9, <2>2, <2>4, <2>5
<1>14. PendingInFlight' /\ (pending' # NoLabel => HasGoto(prog'))
  BY <1>2, <1>6 DEF PendingInFlight
<1>15. Flowing'
  BY <1>1, <1>9, <1>11, <1>12, <1>13, <1>14 DEF Flowing, P
<1>16. Moves
  <2>1. Len(flow) > 1
    BY <1>3, <1>8
  <2>2. CF!Return
    BY <1>2, <1>3, <1>5, <2>1 DEF CF!Return, CF!Below
  <2> QED
    BY <1>2, <2>2 DEF Moves, CF!Next
<1> QED
  BY <1>15, <1>16 DEF Advances

-----------------------------------------------------------------------------
(* Exceptions, in the history of the activations.                          *)

\* The j-th call on the stack is made by an activation that waits for it.
LEMMA CallIsMade ==
  ASSUME Going, ctl # <<>>, NEW j \in 1 .. Calls(ctl, Len(ctl))
  PROVE  \E m \in 1 .. Len(ctl) - 1 : ctl[m + 1].at = "call" /\ Calls(ctl, m) = j - 1
<1> DEFINE S == {m \in Nat : m <= Len(ctl) /\ Calls(ctl, m) >= j}
<1>0. Len(ctl) \in Nat \ {0} /\ Nested /\ Calls(ctl, Len(ctl)) \in Nat /\ j \in Nat \ {0}
      /\ j <= Calls(ctl, Len(ctl))
  BY GoingFacts, CallsGrow
<1>1. Len(ctl) \in S
  BY <1>0
<1>2. PICK m \in S : \A k \in S : m <= k
  <2>1. S \subseteq Nat /\ S # {}
    BY <1>1
  <2> HIDE DEF S
  <2> QED
    BY <2>1, LeastExists
<1>3. m \in Nat /\ m <= Len(ctl) /\ Calls(ctl, m) >= j
  BY <1>2
<1>4. m # 0
  BY <1>0, <1>3, CallsGrow
<1>5. m - 1 \in Nat /\ (m - 1) + 1 = m /\ m - 1 \notin S
  BY <1>2, <1>3, <1>4
<1>6. /\ Calls(ctl, m - 1) \in Nat
      /\ Calls(ctl, (m - 1) + 1)
           = Calls(ctl, m - 1) + IF ctl[(m - 1) + 1].at = "call" THEN 1 ELSE 0
  BY <1>5, CallsGrow
<1>7. Calls(ctl, m - 1) < j
  BY <1>0, <1>3, <1>5, <1>6
<1>8. ctl[(m - 1) + 1].at = "call" /\ Calls(ctl, m - 1) = j - 1
  <2> HIDE DEF S
  <2> QED
    BY <1>0, <1>3, <1>5, <1>6, <1>7
<1>9. m # 1
  <2>1. ctl[m].at = "call"
    BY <1>5, <1>8
  <2> QED
    BY <1>0, <2>1 DEF Nested, Bottom, Outermost
<1>10. m - 1 \in 1 .. Len(ctl) - 1
  BY <1>0, <1>3, <1>4, <1>9
<1> QED
  BY <1>8, <1>10

\* The handlers of the points at which the activations stand: below the activation
\* that catches there are others, above it there are none.
LEMMA PointHandlers ==
  ASSUME Going, ctl # <<>>, NEW k \in 0 .. Len(ctl) - 1,
         k # 0 => ctl[k].at = "try",
         \A j \in k + 1 .. Len(ctl) : ctl[j].at # "try",
         AtNode(Here, Top.node)
  PROVE  \A j \in Calls(ctl, k) + 1 .. Len(flow) :
           Handler(prog, flow[j][1])
             = IF k # 0 /\ j = Calls(ctl, k) + 1 THEN ctl[k].node ELSE 0
<1>1. /\ Len(ctl) \in Nat \ {0} /\ FramesInv /\ Nested /\ Top = ctl[Len(ctl)]
      /\ Len(flow) = Calls(ctl, Len(ctl)) + 1 /\ k \in Nat
  BY GoingFacts
<1>2. Calls(ctl, k) \in Nat /\ Calls(ctl, Len(ctl)) \in Nat
  BY <1>1, CallsGrow
<1>3. \A m \in k + 1 .. Len(ctl) :
         Handler(prog, ctl[m].node)
           = IF k # 0 /\ Calls(ctl, m) = Calls(ctl, k) THEN ctl[k].node ELSE 0
  BY <1>1, HandlersAre
<1> TAKE j \in Calls(ctl, k) + 1 .. Len(flow)
<1>4. CASE j = Len(flow)
  <2>1. flow[j][1] = ctl[Len(ctl)].node
    BY <1>1, <1>4, PointsAre DEF Here
  <2>2. Len(ctl) \in k + 1 .. Len(ctl)
    BY <1>1
  <2>3. Handler(prog, ctl[Len(ctl)].node)
          = IF k # 0 /\ Calls(ctl, Len(ctl)) = Calls(ctl, k) THEN ctl[k].node ELSE 0
    BY <1>3, <2>2
  <2>4. j = Calls(ctl, k) + 1 <=> Calls(ctl, Len(ctl)) = Calls(ctl, k)
    BY <1>1, <1>2, <1>4
  <2> QED
    BY <2>1, <2>3, <2>4
<1>5. CASE j # Len(flow)
  <2>1. j \in 1 .. Calls(ctl, Len(ctl)) /\ j \in Nat
    BY <1>1, <1>2, <1>5
  <2>2. PICK m \in 1 .. Len(ctl) - 1 : ctl[m + 1].at = "call" /\ Calls(ctl, m) = j - 1
    BY <2>1, CallIsMade
  <2>3. m \in Nat /\ m + 1 \in Nat /\ Calls(ctl, m) + 1 = j
    BY <1>1, <2>1, <2>2
  <2>4. flow[j][1] = ctl[m].node
    <3>1. Waits(prog, ctl[m], flow[Calls(ctl, m) + 1])
      BY <2>2 DEF Going, Flowing
    <3> QED
      BY <2>3, <3>1, PointsAre DEF Waits
  <2>5. m \in k + 1 .. Len(ctl)
    <3>1. m # k
      <4> SUFFICES ASSUME m = k PROVE FALSE
        OBVIOUS
      <4>1. Link(prog, ctl[m], ctl[m + 1]) /\ ctl[m].at = "try"
        BY <2>2 DEF Nested, Going, Standing
      <4> QED
        BY <2>2, <4>1 DEF Link, Callers
    <3>2. ~ (m < k)
      <4> SUFFICES ASSUME m < k PROVE FALSE
        OBVIOUS
      <4>1. Calls(ctl, m + 1) = Calls(ctl, m) + 1
        BY <2>2, <2>3, CallsGrow
      <4>2. m + 1 <= k
        BY <1>1, <2>3
      <4>3. Calls(ctl, m + 1) <= Calls(ctl, k)
        BY <1>1, <2>3, <4>2, CallsMonotone
      <4> QED
        BY <1>1, <1>2, <2>3, <4>1, <4>3
    <3> QED
      BY <1>1, <2>2, <2>3, <3>1, <3>2
  <2>6. Handler(prog, ctl[m].node)
          = IF k # 0 /\ Calls(ctl, m) = Calls(ctl, k) THEN ctl[k].node ELSE 0
    BY <1>3, <2>5
  <2>7. j = Calls(ctl, k) + 1 <=> Calls(ctl, m) = Calls(ctl, k)
    BY <1>2, <2>1, <2>2, <2>3
  <2> QED
    BY <2>4, <2>6, <2>7
<1> QED
  BY <1>4, <1>5

LEMMA FlowUnhandled ==
  ASSUME Going, ctl # <<>>, Unhandled, Throw \in Evaluated(prog, Top.node),
         AtNode(Here, Top.node), pending = NoLabel
  PROVE  Advances
<1>1. /\ Len(ctl) \in Nat \ {0} /\ DOMAIN ctl = 1 .. Len(ctl)
      /\ CF!Here = Here /\ flow # <<>> /\ Len(flow) \in Nat \ {0}
      /\ flow \in Seq(Nat \X {"enter", "again"})
  BY GoingFacts, StackIs
<1>2. /\ \A k \in DOMAIN ctl : ctl[k].at # "try"
      /\ ctl' = <<>> /\ flow' = <<>> /\ UNCHANGED <<prog, pending>>
  BY DEF Unhandled
<1>3. \A j \in Calls(ctl, 0) + 1 .. Len(flow) : Handler(prog, flow[j][1]) = 0
  <2>1. 0 \in 0 .. Len(ctl) - 1
    BY <1>1
  <2>2. \A j \in 0 + 1 .. Len(ctl) : ctl[j].at # "try"
    BY <1>1, <1>2
  <2> QED
    BY <2>1, <2>2, PointHandlers
<1>4. \A k \in DOMAIN flow : CF!Handler(prog, flow[k][1]) = 0
  <2>1. Calls(ctl, 0) = 0
    BY CallsGrow
  <2>2. DOMAIN flow = 1 .. Len(flow)
    BY <1>1
  <2>3. \A k \in DOMAIN flow : k \in Calls(ctl, 0) + 1 .. Len(flow)
    BY <1>1, <2>1, <2>2
  <2> QED
    BY <1>3, <2>3, CFNames
<1>5. Here[1] = Top.node
  BY PointsAre
<1>6. Throw = CF!Throw
  BY DEF Throw, CF!Throw
<1>7. CF!Unhandled
  BY <1>1, <1>2, <1>4, <1>5, <1>6, CFNames DEF CF!Unhandled
<1>8. Flowing'
  BY <1>2, FlowEnds
<1> QED
  BY <1>2, <1>7, <1>8 DEF Advances, Moves, CF!Next

LEMMA FlowCatch ==
  ASSUME Going, ctl # <<>>, Catch, Throw \in Evaluated(prog, Top.node),
         AtNode(Here, Top.node), pending = NoLabel, Top.at # "try"
  PROVE  Advances
<1>0. PICK k \in DOMAIN ctl :
        /\ ctl[k].at = "try" /\ \A j \in k + 1 .. Len(ctl) : ctl[j].at # "try"
        /\ ctl' = Append(Append(SubSeq(ctl, 1, k - 1), [ctl[k] EXCEPT !.at = "done"]),
                         Active("start", prog.node[ctl[k].node].kids[2]))
        /\ flow' = Append(SubSeq(flow, 1, Len(flow) - CallsAbove(k) - 1),
                          Enter(prog.node[ctl[k].node].kids[2]))
        /\ signal' = "None" /\ UNCHANGED <<prog, frames, pending, labels, curFunc>>
  BY DEF Catch
<1> DEFINE h == ctl[k].node
           c == prog.node[h].kids[2]
           r == [ctl[k] EXCEPT !.at = "done"]
           a == Active("start", c)
           P == Nat \X {"enter", "again"}
<1>1. /\ ctl[k] \in Fitting /\ Len(ctl) \in Nat \ {0} /\ DOMAIN ctl = 1 .. Len(ctl)
      /\ k \in 1 .. Len(ctl) /\ k \in Nat \ {0} /\ FramesInv /\ Nested /\ WellFormed(prog)
      /\ h \in DOMAIN prog.node /\ h # 0 /\ Top = ctl[Len(ctl)]
  BY GoingFacts, StackIs, FittingIs
<1>2. /\ CF!Here = Here /\ flow # <<>> /\ Len(flow) \in Nat \ {0} /\ flow \in Seq(P)
      /\ Len(flow) = Calls(ctl, Len(ctl)) + 1
  BY GoingFacts
<1>3. prog.node[h].kind = "try" /\ Len(prog.node[h].kids) = 2
  BY <1>0, <1>1 DEF Fitting, StandsAt, Loops, WellFormed
<1>4. 2 \in DOMAIN prog.node[h].kids
  <2>1. prog.node[h].kids \in Seq(Nat \ {0})
    BY <1>1, FittingIs
  <2> QED
    BY <1>3, <2>1
<1>5. c \in DOMAIN prog.node /\ prog.node[c].up = h
  BY <1>1, <1>4, KidsAre
<1>6. r \in Fitting /\ r.at = "done"
  BY <1>1, <1>3 DEF Fitting, Activation, StandsAt, Points
<1>7. a \in Fitting /\ a.at = "start" /\ a.node = c /\ a.i = 1
  BY <1>1, <1>5, ActiveFits DEF Active
<1>8. ctl' = Append(Append(SubSeq(ctl, 1, k - 1), r), a)
      /\ flow' = Append(SubSeq(flow, 1, Len(flow) - CallsAbove(k) - 1), Enter(c))
  BY <1>0
<1>9. Enter(c) \in P
  BY <1>1, <1>5, PointsOf
<1>10. k # Len(ctl) /\ k \in 0 .. Len(ctl) - 1
  BY <1>0, <1>1
<1>11. \A j \in Calls(ctl, k) + 1 .. Len(flow) :
          Handler(prog, flow[j][1]) = IF k # 0 /\ j = Calls(ctl, k) + 1 THEN h ELSE 0
  BY <1>0, <1>10, PointHandlers
<1>s. Stands(prog, NoLabel, a, Enter(c), "None")
  BY <1>1, <1>5, <1>7, StandsIs, PointsAre DEF AtNode
<1> HIDE DEF a, c, r, P, h
<1>12. /\ ctl' # <<>> /\ Len(ctl') = k + 1 /\ Top' = a
       /\ ctl'[k + 1] = a /\ ctl'[k] = r
       /\ \A j \in 1 .. k - 1 : ctl'[j] = ctl[j]
  BY <1>1, <1>6, <1>7, <1>8, CatchShape
<1>13. /\ Calls(ctl, k) \in Nat /\ Calls(ctl, Len(ctl)) \in Nat
       /\ Calls(ctl, k) <= Calls(ctl, Len(ctl))
  BY <1>1, CallsGrow, CallsMonotone
<1>14. Len(flow) - CallsAbove(k) - 1 = Calls(ctl, k)
  <2>1. CallsAbove(k) = Calls(ctl, Len(ctl)) - Calls(ctl, k)
    BY <1>1, CallsAboveIs
  <2> QED
    BY <1>2, <1>13, <2>1
<1> DEFINE s == SubSeq(flow, 1, Calls(ctl, k))
<1>15. s \in Seq(P) /\ Len(s) = Calls(ctl, k) /\ \A j \in 1 .. Calls(ctl, k) : s[j] = flow[j]
  <2>1. Calls(ctl, k) + 1 \in 1 .. Len(flow)
    BY <1>2, <1>13
  <2>2. (Calls(ctl, k) + 1) - 1 = Calls(ctl, k) /\ Calls(ctl, k) + 1 \in Nat
    BY <1>13
  <2> HIDE DEF s
  <2> QED
    BY <1>2, <1>13, <2>1, <2>2, CutStack DEF s
<1>16. flow' = Append(s, Enter(c))
  BY <1>8, <1>14
<1> HIDE DEF s
<1>17. /\ flow' \in Seq(P) /\ Len(flow') = Calls(ctl, k) + 1
       /\ flow'[Calls(ctl, k) + 1] = Enter(c)
       /\ \A j \in 1 .. Calls(ctl, k) : flow'[j] = flow[j]
  BY <1>9, <1>13, <1>15, <1>16, PushStack
<1>18. ASSUME NEW m \in Nat, m <= k PROVE Calls(ctl', m) = Calls(ctl, m)
  <2>1. \A j \in 1 .. m : (ctl'[j].at = "call") <=> (ctl[j].at = "call")
    <3> SUFFICES ASSUME NEW j \in 1 .. m PROVE (ctl'[j].at = "call") <=> (ctl[j].at = "call")
      OBVIOUS
    <3>1. j = k \/ j \in 1 .. k - 1
      BY <1>1, <1>18
    <3> QED
      BY <1>0, <1>6, <1>12, <3>1
  <2> QED
    BY <2>1, CallsAgree
<1>19. Len(flow') = Calls(ctl', Len(ctl')) + 1
  <2>1. k \in Nat /\ ctl'[k + 1].at # "call"
    BY <1>1, <1>7, <1>12
  <2>2. Calls(ctl', k) \in Nat
        /\ Calls(ctl', k + 1) = Calls(ctl', k) + IF ctl'[k + 1].at = "call" THEN 1 ELSE 0
    BY <2>1, CallsGrow
  <2>3. Calls(ctl', k) = Calls(ctl, k)
    BY <1>18, <2>1
  <2> QED
    BY <1>12, <1>17, <2>1, <2>2, <2>3
<1>20. ASSUME NEW j \in 1 .. Len(ctl') - 1, ctl'[j + 1].at = "call"
       PROVE  Waits(prog', ctl'[j], flow'[Calls(ctl', j) + 1])
  <2>1. j = k \/ (j + 1 = k) \/ (j \in 1 .. k - 1 /\ j + 1 \in 1 .. k - 1)
    BY <1>1, <1>12
  <2>2. j # k /\ j + 1 # k
    BY <1>6, <1>7, <1>12, <1>20
  <2>3. j \in 1 .. k - 1 /\ j + 1 \in 1 .. k - 1 /\ j \in 1 .. Len(ctl) - 1 /\ j \in Nat /\ j <= k
    BY <1>1, <2>1, <2>2
  <2>4. ctl'[j] = ctl[j] /\ ctl[j + 1].at = "call" /\ Calls(ctl', j) = Calls(ctl, j)
    BY <1>12, <1>18, <1>20, <2>3
  <2>5. Calls(ctl, j) + 1 \in 1 .. Calls(ctl, k)
    BY <1>1, <2>3, <2>4, WaitsBelow
  <2>6. Waits(prog, ctl[j], flow[Calls(ctl, j) + 1])
    BY <2>3, <2>4 DEF Going, Flowing
  <2> QED
    BY <1>0, <1>17, <2>4, <2>5, <2>6
<1>21. Stands(prog', pending', Top', flow'[Len(flow')], signal')
  BY <1>0, <1>12, <1>17, <1>s
<1>22. Flowing'
  BY <1>0, <1>12, <1>17, <1>19, <1>20, <1>21 DEF Flowing, PendingInFlight, P
<1>23. CF!Catch
  <2>1. Here[1] = Top.node /\ Throw = CF!Throw
    BY PointsAre DEF Throw, CF!Throw
  <2>2. Throw \in CF!Evaluated(prog, CF!Here[1])
    BY <1>2, <2>1, CFNames
  <2>3. DOMAIN flow = 1 .. Len(flow) /\ Calls(ctl, k) + 1 \in 1 .. Len(flow)
        /\ (Calls(ctl, k) + 1) - 1 = Calls(ctl, k)
    BY <1>2, <1>13
  <2>4. CF!Handler(prog, flow[Calls(ctl, k) + 1][1]) = h
    <3>1. Calls(ctl, k) + 1 \in Calls(ctl, k) + 1 .. Len(flow)
      BY <1>13, <2>3
    <3> QED
      BY <1>1, <1>11, <3>1, CFNames
  <2>5. ASSUME NEW j \in (Calls(ctl, k) + 1) + 1 .. Len(flow)
        PROVE  CF!Handler(prog, flow[j][1]) = 0
    <3>1. j \in Calls(ctl, k) + 1 .. Len(flow) /\ j # Calls(ctl, k) + 1
      BY <1>2, <1>13
    <3> QED
      BY <1>11, <3>1, CFNames
  <2>6. flow' = Append(SubSeq(flow, 1, (Calls(ctl, k) + 1) - 1), CF!Enter(prog.node[h].kids[2]))
    BY <1>16, <2>3, PointsAre DEF s, c
  <2> QED
    BY <1>1, <1>2, <2>1, <2>2, <2>3, <2>4, <2>5, <2>6 DEF CF!Catch
<1> QED
  BY <1>0, <1>22, <1>23 DEF Advances, Moves, CF!Next

\* The top activation evaluates an expression of its statement.
LEMMA EvalAdvances ==
  ASSUME Going, ctl # <<>>, NEW e \in Evaluated(prog, Top.node), NEW next \in Fitting,
         Eval(e, next), Onward(next), next.at \in Callers, Top.at # "try",
         signal = "None", pending = NoLabel, Waits(prog, next, Here)
  PROVE  Advances
<1>1. /\ next.node = Top.node /\ next.at # "call" /\ Top.at # "call" /\ next.at # "main"
      /\ AtNode(Here, Top.node) /\ Stands(prog, NoLabel, next, Here, "None")
  BY DEF Onward, Waits
<1>2. CASE Go(next) /\ UNCHANGED <<prog, flow, signal, pending>>
  BY <1>1, <1>2, KeptSignals, GoAdvances
<1>3. CASE e \in Funcs /\ Entered(e, next)
  BY <1>1, <1>3, FlowCall
<1>4. CASE e = Throw /\ Catch
  BY <1>1, <1>4, FlowCatch
<1>5. CASE e = Throw /\ Unhandled
  BY <1>1, <1>5, FlowUnhandled
<1>6. \/ Go(next) /\ UNCHANGED <<prog, flow, signal, pending>>
      \/ e \in Funcs /\ Entered(e, next)
      \/ e = Throw /\ Catch
      \/ e = Throw /\ Unhandled
  BY DEF Eval, EnterCall, Entered, Quiet
<1> QED
  BY <1>2, <1>3, <1>4, <1>5, <1>6

\* An activation that is to wait for a call at its statement's point.
LEMMA WaitsIs ==
  ASSUME NEW p, NEW a, NEW pt, a.node \in DOMAIN p.node, AtNode(pt, a.node),
         \/ a.at = "done" /\ Came(p, NoLabel, a.node, pt, "None")
         \/ a.at \in {"test", "cond"} /\ (p.node[a.node].kind = "dowhile" => pt = Again(a.node))
         \/ a.at \in {"select", "ret"} /\ pt = Enter(a.node)
  PROVE  Waits(p, a, pt)
<1>1. pt[1] = a.node
  BY PointsAre
<1> QED
  BY <1>1, StandsIs DEF Waits

LEMMA SimpleFlows ==
  ASSUME Going, ExecSimple
  PROVE  Advances
<1>1. /\ ctl # <<>> /\ Top.at = "start" /\ prog.node[Top.node].kind = "simple"
      /\ Eval(prog.node[Top.node].expr, Resume("done"))
  BY DEF ExecSimple, Is
<1>2. /\ FramesInv /\ Top.node \in DOMAIN prog.node /\ Top.i \in Nat \ {0}
      /\ Stands(prog, pending, Top, Here, signal)
  BY <1>1, GoingFacts
<1>3. Here = Enter(Top.node) /\ signal = "None" /\ pending = NoLabel
  BY <1>1, <1>2, StandsIs
<1>4. /\ Resume("done") \in Fitting /\ Onward(Resume("done")) /\ Resume("done").at = "done"
      /\ Resume("done").node = Top.node
  BY <1>1, <1>2, ResumeOnward DEF StandsAt, Points, Outermost
<1>5. AtNode(Here, Top.node) /\ Here[1] = Top.node
  BY <1>3, PointsAre DEF AtNode
<1>6. Came(prog, NoLabel, Top.node, Here, "None")
  BY <1>1, <1>5, SuccIs, CameIs
<1>7. Waits(prog, Resume("done"), Here)
  BY <1>2, <1>4, <1>5, <1>6, WaitsIs
<1> QED
  BY <1>1, <1>3, <1>4, <1>7, EvalAdvances DEF Evaluated, Callers

LEMMA BranchFlows ==
  ASSUME Going, Branch
  PROVE  Advances
<1>0. ctl # <<>>
  BY DEF Branch, EvalIf, ExecIf, EvalSwitch, SelectCase, ExecCase, AfterCase, At, Is
<1> DEFINE n == Top.node
           kind == prog.node[n].kind
<1>1. /\ FramesInv /\ WellFormed(prog) /\ n \in DOMAIN prog.node /\ n # 0
      /\ Kids \in Seq(Nat \ {0}) /\ Kids = prog.node[n].kids /\ Top.i \in Nat \ {0}
      /\ Stands(prog, pending, Top, Here, signal) /\ Top \in Fitting
      /\ PendingInFlight /\ signal \in Signals /\ pending \in Labels \cup {NoLabel}
      /\ Here[1] \in DOMAIN prog.node /\ AtNode(Here, Here[1])
      /\ Root(prog, Here[1]) = Root(prog, n)
  BY <1>0, GoingFacts, FittingIs
<1>2. Top.at \in {"start", "test", "select", "case"} => signal = "None" /\ pending = NoLabel
  BY <1>1, StandsIs
<1>3. Top.at \in {"start", "select"} => Here = Enter(n) /\ AtNode(Here, n) /\ Here[1] = n
  BY <1>1, StandsIs, PointsAre DEF AtNode
<1>4. CASE EvalIf
  <2>1. Top.at = "start" /\ kind = "if" /\ Eval(prog.node[n].expr, Resume("test"))
    BY <1>4 DEF EvalIf, Is
  <2>2. /\ Resume("test") \in Fitting /\ Onward(Resume("test")) /\ Resume("test").at = "test"
        /\ Resume("test").node = n
    BY <1>0, <1>1, <2>1, ResumeOnward DEF StandsAt, Points, Outermost
  <2>3. Waits(prog, Resume("test"), Here)
    BY <1>1, <1>3, <2>1, <2>2, WaitsIs
  <2> QED
    BY <1>0, <1>2, <2>1, <2>2, <2>3, EvalAdvances DEF Evaluated, Callers
<1>5. CASE EvalSwitch
  <2>1. Top.at = "start" /\ kind = "switch" /\ Eval(prog.node[n].expr, Resume("select"))
    BY <1>5 DEF EvalSwitch, Is
  <2>2. /\ Resume("select") \in Fitting /\ Onward(Resume("select")) /\ Resume("select").at = "select"
        /\ Resume("select").node = n
    BY <1>0, <1>1, <2>1, ResumeOnward DEF StandsAt, Points, Outermost
  <2>3. Waits(prog, Resume("select"), Here)
    BY <1>1, <1>3, <2>1, <2>2, WaitsIs
  <2> QED
    BY <1>0, <1>2, <2>1, <2>2, <2>3, EvalAdvances DEF Evaluated, Callers
<1>6. CASE ExecIf
  <2>1. Top.at = "test" /\ kind = "if"
    BY <1>6 DEF ExecIf, Is
  <2>2. AtNode(Here, n) /\ Here[1] = n
    BY <1>1, <2>1, StandsIs, PointsAre
  <2>3. CF!Succ(prog, Here) = {Enter(prog.node[n].kids[i]) : i \in DOMAIN prog.node[n].kids}
                               \cup (IF Len(prog.node[n].kids) = 1 THEN CF!After(prog, n) ELSE {})
    BY <2>1, <2>2, SuccIs
  <2>4. ASSUME NEW i \in DOMAIN Kids, Exec(Kids[i], Resume("done"))
        PROVE  Advances
    <3>1. /\ Resume("done") \in Fitting /\ Onward(Resume("done")) /\ Resume("done").at = "done"
          /\ Resume("done").node = n
      BY <1>0, <1>1, <2>1, ResumeOnward DEF StandsAt, Points, Outermost
    <3>2. Under(prog, Resume("done"), Kids[i])
      BY <1>0, <1>1, <2>1, <2>4, <3>1, KidUnder DEF Under
    <3>3. Enter(Kids[i]) \in CF!Succ(prog, Here)
      BY <1>1, <2>3, <2>4
    <3> QED
      BY <1>0, <1>2, <2>1, <2>4, <3>1, <3>2, <3>3, BeginAdvances
  <2>5. CASE Len(Kids) = 1 /\ Pop /\ Quiet
    <3>1. CF!After(prog, n) \subseteq CF!Succ(prog, Here)
      BY <1>1, <2>3, <2>5
    <3>2. Came(prog, pending, n, Here, signal)
      BY <1>2, <2>1, <2>2, <3>1, CameIs
    <3>3. Stays /\ UNCHANGED <<flow, signal, pending>>
      BY <2>5 DEF Quiet, Stays
    <3> QED
      BY <1>0, <2>1, <2>5, <3>2, <3>3, KeptSignals, PopAdvances DEF Outermost
  <2> QED
    BY <1>6, <2>4, <2>5 DEF ExecIf
<1>k. Top.at \in {"select", "case", "caseCheck"} => kind = "switch"
  BY <1>1 DEF Fitting, StandsAt, Loops
<1>7. ASSUME NEW i \in Nat \ {0}, Top.at \in {"select", "case", "caseCheck"}
      PROVE  /\ ResumeAt("case", i) \in Fitting /\ Onward(ResumeAt("case", i))
             /\ ResumeAt("case", i).at = "case" /\ ResumeAt("case", i).node = n
             /\ ResumeAt("case", i).i = i
             /\ Resume("caseCheck") \in Fitting /\ Onward(Resume("caseCheck"))
             /\ Resume("caseCheck").at = "caseCheck" /\ Resume("caseCheck").node = n
             /\ Resume("caseCheck").i = Top.i
  <2>1. StandsAt(kind, "case") /\ StandsAt(kind, "caseCheck")
    BY <1>k, <1>7 DEF StandsAt
  <2> QED
    BY <1>0, <1>1, <1>7, <2>1, ResumeOnward DEF Points, Outermost
<1>8. ASSUME NEW i \in Nat \ {0}, Top.at \in {"select", "case", "caseCheck"},
             Go(ResumeAt("case", i)), UNCHANGED <<prog, flow>>, signal' = "None", pending' = NoLabel,
             prog.node[Here[1]].kind # "return",
             IF i <= Len(Kids) THEN Enter(Kids[i]) \in CF!Succ(prog, Here)
             ELSE CF!After(prog, n) \subseteq CF!Succ(prog, Here)
      PROVE  Advances
  <2>1. Stands(prog, pending', ResumeAt("case", i), Here, signal')
    BY <1>1, <1>7, <1>8, StandsIs
  <2> QED
    BY <1>0, <1>7, <1>8, <2>1, GoAdvances DEF PendingInFlight
<1>9. CASE SelectCase
  <2>1. Top.at = "select" /\ Stays /\ UNCHANGED <<flow, signal, pending>>
    BY <1>9 DEF SelectCase, At, Quiet, Stays
  <2>2. CF!Succ(prog, Here) = {Enter(prog.node[n].kids[i]) : i \in prog.node[n].entries}
                               \cup (IF prog.node[n].dflt THEN {} ELSE CF!After(prog, n))
    BY <1>3, <1>k, <2>1, SuccIs
  <2>3. ASSUME NEW i \in prog.node[n].entries, Go(ResumeAt("case", i))
        PROVE  Advances
    <3>1. i \in DOMAIN Kids
      BY <1>1 DEF WellFormed
    <3>2. i \in Nat \ {0} /\ i <= Len(Kids)
      BY <1>1, <3>1
    <3>3. Enter(Kids[i]) \in CF!Succ(prog, Here)
      BY <1>1, <2>2
    <3> QED
      BY <1>2, <1>3, <1>8, <1>k, <2>1, <2>3, <3>2, <3>3 DEF Stays
  <2>4. CASE ~ prog.node[n].dflt /\ Pop
    <3>1. CF!After(prog, n) \subseteq CF!Succ(prog, Here)
      BY <2>2, <2>4
    <3>2. Came(prog, pending, n, Here, signal)
      BY <1>2, <1>3, <1>k, <2>1, <3>1, CameIs
    <3> QED
      BY <1>0, <2>1, <2>4, <3>2, KeptSignals, PopAdvances DEF Outermost
  <2> QED
    BY <1>9, <2>3, <2>4 DEF SelectCase
<1>10. CASE ExecCase
  <2>1. Top.at = "case"
    BY <1>10 DEF ExecCase, At
  <2>2. CASE Top.i > Len(Kids) /\ Pop /\ Quiet
    <3>1. CF!After(prog, n) \subseteq CF!Succ(prog, Here) /\ prog.node[Here[1]].kind # "return"
      <4>1. ~ (Top.i <= Len(Kids))
        BY <1>1, <2>2
      <4> QED
        BY <1>1, <2>1, <4>1, StandsIs
    <3>2. Came(prog, pending, n, Here, signal)
      BY <1>2, <2>1, <3>1, CameIs
    <3>3. Stays /\ UNCHANGED <<flow, signal, pending>>
      BY <2>2 DEF Quiet, Stays
    <3> QED
      BY <1>0, <2>1, <2>2, <3>2, <3>3, KeptSignals, PopAdvances DEF Outermost
  <2>3. CASE Top.i <= Len(Kids) /\ Exec(Kids[Top.i], Resume("caseCheck"))
    <3>1. Top.i \in DOMAIN Kids
      BY <1>1, <2>3
    <3>2. Under(prog, Resume("caseCheck"), Kids[Top.i])
      BY <1>0, <1>1, <1>7, <2>1, <3>1, KidUnder DEF Under
    <3>3. Enter(Kids[Top.i]) \in CF!Succ(prog, Here)
      BY <1>1, <2>1, <2>3, StandsIs
    <3> QED
      BY <1>0, <1>1, <1>2, <1>7, <2>1, <2>3, <3>2, <3>3, BeginAdvances
  <2> QED
    BY <1>1, <1>10, <2>2, <2>3 DEF ExecCase
<1>11. CASE AfterCase
  <2>1. /\ Top.at = "caseCheck" /\ Stays /\ UNCHANGED <<flow, pending>>
        /\ signal' = IF signal = "Break" THEN "None" ELSE signal
        /\ IF signal = "None" THEN Go(ResumeAt("case", Top.i + 1)) ELSE Pop
    BY <1>11 DEF AfterCase, At, Stays
  <2>2. Top.i \in DOMAIN Kids /\ Came(prog, pending, Kids[Top.i], Here, signal)
    BY <1>1, <2>1, StandsIs
  <2>3. Kids[Top.i] \in DOMAIN prog.node /\ prog.node[Kids[Top.i]].up = n
    BY <1>1, <2>2, KidsAre
  <2>4. CASE signal = "None"
    <3>1. pending = NoLabel /\ Top.i + 1 \in Nat \ {0}
      BY <1>1, <2>4 DEF PendingInFlight
    <3>2. /\ prog.node[Here[1]].kind # "return"
          /\ IF Top.i + 1 <= Len(Kids) THEN Enter(Kids[Top.i + 1]) \in CF!Succ(prog, Here)
             ELSE CF!After(prog, n) \subseteq CF!Succ(prog, Here)
      BY <1>1, <1>k, <2>1, <2>2, <2>4, NextInList
    <3> QED
      BY <1>8, <2>1, <2>4, <3>1, <3>2 DEF Stays
  <2>5. CASE signal = "Break"
    <3>1. pending = NoLabel /\ Came(prog, pending, n, Here, "None")
      BY <1>1, <1>k, <2>1, <2>2, <2>3, <2>5, BreakIsOurs
    <3> QED
      BY <1>0, <2>1, <2>5, <3>1, PopAdvances DEF Outermost, PendingInFlight
  <2>6. CASE signal \in {"Return", "Continue"}
    <3>1. Came(prog, pending, n, Here, signal)
      BY <1>1, <1>k, <2>1, <2>2, <2>3, <2>6, CameLifts
    <3>2. UNCHANGED <<signal, pending>>
      BY <2>1, <2>6
    <3> QED
      BY <1>0, <2>1, <2>6, <3>1, <3>2, KeptSignals, PopAdvances DEF Outermost
  <2> QED
    BY <1>1, <2>4, <2>5, <2>6 DEF Signals
<1> QED
  BY <1>4, <1>5, <1>6, <1>9, <1>10, <1>11 DEF Branch

LEMMA LoopFlows ==
  ASSUME Going, Loop
  PROVE  Advances
<1>0. ctl # <<>>
  BY DEF Loop, StartWhile, StartFor, StartDoWhile, EvalCond, TestLoop, AfterBody,
         EvalPost, BreakLoop, ReturnFromLoop, At, Is
<1> DEFINE n == Top.node
           kind == prog.node[n].kind
<1>1. /\ FramesInv /\ WellFormed(prog) /\ n \in DOMAIN prog.node /\ n # 0
      /\ Kids \in Seq(Nat \ {0}) /\ Kids = prog.node[n].kids /\ Top.i \in Nat \ {0}
      /\ Stands(prog, pending, Top, Here, signal) /\ Top \in Fitting
      /\ PendingInFlight /\ signal \in Signals /\ pending \in Labels \cup {NoLabel}
      /\ Here[1] \in DOMAIN prog.node /\ AtNode(Here, Here[1])
      /\ Root(prog, Here[1]) = Root(prog, n)
  BY <1>0, GoingFacts, FittingIs
<1>2. Top.at \in {"start", "cond", "test", "after", "step"} /\ kind \in Loops
  BY <1>1 DEF Fitting, StandsAt, Loop, StartWhile, StartFor, StartDoWhile, EvalCond, TestLoop,
              AfterBody, EvalPost, BreakLoop, ReturnFromLoop, At, Is, Loops
<1>3. ASSUME NEW at \in {"cond", "test", "after", "step"}
      PROVE  /\ Resume(at) \in Fitting /\ Onward(Resume(at)) /\ Resume(at).at = at
             /\ Resume(at).node = n
  BY <1>0, <1>1, <1>2, <1>3, ResumeOnward DEF StandsAt, Points, Outermost
<1>4. 1 \in DOMAIN Kids
  <2>1. Len(Kids) = 1
    BY <1>1, <1>2 DEF WellFormed
  <2> QED
    BY <1>1, <2>1
<1>5. Kids[1] \in DOMAIN prog.node /\ prog.node[Kids[1]].up = n
  BY <1>0, <1>1, <1>4, KidUnder
<1>6. Top.at # "after" => signal = "None" /\ pending = NoLabel
  BY <1>1, <1>2, StandsIs
<1>7. Top.at = "start" => Here = Enter(n)
  BY <1>1, StandsIs
<1>8. Top.at \in {"start", "cond", "test", "step"} =>
        AtNode(Here, n) /\ (Top.at # "start" /\ kind = "dowhile" => Here = Again(n))
  BY <1>1, StandsIs DEF AtNode
<1>9. ASSUME NEW e \in Evaluated(prog, n), NEW at \in {"cond", "test"}, Eval(e, Resume(at)),
             Top.at \in {"start", "cond", "step"}, kind = "dowhile" => Top.at # "start"
      PROVE  Advances
  <2>1. Waits(prog, Resume(at), Here)
    BY <1>1, <1>3, <1>8, <1>9, WaitsIs
  <2> QED
    BY <1>0, <1>3, <1>6, <1>9, <2>1, EvalAdvances DEF Callers
<1>10. CASE StartFor \/ EvalCond \/ EvalPost
  <2>1. /\ \E e \in Evaluated(prog, n), at \in {"cond", "test"} : Eval(e, Resume(at))
        /\ Top.at \in {"start", "cond", "step"} /\ (kind = "dowhile" => Top.at # "start")
    BY <1>10 DEF StartFor, EvalCond, EvalPost, Evaluated, Is, At
  <2> QED
    BY <1>9, <2>1
<1>11. CASE StartWhile
  <2>1. Top.at = "start" /\ kind = "while" /\ Go(Resume("cond"))
        /\ UNCHANGED <<prog, flow, signal, pending>>
    BY <1>11 DEF StartWhile, Is, Quiet
  <2>2. Stands(prog, pending, Resume("cond"), Here, signal)
    BY <1>1, <1>3, <1>6, <1>8, <2>1, StandsIs
  <2> QED
    BY <1>0, <1>3, <2>1, <2>2, KeptSignals, GoAdvances
<1>12. ASSUME Exec(Kids[1], Resume("after")), Top.at \in {"start", "test"},
              Enter(Kids[1]) \in CF!Succ(prog, Here)
       PROVE  Advances
  <2>1. Under(prog, Resume("after"), Kids[1])
    BY <1>1, <1>3, <1>5 DEF Under
  <2> QED
    BY <1>0, <1>3, <1>6, <1>12, <2>1, BeginAdvances
<1>13. CASE StartDoWhile
  <2>1. Top.at = "start" /\ kind = "dowhile" /\ Exec(Kids[1], Resume("after"))
    BY <1>13 DEF StartDoWhile, Is
  <2>2. Enter(Kids[1]) \in CF!Succ(prog, Here)
    BY <1>1, <1>8, <2>1, SuccIs
  <2> QED
    BY <1>12, <2>1, <2>2
<1>14. CASE TestLoop
  <2>1. Top.at = "test" /\ (Exec(Kids[1], Resume("after")) \/ (Pop /\ Quiet))
    BY <1>14 DEF TestLoop, At
  <2>2. /\ Enter(Kids[1]) \in CF!Succ(prog, Here)
        /\ CF!After(prog, n) \subseteq CF!Succ(prog, Here)
    <3>1. CASE kind \in {"while", "for"}
      BY <1>1, <1>8, <2>1, <3>1, SuccIs
    <3>2. CASE kind = "dowhile"
      BY <1>1, <1>8, <2>1, <3>2, SuccIs
    <3> QED
      BY <1>2, <3>1, <3>2 DEF Loops
  <2>3. CASE Pop /\ Quiet
    <3>1. Here[1] = n
      BY <1>8, <2>1, PointsAre
    <3>2. Came(prog, pending, n, Here, signal)
      BY <1>2, <1>6, <2>1, <2>2, <3>1, CameIs DEF Loops
    <3>3. Stays /\ UNCHANGED <<flow, signal, pending>>
      BY <2>3 DEF Quiet, Stays
    <3> QED
      BY <1>0, <2>1, <2>3, <3>2, <3>3, KeptSignals, PopAdvances DEF Outermost
  <2> QED
    BY <1>12, <2>1, <2>2, <2>3
<1>15. Top.at = "after" => Came(prog, pending, Kids[1], Here, signal)
  BY <1>1, StandsIs
<1>16. CASE AfterBody
  <2> DEFINE next == Resume(IF kind = "for" THEN "step" ELSE "cond")
  <2>1. /\ Top.at = "after" /\ signal \in {"None", "Continue"} /\ signal' = "None"
        /\ flow' = Reach(Again(n)) /\ Go(next) /\ UNCHANGED <<prog, pending>>
    BY <1>16 DEF AfterBody, At
  <2>2. next \in Fitting /\ Onward(next) /\ next.at \in {"step", "cond"} /\ next.node = n
    BY <1>3
  <2>3. Again(n) \in CF!Succ(prog, Here)
    <3>1. CASE signal = "None"
      <4>1. CF!After(prog, Kids[1]) = {Again(n)}
        BY <1>1, <1>2, <1>5, AfterIs
      <4> QED
        BY <1>15, <2>1, <3>1, <4>1, CameIs
    <3>2. CASE signal = "Continue"
      <4>1. Enclosing(prog, Loops, Kids[1]) = n
        BY <1>1, <1>2, <1>5, EnclosingIs
      <4> QED
        BY <1>15, <2>1, <3>2, <4>1, CameIs
    <3> QED
      BY <2>1, <3>1, <3>2
  <2>4. pending = NoLabel
    BY <1>1, <2>1 DEF PendingInFlight
  <2> HIDE DEF next
  <2>5. Last /\ flow'[Len(flow')] = Again(n)
    BY <1>0, <1>1, <2>1, LastIs
  <2>6. Stands(prog, pending', next, Again(n), signal')
    BY <1>1, <2>1, <2>2, <2>4, StandsIs, PointsAre DEF AtNode
  <2>7. Flowing'
    BY <1>0, <2>1, <2>2, <2>4, <2>5, <2>6, FlowGo DEF PendingInFlight
  <2>8. Moves
    BY <1>0, <1>1, <2>1, <2>3, StepMoves
  <2> QED
    BY <2>7, <2>8 DEF Advances
<1>17. CASE BreakLoop
  <2>1. Top.at = "after" /\ signal = "Break" /\ signal' = "None" /\ Pop /\ Stays
        /\ UNCHANGED <<flow, pending>>
    BY <1>17 DEF BreakLoop, At, Stays
  <2>2. pending = NoLabel /\ Came(prog, pending, n, Here, "None")
    BY <1>1, <1>2, <1>5, <1>15, <2>1, BreakIsOurs
  <2> QED
    BY <1>0, <2>1, <2>2, PopAdvances DEF Outermost, PendingInFlight
<1>18. CASE ReturnFromLoop
  <2>1. Top.at = "after" /\ signal = "Return" /\ Pop /\ Stays /\ UNCHANGED <<flow, signal, pending>>
    BY <1>18 DEF ReturnFromLoop, At, Quiet, Stays
  <2>2. Came(prog, pending, n, Here, signal)
    BY <1>1, <1>2, <1>5, <1>15, <2>1, CameLifts
  <2> QED
    BY <1>0, <2>1, <2>2, KeptSignals, PopAdvances DEF Outermost
<1> QED
  BY <1>10, <1>11, <1>13, <1>14, <1>16, <1>17, <1>18 DEF Loop

LEMMA CallReturnFlows ==
  ASSUME Going, CallReturn
  PROVE  Advances
<1>1. CASE EvalReturn
  <2>1. /\ ctl # <<>> /\ Top.at = "start" /\ prog.node[Top.node].kind = "return"
        /\ Eval(prog.node[Top.node].expr, Resume("ret"))
    BY <1>1 DEF EvalReturn, Is
  <2>2. /\ FramesInv /\ Top.node \in DOMAIN prog.node /\ Top.i \in Nat \ {0}
        /\ Stands(prog, pending, Top, Here, signal)
    BY <2>1, GoingFacts
  <2>3. Here = Enter(Top.node) /\ signal = "None" /\ pending = NoLabel
    BY <2>1, <2>2, StandsIs
  <2>4. /\ Resume("ret") \in Fitting /\ Onward(Resume("ret")) /\ Resume("ret").at = "ret"
        /\ Resume("ret").node = Top.node
    BY <2>1, <2>2, ResumeOnward DEF StandsAt, Points, Outermost
  <2>5. AtNode(Here, Top.node)
    BY <2>3 DEF AtNode
  <2>6. Waits(prog, Resume("ret"), Here)
    BY <2>2, <2>3, <2>4, <2>5, WaitsIs
  <2> QED
    BY <2>1, <2>3, <2>4, <2>6, EvalAdvances DEF Evaluated, Callers
<1>2. CASE ExecReturn
  <2>1. ctl # <<>> /\ Top.at = "ret" /\ Pop /\ signal' = "Return" /\ UNCHANGED <<flow, pending>>
    BY <1>2 DEF ExecReturn, At
  <2>2. Stays
    <3>1. frames \in Seq(Frame)
      BY DEF Going, Standing, FramesInv, TypeOK
    <3>2. Len(frames') = Len(frames)
      BY <1>2, <3>1 DEF ExecReturn
    <3> QED
      BY <1>2, <3>2 DEF ExecReturn, Stays
  <2>3. /\ Stands(prog, pending, Top, Here, signal) /\ Top \in Fitting
        /\ Top.node \in DOMAIN prog.node
    BY <2>1, GoingFacts
  <2>4. Here = Enter(Top.node) /\ pending = NoLabel /\ prog.node[Top.node].kind = "return"
    BY <2>1, <2>3, StandsIs DEF Fitting, StandsAt, Loops
  <2>5. AtNode(Here, Top.node) /\ Here[1] = Top.node
    BY <2>4, PointsAre DEF AtNode
  <2>6. Came(prog, pending', Top.node, Here, "Return")
    BY <2>1, <2>4, <2>5, SuccIs, CameIs
  <2> QED
    BY <2>1, <2>2, <2>4, <2>6, PopAdvances DEF Outermost, PendingInFlight
<1>3. CASE LeaveCall
  BY <1>3, FlowLeave
<1> QED
  BY <1>1, <1>2, <1>3 DEF CallReturn

\* The activation of run, or of Main, is alone where it is the innermost.
LEMMA OutermostAlone ==
  ASSUME Going, ctl # <<>>, Top.at \in Outermost
  PROVE  /\ Len(ctl) = 1 /\ Len(flow) = 1
         /\ Top.node = IF Top.at = "main" THEN prog.main ELSE prog.top
         /\ prog.node[Top.node].up = 0 /\ prog.node[Top.node].kind = "compound"
         /\ Root(prog, Top.node) = Top.node
<1>1. /\ Nested /\ Len(ctl) \in Nat \ {0} /\ Top = ctl[Len(ctl)] /\ WellFormed(prog)
      /\ Len(flow) = Calls(ctl, Len(ctl)) + 1 /\ Top.node \in DOMAIN prog.node /\ FramesInv
      /\ flow \in Seq(Nat \X {"enter", "again"}) /\ Len(flow) \in Nat \ {0}
      /\ Top.node # 0
  BY GoingFacts, FittingIs
<1>2. Len(ctl) = 1
  <2>1. ASSUME Len(ctl) # 1 PROVE FALSE
    <3>1. Len(ctl) - 1 \in 1 .. Len(ctl) - 1 /\ (Len(ctl) - 1) + 1 = Len(ctl)
      BY <1>1, <2>1, MoreThanOne
    <3>2. Link(prog, ctl[Len(ctl) - 1], Top)
      BY <1>1, <3>1 DEF Nested
    <3> QED
      BY <3>2 DEF Link
  <2> QED
    BY <2>1
<1>3. Bottom(prog, Top)
  BY <1>1, <1>2 DEF Nested
<1>4. Top.node = IF Top.at = "main" THEN prog.main ELSE prog.top
  BY <1>3 DEF Bottom
<1>5. prog.node[Top.node].up = 0 /\ prog.node[Top.node].kind = "compound"
  BY <1>1, <1>4 DEF WellFormed
<1>6. Root(prog, Top.node) = Top.node
  BY <1>1, <1>5, RootIs
<1>7. Len(flow) = 1
  <2>1. /\ Calls(ctl, 0) = 0
        /\ Calls(ctl, 0 + 1) = Calls(ctl, 0) + IF ctl[0 + 1].at = "call" THEN 1 ELSE 0
    BY CallsGrow
  <2>2. ctl[0 + 1].at # "call"
    BY <1>1, <1>2 DEF Outermost
  <2>3. Calls(ctl, 1) = 0
    BY <2>1, <2>2
  <2> QED
    BY <1>1, <1>2, <2>3
<1> QED
  BY <1>2, <1>4, <1>5, <1>6, <1>7

\* The program ends in its outermost activation.
LEMMA FlowFinish ==
  ASSUME Going, ctl # <<>>, Top.at \in Outermost, ctl' = <<>>, flow' = <<>>,
         UNCHANGED <<prog, pending>>, pending = NoLabel, CF!Exit \in CF!Succ(prog, Here),
         \/ Top.node = prog.main \/ prog.main = 0 \/ prog.node[Here[1]].kind = "return"
  PROVE  Advances
<1>1. /\ Len(flow) = 1 /\ CF!Here = Here /\ Root(prog, Here[1]) = Top.node
  BY OutermostAlone, GoingFacts
<1>2. CF!Finish
  BY <1>1, CFNames DEF CF!Finish
<1>3. Flowing'
  BY FlowEnds
<1> QED
  BY <1>2, <1>3 DEF Advances, Moves, CF!Next

\* What comes back to a body's own list has no loop and no switch around it.
LEMMA TopCame ==
  ASSUME NEW p, WellFormed(p), NEW pend, NEW n \in DOMAIN p.node, NEW pt,
         p.node[n].up = p.top, NEW s \in Signals, Came(p, pend, n, pt, s)
  PROVE  s \in {"None", "Return"}
<1>1. p.top \in DOMAIN p.node /\ p.top # 0 /\ p.node[p.top].kind = "compound" /\ p.node[p.top].up = 0
  BY TreeIs DEF WellFormed
<1>2. \A K \in {Loops, Loops \cup {"switch"}} : Enclosing(p, K, n) = 0
  <2> SUFFICES ASSUME NEW K \in {Loops, Loops \cup {"switch"}} PROVE Enclosing(p, K, n) = 0
    OBVIOUS
  <2>1. "compound" \notin K
    BY DEF Loops
  <2>2. Enclosing(p, K, p.top) = 0
    BY <1>1, EnclosingIs
  <2>3. Enclosing(p, K, n) = Enclosing(p, K, p.top)
    BY <1>1, <2>1, EnclosingIs
  <2> QED
    BY <2>2, <2>3
<1>3. Root(p, n) = p.top
  BY <1>1, RootIs
<1> QED
  BY <1>2, <1>3, CameIs DEF Signals

LEMMA FlowMain ==
  ASSUME Going, StartMain
  PROVE  Advances
<1> DEFINE a == Active("main", prog.main)
           c == Callee(prog.main)
<1>1. /\ ctl # <<>> /\ Top.at = "top" /\ prog.main # 0 /\ Top.i > Len(Kids)
      /\ UNCHANGED <<prog, signal, pending>>
      /\ ctl' = <<a, c>> /\ flow' = <<Enter(prog.main)>>
  BY DEF StartMain, At
<1>2. /\ Len(flow) = 1 /\ Top.node = prog.top /\ prog.node[Top.node].up = 0
      /\ Root(prog, Top.node) = prog.top
  BY <1>1, OutermostAlone DEF Outermost
<1>3. /\ FramesInv /\ WellFormed(prog) /\ Top.node \in DOMAIN prog.node /\ Top.i \in Nat \ {0}
      /\ Kids \in Seq(Nat \ {0}) /\ Kids = prog.node[Top.node].kids
      /\ Stands(prog, pending, Top, Here, signal) /\ CF!Here = Here
      /\ Root(prog, Here[1]) = Root(prog, Top.node)
  BY <1>1, GoingFacts
<1>4. /\ signal = "None" /\ pending = NoLabel
      /\ prog.node[Here[1]].kind # "return" /\ CF!After(prog, Top.node) \subseteq CF!Succ(prog, Here)
  <2>1. ~ (Top.i <= Len(Kids))
    BY <1>1, <1>3
  <2> QED
    BY <1>1, <1>3, <2>1, StandsIs
<1>5. CF!Exit \in CF!Succ(prog, Here)
  <2>1. CF!After(prog, Top.node) = {CF!Exit}
    BY <1>2, <1>3, AfterIs
  <2> QED
    BY <1>4, <2>1
<1>6. CF!StartMain
  BY <1>1, <1>2, <1>3, <1>4, <1>5, PointsAre, CFNames DEF CF!StartMain
<1>7. prog.main \in DOMAIN prog.node
  BY <1>1, <1>3 DEF WellFormed
<1>8. a.at = "main" /\ c.at = "start" /\ c.node = prog.main /\ c.i = 1
  BY DEF Active, Callee
<1> HIDE DEF a, c
<1>9. Len(ctl') = 2 /\ ctl'[1] = a /\ ctl'[2] = c /\ ctl' # <<>> /\ Top' = c
  BY <1>1 DEF Top
<1>10. \A k \in 1 .. Len(ctl') - 1 : k + 1 = 2
  BY <1>9
<1>11. Calls(ctl', Len(ctl')) = 0
  <2>1. Calls(ctl', 0) = 0 /\ 0 \in Nat /\ 1 \in Nat
    BY CallsGrow
  <2>2. Calls(ctl', 0 + 1) = Calls(ctl', 0) + IF ctl'[0 + 1].at = "call" THEN 1 ELSE 0
    BY CallsGrow
  <2>3. Calls(ctl', 1 + 1) = Calls(ctl', 1) + IF ctl'[1 + 1].at = "call" THEN 1 ELSE 0
    BY CallsGrow
  <2>4. ctl'[0 + 1].at # "call" /\ ctl'[1 + 1].at # "call"
    BY <1>8, <1>9
  <2>5. Calls(ctl', 1) = 0
    BY <2>1, <2>2, <2>4
  <2>6. Calls(ctl', 2) = 0
    BY <2>3, <2>4, <2>5
  <2> QED
    BY <1>9, <2>6
<1>12. /\ Len(flow') = 1 /\ flow'[Len(flow')] = Enter(prog.main)
       /\ flow' \in Seq(Nat \X {"enter", "again"})
  <2>1. Enter(prog.main) \in Nat \X {"enter", "again"}
    BY <1>3, <1>7, PointsOf
  <2> QED
    BY <1>1, <2>1
<1>13. Stands(prog, pending', Top', Enter(prog.main), signal')
  BY <1>1, <1>4, <1>7, <1>8, <1>9, StandsIs, PointsAre DEF AtNode
<1>14. Flowing'
  BY <1>1, <1>4, <1>8, <1>9, <1>10, <1>11, <1>12, <1>13 DEF Flowing, PendingInFlight
<1> QED
  BY <1>1, <1>6, <1>14 DEF Advances, Moves, CF!Next

LEMMA RunFlows ==
  ASSUME Going, Run
  PROVE  Advances
<1>0. ctl # <<>>
  BY DEF Run, RunStatement, NextTop, StartMain, EndRun, EndMain, At
<1> DEFINE n == Top.node
<1>1. /\ FramesInv /\ WellFormed(prog) /\ n \in DOMAIN prog.node /\ n # 0
      /\ Kids \in Seq(Nat \ {0}) /\ Kids = prog.node[n].kids /\ Top.i \in Nat \ {0}
      /\ Stands(prog, pending, Top, Here, signal) /\ Top \in Fitting
      /\ PendingInFlight /\ signal \in Signals
  BY <1>0, GoingFacts, FittingIs
<1>2. Top.at \in {"top", "topCheck", "main"}
  BY DEF Run, RunStatement, NextTop, StartMain, EndRun, EndMain, At
<1>3. /\ n = IF Top.at = "main" THEN prog.main ELSE prog.top
      /\ prog.node[n].up = 0 /\ prog.node[n].kind = "compound"
  BY <1>0, <1>2, OutermostAlone DEF Outermost
<1>4. ASSUME NEW at \in {"top", "topCheck"}, NEW i \in Nat \ {0}, Top.at \in {"top", "topCheck"}
      PROVE  /\ Resume(at) \in Fitting /\ Onward(Resume(at)) /\ Resume(at).at = at
             /\ Resume(at).node = n /\ Resume(at).i = Top.i
             /\ ResumeAt(at, i) \in Fitting /\ Onward(ResumeAt(at, i)) /\ ResumeAt(at, i).at = at
             /\ ResumeAt(at, i).node = n /\ ResumeAt(at, i).i = i
  BY <1>0, <1>1, <1>3, <1>4, ResumeOnward DEF StandsAt, Points, Outermost
<1>5. CASE RunStatement
  <2>1. Top.at = "top" /\ Top.i <= Len(Kids) /\ Exec(Kids[Top.i], Resume("topCheck"))
    BY <1>5 DEF RunStatement, At
  <2>2. Top.i \in DOMAIN Kids
    BY <1>1, <2>1
  <2>3. Under(prog, Resume("topCheck"), Kids[Top.i])
    BY <1>0, <1>1, <1>4, <2>1, <2>2, KidUnder DEF Under
  <2>4. signal = "None" /\ Enter(Kids[Top.i]) \in CF!Succ(prog, Here)
    BY <1>1, <2>1, StandsIs
  <2> QED
    BY <1>0, <1>1, <1>4, <2>1, <2>3, <2>4, BeginAdvances
<1>6. CASE NextTop
  <2>1. /\ Top.at = "topCheck" /\ UNCHANGED <<prog, pending>>
        /\ IF signal = "Return" THEN ctl' = <<>> /\ flow' = <<>>
           ELSE Go(ResumeAt("top", Top.i + 1)) /\ UNCHANGED <<signal, flow>>
    BY <1>6 DEF NextTop, At
  <2>2. Top.i \in DOMAIN Kids /\ Came(prog, pending, Kids[Top.i], Here, signal)
    BY <1>1, <2>1, StandsIs
  <2>3. Kids[Top.i] \in DOMAIN prog.node /\ prog.node[Kids[Top.i]].up = prog.top
    BY <1>0, <1>1, <1>3, <2>1, <2>2, KidUnder
  <2>4. signal \in {"None", "Return"} /\ pending = NoLabel
    BY <1>1, <2>2, <2>3, TopCame DEF PendingInFlight
  <2>5. CASE signal = "Return"
    <3>1. CF!Exit \in CF!Succ(prog, Here) /\ prog.node[Here[1]].kind = "return"
      BY <2>2, <2>5, CameIs
    <3> QED
      BY <1>0, <2>1, <2>4, <2>5, <3>1, FlowFinish DEF Outermost
  <2>6. CASE signal = "None"
    <3>1. Top.i + 1 \in Nat \ {0}
      BY <1>1
    <3>2. /\ prog.node[Here[1]].kind # "return"
          /\ IF Top.i + 1 <= Len(Kids) THEN Enter(Kids[Top.i + 1]) \in CF!Succ(prog, Here)
             ELSE CF!After(prog, n) \subseteq CF!Succ(prog, Here)
      BY <1>1, <1>3, <2>2, <2>6, NextInList
    <3>3. Stands(prog, pending', ResumeAt("top", Top.i + 1), Here, signal')
      BY <1>1, <1>4, <2>1, <2>4, <2>6, <3>1, <3>2, StandsIs
    <3> QED
      BY <1>0, <1>4, <2>1, <2>4, <2>6, <3>1, <3>3, GoAdvances DEF PendingInFlight
  <2> QED
    BY <2>4, <2>5, <2>6
<1>7. CASE StartMain
  BY <1>7, FlowMain
<1>8. CASE EndRun
  <2>1. /\ Top.at = "top" /\ Top.i > Len(Kids) /\ prog.main = 0
        /\ ctl' = <<>> /\ flow' = <<>> /\ UNCHANGED <<prog, pending>>
    BY <1>8 DEF EndRun, At
  <2>2. pending = NoLabel /\ CF!After(prog, n) \subseteq CF!Succ(prog, Here)
    <3>1. ~ (Top.i <= Len(Kids))
      BY <1>1, <2>1
    <3> QED
      BY <1>1, <2>1, <3>1, StandsIs
  <2>3. CF!After(prog, n) = {CF!Exit}
    BY <1>1, <1>3, AfterIs
  <2> QED
    BY <1>0, <2>1, <2>2, <2>3, FlowFinish DEF Outermost
<1>9. CASE EndMain
  <2>1. Top.at = "main" /\ ctl' = <<>> /\ flow' = <<>> /\ UNCHANGED <<prog, pending>>
    BY <1>9 DEF EndMain, At
  <2>2. Came(prog, pending, n, Here, signal)
    BY <1>1, <2>1, StandsIs
  <2>3. signal \in {"None", "Return"} /\ CF!Exit \in CF!Succ(prog, Here)
    BY <1>1, <1>3, <2>2, BodyCame
  <2>4. pending = NoLabel
    BY <1>1, <2>3 DEF PendingInFlight
  <2> QED
    BY <1>0, <1>3, <2>1, <2>3, <2>4, FlowFinish DEF Outermost
<1> QED
  BY <1>5, <1>6, <1>7, <1>8, <1>9 DEF Run

LEMMA GoingInit ==
  ASSUME Init, \A p \in Programs : Safe(p)
  PROVE  Going /\ CF!Init
<1>1. Standing
  BY StandingInit
<1>2. /\ prog \in Programs /\ signal = "None" /\ pending = NoLabel
      /\ ctl = <<Active("top", prog.top)>> /\ Len(ctl) = 1 /\ ctl # <<>>
      /\ flow = <<Enter(prog.top)>>
  BY DEF Init
<1>3. Top = Active("top", prog.top) /\ ctl[1] = Top
  BY <1>2 DEF Top
<1>4. Top.at = "top" /\ Top.node = prog.top /\ Top.i = 1
  BY <1>3 DEF Active
<1>5. WellFormed(prog) /\ Safe(prog) /\ FramesInv
  BY <1>1, <1>2, ProgramsAssumption DEF Standing
<1>6. prog.top \in DOMAIN prog.node /\ prog.node[prog.top].kind = "compound"
      /\ prog.node[prog.top].kids \in Seq(Nat \ {0})
  BY <1>5, TreeIs DEF WellFormed, Node
<1>7. CF!Init
  <2>1. CF!Node = Node
    BY DEF CF!Node, CF!Kinds, CF!Loops, CF!Exprs, CF!Pure, CF!Throw, CF!NoLabel,
           Node, Kinds, Loops, Exprs, Pure, Throw, NoLabel
  <2>2. CF!WellFormed(prog) = WellFormed(prog)
    BY <2>1, CFNames DEF CF!WellFormed, WellFormed
  <2> QED
    BY <1>2, <1>5, <2>2, PointsAre DEF CF!Init
<1> DEFINE pt == Enter(prog.top)
           kids == prog.node[prog.top].kids
<1>8. AtNode(pt, prog.top) /\ pt[1] = prog.top
  BY PointsAre DEF AtNode
<1>9. CF!Succ(prog, pt) = IF kids = <<>> THEN CF!After(prog, prog.top) ELSE {Enter(kids[1])}
  <2> HIDE DEF pt
  <2> QED
    BY <1>6, <1>8, SuccIs
<1>10. IF 1 <= Len(kids) THEN Enter(kids[1]) \in CF!Succ(prog, pt)
       ELSE CF!After(prog, prog.top) \subseteq CF!Succ(prog, pt)
  <2>1. 1 <= Len(kids) <=> kids # <<>>
    BY <1>6
  <2> HIDE DEF pt, kids
  <2> QED
    BY <1>9, <2>1
<1>11. pt \in Nat \X {"enter", "again"}
  BY <1>5, <1>6, PointsOf
<1> HIDE DEF pt
<1>12. Stands(prog, pending, Top, pt, signal)
  BY <1>2, <1>4, <1>6, <1>8, <1>10, StandsIs
<1>13. Len(flow) = 1 /\ flow[1] = pt /\ flow \in Seq(Nat \X {"enter", "again"})
  BY <1>2, <1>11 DEF pt
<1>14. Calls(ctl, Len(ctl)) = 0
  <2>1. /\ Calls(ctl, 0) = 0
        /\ Calls(ctl, 0 + 1) = Calls(ctl, 0) + IF ctl[0 + 1].at = "call" THEN 1 ELSE 0
    BY CallsGrow
  <2>2. ctl[0 + 1].at # "call"
    BY <1>3, <1>4
  <2> QED
    BY <1>2, <2>1, <2>2
<1>15. \A k \in 1 .. Len(ctl) - 1 : FALSE
  BY <1>2
<1>16. Flowing
  BY <1>2, <1>12, <1>13, <1>14, <1>15 DEF Flowing, PendingInFlight
<1> QED
  BY <1>1, <1>5, <1>7, <1>16 DEF Going

LEMMA GoingNext ==
  ASSUME Going, [Next]_vars
  PROVE  Going' /\ [CF!Next]_CF!vars
<1>1. Standing' /\ prog' = prog
  BY StandingNext DEF Going
<1>2. Safe(prog')
  BY <1>1 DEF Going
<1>3. Advances
  <2>1. CASE UNCHANGED vars \/ Ended
    <3>1. UNCHANGED <<prog, ctl, flow, signal, pending>>
      BY <2>1 DEF vars, Ended
    <3> QED
      BY <3>1 DEF Going, Flowing, Advances, Moves, Calls, Top, PendingInFlight
  <2> QED
    BY <2>1, BareStatementFlows, SimpleFlows, CompoundFlows, BranchFlows, LoopFlows,
       CallReturnFlows, RunFlows DEF Next, Statement
<1>4. [CF!Next]_CF!vars
  BY <1>3 DEF Advances, Moves, CF!vars
<1> QED
  BY <1>1, <1>2, <1>3, <1>4 DEF Going, Advances

\* A goto on its way is a break on its way, and no call and no run ends with a
\* break or a continue that its body has failed to absorb.
LEMMA GoingSignals ==
  ASSUME Going
  PROVE  SignalsInFlight
<1>1. PendingInFlight
  BY DEF Going, Flowing
<1>2. ASSUME At("call") \/ At("main") PROVE signal \in {"None", "Return"}
  <2>1. ctl # <<>> /\ Top.at \in {"call", "main"}
    BY <1>2 DEF At
  <2>2. /\ FramesInv /\ WellFormed(prog) /\ Nested /\ Top.node \in DOMAIN prog.node
        /\ Stands(prog, pending, Top, Here, signal) /\ signal \in Signals
        /\ Top = ctl[Len(ctl)] /\ Len(ctl) \in Nat \ {0}
    BY <2>1, GoingFacts
  <2>3. prog.node[Top.node].up = 0
    <3>1. CASE Top.at = "main"
      BY <2>1, <3>1, OutermostAlone DEF Outermost
    <3>2. CASE Top.at = "call"
      <4>1. Len(ctl) # 1
        BY <2>1, <2>2, <3>2 DEF Nested, Bottom, Outermost
      <4>2. Len(ctl) - 1 \in 1 .. Len(ctl) - 1 /\ (Len(ctl) - 1) + 1 = Len(ctl)
        BY <2>2, <4>1, MoreThanOne
      <4>3. Link(prog, ctl[Len(ctl) - 1], Top)
        BY <2>2, <4>2 DEF Nested
      <4> QED
        BY <3>2, <4>3 DEF Link
    <3> QED
      BY <2>1, <3>1, <3>2
  <2>4. Came(prog, pending, Top.node, Here, signal)
    BY <2>1, <2>2, StandsIs
  <2> QED
    BY <2>2, <2>3, <2>4, BodyCame
<1> QED
  BY <1>1, <1>2 DEF SignalsInFlight, NoSignalLost

\* In a program whose jumps C allows and the label table can follow, no goto is
\* lost or begun twice, and the reset of the signal at the end of a call hides
\* neither a break nor a continue.
THEOREM SignalsInFlightHolds ==
  (\A p \in Programs : Safe(p)) => (Spec => []SignalsInFlight)
<1> SUFFICES ASSUME \A p \in Programs : Safe(p)
             PROVE  Spec => []SignalsInFlight
  OBVIOUS
<1>1. Init => Going
  BY GoingInit
<1>2. Going /\ [Next]_vars => Going'
  BY GoingNext
<1>3. Going => SignalsInFlight
  BY GoingSignals
<1> QED
  BY <1>1, <1>2, <1>3, PTL DEF Spec

\* In such a program the signals, the call frames, the labels and the exceptions
\* together implement C control flow with try and catch: each step of the walker
\* is a step of ControlFlow or leaves the program where it is.
THEOREM ImplementsControlFlowHolds ==
  (\A p \in Programs : Safe(p)) => (Spec => ImplementsControlFlow)
<1> SUFFICES ASSUME \A p \in Programs : Safe(p)
             PROVE  Spec => ImplementsControlFlow
  OBVIOUS
<1>1. Init => Going /\ CF!Init
  BY GoingInit
<1>2. Going /\ [Next]_vars => Going'
  BY GoingNext
<1>3. Going /\ [Next]_vars => [CF!Next]_CF!vars
  BY GoingNext
<1> QED
  BY <1>1, <1>2, <1>3, PTL DEF Spec, ImplementsControlFlow, CF!Spec
=============================================================================
