------------------------------ MODULE VarArgs ------------------------------
(***************************************************************************)
(* The extra arguments of variadic HolyC functions in compiled code.  The  *)
(* call site writes them to a buffer of the thread (LLVMCodegen, CallExpr) *)
(* and the callee reads the buffer (holyc_rt, __vararg_get), so an         *)
(* activation sees what the last such call left there.                     *)
(*                                                                         *)
(* An activation keeps, as history, the arguments it was given and whether *)
(* a call has passed extra arguments since it began.                       *)
(***************************************************************************)
EXTENDS Integers, Sequences

CONSTANTS
  Values,       \* the values of arguments
  Slots,        \* HOLYC_VA_MAX, the size of the buffer
  MaxExtra,     \* bound: how many extra arguments a call passes
  MaxActive,    \* bound: how many calls are active
  Beyond        \* what a read past the end of the buffer returns

VARIABLES
  stack,   \* the active variadic calls, the innermost last
  buf,     \* holyc_va_buf
  n        \* holyc_va_n

vars == <<stack, buf, n>>

Index == 0 .. (Slots - 1)
Extras == UNION {[1 .. k -> Values] : k \in 0 .. MaxExtra}
Activation == [extra : Extras, undisturbed : BOOLEAN]

\* __holyc_va_set_count and then one __holyc_va_store for each argument:
\* those that find no slot are dropped.
Passed(extra) ==
  /\ n' = Len(extra)
  /\ buf' = [i \in Index |-> IF i < Len(extra) THEN extra[i + 1] ELSE buf[i]]

\* MUTANT of Call: the first slot is 1.
CallFromOne(extra) ==
  /\ Len(stack) < MaxActive
  /\ IF extra # <<>>
     THEN /\ n' = Len(extra)
          /\ buf' = [i \in Index |->
                       IF i \in 1 .. Len(extra) THEN extra[i] ELSE buf[i]]
          /\ stack' = Append([k \in DOMAIN stack |->
                                [stack[k] EXCEPT !.undisturbed = FALSE]],
                             [extra |-> extra, undisturbed |-> TRUE])
     ELSE /\ UNCHANGED <<buf, n>>
          /\ stack' = Append(stack, [extra |-> extra, undisturbed |-> TRUE])

\* A call without extra arguments leaves the buffer and its count as they are.
Call(extra) ==
  /\ Len(stack) < MaxActive
  /\ IF extra # <<>>
     THEN /\ Passed(extra)
          /\ stack' = Append([k \in DOMAIN stack |->
                                [stack[k] EXCEPT !.undisturbed = FALSE]],
                             [extra |-> extra, undisturbed |-> TRUE])
     ELSE /\ UNCHANGED <<buf, n>>
          /\ stack' = Append(stack, [extra |-> extra, undisturbed |-> TRUE])

Return ==
  /\ stack # <<>>
  /\ stack' = SubSeq(stack, 1, Len(stack) - 1)
  /\ UNCHANGED <<buf, n>>

\* __holyc_vararg_get: the index is compared with the count alone.
Get(i) == IF i >= n THEN 0 ELSE IF i \in Index THEN buf[i] ELSE Beyond

Init ==
  /\ stack = <<>>
  /\ buf = [i \in Index |-> 0]
  /\ n = 0

Next == Return \/ \E extra \in Extras : Call(extra)

Spec == Init /\ [][Next]_vars

-----------------------------------------------------------------------------
(* Properties.                                                             *)

ActivationsTyped == \A k \in DOMAIN stack : stack[k] \in Activation

\* The activation reads its own arguments and their number.
Sees(a) == n = Len(a.extra) /\ \A i \in 1 .. Len(a.extra) : Get(i - 1) = a.extra[i]

\* A variadic function that was given arguments, no more than the buffer
\* holds, reads them until a call below it passes extra arguments of its own,
\* also after calls that pass none have come and gone.
ReadsOwnUntilOthersPass ==
  \A k \in DOMAIN stack :
    stack[k].undisturbed /\ Len(stack[k].extra) \in 1 .. Slots => Sees(stack[k])

\* "call sites store the extra arguments here before the call;
\* __vararg_count()/__vararg_get(i) read them from within the callee"
\* (holyc_rt.cpp), whatever the callee called before it reads.
ReadsOwn == stack # <<>> => Sees(stack[Len(stack)])
=============================================================================
