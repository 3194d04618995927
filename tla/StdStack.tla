------------------------------ MODULE StdStack ------------------------------
(***************************************************************************)
(* src/stdlib/stack.HC: CStack, a stack of I64.  MAlloc is taken to        *)
(* succeed, as StackInit and StackPush take it.                            *)
(***************************************************************************)
EXTENDS Integers, Sequences

CONSTANTS
    Values,         \* what clients push
    Junk,           \* the content of memory nobody has written
    InitialCap,     \* capacity after StackInit: 16
    RestartCap,     \* capacity assumed for a stack without a buffer: 4
    CapLimit        \* a buffer larger than this does not grow: 250000000

VARIABLES
    data,       \* the buffer
    cap, top,
    result      \* what the last StackPop, StackPeek or StackSize returned

vars == <<data, cap, top, result>>

Slots(n) == 0 .. n - 1
MAlloc(n) == [s \in Slots(n) |-> Junk]

Init ==
    /\ cap = InitialCap /\ top = 0
    /\ data = MAlloc(InitialCap)
    /\ result = 0

StackFree ==
    /\ data' = MAlloc(0) /\ cap' = 0 /\ top' = 0
    /\ UNCHANGED result

OldCap == IF cap <= 0 THEN RestartCap ELSE cap

Grown(n) == [s \in Slots(n) |-> IF s < top THEN data[s] ELSE Junk]

PushInPlace(v) ==
    /\ top < cap
    /\ data' = [data EXCEPT ![top] = v] /\ top' = top + 1
    /\ UNCHANGED <<cap, result>>

PushAndGrow(v) ==
    /\ top >= cap
    /\ OldCap <= CapLimit
    /\ cap' = 2 * OldCap
    /\ data' = [Grown(2 * OldCap) EXCEPT ![top] = v] /\ top' = top + 1
    /\ UNCHANGED result

PushRefused ==
    /\ top >= cap
    /\ OldCap > CapLimit
    /\ UNCHANGED vars

\* MUTANT of StackPop: the slot is read before top is lowered.
StackPopReadsTop ==
    /\ top' = IF top = 0 THEN 0 ELSE top - 1
    /\ result' = IF top = 0 THEN 0 ELSE IF top < cap THEN data[top] ELSE Junk
    /\ UNCHANGED <<data, cap>>

StackPop ==
    /\ top' = IF top = 0 THEN 0 ELSE top - 1
    /\ result' = IF top = 0 THEN 0 ELSE data[top - 1]
    /\ UNCHANGED <<data, cap>>

StackPeek ==
    /\ result' = IF top = 0 THEN 0 ELSE data[top - 1]
    /\ UNCHANGED <<data, cap, top>>

StackSize == result' = top /\ UNCHANGED <<data, cap, top>>

Next ==
    \/ StackFree
    \/ \E v \in Values : PushInPlace(v) \/ PushAndGrow(v)
    \/ PushRefused
    \/ StackPop
    \/ StackPeek
    \/ StackSize

Spec == Init /\ [][Next]_vars

(***************************************************************************)
(* Properties                                                              *)
(***************************************************************************)
Items == [i \in 1 .. top |-> data[i - 1]]

Abstract == INSTANCE ItemSequence WITH items <- Items, Indices <- {}, Exit <- "back"

\* The last element pushed is the first popped, across growing, the limit at which
\* a push is dropped, and freeing.
IsStack == Abstract!Spec
=============================================================================
