----------------------------- MODULE StdVector ------------------------------
(***************************************************************************)
(* src/stdlib/vector.HC: CVec, a dynamic array of I64.  MAlloc is taken to *)
(* succeed, as VecInit and VecGrow take it.                                *)
(***************************************************************************)
EXTENDS Integers, Sequences

CONSTANTS
    Values,         \* what clients store
    Indices,        \* the indices clients pass to VecGet and VecSet
    Junk,           \* the content of memory nobody has written
    InitialCap,     \* capacity after VecInit: 8
    RestartCap,     \* capacity assumed for a vector without a buffer: 4
    CapLimit,       \* a buffer larger than this does not grow: 250000000
    MaxLen          \* bound: the longest vector a client builds

VARIABLES
    data,       \* the buffer
    len, cap,
    result      \* what the last VecPop, VecGet or VecLen returned

vars == <<data, len, cap, result>>

Slots(n) == 0 .. n - 1
MAlloc(n) == [s \in Slots(n) |-> Junk]

Init ==
    /\ cap = InitialCap /\ len = 0
    /\ data = MAlloc(InitialCap)
    /\ result = 0

VecFree ==
    /\ data' = MAlloc(0) /\ len' = 0 /\ cap' = 0
    /\ UNCHANGED result

OldCap == IF cap <= 0 THEN RestartCap ELSE cap

Grown(n) == [s \in Slots(n) |-> IF s < len THEN data[s] ELSE Junk]

\* The end of VecPush.  A write outside the buffer leaves the buffer as it was.
Store(d, v) == data' = [d EXCEPT ![len] = v] /\ len' = len + 1

NeedsGrowth == len >= cap

PushInPlace(v) ==
    /\ len < MaxLen
    /\ ~ NeedsGrowth
    /\ Store(data, v)
    /\ UNCHANGED <<cap, result>>

\* VecGrow returns without growing a buffer that is over the limit; VecPush does
\* not look.
PushAndGrow(v) ==
    /\ len < MaxLen
    /\ NeedsGrowth
    /\ cap' = IF OldCap > CapLimit THEN OldCap ELSE 2 * OldCap
    /\ Store(IF OldCap > CapLimit THEN data ELSE Grown(2 * OldCap), v)
    /\ UNCHANGED result

VecPop ==
    /\ len' = IF len <= 0 THEN len ELSE len - 1
    /\ result' = IF len <= 0 THEN 0 ELSE data[len - 1]
    /\ UNCHANGED <<data, cap>>

InRange(i) == ~ (i < 0 \/ i >= len)

VecGet(i) ==
    /\ result' = IF InRange(i) THEN data[i] ELSE 0
    /\ UNCHANGED <<data, len, cap>>

VecSet(i, v) ==
    /\ data' = IF InRange(i) THEN [data EXCEPT ![i] = v] ELSE data
    /\ UNCHANGED <<len, cap, result>>

VecLen == result' = len /\ UNCHANGED <<data, len, cap>>

Next ==
    \/ VecFree
    \/ \E v \in Values : PushInPlace(v) \/ PushAndGrow(v)
    \/ VecPop
    \/ \E i \in Indices : VecGet(i) \/ \E v \in Values : VecSet(i, v)
    \/ VecLen

Spec == Init /\ [][Next]_vars

(***************************************************************************)
(* Properties                                                              *)
(***************************************************************************)
Items == [i \in 1 .. len |-> data[i - 1]]

Abstract == INSTANCE ItemSequence WITH items <- Items, Exit <- "back"

\* The vector is a sequence: growing, shrinking and freeing never change an element
\* that was not addressed, and an index out of range reads 0 and writes nothing.
IsSequence == Abstract!Spec
=============================================================================
