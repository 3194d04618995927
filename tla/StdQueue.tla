------------------------------ MODULE StdQueue ------------------------------
(***************************************************************************)
(* src/stdlib/queue.HC: a queue of I64 in a ring buffer that doubles when  *)
(* it is full.  The ring is a function from slot numbers to what the slot  *)
(* holds; a slot nobody wrote since MAlloc holds Junk.  MAlloc is taken to *)
(* succeed, as QueueInit and QueueEnqueue take it.                         *)
(***************************************************************************)
EXTENDS Integers, Sequences

CONSTANTS
    Values,         \* what clients enqueue
    Junk,           \* the content of memory nobody has written
    InitialCap,     \* capacity after QueueInit: 16
    RestartCap,     \* capacity assumed for a queue without a buffer: 4
    CapLimit        \* a buffer larger than this does not grow: 250000000

ASSUME ValuesAssumption == Values \subseteq Int /\ Junk \notin Int

ASSUME CapAssumption ==
    /\ InitialCap \in Nat \ {0}
    /\ RestartCap \in Nat \ {0}
    /\ CapLimit \in Nat
    /\ RestartCap <= CapLimit

VARIABLES
    data,       \* the buffer
    cap,        \* its number of slots
    head,       \* slot of the oldest element
    tail,       \* slot the next element goes to
    cnt,        \* number of elements
    result      \* what the last QueueDequeue, QueuePeek or QueueSize returned

vars == <<data, cap, head, tail, cnt, result>>

Slots(n) == 0 .. n - 1
MAlloc(n) == [s \in Slots(n) |-> Junk]

\* QueueInit.  The program calls it once, before anything else; later calls
\* would only drop the old buffer.
Init ==
    /\ cap = InitialCap
    /\ head = 0 /\ tail = 0 /\ cnt = 0
    /\ data = MAlloc(InitialCap)
    /\ result = 0

QueueFree ==
    /\ data' = MAlloc(0)
    /\ cap' = 0 /\ head' = 0 /\ tail' = 0 /\ cnt' = 0
    /\ UNCHANGED result

OldCap == IF cap <= 0 THEN RestartCap ELSE cap

\* MUTANT of Unrolled: growing copies the slots as they lie.
UnrolledAsTheyLie(n) ==
    [s \in Slots(n) |-> IF s < cnt THEN data[s] ELSE Junk]

\* The new buffer holds the elements from slot 0 on.
Unrolled(n) ==
    [s \in Slots(n) |-> IF s < cnt THEN data[(head + s) % OldCap] ELSE Junk]

\* The tail of QueueEnqueue: write at slot t of buffer d, which has n slots.
Store(d, t, n, v) ==
    /\ data' = [d EXCEPT ![t] = v]
    /\ tail' = (t + 1) % n
    /\ cnt' = cnt + 1
    /\ UNCHANGED result

EnqueueInPlace(v) ==
    /\ cnt < cap
    /\ Store(data, tail, cap, v)
    /\ UNCHANGED <<cap, head>>

\* The buffer is full.  A queue without a buffer (cap 0, after QueueFree) comes
\* here too and starts again with twice RestartCap slots.
EnqueueGrown(v) ==
    /\ cnt >= cap
    /\ OldCap <= CapLimit
    /\ cap' = 2 * OldCap
    /\ head' = 0
    /\ Store(Unrolled(2 * OldCap), cnt, 2 * OldCap, v)

EnqueueRefused ==
    /\ cnt >= cap
    /\ OldCap > CapLimit
    /\ UNCHANGED vars

QueueDequeue ==
    /\ result' = IF cnt = 0 THEN 0 ELSE data[head]
    /\ IF cnt = 0
       THEN UNCHANGED <<head, cnt>>
       ELSE head' = (head + 1) % cap /\ cnt' = cnt - 1
    /\ UNCHANGED <<data, cap, tail>>

QueuePeek ==
    /\ result' = IF cnt # 0 THEN data[head] ELSE 0
    /\ UNCHANGED <<data, cap, head, tail, cnt>>

QueueSize ==
    /\ result' = cnt
    /\ UNCHANGED <<data, cap, head, tail, cnt>>

Next ==
    \/ QueueFree
    \/ \E v \in Values : EnqueueInPlace(v) \/ EnqueueGrown(v)
    \/ EnqueueRefused
    \/ QueueDequeue
    \/ QueuePeek
    \/ QueueSize

Spec == Init /\ [][Next]_vars

(***************************************************************************)
(* Properties                                                              *)
(***************************************************************************)
\* Every field has its type and the buffer has as many slots as cap says.
TypeOK ==
    /\ cap \in Nat /\ head \in Nat /\ tail \in Nat /\ cnt \in Nat
    /\ data \in [Slots(cap) -> Values \union {Junk}]
    /\ result \in Int

\* head, tail and cnt describe one arc of the ring, also after it wrapped, grew
\* or was freed, and no slot of that arc is uninitialised memory.
RingConsistent ==
    /\ cnt <= cap
    /\ IF cap = 0
       THEN head = 0 /\ tail = 0
       ELSE /\ head < cap
            /\ tail = (head + cnt) % cap
            /\ \A i \in Slots(cnt) : data[(head + i) % cap] # Junk

\* The elements in the order QueueDequeue would return them.
Contents == [i \in 1 .. cnt |-> data[(head + i - 1) % cap]]

Abstract == INSTANCE ItemSequence WITH items <- Contents, Indices <- {}, Exit <- "front"

\* The ring buffer is a first-in first-out queue: no interleaving of wrapping,
\* growing, draining and freeing loses, repeats or reorders an element.
IsFifoQueue == Abstract!Spec
=============================================================================
