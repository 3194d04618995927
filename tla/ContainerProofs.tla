-------------------------- MODULE ContainerProofs ---------------------------
(***************************************************************************)
(* Proofs about the containers of src/stdlib, for any sizes and elements.  *)
(* The growing buffers (the queue, the vector and the stack) implement the *)
(* sequences they promise; then those whose cells are probed or linked,    *)
(* the hash set, the search tree and the lists; and the sort.              *)
(***************************************************************************)
EXTENDS StdQueue, CommonLemmas, FiniteSetTheorems

CONSTANTS
  Indices,  \* the indices clients pass to VecGet and VecSet
  MaxLen,   \* the longest vector a client builds
  SetKeys,  \* the values clients add, ask for and remove
  SetSize,  \* SET_SIZE
  TreeKeys, \* the values clients insert and look for
  TreeMax   \* TREE_MAX

VARIABLES
  vec, vec_len, vec_cap, vec_result,                 \* StdVector
  stk, stk_cap, stk_top, stk_result,                 \* StdStack
  set_keys, set_used, set_removed,                   \* StdSet
  tree_key, tree_left, tree_right, tree_size, root   \* StdTree

Vector == INSTANCE StdVector
  WITH data <- vec, len <- vec_len, cap <- vec_cap, result <- vec_result
Stack == INSTANCE StdStack
  WITH data <- stk, cap <- stk_cap, top <- stk_top, result <- stk_result
Set == INSTANCE StdSet WITH Keys <- SetKeys, Size <- SetSize, removed <- set_removed
Tree == INSTANCE StdTree WITH Keys <- TreeKeys, Max <- TreeMax

ASSUME SetAssumption == SetKeys \subseteq Int /\ SetSize \in Nat \ {0}
ASSUME TreeAssumption == TreeKeys \subseteq Int /\ TreeMax \in Nat \ {0}

\* StdSet: as long as nothing is removed, every stored key is found and is stored
\* once; and a key that was just removed is not found, whatever happened before.
SetAnswersRight == Set!SetAnswersRight

\* StdTree: the links form one tree, and searches find what was inserted.
TreeIsSearchTree == Tree!TreeIsSearchTree

-----------------------------------------------------------------------------
(* The queue.                                                              *)

\* An index that has run at most once past the end of a ring of n slots.
LEMMA WrapOnce ==
  ASSUME NEW n \in Nat \ {0}, NEW a \in Nat, a - n < n
  PROVE  a % n = IF a < n THEN a ELSE a - n
<1>1. CASE a < n
  BY <1>1
<1>2. CASE a >= n
  BY <1>2
<1>3. QED
  BY <1>1, <1>2

\* A remainder is a natural number below the divisor.
LEMMA RemainderInRange ==
  ASSUME NEW n \in Nat \ {0}, NEW a \in Nat
  PROVE  a % n \in Nat /\ a % n < n
OBVIOUS

LEMMA SmallRemainder ==
  ASSUME NEW n \in Nat \ {0}, NEW a \in Nat, a < n
  PROVE  a % n = a
OBVIOUS

QueueInv == TypeOK /\ RingConsistent

\* The slot of element i, without the remainder.
LEMMA SlotOfElement ==
  ASSUME QueueInv, cap # 0, NEW i \in 0 .. cap
  PROVE  /\ cap \in Nat \ {0} /\ head < cap
         /\ (head + i) % cap = IF head + i < cap THEN head + i ELSE (head + i) - cap
         /\ (head + i) % cap \in Slots(cap)
<1>1. cap \in Nat \ {0} /\ head \in Nat /\ head < cap
  BY DEF QueueInv, TypeOK, RingConsistent
<1>2. head + i \in Nat /\ (head + i) - cap < cap
  BY <1>1
<1>3. (head + i) % cap = IF head + i < cap THEN head + i ELSE (head + i) - cap
  BY <1>1, <1>2, WrapOnce
<1>4. QED
  BY <1>1, <1>3 DEF Slots

\* What QueueDequeue would return is a sequence of values.
LEMMA ContentsTyped ==
  ASSUME QueueInv
  PROVE  /\ Contents \in Seq(Values)
         /\ Len(Contents) = cnt
         /\ \A i \in 1 .. cnt : Contents[i] = data[(head + i - 1) % cap]
<1>1. cnt \in Nat /\ cap \in Nat /\ head \in Nat /\ cnt <= cap
  BY DEF QueueInv, TypeOK, RingConsistent
<1>2. \A i \in 1 .. cnt : data[(head + i - 1) % cap] \in Values
  <2> SUFFICES ASSUME NEW i \in 1 .. cnt
               PROVE  data[(head + i - 1) % cap] \in Values
    OBVIOUS
  <2>1. cap # 0 /\ i - 1 \in 0 .. cap /\ i - 1 \in Slots(cnt)
    BY <1>1 DEF Slots
  <2>2. (head + (i - 1)) % cap \in Slots(cap)
    BY <2>1, SlotOfElement
  <2>3. data[(head + (i - 1)) % cap] # Junk
    BY <2>1 DEF QueueInv, RingConsistent
  <2>4. head + (i - 1) = head + i - 1
    BY <1>1
  <2>5. QED
    BY <2>2, <2>3, <2>4 DEF QueueInv, TypeOK
<1>3. Contents \in [1 .. cnt -> Values]
  BY <1>2 DEF Contents
<1>4. Contents \in Seq(Values) /\ Len(Contents) = cnt
  BY <1>1, <1>3, FunctionIsSequence
<1>5. \A i \in 1 .. cnt : Contents[i] = data[(head + i - 1) % cap]
  BY DEF Contents
<1>6. QED
  BY <1>4, <1>5

-----------------------------------------------------------------------------
LEMMA InitEstablishes == Init => QueueInv
<1> SUFFICES ASSUME Init PROVE QueueInv
  OBVIOUS
<1>1. cap \in Nat \ {0} /\ head = 0 /\ tail = 0 /\ cnt = 0 /\ result = 0
  BY CapAssumption DEF Init
<1>2. TypeOK
  BY <1>1 DEF Init, TypeOK, MAlloc
<1>3. (head + cnt) % cap = 0
  BY <1>1
<1>4. RingConsistent
  BY <1>1, <1>3 DEF RingConsistent, Slots
<1>5. QED
  BY <1>2, <1>4 DEF QueueInv

\* Writing element number cnt of a ring that has room for it.
LEMMA StoreKeepsRing ==
  ASSUME QueueInv, NEW v \in Values, EnqueueInPlace(v)
  PROVE  QueueInv'
<1>1. /\ cap \in Nat \ {0} /\ head \in Nat /\ head < cap /\ cnt \in Nat /\ cnt < cap
      /\ tail = (head + cnt) % cap /\ tail \in Nat
      /\ data \in [Slots(cap) -> Values \union {Junk}]
  BY DEF QueueInv, TypeOK, RingConsistent, EnqueueInPlace
<1>2. /\ cap' = cap /\ head' = head /\ cnt' = cnt + 1 /\ result' = result
      /\ data' = [data EXCEPT ![tail] = v] /\ tail' = (tail + 1) % cap
  BY DEF EnqueueInPlace, Store
<1>3. /\ tail = IF head + cnt < cap THEN head + cnt ELSE (head + cnt) - cap
      /\ tail \in Slots(cap)
  <2>1. cnt \in 0 .. cap /\ cap # 0
    BY <1>1
  <2>2. QED
    BY <1>1, <2>1, SlotOfElement
<1>4. tail + 1 \in Nat /\ (tail + 1) - cap < cap
  BY <1>1, <1>3 DEF Slots
<1>5. tail' = IF tail + 1 < cap THEN tail + 1 ELSE (tail + 1) - cap
  BY <1>1, <1>2, <1>4, WrapOnce
<1>6. TypeOK'
  BY <1>1, <1>2, <1>3, <1>4, <1>5 DEF QueueInv, TypeOK
<1>7. (head + (cnt + 1)) % cap =
        IF head + (cnt + 1) < cap THEN head + (cnt + 1) ELSE (head + (cnt + 1)) - cap
  BY <1>1, SlotOfElement
<1>8. tail' = (head + (cnt + 1)) % cap
  BY <1>1, <1>3, <1>5, <1>7
<1>9. \A i \in Slots(cnt + 1) : data'[(head + i) % cap] # Junk
  <2> SUFFICES ASSUME NEW i \in Slots(cnt + 1)
               PROVE  data'[(head + i) % cap] # Junk
    OBVIOUS
  <2>1. i \in 0 .. cap
    BY <1>1 DEF Slots
  <2>2. (head + i) % cap = IF head + i < cap THEN head + i ELSE (head + i) - cap
    BY <1>1, <2>1, SlotOfElement
  <2>3. (head + i) % cap \in Slots(cap)
    BY <1>1, <2>1, SlotOfElement
  <2>4. CASE i = cnt
    <3>1. data'[tail] = v
      BY <1>1, <1>2, <1>3
    <3>2. QED
      BY <1>1, <2>4, <3>1, ValuesAssumption
  <2>5. CASE i # cnt
    <3>1. i \in Slots(cnt)
      BY <1>1, <2>5 DEF Slots
    <3>2. (head + i) % cap # tail
      BY <1>1, <1>3, <2>2, <3>1 DEF Slots
    <3>3. data'[(head + i) % cap] = data[(head + i) % cap]
      BY <1>1, <1>2, <2>3, <3>2
    <3>4. QED
      BY <1>1, <3>1, <3>3 DEF QueueInv, RingConsistent
  <2>6. QED
    BY <2>4, <2>5
<1>10. RingConsistent'
  BY <1>1, <1>2, <1>8, <1>9 DEF RingConsistent, Slots
<1>11. QED
  BY <1>6, <1>10 DEF QueueInv

\* What growing leaves: the elements from slot 0 on, the new one behind them.
LEMMA GrownRing ==
  ASSUME QueueInv, NEW v \in Values, EnqueueGrown(v)
  PROVE  /\ cap' \in Nat \ {0} /\ cap' >= 2 /\ cnt < cap'
         /\ cap <= cnt /\ head' = 0 /\ cnt' = cnt + 1 /\ tail' = (cnt + 1) % cap'
         /\ result' = result
         /\ data' \in [Slots(cap') -> Values \union {Junk}]
         /\ data'[cnt] = v
         /\ \A i \in Slots(cnt) : /\ data'[i] = data[(head + i) % cap]
                                  /\ data'[i] # Junk
<1>1. cap \in Nat /\ cnt \in Nat /\ cnt <= cap /\ cap <= cnt /\ head \in Nat
  BY DEF QueueInv, TypeOK, RingConsistent, EnqueueGrown
<1>2. /\ OldCap \in Nat \ {0}
      /\ cnt <= OldCap
      /\ cap # 0 => OldCap = cap
      /\ cap = 0 => cnt = 0
  BY <1>1, CapAssumption DEF OldCap
<1> DEFINE n == 2 * OldCap
<1>3. n \in Nat \ {0} /\ n >= 2 /\ cnt < n
  BY <1>1, <1>2
<1>4. /\ cap' = n /\ head' = 0 /\ cnt' = cnt + 1 /\ tail' = (cnt + 1) % n
      /\ result' = result
      /\ data' = [Unrolled(n) EXCEPT ![cnt] = v]
  BY DEF EnqueueGrown, Store
<1>5. \A i \in Slots(cnt) : (head + i) % cap \in Slots(cap) /\ cap # 0
  BY <1>1, SlotOfElement DEF Slots
<1>6. \A i \in Slots(cnt) : data[(head + i) % cap] \in Values
  BY <1>5, <1>1 DEF QueueInv, TypeOK, RingConsistent
<1> HIDE DEF n
<1>7. \A s \in Slots(n) : Unrolled(n)[s] =
        IF s < cnt THEN data[(head + s) % OldCap] ELSE Junk
  BY DEF Unrolled
<1>8. \A i \in Slots(cnt) : i \in Slots(n) /\ Unrolled(n)[i] = data[(head + i) % cap]
  BY <1>1, <1>2, <1>3, <1>5, <1>7 DEF Slots
<1>9. Unrolled(n) \in [Slots(n) -> Values \union {Junk}]
  <2>1. \A s \in Slots(n) : Unrolled(n)[s] \in Values \union {Junk}
    BY <1>1, <1>6, <1>7, <1>8 DEF Slots
  <2>2. QED
    BY <2>1 DEF Unrolled
<1>10. cnt \in Slots(n) /\ \A i \in Slots(cnt) : i # cnt
  BY <1>1, <1>3 DEF Slots
<1>11. /\ data' \in [Slots(n) -> Values \union {Junk}]
       /\ data'[cnt] = v
       /\ \A i \in Slots(cnt) : data'[i] = data[(head + i) % cap]
  BY <1>4, <1>8, <1>9, <1>10
<1>12. QED
  BY <1>1, <1>3, <1>4, <1>6, <1>11, ValuesAssumption

LEMMA GrowKeepsRing ==
  ASSUME QueueInv, NEW v \in Values, EnqueueGrown(v)
  PROVE  QueueInv'
<1>1. cnt \in Nat /\ result \in Int /\ cnt + 1 \in Nat
  BY DEF QueueInv, TypeOK
<1>2. /\ cap' \in Nat \ {0} /\ cap' >= 2 /\ cnt < cap'
      /\ cap <= cnt /\ head' = 0 /\ cnt' = cnt + 1 /\ tail' = (cnt + 1) % cap'
      /\ result' = result
      /\ data' \in [Slots(cap') -> Values \union {Junk}]
      /\ data'[cnt] = v
      /\ \A i \in Slots(cnt) : data'[i] # Junk
  BY GrownRing
<1>3. tail' \in Nat
  BY <1>1, <1>2, RemainderInRange
<1>4. TypeOK'
  BY <1>1, <1>2, <1>3 DEF TypeOK
<1>5. \A i \in Slots(cnt + 1) : i \in Nat /\ i < cap' /\ data'[i] # Junk
  <2>1. \A i \in Slots(cnt + 1) : i \in Nat /\ (i \in Slots(cnt) \/ i = cnt)
    BY <1>1 DEF Slots
  <2>2. data'[cnt] # Junk
    BY <1>2, ValuesAssumption
  <2>3. \A i \in Slots(cnt) : i < cap'
    BY <1>1, <1>2 DEF Slots
  <2>4. QED
    BY <1>2, <2>1, <2>2, <2>3
<1>6. \A i \in Slots(cnt + 1) : (0 + i) % cap' = i
  BY <1>2, <1>5
<1>7. RingConsistent'
  BY <1>1, <1>2, <1>5, <1>6 DEF RingConsistent
<1>8. QED
  BY <1>4, <1>7 DEF QueueInv

\* Counting from the second element is counting from the first plus one.
LEMMA SecondSlot ==
  ASSUME QueueInv, cap # 0, NEW i \in 0 .. cap - 1
  PROVE  /\ (head + 1) % cap \in Nat /\ (head + 1) % cap < cap
         /\ (((head + 1) % cap) + i) % cap = (head + (i + 1)) % cap
<1>1. cap \in Nat \ {0} /\ head \in Nat /\ head < cap
  BY DEF QueueInv, TypeOK, RingConsistent
<1> DEFINE h == (head + 1) % cap
<1>2. h = IF head + 1 < cap THEN head + 1 ELSE (head + 1) - cap
  BY <1>1, SlotOfElement
<1>3. h \in Nat /\ h < cap
  BY <1>1, <1>2
<1>4. (head + (i + 1)) % cap =
        IF head + (i + 1) < cap THEN head + (i + 1) ELSE (head + (i + 1)) - cap
  BY <1>1, SlotOfElement
<1> HIDE DEF h
<1>5. h + i \in Nat /\ (h + i) - cap < cap
  BY <1>1, <1>3
<1>6. (h + i) % cap = IF h + i < cap THEN h + i ELSE (h + i) - cap
  BY <1>1, <1>5, WrapOnce
<1>7. (h + i) % cap = (head + (i + 1)) % cap
  BY <1>1, <1>2, <1>4, <1>6
<1>8. QED
  BY <1>3, <1>7 DEF h

LEMMA DequeueKeepsRing ==
  ASSUME QueueInv, QueueDequeue
  PROVE  QueueInv'
<1>1. /\ cap \in Nat /\ head \in Nat /\ tail \in Nat /\ cnt \in Nat /\ cnt <= cap
      /\ data \in [Slots(cap) -> Values \union {Junk}] /\ result \in Int
  BY DEF QueueInv, TypeOK, RingConsistent
<1>2. cap' = cap /\ data' = data /\ tail' = tail
  BY DEF QueueDequeue
<1>3. CASE cnt = 0
  <2>1. head' = head /\ cnt' = cnt /\ result' = 0
    BY <1>3 DEF QueueDequeue
  <2>2. TypeOK'
    BY <1>1, <1>2, <2>1 DEF TypeOK
  <2>3. RingConsistent'
    BY <1>2, <2>1 DEF QueueInv, RingConsistent
  <2>4. QED
    BY <2>2, <2>3 DEF QueueInv
<1>4. CASE cnt # 0
  <2>0. cap \in Nat \ {0} /\ head < cap /\ head % cap = head /\ 0 \in Slots(cnt)
    BY <1>1, <1>4 DEF QueueInv, RingConsistent, Slots
  <2>1. head' = (head + 1) % cap /\ cnt' = cnt - 1 /\ result' = data[head]
    BY <1>4 DEF QueueDequeue
  <2>2. data[head] # Junk
    BY <1>1, <2>0 DEF QueueInv, RingConsistent
  <2>3. data[head] \in Values
    BY <1>1, <2>0, <2>2 DEF Slots
  <2>4. head' \in Nat /\ head' < cap
    BY <2>0, <2>1, RemainderInRange, <1>1
  <2>5. TypeOK'
    BY <1>1, <1>2, <1>4, <2>1, <2>3, <2>4, ValuesAssumption DEF TypeOK
  <2>6. \A i \in 0 .. cap - 1 : (head' + i) % cap = (head + (i + 1)) % cap
    BY <2>0, <2>1, SecondSlot
  <2>7. tail = (head' + (cnt - 1)) % cap
    <3>1. cnt - 1 \in 0 .. cap - 1 /\ (cnt - 1) + 1 = cnt
      BY <1>1, <1>4
    <3>2. QED
      BY <2>0, <2>6, <3>1 DEF QueueInv, RingConsistent
  <2>8. \A i \in Slots(cnt - 1) : data[(head' + i) % cap] # Junk
    <3>1. \A i \in Slots(cnt - 1) : i \in 0 .. cap - 1 /\ i + 1 \in Slots(cnt)
      BY <1>1, <1>4 DEF Slots
    <3>2. QED
      BY <2>0, <2>6, <3>1 DEF QueueInv, RingConsistent
  <2>9. RingConsistent'
    BY <1>1, <1>2, <1>4, <2>0, <2>1, <2>4, <2>7, <2>8 DEF RingConsistent
  <2>10. QED
    BY <2>5, <2>9 DEF QueueInv
<1>5. QED
  BY <1>3, <1>4

\* Every step keeps the ring consistent.
LEMMA StepPreserves == QueueInv /\ [Next]_vars => QueueInv'
<1> SUFFICES ASSUME QueueInv, [Next]_vars PROVE QueueInv'
  OBVIOUS
<1>1. CASE QueueFree
  <2>1. Slots(0) = {}
    BY DEF Slots
  <2>2. /\ cap' = 0 /\ head' = 0 /\ tail' = 0 /\ cnt' = 0 /\ result' = result
        /\ data' = [s \in Slots(0) |-> Junk]
    BY <1>1 DEF QueueFree, MAlloc
  <2>3. QED
    BY <2>1, <2>2 DEF QueueInv, TypeOK, RingConsistent
<1>2. ASSUME NEW v \in Values, EnqueueInPlace(v) PROVE QueueInv'
  BY <1>2, StoreKeepsRing
<1>3. ASSUME NEW v \in Values, EnqueueGrown(v) PROVE QueueInv'
  BY <1>3, GrowKeepsRing
<1>4. CASE QueueDequeue
  BY <1>4, DequeueKeepsRing
<1>5. CASE QueuePeek
  <2>1. UNCHANGED <<data, cap, head, tail, cnt>>
    BY <1>5 DEF QueuePeek
  <2>2. result' \in Int
    <3>1. CASE cnt = 0
      BY <1>5, <3>1 DEF QueuePeek
    <3>2. CASE cnt # 0
      <4>1. /\ cnt \in Nat /\ cap \in Nat \ {0} /\ head \in Nat /\ head < cap
            /\ 0 \in Slots(cnt) /\ data \in [Slots(cap) -> Values \union {Junk}]
        BY <3>2 DEF QueueInv, TypeOK, RingConsistent, Slots
      <4>2. head \in Slots(cap) /\ (head + 0) % cap = head
        BY <4>1 DEF Slots
      <4>3. data[head] # Junk
        BY <4>1, <4>2 DEF QueueInv, RingConsistent
      <4>4. QED
        BY <1>5, <3>2, <4>1, <4>2, <4>3, ValuesAssumption DEF QueuePeek
    <3>3. QED
      BY <3>1, <3>2
  <2>3. QED
    BY <2>1, <2>2 DEF QueueInv, TypeOK, RingConsistent
<1>6. CASE QueueSize
  BY <1>6 DEF QueueSize, QueueInv, TypeOK, RingConsistent
<1>7. CASE EnqueueRefused \/ UNCHANGED vars
  BY <1>7 DEF EnqueueRefused, vars, QueueInv, TypeOK, RingConsistent
<1>8. QED
  BY <1>1, <1>2, <1>3, <1>4, <1>5, <1>6, <1>7 DEF Next

\* QueueInv holds in every state the queue can reach.
THEOREM QueueInvariant == Spec => []QueueInv
BY InitEstablishes, StepPreserves, PTL DEF Spec

\* The buffer has cap slots and the indices are natural numbers.
THEOREM QueueTypeCorrectness == Spec => []TypeOK
<1>1. QueueInv => TypeOK
  BY DEF QueueInv
<1>2. QED
  BY <1>1, QueueInvariant, PTL

\* head, tail and cnt describe one arc of initialised slots, for any capacities.
THEOREM RingConsistentHolds == Spec => []RingConsistent
<1>1. QueueInv => RingConsistent
  BY DEF QueueInv
<1>2. QED
  BY <1>1, QueueInvariant, PTL

-----------------------------------------------------------------------------
(***************************************************************************)
(* The ring buffer implements ItemSequence.                                *)
(***************************************************************************)
LEMMA ContentsUnchanged ==
  ASSUME UNCHANGED <<data, cap, head, cnt>>
  PROVE  Contents' = Contents
BY DEF Contents

\* An enqueued element goes behind all others, whether the buffer grows or not.
LEMMA EnqueueAppends ==
  ASSUME QueueInv, NEW v \in Values, EnqueueInPlace(v) \/ EnqueueGrown(v)
  PROVE  Contents' = Append(Contents, v) /\ result' = result
<1>0. cnt \in Nat /\ cap \in Nat /\ head \in Nat /\ cnt <= cap
  BY DEF QueueInv, TypeOK, RingConsistent
<1>1. /\ Contents \in Seq(Values) /\ Len(Contents) = cnt
      /\ \A i \in 1 .. cnt : Contents[i] = data[(head + i - 1) % cap]
  BY ContentsTyped
<1>2. cnt' = cnt + 1 /\ result' = result
  BY DEF EnqueueInPlace, EnqueueGrown, Store
<1>3. \A i \in 1 .. cnt + 1 :
        data'[(head' + i - 1) % cap'] = IF i = cnt + 1 THEN v ELSE Contents[i]
  <2>1. CASE EnqueueInPlace(v)
    <3>1. /\ cap \in Nat \ {0} /\ cnt < cap /\ cap' = cap /\ head' = head
          /\ tail = (head + cnt) % cap
          /\ data \in [Slots(cap) -> Values \union {Junk}]
          /\ data' = [data EXCEPT ![tail] = v]
      BY <1>0, <2>1 DEF EnqueueInPlace, Store, QueueInv, TypeOK, RingConsistent
    <3>2. \A j \in 0 .. cnt :
            /\ (head + j) % cap = IF head + j < cap THEN head + j ELSE (head + j) - cap
            /\ (head + j) % cap \in Slots(cap)
            /\ head < cap
      <4>1. \A j \in 0 .. cnt : j \in 0 .. cap /\ cap # 0
        BY <1>0, <3>1
      <4>2. QED
        BY <4>1, SlotOfElement
    <3>3. \A j \in 0 .. cnt :
            data'[(head + j) % cap] = IF j = cnt THEN v ELSE data[(head + j) % cap]
      <4> SUFFICES ASSUME NEW j \in 0 .. cnt
                   PROVE  data'[(head + j) % cap] =
                            IF j = cnt THEN v ELSE data[(head + j) % cap]
        OBVIOUS
      <4>1. (head + j) % cap = tail <=> j = cnt
        <5>1. /\ tail = IF head + cnt < cap THEN head + cnt ELSE (head + cnt) - cap
              /\ head < cap
          BY <1>0, <3>1, <3>2
        <5>2. (head + j) % cap = IF head + j < cap THEN head + j ELSE (head + j) - cap
          BY <3>2
        <5>3. QED
          BY <1>0, <3>1, <5>1, <5>2
      <4>2. QED
        BY <3>1, <3>2, <4>1
    <3>4. \A i \in 1 .. cnt + 1 : i - 1 \in 0 .. cnt /\ head + (i - 1) = head + i - 1
      BY <1>0
    <3>5. ASSUME NEW i \in 1 .. cnt + 1
          PROVE  data'[(head' + i - 1) % cap'] = IF i = cnt + 1 THEN v ELSE Contents[i]
      <4>1. i - 1 \in 0 .. cnt /\ head + (i - 1) = head + i - 1
        BY <3>4
      <4>2. i - 1 = cnt <=> i = cnt + 1
        BY <1>0
      <4>3. i # cnt + 1 => i \in 1 .. cnt
        BY <1>0
      <4>4. QED
        BY <1>1, <3>1, <3>3, <4>1, <4>2, <4>3
    <3>6. QED
      BY <3>5
  <2>2. CASE EnqueueGrown(v)
    <3>1. /\ cap' \in Nat \ {0} /\ cnt < cap' /\ head' = 0
          /\ data'[cnt] = v
          /\ \A i \in Slots(cnt) : data'[i] = data[(head + i) % cap]
      BY <2>2, GrownRing
    <3>2. \A j \in 0 .. cnt : (0 + j) % cap' = j
      <4>1. \A j \in 0 .. cnt : j \in Nat /\ j < cap'
        BY <1>0, <3>1
      <4>2. \A j \in 0 .. cnt : j % cap' = j
        BY <3>1, <4>1, SmallRemainder
      <4>3. \A j \in 0 .. cnt : 0 + j = j
        BY <4>1
      <4>4. QED
        BY <4>2, <4>3
    <3>3. \A j \in 0 .. cnt :
            data'[(0 + j) % cap'] = IF j = cnt THEN v ELSE data[(head + j) % cap]
      BY <1>0, <3>1, <3>2 DEF Slots
    <3>4. \A i \in 1 .. cnt + 1 : /\ i - 1 \in 0 .. cnt
                                  /\ head + (i - 1) = head + i - 1
                                  /\ 0 + (i - 1) = 0 + i - 1
      BY <1>0
    <3>5. ASSUME NEW i \in 1 .. cnt + 1
          PROVE  data'[(head' + i - 1) % cap'] = IF i = cnt + 1 THEN v ELSE Contents[i]
      <4>1. i - 1 \in 0 .. cnt /\ head + (i - 1) = head + i - 1
            /\ 0 + (i - 1) = 0 + i - 1
        BY <3>4
      <4>2. i - 1 = cnt <=> i = cnt + 1
        BY <1>0
      <4>3. i # cnt + 1 => i \in 1 .. cnt
        BY <1>0
      <4>4. QED
        BY <1>1, <3>1, <3>3, <4>1, <4>2, <4>3
    <3>6. QED
      BY <3>5
  <2>3. QED
    BY <2>1, <2>2
<1>4. Contents' = [i \in 1 .. cnt + 1 |-> data'[(head' + i - 1) % cap']]
  BY <1>2 DEF Contents
<1>5. \A i \in 1 .. cnt : Contents[i] \in Values
  BY <1>1
<1>6. /\ Contents' \in [1 .. cnt + 1 -> Values]
      /\ \A i \in 1 .. cnt : Contents'[i] = Contents[i]
      /\ Contents'[cnt + 1] = v
  <2>1. \A i \in 1 .. cnt + 1 : Contents'[i] = IF i = cnt + 1 THEN v ELSE Contents[i]
    BY <1>3, <1>4
  <2>2. \A i \in 1 .. cnt + 1 : i # cnt + 1 => i \in 1 .. cnt
    BY <1>0
  <2>3. \A i \in 1 .. cnt + 1 : Contents'[i] \in Values
    BY <1>5, <2>1, <2>2
  <2>4. Contents' \in [1 .. cnt + 1 -> Values]
    BY <1>4, <2>3
  <2>5. cnt + 1 \in 1 .. cnt + 1 /\ \A i \in 1 .. cnt : i \in 1 .. cnt + 1 /\ i # cnt + 1
    BY <1>0
  <2>6. QED
    BY <2>1, <2>4, <2>5
<1>7. QED
  BY <1>0, <1>1, <1>2, <1>6, AppendIs

\* The element QueuePeek and QueueDequeue look at is the first of Contents.
LEMMA FrontOfContents ==
  ASSUME QueueInv, cnt # 0
  PROVE  Contents # <<>> /\ data[head] = Head(Contents)
<1>1. /\ cnt \in Nat \ {0} /\ cap \in Nat \ {0} /\ head \in Nat /\ head < cap
  BY DEF QueueInv, TypeOK, RingConsistent
<1>2. /\ Contents \in Seq(Values) /\ Len(Contents) = cnt
      /\ \A i \in 1 .. cnt : Contents[i] = data[(head + i - 1) % cap]
  BY ContentsTyped
<1>3. (head + 1 - 1) % cap = head
  BY <1>1
<1>4. Contents[1] = data[head]
  BY <1>1, <1>2, <1>3
<1>5. QED
  BY <1>1, <1>2, <1>4

LEMMA EmptyContents ==
  ASSUME QueueInv
  PROVE  cnt = 0 <=> Contents = <<>>
<1>1. Contents \in Seq(Values) /\ Len(Contents) = cnt
  BY ContentsTyped
<1>2. QED
  BY <1>1

\* QueueDequeue takes the first element and keeps the order of the others.
LEMMA DequeueTakes ==
  ASSUME QueueInv, QueueDequeue, cnt # 0
  PROVE  Contents' = Tail(Contents) /\ result' = Head(Contents)
<1>1. /\ cnt \in Nat \ {0} /\ cap \in Nat \ {0} /\ head \in Nat /\ cnt <= cap
  BY DEF QueueInv, TypeOK, RingConsistent
<1>2. /\ Contents \in Seq(Values) /\ Len(Contents) = cnt
      /\ \A i \in 1 .. cnt : Contents[i] = data[(head + i - 1) % cap]
  BY ContentsTyped
<1>3. /\ cap' = cap /\ data' = data /\ head' = (head + 1) % cap /\ cnt' = cnt - 1
      /\ result' = data[head]
  BY DEF QueueDequeue
<1>4. \A j \in 0 .. cap - 1 : (head' + j) % cap = (head + (j + 1)) % cap
  BY <1>1, <1>3, SecondSlot
<1>5. head' \in Nat
  BY <1>1, <1>3, RemainderInRange
<1>6. \A i \in 1 .. cnt - 1 : /\ i - 1 \in 0 .. cap - 1
                              /\ head' + (i - 1) = head' + i - 1
                              /\ head + ((i - 1) + 1) = head + (i + 1) - 1
                              /\ i + 1 \in 1 .. cnt
  BY <1>1, <1>5
<1>7. \A i \in 1 .. cnt - 1 : data'[(head' + i - 1) % cap'] = Contents[i + 1]
  BY <1>2, <1>3, <1>4, <1>6
<1>8. Contents' = [i \in 1 .. cnt - 1 |-> data'[(head' + i - 1) % cap']]
  BY <1>3 DEF Contents
<1>9. \A i \in 1 .. cnt - 1 : Contents[i + 1] \in Values
  BY <1>2, <1>6
<1>10. /\ Contents' \in [1 .. cnt - 1 -> Values]
       /\ \A i \in 1 .. cnt - 1 : Contents'[i] = Contents[i + 1]
  BY <1>7, <1>8, <1>9
<1>11. Contents # <<>> /\ data[head] = Head(Contents)
  BY <1>1, FrontOfContents
<1>12. Contents' = Tail(Contents)
  BY <1>2, <1>10, <1>11, TailIs
<1>13. QED
  BY <1>3, <1>11, <1>12

LEMMA InitMapsToInit == Init => Abstract!Init
<1> SUFFICES ASSUME Init PROVE Contents = <<>> /\ result = 0
  BY DEF Abstract!Init
<1>1. QueueInv
  BY InitEstablishes
<1>2. cnt = 0 /\ result = 0
  BY DEF Init
<1>3. QED
  BY <1>1, <1>2, EmptyContents

\* Every step of the ring buffer is a step of the abstract queue or a stutter.
LEMMA StepMapsToStep ==
  QueueInv /\ [Next]_vars => [Abstract!Next]_(Abstract!vars)
<1> SUFFICES ASSUME QueueInv, [Next]_vars
             PROVE  Abstract!Next \/ UNCHANGED <<Contents, result>>
  BY DEF Abstract!vars
<1>0. Abstract!At(0) = IF cnt = 0 THEN 0 ELSE data[head]
  <2>1. Len(Contents) = cnt /\ cnt \in Nat
    BY ContentsTyped DEF QueueInv
  <2>2. cnt # 0 => Contents # <<>> /\ Head(Contents) = data[head]
    BY EmptyContents, FrontOfContents
  <2> QED
    BY <2>1, <2>2 DEF Abstract!At
<1>1. CASE QueueFree
  <2>1. cnt' = 0 /\ result' = result
    BY <1>1 DEF QueueFree
  <2>2. Contents' = [i \in 1 .. 0 |-> data'[(head' + i - 1) % cap']]
    BY <2>1 DEF Contents
  <2>3. Contents' = <<>>
    BY <2>2
  <2>4. QED
    BY <2>1, <2>3 DEF Abstract!Next, Abstract!Clear
<1>2. ASSUME NEW v \in Values, EnqueueInPlace(v) \/ EnqueueGrown(v)
      PROVE  Abstract!Next
  BY <1>2, EnqueueAppends DEF Abstract!Next, Abstract!Push
<1>3. CASE QueueDequeue
  <2>1. CASE cnt = 0
    <3>1. UNCHANGED <<data, cap, head, cnt>> /\ result' = 0
      BY <1>3, <2>1 DEF QueueDequeue
    <3>2. Contents' = Contents /\ Contents = <<>>
      BY <2>1, <3>1, ContentsUnchanged, EmptyContents
    <3>3. QED
      BY <1>0, <2>1, <3>1, <3>2 DEF Abstract!Next, Abstract!Take
  <2>2. CASE cnt # 0
    <3>1. Contents' = Tail(Contents) /\ result' = Head(Contents)
      BY <1>3, <2>2, DequeueTakes
    <3>2. Contents # <<>>
      BY <2>2, EmptyContents
    <3>3. QED
      BY <1>0, <2>2, <3>1, <3>2, DequeueTakes, FrontOfContents DEF Abstract!Next, Abstract!Take
  <2>3. QED
    BY <2>1, <2>2
<1>4. CASE QueuePeek
  <2>1. Contents' = Contents
    BY <1>4, ContentsUnchanged DEF QueuePeek
  <2>2. result' = Abstract!At(0)
    BY <1>0, <1>4 DEF QueuePeek
  <2>3. QED
    BY <2>1, <2>2 DEF Abstract!Next, Abstract!Look
<1>5. CASE QueueSize
  <2>1. Contents' = Contents
    BY <1>5, ContentsUnchanged DEF QueueSize
  <2>2. result' = Len(Contents)
    BY <1>5, ContentsTyped DEF QueueSize
  <2>3. QED
    BY <2>1, <2>2 DEF Abstract!Next, Abstract!Measure
<1>6. CASE EnqueueRefused \/ UNCHANGED vars
  <2>1. UNCHANGED <<data, cap, head, cnt>> /\ result' = result
    BY <1>6 DEF EnqueueRefused, vars
  <2>2. QED
    BY <2>1, ContentsUnchanged
<1>7. QED
  BY <1>1, <1>2, <1>3, <1>4, <1>5, <1>6 DEF Next

\* The ring buffer of queue.HC is a first-in first-out queue, for any elements,
\* any initial capacity and any limit.
THEOREM QueueIsFifo == Spec => IsFifoQueue
<1>1. Init => Abstract!Init
  BY InitMapsToInit
<1>2. QueueInv /\ [Next]_vars => [Abstract!Next]_(Abstract!vars)
  BY StepMapsToStep
<1>3. QED
  BY <1>1, <1>2, QueueInvariant, PTL DEF Spec, IsFifoQueue, Abstract!Spec


-----------------------------------------------------------------------------
(***************************************************************************)
(* The first slots of a buffer as a sequence: what the vector and the      *)
(* stack hold, and what each kind of step does to it.                      *)
(***************************************************************************)
Filled(d, n) == [i \in 1 .. n |-> d[i - 1]]

Replaced(f, k, v) == [f EXCEPT ![k] = v]

Changed(d, e, n, i, v) == \A s \in 0 .. n - 1 : e[s] = IF s = i THEN v ELSE d[s]

LEMMA FilledTyped ==
  ASSUME NEW d, NEW n \in Nat, \A s \in 0 .. n - 1 : d[s] \in Values
  PROVE  /\ Filled(d, n) \in Seq(Values) /\ Len(Filled(d, n)) = n
         /\ \A i \in 1 .. n : Filled(d, n)[i] = d[i - 1]
  BY DEF Filled

LEMMA FilledEmpty == \A d : Filled(d, 0) = <<>>
  BY DEF Filled

LEMMA FilledSame ==
  ASSUME NEW d, NEW e, NEW n \in Nat, \A s \in 0 .. n - 1 : e[s] = d[s]
  PROVE  Filled(e, n) = Filled(d, n)
  BY DEF Filled

LEMMA FilledGrows ==
  ASSUME NEW d, NEW e, NEW n \in Nat, NEW v \in Values,
         \A s \in 0 .. n - 1 : d[s] \in Values /\ e[s] = d[s],
         e[n] = v
  PROVE  Filled(e, n + 1) = Append(Filled(d, n), v)
<1>1. /\ Filled(d, n) \in Seq(Values) /\ Len(Filled(d, n)) = n
      /\ \A i \in 1 .. n : Filled(d, n)[i] = d[i - 1]
  BY FilledTyped
<1>2. \A s \in 0 .. (n + 1) - 1 : e[s] \in Values
  <2>1. \A s \in 0 .. (n + 1) - 1 : s = n \/ s \in 0 .. n - 1
    OBVIOUS
  <2> QED
    BY <2>1
<1>3. /\ Filled(e, n + 1) \in [1 .. n + 1 -> Values]
      /\ \A i \in 1 .. n + 1 : Filled(e, n + 1)[i] = e[i - 1]
  BY <1>2 DEF Filled
<1>4. \A i \in 1 .. n : i - 1 \in 0 .. n - 1 /\ i \in 1 .. n + 1
  OBVIOUS
<1>5. \A i \in 1 .. n : Filled(e, n + 1)[i] = Filled(d, n)[i]
  BY <1>1, <1>3, <1>4
<1>6. Filled(e, n + 1)[n + 1] = v
  BY <1>3
<1> QED
  BY <1>1, <1>3, <1>5, <1>6, AppendIs

LEMMA FilledShrinks ==
  ASSUME NEW d, NEW n \in Nat \ {0}, \A s \in 0 .. n - 1 : d[s] \in Values
  PROVE  /\ Filled(d, n) # <<>>
         /\ Filled(d, n - 1) = SubSeq(Filled(d, n), 1, n - 1)
<1>1. /\ Filled(d, n) \in Seq(Values) /\ Len(Filled(d, n)) = n
      /\ \A i \in 1 .. n : Filled(d, n)[i] = d[i - 1]
  BY FilledTyped
<1>2. /\ Filled(d, n - 1) \in [1 .. n - 1 -> Values]
      /\ \A i \in 1 .. n - 1 : Filled(d, n - 1)[i] = d[i - 1]
  BY DEF Filled
<1>3. Filled(d, n) # <<>>
  BY <1>1
<1>4. \A i \in 1 .. n - 1 : Filled(d, n - 1)[i] = Filled(d, n)[i]
  BY <1>1, <1>2
<1> QED
  BY <1>1, <1>2, <1>3, <1>4, PoppedIs

LEMMA FilledPut ==
  ASSUME NEW d, NEW e, NEW v, NEW n \in Nat, NEW i \in 0 .. n - 1,
         Changed(d, e, n, i, v)
  PROVE  Filled(e, n) = Replaced(Filled(d, n), i + 1, v)
<1> USE DEF Changed
<1>1. \A j \in 1 .. n : j - 1 \in 0 .. n - 1 /\ (j - 1 = i <=> j = i + 1)
  OBVIOUS
<1>2. \A j \in 1 .. n : e[j - 1] = IF j = i + 1 THEN v ELSE d[j - 1]
  BY <1>1
<1>3. Filled(e, n) = [j \in 1 .. n |-> IF j = i + 1 THEN v ELSE d[j - 1]]
  BY <1>2 DEF Filled
<1> QED
  BY <1>3, Zenon DEF Filled, Replaced

-----------------------------------------------------------------------------
(***************************************************************************)
(* The vector.  VecPush writes past the end of a buffer that VecGrow has   *)
(* refused to enlarge, so a client must keep to fewer elements than the    *)
(* limit; it then holds the items in its first slots.                      *)
(***************************************************************************)
ASSUME VectorBounds == Indices \subseteq Int /\ MaxLen \in Nat /\ MaxLen <= CapLimit + 1

VectorInv ==
  /\ vec_cap \in Nat /\ vec_len \in Nat /\ vec_len <= vec_cap
  /\ vec \in [0 .. vec_cap - 1 -> Values \cup {Junk}]
  /\ \A s \in 0 .. vec_len - 1 : vec[s] \in Values

LEMMA VectorItems == Vector!Items = Filled(vec, vec_len)
  BY DEF Vector!Items, Filled

\* A push that grows finds the limit not yet reached.
LEMMA PushMayGrow ==
  ASSUME VectorInv, NEW v \in Values, Vector!PushAndGrow(v)
  PROVE  /\ vec_cap' = 2 * Vector!OldCap /\ vec_cap' \in Nat /\ vec_len < vec_cap'
         /\ vec' = [Vector!Grown(2 * Vector!OldCap) EXCEPT ![vec_len] = v]
         /\ vec_len' = vec_len + 1 /\ vec_result' = vec_result
<1>1. Vector!OldCap \in Nat \ {0} /\ vec_len <= Vector!OldCap
  BY CapAssumption DEF VectorInv, Vector!OldCap
<1>2. Vector!OldCap <= CapLimit
  BY <1>1, CapAssumption, VectorBounds
     DEF VectorInv, Vector!PushAndGrow, Vector!NeedsGrowth, Vector!OldCap
<1> QED
  BY <1>1, <1>2, CapAssumption DEF VectorInv, Vector!PushAndGrow, Vector!Store

\* A buffer grown to n slots keeps the elements, and has room for one more.
LEMMA VectorGrown ==
  ASSUME VectorInv
  PROVE  \A n \in Nat, v \in Values : \A e :
           vec_len < n /\ e = Replaced(Vector!Grown(n), vec_len, v) =>
             /\ e \in [0 .. n - 1 -> Values \cup {Junk}] /\ e[vec_len] = v
             /\ \A s \in 0 .. vec_len - 1 : e[s] = vec[s]
<1> SUFFICES ASSUME NEW n \in Nat, NEW v \in Values, NEW e, vec_len < n,
                    e = Replaced(Vector!Grown(n), vec_len, v)
             PROVE  /\ e \in [0 .. n - 1 -> Values \cup {Junk}] /\ e[vec_len] = v
                    /\ \A s \in 0 .. vec_len - 1 : e[s] = vec[s]
  OBVIOUS
<1>1. 0 .. vec_len - 1 \subseteq 0 .. vec_cap - 1
  BY DEF VectorInv
<1>2. /\ Vector!Grown(n) \in [0 .. n - 1 -> Values \cup {Junk}]
      /\ \A s \in 0 .. vec_len - 1 : s \in 0 .. n - 1 /\ Vector!Grown(n)[s] = vec[s]
  BY <1>1 DEF Vector!Grown, Vector!Slots, VectorInv
<1>3. vec_len \in 0 .. n - 1 /\ vec_len \notin 0 .. vec_len - 1
  BY DEF VectorInv
<1> QED
  BY <1>2, <1>3 DEF Replaced

\* What any push does to the buffer.
LEMMA PushStores ==
  ASSUME VectorInv, NEW v \in Values,
         Vector!PushInPlace(v) \/ Vector!PushAndGrow(v)
  PROVE  /\ VectorInv' /\ vec_len' = vec_len + 1 /\ vec_result' = vec_result
         /\ vec'[vec_len] = v
         /\ \A s \in 0 .. vec_len - 1 : vec'[s] = vec[s]
<1>1. CASE Vector!PushInPlace(v)
  BY <1>1 DEF VectorInv, Vector!PushInPlace, Vector!NeedsGrowth, Vector!Store
<1>2. CASE Vector!PushAndGrow(v)
  <2>1. /\ vec_cap' \in Nat /\ vec_len < vec_cap'
        /\ vec' = Replaced(Vector!Grown(vec_cap'), vec_len, v)
        /\ vec_len' = vec_len + 1 /\ vec_result' = vec_result
    BY <1>2, PushMayGrow DEF Replaced
  <2>2. /\ vec' \in [0 .. vec_cap' - 1 -> Values \cup {Junk}] /\ vec'[vec_len] = v
        /\ \A s \in 0 .. vec_len - 1 : vec'[s] = vec[s]
    BY <2>1, VectorGrown
  <2>3. vec_len' \in Nat /\ vec_len' <= vec_cap'
    BY <2>1 DEF VectorInv
  <2>4. \A s \in 0 .. vec_len' - 1 : s = vec_len \/ s \in 0 .. vec_len - 1
    BY <2>1 DEF VectorInv
  <2>5. \A s \in 0 .. vec_len' - 1 : vec'[s] \in Values
    BY <2>2, <2>4 DEF VectorInv
  <2> QED
    BY <2>1, <2>2, <2>3, <2>5 DEF VectorInv
<1> QED
  BY <1>1, <1>2

\* An index in range has an element, and the abstract sequence shows it.
LEMMA VectorAt ==
  ASSUME VectorInv, NEW i \in Int
  PROVE  Vector!Abstract!At(i) = IF i < 0 \/ i >= vec_len THEN 0 ELSE vec[i]
<1>1. /\ Len(Vector!Items) = vec_len
      /\ \A j \in 1 .. vec_len : Vector!Items[j] = vec[j - 1]
  BY VectorItems, FilledTyped DEF VectorInv
<1>2. CASE i < 0 \/ i >= vec_len
  BY <1>1, <1>2 DEF Vector!Abstract!At, VectorInv
<1>3. CASE ~ (i < 0 \/ i >= vec_len)
  <2>1. i + 1 \in 1 .. vec_len /\ i \in 0 .. vec_len - 1 /\ (i + 1) - 1 = i
    BY <1>3 DEF VectorInv
  <2>2. Vector!Items[i + 1] = vec[i]
    BY <1>1, <2>1
  <2> QED
    BY <1>1, <1>3, <2>1, <2>2 DEF Vector!Abstract!At
<1> QED
  BY <1>2, <1>3

LEMMA VectorInit ==
  ASSUME Vector!Init
  PROVE  VectorInv /\ Vector!Abstract!Init
<1>1. VectorInv
  BY CapAssumption DEF VectorInv, Vector!Init, Vector!MAlloc, Vector!Slots
<1>2. Vector!Items = <<>>
  BY VectorItems, FilledEmpty DEF Vector!Init
<1> QED
  BY <1>1, <1>2 DEF Vector!Init, Vector!Abstract!Init

\* Every step of the vector keeps the invariant, and is a step of the abstract
\* sequence or a stutter.
LEMMA VectorStep ==
  ASSUME VectorInv, [Vector!Next]_(Vector!vars)
  PROVE  VectorInv' /\ [Vector!Abstract!Next]_(Vector!Abstract!vars)
<1> USE DEF Vector!Abstract!Next
<1>0. /\ Vector!Items = Filled(vec, vec_len) /\ Vector!Items' = Filled(vec', vec_len')
      /\ Len(Vector!Items) = vec_len /\ vec_len \in Nat
      /\ \A s \in 0 .. vec_len - 1 : vec[s] \in Values
  BY VectorItems, FilledTyped DEF VectorInv, Vector!Items, Filled
<1>1. CASE Vector!VecFree
  <2>1. VectorInv'
    BY <1>1 DEF Vector!VecFree, Vector!MAlloc, Vector!Slots, VectorInv
  <2>2. Vector!Items' = <<>>
    BY <1>0, <1>1, FilledEmpty DEF Vector!VecFree
  <2> QED
    BY <1>1, <2>1, <2>2 DEF Vector!VecFree, Vector!Abstract!Clear
<1>2. ASSUME NEW v \in Values, Vector!PushInPlace(v) \/ Vector!PushAndGrow(v)
      PROVE  VectorInv' /\ Vector!Abstract!Push(v)
  <2>1. /\ VectorInv' /\ vec_len' = vec_len + 1 /\ vec_result' = vec_result
        /\ vec'[vec_len] = v
        /\ \A s \in 0 .. vec_len - 1 : vec'[s] = vec[s]
    BY <1>2, PushStores
  <2>2. Filled(vec', vec_len + 1) = Append(Filled(vec, vec_len), v)
    BY <1>0, <2>1, FilledGrows
  <2> QED
    BY <1>0, <2>1, <2>2 DEF Vector!Abstract!Push
<1>3. CASE Vector!VecPop
  <2>1. VectorInv'
    BY <1>3 DEF Vector!VecPop, VectorInv
  <2>2. vec_result' = Vector!Abstract!At(vec_len - 1)
    BY <1>0, <1>3, VectorAt DEF Vector!VecPop
  <2>3. CASE vec_len = 0
    <3>1. vec' = vec /\ vec_len' = 0
      BY <1>3, <2>3 DEF Vector!VecPop
    <3>2. Vector!Items = <<>> /\ Vector!Items' = <<>>
      BY <1>0, <2>3, <3>1, FilledEmpty
    <3> QED
      BY <1>0, <2>1, <2>2, <3>2 DEF Vector!Abstract!Pop
  <2>4. CASE vec_len # 0
    <3>1. vec' = vec /\ vec_len' = vec_len - 1
      BY <1>0, <1>3, <2>4 DEF Vector!VecPop
    <3>2. Vector!Items # <<>> /\ Vector!Items' = SubSeq(Vector!Items, 1, vec_len - 1)
      BY <1>0, <2>4, <3>1, FilledShrinks
    <3> QED
      BY <1>0, <2>1, <2>2, <3>2 DEF Vector!Abstract!Pop
  <2> QED
    BY <2>3, <2>4
<1>4. ASSUME NEW i \in Indices, Vector!VecGet(i)
      PROVE  VectorInv' /\ Vector!Abstract!Look(i)
  <2>1. vec' = vec /\ vec_len' = vec_len /\ vec_cap' = vec_cap
    BY <1>4 DEF Vector!VecGet
  <2>2. vec_result' = Vector!Abstract!At(i)
    BY <1>4, VectorAt, VectorBounds DEF Vector!VecGet, Vector!InRange
  <2> QED
    BY <1>0, <2>1, <2>2 DEF VectorInv, Vector!Abstract!Look
<1>5. ASSUME NEW i \in Indices, NEW v \in Values, Vector!VecSet(i, v)
      PROVE  VectorInv' /\ Vector!Abstract!Put(i, v)
  <2>1. vec_len' = vec_len /\ vec_cap' = vec_cap /\ vec_result' = vec_result /\ i \in Int
    BY <1>5, VectorBounds DEF Vector!VecSet
  <2>2. CASE Vector!InRange(i)
    <3>1. i \in 0 .. vec_len - 1 /\ vec' = [vec EXCEPT ![i] = v]
      BY <1>0, <1>5, <2>1, <2>2 DEF Vector!VecSet, Vector!InRange
    <3>2. \A s \in 0 .. vec_len - 1 : s \in 0 .. vec_cap - 1
      BY DEF VectorInv
    <3>3. \A s \in 0 .. vec_len - 1 : vec'[s] = IF s = i THEN v ELSE vec[s]
      BY <3>1, <3>2 DEF VectorInv
    <3>4. VectorInv'
      BY <2>1, <3>1, <3>3 DEF VectorInv
    <3>5. Changed(vec, vec', vec_len, i, v)
      BY <3>3 DEF Changed
    <3>6. Filled(vec', vec_len) = Replaced(Filled(vec, vec_len), i + 1, v)
      BY <1>0, <3>1, <3>5, FilledPut
    <3> QED
      BY <1>0, <2>1, <3>1, <3>4, <3>6 DEF Vector!Abstract!Put, Replaced
  <2>3. CASE ~ Vector!InRange(i)
    <3>1. vec' = vec /\ i \notin 0 .. vec_len - 1
      BY <1>0, <1>5, <2>1, <2>3 DEF Vector!VecSet, Vector!InRange
    <3> QED
      BY <1>0, <2>1, <3>1 DEF VectorInv, Vector!Abstract!Put
  <2> QED
    BY <2>2, <2>3
<1>6. CASE Vector!VecLen
  BY <1>0, <1>6 DEF Vector!VecLen, VectorInv, Vector!Abstract!Measure
<1>7. CASE UNCHANGED Vector!vars
  BY <1>0, <1>7 DEF Vector!vars, VectorInv, Vector!Abstract!vars
<1> QED
  BY <1>1, <1>2, <1>3, <1>4, <1>5, <1>6, <1>7 DEF Vector!Next

\* The vector of vector.HC is a sequence: growing, shrinking and freeing never change
\* an element that was not addressed, for clients that stay below the limit at
\* which VecGrow stops growing.
THEOREM VectorIsSequence == Vector!Spec => Vector!IsSequence
<1>1. Vector!Init => VectorInv /\ Vector!Abstract!Init
  BY VectorInit
<1>2. VectorInv /\ [Vector!Next]_(Vector!vars)
        => VectorInv' /\ [Vector!Abstract!Next]_(Vector!Abstract!vars)
  BY VectorStep
<1> QED
  BY <1>1, <1>2, PTL DEF Vector!Spec, Vector!IsSequence, Vector!Abstract!Spec

-----------------------------------------------------------------------------
(***************************************************************************)
(* The stack.  StackPush drops the element when the buffer may not grow,   *)
(* so no bound on the client is needed.                                    *)
(***************************************************************************)
StackInv ==
  /\ stk_cap \in Nat /\ stk_top \in Nat /\ stk_top <= stk_cap
  /\ stk \in [0 .. stk_cap - 1 -> Values \cup {Junk}]
  /\ \A s \in 0 .. stk_top - 1 : stk[s] \in Values

LEMMA StackItems == Stack!Items = Filled(stk, stk_top)
  BY DEF Stack!Items, Filled

LEMMA StackGrown ==
  ASSUME StackInv
  PROVE  \A n \in Nat, v \in Values : \A e :
           stk_top < n /\ e = Replaced(Stack!Grown(n), stk_top, v) =>
             /\ e \in [0 .. n - 1 -> Values \cup {Junk}] /\ e[stk_top] = v
             /\ \A s \in 0 .. stk_top - 1 : e[s] = stk[s]
<1> SUFFICES ASSUME NEW n \in Nat, NEW v \in Values, NEW e, stk_top < n,
                    e = Replaced(Stack!Grown(n), stk_top, v)
             PROVE  /\ e \in [0 .. n - 1 -> Values \cup {Junk}] /\ e[stk_top] = v
                    /\ \A s \in 0 .. stk_top - 1 : e[s] = stk[s]
  OBVIOUS
<1>1. 0 .. stk_top - 1 \subseteq 0 .. stk_cap - 1
  BY DEF StackInv
<1>2. /\ Stack!Grown(n) \in [0 .. n - 1 -> Values \cup {Junk}]
      /\ \A s \in 0 .. stk_top - 1 : s \in 0 .. n - 1 /\ Stack!Grown(n)[s] = stk[s]
  BY <1>1 DEF Stack!Grown, Stack!Slots, StackInv
<1>3. stk_top \in 0 .. n - 1 /\ stk_top \notin 0 .. stk_top - 1
  BY DEF StackInv
<1> QED
  BY <1>2, <1>3 DEF Replaced

\* What a push that is not dropped does to the buffer.
LEMMA StackPushStores ==
  ASSUME StackInv, NEW v \in Values, Stack!PushInPlace(v) \/ Stack!PushAndGrow(v)
  PROVE  /\ StackInv' /\ stk_top' = stk_top + 1 /\ stk_result' = stk_result
         /\ stk'[stk_top] = v
         /\ \A s \in 0 .. stk_top - 1 : stk'[s] = stk[s]
<1>1. CASE Stack!PushInPlace(v)
  BY <1>1 DEF StackInv, Stack!PushInPlace
<1>2. CASE Stack!PushAndGrow(v)
  <2>1. /\ stk_cap' \in Nat /\ stk_top < stk_cap'
        /\ stk' = Replaced(Stack!Grown(stk_cap'), stk_top, v)
        /\ stk_top' = stk_top + 1 /\ stk_result' = stk_result
    <3>1. Stack!OldCap \in Nat \ {0} /\ stk_top <= Stack!OldCap
      BY CapAssumption DEF StackInv, Stack!OldCap
    <3> QED
      BY <1>2, <3>1 DEF StackInv, Stack!PushAndGrow, Replaced
  <2>2. /\ stk' \in [0 .. stk_cap' - 1 -> Values \cup {Junk}] /\ stk'[stk_top] = v
        /\ \A s \in 0 .. stk_top - 1 : stk'[s] = stk[s]
    BY <2>1, StackGrown
  <2>3. stk_top' \in Nat /\ stk_top' <= stk_cap'
    BY <2>1 DEF StackInv
  <2>4. \A s \in 0 .. stk_top' - 1 : s = stk_top \/ s \in 0 .. stk_top - 1
    BY <2>1 DEF StackInv
  <2>5. \A s \in 0 .. stk_top' - 1 : stk'[s] \in Values
    BY <2>2, <2>4 DEF StackInv
  <2> QED
    BY <2>1, <2>2, <2>3, <2>5 DEF StackInv
<1> QED
  BY <1>1, <1>2

\* The last element of the abstract sequence is in the slot below the top.
LEMMA StackTop ==
  ASSUME StackInv
  PROVE  Stack!Abstract!At(stk_top - 1) = IF stk_top = 0 THEN 0 ELSE stk[stk_top - 1]
<1>1. /\ Len(Stack!Items) = stk_top
      /\ \A j \in 1 .. stk_top : Stack!Items[j] = stk[j - 1]
  BY StackItems, FilledTyped DEF StackInv
<1> QED
  BY <1>1 DEF Stack!Abstract!At, StackInv

LEMMA StackInit ==
  ASSUME Stack!Init
  PROVE  StackInv /\ Stack!Abstract!Init
<1>1. StackInv
  BY CapAssumption DEF StackInv, Stack!Init, Stack!MAlloc, Stack!Slots
<1>2. Stack!Items = <<>>
  BY StackItems, FilledEmpty DEF Stack!Init
<1> QED
  BY <1>1, <1>2 DEF Stack!Init, Stack!Abstract!Init

\* Every step of the stack keeps the invariant, and is a step of the abstract
\* sequence or a stutter.
LEMMA StackStep ==
  ASSUME StackInv, [Stack!Next]_(Stack!vars)
  PROVE  StackInv' /\ [Stack!Abstract!Next]_(Stack!Abstract!vars)
<1> USE DEF Stack!Abstract!Next
<1>0. /\ Stack!Items = Filled(stk, stk_top) /\ Stack!Items' = Filled(stk', stk_top')
      /\ Len(Stack!Items) = stk_top /\ stk_top \in Nat
      /\ \A s \in 0 .. stk_top - 1 : stk[s] \in Values
  BY StackItems, FilledTyped DEF StackInv, Stack!Items, Filled
<1>1. CASE Stack!StackFree
  <2>1. StackInv'
    BY <1>1 DEF Stack!StackFree, Stack!MAlloc, Stack!Slots, StackInv
  <2>2. Stack!Items' = <<>>
    BY <1>0, <1>1, FilledEmpty DEF Stack!StackFree
  <2> QED
    BY <1>1, <2>1, <2>2 DEF Stack!StackFree, Stack!Abstract!Clear
<1>2. ASSUME NEW v \in Values, Stack!PushInPlace(v) \/ Stack!PushAndGrow(v)
      PROVE  StackInv' /\ Stack!Abstract!Push(v)
  <2>1. /\ StackInv' /\ stk_top' = stk_top + 1 /\ stk_result' = stk_result
        /\ stk'[stk_top] = v
        /\ \A s \in 0 .. stk_top - 1 : stk'[s] = stk[s]
    BY <1>2, StackPushStores
  <2>2. Filled(stk', stk_top + 1) = Append(Filled(stk, stk_top), v)
    BY <1>0, <2>1, FilledGrows
  <2> QED
    BY <1>0, <2>1, <2>2 DEF Stack!Abstract!Push
<1>3. CASE Stack!StackPop
  <2>1. StackInv'
    BY <1>3 DEF Stack!StackPop, StackInv
  <2>2. stk_result' = Stack!Abstract!At(stk_top - 1)
    BY <1>3, StackTop DEF Stack!StackPop
  <2>3. CASE stk_top = 0
    <3>1. stk' = stk /\ stk_top' = 0
      BY <1>3, <2>3 DEF Stack!StackPop
    <3>2. Stack!Items = <<>> /\ Stack!Items' = <<>>
      BY <1>0, <2>3, <3>1, FilledEmpty
    <3> QED
      BY <1>0, <2>1, <2>2, <3>2 DEF Stack!Abstract!Pop
  <2>4. CASE stk_top # 0
    <3>1. stk' = stk /\ stk_top' = stk_top - 1
      BY <1>3, <2>4 DEF Stack!StackPop
    <3>2. Stack!Items # <<>> /\ Stack!Items' = SubSeq(Stack!Items, 1, stk_top - 1)
      BY <1>0, <2>4, <3>1, FilledShrinks
    <3> QED
      BY <1>0, <2>1, <2>2, <3>2 DEF Stack!Abstract!Pop
  <2> QED
    BY <2>3, <2>4
<1>4. CASE Stack!StackPeek
  <2>1. stk' = stk /\ stk_top' = stk_top /\ stk_cap' = stk_cap
    BY <1>4 DEF Stack!StackPeek
  <2>2. stk_result' = Stack!Abstract!At(stk_top - 1)
    BY <1>4, StackTop DEF Stack!StackPeek
  <2>3. Stack!Abstract!Look(Len(Stack!Items) - 1)
    BY <1>0, <2>1, <2>2 DEF Stack!Abstract!Look
  <2> QED
    BY <2>1, <2>3 DEF StackInv
<1>5. CASE Stack!StackSize
  BY <1>0, <1>5 DEF Stack!StackSize, StackInv, Stack!Abstract!Measure
<1>6. CASE Stack!PushRefused \/ UNCHANGED Stack!vars
  BY <1>0, <1>6 DEF Stack!PushRefused, Stack!vars, StackInv, Stack!Abstract!vars
<1> QED
  BY <1>1, <1>2, <1>3, <1>4, <1>5, <1>6 DEF Stack!Next

\* The stack of stack.HC gives back what was pushed last, across growing, the limit
\* at which a push is dropped, and freeing.
THEOREM StackIsStack == Stack!Spec => Stack!IsStack
<1>1. Stack!Init => StackInv /\ Stack!Abstract!Init
  BY StackInit
<1>2. StackInv /\ [Stack!Next]_(Stack!vars)
        => StackInv' /\ [Stack!Abstract!Next]_(Stack!Abstract!vars)
  BY StackStep
<1> QED
  BY <1>1, <1>2, PTL DEF Stack!Spec, Stack!IsStack, Stack!Abstract!Spec

VectorAndStackAreSequences == Vector!IsSequence /\ Stack!IsStack

\* Both buffers at once, as the run of the containers checks them: the vector for
\* clients below its limit, the stack for any.
THEOREM BuffersAreSequences == Vector!Spec /\ Stack!Spec => VectorAndStackAreSequences
  BY VectorIsSequence, StackIsStack DEF VectorAndStackAreSequences

-----------------------------------------------------------------------------
(***************************************************************************)
(* The set.  A search ends at the first stop; what a used slot holds stops *)
(* its own search there, until something is removed.                       *)
(***************************************************************************)
SetTyped ==
  /\ set_keys \in [Set!Slots -> Int]
  /\ set_used \in [Set!Slots -> BOOLEAN]
  /\ set_removed \in BOOLEAN

StopsAt(k, s) ==
  \E d \in Set!Slots :
    /\ d \in Set!Stops(k) /\ Set!Probe(k, d) = s
    /\ \A j \in Set!Stops(k) : d <= j

Chained == \A s \in Set!Slots : set_used[s] => StopsAt(set_keys[s], s)

LEMMA ProbeInTable == \A k \in Int, j \in Set!Slots : Set!Probe(k, j) \in Set!Slots
BY SetAssumption DEF Set!Probe, Set!SetHash, Set!Slots

\* The first stop is what a search finds.
LEMMA StopSlotIs ==
  ASSUME NEW k, NEW s, StopsAt(k, s)
  PROVE  Set!Stops(k) # {} /\ Set!StopSlot(k) = s
<1>1. PICK d \in Set!Slots : /\ d \in Set!Stops(k) /\ Set!Probe(k, d) = s
                             /\ \A j \in Set!Stops(k) : d <= j
  BY DEF StopsAt
<1>2. Set!Stops(k) \subseteq Int
  BY DEF Set!Stops, Set!Slots
<1>3. Set!FirstStop(k) = d
  BY <1>1, <1>2 DEF Set!FirstStop
<1> QED
  BY <1>1, <1>3 DEF Set!StopSlot

SearchesStop == \A j, s : StopsAt(j, s) => Set!Stops(j) # {} /\ Set!StopSlot(j) = s

LEMMA SearchesStopThere == SearchesStop
BY StopSlotIs DEF SearchesStop

LEMMA StopExists ==
  ASSUME NEW k, Set!Stops(k) # {}
  PROVE  StopsAt(k, Set!StopSlot(k))
<1>1. Set!Stops(k) \subseteq Nat /\ Set!Stops(k) \subseteq Set!Slots
  BY SetAssumption DEF Set!Stops, Set!Slots
<1>2. \E d \in Set!Stops(k) : \A j \in Set!Stops(k) : d <= j
  BY <1>1, LeastExists
<1>3. /\ Set!FirstStop(k) \in Set!Stops(k)
      /\ \A j \in Set!Stops(k) : Set!FirstStop(k) <= j
  BY <1>2 DEF Set!FirstStop
<1> QED
  BY <1>1, <1>3 DEF StopsAt, Set!StopSlot

\* A slot that stops a search for a key is unused or holds the key.
LEMMA SlotOfStop ==
  ASSUME SetTyped, NEW k \in Int, NEW s, StopsAt(k, s)
  PROVE  s \in Set!Slots /\ (set_used[s] => set_keys[s] = k)
BY ProbeInTable DEF StopsAt, Set!Stops

SetInv == SetTyped /\ (~ set_removed => Chained)

\* Storing a key where its search ends leaves every other search as it was.
LEMMA StoringKeeps ==
  ASSUME SetTyped, Chained, NEW k \in Int, NEW t, StopsAt(k, t), ~ set_used[t],
         set_keys' = [set_keys EXCEPT ![t] = k],
         set_used' = [set_used EXCEPT ![t] = TRUE]
  PROVE  Chained'
<1>1. t \in Set!Slots
  BY SlotOfStop
<1>2. /\ set_keys'[t] = k /\ set_used'[t]
      /\ \A s \in Set!Slots \ {t} : set_keys'[s] = set_keys[s] /\ set_used'[s] = set_used[s]
  BY <1>1 DEF SetTyped
<1>3. StopsAt(k, t)'
  <2>1. PICK d \in Set!Slots : /\ d \in Set!Stops(k) /\ Set!Probe(k, d) = t
                               /\ \A j \in Set!Stops(k) : d <= j
    BY DEF StopsAt
  <2>2. d \in Set!Stops(k)'
    BY <1>2, <2>1 DEF Set!Stops, Set!Probe, Set!SetHash, Set!Slots
  <2>3. ASSUME NEW j \in Set!Stops(k)'
        PROVE  d <= j
    <3>1. j \in Set!Slots /\ Set!Probe(k, j) \in Set!Slots
          /\ (~ set_used'[Set!Probe(k, j)] \/ set_keys'[Set!Probe(k, j)] = k)
      BY <2>3, ProbeInTable DEF Set!Stops, Set!Probe, Set!SetHash, Set!Slots
    <3>2. j \in Set!Stops(k)
      BY <1>2, <3>1 DEF Set!Stops
    <3> QED
      BY <2>1, <3>2
  <2> QED
    BY <2>1, <2>2, <2>3 DEF StopsAt, Set!Probe, Set!SetHash, Set!Slots
<1>4. ASSUME NEW s \in Set!Slots \ {t}, set_used[s]
      PROVE  StopsAt(set_keys[s], s)'
  <2>1. PICK q \in Int : q = set_keys[s] /\ StopsAt(q, s)
    BY <1>4 DEF SetTyped, Chained
  <2>2. q # k
    BY <1>1, <1>4, <2>1, StopSlotIs
  <2>3. PICK d \in Set!Slots : /\ d \in Set!Stops(q) /\ Set!Probe(q, d) = s
                               /\ \A j \in Set!Stops(q) : d <= j
    BY <2>1 DEF StopsAt
  <2>4. \A j \in Set!Slots :
          (~ set_used'[Set!Probe(q, j)] \/ set_keys'[Set!Probe(q, j)] = q)
            => j \in Set!Stops(q)
    BY <1>2, <2>1, <2>2, ProbeInTable DEF Set!Stops
  <2>5. ~ set_used'[s] \/ set_keys'[s] = q
    BY <1>2, <1>4, <2>1
  <2>6. StopsAt(q, s)'
    <3>1. d \in {j \in Set!Slots :
                   ~ set_used'[Set!Probe(q, j)] \/ set_keys'[Set!Probe(q, j)] = q}
      BY <2>3, <2>5
    <3>2. \A j \in {i \in Set!Slots :
                   ~ set_used'[Set!Probe(q, i)] \/ set_keys'[Set!Probe(q, i)] = q} : d <= j
      BY <2>3, <2>4
    <3> QED
      BY <2>3, <3>1, <3>2 DEF StopsAt, Set!Stops, Set!Probe, Set!SetHash, Set!Slots
  <2> QED
    BY <1>2, <1>4, <2>1, <2>6
<1>5. ASSUME NEW s \in Set!Slots, set_used'[s]
      PROVE  StopsAt(set_keys[s], s)'
  <2>1. CASE s = t
    BY <1>2, <1>3, <2>1
  <2>2. CASE s # t
    <3>1. set_used[s] /\ set_keys'[s] = set_keys[s]
      BY <1>2, <1>5, <2>2
    <3> QED
      BY <1>4, <2>2, <3>1
  <2> QED
    BY <2>1, <2>2
<1> QED
  BY <1>5 DEF Chained, Set!Slots

LEMMA SetInit == Set!Init => SetInv
<1> SUFFICES ASSUME Set!Init PROVE SetInv
  OBVIOUS
<1>1. set_keys \in [Set!Slots -> Int] /\ set_used \in [Set!Slots -> BOOLEAN]
  BY DEF Set!Init
<1>2. set_removed \in BOOLEAN /\ \A s \in Set!Slots : ~ set_used[s]
  BY DEF Set!Init
<1> QED
  BY <1>1, <1>2 DEF SetInv, SetTyped, Chained

LEMMA SetStep == SetInv /\ [Set!Next]_(Set!vars) => SetInv'
<1> SUFFICES ASSUME SetInv, [Set!Next]_(Set!vars) PROVE SetInv'
  OBVIOUS
<1>1. CASE Set!SetNew
  <2>1. set_keys' \in [Set!Slots -> Int] /\ set_used' \in [Set!Slots -> BOOLEAN]
    BY <1>1 DEF Set!SetNew
  <2>2. set_removed' \in BOOLEAN /\ \A s \in Set!Slots : ~ set_used'[s]
    BY <1>1 DEF Set!SetNew
  <2> QED
    BY <2>1, <2>2 DEF SetInv, SetTyped, Chained, Set!Slots
<1>2. ASSUME NEW k \in SetKeys, Set!SetAdd(k), ~ UNCHANGED Set!vars
      PROVE  SetInv'
  <2>1. /\ Set!Stops(k) # {} /\ ~ Set!SetHas(k) /\ k \in Int
        /\ set_keys' = [set_keys EXCEPT ![Set!StopSlot(k)] = k]
        /\ set_used' = [set_used EXCEPT ![Set!StopSlot(k)] = TRUE]
        /\ set_removed' = set_removed
    BY <1>2, SetAssumption DEF Set!SetAdd
  <2>2. StopsAt(k, Set!StopSlot(k)) /\ ~ set_used[Set!StopSlot(k)]
    BY <2>1, StopExists DEF Set!SetHas
  <2>3. SetTyped'
    BY <2>1 DEF SetInv, SetTyped, Set!Slots
  <2>4. Chained => Chained'
    BY <2>1, <2>2, StoringKeeps DEF SetInv
  <2> QED
    BY <2>1, <2>3, <2>4 DEF SetInv
<1>3. ASSUME NEW k \in SetKeys, Set!SetRemove(k)
      PROVE  SetInv'
  <2>1. CASE Set!SetHas(k)
    BY <1>3, <2>1 DEF Set!SetRemove, SetInv, SetTyped, Set!Slots
  <2>2. CASE ~ Set!SetHas(k)
    BY <1>3, <2>2 DEF Set!SetRemove, SetInv, SetTyped, Chained, StopsAt, Set!Stops,
       Set!Probe, Set!SetHash, Set!Slots
  <2> QED
    BY <2>1, <2>2
<1>4. CASE UNCHANGED Set!vars
  BY <1>4 DEF Set!vars, SetInv, SetTyped, Chained, StopsAt, Set!Stops, Set!Probe,
     Set!SetHash, Set!Slots
<1> QED
  BY <1>1, <1>2, <1>3, <1>4 DEF Set!Next

LEMMA ChainedIsFound ==
  ASSUME SetTyped, Chained
  PROVE  Set!StoredIsFound
<1> SUFFICES ASSUME NEW s \in Set!Slots, set_used[s]
             PROVE  Set!SetHas(set_keys[s])
  BY DEF Set!StoredIsFound, Set!Stored
<1>1. Set!Stops(set_keys[s]) # {} /\ Set!StopSlot(set_keys[s]) = s
  BY StopSlotIs DEF Chained
<1> QED
  BY <1>1 DEF Set!SetHas

LEMMA ChainedIsOnce ==
  ASSUME SetTyped, Chained
  PROVE  Set!StoredOnce
<1> DEFINE U == {s \in Set!Slots : set_used[s]}
           f == [s \in U |-> set_keys[s]]
<1>1. Set!Stored = {set_keys[s] : s \in U}
  BY DEF Set!Stored
<1>2. \A s, t \in U : set_keys[s] = set_keys[t] => s = t
  BY StopSlotIs DEF Chained
<1>3. f \in Surjection(U, Set!Stored) /\ f \in Injection(U, Set!Stored)
  BY <1>1, <1>2 DEF Injection, Surjection, IsInjective
<1>4. IsFiniteSet(U)
  <2>1. IsFiniteSet(Set!Slots)
    BY SetAssumption, FS_Interval DEF Set!Slots
  <2> QED
    BY <2>1, FS_Subset
<1>5. Cardinality(Set!Stored) = Cardinality(U)
  <2> HIDE DEF U, f
  <2> QED
    BY <1>3, <1>4, FS_Surjection
<1>6. \A S : Set!Cardinality(S) = Cardinality(S)
  BY DEF Set!Cardinality, Cardinality
<1> QED
  BY <1>5, <1>6 DEF Set!StoredOnce

\* Removing a key empties the slot where its search ends, and that slot still ends
\* the search.
LEMMA RemovedIsGone ==
  ASSUME SetTyped, NEW k \in Int, Set!SetRemove(k)
  PROVE  ~ Set!SetHas(k)'
<1>1. CASE ~ Set!SetHas(k)
  BY <1>1 DEF Set!SetRemove, Set!SetHas, Set!StopSlot, Set!FirstStop, Set!Stops,
     Set!Probe, Set!SetHash, Set!Slots
<1>2. CASE Set!SetHas(k)
  <2>1. PICK t \in Set!Slots : t = Set!StopSlot(k) /\ StopsAt(k, t) /\ set_used[t]
    BY <1>2, StopExists, SlotOfStop DEF Set!SetHas
  <2>2. /\ set_keys' = set_keys
        /\ ~ set_used'[t] /\ \A s \in Set!Slots \ {t} : set_used'[s] = set_used[s]
    BY <1>2, <2>1 DEF Set!SetRemove, SetTyped
  <2>3. set_keys[t] = k
    BY <2>1, SlotOfStop
  <2>4. PICK d \in Set!Slots : /\ d \in Set!Stops(k) /\ Set!Probe(k, d) = t
                               /\ \A j \in Set!Stops(k) : d <= j
    BY <2>1 DEF StopsAt
  <2>5. \A j \in Set!Slots :
          (~ set_used'[Set!Probe(k, j)] \/ set_keys'[Set!Probe(k, j)] = k)
            => j \in Set!Stops(k)
    BY <2>2, <2>3, ProbeInTable DEF Set!Stops
  <2>6. StopsAt(k, t)'
    <3>1. d \in {j \in Set!Slots :
                   ~ set_used'[Set!Probe(k, j)] \/ set_keys'[Set!Probe(k, j)] = k}
      BY <2>2, <2>4
    <3>2. \A j \in {i \in Set!Slots :
                   ~ set_used'[Set!Probe(k, i)] \/ set_keys'[Set!Probe(k, i)] = k} : d <= j
      BY <2>4, <2>5
    <3> QED
      BY <2>4, <3>1, <3>2 DEF StopsAt, Set!Stops, Set!Probe, Set!SetHash, Set!Slots
  <2>7. SearchesStop'
    BY SearchesStopThere, PTL
  <2> QED
    BY <2>2, <2>6, <2>7 DEF SearchesStop, Set!SetHas
<1> QED
  BY <1>1, <1>2

\* The hash set answers right, for a table of any size: while nothing is removed every
\* stored key is found and stored once; a key just removed is not found.
THEOREM SetAnswersRightHolds == Set!Spec => SetAnswersRight
<1>1. Set!Init => SetInv
  BY SetInit
<1>2. SetInv /\ [Set!Next]_(Set!vars) => SetInv'
  BY SetStep
<1>3. SetInv => (~ set_removed => Set!StoredIsFound /\ Set!StoredOnce)
  BY ChainedIsFound, ChainedIsOnce DEF SetInv
<1>4. SetInv /\ [Set!Next]_(Set!vars)
        => [\A k \in SetKeys : Set!SetRemove(k) => ~ Set!SetHas(k)']_(Set!vars)
  BY RemovedIsGone, SetAssumption DEF SetInv
<1> QED
  BY <1>1, <1>2, <1>3, <1>4, PTL
     DEF Set!Spec, SetAnswersRight, Set!SetAnswersRight, Set!RemovedIsNotFound

-----------------------------------------------------------------------------
(***************************************************************************)
(* The tree.  Links lead to newer nodes, so that a search visits newer and *)
(* newer nodes and ends; each node is where the search for its key ends.   *)
(***************************************************************************)
TreeTyped ==
  /\ tree_key \in [Tree!Slots -> Int]
  /\ tree_left \in [Tree!Slots -> Int]
  /\ tree_right \in [Tree!Slots -> Int]
  /\ tree_size \in Nat \ {0} /\ (tree_size = 1 \/ tree_size <= TreeMax)
  /\ root = IF tree_size = 1 THEN 0 ELSE 1

LinksAscend ==
  \A n \in 1 .. tree_size - 1 :
    /\ tree_left[n] = 0 \/ tree_left[n] \in n + 1 .. tree_size - 1
    /\ tree_right[n] = 0 \/ tree_right[n] \in n + 1 .. tree_size - 1

\* A search for k, step by step; the last visited node.
Visits(k, n, d) ==
  /\ d \in 0 .. TreeMax /\ Tree!Path(k)[d] = n

Placed == \A n \in 1 .. tree_size - 1 : \E d \in 0 .. TreeMax : Visits(tree_key[n], n, d)

LinkedOnce ==
  \A n \in 2 .. tree_size - 1 :
    \E m \in 1 .. tree_size - 1, side \in {"left", "right"} : Tree!LinksTo(n) = {<<m, side>>}

TreeInv == TreeTyped /\ LinksAscend /\ Placed /\ LinkedOnce

\* Path is the function its definition asks for.
PathsStep ==
  \A k : /\ Tree!Path(k)[0] = root
         /\ \A i \in 1 .. TreeMax :
              Tree!Path(k)[i] = IF Tree!Path(k)[i - 1] = 0 THEN 0
                                ELSE Tree!Step(Tree!Path(k)[i - 1], k)

LEMMA PathSteps ==
  ASSUME TreeTyped, LinksAscend
  PROVE  PathsStep
<1> SUFFICES ASSUME NEW k
             PROVE  /\ Tree!Path(k)[0] = root
                    /\ \A i \in 1 .. TreeMax :
                         Tree!Path(k)[i] = IF Tree!Path(k)[i - 1] = 0 THEN 0
                                           ELSE Tree!Step(Tree!Path(k)[i - 1], k)
  BY DEF PathsStep
<1> DEFINE S == 0 .. tree_size - 1
           step == [n \in S |-> IF n = 0 THEN 0 ELSE Tree!Step(n, k)]
           Body(f) == [i \in 0 .. TreeMax |->
                         IF i = 0 THEN root
                         ELSE IF f[i - 1] = 0 THEN 0 ELSE Tree!Step(f[i - 1], k)]
           chosen == CHOOSE f : f = Body(f)
<1>1. TreeMax \in Nat
  BY TreeAssumption
<1>2. step \in [S -> S] /\ root \in S
  BY DEF TreeTyped, LinksAscend, Tree!Step
<1>3. PICK f \in [0 .. TreeMax -> S] : Iterates(f, step, root, TreeMax)
  <2> HIDE DEF S, step
  <2> QED
    BY <1>1, <1>2, IterationExists
<1>4. f[0] = root /\ \A i \in 1 .. TreeMax : f[i - 1] \in S /\ f[i] = step[f[i - 1]]
  <2>1. \A i \in 1 .. TreeMax : i - 1 \in 0 .. TreeMax
    BY <1>1
  <2> HIDE DEF S, step
  <2> QED
    BY <1>3, <2>1 DEF Iterates
<1>5. \A i \in 1 .. TreeMax :
        f[i] = IF f[i - 1] = 0 THEN 0 ELSE Tree!Step(f[i - 1], k)
  BY <1>4
<1> HIDE DEF S, step
<1>6. f = Body(f)
  BY <1>1, <1>3, <1>4, <1>5
<1>7. chosen = Body(chosen)
  <2> HIDE DEF Body
  <2> QED
    BY <1>6
<1>8. Tree!Path(k) = chosen
  BY DEF Tree!Path
<1> HIDE DEF chosen
<1> QED
  BY <1>1, <1>7, <1>8

\* A search visits newer and newer nodes, for fewer steps than there are nodes.
PathsAscend ==
  \A k : \A i \in 0 .. TreeMax :
    Tree!Path(k)[i] = 0 \/ Tree!Path(k)[i] \in i + 1 .. tree_size - 1

LEMMA PathAscends ==
  ASSUME TreeTyped, LinksAscend
  PROVE  PathsAscend
<1> SUFFICES ASSUME NEW k
             PROVE  \A i \in 0 .. TreeMax :
                      Tree!Path(k)[i] = 0 \/ Tree!Path(k)[i] \in i + 1 .. tree_size - 1
  BY DEF PathsAscend
<1> DEFINE p == Tree!Path(k)
           T == {i \in 0 .. TreeMax : p[i] = 0 \/ p[i] \in i + 1 .. tree_size - 1}
<1>1. TreeMax \in Nat
  BY TreeAssumption
<1>2. /\ p[0] = root
      /\ \A i \in 1 .. TreeMax : p[i] = IF p[i - 1] = 0 THEN 0 ELSE Tree!Step(p[i - 1], k)
  BY PathSteps DEF PathsStep
<1> HIDE DEF p
<1>3. 0 \in T
  BY <1>1, <1>2 DEF TreeTyped
<1>4. ASSUME NEW i \in 0 .. TreeMax - 1, i \in T
      PROVE  i + 1 \in T
  <2>1. i + 1 \in 1 .. TreeMax /\ (i + 1) - 1 = i /\ i + 1 \in 0 .. TreeMax
    BY <1>1
  <2>2. p[i + 1] = IF p[i] = 0 THEN 0 ELSE Tree!Step(p[i], k)
    BY <1>2, <2>1
  <2>3. CASE p[i] = 0
    BY <2>1, <2>2, <2>3
  <2>4. CASE p[i] # 0
    <3>1. p[i] \in i + 1 .. tree_size - 1 /\ p[i] \in 1 .. tree_size - 1
      BY <1>1, <1>4, <2>4 DEF TreeTyped
    <3>2. p[i + 1] \in {0, tree_left[p[i]], tree_right[p[i]]}
      BY <2>2, <2>4 DEF Tree!Step
    <3>3. p[i + 1] = 0 \/ p[i + 1] \in p[i] + 1 .. tree_size - 1
      BY <3>1, <3>2 DEF LinksAscend
    <3> QED
      BY <1>1, <2>1, <3>1, <3>3 DEF TreeTyped
  <2> QED
    BY <2>3, <2>4
<1>5. \A i \in 0 .. TreeMax : i \in T
  <2> HIDE DEF T
  <2> QED
    BY <1>1, <1>3, <1>4, IntervalInduction
<1> QED
  BY <1>5 DEF p

\* A search that has ended stays ended.
LEMMA EndedStays ==
  ASSUME PathsStep, NEW k, NEW i \in 0 .. TreeMax, NEW j \in i .. TreeMax,
         Tree!Path(k)[i] = 0
  PROVE  Tree!Path(k)[j] = 0
<1> DEFINE p == Tree!Path(k)
           T == {e \in i .. TreeMax : p[e] = 0}
<1>1. TreeMax \in Nat /\ i \in Nat /\ i \in T
  BY TreeAssumption
<1>2. \A e \in 1 .. TreeMax : p[e] = IF p[e - 1] = 0 THEN 0 ELSE Tree!Step(p[e - 1], k)
  BY DEF PathsStep
<1> HIDE DEF p
<1>3. \A e \in i .. TreeMax - 1 : e \in T => e + 1 \in T
  <2> SUFFICES ASSUME NEW e \in i .. TreeMax - 1, p[e] = 0
               PROVE  e + 1 \in T
    OBVIOUS
  <2>1. e + 1 \in 1 .. TreeMax /\ e + 1 \in i .. TreeMax /\ (e + 1) - 1 = e
    BY <1>1
  <2> QED
    BY <1>2, <2>1
<1>4. \A e \in i .. TreeMax : e \in T
  <2> HIDE DEF T
  <2> QED
    BY <1>1, <1>3, IntervalInduction
<1> QED
  BY <1>4 DEF p

\* The search for k visits n last.
EndsAt(k, n) ==
  \E d \in 0 .. TreeMax - 1 :
    Tree!Path(k)[d] = n /\ n # 0 /\ Tree!Path(k)[d + 1] = 0

LEMMA LastNodeIs ==
  ASSUME TreeTyped, LinksAscend, NEW k, NEW n, EndsAt(k, n)
  PROVE  Tree!LastNode(k) = n
<1> DEFINE p == Tree!Path(k)
           Last(i) == p[i] # 0 /\ p[i + 1] = 0
           e == CHOOSE i \in 0 .. TreeMax - 1 : Last(i)
<1>1. PICK d \in 0 .. TreeMax - 1 : p[d] = n /\ Last(d)
  BY DEF EndsAt
<1>2. Tree!LastNode(k) = p[e]
  BY DEF Tree!LastNode
<1>3. e \in 0 .. TreeMax - 1 /\ Last(e)
  <2> HIDE DEF Last
  <2> QED
    BY <1>1
<1> HIDE DEF e
<1>4. TreeMax \in Nat
  BY TreeAssumption
<1>5. ~ (e < d) /\ ~ (d < e)
  <2>1. \A a \in 0 .. TreeMax - 1, b \in 0 .. TreeMax - 1 :
          a < b /\ p[a + 1] = 0 => p[b] = 0
    <3> SUFFICES ASSUME NEW a \in 0 .. TreeMax - 1, NEW b \in 0 .. TreeMax - 1,
                        a < b, p[a + 1] = 0
                 PROVE  p[b] = 0
      OBVIOUS
    <3>1. a + 1 \in 0 .. TreeMax /\ b \in a + 1 .. TreeMax
      BY <1>4
    <3> QED
      BY <3>1, PathSteps, EndedStays
  <2> QED
    BY <1>1, <1>3, <2>1
<1>6. e = d
  BY <1>3, <1>4, <1>5
<1> QED
  BY <1>1, <1>2, <1>6

\* Every search in a tree that is not empty ends, at a node that has no link for it.
LEMMA SearchEnds ==
  ASSUME TreeTyped, LinksAscend, root # 0, NEW k
  PROVE  /\ Tree!LastNode(k) \in 1 .. tree_size - 1
         /\ Tree!Step(Tree!LastNode(k), k) = 0
         /\ \E d \in 0 .. TreeMax - 2 : Tree!Path(k)[d] = Tree!LastNode(k)
<1> DEFINE p == Tree!Path(k)
           E == {i \in 0 .. TreeMax : p[i] = 0}
<1>1. TreeMax \in Nat \ {0} /\ tree_size \in Nat /\ tree_size <= TreeMax
  BY TreeAssumption DEF TreeTyped
<1>2. /\ p[0] = root
      /\ \A i \in 1 .. TreeMax : p[i] = IF p[i - 1] = 0 THEN 0 ELSE Tree!Step(p[i - 1], k)
  BY PathSteps DEF PathsStep
<1>3. \A i \in 0 .. TreeMax : p[i] = 0 \/ p[i] \in i + 1 .. tree_size - 1
  BY PathAscends DEF PathsAscend
<1> HIDE DEF p
<1>4. TreeMax \in E /\ E \subseteq Nat
  BY <1>1, <1>3
<1>5. PICK m \in E : \A i \in E : m <= i
  <2> HIDE DEF E
  <2> QED
    BY <1>4, LeastExists
<1>6. m \in 1 .. TreeMax /\ m - 1 \in 0 .. TreeMax /\ m - 1 \notin E
  BY <1>1, <1>2, <1>5
<1>7. p[m - 1] # 0 /\ p[m] = 0 /\ (m - 1) + 1 = m
  BY <1>5, <1>6
<1>8. p[m - 1] \in 1 .. tree_size - 1 /\ m - 1 \in 0 .. TreeMax - 2
  BY <1>1, <1>3, <1>6, <1>7
<1>9. Tree!Step(p[m - 1], k) = 0
  BY <1>2, <1>6, <1>7
<1>10. EndsAt(k, p[m - 1])
  BY <1>1, <1>7, <1>8 DEF EndsAt, p
<1>11. Tree!LastNode(k) = p[m - 1]
  BY <1>10, LastNodeIs
<1> QED
  BY <1>8, <1>9, <1>11 DEF p

\* A node is where the search for its key ends.
LEMMA NodeEndsSearch ==
  ASSUME TreeTyped, LinksAscend, Placed, NEW n \in 1 .. tree_size - 1
  PROVE  Tree!LastNode(tree_key[n]) = n
<1> DEFINE k == tree_key[n]
           p == Tree!Path(k)
<1>1. PICK d \in 0 .. TreeMax : p[d] = n
  BY DEF Placed, Visits
<1>2. TreeMax \in Nat \ {0} /\ tree_size \in Nat /\ tree_size <= TreeMax /\ n \in Nat \ {0}
  BY TreeAssumption DEF TreeTyped
<1>3. /\ \A i \in 1 .. TreeMax : p[i] = IF p[i - 1] = 0 THEN 0 ELSE Tree!Step(p[i - 1], k)
      /\ p[d] = 0 \/ p[d] \in d + 1 .. tree_size - 1
  BY <1>1, PathSteps, PathAscends DEF PathsStep, PathsAscend
<1>4. k \in Int /\ Tree!Step(n, k) = 0
  BY <1>2 DEF TreeTyped, Tree!Slots, Tree!Step
<1> HIDE DEF p, k
<1>5. d \in 0 .. TreeMax - 1 /\ d + 1 \in 1 .. TreeMax /\ (d + 1) - 1 = d
  BY <1>1, <1>2, <1>3
<1>6. p[d + 1] = 0
  BY <1>1, <1>2, <1>3, <1>4, <1>5
<1>7. EndsAt(k, n)
  BY <1>1, <1>2, <1>5, <1>6 DEF EndsAt, p
<1> QED
  BY <1>7, LastNodeIs DEF k

\* TreeInsertAt links a new leaf to the node where the search for its key ended.
LeafAdded(n, k) ==
  /\ root # 0 /\ tree_size < TreeMax
  /\ k \in Int /\ n \in 1 .. tree_size - 1
  /\ tree_key[n] # k /\ Tree!Step(n, k) = 0
  /\ Tree!LinkLeaf(n, k)
  /\ tree_size' = tree_size + 1
  /\ root' = root

\* What is in the arrays afterwards.
LeafWritten(n, k) ==
  /\ tree_key'[tree_size] = k /\ tree_left'[tree_size] = 0 /\ tree_right'[tree_size] = 0
  /\ \A m \in 1 .. tree_size - 1 :
       /\ tree_key'[m] = tree_key[m]
       /\ tree_left'[m] = IF m = n /\ k < tree_key[n] THEN tree_size ELSE tree_left[m]
       /\ tree_right'[m] = IF m = n /\ k > tree_key[n] THEN tree_size ELSE tree_right[m]

LEMMA LeafIsWritten ==
  ASSUME TreeTyped, NEW n, NEW k, LeafAdded(n, k)
  PROVE  TreeTyped' /\ LeafWritten(n, k) /\ tree_key[n] \in Int
<1>1. /\ tree_size \in Tree!Slots /\ n \in Tree!Slots /\ n # tree_size
      /\ tree_size \in Nat \ {0} /\ 1 .. tree_size - 1 \subseteq Tree!Slots \ {tree_size}
      /\ tree_key[n] \in Int /\ k \in Int
  <2>1. /\ tree_size \in Nat /\ TreeMax \in Nat /\ tree_size # 0 /\ tree_size < TreeMax
        /\ n \in 1 .. tree_size - 1 /\ k \in Int
    BY TreeAssumption DEF TreeTyped, LeafAdded
  <2>2. n \in Tree!Slots /\ tree_size \in Tree!Slots /\ n # tree_size
    BY <2>1 DEF Tree!Slots
  <2>3. 1 .. tree_size - 1 \subseteq Tree!Slots \ {tree_size}
    BY <2>1 DEF Tree!Slots
  <2>4. tree_key[n] \in Int
    BY <2>2 DEF TreeTyped
  <2> QED
    BY <2>1, <2>2, <2>3, <2>4
<1>2. /\ tree_key' = [tree_key EXCEPT ![tree_size] = k]
      /\ tree_left' = [tree_left EXCEPT ![tree_size] = 0,
                                        ![n] = IF k < tree_key[n] THEN tree_size ELSE @]
      /\ tree_right' = [tree_right EXCEPT ![tree_size] = 0,
                                          ![n] = IF k > tree_key[n] THEN tree_size ELSE @]
  BY DEF LeafAdded, Tree!LinkLeaf
<1>3. TreeTyped'
  <2>1. /\ tree_key' \in [Tree!Slots -> Int]
        /\ tree_left' \in [Tree!Slots -> Int]
        /\ tree_right' \in [Tree!Slots -> Int]
    BY <1>1, <1>2 DEF TreeTyped
  <2>2. /\ tree_size' \in Nat \ {0} /\ (tree_size' = 1 \/ tree_size' <= TreeMax)
        /\ root' = IF tree_size' = 1 THEN 0 ELSE 1
    BY TreeAssumption DEF TreeTyped, LeafAdded
  <2> QED
    BY <2>1, <2>2 DEF TreeTyped, Tree!Slots
<1>4. /\ tree_key'[tree_size] = k /\ tree_left'[tree_size] = 0 /\ tree_right'[tree_size] = 0
  BY <1>1, <1>2 DEF TreeTyped
<1>5. \A m \in 1 .. tree_size - 1 :
        /\ tree_key'[m] = tree_key[m]
        /\ tree_left'[m] = IF m = n /\ k < tree_key[n] THEN tree_size ELSE tree_left[m]
        /\ tree_right'[m] = IF m = n /\ k > tree_key[n] THEN tree_size ELSE tree_right[m]
  <2> SUFFICES ASSUME NEW m \in Tree!Slots \ {tree_size}
               PROVE  /\ tree_key'[m] = tree_key[m]
                      /\ tree_left'[m] = IF m = n /\ k < tree_key[n] THEN tree_size
                                         ELSE tree_left[m]
                      /\ tree_right'[m] = IF m = n /\ k > tree_key[n] THEN tree_size
                                          ELSE tree_right[m]
    BY <1>1
  <2> QED
    BY <1>1, <1>2 DEF TreeTyped
<1> QED
  BY <1>1, <1>3, <1>4, <1>5 DEF LeafWritten

\* Only the link that was followed last changes, from 0 to the new leaf.
LEMMA LinksGrow ==
  ASSUME TreeTyped, LinksAscend, NEW n, NEW k, LeafAdded(n, k)
  PROVE  /\ LinksAscend'
         /\ \A m \in 1 .. tree_size - 1 :
              /\ \/ tree_left'[m] = tree_left[m]
                 \/ m = n /\ k < tree_key[n] /\ tree_left[m] = 0 /\ tree_left'[m] = tree_size
              /\ \/ tree_right'[m] = tree_right[m]
                 \/ m = n /\ k > tree_key[n] /\ tree_right[m] = 0 /\ tree_right'[m] = tree_size
<1>1. LeafWritten(n, k) /\ tree_key[n] \in Int /\ k \in Int /\ n \in 1 .. tree_size - 1
      /\ tree_size \in Nat /\ tree_size' = tree_size + 1
  BY LeafIsWritten DEF LeafAdded, TreeTyped
<1>2. (k < tree_key[n] => tree_left[n] = 0) /\ (k > tree_key[n] => tree_right[n] = 0)
  BY <1>1 DEF LeafAdded, Tree!Step
<1>3. \A m \in 1 .. tree_size - 1 :
              /\ \/ tree_left'[m] = tree_left[m]
                 \/ m = n /\ k < tree_key[n] /\ tree_left[m] = 0 /\ tree_left'[m] = tree_size
              /\ \/ tree_right'[m] = tree_right[m]
                 \/ m = n /\ k > tree_key[n] /\ tree_right[m] = 0 /\ tree_right'[m] = tree_size
  BY <1>1, <1>2 DEF LeafWritten
<1>4. ASSUME NEW m \in 1 .. tree_size
      PROVE  /\ tree_left'[m] = 0 \/ tree_left'[m] \in m + 1 .. tree_size
             /\ tree_right'[m] = 0 \/ tree_right'[m] \in m + 1 .. tree_size
  <2>1. CASE m = tree_size
    BY <1>1, <2>1 DEF LeafWritten
  <2>2. CASE m # tree_size
    <3>1. m \in 1 .. tree_size - 1
      BY <1>1, <2>2
    <3>2. /\ tree_left[m] = 0 \/ tree_left[m] \in m + 1 .. tree_size - 1
          /\ tree_right[m] = 0 \/ tree_right[m] \in m + 1 .. tree_size - 1
      BY <3>1 DEF LinksAscend
    <3> QED
      BY <1>1, <1>3, <3>1, <3>2
  <2> QED
    BY <2>1, <2>2
<1>5. tree_size' - 1 = tree_size
  BY <1>1
<1> QED
  BY <1>3, <1>4, <1>5 DEF LinksAscend

LEMMA StepGrows ==
  ASSUME TreeTyped, LinksAscend, NEW n, NEW k, LeafAdded(n, k)
  PROVE  /\ \A m \in 1 .. tree_size - 1 : \A q :
              Tree!Step(m, q)' = Tree!Step(m, q) \/ Tree!Step(m, q) = 0
         /\ Tree!Step(n, k)' = tree_size
<1>1. LeafWritten(n, k) /\ tree_key[n] \in Int /\ k \in Int /\ n \in 1 .. tree_size - 1
      /\ tree_key[n] # k
  BY LeafIsWritten DEF LeafAdded
<1>2. \A m \in 1 .. tree_size - 1 : /\ tree_left'[m] = tree_left[m] \/ tree_left[m] = 0
                                    /\ tree_right'[m] = tree_right[m] \/ tree_right[m] = 0
                                    /\ tree_key'[m] = tree_key[m]
  BY <1>1, LinksGrow DEF LeafWritten
<1> QED
  BY <1>1, <1>2 DEF Tree!Step, LeafWritten

PathTheorems == TreeTyped /\ LinksAscend => PathsStep

LEMMA PathTheoremsHold == PathTheorems
BY PathSteps DEF PathTheorems

\* A search goes through the nodes it went through before.
LEMMA PathGrows ==
  ASSUME TreeTyped, LinksAscend, NEW n, NEW k, LeafAdded(n, k), NEW q
  PROVE  \A i \in 0 .. TreeMax : Tree!Path(q)[i] # 0 => Tree!Path(q)'[i] = Tree!Path(q)[i]
<1> DEFINE p == Tree!Path(q)
           r == Tree!Path(q)'
           T == {i \in 0 .. TreeMax : p[i] # 0 => r[i] = p[i]}
<1>1. TreeMax \in Nat
  BY TreeAssumption
<1>2. PathsStep /\ PathsAscend
  BY PathSteps, PathAscends
<1>3. PathsStep'
  <2>1. PathTheorems'
    BY PathTheoremsHold, PTL
  <2> QED
    BY <2>1, LeafIsWritten, LinksGrow DEF PathTheorems
<1>4. /\ p[0] = root
      /\ \A i \in 1 .. TreeMax : p[i] = IF p[i - 1] = 0 THEN 0 ELSE Tree!Step(p[i - 1], q)
  BY <1>2 DEF PathsStep
<1>5. /\ r[0] = root
      /\ \A i \in 1 .. TreeMax :
           r[i] = IF r[i - 1] = 0 THEN 0
                  ELSE IF q < tree_key'[r[i - 1]] THEN tree_left'[r[i - 1]]
                  ELSE IF q > tree_key'[r[i - 1]] THEN tree_right'[r[i - 1]]
                  ELSE 0
  BY <1>3 DEF PathsStep, LeafAdded, Tree!Step
<1>6. \A i \in 0 .. TreeMax : p[i] = 0 \/ p[i] \in 1 .. tree_size - 1
  BY <1>2, <1>1 DEF PathsAscend, TreeTyped
<1> HIDE DEF p, r
<1>7. 0 \in T
  BY <1>1, <1>4, <1>5
<1>8. ASSUME NEW i \in 0 .. TreeMax - 1, i \in T
      PROVE  i + 1 \in T
  <2>1. i + 1 \in 1 .. TreeMax /\ (i + 1) - 1 = i /\ i + 1 \in 0 .. TreeMax
    BY <1>1
  <2>2. CASE p[i + 1] = 0
    BY <2>1, <2>2
  <2>3. CASE p[i + 1] # 0
    <3>1. p[i] # 0 /\ p[i + 1] = Tree!Step(p[i], q)
      BY <1>4, <2>1, <2>3
    <3>2. PICK m \in 1 .. tree_size - 1 : m = p[i]
      BY <1>1, <1>6, <3>1
    <3>3. r[i] = m /\ m # 0
      BY <1>8, <3>1, <3>2
    <3>4. r[i + 1] = IF q < tree_key'[m] THEN tree_left'[m]
                     ELSE IF q > tree_key'[m] THEN tree_right'[m]
                     ELSE 0
      BY <1>5, <2>1, <3>3
    <3>5. r[i + 1] = Tree!Step(m, q)'
      BY <3>4 DEF Tree!Step
    <3>6. Tree!Step(m, q)' = Tree!Step(m, q) \/ Tree!Step(m, q) = 0
      BY StepGrows
    <3> QED
      BY <2>1, <2>3, <3>1, <3>2, <3>5, <3>6
  <2> QED
    BY <2>2, <2>3
<1>9. \A i \in 0 .. TreeMax : i \in T
  <2> HIDE DEF T
  <2> QED
    BY <1>1, <1>7, <1>8, IntervalInduction
<1> QED
  BY <1>9 DEF p, r

LEMMA LeafKeepsPlaced ==
  ASSUME TreeTyped, LinksAscend, Placed, NEW n, NEW k, LeafAdded(n, k), Tree!LastNode(k) = n
  PROVE  Placed'
<1>1. TreeMax \in Nat /\ tree_size \in Nat /\ tree_size' - 1 = tree_size
  BY TreeAssumption DEF TreeTyped, LeafAdded
<1>2. LeafWritten(n, k)
  BY LeafIsWritten
<1>3. ASSUME NEW m \in 1 .. tree_size - 1
      PROVE  \E d \in 0 .. TreeMax : Visits(tree_key[m], m, d)'
  <2>1. PICK d \in 0 .. TreeMax : Tree!Path(tree_key[m])[d] = m
    BY DEF Placed, Visits
  <2>2. PICK q : q = tree_key[m]
    OBVIOUS
  <2>3. Tree!Path(q)'[d] = m
    BY <2>1, <2>2, PathGrows
  <2>4. tree_key'[m] = q
    BY <1>2, <2>2 DEF LeafWritten
  <2> QED
    BY <2>3, <2>4 DEF Visits
<1>4. PICK t : t = tree_size
  OBVIOUS
<1>5. \E d \in 0 .. TreeMax : Visits(tree_key[t], t, d)'
  <2>1. PICK d \in 0 .. TreeMax - 2 : Tree!Path(k)[d] = n
    BY SearchEnds DEF LeafAdded
  <2>2. n # 0 /\ d \in 0 .. TreeMax /\ d + 1 \in 1 .. TreeMax /\ (d + 1) - 1 = d
    BY <1>1 DEF LeafAdded
  <2>3. Tree!Path(k)'[d] = n
    BY <2>1, <2>2, PathGrows
  <2>4. PathsStep'
    <3>1. PathTheorems'
      BY PathTheoremsHold, PTL
    <3> QED
      BY <3>1, LeafIsWritten, LinksGrow DEF PathTheorems
  <2>5. Tree!Path(k)'[d + 1] = Tree!Step(n, k)'
    BY <2>2, <2>3, <2>4 DEF PathsStep, Tree!Step
  <2>6. Tree!Path(k)'[d + 1] = t /\ tree_key'[t] = k
    BY <1>2, <1>4, <2>5, StepGrows DEF LeafWritten
  <2>7. Visits(tree_key[t], t, d + 1)'
    BY <2>2, <2>6 DEF Visits
  <2> QED
    BY <2>2, <2>7
<1>6. \A m \in 1 .. tree_size' - 1 : m \in 1 .. tree_size - 1 \/ m = t
  BY <1>1, <1>4
<1> QED
  BY <1>3, <1>5, <1>6 DEF Placed

LEMMA LeafKeepsLinkedOnce ==
  ASSUME TreeTyped, LinksAscend, LinkedOnce, NEW n, NEW k, LeafAdded(n, k)
  PROVE  LinkedOnce'
<1>1. /\ tree_size \in Nat \ {0} /\ tree_size' - 1 = tree_size
      /\ n \in 1 .. tree_size - 1 /\ k \in Int /\ tree_key[n] \in Int /\ tree_key[n] # k
  BY LeafIsWritten DEF TreeTyped, LeafAdded
<1>2. PICK t \in Nat \ {0} : t = tree_size
  BY <1>1
<1>3. \A l : l \in (1 .. t) \X {"left", "right"}
         <=> \E m \in 1 .. t, side \in {"left", "right"} : l = <<m, side>>
  OBVIOUS
<1>4. ASSUME NEW m \in 2 .. t - 1
      PROVE  Tree!LinksTo(m)' = Tree!LinksTo(m)
  <2>1. \A o \in 1 .. t - 1 : /\ tree_left'[o] = m <=> tree_left[o] = m
                              /\ tree_right'[o] = m <=> tree_right[o] = m
    BY <1>1, <1>2, LinksGrow
  <2>2. \A l \in (1 .. t) \X {"left", "right"} : l[1] < m => l[1] \in 1 .. t - 1
    BY <1>2
  <2>3. Tree!LinksTo(m)' = {l \in (1 .. t) \X {"left", "right"} :
                              /\ l[1] < m
                              /\ m = IF l[2] = "left" THEN tree_left'[l[1]]
                                     ELSE tree_right'[l[1]]}
    BY <1>1, <1>2 DEF Tree!LinksTo, Tree!Nodes
  <2>4. Tree!LinksTo(m) = {l \in (1 .. t - 1) \X {"left", "right"} :
                             /\ l[1] < m
                             /\ m = IF l[2] = "left" THEN tree_left[l[1]]
                                    ELSE tree_right[l[1]]}
    BY <1>1, <1>2 DEF Tree!LinksTo, Tree!Nodes
  <2> QED
    BY <2>1, <2>2, <2>3, <2>4
<1>5. \E m \in 1 .. t, side \in {"left", "right"} : Tree!LinksTo(t)' = {<<m, side>>}
  <2> DEFINE side == IF k < tree_key[n] THEN "left" ELSE "right"
  <2>1. Tree!LinksTo(t)' = {l \in (1 .. t) \X {"left", "right"} :
                              /\ l[1] < t
                              /\ t = IF l[2] = "left" THEN tree_left'[l[1]]
                                     ELSE tree_right'[l[1]]}
    BY <1>1, <1>2 DEF Tree!LinksTo, Tree!Nodes
  <2>2. \A m \in 1 .. t - 1 : /\ tree_left'[m] = t <=> (m = n /\ k < tree_key[n])
                              /\ tree_right'[m] = t <=> (m = n /\ k > tree_key[n])
    <3>1. \A m \in 1 .. t - 1 : tree_left[m] # t /\ tree_right[m] # t
      BY <1>1, <1>2 DEF LinksAscend
    <3> QED
      BY <1>2, <3>1, LeafIsWritten DEF LeafWritten
  <2>3. \A l \in (1 .. t) \X {"left", "right"} :
          (l[1] < t /\ t = IF l[2] = "left" THEN tree_left'[l[1]] ELSE tree_right'[l[1]])
            <=> l = <<n, side>>
    BY <1>1, <1>2, <2>2
  <2>4. <<n, side>> \in (1 .. t) \X {"left", "right"}
    BY <1>1, <1>2
  <2>5. Tree!LinksTo(t)' = {<<n, side>>}
    <3> HIDE DEF side
    <3> QED
      BY <2>1, <2>3, <2>4
  <2> QED
    BY <1>1, <1>2, <2>5
<1>6. ASSUME NEW m \in 2 .. t
      PROVE  \E o \in 1 .. t, side \in {"left", "right"} : Tree!LinksTo(m)' = {<<o, side>>}
  <2>1. CASE m = t
    BY <1>5, <2>1
  <2>2. CASE m # t
    <3>1. m \in 2 .. t - 1
      BY <1>2, <2>2
    <3>2. PICK o \in 1 .. t - 1, side \in {"left", "right"} :
            Tree!LinksTo(m) = {<<o, side>>}
      BY <1>2, <3>1 DEF LinkedOnce
    <3> QED
      BY <1>2, <1>4, <3>1, <3>2
  <2> QED
    BY <2>1, <2>2
<1>7. tree_size' - 1 = t
  BY <1>1, <1>2
<1> QED
  BY <1>6, <1>7 DEF LinkedOnce

LEMMA TreeInit == Tree!Init => TreeInv
BY DEF Tree!Init, Tree!AllZero, TreeInv, TreeTyped, LinksAscend, Placed, LinkedOnce

\* The root is placed by a search of no steps.
LEMMA RootIsPlaced ==
  ASSUME TreeTyped, NEW k \in Int, root = 0, tree_size < TreeMax,
         Tree!Reset(tree_size, k), root' = tree_size, tree_size' = tree_size + 1
  PROVE  TreeInv'
<1>1. tree_size = 1 /\ tree_size' = 2 /\ 1 \in Tree!Slots /\ root' = 1 /\ TreeMax \in Nat
  BY TreeAssumption DEF TreeTyped, Tree!Slots
<1>2. /\ tree_key' = [tree_key EXCEPT ![1] = k]
      /\ tree_left' = [tree_left EXCEPT ![1] = 0]
      /\ tree_right' = [tree_right EXCEPT ![1] = 0]
  BY <1>1 DEF Tree!Reset
<1>3. TreeTyped'
  BY <1>1, <1>2 DEF TreeTyped, Tree!Slots
<1>4. tree_key'[1] = k /\ tree_left'[1] = 0 /\ tree_right'[1] = 0 /\ tree_size' - 1 = 1
  BY <1>1, <1>2 DEF TreeTyped
<1>5. LinksAscend'
  BY <1>4 DEF LinksAscend
<1>6. PathsStep'
  <2>1. PathTheorems'
    BY PathTheoremsHold, PTL
  <2> QED
    BY <1>3, <1>5, <2>1 DEF PathTheorems
<1>7. Placed'
  <2>1. Tree!Path(k)'[0] = 1
    BY <1>1, <1>6 DEF PathsStep
  <2>2. Visits(tree_key[1], 1, 0)'
    BY <1>1, <1>4, <2>1 DEF Visits
  <2> QED
    BY <1>1, <1>4, <2>2 DEF Placed
<1>8. LinkedOnce'
  BY <1>4 DEF LinkedOnce
<1> QED
  BY <1>3, <1>5, <1>7, <1>8 DEF TreeInv

LEMMA TreeStep == TreeInv /\ [Tree!Next]_(Tree!vars) => TreeInv'
<1> SUFFICES ASSUME TreeInv, [Tree!Next]_(Tree!vars) PROVE TreeInv'
  OBVIOUS
<1>1. CASE Tree!TreeNew \/ Tree!TreeFree
  <2>1. TreeTyped' /\ tree_size' = 1
    BY <1>1, TreeAssumption DEF Tree!TreeNew, Tree!TreeFree, Tree!AllZero, TreeInv,
       TreeTyped, Tree!Slots
  <2> QED
    BY <2>1 DEF TreeInv, LinksAscend, Placed, LinkedOnce
<1>2. CASE UNCHANGED Tree!vars
  <2>1. TreeTyped' /\ LinksAscend'
    BY <1>2 DEF Tree!vars, TreeInv, TreeTyped, LinksAscend, Tree!Slots
  <2>2. LinkedOnce'
    BY <1>2 DEF Tree!vars, TreeInv, LinkedOnce, Tree!LinksTo, Tree!Nodes
  <2>3. Placed'
    <3>1. \A q : Tree!Path(q)' = Tree!Path(q)
      BY <1>2 DEF Tree!vars, Tree!Path, Tree!Step
    <3>2. \A n \in 1 .. tree_size - 1 : \E d \in 0 .. TreeMax : Visits(tree_key[n], n, d)'
      <4> SUFFICES ASSUME NEW n \in 1 .. tree_size - 1
                   PROVE  \E d \in 0 .. TreeMax : Visits(tree_key[n], n, d)'
        OBVIOUS
      <4>1. PICK d \in 0 .. TreeMax : Tree!Path(tree_key[n])[d] = n
        BY DEF TreeInv, Placed, Visits
      <4>2. PICK q : q = tree_key[n]
        OBVIOUS
      <4>3. Tree!Path(q)'[d] = n /\ tree_key'[n] = q
        BY <1>2, <3>1, <4>1, <4>2 DEF Tree!vars
      <4> QED
        BY <4>3 DEF Visits
    <3> QED
      BY <1>2, <3>2 DEF Tree!vars, Placed
  <2> QED
    BY <2>1, <2>2, <2>3 DEF TreeInv
<1>3. ASSUME NEW k \in TreeKeys, Tree!InsertRoot(k), ~ UNCHANGED Tree!vars
      PROVE  TreeInv'
  <2>1. k \in Int /\ root = 0 /\ tree_size < TreeMax /\ TreeTyped
    BY <1>3, TreeAssumption DEF Tree!InsertRoot, TreeInv, TreeTyped
  <2>2. Tree!Reset(tree_size, k) /\ root' = tree_size /\ tree_size' = tree_size + 1
    BY <1>3 DEF Tree!InsertRoot
  <2> QED
    BY <2>1, <2>2, RootIsPlaced
<1>4. ASSUME NEW k \in TreeKeys, Tree!InsertLeaf(k), ~ UNCHANGED Tree!vars
      PROVE  TreeInv'
  <2>1. /\ root # 0 /\ k \in Int /\ tree_size < TreeMax
        /\ tree_key[Tree!LastNode(k)] # k /\ Tree!LinkLeaf(Tree!LastNode(k), k)
        /\ tree_size' = tree_size + 1 /\ root' = root
    BY <1>4, TreeAssumption DEF Tree!InsertLeaf, TreeInv, TreeTyped
  <2>2. PICK n \in 1 .. tree_size - 1 : n = Tree!LastNode(k) /\ Tree!Step(n, k) = 0
    BY <2>1, SearchEnds DEF TreeInv
  <2>3. LeafAdded(n, k)
    BY <2>1, <2>2 DEF LeafAdded
  <2>4. TreeTyped' /\ LinksAscend'
    BY <2>3, LeafIsWritten, LinksGrow DEF TreeInv
  <2>5. Placed' /\ LinkedOnce'
    BY <2>2, <2>3, LeafKeepsPlaced, LeafKeepsLinkedOnce DEF TreeInv
  <2> QED
    BY <2>4, <2>5 DEF TreeInv
<1> QED
  BY <1>1, <1>2, <1>3, <1>4 DEF Tree!Next

\* A search finds a key exactly if a node holds it.
LEMMA SearchesFind ==
  ASSUME TreeTyped, LinksAscend, Placed
  PROVE  Tree!FindsExactlyTheKeys
<1>1. TreeMax \in Nat \ {0} /\ tree_size \in Nat \ {0}
  BY TreeAssumption DEF TreeTyped
<1>2. ASSUME NEW k, Tree!TreeFind(k)
      PROVE  k \in Tree!InTree
  <2>1. PICK i \in 0 .. TreeMax : Tree!Path(k)[i] # 0 /\ tree_key[Tree!Path(k)[i]] = k
    BY <1>2 DEF Tree!TreeFind
  <2>2. PICK n : n = Tree!Path(k)[i]
    OBVIOUS
  <2>3. n \in 1 .. tree_size - 1
    BY <1>1, <2>1, <2>2, PathAscends DEF PathsAscend
  <2>4. root # 0
    BY <1>1, <2>3 DEF TreeTyped
  <2> QED
    BY <2>1, <2>2, <2>3, <2>4 DEF Tree!InTree, Tree!Nodes
<1>3. ASSUME NEW k, k \in Tree!InTree
      PROVE  Tree!TreeFind(k)
  <2>1. PICK n \in 1 .. tree_size - 1 : k = tree_key[n]
    BY <1>3 DEF Tree!InTree, Tree!Nodes
  <2>2. PICK d \in 0 .. TreeMax : Tree!Path(k)[d] = n
    BY <2>1 DEF Placed, Visits
  <2> QED
    BY <2>1, <2>2 DEF Tree!TreeFind
<1> QED
  BY <1>2, <1>3 DEF Tree!FindsExactlyTheKeys

\* No key has two nodes: both would be where its search ends.
LEMMA TreeIsFormed ==
  ASSUME TreeTyped, LinksAscend, Placed, LinkedOnce
  PROVE  Tree!NodesFormTree
<1> DEFINE N == 1 .. tree_size - 1
           f == [n \in N |-> tree_key[n]]
<1>1. tree_size \in Nat \ {0} /\ (root = 0 <=> tree_size = 1) /\ (root # 0 => root = 1)
  BY DEF TreeTyped
<1>2. Tree!InTree = {tree_key[n] : n \in N}
  BY <1>1 DEF Tree!InTree, Tree!Nodes
<1>3. \A n, m \in N : tree_key[n] = tree_key[m] => n = m
  BY NodeEndsSearch
<1>4. f \in Surjection(N, Tree!InTree) /\ f \in Injection(N, Tree!InTree)
  BY <1>2, <1>3 DEF Injection, Surjection, IsInjective
<1>5. IsFiniteSet(N) /\ Cardinality(N) = tree_size - 1
  BY <1>1, FS_Interval
<1>6. Cardinality(Tree!InTree) = tree_size - 1
  <2> HIDE DEF N, f
  <2> QED
    BY <1>4, <1>5, FS_Surjection
<1>7. \A S : Tree!Cardinality(S) = Cardinality(S)
  BY DEF Tree!Cardinality, Cardinality
<1>8. ASSUME NEW n \in N \ {1}, root # 0
      PROVE  Cardinality(Tree!LinksTo(n)) = 1
  <2>1. n \in 2 .. tree_size - 1
    BY <1>1
  <2>2. PICK m \in 1 .. tree_size - 1, side \in {"left", "right"} :
          Tree!LinksTo(n) = {<<m, side>>}
    BY <2>1 DEF LinkedOnce
  <2> QED
    BY <2>2, FS_Singleton
<1> QED
  BY <1>1, <1>6, <1>7, <1>8 DEF Tree!NodesFormTree, Tree!Nodes

\* The binary tree stays one, for any number of nodes and any keys: no key has two nodes,
\* every node but the root is linked to once, and a search finds exactly what was
\* inserted, also in arrays that hold the links of earlier trees.
THEOREM TreeIsSearchTreeHolds == Tree!Spec => []TreeIsSearchTree
<1>1. TreeInv => TreeIsSearchTree
  BY SearchesFind, TreeIsFormed DEF TreeInv, TreeIsSearchTree, Tree!TreeIsSearchTree
<1> QED
  BY TreeInit, TreeStep, <1>1, PTL DEF Tree!Spec

(***************************************************************************)
(* StdList: the lists, as sequences of the nodes in their rings.           *)
(***************************************************************************)
CONSTANTS
  ListNodes,  \* addresses MAlloc can return for a node
  ListHeads   \* the list heads of the clients

VARIABLES next, prev, val, live, list_result

List == INSTANCE StdList
  WITH Nodes <- ListNodes, Heads <- ListHeads, result <- list_result

ASSUME ListAssumption == IsFiniteSet(ListNodes) /\ ListNodes \intersect ListHeads = {}

\* StdList: links are inverse, lists are disjoint rings and do not disturb each
\* other.
ListsStayRings ==
  [](List!LinksAreInverse /\ List!ListsAreDisjointRings) /\ List!OtherListUntouched

\* The cells of the ring of h: the head, then the nodes r, then the head again.
Cell(h, r, i) == IF i \in 1 .. Len(r) THEN r[i] ELSE h

Inserted(r, k, n) ==
  [i \in 1 .. Len(r) + 1 |-> IF i <= k THEN r[i] ELSE IF i = k + 1 THEN n ELSE r[i - 1]]
Without(r, k) == [i \in 1 .. Len(r) - 1 |-> IF i < k THEN r[i] ELSE r[i + 1]]

\* The links nx and pv run through the nodes r and back, and no node comes twice.
RingIs(h, r, nx, pv) ==
  /\ \A i \in 0 .. Len(r) :
       nx[Cell(h, r, i)] = Cell(h, r, i + 1) /\ pv[Cell(h, r, i + 1)] = Cell(h, r, i)
  /\ \A i, j \in 1 .. Len(r) : r[i] = r[j] => i = j

\* Every list is the ring that a sequence of allocated nodes describes, no node is in
\* two of them, and an allocated node in none of them links to itself.
Rings(ring, nx, pv, lv) ==
  /\ DOMAIN nx = List!Cells /\ DOMAIN pv = List!Cells /\ lv \subseteq ListNodes
  /\ ring \in [ListHeads -> Seq(ListNodes)]
  /\ \A h \in ListHeads :
       /\ RingIs(h, ring[h], nx, pv)
       /\ \A i \in 1 .. Len(ring[h]) : ring[h][i] \in lv
  /\ \A g, h \in ListHeads : g # h =>
       \A i \in 1 .. Len(ring[g]), j \in 1 .. Len(ring[h]) : ring[g][i] # ring[h][j]
  /\ \A n \in lv :
       (\A h \in ListHeads : \A i \in 1 .. Len(ring[h]) : ring[h][i] # n)
         => nx[n] = n /\ pv[n] = n

ListInv == \E ring : Rings(ring, next, prev, live)

\* What one statement that assigns two links leaves.
LEMMA TwoLinks ==
  ASSUME NEW f, NEW a \in DOMAIN f, NEW b \in DOMAIN f, NEW x, NEW y, NEW g,
         g = [f EXCEPT ![a] = x, ![b] = y]
  PROVE  /\ DOMAIN g = DOMAIN f
         /\ g[b] = y
         /\ a # b => g[a] = x
         /\ \A c \in DOMAIN f : c # a /\ c # b => g[c] = f[c]
OBVIOUS

\* The cells of a ring are different ones, from the head on and up to the head.
LEMMA CellsDiffer ==
  ASSUME NEW h \in ListHeads, NEW r \in Seq(ListNodes), NEW nx, NEW pv,
         RingIs(h, r, nx, pv)
  PROVE  /\ \A i \in Nat : Cell(h, r, i) \in List!Cells
         /\ \A i \in 1 .. Len(r) : Cell(h, r, i) = r[i] /\ r[i] # h
         /\ Cell(h, r, 0) = h /\ Cell(h, r, Len(r) + 1) = h
         /\ \A i, j \in 0 .. Len(r) : Cell(h, r, i) = Cell(h, r, j) => i = j
         /\ \A i, j \in 1 .. Len(r) + 1 : Cell(h, r, i) = Cell(h, r, j) => i = j
<1>1. Len(r) \in Nat /\ \A i \in 1 .. Len(r) : r[i] \in ListNodes
  OBVIOUS
<1>2. \A i \in 1 .. Len(r) : r[i] # h
  BY <1>1, ListAssumption
<1>3. \A i, j \in 1 .. Len(r) : r[i] = r[j] => i = j
  BY DEF RingIs
<1> QED
  BY <1>1, <1>2, <1>3 DEF Cell, List!Cells

\* The links nx2 and pv2 are nx and pv, with n at place k of the ring r of h; without
\* the k-th node; and where they run through the ring, what they were.
Grown(h, r, k, n, nx, pv, nx2, pv2) ==
  /\ nx2 = [nx EXCEPT ![n] = Cell(h, r, k + 1), ![Cell(h, r, k)] = n]
  /\ pv2 = [pv EXCEPT ![n] = Cell(h, r, k), ![Cell(h, r, k + 1)] = n]
Shrunk(h, r, k, nx, pv, nx2, pv2) ==
  /\ nx2 = [nx EXCEPT ![Cell(h, r, k - 1)] = Cell(h, r, k + 1), ![r[k]] = r[k]]
  /\ pv2 = [pv EXCEPT ![Cell(h, r, k + 1)] = Cell(h, r, k - 1), ![r[k]] = r[k]]
Kept(h, r, nx, pv, nx2, pv2) ==
  \A i \in 0 .. Len(r) :
    nx2[Cell(h, r, i)] = nx[Cell(h, r, i)] /\ pv2[Cell(h, r, i)] = pv[Cell(h, r, i)]

\* A node inserted at a place of a ring belongs to the ring, at that place.
LEMMA RingGrows ==
  ASSUME NEW h \in ListHeads, NEW r \in Seq(ListNodes), NEW nx, NEW pv,
         RingIs(h, r, nx, pv), DOMAIN nx = List!Cells, DOMAIN pv = List!Cells,
         NEW k \in 0 .. Len(r), NEW n \in ListNodes, \A i \in 1 .. Len(r) : r[i] # n,
         NEW nx2, NEW pv2, Grown(h, r, k, n, nx, pv, nx2, pv2)
  PROVE  /\ Inserted(r, k, n) \in Seq(ListNodes)
         /\ Len(Inserted(r, k, n)) = Len(r) + 1
         /\ RingIs(h, Inserted(r, k, n), nx2, pv2)
<1> DEFINE q == Inserted(r, k, n)
<1>1. Len(r) \in Nat /\ k \in Nat /\ n \in List!Cells /\ n # h
  BY ListAssumption DEF List!Cells
<1>2. q \in [1 .. Len(r) + 1 -> ListNodes]
  BY <1>1 DEF Inserted
<1>3. q \in Seq(ListNodes) /\ Len(q) = Len(r) + 1
  BY <1>1, <1>2, FunctionIsSequence
<1>4. /\ \A i \in Nat : Cell(h, r, i) \in List!Cells
      /\ \A i \in 1 .. Len(r) : Cell(h, r, i) = r[i] /\ r[i] # h
      /\ Cell(h, r, 0) = h /\ Cell(h, r, Len(r) + 1) = h
      /\ \A i, j \in 0 .. Len(r) : Cell(h, r, i) = Cell(h, r, j) => i = j
      /\ \A i, j \in 1 .. Len(r) + 1 : Cell(h, r, i) = Cell(h, r, j) => i = j
  BY CellsDiffer
<1>5. \A i \in 0 .. Len(r) + 1 : Cell(h, r, i) # n
  BY <1>1, <1>4
<1>6. \A i \in 0 .. Len(r) + 2 :
        Cell(h, q, i) = IF i <= k THEN Cell(h, r, i)
                        ELSE IF i = k + 1 THEN n ELSE Cell(h, r, i - 1)
  BY <1>1, <1>3 DEF Cell, Inserted
<1>7. /\ nx2[Cell(h, r, k)] = n /\ nx2[n] = Cell(h, r, k + 1)
      /\ \A c \in List!Cells : c # n /\ c # Cell(h, r, k) => nx2[c] = nx[c]
  BY <1>1, <1>4, <1>5, TwoLinks DEF Grown
<1>8. /\ pv2[Cell(h, r, k + 1)] = n /\ pv2[n] = Cell(h, r, k)
      /\ \A c \in List!Cells : c # n /\ c # Cell(h, r, k + 1) => pv2[c] = pv[c]
  BY <1>1, <1>4, <1>5, TwoLinks DEF Grown
<1>9. \A i \in 0 .. Len(r) :
        nx[Cell(h, r, i)] = Cell(h, r, i + 1) /\ pv[Cell(h, r, i + 1)] = Cell(h, r, i)
  BY DEF RingIs
<1> HIDE DEF q
<1>10. /\ \A i \in 0 .. Len(r) : i # k => nx2[Cell(h, r, i)] = Cell(h, r, i + 1)
       /\ \A j \in 1 .. Len(r) + 1 : j # k + 1 => pv2[Cell(h, r, j)] = Cell(h, r, j - 1)
  <2>1. ASSUME NEW i \in 0 .. Len(r), i # k
        PROVE  nx2[Cell(h, r, i)] = Cell(h, r, i + 1)
    <3>1. Cell(h, r, i) # Cell(h, r, k) /\ Cell(h, r, i) # n /\ Cell(h, r, i) \in List!Cells
      BY <1>1, <1>4, <1>5, <2>1
    <3> QED
      BY <1>7, <1>9, <3>1
  <2>2. ASSUME NEW j \in 1 .. Len(r) + 1, j # k + 1
        PROVE  pv2[Cell(h, r, j)] = Cell(h, r, j - 1)
    <3>1. Cell(h, r, j) # Cell(h, r, k + 1) /\ Cell(h, r, j) # n /\ Cell(h, r, j) \in List!Cells
      BY <1>1, <1>4, <1>5, <2>2
    <3>2. j - 1 \in 0 .. Len(r) /\ (j - 1) + 1 = j
      BY <1>1
    <3> QED
      BY <1>8, <1>9, <3>1, <3>2
  <2> QED
    BY <2>1, <2>2
<1>11. ASSUME NEW i \in 0 .. Len(q)
       PROVE  nx2[Cell(h, q, i)] = Cell(h, q, i + 1) /\ pv2[Cell(h, q, i + 1)] = Cell(h, q, i)
  <2>1. i \in 0 .. Len(r) + 2 /\ i + 1 \in 0 .. Len(r) + 2 /\ (i + 1) - 1 = i
    BY <1>1, <1>3
  <2>2. CASE i < k
    <3>1. i \in 0 .. Len(r) /\ i + 1 \in 1 .. Len(r) + 1 /\ i # k /\ i + 1 # k + 1
      BY <1>1, <2>2
    <3>2. Cell(h, q, i) = Cell(h, r, i) /\ Cell(h, q, i + 1) = Cell(h, r, i + 1)
      BY <1>1, <1>6, <2>1, <2>2
    <3>3. nx2[Cell(h, r, i)] = Cell(h, r, i + 1)
      BY <1>10, <3>1
    <3>4. pv2[Cell(h, r, i + 1)] = Cell(h, r, (i + 1) - 1)
      BY <1>10, <3>1
    <3> QED
      BY <2>1, <3>2, <3>3, <3>4
  <2>3. CASE i = k
    BY <1>1, <1>6, <1>7, <1>8, <2>1, <2>3
  <2>4. CASE i = k + 1
    BY <1>1, <1>6, <1>7, <1>8, <2>1, <2>4
  <2>5. CASE i > k + 1
    <3>1. i - 1 \in 0 .. Len(r) /\ i \in 1 .. Len(r) + 1 /\ (i - 1) + 1 = i
      BY <1>1, <1>3, <2>5
    <3>2. Cell(h, q, i) = Cell(h, r, i - 1) /\ Cell(h, q, i + 1) = Cell(h, r, i)
      BY <1>1, <1>6, <2>1, <2>5
    <3>3. i - 1 # k /\ i # k + 1
      BY <1>1, <2>5
    <3>4. nx2[Cell(h, r, i - 1)] = Cell(h, r, (i - 1) + 1)
      BY <1>10, <3>1, <3>3
    <3>5. pv2[Cell(h, r, i)] = Cell(h, r, i - 1)
      BY <1>10, <3>1, <3>3
    <3> QED
      BY <3>1, <3>2, <3>4, <3>5
  <2> QED
    BY <1>1, <2>1, <2>2, <2>3, <2>4, <2>5
<1>12. \A i, j \in 1 .. Len(q) : q[i] = q[j] => i = j
  <2>1. \A i, j \in 1 .. Len(r) : r[i] = r[j] => i = j
    BY DEF RingIs
  <2>2. \A i \in 1 .. Len(r) + 1 :
          q[i] = IF i <= k THEN r[i] ELSE IF i = k + 1 THEN n ELSE r[i - 1]
    BY DEF q, Inserted
  <2> SUFFICES ASSUME NEW i \in 1 .. Len(r) + 1, NEW j \in 1 .. Len(r) + 1, q[i] = q[j]
               PROVE  i = j
    BY <1>3
  <2>3. \A e \in 1 .. Len(r) + 1 : e > k + 1 => e - 1 \in 1 .. Len(r)
    BY <1>1
  <2>4. \A e \in 1 .. Len(r) + 1 : e <= k => e \in 1 .. Len(r)
    BY <1>1
  <2>5. CASE i <= k
    BY <1>1, <2>1, <2>2, <2>3, <2>4, <2>5
  <2>6. CASE i = k + 1
    BY <1>1, <2>1, <2>2, <2>3, <2>4, <2>6
  <2>7. CASE i > k + 1
    BY <1>1, <2>1, <2>2, <2>3, <2>4, <2>7
  <2> QED
    BY <1>1, <2>5, <2>6, <2>7
<1> QED
  BY <1>3, <1>11, <1>12 DEF RingIs, q

\* A ring without one of its nodes.
LEMMA RingShrinks ==
  ASSUME NEW h \in ListHeads, NEW r \in Seq(ListNodes), NEW nx, NEW pv,
         RingIs(h, r, nx, pv), DOMAIN nx = List!Cells, DOMAIN pv = List!Cells,
         NEW k \in 1 .. Len(r), NEW nx2, NEW pv2, Shrunk(h, r, k, nx, pv, nx2, pv2)
  PROVE  /\ Without(r, k) \in Seq(ListNodes)
         /\ Len(Without(r, k)) = Len(r) - 1
         /\ RingIs(h, Without(r, k), nx2, pv2)
<1> DEFINE q == Without(r, k)
           n == r[k]
<1>1. /\ Len(r) \in Nat /\ k \in Nat /\ n \in List!Cells /\ n # h
      /\ k - 1 \in 0 .. Len(r) /\ k + 1 \in 1 .. Len(r) + 1 /\ Len(r) - 1 \in Nat
  BY ListAssumption DEF List!Cells
<1>2. q \in [1 .. Len(r) - 1 -> ListNodes]
  BY <1>1 DEF Without
<1>3. q \in Seq(ListNodes) /\ Len(q) = Len(r) - 1
  BY <1>1, <1>2, FunctionIsSequence
<1>4. /\ \A i \in Nat : Cell(h, r, i) \in List!Cells
      /\ \A i \in 1 .. Len(r) : Cell(h, r, i) = r[i] /\ r[i] # h
      /\ Cell(h, r, 0) = h /\ Cell(h, r, Len(r) + 1) = h
      /\ \A i, j \in 0 .. Len(r) : Cell(h, r, i) = Cell(h, r, j) => i = j
      /\ \A i, j \in 1 .. Len(r) + 1 : Cell(h, r, i) = Cell(h, r, j) => i = j
  BY CellsDiffer
<1>5. Cell(h, r, k) = n /\ \A i \in 0 .. Len(r) + 1 : i # k => Cell(h, r, i) # n
  <2>1. Cell(h, r, k) = n
    BY <1>4
  <2>2. \A i \in 0 .. Len(r) : i # k => Cell(h, r, i) # n
    BY <1>1, <1>4, <2>1
  <2>3. Cell(h, r, Len(r) + 1) # n
    BY <1>1, <1>4
  <2> QED
    BY <1>1, <2>1, <2>2, <2>3
<1>6. \A i \in 0 .. Len(r) :
        Cell(h, q, i) = IF i < k THEN Cell(h, r, i) ELSE Cell(h, r, i + 1)
  BY <1>1, <1>3 DEF Cell, Without
<1>7. /\ nx2[Cell(h, r, k - 1)] = Cell(h, r, k + 1)
      /\ \A c \in List!Cells : c # n /\ c # Cell(h, r, k - 1) => nx2[c] = nx[c]
  BY <1>1, <1>4, <1>5, TwoLinks DEF Shrunk
<1>8. /\ pv2[Cell(h, r, k + 1)] = Cell(h, r, k - 1)
      /\ \A c \in List!Cells : c # n /\ c # Cell(h, r, k + 1) => pv2[c] = pv[c]
  BY <1>1, <1>4, <1>5, TwoLinks DEF Shrunk
<1>9. \A i \in 0 .. Len(r) :
        nx[Cell(h, r, i)] = Cell(h, r, i + 1) /\ pv[Cell(h, r, i + 1)] = Cell(h, r, i)
  BY DEF RingIs
<1> HIDE DEF q, n
<1>10. /\ \A i \in 0 .. Len(r) :
            i # k /\ i # k - 1 => nx2[Cell(h, r, i)] = Cell(h, r, i + 1)
       /\ \A j \in 1 .. Len(r) + 1 :
            j # k /\ j # k + 1 => pv2[Cell(h, r, j)] = Cell(h, r, j - 1)
  <2>1. ASSUME NEW i \in 0 .. Len(r), i # k, i # k - 1
        PROVE  nx2[Cell(h, r, i)] = Cell(h, r, i + 1)
    <3>1. /\ Cell(h, r, i) # Cell(h, r, k - 1) /\ Cell(h, r, i) # n
          /\ Cell(h, r, i) \in List!Cells
      BY <1>1, <1>4, <1>5, <2>1
    <3> QED
      BY <1>7, <1>9, <3>1
  <2>2. ASSUME NEW j \in 1 .. Len(r) + 1, j # k, j # k + 1
        PROVE  pv2[Cell(h, r, j)] = Cell(h, r, j - 1)
    <3>1. /\ Cell(h, r, j) # Cell(h, r, k + 1) /\ Cell(h, r, j) # n
          /\ Cell(h, r, j) \in List!Cells
      BY <1>1, <1>4, <1>5, <2>2
    <3>2. j - 1 \in 0 .. Len(r) /\ (j - 1) + 1 = j
      BY <1>1
    <3> QED
      BY <1>8, <1>9, <3>1, <3>2
  <2> QED
    BY <2>1, <2>2
<1>11. ASSUME NEW i \in 0 .. Len(q)
       PROVE  nx2[Cell(h, q, i)] = Cell(h, q, i + 1) /\ pv2[Cell(h, q, i + 1)] = Cell(h, q, i)
  <2>1. i \in 0 .. Len(r) /\ i + 1 \in 0 .. Len(r) /\ (i + 1) - 1 = i /\ i + 1 \in 1 .. Len(r) + 1
    BY <1>1, <1>3
  <2>2. CASE i < k - 1
    <3>1. i # k /\ i # k - 1 /\ i + 1 # k /\ i + 1 # k + 1
      BY <1>1, <2>2
    <3>2. Cell(h, q, i) = Cell(h, r, i) /\ Cell(h, q, i + 1) = Cell(h, r, i + 1)
      BY <1>1, <1>6, <2>1, <2>2
    <3>3. nx2[Cell(h, r, i)] = Cell(h, r, i + 1)
      BY <1>10, <2>1, <3>1
    <3>4. pv2[Cell(h, r, i + 1)] = Cell(h, r, (i + 1) - 1)
      BY <1>10, <2>1, <3>1
    <3> QED
      BY <2>1, <3>2, <3>3, <3>4
  <2>3. CASE i = k - 1
    BY <1>1, <1>6, <1>7, <1>8, <2>1, <2>3
  <2>4. CASE i >= k
    <3>1. i + 2 \in 1 .. Len(r) + 1 /\ (i + 2) - 1 = i + 1 /\ (i + 1) + 1 = i + 2
      BY <1>1, <1>3
    <3>2. i + 1 # k /\ i + 2 # k /\ i + 1 # k - 1 /\ i + 2 # k + 1
      BY <1>1, <2>4
    <3>3. Cell(h, q, i) = Cell(h, r, i + 1) /\ Cell(h, q, i + 1) = Cell(h, r, i + 2)
      BY <1>1, <1>6, <2>1, <2>4, <3>1
    <3>4. nx2[Cell(h, r, i + 1)] = Cell(h, r, (i + 1) + 1)
      BY <1>10, <2>1, <3>2
    <3>5. pv2[Cell(h, r, i + 2)] = Cell(h, r, (i + 2) - 1)
      BY <1>10, <3>1, <3>2
    <3> QED
      BY <3>1, <3>3, <3>4, <3>5
  <2> QED
    BY <1>1, <2>1, <2>2, <2>3, <2>4
<1>12. \A i, j \in 1 .. Len(q) : q[i] = q[j] => i = j
  <2>1. \A i, j \in 1 .. Len(r) : r[i] = r[j] => i = j
    BY DEF RingIs
  <2>2. \A i \in 1 .. Len(r) - 1 : q[i] = IF i < k THEN r[i] ELSE r[i + 1]
    BY DEF q, Without
  <2> SUFFICES ASSUME NEW i \in 1 .. Len(r) - 1, NEW j \in 1 .. Len(r) - 1, q[i] = q[j]
               PROVE  i = j
    BY <1>3
  <2>3. i \in 1 .. Len(r) /\ i + 1 \in 1 .. Len(r) /\ j \in 1 .. Len(r) /\ j + 1 \in 1 .. Len(r)
    BY <1>1
  <2>4. CASE i < k
    BY <1>1, <2>1, <2>2, <2>3, <2>4
  <2>5. CASE i >= k
    BY <1>1, <2>1, <2>2, <2>3, <2>5
  <2> QED
    BY <1>1, <2>4, <2>5
<1> QED
  BY <1>3, <1>11, <1>12 DEF RingIs, q

\* A ring whose links do not change stays what it was.
LEMMA RingKeeps ==
  ASSUME NEW h, NEW r, Len(r) \in Nat, NEW nx, NEW pv, RingIs(h, r, nx, pv), NEW nx2, NEW pv2,
         Kept(h, r, nx, pv, nx2, pv2)
  PROVE  RingIs(h, r, nx2, pv2)
<1>1. ASSUME NEW i \in 0 .. Len(r)
      PROVE  /\ nx2[Cell(h, r, i)] = Cell(h, r, i + 1)
             /\ pv2[Cell(h, r, i + 1)] = Cell(h, r, i)
  <2>1. nx[Cell(h, r, i)] = Cell(h, r, i + 1) /\ pv[Cell(h, r, i + 1)] = Cell(h, r, i)
    BY DEF RingIs
  <2>2. CASE i < Len(r)
    <3>1. i + 1 \in 0 .. Len(r)
      BY <2>2
    <3> QED
      BY <2>1, <3>1 DEF Kept
  <2>3. CASE i = Len(r)
    <3>1. Cell(h, r, i + 1) = Cell(h, r, 0) /\ 0 \in 0 .. Len(r)
      BY <2>3 DEF Cell
    <3> QED
      BY <2>1, <3>1 DEF Kept
  <2> QED
    BY <2>2, <2>3
<1> QED
  BY <1>1 DEF RingIs

\* The cells of two lists are different, and no cell of a list is a node outside.
LEMMA CellsApart ==
  ASSUME NEW ring, NEW nx, NEW pv, NEW lv, Rings(ring, nx, pv, lv),
         NEW g \in ListHeads, NEW h \in ListHeads, g # h, NEW i \in Nat, NEW j \in Nat
  PROVE  Cell(g, ring[g], i) # Cell(h, ring[h], j)
<1>1. /\ ring[g] \in Seq(ListNodes) /\ ring[h] \in Seq(ListNodes)
      /\ \A k \in 1 .. Len(ring[g]), e \in 1 .. Len(ring[h]) : ring[g][k] # ring[h][e]
  BY DEF Rings
<1>2. /\ \A k \in 1 .. Len(ring[g]) : ring[g][k] # h
      /\ \A k \in 1 .. Len(ring[h]) : ring[h][k] # g
  BY <1>1, ListAssumption
<1> QED
  BY <1>1, <1>2 DEF Cell

\* No list holds the node n.
Outside(ring, n) == \A h \in ListHeads : \A i \in 1 .. Len(ring[h]) : ring[h][i] # n

LEMMA CellIsNot ==
  ASSUME NEW ring, NEW n \in ListNodes, Outside(ring, n), NEW h \in ListHeads, NEW i
  PROVE  Cell(h, ring[h], i) # n
BY ListAssumption DEF Outside, Cell

\* A node outside of every list, inserted at place k of the list h.
LEMMA RingsInsert ==
  ASSUME NEW ring, NEW nx, NEW pv, NEW lv, Rings(ring, nx, pv, lv),
         NEW h \in ListHeads, NEW k \in 0 .. Len(ring[h]),
         NEW n \in ListNodes, Outside(ring, n),
         NEW nx2, NEW pv2,
         nx2 = [nx EXCEPT ![n] = nx[Cell(h, ring[h], k)], ![Cell(h, ring[h], k)] = n],
         pv2 = [pv EXCEPT ![n] = Cell(h, ring[h], k), ![nx[Cell(h, ring[h], k)]] = n]
  PROVE  Rings([ring EXCEPT ![h] = Inserted(ring[h], k, n)], nx2, pv2, lv \union {n})
<1> DEFINE r == ring[h]
           q == Inserted(r, k, n)
           ring2 == [ring EXCEPT ![h] = q]
           lv2 == lv \union {n}
<1>1. /\ DOMAIN nx = List!Cells /\ DOMAIN pv = List!Cells /\ lv \subseteq ListNodes
      /\ ring \in [ListHeads -> Seq(ListNodes)]
      /\ \A g \in ListHeads : ring[g] \in Seq(ListNodes) /\ Len(ring[g]) \in Nat
      /\ \A g \in ListHeads : RingIs(g, ring[g], nx, pv)
      /\ \A g \in ListHeads : \A i \in 1 .. Len(ring[g]) : ring[g][i] \in lv
  BY DEF Rings
<1>2. /\ \A g, e \in ListHeads : g # e =>
           \A i \in 1 .. Len(ring[g]), j \in 1 .. Len(ring[e]) : ring[g][i] # ring[e][j]
      /\ \A m \in lv : Outside(ring, m) => nx[m] = m /\ pv[m] = m
  BY DEF Rings, Outside
<1>3. k \in Nat /\ k + 1 \in Nat /\ n \in List!Cells
  BY <1>1 DEF List!Cells
<1>4. nx[Cell(h, r, k)] = Cell(h, r, k + 1)
  BY <1>1 DEF RingIs
<1>5. \A i \in 1 .. Len(r) : r[i] # n
  BY DEF Outside
<1>6. Grown(h, r, k, n, nx, pv, nx2, pv2)
  BY <1>4 DEF Grown
<1>7. q \in Seq(ListNodes) /\ Len(q) = Len(r) + 1 /\ RingIs(h, q, nx2, pv2)
  <2> HIDE DEF r
  <2>1. r \in Seq(ListNodes) /\ RingIs(h, r, nx, pv) /\ k \in 0 .. Len(r)
    BY <1>1 DEF r
  <2> QED
    BY <1>1, <1>5, <1>6, <2>1, RingGrows
<1>8. \A i \in Nat : Cell(h, r, i) \in List!Cells
  BY <1>1, CellsDiffer
<1>9. /\ DOMAIN nx2 = List!Cells /\ DOMAIN pv2 = List!Cells
      /\ \A c \in List!Cells : c # n /\ c # Cell(h, r, k) => nx2[c] = nx[c]
      /\ \A c \in List!Cells : c # n /\ c # Cell(h, r, k + 1) => pv2[c] = pv[c]
  BY <1>1, <1>3, <1>6, <1>8, TwoLinks DEF Grown
<1>10. \A i \in 1 .. Len(q) : q[i] = n \/ \E j \in 1 .. Len(r) : q[i] = r[j]
  <2>1. \A i \in 1 .. Len(r) + 1 :
          q[i] = IF i <= k THEN r[i] ELSE IF i = k + 1 THEN n ELSE r[i - 1]
    BY DEF Inserted
  <2>2. Len(r) \in Nat
    BY <1>1
  <2> HIDE DEF q, r
  <2> SUFFICES ASSUME NEW i \in 1 .. Len(r) + 1
               PROVE  q[i] = n \/ \E j \in 1 .. Len(r) : q[i] = r[j]
    BY <1>7
  <2>3. CASE i <= k
    <3>1. i \in 1 .. Len(r)
      BY <1>3, <2>2, <2>3 DEF r
    <3> QED
      BY <2>1, <2>3, <3>1
  <2>4. CASE i = k + 1
    BY <1>3, <2>1, <2>4
  <2>5. CASE i > k + 1
    <3>1. i - 1 \in 1 .. Len(r)
      BY <1>3, <2>2, <2>5
    <3>2. q[i] = r[i - 1]
      BY <1>3, <2>1, <2>5
    <3> QED
      BY <3>1, <3>2
  <2> QED
    BY <1>3, <2>3, <2>4, <2>5
<1>11. \A j \in 1 .. Len(r) : \E i \in 1 .. Len(q) : q[i] = r[j]
  <2>1. \A i \in 1 .. Len(r) + 1 :
          q[i] = IF i <= k THEN r[i] ELSE IF i = k + 1 THEN n ELSE r[i - 1]
    BY DEF Inserted
  <2>2. Len(r) \in Nat
    BY <1>1
  <2> HIDE DEF q, r
  <2> SUFFICES ASSUME NEW j \in 1 .. Len(r)
               PROVE  \E i \in 1 .. Len(r) + 1 : q[i] = r[j]
    BY <1>7
  <2>3. CASE j <= k
    <3>1. j \in 1 .. Len(r) + 1
      BY <2>2
    <3> QED
      BY <2>1, <2>3, <3>1
  <2>4. CASE j > k
    <3>1. j + 1 \in 1 .. Len(r) + 1 /\ (j + 1) - 1 = j
      BY <2>2
    <3>2. q[j + 1] = r[j]
      BY <1>3, <2>1, <2>4, <3>1
    <3> QED
      BY <3>1, <3>2
  <2> QED
    BY <1>3, <2>3, <2>4
<1>12. \E i \in 1 .. Len(q) : q[i] = n
  <2>1. k + 1 \in 1 .. Len(r) + 1
    BY <1>1
  <2>2. q[k + 1] = n
    BY <1>3, <2>1 DEF Inserted
  <2> QED
    BY <1>7, <2>1, <2>2
<1> HIDE DEF q
<1>13. ring2 \in [ListHeads -> Seq(ListNodes)] /\ ring2[h] = q
       /\ \A g \in ListHeads : g # h => ring2[g] = ring[g]
  BY <1>1, <1>7
<1> HIDE DEF ring2, r
<1>14. \A g \in ListHeads : RingIs(g, ring2[g], nx2, pv2)
  <2> SUFFICES ASSUME NEW g \in ListHeads, g # h
               PROVE  RingIs(g, ring[g], nx2, pv2)
    BY <1>7, <1>13
  <2>1. ASSUME NEW i \in 0 .. Len(ring[g])
        PROVE  /\ nx2[Cell(g, ring[g], i)] = nx[Cell(g, ring[g], i)]
               /\ pv2[Cell(g, ring[g], i)] = pv[Cell(g, ring[g], i)]
    <3>1. Cell(g, ring[g], i) # Cell(h, r, k) /\ Cell(g, ring[g], i) # Cell(h, r, k + 1)
      BY <1>3, CellsApart DEF r
    <3>2. Cell(g, ring[g], i) # n
      BY CellIsNot
    <3>3. Cell(g, ring[g], i) \in List!Cells
      BY <1>1, CellsDiffer
    <3> QED
      BY <1>9, <3>1, <3>2, <3>3
  <2>2. RingIs(g, ring[g], nx, pv) /\ Len(ring[g]) \in Nat
    BY <1>1
  <2>3. Kept(g, ring[g], nx, pv, nx2, pv2)
    BY <2>1 DEF Kept
  <2> QED
    BY <2>2, <2>3, RingKeeps
<1>15. \A g \in ListHeads : \A i \in 1 .. Len(ring2[g]) : ring2[g][i] \in lv2
  BY <1>1, <1>10, <1>13 DEF r
<1>16. \A g, e \in ListHeads : g # e =>
         \A i \in 1 .. Len(ring2[g]), j \in 1 .. Len(ring2[e]) : ring2[g][i] # ring2[e][j]
  <2>1. ASSUME NEW g \in ListHeads, g # h, NEW i \in 1 .. Len(q), NEW j \in 1 .. Len(ring[g])
        PROVE  q[i] # ring[g][j]
    <3>1. CASE q[i] = n
      BY <3>1 DEF Outside
    <3>2. CASE \E e \in 1 .. Len(r) : q[i] = r[e]
      BY <1>2, <2>1, <3>2 DEF r
    <3> QED
      BY <1>10, <3>1, <3>2
  <2> QED
    BY <1>2, <1>13, <2>1
<1>17. ASSUME NEW m \in lv2, Outside(ring2, m)
       PROVE  nx2[m] = m /\ pv2[m] = m
  <2>1. m # n
    BY <1>12, <1>13, <1>17 DEF Outside
  <2>2. m \in lv /\ m \in List!Cells /\ m \in ListNodes
    BY <1>1, <2>1 DEF List!Cells
  <2>3. Outside(ring, m)
    BY <1>11, <1>13, <1>17 DEF Outside, r
  <2>4. m # Cell(h, r, k) /\ m # Cell(h, r, k + 1)
    BY <2>2, <2>3, CellIsNot DEF r
  <2> QED
    BY <1>2, <1>9, <2>1, <2>2, <2>3, <2>4
<1>18. lv2 \subseteq ListNodes
  BY <1>1
<1> HIDE DEF lv2
<1>19. Rings(ring2, nx2, pv2, lv2)
  BY <1>9, <1>13, <1>14, <1>15, <1>16, <1>17, <1>18 DEF Rings, Outside
<1> QED
  BY <1>19 DEF ring2, q, r, lv2

\* The node at place k of the list h, taken out of it and linked to itself.
LEMMA RingsRemove ==
  ASSUME NEW ring, NEW nx, NEW pv, NEW lv, Rings(ring, nx, pv, lv),
         NEW h \in ListHeads, NEW k \in 1 .. Len(ring[h]), NEW n, n = ring[h][k],
         NEW nx2, NEW pv2,
         nx2 = [nx EXCEPT ![pv[n]] = nx[n], ![n] = n],
         pv2 = [pv EXCEPT ![nx[n]] = pv[n], ![n] = n]
  PROVE  /\ Rings([ring EXCEPT ![h] = Without(ring[h], k)], nx2, pv2, lv)
         /\ Outside([ring EXCEPT ![h] = Without(ring[h], k)], n)
<1> DEFINE r == ring[h]
           q == Without(r, k)
           ring2 == [ring EXCEPT ![h] = q]
<1>1. /\ DOMAIN nx = List!Cells /\ DOMAIN pv = List!Cells /\ lv \subseteq ListNodes
      /\ ring \in [ListHeads -> Seq(ListNodes)]
      /\ \A g \in ListHeads : ring[g] \in Seq(ListNodes) /\ Len(ring[g]) \in Nat
      /\ \A g \in ListHeads : RingIs(g, ring[g], nx, pv)
      /\ \A g \in ListHeads : \A i \in 1 .. Len(ring[g]) : ring[g][i] \in lv
  BY DEF Rings
<1>2. /\ \A g, e \in ListHeads : g # e =>
           \A i \in 1 .. Len(ring[g]), j \in 1 .. Len(ring[e]) : ring[g][i] # ring[e][j]
      /\ \A m \in lv : Outside(ring, m) => nx[m] = m /\ pv[m] = m
  BY DEF Rings, Outside
<1>3. /\ k \in Nat /\ k - 1 \in Nat /\ k + 1 \in Nat /\ k - 1 \in 0 .. Len(r)
      /\ (k - 1) + 1 = k /\ k \in 0 .. Len(r) /\ n \in lv /\ n = r[k]
  BY <1>1
<1>4. Cell(h, r, k) = n /\ nx[n] = Cell(h, r, k + 1) /\ pv[n] = Cell(h, r, k - 1)
  <2>1. Cell(h, r, k) = n
    BY DEF Cell
  <2>2. nx[Cell(h, r, k)] = Cell(h, r, k + 1)
    BY <1>1, <1>3 DEF RingIs
  <2>3. pv[Cell(h, r, (k - 1) + 1)] = Cell(h, r, k - 1)
    BY <1>1, <1>3 DEF RingIs
  <2> QED
    BY <1>3, <2>1, <2>2, <2>3
<1>5. Shrunk(h, r, k, nx, pv, nx2, pv2)
  BY <1>3, <1>4 DEF Shrunk
<1>6. q \in Seq(ListNodes) /\ Len(q) = Len(r) - 1 /\ RingIs(h, q, nx2, pv2)
  <2> HIDE DEF r
  <2>1. r \in Seq(ListNodes) /\ RingIs(h, r, nx, pv) /\ k \in 1 .. Len(r)
    BY <1>1 DEF r
  <2> QED
    BY <1>1, <1>5, <2>1, RingShrinks
<1>7. \A i \in Nat : Cell(h, r, i) \in List!Cells
  BY <1>1, CellsDiffer
<1>8. /\ DOMAIN nx2 = List!Cells /\ DOMAIN pv2 = List!Cells
      /\ nx2[n] = n /\ pv2[n] = n
      /\ \A c \in List!Cells : c # n /\ c # Cell(h, r, k - 1) => nx2[c] = nx[c]
      /\ \A c \in List!Cells : c # n /\ c # Cell(h, r, k + 1) => pv2[c] = pv[c]
  <2>1. n \in List!Cells
    BY <1>1, <1>3 DEF List!Cells
  <2>2. nx2 = [nx EXCEPT ![Cell(h, r, k - 1)] = Cell(h, r, k + 1), ![n] = n]
    BY <1>4
  <2>3. pv2 = [pv EXCEPT ![Cell(h, r, k + 1)] = Cell(h, r, k - 1), ![n] = n]
    BY <1>4
  <2> QED
    BY <1>1, <1>3, <1>7, <2>1, <2>2, <2>3, TwoLinks
<1>9. \A i \in 1 .. Len(r) - 1 : q[i] = IF i < k THEN r[i] ELSE r[i + 1]
  BY DEF Without
<1>10. \A i, j \in 1 .. Len(r) : r[i] = r[j] => i = j
  BY <1>1 DEF RingIs
<1> HIDE DEF q, r
<1>11. \A i \in 1 .. Len(q) : q[i] # n /\ (\E j \in 1 .. Len(r) : q[i] = r[j])
  <2> SUFFICES ASSUME NEW i \in 1 .. Len(r) - 1
               PROVE  q[i] # n /\ \E j \in 1 .. Len(r) : q[i] = r[j]
    BY <1>6
  <2>1. i \in 1 .. Len(r) /\ i + 1 \in 1 .. Len(r) /\ k \in 1 .. Len(r)
    BY <1>1 DEF r
  <2>2. CASE i < k
    BY <1>3, <1>9, <1>10, <2>1, <2>2
  <2>3. CASE i >= k
    BY <1>3, <1>9, <1>10, <2>1, <2>3
  <2> QED
    BY <1>3, <2>1, <2>2, <2>3
<1>12. \A j \in 1 .. Len(r) : j # k => \E i \in 1 .. Len(q) : q[i] = r[j]
  <2> SUFFICES ASSUME NEW j \in 1 .. Len(r), j # k
               PROVE  \E i \in 1 .. Len(r) - 1 : q[i] = r[j]
    BY <1>6
  <2>1. Len(r) \in Nat /\ k \in 1 .. Len(r)
    BY <1>1 DEF r
  <2>2. CASE j < k
    <3>1. j \in 1 .. Len(r) - 1
      BY <2>1, <2>2
    <3> QED
      BY <1>9, <2>2, <3>1
  <2>3. CASE j > k
    <3>1. j - 1 \in 1 .. Len(r) - 1 /\ (j - 1) + 1 = j /\ ~ (j - 1 < k)
      BY <2>1, <2>3
    <3>2. q[j - 1] = r[j]
      BY <1>9, <3>1
    <3> QED
      BY <3>1, <3>2
  <2> QED
    BY <1>3, <2>2, <2>3
<1>13. ring2 \in [ListHeads -> Seq(ListNodes)] /\ ring2[h] = q
       /\ \A g \in ListHeads : g # h => ring2[g] = ring[g]
  BY <1>1, <1>6
<1> HIDE DEF ring2
<1>14. \A g \in ListHeads : g # h => \A i \in 1 .. Len(ring[g]) : ring[g][i] # n
  <2>1. k \in 1 .. Len(ring[h]) /\ ring[h][k] = n
    BY <1>3 DEF r
  <2> QED
    BY <1>2, <2>1
<1>15. \A g \in ListHeads : RingIs(g, ring2[g], nx2, pv2)
  <2> SUFFICES ASSUME NEW g \in ListHeads, g # h
               PROVE  RingIs(g, ring[g], nx2, pv2)
    BY <1>6, <1>13
  <2>1. ASSUME NEW i \in 0 .. Len(ring[g])
        PROVE  /\ nx2[Cell(g, ring[g], i)] = nx[Cell(g, ring[g], i)]
               /\ pv2[Cell(g, ring[g], i)] = pv[Cell(g, ring[g], i)]
    <3>1. /\ Cell(g, ring[g], i) # Cell(h, r, k - 1) /\ Cell(g, ring[g], i) # Cell(h, r, k + 1)
          /\ Cell(g, ring[g], i) # Cell(h, r, k)
      BY <1>3, CellsApart DEF r
    <3>2. Cell(g, ring[g], i) \in List!Cells
      BY <1>1, CellsDiffer
    <3> QED
      BY <1>4, <1>8, <3>1, <3>2
  <2>2. RingIs(g, ring[g], nx, pv) /\ Len(ring[g]) \in Nat
    BY <1>1
  <2>3. Kept(g, ring[g], nx, pv, nx2, pv2)
    BY <2>1 DEF Kept
  <2> QED
    BY <2>2, <2>3, RingKeeps
<1>16. \A g \in ListHeads : \A i \in 1 .. Len(ring2[g]) : ring2[g][i] \in lv
  <2>1. \A j \in 1 .. Len(r) : r[j] \in lv
    BY <1>1 DEF r
  <2>2. \A i \in 1 .. Len(q) : q[i] \in lv
    BY <1>11, <2>1
  <2> QED
    BY <1>1, <1>13, <2>2
<1>17. \A g, e \in ListHeads : g # e =>
         \A i \in 1 .. Len(ring2[g]), j \in 1 .. Len(ring2[e]) : ring2[g][i] # ring2[e][j]
  <2>1. ASSUME NEW g \in ListHeads, g # h, NEW i \in 1 .. Len(q), NEW j \in 1 .. Len(ring[g])
        PROVE  q[i] # ring[g][j]
    <3>1. PICK e \in 1 .. Len(r) : q[i] = r[e]
      BY <1>11, <2>1
    <3> QED
      BY <1>2, <2>1, <3>1 DEF r
  <2> SUFFICES ASSUME NEW g \in ListHeads, NEW e \in ListHeads, g # e,
                      NEW i \in 1 .. Len(ring2[g]), NEW j \in 1 .. Len(ring2[e])
               PROVE  ring2[g][i] # ring2[e][j]
    OBVIOUS
  <2>2. CASE g = h
    BY <1>13, <2>1, <2>2
  <2>3. CASE e = h
    BY <1>13, <2>1, <2>3
  <2>4. CASE g # h /\ e # h
    BY <1>2, <1>13, <2>4
  <2> QED
    BY <2>2, <2>3, <2>4
<1>18. Outside(ring2, n)
  BY <1>11, <1>13, <1>14 DEF Outside
<1>19. ASSUME NEW m \in lv, Outside(ring2, m)
       PROVE  nx2[m] = m /\ pv2[m] = m
  <2>1. CASE m = n
    BY <1>8, <2>1
  <2>2. CASE m # n
    <3>1. m \in List!Cells /\ m \in ListNodes
      BY <1>1 DEF List!Cells
    <3>2. \A j \in 1 .. Len(r) : r[j] # m
      BY <1>3, <1>12, <1>13, <1>19, <2>2 DEF Outside
    <3>3. Outside(ring, m)
      BY <1>13, <1>19, <3>2 DEF Outside, r
    <3>4. m # Cell(h, r, k - 1) /\ m # Cell(h, r, k + 1)
      BY <3>1, <3>3, CellIsNot DEF r
    <3> QED
      BY <1>2, <1>8, <2>2, <3>1, <3>3, <3>4
  <2> QED
    BY <2>1, <2>2
<1>20. Rings(ring2, nx2, pv2, lv)
  BY <1>1, <1>8, <1>13, <1>15, <1>16, <1>17, <1>19 DEF Rings, Outside
<1> QED
  BY <1>18, <1>20 DEF ring2, q, r

\* A node of no list can be freed.
LEMMA RingsFree ==
  ASSUME NEW ring, NEW nx, NEW pv, NEW lv, Rings(ring, nx, pv, lv),
         NEW n \in lv, Outside(ring, n)
  PROVE  Rings(ring, nx, pv, lv \ {n})
BY DEF Rings, Outside

\* Taking a node out of the list it is not in changes no link.
LEMMA RingsRemoveNone ==
  ASSUME NEW ring, NEW nx, NEW pv, NEW lv, Rings(ring, nx, pv, lv),
         NEW n \in lv, Outside(ring, n), NEW nx2, NEW pv2,
         nx2 = [nx EXCEPT ![pv[n]] = nx[n], ![n] = n],
         pv2 = [pv EXCEPT ![nx[n]] = pv[n], ![n] = n]
  PROVE  Rings(ring, nx2, pv2, lv)
<1>1. nx[n] = n /\ pv[n] = n
  BY DEF Rings, Outside
<1>2. /\ DOMAIN nx2 = DOMAIN nx /\ DOMAIN pv2 = DOMAIN pv
      /\ \A c \in List!Cells : nx2[c] = nx[c] /\ pv2[c] = pv[c]
  BY <1>1 DEF Rings
<1>3. ASSUME NEW h \in ListHeads
      PROVE  RingIs(h, ring[h], nx2, pv2)
  <2>1. /\ ring[h] \in Seq(ListNodes) /\ Len(ring[h]) \in Nat
        /\ RingIs(h, ring[h], nx, pv)
    BY DEF Rings
  <2>2. \A i \in Nat : Cell(h, ring[h], i) \in List!Cells
    BY <2>1, CellsDiffer
  <2>3. Kept(h, ring[h], nx, pv, nx2, pv2)
    <3>1. \A i \in 0 .. Len(ring[h]) : i \in Nat
      BY <2>1
    <3> QED
      BY <1>2, <2>2, <3>1 DEF Kept
  <2> QED
    BY <2>1, <2>3, RingKeeps
<1>4. \A m \in lv : m \in List!Cells
  BY DEF Rings, List!Cells
<1> QED
  BY <1>2, <1>3, <1>4 DEF Rings

\* The walk of QueCnt along the links nx, and the nodes it finds.
WalkFrom(nx, h) ==
  LET at[i \in 0 .. Cardinality(ListNodes) + 1] ==
        IF i = 0 THEN nx[h]
        ELSE IF at[i - 1] \in ListNodes THEN nx[at[i - 1]]
        ELSE at[i - 1]
  IN  at
MembersFrom(nx, h) ==
  {n \in ListNodes : \E i \in 0 .. Cardinality(ListNodes) : WalkFrom(nx, h)[i] = n}

\* The cells that the loop of QueCnt visits are those of the ring, and then the head.
LEMMA WalkVisits ==
  ASSUME NEW ring, NEW nx, NEW pv, NEW lv, Rings(ring, nx, pv, lv), NEW h \in ListHeads
  PROVE  \A i \in 0 .. Cardinality(ListNodes) + 1 :
           WalkFrom(nx, h)[i] = Cell(h, ring[h], i + 1)
<1> DEFINE r == ring[h]
           M == Cardinality(ListNodes) + 1
           Body(f) == [i \in 0 .. M |->
                         IF i = 0 THEN nx[h]
                         ELSE IF f[i - 1] \in ListNodes THEN nx[f[i - 1]] ELSE f[i - 1]]
           chosen == CHOOSE f : f = Body(f)
           w == [i \in 0 .. M |-> Cell(h, r, i + 1)]
<1>1. M \in Nat \ {0}
  <2>1. Cardinality(ListNodes) \in Nat
    BY ListAssumption, FS_CardinalityType
  <2> QED
    BY <2>1
<1>2. r \in Seq(ListNodes) /\ Len(r) \in Nat /\ RingIs(h, r, nx, pv)
  BY DEF Rings
<1>3. \A i \in 1 .. M : Cell(h, r, i + 1) = IF Cell(h, r, i) \in ListNodes
                                            THEN nx[Cell(h, r, i)] ELSE Cell(h, r, i)
  <2> SUFFICES ASSUME NEW i \in 1 .. M
               PROVE  Cell(h, r, i + 1) = IF Cell(h, r, i) \in ListNodes
                                          THEN nx[Cell(h, r, i)] ELSE Cell(h, r, i)
    OBVIOUS
  <2>1. CASE i <= Len(r)
    <3>1. i \in 1 .. Len(r) /\ i \in 0 .. Len(r) /\ r[i] \in ListNodes
      BY <1>1, <1>2, <2>1
    <3>2. Cell(h, r, i) = r[i] /\ nx[Cell(h, r, i)] = Cell(h, r, i + 1)
      BY <1>2, <3>1 DEF Cell, RingIs
    <3> QED
      BY <3>1, <3>2
  <2>2. CASE i > Len(r)
    <3>1. Cell(h, r, i) = h /\ Cell(h, r, i + 1) = h
      BY <1>1, <1>2, <2>2 DEF Cell
    <3> QED
      BY <3>1, ListAssumption
  <2> QED
    BY <1>1, <1>2, <2>1, <2>2
<1>4. Cell(h, r, 1) = nx[h]
  <2>1. Cell(h, r, 0) = h /\ nx[Cell(h, r, 0)] = Cell(h, r, 0 + 1)
    BY <1>2 DEF Cell, RingIs
  <2> QED
    BY <2>1
<1> HIDE DEF r
<1>5. w = Body(w)
  <2>1. \A i \in 0 .. M :
          w[i] = IF i = 0 THEN nx[h]
                 ELSE IF w[i - 1] \in ListNodes THEN nx[w[i - 1]] ELSE w[i - 1]
    <3> SUFFICES ASSUME NEW i \in 0 .. M
                 PROVE  w[i] = IF i = 0 THEN nx[h]
                               ELSE IF w[i - 1] \in ListNodes THEN nx[w[i - 1]]
                               ELSE w[i - 1]
      OBVIOUS
    <3>1. CASE i = 0
      BY <1>1, <1>4, <3>1
    <3>2. CASE i # 0
      <4>1. i \in 1 .. M /\ i - 1 \in 0 .. M /\ (i - 1) + 1 = i
        BY <1>1, <3>2
      <4>2. w[i - 1] = Cell(h, r, i) /\ w[i] = Cell(h, r, i + 1)
        BY <4>1
      <4> QED
        BY <1>3, <3>2, <4>1, <4>2
    <3> QED
      BY <3>1, <3>2
  <2> QED
    BY <2>1
<1> HIDE DEF w
<1>6. chosen = Body(chosen)
  <2> HIDE DEF Body
  <2> QED
    BY <1>5
<1>7. WalkFrom(nx, h) = chosen
  BY DEF WalkFrom
<1> HIDE DEF chosen
<1>8. /\ chosen[0] = nx[h]
      /\ \A i \in 1 .. M : chosen[i] = IF chosen[i - 1] \in ListNodes
                                       THEN nx[chosen[i - 1]] ELSE chosen[i - 1]
  BY <1>1, <1>6
<1> DEFINE T == {i \in 0 .. M : chosen[i] = Cell(h, r, i + 1)}
<1>9. 0 \in T
  BY <1>1, <1>4, <1>8
<1>10. ASSUME NEW i \in 0 .. M - 1, i \in T
       PROVE  i + 1 \in T
  <2>1. i + 1 \in 1 .. M /\ (i + 1) - 1 = i /\ i + 1 \in 0 .. M
    BY <1>1
  <2> QED
    BY <1>3, <1>8, <1>10, <2>1
<1> HIDE DEF M
<1>11. \A i \in 0 .. M : i \in T
  <2> HIDE DEF T
  <2> QED
    BY <1>1, <1>9, <1>10, IntervalInduction
<1> QED
  BY <1>7, <1>11 DEF M, r

\* A ring has no more nodes than there are.
LEMMA RingIsShort ==
  ASSUME NEW h \in ListHeads, NEW r \in Seq(ListNodes), NEW nx, NEW pv,
         RingIs(h, r, nx, pv)
  PROVE  /\ Len(r) \in Nat /\ Cardinality(ListNodes) \in Nat
         /\ Len(r) <= Cardinality(ListNodes)
<1>1. Len(r) \in Nat /\ Cardinality(ListNodes) \in Nat
  BY ListAssumption, FS_CardinalityType
<1>2. r \in Injection(1 .. Len(r), ListNodes)
  <2>1. r \in [1 .. Len(r) -> ListNodes]
    OBVIOUS
  <2>2. \A i, j \in 1 .. Len(r) : r[i] = r[j] => i = j
    BY DEF RingIs
  <2> QED
    BY <2>1, <2>2 DEF Injection, IsInjective
<1>3. Cardinality(1 .. Len(r)) <= Cardinality(ListNodes)
  BY <1>2, ListAssumption, FS_Injection
<1>4. Cardinality(1 .. Len(r)) = Len(r)
  <2>1. 1 \in Int /\ Len(r) \in Int /\ Len(r) - 1 + 1 = Len(r)
    BY <1>1
  <2>2. Cardinality(1 .. Len(r)) = IF 1 > Len(r) THEN 0 ELSE Len(r) - 1 + 1
    BY <2>1, FS_Interval
  <2> QED
    BY <1>1, <2>1, <2>2
<1> QED
  BY <1>1, <1>3, <1>4

\* The walk finds the nodes of the ring and comes back to the head.
LEMMA MembersAre ==
  ASSUME NEW ring, NEW nx, NEW pv, NEW lv, Rings(ring, nx, pv, lv), NEW h \in ListHeads
  PROVE  /\ MembersFrom(nx, h) = {ring[h][i] : i \in 1 .. Len(ring[h])}
         /\ WalkFrom(nx, h)[Cardinality(ListNodes) + 1] = h
<1> DEFINE r == ring[h]
           C == Cardinality(ListNodes)
<1>1. r \in Seq(ListNodes) /\ RingIs(h, r, nx, pv)
  BY DEF Rings
<1>2. Len(r) \in Nat /\ C \in Nat /\ Len(r) <= C
  BY <1>1, RingIsShort
<1>3. \A i \in 0 .. C + 1 : WalkFrom(nx, h)[i] = Cell(h, r, i + 1)
  BY WalkVisits
<1> HIDE DEF r, C
<1>4. WalkFrom(nx, h)[C + 1] = h
  BY <1>2, <1>3 DEF Cell
<1>5. ASSUME NEW n \in ListNodes, NEW i \in 0 .. C, WalkFrom(nx, h)[i] = n
      PROVE  \E j \in 1 .. Len(r) : r[j] = n
  <2>1. Cell(h, r, i + 1) = n
    BY <1>2, <1>3, <1>5
  <2> QED
    BY <2>1, ListAssumption DEF Cell
<1>6. ASSUME NEW j \in 1 .. Len(r)
      PROVE  r[j] \in ListNodes /\ \E i \in 0 .. C : WalkFrom(nx, h)[i] = r[j]
  <2>1. j - 1 \in 0 .. C /\ j - 1 \in 0 .. C + 1 /\ (j - 1) + 1 = j
    BY <1>2
  <2>2. WalkFrom(nx, h)[j - 1] = r[j]
    BY <1>3, <2>1 DEF Cell
  <2> QED
    BY <1>1, <2>1, <2>2
<1> QED
  BY <1>4, <1>5, <1>6 DEF MembersFrom, r, C

\* The loop of the model is that walk, before a step and after it.
LEMMA ModelWalks ==
  ASSUME NEW h \in ListHeads
  PROVE  /\ List!Members(h) = MembersFrom(next, h)
         /\ List!Members(h)' = MembersFrom(next', h)
         /\ List!Reached(h)[List!Cardinality(ListNodes) + 1]
              = WalkFrom(next, h)[Cardinality(ListNodes) + 1]
<1>1. List!Cardinality(ListNodes) = Cardinality(ListNodes)
  BY DEF List!Cardinality, Cardinality
<1>2. List!Reached(h) = WalkFrom(next, h) /\ List!Reached(h)' = WalkFrom(next', h)
  BY <1>1 DEF List!Reached, WalkFrom
<1> QED
  BY <1>1, <1>2 DEF List!Members, MembersFrom

LEMMA RingsLead ==
  ASSUME NEW ring, Rings(ring, next, prev, live)
  PROVE  /\ \A h \in ListHeads : List!Members(h) = {ring[h][i] : i \in 1 .. Len(ring[h])}
         /\ \A n \in List!Loose : n \in live /\ Outside(ring, n)
         /\ \A n \in List!Linked :
              \E h \in ListHeads : \E k \in 1 .. Len(ring[h]) : n = ring[h][k]
         /\ \A n \in live : n \in ListNodes
<1>1. \A h \in ListHeads : List!Members(h) = {ring[h][i] : i \in 1 .. Len(ring[h])}
  BY MembersAre, ModelWalks
<1>2. \A n \in List!Linked :
        \E h \in ListHeads : \E k \in 1 .. Len(ring[h]) : n = ring[h][k]
  BY <1>1 DEF List!Linked
<1>3. \A n \in List!Loose : n \in live /\ Outside(ring, n)
  BY <1>1 DEF List!Loose, List!Linked, Outside
<1> QED
  BY <1>1, <1>2, <1>3 DEF Rings

LEMMA ListInit ==
  ASSUME List!Init
  PROVE  ListInv
<1> DEFINE ring == [h \in ListHeads |-> << >>]
<1>1. /\ DOMAIN next = List!Cells /\ DOMAIN prev = List!Cells /\ live = {}
      /\ \A h \in ListHeads : next[h] = h /\ prev[h] = h
  BY DEF List!Init, List!Cells
<1>2. /\ ring \in [ListHeads -> Seq(ListNodes)]
      /\ \A h \in ListHeads : ring[h] = << >> /\ Len(ring[h]) = 0
  OBVIOUS
<1> HIDE DEF ring
<1>3. \A h \in ListHeads : RingIs(h, ring[h], next, prev)
  BY <1>1, <1>2 DEF RingIs, Cell
<1>4. Rings(ring, next, prev, live)
  BY <1>1, <1>2, <1>3 DEF Rings
<1> QED
  BY <1>4 DEF ListInv

\* A step that inserts n at some place of some list, with a node allocated for it or one
\* that the client owns; the other lists stay as they are.
LEMMA InsertStep ==
  ASSUME NEW ring, Rings(ring, next, prev, live),
         NEW h \in ListHeads, NEW k \in 0 .. Len(ring[h]),
         NEW n \in ListNodes, Outside(ring, n),
         List!InsAfter(Cell(h, ring[h], k), n), live' = live \union {n}
  PROVE  Rings([ring EXCEPT ![h] = Inserted(ring[h], k, n)], next', prev', live')
BY RingsInsert DEF List!InsAfter

LEMMA RemoveStep ==
  ASSUME NEW ring, Rings(ring, next, prev, live),
         NEW h \in ListHeads, NEW k \in 1 .. Len(ring[h]), List!Rem(ring[h][k])
  PROVE  /\ Rings([ring EXCEPT ![h] = Without(ring[h], k)], next', prev', live)
         /\ Outside([ring EXCEPT ![h] = Without(ring[h], k)], ring[h][k])
<1> DEFINE n == ring[h][k]
<1>1. /\ next' = [next EXCEPT ![prev[n]] = next[n], ![n] = n]
      /\ prev' = [prev EXCEPT ![next[n]] = prev[n], ![n] = n]
  BY DEF List!Rem
<1> HIDE DEF n
<1>2. n = ring[h][k]
  BY DEF n
<1> QED
  BY <1>1, <1>2, RingsRemove

\* QuePush and QuePopFront of the list h describe the same sequences as before for the
\* other lists.
Elsewhere(ring, ring2, h) == \A g \in ListHeads : g # h => ring2[g] = ring[g]

LEMMA PushStep ==
  ASSUME NEW ring, Rings(ring, next, prev, live),
         NEW h \in ListHeads, NEW v, List!QuePush(h, v)
  PROVE  \E ring2 : Rings(ring2, next', prev', live') /\ Elsewhere(ring, ring2, h)
<1>1. PICK n \in ListNodes \ live : live' = live \union {n} /\ List!InsAfter(h, n)
  BY DEF List!QuePush
<1>2. /\ ring \in [ListHeads -> Seq(ListNodes)] /\ Len(ring[h]) \in Nat
      /\ 0 \in 0 .. Len(ring[h]) /\ Cell(h, ring[h], 0) = h /\ Outside(ring, n)
  BY DEF Rings, Cell, Outside
<1>3. Rings([ring EXCEPT ![h] = Inserted(ring[h], 0, n)], next', prev', live')
  BY <1>1, <1>2, InsertStep
<1>4. Elsewhere(ring, [ring EXCEPT ![h] = Inserted(ring[h], 0, n)], h)
  BY <1>2 DEF Elsewhere
<1> QED
  BY <1>3, <1>4

LEMMA PopFrontStep ==
  ASSUME NEW ring, Rings(ring, next, prev, live),
         NEW h \in ListHeads, List!QuePopFront(h)
  PROVE  \E ring2 : Rings(ring2, next', prev', live') /\ Elsewhere(ring, ring2, h)
<1>1. /\ ring \in [ListHeads -> Seq(ListNodes)] /\ ring[h] \in Seq(ListNodes)
      /\ Len(ring[h]) \in Nat /\ RingIs(h, ring[h], next, prev)
      /\ \A i \in 1 .. Len(ring[h]) : ring[h][i] \in live
  BY DEF Rings
<1>2. next[h] = Cell(h, ring[h], 1)
  <2>1. Cell(h, ring[h], 0) = h /\ next[Cell(h, ring[h], 0)] = Cell(h, ring[h], 0 + 1)
    BY <1>1 DEF Cell, RingIs
  <2> QED
    BY <2>1
<1>3. CASE next[h] = h
  <2>1. next' = next /\ prev' = prev /\ live' = live
    BY <1>3 DEF List!QuePopFront
  <2> QED
    BY <2>1 DEF Elsewhere
<1>4. CASE next[h] # h
  <2>1. 1 \in 1 .. Len(ring[h]) /\ next[h] = ring[h][1]
    BY <1>1, <1>2, <1>4 DEF Cell
  <2>2. List!Rem(ring[h][1]) /\ live' = live \ {ring[h][1]}
    BY <1>4, <2>1 DEF List!QuePopFront
  <2> DEFINE ring2 == [ring EXCEPT ![h] = Without(ring[h], 1)]
  <2>3. Rings(ring2, next', prev', live) /\ Outside(ring2, ring[h][1])
    BY <2>1, <2>2, RemoveStep
  <2>4. Elsewhere(ring, ring2, h)
    BY <1>1 DEF Elsewhere
  <2> HIDE DEF ring2
  <2>5. Rings(ring2, next', prev', live')
    BY <1>1, <2>1, <2>2, <2>3, RingsFree
  <2> QED
    BY <2>4, <2>5
<1> QED
  BY <1>3, <1>4

LEMMA ListStep ==
  ASSUME ListInv, [List!Next]_(List!vars)
  PROVE  ListInv'
<1>1. PICK ring : Rings(ring, next, prev, live)
  BY DEF ListInv
<1>2. SUFFICES ASSUME TRUE
               PROVE  \E ring2 : Rings(ring2, next', prev', live')
  BY DEF ListInv
<1>3. ASSUME NEW h \in ListHeads, NEW v \in Values, List!QuePush(h, v)
      PROVE  \E ring2 : Rings(ring2, next', prev', live')
  BY <1>1, <1>3, PushStep
<1>4. ASSUME NEW h \in ListHeads, List!QuePopFront(h)
      PROVE  \E ring2 : Rings(ring2, next', prev', live')
  BY <1>1, <1>4, PopFrontStep
<1>5. ASSUME NEW h \in ListHeads, List!QueCnt(h)
      PROVE  \E ring2 : Rings(ring2, next', prev', live')
  BY <1>1, <1>5 DEF List!QueCnt
<1>6. ASSUME NEW n \in ListNodes, List!QueRem(n)
      PROVE  \E ring2 : Rings(ring2, next', prev', live')
  <2>1. n \in live /\ List!Rem(n) /\ live' = live
    BY <1>6 DEF List!QueRem
  <2>2. CASE \E h \in ListHeads : \E k \in 1 .. Len(ring[h]) : n = ring[h][k]
    <3>1. PICK h \in ListHeads : \E k \in 1 .. Len(ring[h]) : n = ring[h][k]
      BY <2>2
    <3>2. PICK k \in 1 .. Len(ring[h]) : n = ring[h][k]
      BY <3>1
    <3>3. Rings([ring EXCEPT ![h] = Without(ring[h], k)], next', prev', live)
      BY <1>1, <2>1, <3>2, RemoveStep
    <3> QED
      BY <2>1, <3>3
  <2>3. CASE Outside(ring, n)
    <3>1. /\ next' = [next EXCEPT ![prev[n]] = next[n], ![n] = n]
          /\ prev' = [prev EXCEPT ![next[n]] = prev[n], ![n] = n]
      BY <2>1 DEF List!Rem
    <3>2. Rings(ring, next', prev', live)
      BY <1>1, <2>1, <2>3, <3>1, RingsRemoveNone
    <3> QED
      BY <2>1, <3>2
  <2> QED
    BY <2>2, <2>3 DEF Outside
<1>7. ASSUME NEW n \in ListNodes, List!FreeNode(n)
      PROVE  \E ring2 : Rings(ring2, next', prev', live')
  <2>1. n \in live /\ Outside(ring, n)
    BY <1>1, <1>7, RingsLead DEF List!FreeNode
  <2>2. next' = next /\ prev' = prev /\ live' = live \ {n}
    BY <1>7 DEF List!FreeNode
  <2>3. Rings(ring, next, prev, live \ {n})
    BY <1>1, <2>1, RingsFree
  <2> QED
    BY <2>2, <2>3
<1>8. ASSUME NEW n \in ListNodes, NEW pos \in List!Cells, List!QueInsAfter(pos, n)
      PROVE  \E ring2 : Rings(ring2, next', prev', live')
  <2>1. /\ pos \in ListHeads \union List!Linked /\ n \in List!Loose
        /\ List!InsAfter(pos, n) /\ live' = live
    BY <1>8 DEF List!QueInsAfter
  <2>2. n \in live /\ Outside(ring, n) /\ live' = live \union {n}
    BY <1>1, <2>1, RingsLead
  <2>3. \E h \in ListHeads : \E k \in 0 .. Len(ring[h]) : pos = Cell(h, ring[h], k)
    <3>1. \A h \in ListHeads : Len(ring[h]) \in Nat
      BY <1>1 DEF Rings
    <3>2. CASE pos \in ListHeads
      <4>1. 0 \in 0 .. Len(ring[pos]) /\ pos = Cell(pos, ring[pos], 0)
        BY <3>1, <3>2 DEF Cell
      <4> QED
        BY <3>2, <4>1
    <3>3. CASE pos \in List!Linked
      <4>1. PICK h \in ListHeads : \E k \in 1 .. Len(ring[h]) : pos = ring[h][k]
        BY <1>1, <3>3, RingsLead
      <4>2. PICK k \in 1 .. Len(ring[h]) : pos = ring[h][k]
        BY <4>1
      <4>3. k \in 0 .. Len(ring[h]) /\ pos = Cell(h, ring[h], k)
        BY <3>1, <4>2 DEF Cell
      <4> QED
        BY <4>3
    <3> QED
      BY <2>1, <3>2, <3>3
  <2>4. PICK h \in ListHeads : \E k \in 0 .. Len(ring[h]) : pos = Cell(h, ring[h], k)
    BY <2>3
  <2>5. PICK k \in 0 .. Len(ring[h]) : pos = Cell(h, ring[h], k)
    BY <2>4
  <2>6. Rings([ring EXCEPT ![h] = Inserted(ring[h], k, n)], next', prev', live')
    BY <1>1, <2>1, <2>2, <2>5, InsertStep
  <2> QED
    BY <2>6
<1>9. CASE UNCHANGED List!vars
  BY <1>1, <1>9 DEF List!vars
<1> QED
  BY <1>3, <1>4, <1>5, <1>6, <1>7, <1>8, <1>9 DEF List!Next

\* The links of every head and of every allocated node are inverse.
LEMMA LinksInverse ==
  ASSUME ListInv
  PROVE  List!LinksAreInverse
<1>1. PICK ring : Rings(ring, next, prev, live)
  BY DEF ListInv
<1> DEFINE Good(c) == /\ next[c] \in ListHeads \union live /\ prev[next[c]] = c
                      /\ prev[c] \in ListHeads \union live /\ next[prev[c]] = c
<1>2. ASSUME NEW h \in ListHeads, NEW i \in 0 .. Len(ring[h])
      PROVE  Good(Cell(h, ring[h], i))
  <2>1. /\ Len(ring[h]) \in Nat /\ RingIs(h, ring[h], next, prev)
        /\ \A j \in 1 .. Len(ring[h]) : ring[h][j] \in live
    BY <1>1 DEF Rings
  <2>2. \A j \in Nat : Cell(h, ring[h], j) \in ListHeads \union live
    BY <2>1 DEF Cell
  <2>3. \A j \in 0 .. Len(ring[h]) :
          /\ next[Cell(h, ring[h], j)] = Cell(h, ring[h], j + 1)
          /\ prev[Cell(h, ring[h], j + 1)] = Cell(h, ring[h], j)
    BY <2>1 DEF RingIs
  <2>4. \E j \in 0 .. Len(ring[h]) : Cell(h, ring[h], i) = Cell(h, ring[h], j + 1)
    <3>1. CASE i = 0
      <4>1. Cell(h, ring[h], i) = Cell(h, ring[h], Len(ring[h]) + 1)
        BY <2>1, <3>1 DEF Cell
      <4> QED
        BY <2>1, <4>1
    <3>2. CASE i # 0
      <4>1. i - 1 \in 0 .. Len(ring[h]) /\ (i - 1) + 1 = i
        BY <2>1, <3>2
      <4> QED
        BY <4>1
    <3> QED
      BY <3>1, <3>2
  <2>5. PICK j \in 0 .. Len(ring[h]) : Cell(h, ring[h], i) = Cell(h, ring[h], j + 1)
    BY <2>4
  <2>6. i \in Nat /\ j \in Nat /\ i + 1 \in Nat
    BY <2>1
  <2> QED
    BY <2>2, <2>3, <2>5, <2>6
<1>3. ASSUME NEW h \in ListHeads
      PROVE  Good(h)
  <2>1. Cell(h, ring[h], 0) = h /\ 0 \in 0 .. Len(ring[h])
    BY <1>1 DEF Rings, Cell
  <2> QED
    BY <1>2, <2>1
<1>4. ASSUME NEW n \in live
      PROVE  Good(n)
  <2>1. CASE Outside(ring, n)
    BY <1>1, <2>1 DEF Rings, Outside
  <2>2. CASE \E h \in ListHeads : \E k \in 1 .. Len(ring[h]) : n = ring[h][k]
    <3>1. PICK h \in ListHeads : \E k \in 1 .. Len(ring[h]) : n = ring[h][k]
      BY <2>2
    <3>2. PICK k \in 1 .. Len(ring[h]) : n = ring[h][k]
      BY <3>1
    <3>3. k \in 0 .. Len(ring[h]) /\ n = Cell(h, ring[h], k)
      BY <1>1, <3>2 DEF Rings, Cell
    <3> QED
      BY <1>2, <3>3
  <2> QED
    BY <2>1, <2>2 DEF Outside
<1> QED
  BY <1>3, <1>4 DEF List!LinksAreInverse

LEMMA RingsDisjoint ==
  ASSUME ListInv
  PROVE  List!ListsAreDisjointRings
<1>1. PICK ring : Rings(ring, next, prev, live)
  BY DEF ListInv
<1>2. \A h \in ListHeads :
        /\ List!Members(h) = {ring[h][i] : i \in 1 .. Len(ring[h])}
        /\ List!Reached(h)[List!Cardinality(ListNodes) + 1] = h
  BY <1>1, MembersAre, ModelWalks
<1>3. \A g, h \in ListHeads : g # h =>
        \A i \in 1 .. Len(ring[g]), j \in 1 .. Len(ring[h]) : ring[g][i] # ring[h][j]
  BY <1>1 DEF Rings
<1> QED
  BY <1>2, <1>3 DEF List!ListsAreDisjointRings

LEMMA OthersUntouched ==
  ASSUME ListInv, NEW g \in ListHeads, NEW h \in ListHeads, g # h,
         List!QuePopFront(h) \/ \E v \in Values : List!QuePush(h, v)
  PROVE  List!Members(g)' = List!Members(g)
<1>1. PICK ring : Rings(ring, next, prev, live)
  BY DEF ListInv
<1>2. \E ring2 : Rings(ring2, next', prev', live') /\ Elsewhere(ring, ring2, h)
  <2>1. CASE List!QuePopFront(h)
    BY <1>1, <2>1, PopFrontStep
  <2>2. CASE \E v \in Values : List!QuePush(h, v)
    <3>1. PICK v \in Values : List!QuePush(h, v)
      BY <2>2
    <3> QED
      BY <1>1, <3>1, PushStep
  <2> QED
    BY <2>1, <2>2
<1>3. PICK ring2 : Rings(ring2, next', prev', live') /\ Elsewhere(ring, ring2, h)
  BY <1>2
<1>4. List!Members(g) = {ring[g][i] : i \in 1 .. Len(ring[g])}
  BY <1>1, MembersAre, ModelWalks
<1>5. List!Members(g)' = {ring2[g][i] : i \in 1 .. Len(ring2[g])}
  BY <1>3, MembersAre, ModelWalks
<1>6. ring2[g] = ring[g]
  BY <1>3 DEF Elsewhere
<1> QED
  BY <1>4, <1>5, <1>6

\* The lists stay what their heads promise, for any nodes and any heads: next and prev
\* are inverse, every list comes back to its own head, no node is in two lists, and what
\* is pushed or popped at one list moves no node of another.
THEOREM ListsStayRingsHolds == List!Spec => ListsStayRings
<1>1. ListInv => List!LinksAreInverse /\ List!ListsAreDisjointRings
  BY LinksInverse, RingsDisjoint
<1>2. ListInv /\ [List!Next]_(List!vars)
        => [\A g, h \in ListHeads :
              g # h /\ (List!QuePopFront(h) \/ \E v \in Values : List!QuePush(h, v)) =>
                List!Members(g)' = List!Members(g)]_(List!vars)
  BY OthersUntouched
<1> QED
  BY ListInit, ListStep, <1>1, <1>2, PTL
     DEF List!Spec, ListsStayRings, List!OtherListUntouched

(***************************************************************************)
(* StdSort: for any array, SortI64 permutes it, sorts it and ends, within  *)
(* a recursion of logarithmic depth.                                       *)
(***************************************************************************)
CONSTANTS
  SortValues, \* the elements
  SortSizes,  \* the lengths of the arrays sorted
  ShortRange  \* ranges that are shorter are insertion-sorted

VARIABLES arr, frames, input

Sort == INSTANCE StdSort
  WITH Values <- SortValues, Sizes <- SortSizes, Short <- ShortRange

ASSUME SortAssumption == SortValues \subseteq Int /\ SortSizes \subseteq Nat

\* StdSort: no element is lost, what was partitioned is in place, and every step
\* leaves less to do; and the recursion is shallow.
SortSettles ==
  /\ [](Sort!KeepsElements /\ Sort!SettledInPlace /\ Sort!DepthIsLogarithmic)
  /\ Sort!WorkShrinks

\* Two arrays on D hold the same elements, those outside of R at the same places.
Permutes(f, D, R) ==
  /\ f \in [D -> D]
  /\ \A i, j \in D : f[i] = f[j] => i = j
  /\ \A i \in D : (i \in R => f[i] \in R) /\ (i \notin R => f[i] = i)
Rearranged(D, a, b, R) == \E f : Permutes(f, D, R) /\ \A i \in D : b[i] = a[f[i]]

LEMMA RearrangedSame ==
  ASSUME NEW D, NEW a, NEW R
  PROVE  Rearranged(D, a, a, R)
<1> DEFINE f == [i \in D |-> i]
<1>1. Permutes(f, D, R) /\ \A i \in D : a[i] = a[f[i]]
  BY DEF Permutes
<1> QED
  BY <1>1 DEF Rearranged

LEMMA RearrangedTwice ==
  ASSUME NEW D, NEW a, NEW b, NEW c, NEW R,
         Rearranged(D, a, b, R), Rearranged(D, b, c, R)
  PROVE  Rearranged(D, a, c, R)
<1>1. PICK f : Permutes(f, D, R) /\ \A i \in D : b[i] = a[f[i]]
  BY DEF Rearranged
<1>2. PICK g : Permutes(g, D, R) /\ \A i \in D : c[i] = b[g[i]]
  BY DEF Rearranged
<1> DEFINE h == [i \in D |-> f[g[i]]]
<1>3. h \in [D -> D] /\ \A i \in D : g[i] \in D /\ h[i] = f[g[i]]
  BY <1>1, <1>2 DEF Permutes
<1> HIDE DEF h
<1>4. \A i, j \in D : h[i] = h[j] => i = j
  BY <1>1, <1>2, <1>3 DEF Permutes
<1>5. \A i \in D : (i \in R => h[i] \in R) /\ (i \notin R => h[i] = i)
  BY <1>1, <1>2, <1>3 DEF Permutes
<1>6. \A i \in D : c[i] = a[h[i]]
  BY <1>1, <1>2, <1>3
<1> QED
  BY <1>3, <1>4, <1>5, <1>6 DEF Rearranged, Permutes

LEMMA RearrangedWider ==
  ASSUME NEW D, NEW a, NEW b, NEW R, NEW Q, R \subseteq Q, Rearranged(D, a, b, R)
  PROVE  Rearranged(D, a, b, Q)
<1>1. PICK f : Permutes(f, D, R) /\ \A i \in D : b[i] = a[f[i]]
  BY DEF Rearranged
<1>2. Permutes(f, D, Q)
  BY <1>1 DEF Permutes
<1> QED
  BY <1>1, <1>2 DEF Rearranged

\* Every element comes from some place, in R if it is in R.
LEMMA RearrangedFrom ==
  ASSUME NEW D, NEW a, NEW b, NEW R, Rearranged(D, a, b, R)
  PROVE  \A i \in D : /\ i \in R => \E j \in D : j \in R /\ b[i] = a[j]
                      /\ i \notin R => b[i] = a[i]
BY DEF Rearranged, Permutes

LEMMA SwapRearranges ==
  ASSUME NEW D, NEW a \in [D -> Int], NEW i \in D, NEW j \in D, NEW R, i \in R, j \in R
  PROVE  /\ Sort!Swap(a, i, j) \in [D -> Int]
         /\ Sort!Swap(a, i, j)[i] = a[j] /\ Sort!Swap(a, i, j)[j] = a[i]
         /\ \A x \in D : x # i /\ x # j => Sort!Swap(a, i, j)[x] = a[x]
         /\ Rearranged(D, a, Sort!Swap(a, i, j), R)
<1> DEFINE b == Sort!Swap(a, i, j)
           f == [x \in D |-> IF x = i THEN j ELSE IF x = j THEN i ELSE x]
<1>1. b \in [D -> Int] /\ b[i] = a[j] /\ b[j] = a[i]
      /\ \A x \in D : x # i /\ x # j => b[x] = a[x]
  BY DEF Sort!Swap
<1> HIDE DEF b
<1>2. Permutes(f, D, R)
  BY DEF Permutes
<1>3. \A x \in D : b[x] = a[f[x]]
  BY <1>1
<1>4. Rearranged(D, a, b, R)
  <2> HIDE DEF f
  <2> QED
    BY <1>2, <1>3 DEF Rearranged
<1> QED
  BY <1>1, <1>4 DEF b

Ascends(a, lo, hi) == \A x, y \in lo .. hi : x <= y => a[x] <= a[y]

\* A set of integers with an upper bound has a greatest one.
LEMMA GreatestExists ==
  ASSUME NEW lo \in Int, NEW hi \in Int, NEW S, S \subseteq lo .. hi, S # {}
  PROVE  Sort!Max(S) \in S /\ \A y \in S : y <= Sort!Max(S)
<1> DEFINE Below == {k \in Nat : hi - k \in S}
<1>1. Below \subseteq Nat /\ Below # {}
  <2>1. PICK x \in S : TRUE
    OBVIOUS
  <2>2. hi - x \in Nat /\ hi - (hi - x) = x
    BY <2>1
  <2> QED
    BY <2>1, <2>2
<1>2. PICK m \in Below : \A k \in Below : m <= k
  <2> HIDE DEF Below
  <2> QED
    BY <1>1, LeastExists
<1>3. hi - m \in S /\ m \in Nat
  BY <1>2
<1>4. \A y \in S : hi - m >= y
  <2> SUFFICES ASSUME NEW y \in S PROVE hi - m >= y
    OBVIOUS
  <2>1. y \in Int /\ hi - y \in Nat /\ hi - (hi - y) = y
    OBVIOUS
  <2>2. m <= hi - y
    BY <1>2, <2>1
  <2> QED
    BY <1>3, <2>1, <2>2
<1>5. Sort!Max(S) \in S /\ \A y \in S : Sort!Max(S) >= y
  BY <1>3, <1>4 DEF Sort!Max
<1> QED
  BY <1>5

\* The turn of the insertion sort puts arr[i] at its place among those before it.
LEMMA InsertSorts ==
  ASSUME NEW D, D \subseteq Int, NEW a \in [D -> Int], NEW lo \in Int, NEW i \in Int, lo < i,
         lo .. i \subseteq D, Ascends(a, lo, i - 1)
  PROVE  /\ Sort!InsertElement(a, lo, i) \in [D -> Int]
         /\ Ascends(Sort!InsertElement(a, lo, i), lo, i)
         /\ Rearranged(D, a, Sort!InsertElement(a, lo, i), lo .. i)
<1> DEFINE S == {lo} \union {j + 1 : j \in {x \in lo .. i - 1 : a[x] <= a[i]}}
           p == Sort!Max(S)
           b == Sort!InsertElement(a, lo, i)
           f == [x \in D |-> IF x = p THEN i ELSE IF x \in p + 1 .. i THEN x - 1 ELSE x]
<1>1. p \in lo .. i /\ p \in S /\ \A y \in S : y <= p
  <2>1. S \subseteq lo .. i /\ S # {}
    OBVIOUS
  <2> HIDE DEF S
  <2> QED
    BY <2>1, GreatestExists
<1>2. \A x \in lo .. i - 1 : a[x] <= a[i] => x + 1 <= p
  <2> SUFFICES ASSUME NEW x \in lo .. i - 1, a[x] <= a[i]
               PROVE  x + 1 <= p
    OBVIOUS
  <2>1. x + 1 \in S
    OBVIOUS
  <2> HIDE DEF S
  <2> QED
    BY <1>1, <2>1
<1>3. p = lo \/ (p - 1 \in lo .. i - 1 /\ a[p - 1] <= a[i])
  <2>1. PICK y \in S : y = p
    BY <1>1
  <2>2. y = lo \/ \E j \in lo .. i - 1 : a[j] <= a[i] /\ y = j + 1
    OBVIOUS
  <2>3. CASE \E j \in lo .. i - 1 : a[j] <= a[i] /\ y = j + 1
    <3>1. PICK j \in lo .. i - 1 : a[j] <= a[i] /\ y = j + 1
      BY <2>3
    <3>2. p - 1 = j
      BY <2>1, <3>1
    <3> QED
      BY <3>1, <3>2
  <2> QED
    BY <2>1, <2>2, <2>3
<1>4. /\ b = [x \in D |-> IF x = p THEN a[i] ELSE IF x \in p + 1 .. i THEN a[x - 1] ELSE a[x]]
      /\ i \in D /\ p \in D
  BY <1>1 DEF Sort!InsertElement
<1> HIDE DEF p, b
<1>5. \A x \in D : x \in p + 1 .. i => x - 1 \in D /\ x - 1 \in lo .. i - 1
  BY <1>1
<1>6. /\ b \in [D -> Int]
      /\ \A x \in D : b[x] = IF x = p THEN a[i] ELSE IF x \in p + 1 .. i THEN a[x - 1] ELSE a[x]
  BY <1>4, <1>5
<1>7. Permutes(f, D, lo .. i)
  <2>1. f \in [D -> D]
    BY <1>4, <1>5
  <2>2. \A x \in D : f[x] = IF x = p THEN i ELSE IF x \in p + 1 .. i THEN x - 1 ELSE x
    OBVIOUS
  <2> HIDE DEF f
  <2>3. \A x, y \in D : f[x] = f[y] => x = y
    BY <1>1, <2>2
  <2>4. \A x \in D : (x \in lo .. i => f[x] \in lo .. i) /\ (x \notin lo .. i => f[x] = x)
    BY <1>1, <2>2
  <2> QED
    BY <2>1, <2>3, <2>4 DEF Permutes
<1>8. \A x \in D : b[x] = a[f[x]]
  BY <1>6
<1>9. Rearranged(D, a, b, lo .. i)
  <2> HIDE DEF f
  <2> QED
    BY <1>7, <1>8 DEF Rearranged
<1>10. ASSUME NEW x \in lo .. i, NEW y \in lo .. i, x <= y
       PROVE  b[x] <= b[y]
  <2>1. x \in D /\ y \in D /\ a[i] \in Int /\ \A z \in lo .. i : z \in D /\ a[z] \in Int
    BY <1>4
  <2>2. \A z \in lo .. i - 1 : z < p => a[z] <= a[i]
    <3> SUFFICES ASSUME NEW z \in lo .. i - 1, z < p PROVE a[z] <= a[i]
      OBVIOUS
    <3>1. p - 1 \in lo .. i - 1 /\ a[p - 1] <= a[i] /\ z <= p - 1
      BY <1>1, <1>3
    <3>2. a[z] <= a[p - 1]
      BY <3>1 DEF Ascends
    <3>3. a[z] \in Int /\ a[p - 1] \in Int
      BY <2>1, <3>1
    <3> QED
      BY <2>1, <3>1, <3>2, <3>3
  <2>3. \A z \in lo .. i - 1 : z >= p => a[i] <= a[z]
    <3> SUFFICES ASSUME NEW z \in lo .. i - 1, z >= p PROVE a[i] <= a[z]
      OBVIOUS
    <3>1. ~ (a[z] <= a[i]) /\ a[z] \in Int
      BY <1>1, <1>2, <2>1
    <3> QED
      BY <2>1, <3>1
  <2>4. \A u, z \in lo .. i - 1 : u <= z => a[u] <= a[z]
    BY DEF Ascends
  <2>5. b[x] = IF x = p THEN a[i] ELSE IF x > p THEN a[x - 1] ELSE a[x]
    BY <1>1, <1>6, <2>1
  <2>6. b[y] = IF y = p THEN a[i] ELSE IF y > p THEN a[y - 1] ELSE a[y]
    BY <1>1, <1>6, <2>1
  <2>7. CASE y < p
    BY <1>1, <1>10, <2>4, <2>5, <2>6, <2>7
  <2>8. CASE y = p
    BY <1>1, <1>10, <2>1, <2>2, <2>5, <2>6, <2>8
  <2>9. CASE y > p
    <3>1. y - 1 \in lo .. i - 1 /\ y - 1 >= p /\ b[y] = a[y - 1]
      BY <1>1, <2>6, <2>9
    <3>2. CASE x < p
      <4>1. b[x] = a[x] /\ x \in lo .. i - 1 /\ x <= y - 1
        BY <1>1, <2>5, <2>9, <3>2
      <4> QED
        BY <2>4, <3>1, <4>1
    <3>3. CASE x = p
      BY <2>3, <2>5, <3>1, <3>3
    <3>4. CASE x > p
      <4>1. b[x] = a[x - 1] /\ x - 1 \in lo .. i - 1 /\ x - 1 <= y - 1
        BY <1>1, <1>10, <2>5, <3>4
      <4> QED
        BY <2>4, <3>1, <4>1
    <3> QED
      BY <1>1, <3>2, <3>3, <3>4
  <2> QED
    BY <1>1, <2>7, <2>8, <2>9
<1> QED
  BY <1>6, <1>9, <1>10 DEF Ascends, b

LEMMA InsSortSorts ==
  ASSUME NEW D, D \subseteq Int, NEW a \in [D -> Int], NEW lo \in Int, NEW hi \in Int, lo <= hi,
         lo .. hi \subseteq D
  PROVE  /\ Sort!InsSort(a, lo, hi) \in [D -> Int]
         /\ Ascends(Sort!InsSort(a, lo, hi), lo, hi)
         /\ Rearranged(D, a, Sort!InsSort(a, lo, hi), lo .. hi)
<1> DEFINE S == {b \in [D -> Int] : Rearranged(D, a, b, lo .. hi)}
           G == [i \in lo + 1 .. hi |->
                   [b \in S |-> IF Ascends(b, lo, i - 1) THEN Sort!InsertElement(b, lo, i) ELSE b]]
           Body(f) == [i \in lo .. hi |->
                         IF i = lo THEN a ELSE Sort!InsertElement(f[i - 1], lo, i)]
           chosen == CHOOSE f : f = Body(f)
<1>1. ASSUME NEW i \in lo + 1 .. hi, NEW b \in S, Ascends(b, lo, i - 1)
      PROVE  /\ Sort!InsertElement(b, lo, i) \in S
             /\ Ascends(Sort!InsertElement(b, lo, i), lo, i)
  <2>1. /\ b \in [D -> Int] /\ Rearranged(D, a, b, lo .. hi)
        /\ i \in Int /\ lo < i /\ lo .. i \subseteq D /\ lo .. i \subseteq lo .. hi
    OBVIOUS
  <2>2. /\ Sort!InsertElement(b, lo, i) \in [D -> Int]
        /\ Ascends(Sort!InsertElement(b, lo, i), lo, i)
        /\ Rearranged(D, b, Sort!InsertElement(b, lo, i), lo .. i)
    BY <1>1, <2>1, InsertSorts
  <2>3. Rearranged(D, b, Sort!InsertElement(b, lo, i), lo .. hi)
    BY <2>1, <2>2, RearrangedWider
  <2>4. Rearranged(D, a, Sort!InsertElement(b, lo, i), lo .. hi)
    BY <2>1, <2>3, RearrangedTwice
  <2> QED
    BY <2>2, <2>4
<1>2. a \in S
  BY RearrangedSame
<1>3. G \in [lo + 1 .. hi -> [S -> S]]
  <2> HIDE DEF S
  <2> QED
    BY <1>1
<1>4. PICK w \in [lo .. hi -> S] : Turns(w, G, a, lo, hi)
  <2> HIDE DEF G, S
  <2> QED
    BY <1>2, <1>3, TurnsExist
<1>5. w[lo] = a /\ \A i \in lo + 1 .. hi : w[i] = G[i][w[i - 1]]
  BY <1>4 DEF Turns
<1> HIDE DEF S
<1>6. \A i \in lo + 1 .. hi :
        w[i] = IF Ascends(w[i - 1], lo, i - 1) THEN Sort!InsertElement(w[i - 1], lo, i)
               ELSE w[i - 1]
  <2> SUFFICES ASSUME NEW i \in lo + 1 .. hi
               PROVE  w[i] = IF Ascends(w[i - 1], lo, i - 1)
                             THEN Sort!InsertElement(w[i - 1], lo, i) ELSE w[i - 1]
    OBVIOUS
  <2>1. i - 1 \in lo .. hi /\ w[i - 1] \in S
    OBVIOUS
  <2>2. G[i][w[i - 1]] = IF Ascends(w[i - 1], lo, i - 1)
                         THEN Sort!InsertElement(w[i - 1], lo, i) ELSE w[i - 1]
    BY <2>1
  <2> HIDE DEF G
  <2> QED
    BY <1>5, <2>2
<1> HIDE DEF G
<1> DEFINE T == {i \in lo .. hi : Ascends(w[i], lo, i)}
<1>7. \A i \in lo .. hi : i \in T
  <2>1. lo \in T
    <3>1. a[lo] \in Int
      OBVIOUS
    <3> QED
      BY <1>5, <3>1 DEF Ascends
  <2>2. ASSUME NEW i \in lo .. hi - 1, i \in T
        PROVE  i + 1 \in T
    <3>1. i + 1 \in lo + 1 .. hi /\ (i + 1) - 1 = i /\ w[i] \in S /\ i + 1 \in lo .. hi
      OBVIOUS
    <3>2. Ascends(w[i], lo, i)
      BY <2>2
    <3>3. w[i + 1] = Sort!InsertElement(w[i], lo, i + 1)
      BY <1>6, <3>1, <3>2
    <3>4. Ascends(w[i + 1], lo, i + 1)
      BY <1>1, <3>1, <3>2, <3>3
    <3> QED
      BY <3>1, <3>4
  <2> HIDE DEF T
  <2> QED
    BY <2>1, <2>2, IntegerInduction
<1>8. w = Body(w)
  <2>1. \A i \in lo .. hi :
          w[i] = IF i = lo THEN a ELSE Sort!InsertElement(w[i - 1], lo, i)
    <3> SUFFICES ASSUME NEW i \in lo .. hi, i # lo
                 PROVE  w[i] = Sort!InsertElement(w[i - 1], lo, i)
      BY <1>5
    <3>1. i \in lo + 1 .. hi /\ i - 1 \in lo .. hi
      OBVIOUS
    <3>2. Ascends(w[i - 1], lo, i - 1)
      BY <1>7, <3>1
    <3> QED
      BY <1>6, <3>1, <3>2
  <2> QED
    BY <2>1
<1> HIDE DEF T
<1>9. chosen = Body(chosen)
  <2> HIDE DEF Body
  <2> QED
    BY <1>8
<1>10. Sort!InsSort(a, lo, hi) = chosen[hi]
  BY DEF Sort!InsSort
<1> HIDE DEF chosen
<1> DEFINE U == {i \in lo .. hi : chosen[i] = w[i]}
<1>11. \A i \in lo .. hi : i \in U
  <2>1. \A i \in lo .. hi :
          chosen[i] = IF i = lo THEN a ELSE Sort!InsertElement(chosen[i - 1], lo, i)
    BY <1>9
  <2>2. \A i \in lo .. hi :
          w[i] = IF i = lo THEN a ELSE Sort!InsertElement(w[i - 1], lo, i)
    BY <1>8
  <2>3. lo \in U
    BY <2>1, <2>2
  <2>4. ASSUME NEW i \in lo .. hi - 1, i \in U
        PROVE  i + 1 \in U
    <3>1. i + 1 \in lo .. hi /\ i + 1 # lo /\ (i + 1) - 1 = i /\ chosen[i] = w[i]
      BY <2>4
    <3>2. chosen[i + 1] = Sort!InsertElement(chosen[i], lo, i + 1)
      BY <2>1, <3>1
    <3>3. w[i + 1] = Sort!InsertElement(w[i], lo, i + 1)
      BY <2>2, <3>1
    <3> QED
      BY <3>1, <3>2, <3>3
  <2> HIDE DEF U
  <2> QED
    BY <2>3, <2>4, IntegerInduction
<1>12. hi \in lo .. hi /\ w[hi] \in S /\ chosen[hi] = w[hi] /\ Ascends(w[hi], lo, hi)
  BY <1>7, <1>11 DEF T
<1> QED
  BY <1>10, <1>12 DEF S

\* What the loop of _I64Partition has arranged when it has looked at lo .. j.
Parted(D, a, s, lo, j, pivot) ==
  /\ s.a \in [D -> Int] /\ s.i \in lo - 1 .. j
  /\ \A x \in lo .. s.i : s.a[x] <= pivot
  /\ \A x \in s.i + 1 .. j : s.a[x] > pivot

LEMMA TurnParts ==
  ASSUME NEW D, D \subseteq Int, NEW a, NEW s, NEW lo \in Int, NEW hi \in Int,
         NEW j \in lo .. hi - 1, lo .. hi \subseteq D, NEW pivot \in Int,
         Parted(D, a, s, lo, j - 1, pivot), Rearranged(D, a, s.a, lo .. hi - 1)
  PROVE  /\ Parted(D, a, Sort!PartitionTurn(s, j, pivot), lo, j, pivot)
         /\ Rearranged(D, a, Sort!PartitionTurn(s, j, pivot).a, lo .. hi - 1)
<1> DEFINE t == Sort!PartitionTurn(s, j, pivot)
           b == Sort!Swap(s.a, s.i + 1, j)
<1>1. /\ s.a \in [D -> Int] /\ s.i \in lo - 1 .. j - 1
      /\ \A x \in lo .. s.i : s.a[x] <= pivot
      /\ \A x \in s.i + 1 .. j - 1 : s.a[x] > pivot
  BY DEF Parted
<1>2. CASE s.a[j] <= pivot
  <2>1. /\ s.i + 1 \in D /\ j \in D /\ s.i + 1 \in lo .. hi - 1 /\ j \in lo .. hi - 1
        /\ s.i + 1 \in lo - 1 .. j
    BY <1>1
  <2>2. t.a = b /\ t.i = s.i + 1
    BY <1>2 DEF Sort!PartitionTurn
  <2>3. /\ b \in [D -> Int] /\ b[s.i + 1] = s.a[j] /\ b[j] = s.a[s.i + 1]
        /\ \A x \in D : x # s.i + 1 /\ x # j => b[x] = s.a[x]
        /\ Rearranged(D, s.a, b, lo .. hi - 1)
    <3> DEFINE e == s.a
               k == s.i + 1
               R == lo .. hi - 1
    <3>1. e \in [D -> Int] /\ k \in D /\ j \in D /\ k \in R /\ j \in R
      BY <1>1, <2>1
    <3> HIDE DEF e, k, R
    <3>2. /\ Sort!Swap(e, k, j) \in [D -> Int]
          /\ Sort!Swap(e, k, j)[k] = e[j] /\ Sort!Swap(e, k, j)[j] = e[k]
          /\ \A x \in D : x # k /\ x # j => Sort!Swap(e, k, j)[x] = e[x]
          /\ Rearranged(D, e, Sort!Swap(e, k, j), R)
      BY <3>1, SwapRearranges
    <3> QED
      BY <3>2 DEF e, k, R
  <2> HIDE DEF b, t
  <2>4. Rearranged(D, a, b, lo .. hi - 1)
    BY <2>3, RearrangedTwice
  <2>5. ASSUME NEW x \in lo .. s.i + 1
        PROVE  b[x] <= pivot
    <3>1. CASE x = s.i + 1
      BY <1>2, <2>3, <3>1
    <3>2. CASE x # s.i + 1
      <4>1. x \in lo .. s.i /\ x \in D /\ x # j
        BY <1>1, <3>2
      <4> QED
        BY <1>1, <2>3, <3>2, <4>1
    <3> QED
      BY <3>1, <3>2
  <2>6. ASSUME NEW x \in s.i + 2 .. j
        PROVE  b[x] > pivot
    <3>1. CASE x = j
      <4>1. s.i + 1 \in s.i + 1 .. j - 1
        BY <1>1, <3>1
      <4> QED
        BY <1>1, <2>3, <3>1, <4>1
    <3>2. CASE x # j
      <4>1. x \in s.i + 1 .. j - 1 /\ x \in D /\ x # s.i + 1
        BY <1>1, <3>2
      <4> QED
        BY <1>1, <2>3, <3>2, <4>1
    <3> QED
      BY <3>1, <3>2
  <2>7. (s.i + 1) + 1 = s.i + 2
    BY <1>1
  <2>8. Parted(D, a, t, lo, j, pivot)
    BY <2>1, <2>2, <2>3, <2>5, <2>6, <2>7 DEF Parted
  <2> QED
    BY <2>2, <2>4, <2>8 DEF t
<1>3. CASE ~ (s.a[j] <= pivot)
  <2>1. t = s
    BY <1>3 DEF Sort!PartitionTurn
  <2>2. s.a[j] > pivot
    <3>1. s.a[j] \in Int
      BY <1>1
    <3> QED
      BY <1>3, <3>1
  <2>3. \A x \in s.i + 1 .. j : s.a[x] > pivot
    BY <1>1, <2>2
  <2>4. s.i \in lo - 1 .. j
    BY <1>1
  <2> HIDE DEF t
  <2>5. Parted(D, a, t, lo, j, pivot)
    BY <1>1, <2>1, <2>3, <2>4 DEF Parted
  <2> QED
    BY <2>1, <2>5 DEF t
<1> QED
  BY <1>2, <1>3

\* What Partition leaves: nothing before the place of the pivot is greater than it, nothing
\* behind it is smaller.
LEMMA PartitionParts ==
  ASSUME NEW D, D \subseteq Int, NEW a \in [D -> Int], NEW lo \in Int, NEW hi \in Int, lo <= hi,
         lo .. hi \subseteq D, NEW q, q = Sort!Partition(a, lo, hi)
  PROVE  /\ q.a \in [D -> Int] /\ q.p \in lo .. hi
         /\ Rearranged(D, a, q.a, lo .. hi)
         /\ \A x \in lo .. q.p : q.a[x] <= q.a[q.p]
         /\ \A x \in q.p .. hi : q.a[q.p] <= q.a[x]
<1> DEFINE S == [a : [D -> Int], i : lo - 1 .. hi - 1]
           Good(s, j) == Parted(D, a, s, lo, j, a[hi]) /\ Rearranged(D, a, s.a, lo .. hi - 1)
           G == [j \in (lo - 1) + 1 .. hi - 1 |->
                   [s \in S |-> IF Good(s, j - 1) THEN Sort!PartitionTurn(s, j, a[hi]) ELSE s]]
           first == [a |-> a, i |-> lo - 1]
           Body(f) == [j \in lo - 1 .. hi - 1 |->
                         IF j = lo - 1 THEN [a |-> a, i |-> lo - 1]
                         ELSE Sort!PartitionTurn(f[j - 1], j, a[hi])]
           chosen == CHOOSE f : f = Body(f)
<1>0. a[hi] \in Int /\ hi \in D /\ (lo - 1) + 1 = lo
  OBVIOUS
<1>1. ASSUME NEW j \in lo .. hi - 1, NEW s \in S, Good(s, j - 1)
      PROVE  Sort!PartitionTurn(s, j, a[hi]) \in S /\ Good(Sort!PartitionTurn(s, j, a[hi]), j)
  <2> DEFINE t == Sort!PartitionTurn(s, j, a[hi])
  <2>1. Good(t, j)
    <3> HIDE DEF t
    <3> USE DEF t
    <3> QED
      BY <1>0, <1>1, TurnParts
  <2>2. t = [a |-> t.a, i |-> t.i]
    <3>1. CASE s.a[j] <= a[hi]
      BY <3>1 DEF Sort!PartitionTurn
    <3>2. CASE ~ (s.a[j] <= a[hi])
      BY <3>2 DEF Sort!PartitionTurn
    <3> QED
      BY <3>1, <3>2
  <2> HIDE DEF t
  <2>3. t.a \in [D -> Int] /\ t.i \in lo - 1 .. hi - 1
    BY <2>1 DEF Parted
  <2>4. t \in S
    BY <2>2, <2>3
  <2> QED
    BY <2>1, <2>4 DEF t
<1>2. first \in S /\ Good(first, lo - 1)
  <2>1. first.a = a /\ first.i = lo - 1
    OBVIOUS
  <2>2. Rearranged(D, a, first.a, lo .. hi - 1)
    BY <2>1, RearrangedSame
  <2>3. Parted(D, a, first, lo, lo - 1, a[hi])
    BY <2>1 DEF Parted
  <2> QED
    BY <2>2, <2>3
<1> HIDE DEF Good
<1>3. G \in [(lo - 1) + 1 .. hi - 1 -> [S -> S]]
  <2> HIDE DEF S
  <2> QED
    BY <1>0, <1>1
<1>4. PICK w \in [lo - 1 .. hi - 1 -> S] : Turns(w, G, first, lo - 1, hi - 1)
  <2>1. lo - 1 \in Int /\ hi - 1 \in Int /\ lo - 1 <= hi - 1
    OBVIOUS
  <2> HIDE DEF G, S, first
  <2> QED
    BY <1>2, <1>3, <2>1, TurnsExist
<1>5. w[lo - 1] = first /\ \A j \in lo .. hi - 1 : w[j] = G[j][w[j - 1]]
  BY <1>0, <1>4 DEF Turns
<1> HIDE DEF S, first
<1>6. \A j \in lo .. hi - 1 :
        w[j] = IF Good(w[j - 1], j - 1) THEN Sort!PartitionTurn(w[j - 1], j, a[hi]) ELSE w[j - 1]
  <2> SUFFICES ASSUME NEW j \in lo .. hi - 1
               PROVE  w[j] = IF Good(w[j - 1], j - 1)
                             THEN Sort!PartitionTurn(w[j - 1], j, a[hi]) ELSE w[j - 1]
    OBVIOUS
  <2>1. j - 1 \in lo - 1 .. hi - 1 /\ w[j - 1] \in S /\ j \in (lo - 1) + 1 .. hi - 1
    OBVIOUS
  <2>2. G[j][w[j - 1]] = IF Good(w[j - 1], j - 1)
                         THEN Sort!PartitionTurn(w[j - 1], j, a[hi]) ELSE w[j - 1]
    BY <2>1
  <2> HIDE DEF G
  <2> QED
    BY <1>5, <2>2
<1> HIDE DEF G
<1> DEFINE T == {j \in lo - 1 .. hi - 1 : Good(w[j], j)}
<1>7. \A j \in lo - 1 .. hi - 1 : j \in T
  <2>0. lo - 1 \in Int /\ hi - 1 \in Int /\ lo - 1 \in lo - 1 .. hi - 1
    OBVIOUS
  <2>1. lo - 1 \in T
    BY <1>2, <1>5, <2>0
  <2>2. ASSUME NEW j \in lo - 1 .. (hi - 1) - 1, j \in T
        PROVE  j + 1 \in T
    <3>1. j + 1 \in lo .. hi - 1 /\ (j + 1) - 1 = j /\ w[j] \in S /\ j + 1 \in lo - 1 .. hi - 1
      OBVIOUS
    <3>2. Good(w[j], j)
      BY <2>2
    <3>3. w[j + 1] = Sort!PartitionTurn(w[j], j + 1, a[hi])
      BY <1>6, <3>1, <3>2
    <3>4. Good(w[j + 1], j + 1)
      BY <1>1, <3>1, <3>2, <3>3
    <3> QED
      BY <3>1, <3>4
  <2> HIDE DEF T
  <2> QED
    BY <2>0, <2>1, <2>2, IntegerInduction
<1>8. w = Body(w)
  <2>1. \A j \in lo - 1 .. hi - 1 :
          w[j] = IF j = lo - 1 THEN [a |-> a, i |-> lo - 1]
                 ELSE Sort!PartitionTurn(w[j - 1], j, a[hi])
    <3> SUFFICES ASSUME NEW j \in lo - 1 .. hi - 1, j # lo - 1
                 PROVE  w[j] = Sort!PartitionTurn(w[j - 1], j, a[hi])
      BY <1>5 DEF first
    <3>1. j \in lo .. hi - 1 /\ j - 1 \in lo - 1 .. hi - 1
      OBVIOUS
    <3>2. Good(w[j - 1], j - 1)
      BY <1>7, <3>1
    <3> QED
      BY <1>6, <3>1, <3>2
  <2> QED
    BY <2>1
<1> HIDE DEF T
<1>9. chosen = Body(chosen)
  <2> HIDE DEF Body
  <2> QED
    BY <1>8
<1>10. q = [a |-> Sort!Swap(chosen[hi - 1].a, chosen[hi - 1].i + 1, hi),
            p |-> chosen[hi - 1].i + 1]
  BY DEF Sort!Partition
<1> HIDE DEF chosen
<1> DEFINE U == {j \in lo - 1 .. hi - 1 : chosen[j] = w[j]}
<1>11. \A j \in lo - 1 .. hi - 1 : j \in U
  <2>0. lo - 1 \in Int /\ hi - 1 \in Int /\ lo - 1 \in lo - 1 .. hi - 1
    OBVIOUS
  <2>1. \A j \in lo - 1 .. hi - 1 :
          chosen[j] = IF j = lo - 1 THEN [a |-> a, i |-> lo - 1]
                      ELSE Sort!PartitionTurn(chosen[j - 1], j, a[hi])
    BY <1>9
  <2>2. \A j \in lo - 1 .. hi - 1 :
          w[j] = IF j = lo - 1 THEN [a |-> a, i |-> lo - 1]
                 ELSE Sort!PartitionTurn(w[j - 1], j, a[hi])
    BY <1>8
  <2>3. lo - 1 \in U
    BY <2>0, <2>1, <2>2
  <2>4. ASSUME NEW j \in lo - 1 .. (hi - 1) - 1, j \in U
        PROVE  j + 1 \in U
    <3>1. j + 1 \in lo - 1 .. hi - 1 /\ j + 1 # lo - 1 /\ (j + 1) - 1 = j /\ chosen[j] = w[j]
      BY <2>4
    <3>2. chosen[j + 1] = Sort!PartitionTurn(chosen[j], j + 1, a[hi])
      BY <2>1, <3>1
    <3>3. w[j + 1] = Sort!PartitionTurn(w[j], j + 1, a[hi])
      BY <2>2, <3>1
    <3> QED
      BY <3>1, <3>2, <3>3
  <2> HIDE DEF U
  <2> QED
    BY <2>0, <2>3, <2>4, IntegerInduction
<1> DEFINE s == w[hi - 1]
           c == Sort!Swap(s.a, s.i + 1, hi)
<1>12. hi - 1 \in lo - 1 .. hi - 1 /\ Good(s, hi - 1) /\ chosen[hi - 1] = s
  BY <1>7, <1>11 DEF T
<1>13. q.a = c /\ q.p = s.i + 1
  BY <1>10, <1>12
<1> HIDE DEF s, U
<1>14. /\ s.a \in [D -> Int] /\ s.i \in lo - 1 .. hi - 1
       /\ \A x \in lo .. s.i : s.a[x] <= a[hi]
       /\ \A x \in s.i + 1 .. hi - 1 : s.a[x] > a[hi]
       /\ Rearranged(D, a, s.a, lo .. hi - 1)
  BY <1>12 DEF Good, Parted
<1>15. s.a[hi] = a[hi] /\ s.i + 1 \in D /\ s.i + 1 \in lo .. hi /\ hi \in lo .. hi
  <2>1. hi \notin lo .. hi - 1
    OBVIOUS
  <2>2. s.a[hi] = a[hi]
    <3>1. \A i \in D : i \notin lo .. hi - 1 => s.a[i] = a[i]
      BY <1>14, RearrangedFrom
    <3> QED
      BY <1>0, <2>1, <3>1
  <2> QED
    BY <1>14, <2>2
<1>16. /\ c \in [D -> Int] /\ c[s.i + 1] = s.a[hi] /\ c[hi] = s.a[s.i + 1]
       /\ \A x \in D : x # s.i + 1 /\ x # hi => c[x] = s.a[x]
       /\ Rearranged(D, s.a, c, lo .. hi)
  <2> DEFINE e == s.a
             k == s.i + 1
             R == lo .. hi
  <2>1. e \in [D -> Int] /\ k \in D /\ hi \in D /\ k \in R /\ hi \in R
    BY <1>0, <1>14, <1>15
  <2> HIDE DEF e, k, R
  <2>2. /\ Sort!Swap(e, k, hi) \in [D -> Int]
        /\ Sort!Swap(e, k, hi)[k] = e[hi] /\ Sort!Swap(e, k, hi)[hi] = e[k]
        /\ \A x \in D : x # k /\ x # hi => Sort!Swap(e, k, hi)[x] = e[x]
        /\ Rearranged(D, e, Sort!Swap(e, k, hi), R)
    BY <2>1, SwapRearranges
  <2> QED
    BY <2>2 DEF e, k, R
<1> HIDE DEF c
<1>17. Rearranged(D, a, c, lo .. hi)
  <2>1. lo .. hi - 1 \subseteq lo .. hi
    OBVIOUS
  <2>2. Rearranged(D, a, s.a, lo .. hi)
    BY <1>14, <2>1, RearrangedWider
  <2> QED
    BY <1>16, <2>2, RearrangedTwice
<1>18. ASSUME NEW x \in lo .. s.i + 1
       PROVE  c[x] <= c[s.i + 1]
  <2>1. CASE x = s.i + 1
    BY <1>0, <1>15, <1>16, <2>1
  <2>2. CASE x # s.i + 1
    <3>1. x \in lo .. s.i /\ x \in D /\ x # hi
      BY <1>14, <2>2
    <3> QED
      BY <1>14, <1>15, <1>16, <2>2, <3>1
  <2> QED
    BY <2>1, <2>2
<1>19. ASSUME NEW x \in s.i + 1 .. hi
       PROVE  c[s.i + 1] <= c[x]
  <2>1. CASE x = s.i + 1
    BY <1>0, <1>15, <1>16, <2>1
  <2>2. CASE x # s.i + 1 /\ x = hi
    <3>1. s.i + 1 \in s.i + 1 .. hi - 1
      BY <1>14, <2>2
    <3>2. s.a[s.i + 1] > a[hi] /\ s.a[s.i + 1] \in Int
      BY <1>14, <1>15, <3>1
    <3> QED
      BY <1>0, <1>15, <1>16, <2>2, <3>2
  <2>3. CASE x # s.i + 1 /\ x # hi
    <3>1. x \in s.i + 1 .. hi - 1 /\ x \in D
      BY <1>14, <2>3
    <3>2. s.a[x] > a[hi] /\ s.a[x] \in Int
      BY <1>14, <3>1
    <3> QED
      BY <1>0, <1>15, <1>16, <2>3, <3>1, <3>2
  <2> QED
    BY <2>1, <2>2, <2>3
<1> QED
  BY <1>13, <1>15, <1>16, <1>17, <1>18, <1>19

\* The call f has the place i in its range.
InFrame(f, i) == f.lo <= i /\ i <= f.hi
FrameSet == [lo : Int, hi : Int]

\* Calls have ranges within n places, each of at most half of what its caller began with.
FramesFit(n, fs) ==
  /\ fs \in Seq(FrameSet)
  /\ \A k \in 1 .. Len(fs) :
       /\ 0 <= fs[k].lo /\ fs[k].hi <= n - 1 /\ fs[k].lo <= fs[k].hi + 1
       /\ Sort!Power2[k - 1] * (fs[k].hi - fs[k].lo + 2) <= n + 1
FramesApart(fs) ==
  \A k, m \in 1 .. Len(fs) : k # m => \A i \in Int : ~ (InFrame(fs[k], i) /\ InFrame(fs[m], i))

\* What is not in order is in the range of one call.
OutsideOrdered(n, a, fs) ==
  \A i, j \in 0 .. n - 1 : i < j =>
    a[i] <= a[j] \/ \E k \in 1 .. Len(fs) : InFrame(fs[k], i) /\ InFrame(fs[k], j)

SortInv ==
  /\ Sort!N \in Nat
  /\ input \in [0 .. Sort!N - 1 -> Int] /\ arr \in [0 .. Sort!N - 1 -> Int]
  /\ Rearranged(0 .. Sort!N - 1, input, arr, 0 .. Sort!N - 1)
  /\ FramesFit(Sort!N, frames) /\ FramesApart(frames)
  /\ OutsideOrdered(Sort!N, arr, frames)

\* Powers of two, by a recursive function over all numbers.
Doubling(g, n) == g[0] = 1 /\ \A i \in 1 .. n : g[i] = 2 * g[i - 1]

LEMMA DoublingIsOne ==
  ASSUME NEW n \in Nat, NEW g, NEW h, Doubling(g, n), Doubling(h, n)
  PROVE  \A i \in 0 .. n : g[i] = h[i]
<1> DEFINE T == {i \in 0 .. n : g[i] = h[i]}
<1>1. 0 \in T
  BY DEF Doubling
<1>2. ASSUME NEW i \in 0 .. n - 1, i \in T
      PROVE  i + 1 \in T
  <2>1. i + 1 \in 1 .. n /\ i + 1 \in 0 .. n /\ (i + 1) - 1 = i
    OBVIOUS
  <2> QED
    BY <1>2, <2>1 DEF Doubling
<1>3. \A i \in 0 .. n : i \in T
  <2> HIDE DEF T
  <2> QED
    BY <1>1, <1>2, IntervalInduction
<1> QED
  BY <1>3

LEMMA Powers ==
  /\ Sort!Power2[0] = 1
  /\ \A n \in Nat : Sort!Power2[n] \in Nat \ {0} /\ Sort!Power2[n + 1] = 2 * Sort!Power2[n]
<1> DEFINE S == Nat \ {0}
           Body(f) == [n \in Nat |-> IF n = 0 THEN 1 ELSE 2 * f[n - 1]]
           chosen == CHOOSE f : f = Body(f)
           Up(n) == CHOOSE g : g \in [0 .. n -> S] /\ Doubling(g, n)
           w == [n \in Nat |-> Up(n)[n]]
<1>1. ASSUME NEW n \in Nat
      PROVE  Up(n) \in [0 .. n -> S] /\ Doubling(Up(n), n)
  <2> DEFINE G == [i \in 0 + 1 .. n |-> [v \in S |-> 2 * v]]
  <2>1. G \in [0 + 1 .. n -> [S -> S]] /\ 1 \in S
    OBVIOUS
  <2>2. PICK g \in [0 .. n -> S] : Turns(g, G, 1, 0, n)
    <3> HIDE DEF S, G
    <3>1. \E g \in [0 .. n -> S] : Turns(g, G, 1, 0, n)
      <4>1. 0 \in Int /\ n \in Int /\ 0 <= n
        OBVIOUS
      <4> QED
        BY <2>1, <4>1, TurnsExist
    <3> QED
      BY <3>1
  <2>3. g[0] = 1 /\ \A i \in 1 .. n : g[i] = G[i][g[i - 1]]
    BY <2>2 DEF Turns
  <2>4. \A i \in 1 .. n : g[i - 1] \in S /\ G[i][g[i - 1]] = 2 * g[i - 1]
    OBVIOUS
  <2> HIDE DEF G
  <2>5. Doubling(g, n)
    BY <2>3, <2>4 DEF Doubling
  <2> HIDE DEF S
  <2> QED
    BY <2>5
<1> HIDE DEF Up
<1>2. \A n \in Nat : w[n] = Up(n)[n] /\ w[n] \in S
  <2> SUFFICES ASSUME NEW n \in Nat PROVE Up(n)[n] \in S
    OBVIOUS
  <2>1. Up(n) \in [0 .. n -> S] /\ n \in 0 .. n
    BY <1>1
  <2> HIDE DEF S
  <2> QED
    BY <2>1
<1>3. w[0] = 1
  <2>1. Doubling(Up(0), 0)
    BY <1>1
  <2> QED
    BY <1>2, <2>1 DEF Doubling
<1>4. ASSUME NEW n \in Nat
      PROVE  w[n + 1] = 2 * w[n]
  <2>1. Doubling(Up(n + 1), n + 1) /\ Doubling(Up(n), n)
    BY <1>1
  <2>2. Doubling(Up(n + 1), n)
    BY <2>1 DEF Doubling
  <2>3. Up(n + 1)[n] = Up(n)[n]
    BY <2>1, <2>2, DoublingIsOne
  <2>4. n + 1 \in 1 .. n + 1 /\ (n + 1) - 1 = n
    OBVIOUS
  <2>5. Up(n + 1)[n + 1] = 2 * Up(n + 1)[n]
    BY <2>1, <2>4 DEF Doubling
  <2> QED
    BY <1>2, <2>3, <2>5
<1>5. w = Body(w)
  <2>1. \A n \in Nat : w[n] = IF n = 0 THEN 1 ELSE 2 * w[n - 1]
    <3> SUFFICES ASSUME NEW n \in Nat, n # 0 PROVE w[n] = 2 * w[n - 1]
      BY <1>3
    <3>1. n - 1 \in Nat /\ (n - 1) + 1 = n
      OBVIOUS
    <3> HIDE DEF w
    <3> QED
      BY <1>4, <3>1
  <2>2. w = [n \in Nat |-> w[n]]
    OBVIOUS
  <2> HIDE DEF w
  <2> QED
    BY <2>1, <2>2
<1> HIDE DEF w
<1>6. chosen = Body(chosen)
  <2> HIDE DEF Body
  <2> QED
    BY <1>5
<1>7. Sort!Power2 = chosen
  BY DEF Sort!Power2
<1> HIDE DEF chosen
<1>8. chosen[0] = 1 /\ \A n \in Nat : chosen[n + 1] = 2 * chosen[n]
  BY <1>6
<1> DEFINE T == {n \in Nat : chosen[n] \in S}
<1>9. \A n \in Nat : n \in T
  <2>1. 0 \in T
    BY <1>8
  <2>2. ASSUME NEW n \in Nat, n \in T
        PROVE  n + 1 \in T
    BY <1>8, <2>2
  <2> HIDE DEF T
  <2> QED
    BY <2>1, <2>2, NatSetInduction
<1> QED
  BY <1>7, <1>8, <1>9

\* The call that ends, and what it leaves to those that wait.
LEMMA TopFrame ==
  ASSUME SortInv, frames # << >>
  PROVE  /\ Len(frames) \in Nat \ {0} /\ Sort!Top = frames[Len(frames)]
         /\ Sort!Top.lo \in Int /\ Sort!Top.hi \in Int
         /\ 0 <= Sort!Top.lo /\ Sort!Top.hi <= Sort!N - 1
         /\ Sort!Callers \in Seq(FrameSet) /\ Len(Sort!Callers) = Len(frames) - 1
         /\ \A k \in 1 .. Len(frames) - 1 : Sort!Callers[k] = frames[k]
<1>1. frames \in Seq(FrameSet)
  BY DEF SortInv, FramesFit
<1>2. /\ Len(frames) \in Nat \ {0} /\ frames[Len(frames)] \in FrameSet
      /\ Sort!Callers \in Seq(FrameSet) /\ Len(Sort!Callers) = Len(frames) - 1
      /\ \A k \in 1 .. Len(frames) - 1 : Sort!Callers[k] = frames[k]
  BY <1>1, PopStack DEF Sort!Callers
<1>3. 0 <= frames[Len(frames)].lo /\ frames[Len(frames)].hi <= Sort!N - 1
  <2>1. Len(frames) \in 1 .. Len(frames)
    BY <1>2
  <2> QED
    BY <2>1 DEF SortInv, FramesFit
<1> QED
  BY <1>2, <1>3 DEF Sort!Top, FrameSet

\* When only the range of the innermost call is rearranged, two elements that are not both
\* in it are in order, or in the range of a call that waits.
LEMMA OthersStayOrdered ==
  ASSUME SortInv, frames # << >>, NEW b, b \in [0 .. Sort!N - 1 -> Int],
         Rearranged(0 .. Sort!N - 1, arr, b, Sort!Top.lo .. Sort!Top.hi),
         NEW i \in 0 .. Sort!N - 1, NEW j \in 0 .. Sort!N - 1, i < j,
         ~ (InFrame(Sort!Top, i) /\ InFrame(Sort!Top, j))
  PROVE  b[i] <= b[j] \/ \E k \in 1 .. Len(frames) - 1 :
                           InFrame(frames[k], i) /\ InFrame(frames[k], j)
<1> DEFINE lo == Sort!Top.lo
           hi == Sort!Top.hi
           D == 0 .. Sort!N - 1
<1>1. /\ Len(frames) \in Nat \ {0} /\ Sort!Top = frames[Len(frames)]
      /\ lo \in Int /\ hi \in Int /\ Sort!N \in Nat
  BY TopFrame DEF SortInv
<1>2. \A x \in D : \E y \in D :
        /\ b[x] = arr[y]
        /\ x \in lo .. hi => y \in lo .. hi
        /\ x \notin lo .. hi => y = x
  BY DEF Rearranged, Permutes
<1>3. PICK y \in D : b[i] = arr[y] /\ (i \in lo .. hi => y \in lo .. hi) /\ (i \notin lo .. hi => y = i)
  BY <1>2
<1>4. PICK z \in D : b[j] = arr[z] /\ (j \in lo .. hi => z \in lo .. hi) /\ (j \notin lo .. hi => z = j)
  BY <1>2
<1>5. y < z
  BY <1>1, <1>3, <1>4 DEF InFrame
<1>6. CASE arr[y] <= arr[z]
  BY <1>3, <1>4, <1>6
<1>7. CASE ~ (arr[y] <= arr[z])
  <2>1. PICK k \in 1 .. Len(frames) : InFrame(frames[k], y) /\ InFrame(frames[k], z)
    BY <1>5, <1>7 DEF SortInv, OutsideOrdered
  <2>2. k # Len(frames)
    <3>1. ~ (y \in lo .. hi /\ z \in lo .. hi)
      BY <1>1, <1>3, <1>4 DEF InFrame
    <3>2. y \in Int /\ z \in Int
      BY <1>1
    <3> QED
      BY <1>1, <2>1, <3>1, <3>2 DEF InFrame
  <2>3. \A x \in Int : ~ (InFrame(frames[k], x) /\ InFrame(frames[Len(frames)], x))
    <3>1. Len(frames) \in 1 .. Len(frames)
      BY <1>1
    <3> QED
      BY <2>2, <3>1 DEF SortInv, FramesApart
  <2>4. y \notin lo .. hi /\ z \notin lo .. hi
    <3>1. y \in Int /\ z \in Int
      BY <1>1
    <3> QED
      BY <1>1, <2>1, <2>3, <3>1 DEF InFrame
  <2>5. y = i /\ z = j /\ k \in 1 .. Len(frames) - 1
    BY <1>1, <1>3, <1>4, <2>2, <2>4
  <2> QED
    BY <2>1, <2>5
<1> QED
  BY <1>6, <1>7

\* A call whose range is in order ends.
LEMMA FrameEnds ==
  ASSUME SortInv, frames # << >>, input' = input, frames' = Sort!Callers,
         arr' \in [0 .. Sort!N - 1 -> Int],
         Rearranged(0 .. Sort!N - 1, arr, arr', Sort!Top.lo .. Sort!Top.hi),
         Ascends(arr', Sort!Top.lo, Sort!Top.hi)
  PROVE  SortInv'
<1> DEFINE n == Sort!N
           D == 0 .. n - 1
           R == Sort!Top.lo .. Sort!Top.hi
<1>1. /\ Len(frames) \in Nat \ {0} /\ Sort!Top.lo \in Int /\ Sort!Top.hi \in Int
      /\ 0 <= Sort!Top.lo /\ Sort!Top.hi <= n - 1
      /\ Sort!Callers \in Seq(FrameSet) /\ Len(Sort!Callers) = Len(frames) - 1
      /\ \A k \in 1 .. Len(frames) - 1 : Sort!Callers[k] = frames[k]
      /\ n \in Nat
  BY TopFrame DEF SortInv
<1>2. Sort!N' = n
  BY DEF Sort!N
<1>3. Rearranged(D, input, arr', D)
  <2>1. R \subseteq D
    BY <1>1
  <2>2. Rearranged(D, arr, arr', D)
    BY <2>1, RearrangedWider
  <2> QED
    BY <2>2, RearrangedTwice DEF SortInv
<1>4. FramesFit(n, Sort!Callers)
  <2>1. \A k \in 1 .. Len(frames) - 1 : k \in 1 .. Len(frames)
    BY <1>1
  <2> QED
    BY <1>1, <2>1 DEF SortInv, FramesFit
<1>5. FramesApart(Sort!Callers)
  <2>1. \A k \in 1 .. Len(frames) - 1 : k \in 1 .. Len(frames)
    BY <1>1
  <2> QED
    BY <1>1, <2>1 DEF SortInv, FramesApart
<1>6. OutsideOrdered(n, arr', Sort!Callers)
  <2> SUFFICES ASSUME NEW i \in D, NEW j \in D, i < j
               PROVE  arr'[i] <= arr'[j] \/ \E k \in 1 .. Len(Sort!Callers) :
                        InFrame(Sort!Callers[k], i) /\ InFrame(Sort!Callers[k], j)
    BY DEF OutsideOrdered
  <2>1. CASE InFrame(Sort!Top, i) /\ InFrame(Sort!Top, j)
    BY <1>1, <2>1 DEF Ascends, InFrame
  <2>2. CASE ~ (InFrame(Sort!Top, i) /\ InFrame(Sort!Top, j))
    <3>1. arr'[i] <= arr'[j] \/ \E k \in 1 .. Len(frames) - 1 :
            InFrame(frames[k], i) /\ InFrame(frames[k], j)
      BY <2>2, OthersStayOrdered
    <3> QED
      BY <1>1, <3>1
  <2> QED
    BY <2>1, <2>2
<1>7. input \in [D -> Int]
  BY DEF SortInv
<1> QED
  BY <1>1, <1>2, <1>3, <1>4, <1>5, <1>6, <1>7 DEF SortInv

LEMMA ShortEnds ==
  ASSUME SortInv, Sort!ReturnFromEmpty \/ Sort!SortShort
  PROVE  SortInv'
<1> DEFINE D == 0 .. Sort!N - 1
           lo == Sort!Top.lo
           hi == Sort!Top.hi
<1>1. frames # << >> /\ input' = input /\ frames' = Sort!Callers
  BY DEF Sort!ReturnFromEmpty, Sort!SortShort
<1>2. lo \in Int /\ hi \in Int /\ 0 <= lo /\ hi <= Sort!N - 1 /\ Sort!N \in Nat
  BY <1>1, TopFrame DEF SortInv
<1>3. arr \in [D -> Int] /\ D \subseteq Int
  BY DEF SortInv
<1>4. CASE Sort!ReturnFromEmpty
  <2>1. arr' = arr /\ lo >= hi
    BY <1>4 DEF Sort!ReturnFromEmpty
  <2>2. Rearranged(D, arr, arr', lo .. hi)
    BY <2>1, RearrangedSame
  <2>3. Ascends(arr', lo, hi)
    <3>1. \A x, y \in lo .. hi : x = y /\ x \in D
      BY <1>2, <2>1
    <3>2. \A x \in lo .. hi : arr'[x] \in Int
      BY <1>3, <2>1, <3>1
    <3> QED
      BY <3>1, <3>2 DEF Ascends
  <2> QED
    BY <1>1, <1>3, <2>1, <2>2, <2>3, FrameEnds
<1>5. CASE Sort!SortShort
  <2>1. arr' = Sort!InsSort(arr, lo, hi) /\ lo < hi
    BY <1>5 DEF Sort!SortShort
  <2> HIDE DEF lo, hi
  <2>2. lo .. hi \subseteq D /\ lo <= hi
    BY <1>2, <2>1
  <2>3. arr' \in [D -> Int] /\ Ascends(arr', lo, hi) /\ Rearranged(D, arr, arr', lo .. hi)
    BY <1>2, <1>3, <2>1, <2>2, InsSortSorts
  <2> USE DEF lo, hi
  <2> QED
    BY <1>1, <2>3, FrameEnds
<1> QED
  BY <1>4, <1>5

\* What the loop keeps and what it calls itself for, with the smaller part last.
LEMMA PartsOfRange ==
  ASSUME NEW lo \in Int, NEW hi \in Int, NEW p \in lo .. hi
  PROVE  \E A \in FrameSet, B \in FrameSet :
           /\ Sort!SmallerFirst(lo, p, hi) = <<A, B>>
           /\ \/ A.lo = lo /\ A.hi = p - 1 /\ B.lo = p + 1 /\ B.hi = hi
              \/ B.lo = lo /\ B.hi = p - 1 /\ A.lo = p + 1 /\ A.hi = hi
           /\ 2 * (B.hi - B.lo + 2) <= hi - lo + 2
<1> DEFINE L == Sort!Frame(lo, p - 1)
           H == Sort!Frame(p + 1, hi)
<1>1. /\ L \in FrameSet /\ H \in FrameSet
      /\ L.lo = lo /\ L.hi = p - 1 /\ H.lo = p + 1 /\ H.hi = hi
  BY DEF Sort!Frame, FrameSet
<1>2. CASE p - lo < hi - p
  <2>1. Sort!SmallerFirst(lo, p, hi) = <<H, L>>
    BY <1>2 DEF Sort!SmallerFirst
  <2> HIDE DEF L, H
  <2>2. 2 * (L.hi - L.lo + 2) <= hi - lo + 2
    BY <1>1, <1>2
  <2> QED
    BY <1>1, <2>1, <2>2
<1>3. CASE ~ (p - lo < hi - p)
  <2>1. Sort!SmallerFirst(lo, p, hi) = <<L, H>>
    BY <1>3 DEF Sort!SmallerFirst
  <2> HIDE DEF L, H
  <2>2. 2 * (H.hi - H.lo + 2) <= hi - lo + 2
    BY <1>1, <1>3
  <2> QED
    BY <1>1, <2>1, <2>2
<1> QED
  BY <1>2, <1>3

LEMMA HalvedFits ==
  ASSUME NEW P \in Nat, NEW x \in Int, NEW y \in Int, NEW m \in Int, 2 * x <= y, P * y <= m
  PROVE  (2 * P) * x <= m
<1>1. (2 * P) * x = P * (2 * x)
  OBVIOUS
<1>2. P * (2 * x) <= P * y
  OBVIOUS
<1> QED
  BY <1>1, <1>2

LEMMA SmallerFits ==
  ASSUME NEW P \in Nat, NEW x \in Int, NEW y \in Int, NEW m \in Int, x <= y, P * y <= m
  PROVE  P * x <= m
<1>1. P * x <= P * y
  OBVIOUS
<1> QED
  BY <1>1

\* The frames after SortLong: those that wait, then the two parts.
LEMMA SplitFrames ==
  ASSUME SortInv, frames # << >>, NEW p \in Sort!Top.lo .. Sort!Top.hi,
         NEW A \in FrameSet, NEW B \in FrameSet,
         frames' = Sort!Callers \o <<A, B>>
  PROVE  /\ frames' \in Seq(FrameSet) /\ Len(frames') = Len(frames) + 1
         /\ \A k \in 1 .. Len(frames) - 1 : frames'[k] = frames[k]
         /\ frames'[Len(frames)] = A /\ frames'[Len(frames) + 1] = B
         /\ frames' = Append(Append(Sort!Callers, A), B)
<1> DEFINE C == Sort!Callers
           F == Append(Append(C, A), B)
<1>1. /\ C \in Seq(FrameSet) /\ Len(C) = Len(frames) - 1 /\ Len(frames) \in Nat \ {0}
      /\ \A k \in 1 .. Len(frames) - 1 : C[k] = frames[k]
  BY TopFrame
<1> HIDE DEF C
<1>2. /\ Append(C, A) \in Seq(FrameSet) /\ Len(Append(C, A)) = Len(frames)
      /\ Append(C, A)[Len(frames)] = A
      /\ \A k \in 1 .. Len(frames) - 1 : Append(C, A)[k] = C[k]
  BY <1>1
<1>3. /\ F \in Seq(FrameSet) /\ Len(F) = Len(frames) + 1 /\ F[Len(frames) + 1] = B
      /\ \A k \in 1 .. Len(frames) : F[k] = Append(C, A)[k]
  BY <1>1, <1>2
<1>4. C \o <<A, B>> = F
  <2>1. /\ C \o <<A, B>> \in Seq(FrameSet) /\ Len(C \o <<A, B>>) = Len(frames) + 1
        /\ \A k \in 1 .. Len(frames) + 1 :
             (C \o <<A, B>>)[k] = IF k <= Len(C) THEN C[k] ELSE <<A, B>>[k - Len(C)]
    BY <1>1
  <2>2. \A k \in 1 .. Len(F) : (C \o <<A, B>>)[k] = F[k]
    <3> SUFFICES ASSUME NEW k \in 1 .. Len(frames) + 1
                 PROVE  (C \o <<A, B>>)[k] = F[k]
      BY <1>3
    <3>1. CASE k <= Len(frames) - 1
      BY <1>1, <1>2, <1>3, <2>1, <3>1
    <3>2. CASE k = Len(frames)
      BY <1>1, <1>2, <1>3, <2>1, <3>2
    <3>3. CASE k = Len(frames) + 1
      <4>1. k - Len(C) = 2 /\ ~ (k <= Len(C)) /\ k \in 1 .. Len(frames) + 1
        BY <1>1, <3>3
      <4>2. (C \o <<A, B>>)[k] = <<A, B>>[2]
        BY <2>1, <4>1
      <4>3. F[k] = B
        BY <1>3, <3>3
      <4> QED
        BY <4>2, <4>3
    <3> QED
      BY <1>1, <3>1, <3>2, <3>3
  <2> HIDE DEF F
  <2> QED
    BY <1>3, <2>1, <2>2, SameAs
<1>5. frames' = F
  BY <1>4 DEF C
<1> HIDE DEF F
<1>6. \A k \in 1 .. Len(frames) - 1 : k \in 1 .. Len(frames)
  BY <1>1
<1>7. Len(frames) \in 1 .. Len(frames)
  BY <1>1
<1> QED
  BY <1>1, <1>2, <1>3, <1>5, <1>6, <1>7 DEF F, C

LEMMA LongSplits ==
  ASSUME SortInv, Sort!SortLong
  PROVE  SortInv'
<1> DEFINE n == Sort!N
           D == 0 .. n - 1
           lo == Sort!Top.lo
           hi == Sort!Top.hi
           part == Sort!Partition(arr, lo, hi)
           p == part.p
           L == Len(frames)
<1>1. /\ frames # << >> /\ lo < hi /\ arr' = part.a /\ input' = input
      /\ frames' = Sort!Callers \o Sort!SmallerFirst(lo, p, hi)
  BY DEF Sort!SortLong
<1>2. /\ L \in Nat \ {0} /\ Sort!Top = frames[L]
      /\ lo \in Int /\ hi \in Int /\ 0 <= lo /\ hi <= n - 1 /\ n \in Nat
  BY <1>1, TopFrame DEF SortInv
<1>3. /\ arr' \in [D -> Int] /\ p \in lo .. hi
      /\ Rearranged(D, arr, arr', lo .. hi)
      /\ \A x \in lo .. p : arr'[x] <= arr'[p]
      /\ \A x \in p .. hi : arr'[p] <= arr'[x]
  <2>1. D \subseteq Int /\ arr \in [D -> Int] /\ lo .. hi \subseteq D /\ lo <= hi
    BY <1>1, <1>2 DEF SortInv
  <2> HIDE DEF part, lo, hi, D
  <2>2. /\ part.a \in [D -> Int] /\ part.p \in lo .. hi
        /\ Rearranged(D, arr, part.a, lo .. hi)
        /\ \A x \in lo .. part.p : part.a[x] <= part.a[part.p]
        /\ \A x \in part.p .. hi : part.a[part.p] <= part.a[x]
    <3>1. part = Sort!Partition(arr, lo, hi)
      BY DEF part
    <3> QED
      BY <1>2, <2>1, <3>1, PartitionParts
  <2> QED
    BY <1>1, <2>2
<1> HIDE DEF part
<1>4. PICK A \in FrameSet, B \in FrameSet :
        /\ Sort!SmallerFirst(lo, p, hi) = <<A, B>>
        /\ \/ A.lo = lo /\ A.hi = p - 1 /\ B.lo = p + 1 /\ B.hi = hi
           \/ B.lo = lo /\ B.hi = p - 1 /\ A.lo = p + 1 /\ A.hi = hi
        /\ 2 * (B.hi - B.lo + 2) <= hi - lo + 2
  <2> HIDE DEF lo, hi, p
  <2> QED
    BY <1>2, <1>3, PartsOfRange
<1>5. /\ frames' \in Seq(FrameSet) /\ Len(frames') = L + 1
      /\ \A k \in 1 .. L - 1 : frames'[k] = frames[k]
      /\ frames'[L] = A /\ frames'[L + 1] = B
  BY <1>1, <1>3, <1>4, SplitFrames
<1>6. \A k \in 1 .. L + 1 : k \in 1 .. L - 1 \/ k = L \/ k = L + 1
  BY <1>2
<1>7. Sort!N' = n
  BY <1>1 DEF Sort!N
<1>8. Rearranged(D, input, arr', D)
  <2>1. lo .. hi \subseteq D
    BY <1>2
  <2>2. Rearranged(D, arr, arr', D)
    BY <1>3, <2>1, RearrangedWider
  <2> QED
    BY <2>2, RearrangedTwice DEF SortInv
<1>9. /\ A.lo \in Int /\ A.hi \in Int /\ B.lo \in Int /\ B.hi \in Int /\ p \in Int
      /\ p - 1 \in Int /\ lo <= p /\ p <= hi
  BY <1>2, <1>3 DEF FrameSet
<1> HIDE DEF p, lo, hi
<1>9a. /\ lo <= A.lo /\ A.hi <= hi /\ A.lo <= A.hi + 1 /\ A.hi - A.lo + 2 <= hi - lo + 2
       /\ lo <= B.lo /\ B.hi <= hi /\ B.lo <= B.hi + 1
       /\ \A i \in Int : ~ (InFrame(A, i) /\ InFrame(B, i))
  <2>1. CASE A.lo = lo /\ A.hi = p - 1 /\ B.lo = p + 1 /\ B.hi = hi
    BY <1>2, <1>9, <2>1 DEF InFrame
  <2>2. CASE B.lo = lo /\ B.hi = p - 1 /\ A.lo = p + 1 /\ A.hi = hi
    BY <1>2, <1>9, <2>2 DEF InFrame
  <2> QED
    BY <1>4, <2>1, <2>2
<1>10. FramesFit(n, frames')
  <2>1. \A k \in 1 .. L :
          /\ 0 <= frames[k].lo /\ frames[k].hi <= n - 1 /\ frames[k].lo <= frames[k].hi + 1
          /\ Sort!Power2[k - 1] * (frames[k].hi - frames[k].lo + 2) <= n + 1
    BY DEF SortInv, FramesFit
  <2>2. Sort!Power2[L - 1] * (hi - lo + 2) <= n + 1
    <3>1. L \in 1 .. L
      BY <1>2
    <3> QED
      BY <1>2, <2>1, <3>1 DEF lo, hi
  <2>3. /\ Sort!Power2[L - 1] \in Nat
        /\ Sort!Power2[(L + 1) - 1] = 2 * Sort!Power2[L - 1]
    <3>1. L - 1 \in Nat /\ (L - 1) + 1 = (L + 1) - 1
      BY <1>2
    <3> QED
      BY <3>1, Powers
  <2>4. ASSUME NEW k \in 1 .. L + 1
        PROVE  /\ 0 <= frames'[k].lo /\ frames'[k].hi <= n - 1
               /\ frames'[k].lo <= frames'[k].hi + 1
               /\ Sort!Power2[k - 1] * (frames'[k].hi - frames'[k].lo + 2) <= n + 1
    <3>1. CASE k \in 1 .. L - 1
      <4>1. k \in 1 .. L /\ frames'[k] = frames[k]
        BY <1>2, <1>5, <3>1
      <4> QED
        BY <2>1, <4>1
    <3>2. CASE k = L
      <4>1. /\ 0 <= A.lo /\ A.hi <= n - 1 /\ A.lo <= A.hi + 1
            /\ A.hi - A.lo + 2 <= hi - lo + 2
        BY <1>2, <1>9, <1>9a
      <4>2. A.hi - A.lo + 2 \in Int /\ hi - lo + 2 \in Int /\ n + 1 \in Int
        BY <1>2, <1>9
      <4>3. Sort!Power2[L - 1] * (A.hi - A.lo + 2) <= n + 1
        BY <2>2, <2>3, <4>1, <4>2, SmallerFits
      <4> QED
        BY <1>5, <3>2, <4>1, <4>3
    <3>3. CASE k = L + 1
      <4>1. 0 <= B.lo /\ B.hi <= n - 1 /\ B.lo <= B.hi + 1
        BY <1>2, <1>9, <1>9a
      <4>2. B.hi - B.lo + 2 \in Int /\ hi - lo + 2 \in Int /\ n + 1 \in Int
        BY <1>2, <1>9
      <4>3. (2 * Sort!Power2[L - 1]) * (B.hi - B.lo + 2) <= n + 1
        <5>1. 2 * (B.hi - B.lo + 2) <= hi - lo + 2
          BY <1>4
        <5> QED
          BY <2>2, <2>3, <4>2, <5>1, HalvedFits
      <4> QED
        BY <1>5, <2>3, <3>3, <4>1, <4>3
    <3> QED
      BY <1>6, <3>1, <3>2, <3>3
  <2> QED
    BY <1>5, <2>4 DEF FramesFit
<1>11. FramesApart(frames')
  <2>1. ASSUME NEW i \in Int
        PROVE  /\ InFrame(A, i) => InFrame(frames[L], i)
               /\ InFrame(B, i) => InFrame(frames[L], i)
               /\ ~ (InFrame(A, i) /\ InFrame(B, i))
    <3>1. frames[L].lo = lo /\ frames[L].hi = hi
      BY <1>2 DEF lo, hi
    <3> QED
      BY <1>2, <1>9, <1>9a, <3>1 DEF InFrame
  <2>2. \A k, m \in 1 .. L : k # m =>
          \A i \in Int : ~ (InFrame(frames[k], i) /\ InFrame(frames[m], i))
    BY DEF SortInv, FramesApart
  <2> SUFFICES ASSUME NEW k \in 1 .. L + 1, NEW m \in 1 .. L + 1, k # m, NEW i \in Int,
                      InFrame(frames'[k], i), InFrame(frames'[m], i)
               PROVE  FALSE
    BY <1>5 DEF FramesApart
  <2>3. \A e \in 1 .. L - 1 : e \in 1 .. L /\ e # L /\ frames'[e] = frames[e]
    BY <1>2, <1>5
  <2>4. L \in 1 .. L
    BY <1>2
  <2>5. CASE k \in 1 .. L - 1 /\ m \in 1 .. L - 1
    BY <2>2, <2>3, <2>5
  <2>6. CASE k \in 1 .. L - 1 /\ m \notin 1 .. L - 1
    <3>1. InFrame(frames[k], i) /\ InFrame(frames[L], i)
      BY <1>5, <1>6, <2>1, <2>3, <2>6
    <3> QED
      BY <2>2, <2>3, <2>4, <2>6, <3>1
  <2>7. CASE k \notin 1 .. L - 1 /\ m \in 1 .. L - 1
    <3>1. InFrame(frames[m], i) /\ InFrame(frames[L], i)
      BY <1>5, <1>6, <2>1, <2>3, <2>7
    <3> QED
      BY <2>2, <2>3, <2>4, <2>7, <3>1
  <2>8. CASE k \notin 1 .. L - 1 /\ m \notin 1 .. L - 1
    BY <1>5, <1>6, <2>1, <2>8
  <2> QED
    BY <2>5, <2>6, <2>7, <2>8
<1>12. OutsideOrdered(n, arr', frames')
  <2> SUFFICES ASSUME NEW i \in D, NEW j \in D, i < j
               PROVE  arr'[i] <= arr'[j] \/ \E k \in 1 .. L + 1 :
                        InFrame(frames'[k], i) /\ InFrame(frames'[k], j)
    BY <1>5 DEF OutsideOrdered
  <2>0. i \in Int /\ j \in Int /\ arr'[i] \in Int /\ arr'[j] \in Int
    BY <1>2, <1>3
  <2>1. CASE ~ (InFrame(Sort!Top, i) /\ InFrame(Sort!Top, j))
    <3>1. arr'[i] <= arr'[j] \/ \E k \in 1 .. L - 1 :
            InFrame(frames[k], i) /\ InFrame(frames[k], j)
      BY <1>1, <1>3, <2>1, OthersStayOrdered DEF lo, hi
    <3>2. \A k \in 1 .. L - 1 : k \in 1 .. L + 1 /\ frames'[k] = frames[k]
      BY <1>2, <1>5
    <3> QED
      BY <3>1, <3>2
  <2>2. CASE InFrame(Sort!Top, i) /\ InFrame(Sort!Top, j)
    <3>1. i \in lo .. hi /\ j \in lo .. hi
      BY <1>2, <2>0, <2>2 DEF InFrame, lo, hi
    <3>2. L \in 1 .. L + 1 /\ L + 1 \in 1 .. L + 1
      BY <1>2
    <3>3. CASE j < p \/ i > p
      <4>1. \/ InFrame(A, i) /\ InFrame(A, j)
            \/ InFrame(B, i) /\ InFrame(B, j)
        <5>1. CASE A.lo = lo /\ A.hi = p - 1 /\ B.lo = p + 1 /\ B.hi = hi
          BY <1>2, <1>9, <2>0, <3>1, <3>3, <5>1 DEF InFrame
        <5>2. CASE B.lo = lo /\ B.hi = p - 1 /\ A.lo = p + 1 /\ A.hi = hi
          BY <1>2, <1>9, <2>0, <3>1, <3>3, <5>2 DEF InFrame
        <5> QED
          BY <1>4, <5>1, <5>2
      <4> QED
        BY <1>5, <3>2, <4>1
    <3>4. CASE i <= p /\ p <= j
      <4>1. i \in lo .. p /\ j \in p .. hi /\ p \in D
        BY <1>2, <1>9, <3>1, <3>4
      <4>2. arr'[i] <= arr'[p] /\ arr'[p] <= arr'[j] /\ arr'[p] \in Int
        BY <1>3, <4>1
      <4> QED
        BY <2>0, <4>2
    <3> QED
      BY <1>9, <2>0, <3>3, <3>4
  <2> QED
    BY <2>1, <2>2
<1>13. input \in [D -> Int]
  BY DEF SortInv
<1> QED
  BY <1>1, <1>2, <1>3, <1>7, <1>8, <1>10, <1>11, <1>12, <1>13 DEF SortInv

LEMMA SortInit ==
  ASSUME Sort!Init
  PROVE  SortInv
<1>1. PICK n \in SortSizes : arr \in [0 .. n - 1 -> SortValues]
  BY DEF Sort!Init
<1>2. input = arr /\ frames = IF Sort!N > 1 THEN <<Sort!Frame(0, Sort!N - 1)>> ELSE << >>
  BY DEF Sort!Init
<1>3. n \in Nat /\ arr \in [0 .. n - 1 -> Int]
  BY <1>1, SortAssumption
<1>4. Sort!N = n
  <2>1. Sort!N = Cardinality(0 .. n - 1)
    BY <1>1, <1>2 DEF Sort!N, Sort!Cardinality, Cardinality
  <2>2. 0 \in Int /\ n - 1 \in Int
    BY <1>3
  <2>3. Cardinality(0 .. n - 1) = IF 0 > n - 1 THEN 0 ELSE (n - 1) - 0 + 1
    BY <2>2, FS_Interval
  <2> QED
    BY <1>3, <2>1, <2>3
<1>5. Rearranged(0 .. n - 1, input, arr, 0 .. n - 1)
  BY <1>2, RearrangedSame
<1>6. CASE n > 1
  <2> DEFINE f == Sort!Frame(0, n - 1)
  <2>1. frames = <<f>> /\ f \in FrameSet /\ f.lo = 0 /\ f.hi = n - 1
    BY <1>2, <1>3, <1>4, <1>6 DEF Sort!Frame, FrameSet
  <2> HIDE DEF f
  <2>2. /\ frames \in Seq(FrameSet) /\ Len(frames) = 1 /\ frames[1] = f
        /\ \A k \in 1 .. Len(frames) : k = 1
    BY <2>1
  <2>3. Sort!Power2[0] * (n - 1 - 0 + 2) <= n + 1
    BY <1>3, Powers
  <2>4. FramesFit(n, frames)
    <3>1. f.hi - f.lo + 2 = n - 1 - 0 + 2
      BY <2>1
    <3>2. \A k \in 1 .. Len(frames) : k - 1 = 0 /\ frames[k] = f
      BY <2>2
    <3>3. 0 <= f.lo /\ f.hi <= n - 1 /\ f.lo <= f.hi + 1
      BY <1>3, <2>1
    <3>4. Sort!Power2[0] * (f.hi - f.lo + 2) <= n + 1
      BY <2>3, <3>1
    <3> QED
      BY <2>2, <3>2, <3>3, <3>4 DEF FramesFit
  <2>5. FramesApart(frames)
    BY <2>2 DEF FramesApart
  <2>6. OutsideOrdered(n, arr, frames)
    <3>1. \A i \in 0 .. n - 1 : InFrame(f, i)
      BY <1>3, <2>1 DEF InFrame
    <3>2. 1 \in 1 .. Len(frames) /\ frames[1] = f
      BY <2>2
    <3> QED
      BY <3>1, <3>2 DEF OutsideOrdered
  <2> QED
    BY <1>2, <1>3, <1>4, <1>5, <2>4, <2>5, <2>6 DEF SortInv
<1>7. CASE ~ (n > 1)
  <2>1. frames = << >>
    BY <1>2, <1>4, <1>7
  <2>2. FramesFit(n, frames) /\ FramesApart(frames)
    BY <2>1 DEF FramesFit, FramesApart
  <2>3. OutsideOrdered(n, arr, frames)
    BY <1>3, <1>7 DEF OutsideOrdered
  <2> QED
    BY <1>2, <1>3, <1>4, <1>5, <2>2, <2>3 DEF SortInv
<1> QED
  BY <1>6, <1>7

LEMMA SortStep ==
  ASSUME SortInv, [Sort!Next]_(Sort!vars)
  PROVE  SortInv'
<1>1. CASE UNCHANGED Sort!vars
  BY <1>1 DEF SortInv, Sort!vars, Sort!N
<1>2. CASE Sort!Done
  BY <1>2 DEF SortInv, Sort!vars, Sort!N, Sort!Done
<1> QED
  BY <1>1, <1>2, ShortEnds, LongSplits DEF Sort!Next

\* A permutation leaves every value as often as it was.
LEMMA SameBag ==
  ASSUME NEW D, IsFiniteSet(D), NEW a \in [D -> Int], NEW b \in [D -> Int],
         Rearranged(D, a, b, D)
  PROVE  Sort!BagOf(b) = Sort!BagOf(a)
<1>1. PICK f : Permutes(f, D, D) /\ \A i \in D : b[i] = a[f[i]]
  BY DEF Rearranged
<1>2. f \in [D -> D] /\ \A i, j \in D : f[i] = f[j] => i = j
  BY <1>1 DEF Permutes
<1>3. \A j \in D : \E i \in D : f[i] = j
  <2>1. f \in Injection(D, D)
    BY <1>2 DEF Injection, IsInjective
  <2>2. f \in Surjection(D, D)
    BY <2>1, FS_Injection
  <2> QED
    BY <2>2 DEF Surjection
<1>4. {b[i] : i \in D} = {a[i] : i \in D}
  BY <1>1, <1>2, <1>3
<1>5. \A S : Sort!Cardinality(S) = Cardinality(S)
  BY DEF Sort!Cardinality, Cardinality
<1>6. ASSUME NEW v
      PROVE  Cardinality({i \in D : b[i] = v}) = Cardinality({i \in D : a[i] = v})
  <2> DEFINE X == {i \in D : b[i] = v}
             Y == {i \in D : a[i] = v}
             g == [i \in X |-> f[i]]
  <2>1. g \in [X -> Y] /\ \A i \in X : g[i] = f[i]
    BY <1>1, <1>2
  <2>2. \A i, j \in X : g[i] = g[j] => i = j
    BY <1>2
  <2>3. \A j \in Y : \E i \in X : g[i] = j
    <3> SUFFICES ASSUME NEW j \in Y PROVE \E i \in X : g[i] = j
      OBVIOUS
    <3>1. PICK i \in D : f[i] = j
      BY <1>3
    <3>2. i \in X
      BY <1>1, <3>1
    <3> QED
      BY <3>1, <3>2
  <2>4. IsFiniteSet(X)
    <3>1. X \in SUBSET D
      OBVIOUS
    <3> HIDE DEF X
    <3> QED
      BY <3>1, FS_Subset
  <2> HIDE DEF X, Y, g
  <2>5. g \in Injection(X, Y) /\ g \in Surjection(X, Y)
    BY <2>1, <2>2, <2>3 DEF Injection, Surjection, IsInjective
  <2>6. Cardinality(Y) = Cardinality(X)
    BY <2>4, <2>5, FS_Surjection
  <2> QED
    BY <2>6 DEF X, Y
<1>7. /\ Sort!BagOf(b) = [v \in {b[i] : i \in D} |-> Cardinality({i \in D : b[i] = v})]
      /\ Sort!BagOf(a) = [v \in {a[i] : i \in D} |-> Cardinality({i \in D : a[i] = v})]
  <2>1. DOMAIN a = D /\ DOMAIN b = D
    OBVIOUS
  <2> QED
    BY <1>5, <2>1 DEF Sort!BagOf
<1> QED
  BY <1>4, <1>6, <1>7

LEMMA SortSafe ==
  ASSUME SortInv
  PROVE  Sort!KeepsElements /\ Sort!SettledInPlace /\ Sort!DepthIsLogarithmic
<1> DEFINE n == Sort!N
           D == 0 .. n - 1
<1>1. Sort!KeepsElements
  <2>1. IsFiniteSet(D)
    <3>1. 0 \in Int /\ n - 1 \in Int
      BY DEF SortInv
    <3> QED
      BY <3>1, FS_Interval
  <2>2. input \in [D -> Int] /\ arr \in [D -> Int] /\ Rearranged(D, input, arr, D)
    BY DEF SortInv
  <2> HIDE DEF D
  <2>3. Sort!BagOf(arr) = Sort!BagOf(input)
    BY <2>1, <2>2, SameBag
  <2> QED
    BY <2>3 DEF Sort!KeepsElements
<1>2. Sort!SettledInPlace
  <2>1. DOMAIN arr = D /\ n \in Nat /\ \A i \in D : arr[i] \in Int /\ i \in Int
    BY DEF SortInv
  <2>2. ASSUME NEW i \in D, \A f \in Sort!ToSet(frames) : i \notin f.lo .. f.hi, NEW j \in D
        PROVE  (j < i => arr[j] <= arr[i]) /\ (j > i => arr[j] >= arr[i])
    <3>1. \A k \in 1 .. Len(frames) : ~ InFrame(frames[k], i)
      <4> SUFFICES ASSUME NEW k \in 1 .. Len(frames) PROVE ~ InFrame(frames[k], i)
        OBVIOUS
      <4>1. frames \in Seq(FrameSet)
        BY DEF SortInv, FramesFit
      <4>2. frames[k] \in Sort!ToSet(frames) /\ frames[k] \in FrameSet
        BY <4>1 DEF Sort!ToSet
      <4>3. i \notin frames[k].lo .. frames[k].hi
        BY <2>2, <4>2
      <4> QED
        BY <2>1, <4>2, <4>3 DEF InFrame, FrameSet
    <3>2. \A x, y \in D : x < y =>
            arr[x] <= arr[y] \/ \E k \in 1 .. Len(frames) : InFrame(frames[k], x) /\ InFrame(frames[k], y)
      BY DEF SortInv, OutsideOrdered
    <3>3. j < i => arr[j] <= arr[i]
      BY <3>1, <3>2
    <3>4. j > i => arr[i] <= arr[j]
      <4>1. j > i => i < j
        BY <2>1
      <4> QED
        BY <3>1, <3>2, <4>1
    <3> QED
      BY <2>1, <3>3, <3>4
  <2> QED
    BY <2>1, <2>2 DEF Sort!SettledInPlace
<1>3. Sort!DepthIsLogarithmic
  <2>1. n \in Nat /\ frames \in Seq(FrameSet) /\ Len(frames) \in Nat
    BY DEF SortInv, FramesFit
  <2>2. CASE Len(frames) = 0
    BY <2>1, <2>2, Powers DEF Sort!DepthIsLogarithmic
  <2>3. CASE Len(frames) # 0
    <3> DEFINE L == Len(frames)
               P == Sort!Power2[L - 1]
               size == frames[L].hi - frames[L].lo + 2
    <3>1. L \in 1 .. L /\ L - 1 \in Nat /\ (L - 1) + 1 = L
      BY <2>1, <2>3
    <3>2. frames[L].lo \in Int /\ frames[L].hi \in Int
      <4>1. frames[L] \in FrameSet
        BY <2>1, <3>1
      <4> QED
        BY <4>1 DEF FrameSet
    <3>3. frames[L].lo <= frames[L].hi + 1 /\ P * size <= n + 1
      BY <3>1 DEF SortInv, FramesFit
    <3>4. P \in Nat /\ Sort!Power2[L] = 2 * P
      BY <3>1, Powers
    <3>5. size \in Int /\ 1 <= size
      BY <3>2, <3>3
    <3> HIDE DEF L, P, size
    <3>6. P * 1 <= n + 1
      <4>1. n + 1 \in Int
        BY <2>1
      <4> QED
        BY <3>3, <3>4, <3>5, <4>1, SmallerFits
    <3>7. 2 * P <= 2 * (n + 1)
      BY <2>1, <3>4, <3>6
    <3> QED
      BY <3>4, <3>7 DEF L, Sort!DepthIsLogarithmic
  <2> QED
    BY <2>2, <2>3
<1> QED
  BY <1>1, <1>2, <1>3

\* What one call has left to do.
Cost(f) == 2 * (f.hi - f.lo + 1) + 1
CostsUp(u, fs) == u[0] = 0 /\ \A k \in 1 .. Len(fs) : u[k] = u[k - 1] + Cost(fs[k])

LEMMA WorkIs ==
  ASSUME NEW fs \in Seq(FrameSet)
  PROVE  \E u \in [0 .. Len(fs) -> Int] : CostsUp(u, fs) /\ Sort!WorkOf(fs) = u[Len(fs)]
<1> DEFINE L == Len(fs)
           G == [k \in 0 + 1 .. L |-> [v \in Int |-> v + Cost(fs[k])]]
           Body(f) == [k \in 0 .. L |->
                         IF k = 0 THEN 0
                         ELSE f[k - 1] + 2 * (fs[k].hi - fs[k].lo + 1) + 1]
           chosen == CHOOSE f : f = Body(f)
<1>1. L \in Nat /\ 0 \in Int /\ 0 <= L
  OBVIOUS
<1>2. \A k \in 1 .. L : fs[k].hi \in Int /\ fs[k].lo \in Int /\ Cost(fs[k]) \in Int
  <2>1. \A k \in 1 .. L : fs[k] \in FrameSet
    OBVIOUS
  <2> QED
    BY <2>1 DEF FrameSet, Cost
<1>3. G \in [0 + 1 .. L -> [Int -> Int]]
  BY <1>2
<1>4. PICK w \in [0 .. L -> Int] : Turns(w, G, 0, 0, L)
  <2> DEFINE S == Int
             z == 0
  <2>1. G \in [z + 1 .. L -> [S -> S]] /\ z \in S /\ z \in Int /\ L \in Int /\ z <= L
    BY <1>1, <1>3
  <2> HIDE DEF G, L, S, z
  <2>2. \E w \in [z .. L -> S] : Turns(w, G, z, z, L)
    BY <2>1, TurnsExist
  <2> QED
    BY <2>2 DEF S, z
<1>5. w[0] = 0 /\ \A k \in 1 .. L : w[k] = G[k][w[k - 1]]
  BY <1>4 DEF Turns
<1>6. \A k \in 1 .. L : k - 1 \in 0 .. L /\ w[k - 1] \in Int /\ G[k][w[k - 1]] = w[k - 1] + Cost(fs[k])
  OBVIOUS
<1> HIDE DEF G
<1>7. CostsUp(w, fs)
  BY <1>5, <1>6 DEF CostsUp
<1>8. w = Body(w)
  <2>1. \A k \in 0 .. L :
          w[k] = IF k = 0 THEN 0 ELSE w[k - 1] + 2 * (fs[k].hi - fs[k].lo + 1) + 1
    <3> SUFFICES ASSUME NEW k \in 0 .. L, k # 0
                 PROVE  w[k] = w[k - 1] + 2 * (fs[k].hi - fs[k].lo + 1) + 1
      BY <1>5
    <3>1. k \in 1 .. L
      BY <1>1
    <3> QED
      BY <1>2, <1>5, <1>6, <3>1 DEF Cost
  <2> QED
    BY <2>1
<1>9. chosen = Body(chosen)
  <2> HIDE DEF Body
  <2> QED
    BY <1>8
<1>10. Sort!WorkOf(fs) = chosen[L]
  BY DEF Sort!WorkOf
<1> HIDE DEF chosen
<1> DEFINE U == {k \in 0 .. L : chosen[k] = w[k]}
<1>11. \A k \in 0 .. L : k \in U
  <2>1. \A k \in 0 .. L :
          chosen[k] = IF k = 0 THEN 0 ELSE chosen[k - 1] + 2 * (fs[k].hi - fs[k].lo + 1) + 1
    BY <1>9
  <2>2. \A k \in 0 .. L :
          w[k] = IF k = 0 THEN 0 ELSE w[k - 1] + 2 * (fs[k].hi - fs[k].lo + 1) + 1
    BY <1>8
  <2>3. 0 \in U
    BY <1>1, <2>1, <2>2
  <2>4. ASSUME NEW k \in 0 .. L - 1, k \in U
        PROVE  k + 1 \in U
    <3>1. k + 1 \in 0 .. L /\ k + 1 # 0 /\ (k + 1) - 1 = k /\ chosen[k] = w[k]
      BY <2>4
    <3>2. chosen[k + 1] = chosen[k] + 2 * (fs[k + 1].hi - fs[k + 1].lo + 1) + 1
      BY <2>1, <3>1
    <3>3. w[k + 1] = w[k] + 2 * (fs[k + 1].hi - fs[k + 1].lo + 1) + 1
      BY <2>2, <3>1
    <3> QED
      BY <3>1, <3>2, <3>3
  <2> HIDE DEF U, L
  <2> QED
    BY <1>1, <2>3, <2>4, IntervalInduction
<1>12. chosen[L] = w[L]
  <2>1. L \in 0 .. L
    BY <1>1
  <2> QED
    BY <1>11, <2>1
<1> QED
  BY <1>7, <1>10, <1>12

\* One call more is its cost more.
LEMMA WorkAppends ==
  ASSUME NEW C \in Seq(FrameSet), NEW fs \in Seq(FrameSet), Len(fs) = Len(C) + 1,
         \A k \in 1 .. Len(C) : fs[k] = C[k]
  PROVE  /\ Sort!WorkOf(C) \in Int
         /\ Sort!WorkOf(fs) = Sort!WorkOf(C) + Cost(fs[Len(fs)])
<1>1. PICK u \in [0 .. Len(C) -> Int] : CostsUp(u, C) /\ Sort!WorkOf(C) = u[Len(C)]
  BY WorkIs
<1>2. PICK w \in [0 .. Len(fs) -> Int] : CostsUp(w, fs) /\ Sort!WorkOf(fs) = w[Len(fs)]
  BY WorkIs
<1>3. Len(C) \in Nat /\ Len(C) \in 0 .. Len(C)
  OBVIOUS
<1> DEFINE T == {k \in 0 .. Len(C) : w[k] = u[k]}
<1>4. 0 \in T
  BY <1>1, <1>2, <1>3 DEF CostsUp
<1>5. ASSUME NEW k \in 0 .. Len(C) - 1, k \in T
      PROVE  k + 1 \in T
  <2>1. /\ k + 1 \in 1 .. Len(C) /\ k + 1 \in 1 .. Len(fs) /\ (k + 1) - 1 = k
        /\ k + 1 \in 0 .. Len(C) /\ fs[k + 1] = C[k + 1] /\ w[k] = u[k]
    BY <1>3, <1>5
  <2>2. u[k + 1] = u[k] + Cost(C[k + 1])
    BY <1>1, <2>1 DEF CostsUp
  <2>3. w[k + 1] = w[k] + Cost(fs[k + 1])
    BY <1>2, <2>1 DEF CostsUp
  <2> QED
    BY <2>1, <2>2, <2>3
<1>6. \A k \in 0 .. Len(C) : k \in T
  <2> HIDE DEF T
  <2> QED
    BY <1>3, <1>4, <1>5, IntervalInduction
<1>7. w[Len(C)] = u[Len(C)]
  BY <1>3, <1>6
<1>8. w[Len(fs)] = w[Len(C)] + Cost(fs[Len(fs)])
  <2>1. Len(fs) \in 1 .. Len(fs) /\ Len(fs) - 1 = Len(C)
    BY <1>3
  <2> QED
    BY <1>2, <2>1 DEF CostsUp
<1> QED
  BY <1>1, <1>2, <1>3, <1>7, <1>8

LEMMA StepShrinksWork ==
  ASSUME SortInv, Sort!Next
  PROVE  Sort!Work' < Sort!Work \/ UNCHANGED Sort!vars
<1> DEFINE C == Sort!Callers
           lo == Sort!Top.lo
           hi == Sort!Top.hi
<1>1. CASE Sort!Done
  BY <1>1 DEF Sort!Done
<1>2. ASSUME frames # << >>
      PROVE  /\ C \in Seq(FrameSet) /\ Sort!WorkOf(C) \in Int
             /\ Sort!Work = Sort!WorkOf(C) + 2 * (hi - lo + 1) + 1
             /\ lo \in Int /\ hi \in Int /\ lo <= hi + 1
  <2>1. /\ Len(frames) \in Nat \ {0} /\ Sort!Top = frames[Len(frames)]
        /\ lo \in Int /\ hi \in Int
        /\ C \in Seq(FrameSet) /\ Len(C) = Len(frames) - 1
        /\ \A k \in 1 .. Len(frames) - 1 : C[k] = frames[k]
    BY <1>2, TopFrame
  <2>2. frames \in Seq(FrameSet) /\ Len(frames) \in 1 .. Len(frames)
    BY <2>1 DEF SortInv, FramesFit
  <2>3. Sort!WorkOf(C) \in Int /\ Sort!WorkOf(frames) = Sort!WorkOf(C) + Cost(frames[Len(frames)])
    <3> HIDE DEF C
    <3>1. Len(frames) = Len(C) + 1 /\ \A k \in 1 .. Len(C) : frames[k] = C[k]
      BY <2>1
    <3> QED
      BY <2>1, <2>2, <3>1, WorkAppends
  <2>4. lo <= hi + 1
    BY <2>1, <2>2 DEF SortInv, FramesFit
  <2> HIDE DEF C
  <2> QED
    BY <2>1, <2>3, <2>4 DEF Sort!Work, Cost
<1>3. CASE Sort!ReturnFromEmpty \/ Sort!SortShort
  <2>1. frames # << >> /\ frames' = C
    BY <1>3 DEF Sort!ReturnFromEmpty, Sort!SortShort
  <2>2. Sort!Work' = Sort!WorkOf(C)
    BY <2>1 DEF Sort!Work, Sort!WorkOf
  <2> HIDE DEF C, lo, hi
  <2> QED
    BY <1>2, <2>1, <2>2
<1>4. CASE Sort!SortLong
  <2> DEFINE p == Sort!Partition(arr, lo, hi).p
  <2>1. frames # << >> /\ lo < hi /\ frames' = C \o Sort!SmallerFirst(lo, p, hi)
    BY <1>4 DEF Sort!SortLong
  <2>2. p \in lo .. hi
    <3>1. /\ lo \in Int /\ hi \in Int /\ 0 <= lo /\ hi <= Sort!N - 1
          /\ arr \in [0 .. Sort!N - 1 -> Int] /\ Sort!N \in Nat
      BY <2>1, TopFrame DEF SortInv
    <3>2. 0 .. Sort!N - 1 \subseteq Int /\ lo .. hi \subseteq 0 .. Sort!N - 1 /\ lo <= hi
      BY <2>1, <3>1
    <3> HIDE DEF lo, hi
    <3> QED
      BY <3>1, <3>2, PartitionParts
  <2> HIDE DEF p
  <2>3. PICK A \in FrameSet, B \in FrameSet :
          /\ Sort!SmallerFirst(lo, p, hi) = <<A, B>>
          /\ \/ A.lo = lo /\ A.hi = p - 1 /\ B.lo = p + 1 /\ B.hi = hi
             \/ B.lo = lo /\ B.hi = p - 1 /\ A.lo = p + 1 /\ A.hi = hi
          /\ 2 * (B.hi - B.lo + 2) <= hi - lo + 2
    <3>1. lo \in Int /\ hi \in Int
      BY <1>2, <2>1
    <3> HIDE DEF lo, hi
    <3> QED
      BY <2>2, <3>1, PartsOfRange
  <2>4. frames' = Append(Append(C, A), B)
    BY <2>1, <2>2, <2>3, SplitFrames
  <2>5. C \in Seq(FrameSet)
    BY <1>2, <2>1
  <2> HIDE DEF C
  <2>6. Sort!WorkOf(Append(C, A)) = Sort!WorkOf(C) + Cost(A) /\ Sort!WorkOf(C) \in Int
    <3> DEFINE E == Append(C, A)
    <3>1. /\ E \in Seq(FrameSet) /\ Len(E) = Len(C) + 1 /\ E[Len(E)] = A
          /\ \A k \in 1 .. Len(C) : E[k] = C[k]
      BY <2>5
    <3> HIDE DEF E
    <3>2. Sort!WorkOf(E) = Sort!WorkOf(C) + Cost(E[Len(E)]) /\ Sort!WorkOf(C) \in Int
      BY <2>5, <3>1, WorkAppends
    <3> QED
      BY <3>1, <3>2 DEF E
  <2>7. Sort!WorkOf(Append(Append(C, A), B)) = Sort!WorkOf(Append(C, A)) + Cost(B)
    <3> DEFINE E == Append(C, A)
               H == Append(E, B)
    <3>1. E \in Seq(FrameSet)
      BY <2>5
    <3> HIDE DEF E
    <3>2. /\ H \in Seq(FrameSet) /\ Len(H) = Len(E) + 1 /\ H[Len(H)] = B
          /\ \A k \in 1 .. Len(E) : H[k] = E[k]
      BY <3>1
    <3> HIDE DEF H
    <3>3. Sort!WorkOf(H) = Sort!WorkOf(E) + Cost(H[Len(H)])
      BY <3>1, <3>2, WorkAppends
    <3> QED
      BY <3>2, <3>3 DEF H, E
  <2>8. Sort!Work' = Sort!WorkOf(Append(Append(C, A), B))
    BY <2>4 DEF Sort!Work, Sort!WorkOf
  <2>9. Cost(A) + Cost(B) = 2 * (hi - lo) + 2 /\ Cost(A) \in Int /\ Cost(B) \in Int
    <3>1. lo \in Int /\ hi \in Int /\ p \in Int
      BY <1>2, <2>1, <2>2
    <3>2. CASE A.lo = lo /\ A.hi = p - 1 /\ B.lo = p + 1 /\ B.hi = hi
      BY <3>1, <3>2 DEF Cost
    <3>3. CASE B.lo = lo /\ B.hi = p - 1 /\ A.lo = p + 1 /\ A.hi = hi
      BY <3>1, <3>3 DEF Cost
    <3> QED
      BY <2>3, <3>2, <3>3
  <2>10. Sort!Work = Sort!WorkOf(C) + 2 * (hi - lo + 1) + 1 /\ lo \in Int /\ hi \in Int
    BY <1>2, <2>1
  <2> HIDE DEF lo, hi
  <2> QED
    BY <2>6, <2>7, <2>8, <2>9, <2>10
<1> QED
  BY <1>1, <1>3, <1>4 DEF Sort!Next

\* Sorting does what it promises, for arrays of any length and any integers: at every
\* moment the array holds the elements it was given, each as often; what is in no range
\* that waits is where it stays; the recursion is logarithmic; and every step leaves less
\* to do, so that it ends, with the array in order.
THEOREM SortSettlesHolds == Sort!Spec => SortSettles
<1>1. SortInv /\ [Sort!Next]_(Sort!vars) => [Sort!Work' < Sort!Work]_(Sort!vars)
  BY StepShrinksWork
<1> QED
  BY SortInit, SortStep, SortSafe, <1>1, PTL DEF Sort!Spec, SortSettles, Sort!WorkShrinks
=============================================================================
