-------------------------- MODULE StdHashMapProofs --------------------------
(***************************************************************************)
(* Proofs about StdHashMap, for all keys, values, hash functions and       *)
(* capacities, with or without failing allocations.                        *)
(***************************************************************************)
EXTENDS StdHashMap, CommonLemmas, FiniteSetTheorems, FunctionTheorems

-----------------------------------------------------------------------------
(***************************************************************************)
(* What one table must satisfy for _HMSlot to work in it.                  *)
(***************************************************************************)
StateNames == {"EMPTY", "DEL", "FULL"}

ArraysTyped ==
  /\ cap \in Nat
  /\ keys \in [Slots(cap) -> Keys \union {NoKey}]
  /\ vals \in [Slots(cap) -> Values \union {NoValue}]
  /\ state \in [Slots(cap) -> StateNames]

KeysWritten == \A s \in Slots(cap) : state[s] = "FULL" => keys[s] \in Keys

\* The slots a scan for k meets before its d-th are in use or were.
OpenUpTo(k, d) == \A i \in Slots(d) : state[Probe(k, i)] # "EMPTY"

\* Between the slot a key hashes to and the slot it is in, no slot is EMPTY.
Chained ==
  \A s \in Slots(cap) : state[s] = "FULL" =>
    \E d \in Slots(cap) : Probe(keys[s], d) = s /\ OpenUpTo(keys[s], d)

\* No key is in two slots.
OneSlotPerKey ==
  \A s, t \in Slots(cap) :
    state[s] = "FULL" /\ state[t] = "FULL" /\ keys[s] = keys[t] => s = t

TableInv == ArraysTyped /\ KeysWritten /\ Chained /\ OneSlotPerKey

\* A scan stays within the table.
LEMMA ProbeInTable ==
  ASSUME cap \in Nat \ {0}, NEW k \in Keys, NEW j \in Nat
  PROVE  Probe(k, j) \in Slots(cap)
<1>1. Hash[k] + j \in Nat
  BY KeysAssumption
<1>2. (Hash[k] + j) % cap \in 0 .. cap - 1
  BY <1>1
<1>3. QED
  BY <1>2 DEF Probe, Slots

\* The first stop and the first tombstone are what their names say.
LEMMA FirstStopIsFirst ==
  ASSUME cap \in Nat, NEW k \in Keys, Stops(k) # {}
  PROVE  FirstStop(k) \in Stops(k) /\ \A i \in Stops(k) : FirstStop(k) <= i
<1>1. Stops(k) \subseteq Nat
  BY DEF Stops, Slots
<1>2. \E m \in Stops(k) : \A i \in Stops(k) : m <= i
  BY <1>1, LeastExists
<1>3. QED
  BY <1>2 DEF FirstStop

LEMMA FirstPassedIsFirst ==
  ASSUME cap \in Nat, NEW k \in Keys, Passed(k) # {}
  PROVE  FirstPassed(k) \in Passed(k) /\ \A i \in Passed(k) : FirstPassed(k) <= i
<1>1. Passed(k) \subseteq Nat
  BY DEF Passed, Slots
<1>2. \E m \in Passed(k) : \A i \in Passed(k) : m <= i
  BY <1>1, LeastExists
<1>3. QED
  BY <1>2 DEF FirstPassed

\* _HMSlot returns a slot of the scan; when that slot does not hold the key, the
\* scan met no EMPTY slot before it.
LEMMA SlotIsOnTheScan ==
  ASSUME ArraysTyped, cap > 0, NEW k \in Keys
  PROVE  \E d \in Slots(cap) : /\ HMSlot(k) = Probe(k, d)
                               /\ ~ KeyFound(k) => OpenUpTo(k, d)
<1>0. cap \in Nat \ {0}
  BY DEF ArraysTyped
<1>1. CASE KeyFound(k)
  <2>1. FirstStop(k) \in Slots(cap)
    BY <1>0, <1>1, FirstStopIsFirst DEF KeyFound, Stops
  <2>2. HMSlot(k) = Probe(k, FirstStop(k))
    BY <1>1 DEF HMSlot
  <2>3. QED
    BY <1>1, <2>1, <2>2
<1>2. CASE ~ KeyFound(k) /\ Passed(k) # {}
  <2>1. FirstPassed(k) \in Passed(k)
    BY <1>0, <1>2, FirstPassedIsFirst
  <2>2. FirstPassed(k) \in Slots(cap)
    BY <2>1 DEF Passed
  <2>3. HMSlot(k) = Probe(k, FirstPassed(k))
    BY <1>2 DEF HMSlot
  <2>4. OpenUpTo(k, FirstPassed(k))
    <3> SUFFICES ASSUME NEW i \in Slots(FirstPassed(k)),
                        state[Probe(k, i)] = "EMPTY"
                 PROVE  FALSE
      BY DEF OpenUpTo
    <3>1. i \in Slots(cap) /\ i < FirstPassed(k)
      BY <1>0, <2>2 DEF Slots
    <3>2. i \in Stops(k)
      BY <3>1 DEF Stops
    <3>3. FirstPassed(k) < i
      BY <2>1, <3>2 DEF Passed
    <3>4. QED
      BY <1>0, <2>2, <3>1, <3>3 DEF Slots
  <2>5. QED
    BY <2>2, <2>3, <2>4
<1>3. CASE ~ KeyFound(k) /\ Passed(k) = {} /\ Stops(k) # {}
  <2>1. FirstStop(k) \in Slots(cap) /\ \A i \in Stops(k) : FirstStop(k) <= i
    BY <1>0, <1>3, FirstStopIsFirst DEF Stops
  <2>2. HMSlot(k) = Probe(k, FirstStop(k))
    BY <1>3 DEF HMSlot
  <2>3. OpenUpTo(k, FirstStop(k))
    <3> SUFFICES ASSUME NEW i \in Slots(FirstStop(k)),
                        state[Probe(k, i)] = "EMPTY"
                 PROVE  FALSE
      BY DEF OpenUpTo
    <3>1. i \in Slots(cap) /\ i < FirstStop(k)
      BY <1>0, <2>1 DEF Slots
    <3>2. i \in Stops(k)
      BY <3>1 DEF Stops
    <3>3. QED
      BY <1>0, <2>1, <3>1, <3>2 DEF Slots
  <2>4. QED
    BY <2>1, <2>2, <2>3
<1>4. CASE ~ KeyFound(k) /\ Passed(k) = {} /\ Stops(k) = {}
  <2>1. HMSlot(k) = Probe(k, 0) /\ 0 \in Slots(cap)
    BY <1>0, <1>4 DEF HMSlot, Slots
  <2>2. OpenUpTo(k, 0)
    BY DEF OpenUpTo, Slots
  <2>3. QED
    BY <2>1, <2>2
<1>5. QED
  BY <1>1, <1>2, <1>3, <1>4

\* A key that is in the table is found, and in its slot.
LEMMA StoredKeyIsFound ==
  ASSUME TableInv, NEW s \in Slots(cap), state[s] = "FULL"
  PROVE  KeyFound(keys[s]) /\ HMSlot(keys[s]) = s
<1> DEFINE k == keys[s]
<1>0. cap \in Nat \ {0} /\ k \in Keys
  BY DEF TableInv, ArraysTyped, KeysWritten, Slots
<1>1. PICK d \in Slots(cap) : Probe(k, d) = s /\ OpenUpTo(k, d)
  BY DEF TableInv, Chained
<1>2. d \in Stops(k)
  BY <1>1 DEF Stops, Holds
<1> DEFINE f == FirstStop(k)
<1>3. f \in Stops(k) /\ f <= d
  BY <1>0, <1>2, FirstStopIsFirst
<1>4. f \in Slots(cap) /\ Probe(k, f) \in Slots(cap)
  BY <1>0, <1>3, ProbeInTable DEF Stops, Slots
<1>5. state[Probe(k, f)] # "EMPTY"
  <2>1. CASE f = d
    BY <2>1, <1>1
  <2>2. CASE f # d
    <3>1. f \in Slots(d)
      BY <2>2, <1>0, <1>1, <1>3, <1>4 DEF Slots
    <3>2. QED
      BY <3>1, <1>1 DEF OpenUpTo
  <2>3. QED
    BY <2>1, <2>2
<1>6. Holds(Probe(k, f), k)
  BY <1>3, <1>5 DEF Stops
<1>7. Probe(k, f) = s
  BY <1>4, <1>6 DEF TableInv, OneSlotPerKey, Holds
<1>8. KeyFound(k)
  BY <1>2, <1>6 DEF KeyFound
<1>9. HMSlot(k) = s
  BY <1>7, <1>8 DEF HMSlot
<1>10. QED
  BY <1>8, <1>9

-----------------------------------------------------------------------------
(***************************************************************************)
(* The steps of the table keep TableInv.                                   *)
(***************************************************************************)
\* A table fresh from MAlloc and CAlloc.
LEMMA FreshTable ==
  ASSUME NEW n \in Nat, SetTable(n)
  PROVE  TableInv' /\ cap' = n /\ cnt' = 0 /\ dcnt' = 0
<1>1. ArraysTyped'
  BY DEF SetTable, ArraysTyped, StateNames
<1>2. \A s \in Slots(cap') : state'[s] # "FULL"
  BY DEF SetTable
<1>3. QED
  BY <1>1, <1>2 DEF SetTable, TableInv, KeysWritten, Chained, OneSlotPerKey

\* A scan that was open stays open when the same slots are EMPTY or fewer.
LEMMA StaysOpen ==
  ASSUME cap \in Nat \ {0}, cap' = cap, NEW k \in Keys, NEW d \in Slots(cap),
         \A t \in Slots(cap) : state'[t] = "EMPTY" => state[t] = "EMPTY",
         OpenUpTo(k, d)
  PROVE  OpenUpTo(k, d)'
<1>1. \A i \in Slots(d) : Probe(k, i) \in Slots(cap)
  BY ProbeInTable DEF Slots
<1>2. \A i \in Slots(d) : Probe(k, i)' = Probe(k, i)
  BY DEF Probe
<1>3. QED
  BY <1>1, <1>2 DEF OpenUpTo

\* Storing a key that is in no slot at the end of its scan.
LEMMA InsertKeepsTable ==
  ASSUME TableInv, cap > 0, NEW k \in Keys, NEW v \in Values \union {NoValue},
         state[HMSlot(k)] # "FULL", Insert(HMSlot(k), k, v)
  PROVE  TableInv' /\ cap' = cap
<1> DEFINE m == HMSlot(k)
<1>0. cap \in Nat \ {0} /\ cap' = cap
  BY DEF TableInv, ArraysTyped, Insert
<1>1. ~ KeyFound(k)
  BY DEF KeyFound, HMSlot, Holds
<1>2. PICK d \in Slots(cap) : m = Probe(k, d) /\ OpenUpTo(k, d)
  BY <1>1, SlotIsOnTheScan DEF TableInv
<1>3. m \in Slots(cap)
  BY <1>0, <1>2, ProbeInTable DEF Slots
<1>4. \A s \in Slots(cap) : state[s] = "FULL" => keys[s] # k
  BY <1>1, StoredKeyIsFound
<1>5. /\ keys' = [keys EXCEPT ![m] = k]
      /\ vals' = [vals EXCEPT ![m] = v]
      /\ state' = [state EXCEPT ![m] = "FULL"]
  BY DEF Insert
<1>6. ArraysTyped'
  BY <1>0, <1>3, <1>5 DEF TableInv, ArraysTyped, StateNames, Slots
<1>7. /\ state'[m] = "FULL" /\ keys'[m] = k
      /\ \A s \in Slots(cap) : s # m => state'[s] = state[s] /\ keys'[s] = keys[s]
  BY <1>3, <1>5 DEF TableInv, ArraysTyped
<1>8. \A s \in Slots(cap) : state'[s] = "EMPTY" => state[s] = "EMPTY"
  BY <1>7
<1>9. KeysWritten'
  BY <1>0, <1>7 DEF TableInv, KeysWritten, Slots
<1>10. OneSlotPerKey'
  <2> SUFFICES ASSUME NEW s \in Slots(cap), NEW t \in Slots(cap),
                      state'[s] = "FULL", state'[t] = "FULL", keys'[s] = keys'[t]
               PROVE  s = t
    BY <1>0 DEF OneSlotPerKey, Slots
  <2>1. CASE s = m /\ t # m
    BY <2>1, <1>4, <1>7
  <2>2. CASE s # m /\ t = m
    BY <2>2, <1>4, <1>7
  <2>3. CASE s # m /\ t # m
    BY <2>3, <1>7 DEF TableInv, OneSlotPerKey
  <2>4. QED
    BY <2>1, <2>2, <2>3
<1>11. Chained'
  <2> SUFFICES ASSUME NEW s \in Slots(cap), state'[s] = "FULL"
               PROVE  \E e \in Slots(cap) :
                        (Probe(keys[s], e) = s /\ OpenUpTo(keys[s], e))'
    BY <1>0 DEF Chained, Slots
  <2>1. CASE s = m
    <3>1. OpenUpTo(k, d)'
      BY <1>0, <1>2, <1>8, StaysOpen
    <3>2. Probe(k, d)' = m
      BY <1>0, <1>2 DEF Probe
    <3>3. QED
      BY <2>1, <3>1, <3>2, <1>7 DEF OpenUpTo, Probe
  <2>2. CASE s # m
    <3>1. state[s] = "FULL" /\ keys'[s] = keys[s]
      BY <2>2, <1>7
    <3>2. PICK e \in Slots(cap) : Probe(keys[s], e) = s /\ OpenUpTo(keys[s], e)
      BY <3>1 DEF TableInv, Chained
    <3>3. keys[s] \in Keys
      BY <3>1 DEF TableInv, KeysWritten
    <3>4. PICK x \in Keys : x = keys[s] /\ x = keys'[s]
      BY <3>1, <3>3
    <3>5. OpenUpTo(x, e)
      BY <3>2, <3>4
    <3>6. OpenUpTo(x, e)'
      BY <1>0, <1>8, <3>5, StaysOpen
    <3>7. Probe(x, e)' = s
      BY <1>0, <3>2, <3>4 DEF Probe
    <3>8. QED
      BY <3>4, <3>6, <3>7 DEF OpenUpTo, Probe
  <2>3. QED
    BY <2>1, <2>2
<1>12. QED
  BY <1>0, <1>6, <1>9, <1>10, <1>11 DEF TableInv

\* The end of HashMapSet, whichever slot it found.
LEMMA PlaceKeepsTable ==
  ASSUME TableInv, cap > 0, NEW k \in Keys, NEW v \in Values \union {NoValue},
         Place(k, v)
  PROVE  TableInv' /\ cap' = cap
<1>1. CASE state[HMSlot(k)] = "FULL"
  <2>1. /\ vals' = [vals EXCEPT ![HMSlot(k)] = v]
        /\ keys' = keys /\ state' = state /\ cap' = cap
    BY <1>1 DEF Place
  <2>2. vals' \in [Slots(cap) -> Values \union {NoValue}]
    BY <2>1 DEF TableInv, ArraysTyped
  <2>3. QED
    BY <2>1, <2>2 DEF TableInv, ArraysTyped, KeysWritten, Chained, OneSlotPerKey,
                      OpenUpTo, Probe
<1>2. CASE state[HMSlot(k)] # "FULL"
  <2>1. Insert(HMSlot(k), k, v)
    BY <1>2 DEF Place
  <2>2. QED
    BY <1>2, <2>1, InsertKeepsTable
<1>3. QED
  BY <1>1, <1>2

\* A tombstone takes the place of an entry.
LEMMA BuryKeepsTable ==
  ASSUME TableInv, NEW m \in Slots(cap), Bury(m)
  PROVE  TableInv' /\ cap' = cap
<1>0. cap \in Nat \ {0} /\ cap' = cap /\ vals' = vals
  BY DEF TableInv, ArraysTyped, Bury, Slots
<1>1. /\ keys' = [keys EXCEPT ![m] = NoKey]
      /\ state' = [state EXCEPT ![m] = "DEL"]
  BY DEF Bury
<1>2. ArraysTyped'
  BY <1>0, <1>1 DEF TableInv, ArraysTyped, StateNames, Slots
<1>3. /\ state'[m] = "DEL"
      /\ \A s \in Slots(cap) : s # m => state'[s] = state[s] /\ keys'[s] = keys[s]
  BY <1>1 DEF TableInv, ArraysTyped
<1>4. \A s \in Slots(cap) : state'[s] = "EMPTY" => state[s] = "EMPTY"
  BY <1>3
<1>5. \A s \in Slots(cap) : state'[s] = "FULL" =>
        s # m /\ state[s] = "FULL" /\ keys'[s] = keys[s]
  BY <1>3
<1>6. KeysWritten' /\ OneSlotPerKey'
  BY <1>0, <1>5 DEF TableInv, KeysWritten, OneSlotPerKey, Slots
<1>7. Chained'
  <2> SUFFICES ASSUME NEW s \in Slots(cap), state'[s] = "FULL"
               PROVE  \E e \in Slots(cap) :
                        (Probe(keys[s], e) = s /\ OpenUpTo(keys[s], e))'
    BY <1>0 DEF Chained, Slots
  <2>1. state[s] = "FULL" /\ keys'[s] = keys[s]
    BY <1>5
  <2>2. PICK e \in Slots(cap) : Probe(keys[s], e) = s /\ OpenUpTo(keys[s], e)
    BY <2>1 DEF TableInv, Chained
  <2>3. keys[s] \in Keys
    BY <2>1 DEF TableInv, KeysWritten
  <2>4. PICK x \in Keys : x = keys[s] /\ x = keys'[s]
    BY <2>1, <2>3
  <2>5. OpenUpTo(x, e)
    BY <2>2, <2>4
  <2>6. OpenUpTo(x, e)'
    BY <1>0, <1>4, <2>5, StaysOpen
  <2>7. Probe(x, e)' = s
    BY <1>0, <2>2, <2>4 DEF Probe
  <2>8. QED
    BY <2>4, <2>6, <2>7 DEF OpenUpTo, Probe
<1>8. QED
  BY <1>0, <1>2, <1>6, <1>7 DEF TableInv

-----------------------------------------------------------------------------
(***************************************************************************)
(* The invariant of the map.                                               *)
(***************************************************************************)
\* The arrays HashMapRehash empties were those of a table.
OldTyped ==
  \A s \in OldSlots : old.state[s] = "FULL" =>
    old.keys[s] \in Keys /\ old.vals[s] \in Values \union {NoValue}

\* A HashMapSet that waits for a rehash has arguments, and a table to go to.
PendingTyped ==
  phase = "rehash" =>
    cap > 0 /\ pending[1] \in Keys /\ pending[2] \in Values

ScalarsTyped ==
  /\ cnt \in Int /\ dcnt \in Int /\ next \in Nat
  /\ phase \in {"none", "ready", "rehash", "crashed"}

MapInv == TableInv /\ OldTyped /\ PendingTyped /\ ScalarsTyped

\* The counters stay integers when a slot is filled or given up.
LEMMA PlaceKeepsCounters ==
  ASSUME ScalarsTyped, NEW k, NEW v, Place(k, v)
  PROVE  cnt' \in Int /\ dcnt' \in Int
BY DEF Place, Insert, ScalarsTyped

\* Before HashMapInit the arrays are empty.
LEMMA InitEstablishes == Init => MapInv
<1> SUFFICES ASSUME Init PROVE MapInv
  OBVIOUS
<1>1. Slots(cap) = {} /\ cap = 0 /\ Slots(0) = {}
  BY DEF Init, Slots
<1>2. ArraysTyped
  BY <1>1 DEF Init, ArraysTyped, Freed
<1>3. TableInv
  BY <1>1, <1>2 DEF TableInv, KeysWritten, Chained, OneSlotPerKey
<1>4. OldTyped
  BY <1>1 DEF Init, OldTyped, OldSlots, Freed
<1>5. PendingTyped /\ ScalarsTyped
  BY DEF Init, PendingTyped, ScalarsTyped
<1>6. QED
  BY <1>3, <1>4, <1>5 DEF MapInv

\* Every step of the map keeps the invariant.
LEMMA StepPreserves == MapInv /\ [Next]_vars => MapInv'
<1> SUFFICES ASSUME MapInv, [Next]_vars PROVE MapInv'
  OBVIOUS
<1> USE DEF MapInv
<1>1. CASE HashMapInit
  <2>1. TableInv' /\ cnt' = 0 /\ dcnt' = 0
    BY <1>1, FreshTable, CapAssumption DEF HashMapInit
  <2>2. OldTyped' /\ PendingTyped' /\ ScalarsTyped'
    BY <1>1, <2>1 DEF HashMapInit, copying, OldTyped, OldSlots, PendingTyped,
                      ScalarsTyped
  <2>3. QED
    BY <2>1, <2>2
<1>2. CASE HashMapFree
  <2>1. TableInv' /\ cnt' = 0 /\ dcnt' = 0
    BY <1>2, FreshTable DEF HashMapFree
  <2>2. OldTyped' /\ PendingTyped' /\ ScalarsTyped'
    BY <1>2, <2>1 DEF HashMapFree, copying, OldTyped, OldSlots, PendingTyped,
                      ScalarsTyped
  <2>3. QED
    BY <2>1, <2>2
<1>3. ASSUME NEW k \in Keys, NEW v \in Values, SetInPlace(k, v)
      PROVE  MapInv'
  <2>1. TableInv' /\ cap' = cap /\ cnt' \in Int /\ dcnt' \in Int
    BY <1>3, PlaceKeepsTable, PlaceKeepsCounters DEF SetInPlace
  <2>2. OldTyped' /\ PendingTyped' /\ ScalarsTyped'
    BY <1>3, <2>1 DEF SetInPlace, copying, OldTyped, OldSlots, PendingTyped,
                      ScalarsTyped
  <2>3. QED
    BY <2>1, <2>2
<1>4. ASSUME NEW k \in Keys, NEW v \in Values, StartRehash(k, v)
      PROVE  MapInv'
  <2>0. cap \in Nat \ {0} /\ cap * 2 \in Nat \ {0}
    BY <1>4 DEF StartRehash, TableInv, ArraysTyped
  <2>1. TableInv' /\ cap' = cap * 2 /\ cnt' = 0 /\ dcnt' = 0
    BY <1>4, <2>0, FreshTable DEF StartRehash
  <2>2. old' = [keys |-> keys, vals |-> vals, state |-> state]
    BY <1>4 DEF StartRehash
  <2>3. OldSlots' = Slots(cap)
    BY <2>2 DEF OldSlots, TableInv, ArraysTyped
  <2>4. OldTyped'
    BY <2>2, <2>3 DEF OldTyped, TableInv, ArraysTyped, KeysWritten
  <2>5. PendingTyped'
    BY <1>4, <2>0, <2>1 DEF StartRehash, PendingTyped
  <2>6. ScalarsTyped'
    BY <1>4, <2>1 DEF StartRehash, ScalarsTyped
  <2>7. QED
    BY <2>1, <2>4, <2>5, <2>6
<1>5. ASSUME NEW k \in Keys, NEW v \in Values, FailRehash(k, v)
      PROVE  MapInv'
  <2>1. TableInv' /\ cnt' = 0 /\ dcnt' = 0
    BY <1>5, FreshTable DEF FailRehash
  <2>2. OldTyped' /\ PendingTyped' /\ ScalarsTyped'
    BY <1>5, <2>1 DEF FailRehash, copying, OldTyped, OldSlots, PendingTyped,
                      ScalarsTyped
  <2>3. QED
    BY <2>1, <2>2
<1>6. CASE CopySlot
  <2>0. cap > 0 /\ next \in Nat
    BY <1>6 DEF CopySlot, PendingTyped, ScalarsTyped
  <2>1. CASE old.state[next] = "FULL"
    <3>1. /\ old.keys[next] \in Keys
          /\ old.vals[next] \in Values \union {NoValue}
      BY <1>6, <2>1 DEF CopySlot, OldTyped
    <3>2. Place(old.keys[next], old.vals[next])
      BY <1>6, <2>1 DEF CopySlot
    <3>3. TableInv' /\ cap' = cap /\ cnt' \in Int /\ dcnt' \in Int
      BY <2>0, <3>1, <3>2, PlaceKeepsTable, PlaceKeepsCounters
    <3>4. OldTyped' /\ PendingTyped' /\ ScalarsTyped'
      BY <1>6, <2>0, <3>3 DEF CopySlot, OldTyped, OldSlots, PendingTyped,
                                    ScalarsTyped
    <3>5. QED
      BY <3>3, <3>4
  <2>2. CASE old.state[next] # "FULL"
    <3>1. /\ keys' = keys /\ vals' = vals /\ state' = state
          /\ cap' = cap /\ cnt' = cnt /\ dcnt' = dcnt
      BY <1>6, <2>2 DEF CopySlot, table
    <3>2. TableInv'
      BY <3>1 DEF TableInv, ArraysTyped, KeysWritten, Chained, OneSlotPerKey,
                  OpenUpTo, Probe
    <3>3. OldTyped' /\ PendingTyped' /\ ScalarsTyped'
      BY <1>6, <2>0, <3>1 DEF CopySlot, OldTyped, OldSlots, PendingTyped, ScalarsTyped
    <3>4. QED
      BY <3>2, <3>3
  <2>3. QED
    BY <2>1, <2>2
<1>7. CASE FinishRehash
  <2>1. cap > 0 /\ pending[1] \in Keys /\ pending[2] \in Values
    BY <1>7 DEF FinishRehash, PendingTyped
  <2>2. TableInv' /\ cap' = cap /\ cnt' \in Int /\ dcnt' \in Int
    BY <1>7, <2>1, PlaceKeepsTable, PlaceKeepsCounters DEF FinishRehash
  <2>3. OldSlots' = {}
    BY <1>7 DEF FinishRehash, OldSlots, Freed, Slots
  <2>4. OldTyped' /\ PendingTyped' /\ ScalarsTyped'
    BY <1>7, <2>2, <2>3 DEF FinishRehash, OldTyped, PendingTyped, ScalarsTyped
  <2>5. QED
    BY <2>2, <2>4
<1>8. ASSUME NEW k \in Keys, HashMapDel(k)
      PROVE  MapInv'
  <2>0. cap \in Nat \ {0}
    BY <1>8 DEF HashMapDel, TableInv, ArraysTyped
  <2>1. CASE state[HMSlot(k)] = "FULL"
    <3>1. PICK d \in Slots(cap) : HMSlot(k) = Probe(k, d)
      BY <2>0, SlotIsOnTheScan DEF TableInv
    <3>2. HMSlot(k) \in Slots(cap)
      BY <2>0, <3>1, ProbeInTable DEF Slots
    <3>3. Bury(HMSlot(k))
      BY <1>8, <2>1 DEF HashMapDel
    <3>4. TableInv' /\ cap' = cap
      BY <3>2, <3>3, BuryKeepsTable
    <3>5. cnt' \in Int /\ dcnt' \in Int
      BY <3>3 DEF Bury, ScalarsTyped
    <3>6. OldTyped' /\ PendingTyped' /\ ScalarsTyped'
      BY <1>8, <3>4, <3>5 DEF HashMapDel, copying, OldTyped, OldSlots, PendingTyped,
                              ScalarsTyped
    <3>7. QED
      BY <3>4, <3>6
  <2>2. CASE state[HMSlot(k)] # "FULL"
    <3>1. UNCHANGED <<table, phase, copying>>
      BY <1>8, <2>2 DEF HashMapDel
    <3>2. QED
      BY <3>1 DEF table, copying, TableInv, ArraysTyped, KeysWritten, Chained,
                  OneSlotPerKey, OpenUpTo, Probe, OldTyped, OldSlots, PendingTyped,
                  ScalarsTyped
  <2>3. QED
    BY <2>1, <2>2
<1>9. ASSUME \/ \E k \in Keys : HashMapGet(k)
             \/ HashMapCount
             \/ UseWithoutTable
             \/ UNCHANGED vars
      PROVE  MapInv'
  <2>1. /\ UNCHANGED <<table, copying>>
        /\ phase' = phase \/ phase' = "crashed"
    BY <1>9 DEF HashMapGet, HashMapCount, UseWithoutTable, Crash, vars, table, copying
  <2>2. TableInv'
    BY <2>1 DEF table, TableInv, ArraysTyped, KeysWritten, Chained, OneSlotPerKey,
                OpenUpTo, Probe
  <2>3. OldTyped' /\ PendingTyped' /\ ScalarsTyped'
    BY <2>1 DEF table, copying, OldTyped, OldSlots, PendingTyped, ScalarsTyped
  <2>4. QED
    BY <2>2, <2>3
<1>10. QED
  BY <1>1, <1>2, <1>3, <1>4, <1>5, <1>6, <1>7, <1>8, <1>9 DEF Next

\* MapInv holds in every state the map can reach.
THEOREM MapInvariant == Spec => []MapInv
<1>1. Init => MapInv
  BY InitEstablishes
<1>2. MapInv /\ [Next]_vars => MapInv'
  BY StepPreserves
<1>3. QED
  BY <1>1, <1>2, PTL DEF Spec

\* The arrays always have cap slots and hold keys, values and slot states.
THEOREM MapTypeCorrectness == Spec => []TypeOK
<1>1. MapInv => TypeOK
  BY DEF MapInv, TableInv, ArraysTyped, ScalarsTyped, StateNames, TypeOK
<1>2. QED
  BY <1>1, MapInvariant, PTL

\* _HMSlot finds every key that is in the table, for any keys, any hash function,
\* any capacities and any order of insertions, deletions and rehashes.
THEOREM StoredKeysAreFoundHolds == Spec => []StoredKeysAreFound
<1>1. MapInv => StoredKeysAreFound
  BY StoredKeyIsFound DEF MapInv, StoredKeysAreFound, WithState
<1>2. QED
  BY <1>1, MapInvariant, PTL
-----------------------------------------------------------------------------
(***************************************************************************)
(* The counters.  They are the sizes of two sets of slots; a table that    *)
(* may grow is at most three quarters full between calls, and a rehash     *)
(* stores no more entries than were in the table it empties.               *)
(***************************************************************************)
Copied == {s \in OldSlots : s < next /\ old.state[s] = "FULL"}
ToCopy == {s \in OldSlots : old.state[s] = "FULL"}

ReadyRoom == phase = "ready" /\ cap * 2 <= MaxCap => (cnt + dcnt) * 4 <= cap * 3

RehashRoom ==
  phase = "rehash" =>
    /\ \E c \in Nat \ {0} : /\ OldSlots = Slots(c) /\ cap = c * 2
                            /\ Cardinality(ToCopy) * 4 <= c * 3
    /\ cnt + dcnt <= Cardinality(Copied)

CounterInv == MapInv /\ CountsAgree /\ ReadyRoom /\ RehashRoom

\* A set of slots is finite.
LEMMA SlotsAreFinite ==
  ASSUME NEW n \in Nat, NEW S, S \subseteq Slots(n)
  PROVE  IsFiniteSet(S) /\ Cardinality(S) \in Nat
<1>1. IsFiniteSet(Slots(n))
  BY FS_Interval DEF Slots
<1>2. IsFiniteSet(S)
  BY <1>1, FS_Subset
<1> QED
  BY <1>2, FS_CardinalityType

\* The counters of a table fresh from CAlloc.
LEMMA FreshCounts ==
  ASSUME NEW n \in Nat, SetTable(n)
  PROVE  CountsAgree'
<1>1. WithState("FULL")' = {} /\ WithState("DEL")' = {}
  BY DEF SetTable, WithState
<1>2. cnt' = 0 /\ dcnt' = 0
  BY DEF SetTable
<1> QED
  BY <1>1, <1>2, FS_EmptySet DEF CountsAgree

\* Filling a slot counts it, and a tombstone in it no longer.
LEMMA InsertCounts ==
  ASSUME TableInv, CountsAgree, NEW m \in Slots(cap), NEW k, NEW v,
         state[m] # "FULL", Insert(m, k, v)
  PROVE  CountsAgree' /\ cnt' + dcnt' <= cnt + dcnt + 1
<1> DEFINE F == WithState("FULL")
           D == WithState("DEL")
<1>0. /\ IsFiniteSet(F) /\ Cardinality(F) \in Nat
      /\ IsFiniteSet(D) /\ Cardinality(D) \in Nat
  BY SlotsAreFinite DEF TableInv, ArraysTyped, WithState
<1>1. /\ cap' = cap /\ cnt' = cnt + 1
      /\ dcnt' = IF state[m] = "DEL" THEN dcnt - 1 ELSE dcnt
      /\ state' = [state EXCEPT ![m] = "FULL"]
  BY DEF Insert
<1>2. /\ m \notin F /\ WithState("FULL")' = F \cup {m}
      /\ WithState("DEL")' = D \ {m}
  BY <1>1 DEF TableInv, ArraysTyped, WithState
<1>3. cnt' = Cardinality(WithState("FULL"))'
  <2>1. Cardinality(F \cup {m}) = Cardinality(F) + 1
    BY <1>0, <1>2, FS_AddElement
  <2> QED
    BY <2>1, <1>1, <1>2 DEF CountsAgree
<1>4. dcnt' = Cardinality(WithState("DEL"))'
  <2>1. CASE state[m] = "DEL"
    <3>1. m \in D
      BY <2>1 DEF WithState
    <3>2. Cardinality(D \ {m}) = Cardinality(D) - 1
      BY <3>1, <1>0, FS_RemoveElement
    <3> QED
      BY <2>1, <3>2, <1>1, <1>2 DEF CountsAgree
  <2>2. CASE state[m] # "DEL"
    <3>1. D \ {m} = D
      BY <2>2 DEF WithState
    <3> QED
      BY <2>2, <3>1, <1>1, <1>2 DEF CountsAgree
  <2> QED
    BY <2>1, <2>2
<1>5. cnt \in Nat /\ dcnt \in Nat
  BY <1>0 DEF CountsAgree
<1> QED
  BY <1>1, <1>3, <1>4, <1>5 DEF CountsAgree

\* The end of HashMapSet counts at most one slot more.
LEMMA PlaceCounts ==
  ASSUME TableInv, CountsAgree, cap > 0, NEW k \in Keys, NEW v, Place(k, v)
  PROVE  CountsAgree' /\ cap' = cap /\ cnt' + dcnt' <= cnt + dcnt + 1
<1>0. cap \in Nat \ {0}
  BY DEF TableInv, ArraysTyped
<1>1. HMSlot(k) \in Slots(cap)
  BY <1>0, SlotIsOnTheScan, ProbeInTable DEF TableInv, Slots
<1>2. cnt \in Nat /\ dcnt \in Nat
  BY <1>0, SlotsAreFinite DEF CountsAgree, WithState
<1>3. CASE state[HMSlot(k)] = "FULL"
  <2>1. UNCHANGED <<state, cap, cnt, dcnt>>
    BY <1>3 DEF Place
  <2>2. CountsAgree'
    BY <2>1 DEF CountsAgree, WithState
  <2> QED
    BY <2>1, <2>2, <1>2
<1>4. CASE state[HMSlot(k)] # "FULL"
  <2>1. Insert(HMSlot(k), k, v)
    BY <1>4 DEF Place
  <2>2. cap' = cap
    BY <2>1 DEF Insert
  <2> QED
    BY <1>1, <1>4, <2>1, <2>2, InsertCounts
<1> QED
  BY <1>3, <1>4

\* A tombstone is counted in place of the entry it buries.
LEMMA BuryCounts ==
  ASSUME TableInv, CountsAgree, NEW m \in Slots(cap), state[m] = "FULL", Bury(m)
  PROVE  CountsAgree' /\ cap' = cap /\ cnt' + dcnt' = cnt + dcnt
<1> DEFINE F == WithState("FULL")
           D == WithState("DEL")
<1>0. /\ IsFiniteSet(F) /\ Cardinality(F) \in Nat
      /\ IsFiniteSet(D) /\ Cardinality(D) \in Nat
  BY SlotsAreFinite DEF TableInv, ArraysTyped, WithState
<1>1. /\ cap' = cap /\ cnt' = cnt - 1 /\ dcnt' = dcnt + 1
      /\ state' = [state EXCEPT ![m] = "DEL"]
  BY DEF Bury
<1>2. /\ m \in F /\ WithState("FULL")' = F \ {m}
      /\ m \notin D /\ WithState("DEL")' = D \cup {m}
  BY <1>1 DEF TableInv, ArraysTyped, WithState
<1>3. Cardinality(F \ {m}) = Cardinality(F) - 1
  BY <1>0, <1>2, FS_RemoveElement
<1>4. Cardinality(D \cup {m}) = Cardinality(D) + 1
  BY <1>0, <1>2, FS_AddElement
<1>5. cnt \in Nat /\ dcnt \in Nat
  BY <1>0 DEF CountsAgree
<1>6. cnt' = Cardinality(WithState("FULL"))' /\ dcnt' = Cardinality(WithState("DEL"))'
  BY <1>1, <1>2, <1>3, <1>4 DEF CountsAgree
<1> QED
  BY <1>1, <1>5, <1>6 DEF CountsAgree

LEMMA TimesFour ==
  ASSUME NEW x \in Int, NEW y \in Int, x <= y
  PROVE  x * 4 <= y * 4
OBVIOUS

\* A table that is not crowded has room for one slot more.
LEMMA PlaceLeavesRoom ==
  ASSUME MapInv, CountsAgree, cap > 0, ~ Crowded, NEW k \in Keys, NEW v, Place(k, v)
  PROVE  (cnt' + dcnt') * 4 <= cap' * 3
<1>1. cap' = cap /\ cnt' + dcnt' <= cnt + dcnt + 1
  BY PlaceCounts DEF MapInv
<1>2. cnt' \in Int /\ dcnt' \in Int /\ cnt \in Int /\ dcnt \in Int /\ cap \in Nat
  BY PlaceKeepsCounters DEF MapInv, ScalarsTyped, TableInv, ArraysTyped
<1>3. (cnt + dcnt + 1) * 4 <= cap * 3
  BY <1>2 DEF Crowded
<1>4. (cnt' + dcnt') * 4 <= (cnt + dcnt + 1) * 4
  <2>1. cnt' + dcnt' \in Int /\ cnt + dcnt + 1 \in Int
    BY <1>2
  <2> QED
    BY <1>1, <2>1, TimesFour
<1>5. (cnt' + dcnt') * 4 \in Int /\ (cnt + dcnt + 1) * 4 \in Int /\ cap * 3 \in Int
  BY <1>2
<1> QED
  BY <1>1, <1>3, <1>4, <1>5

\* A rehash stops short of three quarters of the table it fills.
LEMMA RehashIsNeverCrowded ==
  ASSUME CounterInv, phase = "rehash"
  PROVE  ~ Crowded /\ cap > 0
<1>1. PICK c \in Nat \ {0} : /\ OldSlots = Slots(c) /\ cap = c * 2
                             /\ Cardinality(ToCopy) * 4 <= c * 3
  BY DEF CounterInv, RehashRoom
<1>2. IsFiniteSet(ToCopy) /\ Cardinality(ToCopy) \in Nat
  BY <1>1, SlotsAreFinite DEF ToCopy
<1>3. Copied \subseteq ToCopy
  BY DEF Copied, ToCopy
<1>4. Cardinality(Copied) \in Nat /\ Cardinality(Copied) <= Cardinality(ToCopy)
  BY <1>2, <1>3, FS_Subset, FS_CardinalityType
<1>5. cnt \in Int /\ dcnt \in Int /\ cnt + dcnt <= Cardinality(Copied)
  BY DEF CounterInv, RehashRoom, MapInv, ScalarsTyped
<1>6. (cnt + dcnt) * 4 <= c * 3
  BY <1>1, <1>2, <1>4, <1>5
<1> QED
  BY <1>1, <1>5, <1>6 DEF Crowded
\* A rehash empties a table that was no fuller than it may be.
LEMMA StartRehashCounts ==
  ASSUME CounterInv, NEW k \in Keys, NEW v \in Values, StartRehash(k, v)
  PROVE  CountsAgree' /\ ReadyRoom' /\ RehashRoom'
<1>1. /\ phase = "ready" /\ cap \in Nat \ {0} /\ cap * 2 <= MaxCap
      /\ phase' = "rehash" /\ next' = 0 /\ SetTable(cap * 2)
      /\ old' = [keys |-> keys, vals |-> vals, state |-> state]
  BY DEF StartRehash, CounterInv, MapInv, TableInv, ArraysTyped
<1>2. CountsAgree' /\ cap' = cap * 2 /\ cnt' = 0 /\ dcnt' = 0
  BY <1>1, FreshCounts, FreshTable
<1>3. OldSlots' = Slots(cap) /\ ToCopy' = WithState("FULL")
  BY <1>1 DEF OldSlots, ToCopy, WithState, CounterInv, MapInv, TableInv, ArraysTyped
<1>4. Cardinality(ToCopy') * 4 <= cap * 3
  <2>1. (cnt + dcnt) * 4 <= cap * 3
    BY <1>1 DEF CounterInv, ReadyRoom
  <2>2. cnt \in Nat /\ dcnt \in Nat
    BY <1>1, SlotsAreFinite DEF CounterInv, CountsAgree, WithState
  <2>3. cnt = Cardinality(ToCopy')
    BY <1>3 DEF CounterInv, CountsAgree
  <2> QED
    BY <1>1, <2>1, <2>2, <2>3
<1>5. Cardinality(Copied)' \in Nat
  <2>1. Copied' \subseteq Slots(cap)
    BY <1>3 DEF Copied
  <2> QED
    BY <1>1, <2>1, SlotsAreFinite
<1>6. RehashRoom'
  BY <1>1, <1>2, <1>3, <1>4, <1>5 DEF RehashRoom
<1> QED
  BY <1>1, <1>2, <1>6 DEF ReadyRoom

\* A slot is copied once.
LEMMA CopySlotCounts ==
  ASSUME CounterInv, CopySlot
  PROVE  CountsAgree' /\ ReadyRoom' /\ RehashRoom'
<1>1. /\ phase = "rehash" /\ next \in OldSlots /\ next' = next + 1
      /\ phase' = phase /\ old' = old
  BY DEF CopySlot
<1>2. PICK c \in Nat \ {0} : /\ OldSlots = Slots(c) /\ cap = c * 2
                             /\ Cardinality(ToCopy) * 4 <= c * 3
  BY <1>1 DEF CounterInv, RehashRoom
<1>3. OldSlots' = OldSlots /\ ToCopy' = ToCopy
  BY <1>1 DEF OldSlots, ToCopy
<1>4. Copied \subseteq Slots(c) /\ IsFiniteSet(Copied) /\ Cardinality(Copied) \in Nat
  <2>1. Copied \subseteq Slots(c)
    BY <1>2 DEF Copied
  <2> QED
    BY <1>2, <2>1, SlotsAreFinite
<1>5. next \in Nat /\ \A s \in OldSlots : s \in Nat
  BY <1>1, <1>2 DEF Slots
<1>6. cnt \in Int /\ dcnt \in Int /\ cnt + dcnt <= Cardinality(Copied) /\ cap > 0
  BY <1>1, <1>2 DEF CounterInv, RehashRoom, MapInv, ScalarsTyped
<1>7. /\ CountsAgree' /\ cap' = cap
      /\ cnt' + dcnt' <= Cardinality(Copied)'
  <2>1. CASE old.state[next] = "FULL"
    <3>1. /\ Place(old.keys[next], old.vals[next])
          /\ old.keys[next] \in Keys
      BY <1>1, <2>1 DEF CopySlot, CounterInv, MapInv, OldTyped
    <3>2. CountsAgree' /\ cap' = cap /\ cnt' + dcnt' <= cnt + dcnt + 1
      BY <1>6, <3>1, PlaceCounts DEF CounterInv, MapInv
    <3>3. next \notin Copied /\ Copied' = Copied \cup {next}
      <4>1. next \notin Copied
        BY <1>5 DEF Copied
      <4>2. \A s \in OldSlots : s < next + 1 <=> s < next \/ s = next
        BY <1>5
      <4> QED
        BY <1>1, <1>3, <2>1, <4>1, <4>2 DEF Copied
    <3>4. Cardinality(Copied') = Cardinality(Copied) + 1
      BY <1>4, <3>3, FS_AddElement
    <3>5. cnt' \in Int /\ dcnt' \in Int
      BY <3>1, PlaceKeepsCounters DEF CounterInv, MapInv
    <3>6. cnt' + dcnt' <= Cardinality(Copied')
      <4>1. cnt + dcnt + 1 <= Cardinality(Copied) + 1
        BY <1>4, <1>6
      <4>2. cnt' + dcnt' \in Int /\ cnt + dcnt + 1 \in Int /\ Cardinality(Copied) + 1 \in Int
        BY <1>4, <1>6, <3>5
      <4>3. cnt' + dcnt' <= cnt + dcnt + 1
        BY <3>2
      <4> QED
        BY <3>4, <4>1, <4>2, <4>3
    <3> QED
      BY <3>2, <3>6
  <2>2. CASE old.state[next] # "FULL"
    <3>1. UNCHANGED table
      BY <2>2 DEF CopySlot
    <3>2. CountsAgree' /\ cap' = cap /\ cnt' = cnt /\ dcnt' = dcnt
      BY <3>1 DEF table, CounterInv, CountsAgree, WithState
    <3>3. Copied' = Copied
      <4>1. \A s \in OldSlots : s < next + 1 <=> s < next \/ s = next
        BY <1>5
      <4> QED
        BY <1>1, <1>3, <2>2, <4>1 DEF Copied
    <3> QED
      BY <1>6, <3>2, <3>3
  <2> QED
    BY <2>1, <2>2
<1>8. RehashRoom'
  BY <1>2, <1>3, <1>7 DEF RehashRoom
<1> QED
  BY <1>1, <1>7, <1>8 DEF ReadyRoom

\* Every step keeps the counters right and the room there.
LEMMA StepCounts == CounterInv /\ [Next]_vars => CounterInv'
<1> SUFFICES ASSUME CounterInv, [Next]_vars
             PROVE  CountsAgree' /\ ReadyRoom' /\ RehashRoom'
  BY StepPreserves DEF CounterInv
<1>0. MapInv /\ TableInv /\ CountsAgree /\ cap \in Nat
  BY DEF CounterInv, MapInv, TableInv, ArraysTyped
<1>1. CASE HashMapInit
  <2>1. PICK n \in Nat : SetTable(n) /\ phase' = "ready"
    BY <1>1, CapAssumption DEF HashMapInit
  <2>2. CountsAgree' /\ cap' \in Nat /\ cnt' = 0 /\ dcnt' = 0
    BY <2>1, FreshCounts, FreshTable
  <2>3. (cnt' + dcnt') * 4 <= cap' * 3
    <3>1. (cnt' + dcnt') * 4 = 0
      BY <2>2
    <3>2. cap' = n /\ n * 3 >= 0
      BY <2>1 DEF SetTable
    <3> QED
      BY <3>1, <3>2
  <2> QED
    BY <2>1, <2>2, <2>3 DEF ReadyRoom, RehashRoom
<1>2. CASE HashMapFree
  BY <1>2, FreshCounts DEF HashMapFree, ReadyRoom, RehashRoom
<1>3. ASSUME NEW k \in Keys, NEW v \in Values, SetInPlace(k, v)
      PROVE  CountsAgree' /\ ReadyRoom' /\ RehashRoom'
  <2>1. /\ phase' = "ready" /\ cap > 0 /\ Place(k, v)
        /\ Crowded => cap * 2 > MaxCap
    BY <1>3 DEF SetInPlace
  <2>2. CountsAgree' /\ cap' = cap
    BY <1>0, <2>1, PlaceCounts
  <2>3. ASSUME cap' * 2 <= MaxCap
        PROVE  (cnt' + dcnt') * 4 <= cap' * 3
    <3>1. ~ Crowded
      BY <1>0, <2>1, <2>2, <2>3, CapAssumption
    <3> QED
      BY <1>0, <2>1, <3>1, PlaceLeavesRoom
  <2> QED
    BY <2>1, <2>2, <2>3 DEF ReadyRoom, RehashRoom
<1>4. ASSUME NEW k \in Keys, NEW v \in Values, StartRehash(k, v)
      PROVE  CountsAgree' /\ ReadyRoom' /\ RehashRoom'
  BY <1>4, StartRehashCounts
<1>5. ASSUME NEW k \in Keys, NEW v \in Values, FailRehash(k, v)
      PROVE  CountsAgree' /\ ReadyRoom' /\ RehashRoom'
  BY <1>5, FreshCounts DEF FailRehash, ReadyRoom, RehashRoom
<1>6. CASE CopySlot
  BY <1>6, CopySlotCounts
<1>7. CASE FinishRehash
  <2>1. /\ phase = "rehash" /\ phase' = "ready"
        /\ Place(pending[1], pending[2]) /\ pending[1] \in Keys
    BY <1>7, <1>0 DEF FinishRehash, MapInv, PendingTyped
  <2>2. ~ Crowded /\ cap > 0
    BY <2>1, RehashIsNeverCrowded
  <2>3. CountsAgree'
    BY <1>0, <2>1, <2>2, PlaceCounts
  <2>4. (cnt' + dcnt') * 4 <= cap' * 3
    BY <1>0, <2>1, <2>2, PlaceLeavesRoom
  <2> QED
    BY <2>1, <2>3, <2>4 DEF ReadyRoom, RehashRoom
<1>8. ASSUME NEW k \in Keys, HashMapDel(k)
      PROVE  CountsAgree' /\ ReadyRoom' /\ RehashRoom'
  <2>0. phase = "ready" /\ phase' = "ready" /\ cap > 0
    BY <1>8 DEF HashMapDel
  <2>1. CASE state[HMSlot(k)] = "FULL"
    <3>1. HMSlot(k) \in Slots(cap)
      BY <1>0, <2>0, SlotIsOnTheScan, ProbeInTable DEF Slots, TableInv
    <3>2. CountsAgree' /\ cap' = cap /\ cnt' + dcnt' = cnt + dcnt
      BY <1>0, <1>8, <2>1, <3>1, BuryCounts DEF HashMapDel
    <3> QED
      BY <2>0, <3>2 DEF CounterInv, ReadyRoom, RehashRoom
  <2>2. CASE state[HMSlot(k)] # "FULL"
    <3>1. UNCHANGED table
      BY <1>8, <2>2 DEF HashMapDel
    <3> QED
      BY <2>0, <3>1 DEF table, CounterInv, CountsAgree, WithState, ReadyRoom, RehashRoom
  <2> QED
    BY <2>1, <2>2
<1>9. ASSUME \/ \E k \in Keys : HashMapGet(k)
             \/ HashMapCount
             \/ UseWithoutTable
             \/ UNCHANGED vars
      PROVE  CountsAgree' /\ ReadyRoom' /\ RehashRoom'
  <2>1. /\ UNCHANGED <<table, copying>>
        /\ phase' = phase \/ phase' = "crashed"
    BY <1>9 DEF HashMapGet, HashMapCount, UseWithoutTable, Crash, vars, table, copying
  <2>2. CountsAgree' /\ ReadyRoom'
    BY <2>1 DEF table, CounterInv, CountsAgree, WithState, ReadyRoom
  <2>3. RehashRoom'
    BY <2>1 DEF table, copying, CounterInv, RehashRoom, OldSlots, ToCopy, Copied
  <2> QED
    BY <2>2, <2>3
<1> QED
  BY <1>1, <1>2, <1>3, <1>4, <1>5, <1>6, <1>7, <1>8, <1>9 DEF Next

LEMMA CountersKeepTheRoom ==
  ASSUME CounterInv
  PROVE  CountersKeepRoom
<1>1. CountsAgree
  BY DEF CounterInv
<1>2. RehashNeverNests
  BY RehashIsNeverCrowded DEF RehashNeverNests
<1>3. ASSUME phase = "ready", cap > 0, cap * 2 <= MaxCap, WithState("EMPTY") = {}
      PROVE  FALSE
  <2>1. cap \in Nat \ {0} /\ state \in [Slots(cap) -> StateNames]
    BY <1>3 DEF CounterInv, MapInv, TableInv, ArraysTyped
  <2>2. /\ IsFiniteSet(WithState("FULL")) /\ Cardinality(WithState("FULL")) \in Nat
        /\ IsFiniteSet(WithState("DEL")) /\ Cardinality(WithState("DEL")) \in Nat
    BY <2>1, SlotsAreFinite DEF WithState
  <2>3. /\ WithState("FULL") \cup WithState("DEL") = Slots(cap)
        /\ WithState("FULL") \cap WithState("DEL") = {}
    BY <1>3, <2>1 DEF WithState, StateNames
  <2>4. Cardinality(Slots(cap)) = cnt + dcnt
    <3>1. Cardinality(WithState("FULL") \cup WithState("DEL"))
            = Cardinality(WithState("FULL")) + Cardinality(WithState("DEL"))
              - Cardinality({})
      BY <2>2, <2>3, FS_Union
    <3> QED
      BY <1>1, <2>2, <2>3, <3>1, FS_EmptySet DEF CountsAgree
  <2>5. Cardinality(Slots(cap)) = cap
    BY <2>1, FS_Interval DEF Slots
  <2>6. cap * 4 <= cap * 3
    BY <1>3, <2>4, <2>5 DEF CounterInv, ReadyRoom
  <2> QED
    BY <2>1, <2>6
<1>4. ScanEndsEarly
  BY <1>3 DEF ScanEndsEarly
<1> QED
  BY <1>1, <1>2, <1>4 DEF CountersKeepRoom

\* Before HashMapInit there is nothing to count.
LEMMA InitCounts == Init => CounterInv
<1> SUFFICES ASSUME Init PROVE CounterInv
  OBVIOUS
<1>1. WithState("FULL") = {} /\ WithState("DEL") = {}
  BY DEF Init, WithState, Slots
<1>2. CountsAgree
  BY <1>1, FS_EmptySet DEF Init, CountsAgree
<1> QED
  BY <1>2, InitEstablishes DEF Init, CounterInv, ReadyRoom, RehashRoom

\* The counters are what a scan of the table would count, a table that may grow
\* keeps an EMPTY slot, and a rehash never starts another: for every capacity.
THEOREM CountersKeepRoomHolds == Spec => []CountersKeepRoom
<1>1. Init => CounterInv
  BY InitCounts
<1>2. CounterInv /\ [Next]_vars => CounterInv'
  BY StepCounts
<1>3. CounterInv => CountersKeepRoom
  BY CountersKeepTheRoom
<1> QED
  BY <1>1, <1>2, <1>3, PTL DEF Spec

-----------------------------------------------------------------------------
(***************************************************************************)
(* The table is a map.  A key that is in no slot finds one that is not in  *)
(* use, as long as there is one; so HashMapSet overwrites only the value   *)
(* of its own key.  During a rehash an entry is in one of the two tables.  *)
(***************************************************************************)
LEMMA RemainderOf ==
  ASSUME NEW n \in Nat \ {0}, NEW q \in Nat, NEW r \in 0 .. n - 1
  PROVE  (n * q + r) % n = r
OBVIOUS

\* The scan visits every slot.
LEMMA ScanReaches ==
  ASSUME cap \in Nat \ {0}, NEW k \in Keys, NEW s \in Slots(cap)
  PROVE  \E j \in Slots(cap) : Probe(k, j) = s
<1> DEFINE h == Hash[k] % cap
           q == Hash[k] \div cap
           j == IF s >= h THEN s - h ELSE s - h + cap
<1>1. Hash[k] \in Nat
  BY KeysAssumption
<1>2. h \in Slots(cap) /\ q \in Nat /\ Hash[k] = cap * q + h
  BY <1>1 DEF Slots
<1>3. j \in Slots(cap)
  BY <1>2 DEF Slots
<1>4. (Hash[k] + j) % cap = s
  <2>0. /\ Hash[k] + j \in {cap * q + s, cap * (q + 1) + s}
        /\ q + 1 \in Nat /\ s \in 0 .. cap - 1
    <3> HIDE DEF h, q
    <3>1. cap * (q + 1) = cap * q + cap /\ q + 1 \in Nat
      BY <1>2
    <3> QED
      BY <3>1, <1>2 DEF Slots
  <2> HIDE DEF q, j
  <2>1. (cap * q + s) % cap = s
    BY <1>2, <2>0, RemainderOf
  <2>2. (cap * (q + 1) + s) % cap = s
    BY <2>0, RemainderOf
  <2> QED
    BY <2>0, <2>1, <2>2
<1> QED
  BY <1>3, <1>4 DEF Probe

Stored(k) == \E s \in Slots(cap) : Holds(s, k)
Room == \E s \in Slots(cap) : state[s] # "FULL"

LEMMA AbsentKeyFindsRoom ==
  ASSUME TableInv, cap > 0, NEW k \in Keys, ~ Stored(k), Room
  PROVE  HMSlot(k) \in Slots(cap) /\ state[HMSlot(k)] # "FULL"
<1>0. cap \in Nat \ {0} /\ state \in [Slots(cap) -> StateNames]
  BY DEF TableInv, ArraysTyped
<1>1. \A j \in Slots(cap) : Probe(k, j) \in Slots(cap)
  BY <1>0, ProbeInTable DEF Slots
<1>2. HMSlot(k) \in Slots(cap)
  BY <1>0, <1>1, SlotIsOnTheScan DEF TableInv
<1>3. \A j \in Stops(k) : state[Probe(k, j)] = "EMPTY"
  BY <1>1 DEF Stops, Stored
<1>4. ~ KeyFound(k)
  BY <1>0, <1>3, FirstStopIsFirst DEF KeyFound, Holds
<1>5. CASE Passed(k) # {}
  <2>1. state[Probe(k, FirstPassed(k))] = "DEL"
    BY <1>0, <1>5, FirstPassedIsFirst DEF Passed
  <2> QED
    BY <1>2, <1>4, <1>5, <2>1 DEF HMSlot
<1>6. CASE Passed(k) = {} /\ Stops(k) # {}
  <2>1. state[Probe(k, FirstStop(k))] = "EMPTY"
    BY <1>0, <1>3, <1>6, FirstStopIsFirst
  <2> QED
    BY <1>2, <1>4, <1>6, <2>1 DEF HMSlot
<1>7. CASE Passed(k) = {} /\ Stops(k) = {}
  <2>1. PICK s \in Slots(cap) : state[s] # "FULL"
    BY DEF Room
  <2>2. PICK j \in Slots(cap) : Probe(k, j) = s
    BY <1>0, ScanReaches
  <2>3. state[s] = "DEL"
    BY <1>0, <1>7, <2>1, <2>2 DEF Stops, StateNames
  <2> QED
    BY <1>7, <2>2, <2>3 DEF Passed
<1> QED
  BY <1>5, <1>6, <1>7

\* What HashMapSet does to the table, for its key and for the others.
LEMMA PlaceStores ==
  ASSUME TableInv, cap > 0, NEW k \in Keys, NEW v \in Values, Room, Place(k, v)
  PROVE  \E m \in Slots(cap) :
           /\ cap' = cap
           /\ Holds(m, k)' /\ vals'[m] = v
           /\ \A s \in Slots(cap) : s # m =>
                /\ state'[s] = state[s] /\ keys'[s] = keys[s] /\ vals'[s] = vals[s]
           /\ \A s \in Slots(cap) : state[s] = "FULL" => keys'[s] = keys[s]
<1>0. /\ cap \in Nat \ {0} /\ state \in [Slots(cap) -> StateNames]
      /\ keys \in [Slots(cap) -> Keys \union {NoKey}]
      /\ vals \in [Slots(cap) -> Values \union {NoValue}]
  BY DEF TableInv, ArraysTyped
<1> DEFINE m == HMSlot(k)
<1>1. CASE Stored(k)
  <2>1. PICK s \in Slots(cap) : Holds(s, k)
    BY <1>1 DEF Stored
  <2>2. m = s /\ state[m] = "FULL" /\ keys[m] = k
    BY <2>1, StoredKeyIsFound DEF Holds
  <2>3. /\ vals' = [vals EXCEPT ![m] = v]
        /\ keys' = keys /\ state' = state /\ cap' = cap
    BY <2>2 DEF Place
  <2> QED
    BY <1>0, <2>1, <2>2, <2>3 DEF Holds
<1>2. CASE ~ Stored(k)
  <2>1. m \in Slots(cap) /\ state[m] # "FULL"
    BY <1>2, AbsentKeyFindsRoom
  <2>2. /\ vals' = [vals EXCEPT ![m] = v] /\ keys' = [keys EXCEPT ![m] = k]
        /\ state' = [state EXCEPT ![m] = "FULL"] /\ cap' = cap
    BY <2>1 DEF Place, Insert
  <2> QED
    BY <1>0, <2>1, <2>2 DEF Holds
<1> QED
  BY <1>1, <1>2
\* What HashMapSet does to the entries, for its key and for the others.
LEMMA PlaceHolds ==
  ASSUME TableInv, cap > 0, NEW k \in Keys, NEW v \in Values, Room, Place(k, v)
  PROVE  /\ cap' = cap
         /\ \E m \in Slots(cap) : Holds(m, k)' /\ vals'[m] = v
         /\ \A x \in Keys \ {k}, s \in Slots(cap) :
              /\ Holds(s, x)' <=> Holds(s, x)
              /\ Holds(s, x) => vals'[s] = vals[s]
         /\ \A s \in Slots(cap) : state'[s] = "FULL" =>
              vals'[s] = v \/ (state[s] = "FULL" /\ vals'[s] = vals[s])
<1>1. PICK m \in Slots(cap) :
           /\ cap' = cap
           /\ Holds(m, k)' /\ vals'[m] = v
           /\ \A s \in Slots(cap) : s # m =>
                /\ state'[s] = state[s] /\ keys'[s] = keys[s] /\ vals'[s] = vals[s]
           /\ \A s \in Slots(cap) : state[s] = "FULL" => keys'[s] = keys[s]
  BY PlaceStores
<1>2. \A x \in Keys \ {k} : ~ Holds(m, x)' /\ ~ Holds(m, x)
  BY <1>1 DEF Holds
<1>3. \A x \in Keys \ {k}, s \in Slots(cap) :
        /\ Holds(s, x)' <=> Holds(s, x)
        /\ Holds(s, x) => vals'[s] = vals[s]
  BY <1>1, <1>2 DEF Holds
<1>4. \A s \in Slots(cap) : state'[s] = "FULL" =>
        vals'[s] = v \/ (state[s] = "FULL" /\ vals'[s] = vals[s])
  BY <1>1
<1> QED
  BY <1>1, <1>3, <1>4

\* A table that is not crowded has a slot that is not in use.
LEMMA UncrowdedHasRoom ==
  ASSUME TableInv, CountsAgree, cap > 0, ~ Crowded
  PROVE  Room
<1> SUFFICES ASSUME ~ Room PROVE FALSE
  OBVIOUS
<1>1. cap \in Nat \ {0}
  BY DEF TableInv, ArraysTyped
<1>2. WithState("FULL") = Slots(cap)
  BY DEF Room, WithState
<1>3. Cardinality(Slots(cap)) = cap
  BY <1>1, FS_Interval DEF Slots
<1>4. dcnt \in Nat
  BY <1>1, SlotsAreFinite DEF CountsAgree, WithState
<1>5. cnt = cap
  BY <1>2, <1>3 DEF CountsAgree
<1>6. (cap + dcnt + 1) * 4 > cap * 3
  BY <1>1, <1>4
<1> QED
  BY <1>5, <1>6 DEF Crowded

\* The entries an open rehash has still to move.
Left(s, k) == s >= next /\ old.state[s] = "FULL" /\ old.keys[s] = k

ValuesWritten == \A s \in Slots(cap) : state[s] = "FULL" => vals[s] \in Values

OldOneSlot ==
  \A s, t \in OldSlots :
    old.state[s] = "FULL" /\ old.state[t] = "FULL" /\ old.keys[s] = old.keys[t] => s = t

\* An entry is in one table only.
OldInv ==
  /\ OldOneSlot
  /\ \A s \in OldSlots : old.state[s] = "FULL" => old.vals[s] \in Values
  /\ phase # "rehash" => OldSlots = {}
  /\ \A s \in OldSlots : s >= next /\ old.state[s] = "FULL" => ~ Stored(old.keys[s])

RefInv == CounterInv /\ ValuesWritten /\ OldInv

\* A table that cannot grow any more still has a slot that is not in use.  A
\* program that stores more keys than the largest table has slots does not meet it.
NotFilled == phase = "ready" /\ cap > 0 /\ cap * 2 > MaxCap => Room

LEMMA ReadyHasRoom ==
  ASSUME CounterInv, NotFilled, phase = "ready", cap > 0
  PROVE  Room
<1>1. CASE cap * 2 > MaxCap
  BY <1>1 DEF NotFilled
<1>2. CASE ~ (cap * 2 > MaxCap)
  <2>1. cap \in Nat /\ cap * 2 <= MaxCap
    BY <1>2, CapAssumption DEF CounterInv, MapInv, TableInv, ArraysTyped
  <2>2. WithState("EMPTY") # {}
    BY <2>1, CountersKeepTheRoom DEF CountersKeepRoom, ScanEndsEarly
  <2> QED
    BY <2>2 DEF WithState, Room
<1> QED
  BY <1>1, <1>2

\* Steps that leave old and next alone and store no key.
LEMMA PlaceKeepsRef ==
  ASSUME RefInv, phase = "ready", cap > 0, Room,
         NEW k \in Keys, NEW v \in Values, Place(k, v),
         phase' = "ready", old' = old
  PROVE  ValuesWritten' /\ OldInv'
<1>1. TableInv
  BY DEF RefInv, CounterInv, MapInv
<1>2. ValuesWritten'
  BY <1>1, PlaceHolds DEF RefInv, ValuesWritten
<1>3. OldSlots' = {}
  BY DEF RefInv, OldInv, OldSlots
<1> QED
  BY <1>2, <1>3 DEF OldInv, OldOneSlot

LEMMA StartRehashKeepsRef ==
  ASSUME RefInv, NEW k \in Keys, NEW v \in Values, StartRehash(k, v)
  PROVE  ValuesWritten' /\ OldInv'
<1>1. /\ phase' = "rehash" /\ SetTable(cap * 2)
      /\ old' = [keys |-> keys, vals |-> vals, state |-> state]
  BY DEF StartRehash
<1>2. ArraysTyped /\ OneSlotPerKey
  BY DEF RefInv, CounterInv, MapInv, TableInv
<1>3. OldSlots' = Slots(cap)
  BY <1>1, <1>2 DEF OldSlots, ArraysTyped
<1>4. \A s \in Slots(cap') : state'[s] # "FULL"
  BY <1>1 DEF SetTable
<1>5. ValuesWritten' /\ \A x : ~ Stored(x)'
  BY <1>4 DEF ValuesWritten, Stored, Holds
<1>6. OldOneSlot'
  BY <1>1, <1>2, <1>3 DEF OldOneSlot, OneSlotPerKey
<1>7. \A s \in OldSlots' : old'.state[s] = "FULL" => old'.vals[s] \in Values
  BY <1>1, <1>3 DEF RefInv, ValuesWritten
<1> QED
  BY <1>1, <1>5, <1>6, <1>7 DEF OldInv

LEMMA CopySlotKeepsRef ==
  ASSUME RefInv, CopySlot
  PROVE  ValuesWritten' /\ OldInv'
<1>1. /\ phase = "rehash" /\ next \in OldSlots /\ next' = next + 1
      /\ phase' = phase /\ old' = old /\ OldSlots' = OldSlots
  BY DEF CopySlot, OldSlots
<1>2. TableInv /\ CounterInv /\ cap > 0 /\ Room
  BY <1>1, RehashIsNeverCrowded, UncrowdedHasRoom DEF RefInv, CounterInv, MapInv
<1>3. next \in Nat /\ \A s \in OldSlots : s \in Nat
  BY <1>1 DEF RefInv, CounterInv, RehashRoom, MapInv, ScalarsTyped, Slots
<1>4. \A s \in OldSlots : s >= next + 1 => s >= next /\ s # next
  BY <1>3
<1>5. /\ OldOneSlot'
      /\ \A s \in OldSlots' : old'.state[s] = "FULL" => old'.vals[s] \in Values
  BY <1>1 DEF RefInv, OldInv, OldOneSlot
<1>6. CASE old.state[next] = "FULL"
  <2> DEFINE k == old.keys[next]
             v == old.vals[next]
  <2>1. Place(k, v) /\ k \in Keys /\ v \in Values
    BY <1>1, <1>6 DEF CopySlot, RefInv, OldInv, CounterInv, MapInv, OldTyped
  <2> HIDE DEF v
  <2>2. ValuesWritten'
    BY <1>2, <2>1, PlaceHolds DEF RefInv, ValuesWritten
  <2>3. ASSUME NEW s \in OldSlots, s >= next + 1, old.state[s] = "FULL"
        PROVE  ~ Stored(old.keys[s])'
    <3>1. ~ Stored(old.keys[s]) /\ old.keys[s] \in Keys \ {k}
      BY <1>1, <1>4, <1>6, <2>3 DEF RefInv, OldInv, OldOneSlot, CounterInv, MapInv, OldTyped
    <3>2. PICK x \in Keys \ {k} : x = old.keys[s]
      BY <3>1
    <3>3. cap' = cap /\ \A t \in Slots(cap) : Holds(t, x)' <=> Holds(t, x)
      BY <1>2, <2>1, PlaceHolds
    <3>4. ~ Stored(x)'
      BY <3>1, <3>2, <3>3 DEF Stored
    <3> QED
      BY <1>1, <3>2, <3>4 DEF Stored, Holds
  <2> QED
    BY <1>1, <1>5, <2>2, <2>3 DEF OldInv, Stored, Holds
<1>7. CASE old.state[next] # "FULL"
  <2>1. UNCHANGED table
    BY <1>7 DEF CopySlot
  <2>2. ValuesWritten'
    BY <2>1 DEF table, RefInv, ValuesWritten
  <2>3. \A s \in OldSlots' : s >= next' /\ old'.state[s] = "FULL" => ~ Stored(old.keys[s])'
    BY <1>1, <1>4, <2>1 DEF table, RefInv, OldInv, Stored, Holds
  <2> QED
    BY <1>1, <1>5, <2>2, <2>3 DEF OldInv, Stored, Holds
<1> QED
  BY <1>6, <1>7
\* Every step keeps RefInv.
LEMMA StepKeepsRef == RefInv /\ NotFilled /\ [Next]_vars => RefInv'
<1> SUFFICES ASSUME RefInv, NotFilled, [Next]_vars
             PROVE  ValuesWritten' /\ OldInv'
  BY StepCounts DEF RefInv
<1>n. ASSUME NEW n \in Nat, SetTable(n), phase # "rehash", phase' # "rehash", old' = old
      PROVE  ValuesWritten' /\ OldInv'
  <2>1. \A s \in Slots(cap') : state'[s] # "FULL"
    BY <1>n DEF SetTable
  <2>2. OldSlots' = {}
    BY <1>n DEF RefInv, OldInv, OldSlots
  <2> QED
    BY <2>1, <2>2 DEF ValuesWritten, OldInv, OldOneSlot
<1>u. ASSUME UNCHANGED <<table, old, next>>, phase' = phase \/ (phase' = "crashed" /\ phase = "ready")
      PROVE  ValuesWritten' /\ OldInv'
  BY <1>u DEF table, RefInv, ValuesWritten, OldInv, OldOneSlot, OldSlots, Stored, Holds
<1>1. CASE HashMapInit
  <2>1. PICK n \in Nat : SetTable(n) /\ phase # "rehash" /\ phase' # "rehash" /\ old' = old
    BY <1>1, CapAssumption DEF HashMapInit, copying
  <2> QED
    BY <2>1, <1>n
<1>2. CASE HashMapFree
  BY <1>2, <1>n DEF HashMapFree, copying
<1>3. ASSUME NEW k \in Keys, NEW v \in Values, SetInPlace(k, v)
      PROVE  ValuesWritten' /\ OldInv'
  BY <1>3, ReadyHasRoom, PlaceKeepsRef DEF SetInPlace, copying, RefInv
<1>4. ASSUME NEW k \in Keys, NEW v \in Values, StartRehash(k, v)
      PROVE  ValuesWritten' /\ OldInv'
  BY <1>4, StartRehashKeepsRef
<1>5. ASSUME NEW k \in Keys, NEW v \in Values, FailRehash(k, v)
      PROVE  ValuesWritten' /\ OldInv'
  BY <1>5, <1>n DEF FailRehash, copying
<1>6. CASE CopySlot
  BY <1>6, CopySlotKeepsRef
<1>7. CASE FinishRehash
  <2>1. /\ Place(pending[1], pending[2]) /\ pending[1] \in Keys /\ pending[2] \in Values
        /\ phase = "rehash" /\ phase' = "ready" /\ old' = Freed
    BY <1>7 DEF FinishRehash, RefInv, CounterInv, MapInv, PendingTyped
  <2>2. TableInv /\ cap > 0 /\ Room
    BY <2>1, RehashIsNeverCrowded, UncrowdedHasRoom DEF RefInv, CounterInv, MapInv
  <2>3. ValuesWritten'
    BY <2>1, <2>2, PlaceHolds DEF RefInv, ValuesWritten
  <2>4. OldSlots' = {}
    BY <2>1 DEF OldSlots, Freed, Slots
  <2> QED
    BY <2>3, <2>4 DEF OldInv, OldOneSlot
<1>8. ASSUME NEW k \in Keys, HashMapDel(k)
      PROVE  ValuesWritten' /\ OldInv'
  <2>1. phase = "ready" /\ phase' = phase /\ old' = old /\ next' = next
    BY <1>8 DEF HashMapDel, copying
  <2>2. CASE UNCHANGED table
    BY <2>1, <2>2, <1>u
  <2>3. CASE Bury(HMSlot(k))
    <3>1. cap' = cap /\ vals' = vals /\ state' = [state EXCEPT ![HMSlot(k)] = "DEL"]
      BY <2>3 DEF Bury
    <3>2. \A s \in Slots(cap) : state'[s] = "FULL" => state[s] = "FULL"
      BY <3>1 DEF RefInv, CounterInv, MapInv, TableInv, ArraysTyped
    <3>3. OldSlots' = {}
      BY <2>1 DEF RefInv, OldInv, OldSlots
    <3> QED
      BY <3>1, <3>2, <3>3 DEF RefInv, ValuesWritten, OldInv, OldOneSlot
  <2> QED
    BY <1>8, <2>2, <2>3 DEF HashMapDel
<1>9. ASSUME \/ \E k \in Keys : HashMapGet(k)
             \/ HashMapCount
             \/ UseWithoutTable
             \/ UNCHANGED vars
      PROVE  ValuesWritten' /\ OldInv'
  BY <1>9, <1>u DEF HashMapGet, HashMapCount, UseWithoutTable, Crash, vars, table, copying
<1> QED
  BY <1>1, <1>2, <1>3, <1>4, <1>5, <1>6, <1>7, <1>8, <1>9 DEF Next

\* The value of a key is that of its slot, in the table first.
EntriesFound ==
  \A k \in Keys :
    /\ \A s \in Slots(cap) : Holds(s, k) => Entry(k) = vals[s]
    /\ ~ Stored(k) => \A s \in OldSlots : Left(s, k) => Entry(k) = old.vals[s]
    /\ ~ Stored(k) /\ (\A s \in OldSlots : ~ Left(s, k)) => Entry(k) = NoValue

LEMMA EntryIs == RefInv => EntriesFound
<1> SUFFICES ASSUME RefInv, NEW k \in Keys
             PROVE  /\ \A s \in Slots(cap) : Holds(s, k) => Entry(k) = vals[s]
                    /\ ~ Stored(k) => \A s \in OldSlots : Left(s, k) => Entry(k) = old.vals[s]
                    /\ ~ Stored(k) /\ (\A s \in OldSlots : ~ Left(s, k)) => Entry(k) = NoValue
  BY DEF EntriesFound
<1>0. TableInv /\ OldOneSlot
  BY DEF RefInv, CounterInv, MapInv, OldInv
<1>1. ASSUME NEW s \in Slots(cap), Holds(s, k)
      PROVE  Entry(k) = vals[s]
  <2>1. \A t \in Slots(cap) : Holds(t, k) => t = s
    BY <1>0, <1>1 DEF TableInv, OneSlotPerKey, Holds
  <2>2. (CHOOSE t \in Slots(cap) : Holds(t, k)) = s
    BY <1>1, <2>1
  <2> QED
    BY <1>1, <2>2 DEF Entry
<1>2. ASSUME ~ Stored(k), NEW s \in OldSlots, Left(s, k)
      PROVE  Entry(k) = old.vals[s]
  <2>1. \A t \in OldSlots : Left(t, k) => t = s
    BY <1>0, <1>2 DEF OldOneSlot, Left
  <2>2. (CHOOSE t \in OldSlots : Left(t, k)) = s
    BY <1>2, <2>1
  <2> QED
    BY <1>2, <2>2 DEF Entry, Stored, Left
<1>3. ASSUME ~ Stored(k), \A s \in OldSlots : ~ Left(s, k)
      PROVE  Entry(k) = NoValue
  BY <1>3 DEF Entry, Stored, Left
<1> QED
  BY <1>1, <1>2, <1>3

LEMMA EntryIsNext == RefInv' => EntriesFound'
BY EntryIs, PTL
\* HashMapSet sets the value of its key; the others keep theirs.
LEMMA PlaceMaps ==
  ASSUME RefInv, RefInv', cap > 0, Room, NEW k \in Keys, NEW v \in Values, Place(k, v),
         \A x \in Keys \ {k} : \A s :
           s \in OldSlots' /\ Left(s, x)' <=> s \in OldSlots /\ Left(s, x),
         \A s \in OldSlots' : old'.vals[s] = old.vals[s],
         NEW x \in Keys
  PROVE  Entry(x)' = IF x = k THEN v ELSE Entry(x)
<1>1. EntriesFound /\ EntriesFound' /\ TableInv
  BY EntryIs, EntryIsNext DEF RefInv, CounterInv, MapInv
<1>2. /\ cap' = cap
      /\ \E m \in Slots(cap) : Holds(m, k)' /\ vals'[m] = v
      /\ \A y \in Keys \ {k}, s \in Slots(cap) :
           /\ Holds(s, y)' <=> Holds(s, y)
           /\ Holds(s, y) => vals'[s] = vals[s]
  BY <1>1, PlaceHolds
<1>3. CASE x = k
  BY <1>1, <1>2, <1>3 DEF EntriesFound
<1>4. CASE x # k /\ Stored(x)
  <2>1. PICK s \in Slots(cap) : Holds(s, x)
    BY <1>4 DEF Stored
  <2>2. Holds(s, x)' /\ vals'[s] = vals[s] /\ s \in Slots(cap')
    BY <1>2, <1>4, <2>1
  <2>3. Entry(x)' = vals'[s]
    BY <1>1, <2>2 DEF EntriesFound
  <2>4. Entry(x) = vals[s]
    BY <1>1, <2>1 DEF EntriesFound
  <2> QED
    BY <1>4, <2>2, <2>3, <2>4
<1>5. CASE x # k /\ ~ Stored(x)
  <2>1. ~ Stored(x)'
    BY <1>2, <1>5 DEF Stored
  <2>2. CASE \E s \in OldSlots : Left(s, x)
    <3>1. PICK s \in OldSlots : Left(s, x)
      BY <2>2
    <3>2. s \in OldSlots' /\ Left(s, x)' /\ old'.vals[s] = old.vals[s]
      BY <1>5, <3>1
    <3>3. Entry(x)' = old'.vals[s]
      BY <1>1, <2>1, <3>2 DEF EntriesFound
    <3>4. Entry(x) = old.vals[s]
      BY <1>1, <1>5, <3>1 DEF EntriesFound
    <3> QED
      BY <1>5, <3>2, <3>3, <3>4
  <2>3. CASE \A s \in OldSlots : ~ Left(s, x)
    <3>1. \A s \in OldSlots' : ~ Left(s, x)'
      BY <1>5, <2>3
    <3>2. Entry(x)' = NoValue
      BY <1>1, <2>1, <3>1 DEF EntriesFound
    <3>3. Entry(x) = NoValue
      BY <1>1, <1>5, <2>3 DEF EntriesFound
    <3> QED
      BY <1>5, <3>2, <3>3
  <2> QED
    BY <2>2, <2>3
<1> QED
  BY <1>3, <1>4, <1>5

\* Between calls no entry waits, and a key has a value when it has a slot.
LEMMA ReadyEntries ==
  ASSUME RefInv, phase = "ready", NEW k \in Keys
  PROVE  /\ \A s \in Slots(cap) : Holds(s, k) => Entry(k) = vals[s] /\ Entry(k) # NoValue
         /\ ~ Stored(k) => Entry(k) = NoValue
<1>1. EntriesFound /\ OldSlots = {}
  BY EntryIs DEF RefInv, OldInv
<1>2. ASSUME NEW s \in Slots(cap), Holds(s, k)
      PROVE  Entry(k) = vals[s] /\ Entry(k) # NoValue
  BY <1>1, <1>2, KeysAssumption DEF EntriesFound, RefInv, ValuesWritten, Holds
<1> QED
  BY <1>1, <1>2 DEF EntriesFound

\* The slot of a key between calls.
LEMMA ReadySlot ==
  ASSUME RefInv, NotFilled, phase = "ready", cap > 0, NEW k \in Keys
  PROVE  /\ state[HMSlot(k)] = "FULL" => HMSlot(k) \in Slots(cap) /\ Holds(HMSlot(k), k)
         /\ state[HMSlot(k)] # "FULL" => ~ Stored(k)
<1>1. TableInv /\ Room
  BY ReadyHasRoom DEF RefInv, CounterInv, MapInv
<1>2. CASE Stored(k)
  <2>1. PICK s \in Slots(cap) : Holds(s, k)
    BY <1>2 DEF Stored
  <2>2. HMSlot(k) = s
    BY <1>1, <2>1, StoredKeyIsFound DEF Holds
  <2> QED
    BY <2>1, <2>2 DEF Holds
<1>3. CASE ~ Stored(k)
  BY <1>1, <1>3, AbsentKeyFindsRoom
<1> QED
  BY <1>2, <1>3

\* As many keys have a value as slots are in use.
LEMMA CountIsPresent ==
  ASSUME RefInv, phase = "ready"
  PROVE  cnt = Cardinality({k \in Keys : Entry(k) # NoValue})
<1> DEFINE F == WithState("FULL")
           P == {k \in Keys : Entry(k) # NoValue}
           f == [s \in F |-> keys[s]]
<1>1. TableInv /\ cap \in Nat /\ cnt = Cardinality(F)
  BY DEF RefInv, CounterInv, MapInv, TableInv, ArraysTyped, CountsAgree
<1>2. IsFiniteSet(F)
  BY <1>1, SlotsAreFinite DEF WithState
<1>3. f \in [F -> P]
  <2> SUFFICES ASSUME NEW s \in F PROVE keys[s] \in P
    OBVIOUS
  <2>1. s \in Slots(cap) /\ state[s] = "FULL" /\ keys[s] \in Keys
    BY <1>1 DEF WithState, TableInv, KeysWritten
  <2>2. PICK x \in Keys : x = keys[s]
    BY <2>1
  <2>3. Entry(x) # NoValue
    BY <2>1, <2>2, ReadyEntries DEF Holds
  <2> QED
    BY <2>2, <2>3
<1>4. \A a, b \in F : f[a] = f[b] => a = b
  BY <1>1 DEF WithState, TableInv, OneSlotPerKey
<1>5. \A x \in P : \E s \in F : f[s] = x
  <2> SUFFICES ASSUME NEW x \in Keys, Entry(x) # NoValue
               PROVE  \E s \in F : keys[s] = x
    OBVIOUS
  <2>1. Stored(x)
    BY ReadyEntries
  <2> QED
    BY <2>1 DEF Stored, Holds, WithState
<1>6. f \in Bijection(F, P)
  <2> HIDE DEF F, P, f
  <2> QED
    BY <1>3, <1>4, <1>5, Fun_IsBij
<1>7. ExistsBijection(F, P)
  BY <1>6 DEF ExistsBijection
<1> QED
  <2> HIDE DEF F, P
  <2>1. Cardinality(P) = Cardinality(F)
    BY <1>2, <1>7, FS_Bijection
  <2> QED
    BY <1>1, <2>1 DEF P
\* Emptying the table empties the map.
LEMMA FreshMapsToClear ==
  ASSUME RefInv, RefInv', NEW n \in Nat, SetTable(n), phase' # "rehash", result' = result
  PROVE  Abstract!Next
<1>1. \A x \in Keys : ~ Stored(x)'
  BY DEF SetTable, Stored, Holds
<1>2. EntriesFound' /\ OldSlots' = {}
  BY EntryIsNext DEF RefInv, OldInv
<1>3. \A x \in Keys : Entry(x)' = NoValue
  BY <1>1, <1>2 DEF EntriesFound
<1>4. [x \in Keys |-> Entry(x)]' = [x \in Keys |-> NoValue]
  BY <1>3
<1> QED
  BY <1>4 DEF Abstract!Next, Abstract!Clear, Abstract!Nothing

\* A rehash begins with every entry in the old table, each to be moved.
LEMMA StartRehashMaps ==
  ASSUME RefInv, RefInv', NEW k \in Keys, NEW v \in Values, StartRehash(k, v),
         NEW x \in Keys
  PROVE  Entry(x)' = Entry(x)
<1>1. /\ phase = "ready" /\ next' = 0 /\ SetTable(cap * 2)
      /\ old' = [keys |-> keys, vals |-> vals, state |-> state]
  BY DEF StartRehash
<1>2. EntriesFound' /\ cap \in Nat /\ state \in [Slots(cap) -> StateNames]
  BY EntryIsNext DEF RefInv, CounterInv, MapInv, TableInv, ArraysTyped
<1>3. ~ Stored(x)'
  BY <1>1 DEF SetTable, Stored, Holds
<1>4. OldSlots' = Slots(cap) /\ \A s \in Slots(cap) : Left(s, x)' <=> Holds(s, x)
  BY <1>1, <1>2 DEF OldSlots, Left, Holds, Slots
<1>5. CASE Stored(x)
  <2>1. PICK s \in Slots(cap) : Holds(s, x)
    BY <1>5 DEF Stored
  <2>2. Entry(x)' = old'.vals[s]
    BY <1>2, <1>3, <1>4, <2>1 DEF EntriesFound
  <2>3. Entry(x) = vals[s]
    BY <1>1, <2>1, ReadyEntries
  <2> QED
    BY <1>1, <2>2, <2>3
<1>6. CASE ~ Stored(x)
  <2>1. Entry(x)' = NoValue
    BY <1>2, <1>3, <1>4, <1>6 DEF EntriesFound, Stored
  <2> QED
    BY <1>1, <1>6, <2>1, ReadyEntries
<1> QED
  BY <1>5, <1>6

\* Moving an entry changes the value of no key.
LEMMA CopySlotMaps ==
  ASSUME RefInv, RefInv', CopySlot, NEW x \in Keys
  PROVE  Entry(x)' = Entry(x)
<1>1. /\ phase = "rehash" /\ next \in OldSlots /\ next' = next + 1
      /\ phase' = phase /\ old' = old /\ OldSlots' = OldSlots
  BY DEF CopySlot, OldSlots
<1>2. TableInv /\ CountsAgree /\ cap > 0 /\ Room /\ EntriesFound /\ EntriesFound'
  BY <1>1, RehashIsNeverCrowded, UncrowdedHasRoom, EntryIs, EntryIsNext
     DEF RefInv, CounterInv, MapInv
<1>3. next \in Nat /\ \A s \in OldSlots : s \in Nat
  BY <1>1 DEF RefInv, CounterInv, RehashRoom, MapInv, ScalarsTyped, Slots
<1>4. \A s \in OldSlots : s >= next + 1 <=> s >= next /\ s # next
  BY <1>3
<1>5. next >= next
  BY <1>3
<1>6. CASE old.state[next] = "FULL"
  <2>1. /\ Place(old.keys[next], old.vals[next])
        /\ old.keys[next] \in Keys /\ old.vals[next] \in Values
    BY <1>1, <1>6 DEF CopySlot, RefInv, OldInv, CounterInv, MapInv, OldTyped
  <2>2. PICK k \in Keys, v \in Values : k = old.keys[next] /\ v = old.vals[next]
    BY <2>1
  <2>3. ~ Stored(k) /\ Left(next, k)
    BY <1>1, <1>5, <1>6, <2>2 DEF RefInv, OldInv, Left
  <2>4. Entry(k) = v
    BY <1>1, <1>2, <2>2, <2>3 DEF EntriesFound
  <2>5. \A y \in Keys \ {k} : \A s :
          s \in OldSlots' /\ Left(s, y)' <=> s \in OldSlots /\ Left(s, y)
    BY <1>1, <1>4, <2>2 DEF Left
  <2>6. Place(k, v) /\ \A s \in OldSlots' : old'.vals[s] = old.vals[s]
    BY <1>1, <2>1, <2>2
  <2>7. Entry(x)' = IF x = k THEN v ELSE Entry(x)
    BY <1>2, <2>5, <2>6, PlaceMaps
  <2> QED
    BY <2>4, <2>7
<1>7. CASE old.state[next] # "FULL"
  <2>1. UNCHANGED table
    BY <1>7 DEF CopySlot
  <2>2. \A s \in Slots(cap) : Holds(s, x)' <=> Holds(s, x)
    BY <2>1 DEF table, Holds
  <2>3. \A s \in OldSlots : Left(s, x)' <=> Left(s, x)
    BY <1>1, <1>4, <1>7 DEF Left
  <2>4. cap' = cap /\ vals' = vals
    BY <2>1 DEF table
  <2>5. CASE Stored(x)
    <3>1. PICK s \in Slots(cap) : Holds(s, x)
      BY <2>5 DEF Stored
    <3>2. Entry(x) = vals[s] /\ Entry(x)' = vals'[s]
      BY <1>2, <2>2, <2>4, <3>1 DEF EntriesFound
    <3> QED
      BY <2>4, <3>2
  <2>6. CASE ~ Stored(x) /\ \E s \in OldSlots : Left(s, x)
    <3>1. PICK s \in OldSlots : Left(s, x)
      BY <2>6
    <3>2. ~ Stored(x)'
      BY <2>2, <2>4, <2>6 DEF Stored
    <3>3. Entry(x) = old.vals[s] /\ Entry(x)' = old'.vals[s]
      BY <1>1, <1>2, <2>3, <2>6, <3>1, <3>2 DEF EntriesFound
    <3> QED
      BY <1>1, <3>3
  <2>7. CASE ~ Stored(x) /\ \A s \in OldSlots : ~ Left(s, x)
    <3>1. ~ Stored(x)'
      BY <2>2, <2>4, <2>7 DEF Stored
    <3> QED
      BY <1>1, <1>2, <2>3, <2>7, <3>1 DEF EntriesFound
  <2> QED
    BY <2>5, <2>6, <2>7
<1> QED
  BY <1>6, <1>7

\* A deletion removes its key.
LEMMA BuryMaps ==
  ASSUME RefInv, RefInv', phase = "ready", phase' = "ready",
         NEW k \in Keys, NEW m \in Slots(cap), Holds(m, k), Bury(m), NEW x \in Keys
  PROVE  Entry(x)' = IF x = k THEN NoValue ELSE Entry(x)
<1>1. EntriesFound' /\ OldSlots' = {} /\ TableInv
  BY EntryIsNext DEF RefInv, OldInv, CounterInv, MapInv
<1>2. /\ cap' = cap /\ vals' = vals
      /\ keys' = [keys EXCEPT ![m] = NoKey] /\ state' = [state EXCEPT ![m] = "DEL"]
  BY DEF Bury
<1>3. \A s \in Slots(cap) : Holds(s, x)' <=> s # m /\ Holds(s, x)
  BY <1>1, <1>2 DEF Holds, TableInv, ArraysTyped
<1>4. \A s \in Slots(cap) : Holds(s, k) => s = m
  BY <1>1 DEF Holds, TableInv, OneSlotPerKey
<1>5. CASE x = k
  <2>1. ~ Stored(x)'
    BY <1>2, <1>3, <1>4, <1>5 DEF Stored
  <2> QED
    BY <1>1, <1>5, <2>1 DEF EntriesFound
<1>6. CASE x # k /\ Stored(x)
  <2>1. PICK s \in Slots(cap) : Holds(s, x)
    BY <1>6 DEF Stored
  <2>2. s # m /\ Holds(s, x)'
    BY <1>3, <1>6, <2>1 DEF Holds
  <2>3. Entry(x)' = vals'[s]
    BY <1>1, <1>2, <2>2 DEF EntriesFound
  <2>4. Entry(x) = vals[s]
    BY <2>1, ReadyEntries
  <2> QED
    BY <1>2, <1>6, <2>3, <2>4
<1>7. CASE x # k /\ ~ Stored(x)
  <2>1. ~ Stored(x)'
    BY <1>2, <1>3, <1>7 DEF Stored
  <2>2. Entry(x)' = NoValue
    BY <1>1, <2>1 DEF EntriesFound
  <2> QED
    BY <1>7, <2>2, ReadyEntries
<1> QED
  BY <1>5, <1>6, <1>7

\* FinishRehash leaves no table behind it, and its HashMapSet is the caller's.
LEMMA FinishRehashMaps ==
  ASSUME RefInv, RefInv', FinishRehash
  PROVE  /\ pending[1] \in Keys /\ pending[2] \in Values
         /\ \A x \in Keys : Entry(x)' = IF x = pending[1] THEN pending[2] ELSE Entry(x)
<1>1. /\ phase = "rehash" /\ next \notin OldSlots /\ old' = Freed
      /\ Place(pending[1], pending[2])
      /\ pending[1] \in Keys /\ pending[2] \in Values
  BY DEF FinishRehash, RefInv, CounterInv, MapInv, PendingTyped
<1>2. TableInv /\ cap > 0 /\ Room
  BY <1>1, RehashIsNeverCrowded, UncrowdedHasRoom DEF RefInv, CounterInv, MapInv
<1>3. OldSlots' = {}
  BY <1>1 DEF OldSlots, Freed, Slots
<1>4. PICK c \in Nat : OldSlots = Slots(c)
  BY <1>1 DEF RefInv, CounterInv, RehashRoom
<1>5. \A s \in OldSlots : ~ (s >= next)
  BY <1>1, <1>4 DEF Slots, RefInv, CounterInv, MapInv, ScalarsTyped
<1>6. PICK k \in Keys, v \in Values : k = pending[1] /\ v = pending[2]
  BY <1>1
<1>7. \A x \in Keys \ {k} : \A s :
        s \in OldSlots' /\ Left(s, x)' <=> s \in OldSlots /\ Left(s, x)
  BY <1>3, <1>5 DEF Left
<1>8. Place(k, v) /\ \A s \in OldSlots' : old'.vals[s] = old.vals[s]
  BY <1>1, <1>3, <1>6
<1>9. \A x \in Keys : Entry(x)' = IF x = k THEN v ELSE Entry(x)
  BY <1>2, <1>7, <1>8, PlaceMaps
<1> QED
  BY <1>1, <1>6, <1>9

\* A change of one key's value is an assignment to the map.
LEMMA OneEntryChanges ==
  ASSUME NEW k \in Keys, NEW v,
         \A x \in Keys : Entry(x)' = IF x = k THEN v ELSE Entry(x)
  PROVE  [x \in Keys |-> Entry(x)]' = [[x \in Keys |-> Entry(x)] EXCEPT ![k] = v]
OBVIOUS

\* A step after which every key has the value it had.
LEMMA NoEntryChanges ==
  ASSUME \A x \in Keys : Entry(x)' = Entry(x)
  PROVE  [x \in Keys |-> Entry(x)]' = [x \in Keys |-> Entry(x)]
OBVIOUS

\* The value of a key depends on the two tables only.
LEMMA SameTables ==
  ASSUME UNCHANGED <<table, copying>>
  PROVE  [x \in Keys |-> Entry(x)]' = [x \in Keys |-> Entry(x)]
BY DEF table, copying, Entry, Holds, OldSlots

\* Every step of the table is a step of the map, or changes nothing in it.
LEMMA StepMapsToStep ==
  RefInv /\ RefInv' /\ NotFilled /\ [Next]_vars => [Abstract!Next]_(Abstract!vars)
<1> SUFFICES ASSUME RefInv, RefInv', NotFilled, [Next]_vars
             PROVE  [Abstract!Next]_(Abstract!vars)
  OBVIOUS
<1>1. CASE HashMapInit
  <2>1. PICK n \in Nat : SetTable(n)
    BY <1>1, CapAssumption DEF HashMapInit
  <2>2. phase' # "rehash" /\ result' = result
    BY <1>1 DEF HashMapInit
  <2> QED
    BY <2>1, <2>2, FreshMapsToClear
<1>2. CASE HashMapFree
  <2>1. SetTable(0) /\ phase' # "rehash" /\ result' = result
    BY <1>2 DEF HashMapFree
  <2> QED
    BY <2>1, FreshMapsToClear
<1>3. ASSUME NEW k \in Keys, NEW v \in Values, SetInPlace(k, v)
      PROVE  Abstract!Next
  <2>1. /\ phase = "ready" /\ phase' = "ready" /\ cap > 0 /\ Place(k, v)
        /\ UNCHANGED <<copying, result>>
    BY <1>3 DEF SetInPlace
  <2>2. Room /\ OldSlots = {} /\ OldSlots' = {}
    BY <2>1, ReadyHasRoom DEF RefInv, OldInv
  <2>3. \A x \in Keys : Entry(x)' = IF x = k THEN v ELSE Entry(x)
    BY <2>1, <2>2, PlaceMaps
  <2>4. Abstract!Set(k, v)
    BY <2>1, <2>3, OneEntryChanges DEF Abstract!Set
  <2> QED
    BY <2>4 DEF Abstract!Next
<1>4. ASSUME NEW k \in Keys, NEW v \in Values, StartRehash(k, v)
      PROVE  UNCHANGED Abstract!vars
  <2>1. \A x \in Keys : Entry(x)' = Entry(x)
    BY <1>4, StartRehashMaps
  <2> QED
    BY <1>4, <2>1, NoEntryChanges DEF StartRehash, Abstract!vars
<1>5. ASSUME NEW k \in Keys, NEW v \in Values, FailRehash(k, v)
      PROVE  Abstract!Next
  <2>1. SetTable(0) /\ phase' # "rehash" /\ result' = result
    BY <1>5 DEF FailRehash
  <2> QED
    BY <2>1, FreshMapsToClear
<1>6. CASE CopySlot
  <2>1. \A x \in Keys : Entry(x)' = Entry(x)
    BY <1>6, CopySlotMaps
  <2> QED
    BY <1>6, <2>1, NoEntryChanges DEF CopySlot, Abstract!vars
<1>7. CASE FinishRehash
  <2>1. /\ pending[1] \in Keys /\ pending[2] \in Values
        /\ \A x \in Keys : Entry(x)' = IF x = pending[1] THEN pending[2] ELSE Entry(x)
    BY <1>7, FinishRehashMaps
  <2>2. result' = result
    BY <1>7 DEF FinishRehash
  <2>3. Abstract!Set(pending[1], pending[2])
    BY <2>1, <2>2, OneEntryChanges DEF Abstract!Set
  <2> QED
    BY <2>1, <2>3 DEF Abstract!Next
<1>8. ASSUME NEW k \in Keys, HashMapGet(k)
      PROVE  Abstract!Next
  <2>1. /\ phase = "ready" /\ cap > 0 /\ UNCHANGED <<table, copying>>
        /\ result' = IF state[HMSlot(k)] = "FULL" THEN vals[HMSlot(k)] ELSE NoValue
    BY <1>8 DEF HashMapGet
  <2>2. result' = Entry(k)
    BY <2>1, ReadySlot, ReadyEntries
  <2>3. Abstract!Get(k)
    BY <2>1, <2>2, SameTables DEF Abstract!Get
  <2> QED
    BY <2>3 DEF Abstract!Next
<1>9. ASSUME NEW k \in Keys, HashMapDel(k)
      PROVE  Abstract!Next
  <2>1. phase = "ready" /\ phase' = "ready" /\ cap > 0 /\ UNCHANGED copying
    BY <1>9 DEF HashMapDel
  <2>2. CASE state[HMSlot(k)] = "FULL"
    <3>1. HMSlot(k) \in Slots(cap) /\ Holds(HMSlot(k), k)
      BY <2>1, <2>2, ReadySlot
    <3>2. Bury(HMSlot(k)) /\ result' = 1
      BY <1>9, <2>2 DEF HashMapDel
    <3>3. \A x \in Keys : Entry(x)' = IF x = k THEN NoValue ELSE Entry(x)
      BY <2>1, <3>1, <3>2, BuryMaps
    <3>4. Entry(k) # NoValue
      BY <2>1, <3>1, ReadyEntries
    <3>5. Abstract!Del(k)
      BY <3>2, <3>3, <3>4, OneEntryChanges DEF Abstract!Del, Abstract!Present
    <3> QED
      BY <3>5 DEF Abstract!Next
  <2>3. CASE state[HMSlot(k)] # "FULL"
    <3>1. UNCHANGED table /\ result' = 0
      BY <1>9, <2>3 DEF HashMapDel
    <3>2. Entry(k) = NoValue
      BY <2>1, <2>3, ReadySlot, ReadyEntries
    <3>3. [x \in Keys |-> Entry(x)]' = [x \in Keys |-> Entry(x)]
      BY <2>1, <3>1, SameTables
    <3>4. [x \in Keys |-> Entry(x)] = [[x \in Keys |-> Entry(x)] EXCEPT ![k] = NoValue]
      BY <3>2
    <3>5. Abstract!Del(k)
      BY <3>1, <3>2, <3>3, <3>4 DEF Abstract!Del, Abstract!Present
    <3> QED
      BY <3>5 DEF Abstract!Next
  <2> QED
    BY <2>2, <2>3
<1>10. CASE HashMapCount
  <2>1. phase = "ready" /\ result' = cnt /\ UNCHANGED <<table, copying>>
    BY <1>10 DEF HashMapCount
  <2>2. cnt = Cardinality({k \in Keys : Entry(k) # NoValue})
    BY <2>1, CountIsPresent
  <2>3. Abstract!Present = {k \in Keys : Entry(k) # NoValue}
    BY DEF Abstract!Present
  <2>4. Abstract!Cardinality(Abstract!Present) = Cardinality(Abstract!Present)
    BY DEF Abstract!Cardinality, Cardinality
  <2>5. Abstract!Count
    BY <2>1, <2>2, <2>3, <2>4, SameTables DEF Abstract!Count
  <2> QED
    BY <2>5 DEF Abstract!Next
<1>11. ASSUME UseWithoutTable \/ UNCHANGED vars
       PROVE  UNCHANGED Abstract!vars
  <2>1. UNCHANGED <<table, copying>> /\ result' = result
    BY <1>11 DEF UseWithoutTable, Crash, vars, table, copying
  <2> QED
    BY <2>1, SameTables DEF Abstract!vars
<1> QED
  BY <1>1, <1>2, <1>3, <1>4, <1>5, <1>6, <1>7, <1>8, <1>9, <1>10, <1>11 DEF Next

\* Before HashMapInit no key has a value.
LEMMA InitMapsToInit == Init => RefInv /\ Abstract!Init
<1> SUFFICES ASSUME Init PROVE RefInv /\ Abstract!Init
  OBVIOUS
<1>1. Slots(cap) = {} /\ OldSlots = {} /\ phase = "none" /\ result = 0
  BY DEF Init, OldSlots, Freed, Slots
<1>2. CounterInv
  BY InitCounts
<1>3. ValuesWritten /\ OldInv
  BY <1>1 DEF ValuesWritten, OldInv, OldOneSlot
<1>4. \A k \in Keys : Entry(k) = NoValue
  BY <1>1 DEF Entry
<1>5. [k \in Keys |-> Entry(k)] = [k \in Keys |-> NoValue]
  BY <1>4
<1> QED
  BY <1>1, <1>2, <1>3, <1>5 DEF RefInv, Abstract!Init, Abstract!Nothing

\* The hash map is a map: as long as the largest table is not filled, whatever is
\* inserted, deleted, stored in the place of a tombstone or moved to a larger table,
\* every key has the value last set for it until it is deleted.
THEOREM HashMapIsKeyMap == Spec /\ []NotFilled => IsKeyMap
<1>1. Init => RefInv /\ Abstract!Init
  BY InitMapsToInit
<1>2. RefInv /\ NotFilled /\ [Next]_vars => RefInv'
  BY StepKeepsRef
<1>3. RefInv /\ RefInv' /\ NotFilled /\ [Next]_vars => [Abstract!Next]_(Abstract!vars)
  BY StepMapsToStep
<1> QED
  BY <1>1, <1>2, <1>3, PTL DEF Spec, IsKeyMap, Abstract!Spec
=============================================================================
