----------------------------- MODULE StdHashMap -----------------------------
(***************************************************************************)
(* src/stdlib/hashmap.HC: an open-addressing table from strings to I64,    *)
(* with tombstones, that doubles before it is three quarters full.         *)
(*                                                                         *)
(* A string is a member of Keys and _HMHash one function on them.  The     *)
(* copy loop of HashMapRehash is a step per slot, because HashMapSet is    *)
(* called from it on a map whose entries are still in two tables.          *)
(* _HMDup is taken to succeed, as the code takes it.                       *)
(***************************************************************************)
EXTENDS Integers, FiniteSets

CONSTANTS
    Keys,           \* the strings used as keys
    Values,         \* what clients store
    Hash,           \* _HMHash
    NoKey,          \* a null key pointer, or one never written
    NoValue,        \* the answer to a key that is absent, and unwritten values
    InitialCap,     \* HASHMAP_INIT_CAP: 16
    MaxCap,         \* capacity HashMapRehash refuses to exceed: 134217728
    AllocFails      \* whether MAlloc and CAlloc may return NULL

ASSUME KeysAssumption ==
    /\ NoKey \notin Keys
    /\ NoValue \notin Values
    /\ Hash \in [Keys -> Nat]

\* & (cap - 1) is % cap because capacities are powers of two; the model uses %
\* and so needs no more of them than this.
ASSUME CapAssumption ==
    /\ InitialCap \in Nat \ {0}
    /\ MaxCap \in Nat
    /\ AllocFails \in BOOLEAN

VARIABLES
    keys, vals, state,  \* the three parallel arrays
    cap, cnt, dcnt,     \* slots, FULL slots, DEL slots
    phase,              \* "none": before HashMapInit or after HashMapFree;
                        \* "ready"; "rehash": inside HashMapRehash;
                        \* "crashed": a NULL array was indexed
    old,                \* rehash: the arrays being emptied
    next,               \* rehash: i, the slot of old to be copied
    pending,            \* rehash: arguments of the HashMapSet that waits for it
    result              \* what the last call returned

vars == <<keys, vals, state, cap, cnt, dcnt,
          phase, old, next, pending, result>>
table == <<keys, vals, state, cap, cnt, dcnt>>
copying == <<old, next, pending>>

Slots(n) == 0 .. n - 1

\* _HMSlot.  The scan starts at the slot the hash names and stops at an EMPTY
\* slot or at the key.
Probe(k, j) == (Hash[k] + j) % cap
Holds(s, k) == state[s] = "FULL" /\ keys[s] = k
Stops(k) == {j \in Slots(cap) : \/ state[Probe(k, j)] = "EMPTY"
                                \/ Holds(Probe(k, j), k)}
FirstStop(k) == CHOOSE j \in Stops(k) : \A i \in Stops(k) : j <= i

\* The tombstones it passes on the way.
Passed(k) == {j \in Slots(cap) : /\ state[Probe(k, j)] = "DEL"
                                 /\ \A i \in Stops(k) : j < i}
FirstPassed(k) == CHOOSE j \in Passed(k) : \A i \in Passed(k) : j <= i
KeyFound(k) == Stops(k) # {} /\ Holds(Probe(k, FirstStop(k)), k)

\* MUTANT of HMSlot: a tombstone ends the scan.
HMSlotStopsAtTombstone(k) ==
    Probe(k, IF Passed(k) # {} THEN FirstPassed(k)
             ELSE IF Stops(k) # {} THEN FirstStop(k)
             ELSE 0)

HMSlot(k) ==
    Probe(k, IF KeyFound(k) THEN FirstStop(k)
             ELSE IF Passed(k) # {} THEN FirstPassed(k)
             ELSE IF Stops(k) # {} THEN FirstStop(k)
             ELSE 0)

\* Arrays that were freed or never allocated.
Freed == [keys |-> [s \in Slots(0) |-> NoKey],
          vals |-> [s \in Slots(0) |-> NoValue],
          state |-> [s \in Slots(0) |-> "EMPTY"]]

\* A table of n slots as it is after MAlloc, MAlloc and CAlloc.
SetTable(n) ==
    /\ keys' = [s \in Slots(n) |-> NoKey]
    /\ vals' = [s \in Slots(n) |-> NoValue]
    /\ state' = [s \in Slots(n) |-> "EMPTY"]
    /\ cap' = n /\ cnt' = 0 /\ dcnt' = 0

-----------------------------------------------------------------------------
Init ==
    /\ keys = Freed.keys /\ vals = Freed.vals /\ state = Freed.state
    /\ cap = 0 /\ cnt = 0 /\ dcnt = 0
    /\ phase = "none"
    /\ old = Freed /\ next = 0 /\ pending = <<>>
    /\ result = 0

\* A map whose arrays could not be allocated looks like any other to its owner.
HashMapInit ==
    /\ phase = "none"
    /\ phase' = "ready"
    /\ \/ SetTable(InitialCap)
       \/ AllocFails /\ SetTable(0)
    /\ UNCHANGED <<copying, result>>

HashMapFree ==
    /\ phase = "ready"
    /\ phase' = "none"
    /\ SetTable(0)
    /\ UNCHANGED <<copying, result>>

\* MUTANT of Insert: a tombstone that is used again stays counted.
InsertKeepsTombstone(s, k, v) ==
    /\ keys' = [keys EXCEPT ![s] = k]
    /\ vals' = [vals EXCEPT ![s] = v]
    /\ state' = [state EXCEPT ![s] = "FULL"]
    /\ cnt' = cnt + 1
    /\ UNCHANGED <<cap, dcnt>>

\* The end of HashMapSet when the slot found for the key is not FULL.
Insert(s, k, v) ==
    /\ keys' = [keys EXCEPT ![s] = k]
    /\ vals' = [vals EXCEPT ![s] = v]
    /\ state' = [state EXCEPT ![s] = "FULL"]
    /\ cnt' = cnt + 1
    /\ dcnt' = IF state[s] = "DEL" THEN dcnt - 1 ELSE dcnt
    /\ UNCHANGED cap

Place(k, v) ==
    IF state[HMSlot(k)] = "FULL"
    THEN /\ vals' = [vals EXCEPT ![HMSlot(k)] = v]
         /\ UNCHANGED <<keys, state, cap, cnt, dcnt>>
    ELSE Insert(HMSlot(k), k, v)

Crowded == (cnt + dcnt + 1) * 4 > cap * 3

\* With no table the scan ends at once and HashMapSet reads state[] of NULL.
Crash ==
    /\ phase' = "crashed"
    /\ UNCHANGED <<table, copying, result>>

\* HashMapSet without HashMapRehash, or with one that refuses to grow.
SetInPlace(k, v) ==
    /\ phase = "ready" /\ cap > 0
    /\ Crowded => cap * 2 > MaxCap
    /\ Place(k, v)
    /\ UNCHANGED <<phase, copying, result>>

StartRehash(k, v) ==
    /\ phase = "ready" /\ cap > 0
    /\ Crowded /\ cap * 2 <= MaxCap
    /\ phase' = "rehash"
    /\ old' = [keys |-> keys, vals |-> vals, state |-> state]
    /\ next' = 0
    /\ pending' = <<k, v>>
    /\ SetTable(cap * 2)
    /\ UNCHANGED result

\* No memory for the larger table: everything is dropped, HashMapSet goes on.
FailRehash(k, v) ==
    /\ AllocFails
    /\ phase = "ready" /\ cap > 0
    /\ Crowded /\ cap * 2 <= MaxCap
    /\ phase' = "crashed"
    /\ SetTable(0)
    /\ UNCHANGED <<copying, result>>

OldSlots == DOMAIN old.state

\* One turn of the loop: HashMapSet for an entry of the old table.
CopySlot ==
    /\ phase = "rehash" /\ next \in OldSlots
    /\ next' = next + 1
    /\ IF old.state[next] = "FULL"
       THEN Place(old.keys[next], old.vals[next])
       ELSE UNCHANGED table
    /\ UNCHANGED <<phase, old, pending, result>>

\* The old arrays are freed and the waiting HashMapSet goes on.
FinishRehash ==
    /\ phase = "rehash" /\ next \notin OldSlots
    /\ Place(pending[1], pending[2])
    /\ phase' = "ready"
    /\ old' = Freed /\ next' = 0 /\ pending' = <<>>
    /\ UNCHANGED result

HashMapGet(k) ==
    /\ phase = "ready" /\ cap > 0
    /\ result' = IF state[HMSlot(k)] = "FULL" THEN vals[HMSlot(k)] ELSE NoValue
    /\ UNCHANGED <<table, phase, copying>>

\* MUTANT of Bury: the slot is given back to the free ones.
BuryAsEmpty(s) ==
    /\ keys' = [keys EXCEPT ![s] = NoKey]
    /\ state' = [state EXCEPT ![s] = "EMPTY"]
    /\ cnt' = cnt - 1
    /\ UNCHANGED <<vals, cap, dcnt>>

Bury(s) ==
    /\ keys' = [keys EXCEPT ![s] = NoKey]
    /\ state' = [state EXCEPT ![s] = "DEL"]
    /\ cnt' = cnt - 1
    /\ dcnt' = dcnt + 1
    /\ UNCHANGED <<vals, cap>>

HashMapDel(k) ==
    /\ phase = "ready" /\ cap > 0
    /\ IF state[HMSlot(k)] = "FULL"
       THEN Bury(HMSlot(k)) /\ result' = 1
       ELSE UNCHANGED table /\ result' = 0
    /\ UNCHANGED <<phase, copying>>

HashMapCount ==
    /\ phase = "ready"
    /\ result' = cnt
    /\ UNCHANGED <<table, phase, copying>>

\* HashMapSet, HashMapGet or HashMapDel on a map whose allocation failed.
UseWithoutTable ==
    /\ phase = "ready" /\ cap = 0
    /\ Crash

Next ==
    \/ HashMapInit
    \/ HashMapFree
    \/ \E k \in Keys, v \in Values :
          SetInPlace(k, v) \/ StartRehash(k, v) \/ FailRehash(k, v)
    \/ CopySlot
    \/ FinishRehash
    \/ \E k \in Keys : HashMapGet(k) \/ HashMapDel(k)
    \/ HashMapCount
    \/ UseWithoutTable

Spec == Init /\ [][Next]_vars

(***************************************************************************)
(* Properties                                                              *)
(***************************************************************************)
\* The arrays have cap slots each and hold keys, values and slot states.
TypeOK ==
    /\ cap \in Nat /\ cnt \in Int /\ dcnt \in Int /\ next \in Nat
    /\ keys \in [Slots(cap) -> Keys \union {NoKey}]
    /\ vals \in [Slots(cap) -> Values \union {NoValue}]
    /\ state \in [Slots(cap) -> {"EMPTY", "DEL", "FULL"}]
    /\ phase \in {"none", "ready", "rehash", "crashed"}

WithState(x) == {s \in Slots(cap) : state[s] = x}

\* cnt and dcnt are what a scan of the table would count, also after tombstones
\* were used again and in the middle of a rehash.
CountsAgree ==
    /\ cnt = Cardinality(WithState("FULL"))
    /\ dcnt = Cardinality(WithState("DEL"))

\* A table that may still grow keeps an EMPTY slot, so that looking for an absent
\* key ends before it has visited every slot.
ScanEndsEarly ==
    phase = "ready" /\ cap > 0 /\ cap * 2 <= MaxCap => WithState("EMPTY") # {}

\* The HashMapSet inside HashMapRehash never starts a second rehash, which would
\* free the arrays the outer one is filling.
RehashNeverNests == phase = "rehash" => ~Crowded

\* Because the counters agree with the slots, the table keeps the room it needs.
CountersKeepRoom == CountsAgree /\ ScanEndsEarly /\ RehashNeverNests

\* A key is in one slot only, and _HMSlot finds that slot from the hash, whatever
\* was inserted, deleted or moved before.
StoredKeysAreFound ==
    \A s \in WithState("FULL") : HMSlot(keys[s]) = s

\* docs/docs.html: the allocations are verified "before proceeding".
NeverIndexesNull == phase # "crashed"

\* The value of a key, in whichever of the two tables it is.
Entry(k) ==
    IF \E s \in Slots(cap) : Holds(s, k)
    THEN vals[CHOOSE s \in Slots(cap) : Holds(s, k)]
    ELSE IF \E s \in OldSlots : s >= next /\ old.state[s] = "FULL" /\ old.keys[s] = k
    THEN old.vals[CHOOSE s \in OldSlots :
                     s >= next /\ old.state[s] = "FULL" /\ old.keys[s] = k]
    ELSE NoValue

Abstract == INSTANCE KeyMap WITH map <- [k \in Keys |-> Entry(k)]

\* The table is a map: no sequence of insertions, deletions, reuse of tombstones
\* and moves to a larger table loses an entry, revives one or confuses two keys.
IsKeyMap == Abstract!Spec
=============================================================================
