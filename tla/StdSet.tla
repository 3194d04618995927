------------------------------- MODULE StdSet -------------------------------
(***************************************************************************)
(* src/stdlib/set.HC: a set of I64 in one global table of fixed size, with *)
(* linear probing.  HolyC's % truncates and SetHash corrects a negative    *)
(* remainder, which together is the % of TLA+.                             *)
(***************************************************************************)
EXTENDS Integers, FiniteSets

CONSTANTS
    Keys,       \* the values clients add, ask for and remove
    Size        \* SET_SIZE: 256

VARIABLES
    set_keys, set_used,     \* the table
    removed                 \* history: a key was removed since SetNew

vars == <<set_keys, set_used, removed>>

Slots == 0 .. Size - 1

SetHash(k) == k % Size

Probe(k, j) == (SetHash(k) + j) % Size

\* The loop the three operations share: it passes used slots that hold other keys
\* and ends at an unused slot, at the key, or back where it started.
Stops(k) == {j \in Slots : ~ set_used[Probe(k, j)] \/ set_keys[Probe(k, j)] = k}
FirstStop(k) == CHOOSE j \in Stops(k) : \A i \in Stops(k) : j <= i
StopSlot(k) == Probe(k, FirstStop(k))

Full == \A s \in Slots : set_used[s]

SetHas(k) == Stops(k) # {} /\ set_used[StopSlot(k)]

Init ==
    /\ set_keys = [s \in Slots |-> 0]
    /\ set_used = [s \in Slots |-> FALSE]
    /\ removed = FALSE

\* SetNew, and SetFree, which calls it.
SetNew ==
    /\ set_keys' = [s \in Slots |-> 0]
    /\ set_used' = [s \in Slots |-> FALSE]
    /\ removed' = FALSE

\* MUTANT of SetAdd: the index moves on before the slot is written.
SetAddNextSlot(k) ==
    IF Stops(k) = {} \/ SetHas(k)
    THEN UNCHANGED vars
    ELSE /\ set_keys' = [set_keys EXCEPT ![(StopSlot(k) + 1) % Size] = k]
         /\ set_used' = [set_used EXCEPT ![(StopSlot(k) + 1) % Size] = TRUE]
         /\ UNCHANGED removed

SetAdd(k) ==
    IF Stops(k) = {} \/ SetHas(k)
    THEN UNCHANGED vars
    ELSE /\ set_keys' = [set_keys EXCEPT ![StopSlot(k)] = k]
         /\ set_used' = [set_used EXCEPT ![StopSlot(k)] = TRUE]
         /\ UNCHANGED removed

SetRemove(k) ==
    /\ set_used' = IF SetHas(k) THEN [set_used EXCEPT ![StopSlot(k)] = FALSE]
                   ELSE set_used
    /\ removed' = (removed \/ SetHas(k))
    /\ UNCHANGED set_keys

Next ==
    \/ SetNew
    \/ \E k \in Keys : SetAdd(k) \/ SetRemove(k)

Spec == Init /\ [][Next]_vars

(***************************************************************************)
(* Properties                                                              *)
(***************************************************************************)
Stored == {set_keys[s] : s \in {t \in Slots : set_used[t]}}

\* docs/docs.html: SetHas checks "if a value exists in the set".  Every stored key
\* is found from its hash, whatever was added after it.
StoredIsFound == \A k \in Stored : SetHas(k)

\* A key is stored once, so that one SetRemove removes it.
StoredOnce ==
    Cardinality(Stored) = Cardinality({s \in Slots : set_used[s]})

\* After SetRemove(k), SetHas(k) is false, also when k had been stored twice.
RemovedIsNotFound ==
    [][\A k \in Keys : SetRemove(k) => ~ SetHas(k)']_vars

\* As long as nothing is removed, every stored key is found and is stored once; and
\* a key that was just removed is not found, whatever happened before.
SetAnswersRight ==
    [](~ removed => StoredIsFound /\ StoredOnce) /\ RemovedIsNotFound
=============================================================================
