------------------------------- MODULE KeyMap -------------------------------
(***************************************************************************)
(* What a map from keys to integers promises: a key has the value last set *)
(* for it until it is deleted or the map is emptied, whatever is done to   *)
(* other keys.                                                             *)
(***************************************************************************)
EXTENDS Integers, FiniteSets

CONSTANTS
    Keys, Values,
    NoValue     \* what a key that is not in the map has

VARIABLES
    map,        \* the value of every key
    result      \* what the last call returned

vars == <<map, result>>

Present == {k \in Keys : map[k] # NoValue}
Nothing == [k \in Keys |-> NoValue]

Init == map = Nothing /\ result = 0

Set(k, v) == map' = [map EXCEPT ![k] = v] /\ UNCHANGED result

Get(k) == result' = map[k] /\ UNCHANGED map

Del(k) ==
    /\ result' = IF k \in Present THEN 1 ELSE 0
    /\ map' = [map EXCEPT ![k] = NoValue]

Count == result' = Cardinality(Present) /\ UNCHANGED map

Clear == map' = Nothing /\ UNCHANGED result

Next ==
    \/ \E k \in Keys : (\E v \in Values : Set(k, v)) \/ Get(k) \/ Del(k)
    \/ Count
    \/ Clear

Spec == Init /\ [][Next]_vars
=============================================================================
