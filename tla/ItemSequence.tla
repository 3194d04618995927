---------------------------- MODULE ItemSequence ----------------------------
(***************************************************************************)
(* What a queue, a stack and a growable array of integers promise: a new   *)
(* element goes to the back, elements leave at one end, and the others     *)
(* keep their order and their values.  For elements that leave at the      *)
(* front it is a first-in first-out queue, at the back a stack.  That a    *)
(* full queue or stack drops a new element is a step that changes nothing. *)
(***************************************************************************)
EXTENDS Integers, Sequences

CONSTANTS
    Values,     \* what clients store
    Indices,    \* the indices clients ask for, in and out of range; 0 is first
    Exit        \* the end where elements leave: "front" or "back"

VARIABLES
    items,      \* the elements, the oldest first
    result      \* what the last call returned

vars == <<items, result>>

\* An index without an element reads as 0.
At(i) == IF i \in 0 .. Len(items) - 1 THEN items[i + 1] ELSE 0

Init == items = <<>> /\ result = 0

Push(v) == items' = Append(items, v) /\ UNCHANGED result

Look(i) == result' = At(i) /\ UNCHANGED items

Put(i, v) ==
    /\ items' = IF i \in 0 .. Len(items) - 1 THEN [items EXCEPT ![i + 1] = v] ELSE items
    /\ UNCHANGED result

\* The last element leaves.
Pop ==
    /\ result' = At(Len(items) - 1)
    /\ items' = IF items = <<>> THEN <<>> ELSE SubSeq(items, 1, Len(items) - 1)

\* The first element leaves.
Take ==
    /\ result' = At(0)
    /\ items' = IF items = <<>> THEN <<>> ELSE Tail(items)

Measure == result' = Len(items) /\ UNCHANGED items

Clear == items' = <<>> /\ UNCHANGED result

Next ==
    \/ \E v \in Values : Push(v) \/ \E i \in Indices : Put(i, v)
    \/ \E i \in Indices : Look(i)
    \/ Exit = "back" /\ (Pop \/ Look(Len(items) - 1))
    \/ Exit = "front" /\ (Take \/ Look(0))
    \/ Measure
    \/ Clear

Spec == Init /\ [][Next]_vars
=============================================================================
