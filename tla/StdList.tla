------------------------------ MODULE StdList -------------------------------
(***************************************************************************)
(* src/stdlib/list.HC: circular doubly linked lists.  A node belongs to    *)
(* the heap, to a list, or to the client, who took it out with QueRem or   *)
(* made it on its own.  An unlinked node of a client links to itself.      *)
(***************************************************************************)
EXTENDS Integers, FiniteSets

CONSTANTS
    Nodes,      \* addresses MAlloc can return for a node
    Heads,      \* the list heads, initialised with QueInit
    Values,     \* what clients push
    Junk        \* the fields of memory nobody has written

VARIABLES
    next, prev, val,    \* the fields
    live,               \* the nodes that are allocated
    result              \* what the last QuePopFront or QueCnt returned

vars == <<next, prev, val, live, result>>

Cells == Nodes \union Heads

\* Every head has gone through QueInit.
Init ==
    /\ next = [c \in Cells |-> IF c \in Heads THEN c ELSE Junk]
    /\ prev = [c \in Cells |-> IF c \in Heads THEN c ELSE Junk]
    /\ val = [c \in Cells |-> IF c \in Heads THEN 0 ELSE Junk]
    /\ live = {}
    /\ result = 0

\* QueInsAfter on fields next and prev: four assignments, the third of which reads
\* pos->next before the fourth changes it.
InsAfter(pos, n) ==
    /\ next' = [next EXCEPT ![n] = next[pos], ![pos] = n]
    /\ prev' = [prev EXCEPT ![n] = pos, ![next[pos]] = n]

\* MUTANT of Rem: the successor is not told.
RemForwardOnly(n) ==
    /\ next' = [next EXCEPT ![prev[n]] = next[n], ![n] = n]
    /\ prev' = [prev EXCEPT ![n] = n]

\* QueRem: the neighbours are joined, then the node is linked to itself.
Rem(n) ==
    /\ next' = [next EXCEPT ![prev[n]] = next[n], ![n] = n]
    /\ prev' = [prev EXCEPT ![next[n]] = prev[n], ![n] = n]

\* The nodes of a list, from the head: the loop of QueCnt.  A list that does not
\* come back to its head within Cardinality(Nodes) steps never does.
Reached(h) ==
    LET at[i \in 0 .. Cardinality(Nodes) + 1] ==
          IF i = 0 THEN next[h]
          ELSE IF at[i - 1] \in Nodes THEN next[at[i - 1]]
          ELSE at[i - 1]
    IN  at
Members(h) == {n \in Nodes : \E i \in 0 .. Cardinality(Nodes) : Reached(h)[i] = n}
Linked == UNION {Members(h) : h \in Heads}
Loose == live \ Linked

QuePush(h, v) ==
    \E n \in Nodes \ live :
        /\ live' = live \union {n}
        /\ val' = [val EXCEPT ![n] = v]
        /\ InsAfter(h, n)
        /\ UNCHANGED result

\* QueInsAfter of a node the client owns, at any place of a list.
QueInsAfter(pos, n) ==
    /\ pos \in Heads \union Linked /\ n \in Loose
    /\ InsAfter(pos, n)
    /\ UNCHANGED <<val, live, result>>

\* QueRem of a linked node, or of one that is unlinked already.
QueRem(n) ==
    /\ n \in live
    /\ Rem(n)
    /\ UNCHANGED <<val, live, result>>

\* Free, by the client, of a node it owns.
FreeNode(n) ==
    /\ n \in Loose
    /\ live' = live \ {n}
    /\ UNCHANGED <<next, prev, val, result>>

QuePopFront(h) ==
    /\ result' = IF next[h] = h THEN 0 ELSE val[next[h]]
    /\ IF next[h] = h
       THEN UNCHANGED <<next, prev, live>>
       ELSE Rem(next[h]) /\ live' = live \ {next[h]}
    /\ UNCHANGED val

QueCnt(h) ==
    /\ result' = Cardinality(Members(h))
    /\ UNCHANGED <<next, prev, val, live>>

Next ==
    \/ \E h \in Heads : (\E v \in Values : QuePush(h, v)) \/ QuePopFront(h) \/ QueCnt(h)
    \/ \E n \in Nodes : QueRem(n) \/ FreeNode(n) \/ \E pos \in Cells : QueInsAfter(pos, n)

Spec == Init /\ [][Next]_vars

(***************************************************************************)
(* Properties                                                              *)
(***************************************************************************)
\* next and prev of every head and every allocated node are inverse to each other
\* and lead to allocated nodes only.
LinksAreInverse ==
    \A c \in Heads \union live :
        /\ next[c] \in Heads \union live /\ prev[next[c]] = c
        /\ prev[c] \in Heads \union live /\ next[prev[c]] = c

\* Every list comes back to its own head, and no node is in two lists.
ListsAreDisjointRings ==
    /\ \A h \in Heads : Reached(h)[Cardinality(Nodes) + 1] = h
    /\ \A g, h \in Heads : g # h => Members(g) \intersect Members(h) = {}

\* A step on one list leaves the nodes of the other where they are.
OtherListUntouched ==
    [][\A g, h \in Heads :
          g # h /\ (QuePopFront(h) \/ \E v \in Values : QuePush(h, v)) =>
             Members(g)' = Members(g)]_vars

=============================================================================
