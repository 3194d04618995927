------------------------------ MODULE StdTree -------------------------------
(***************************************************************************)
(* src/stdlib/tree.HC: an unbalanced search tree in three global arrays;   *)
(* index 0 is the null link.  The client holds the root and gives it up    *)
(* with TreeFree, which only resets the allocator.                         *)
(***************************************************************************)
EXTENDS Integers, FiniteSets

CONSTANTS
    Keys,       \* the values clients insert and look for
    Max         \* TREE_MAX: 1024

VARIABLES
    tree_key, tree_left, tree_right,    \* the arrays
    tree_size,                          \* the next index TreeAlloc returns
    root                                \* the client's root, 0 for an empty tree

vars == <<tree_key, tree_left, tree_right, tree_size, root>>

Slots == 0 .. Max - 1
AllZero == [i \in Slots |-> 0]

\* The program calls TreeNew before anything else.
Init ==
    /\ tree_key = AllZero /\ tree_left = AllZero /\ tree_right = AllZero
    /\ tree_size = 1
    /\ root = 0

TreeNew ==
    /\ tree_key' = AllZero /\ tree_left' = AllZero /\ tree_right' = AllZero
    /\ tree_size' = 1
    /\ root' = 0

TreeFree ==
    /\ tree_size' = 1
    /\ root' = 0
    /\ UNCHANGED <<tree_key, tree_left, tree_right>>

\* Following the link that k takes from a node; 0 at the end and at k itself.
Step(n, k) == IF k < tree_key[n] THEN tree_left[n]
              ELSE IF k > tree_key[n] THEN tree_right[n]
              ELSE 0

\* The nodes a search for k visits, by number of steps; 0 once it has ended.  More
\* steps than nodes means that it never ends.
Path(k) ==
    LET at[i \in 0 .. Max] ==
          IF i = 0 THEN root
          ELSE IF at[i - 1] = 0 THEN 0 ELSE Step(at[i - 1], k)
    IN  at

LastNode(k) == Path(k)[CHOOSE i \in 0 .. Max - 1 :
                          Path(k)[i] # 0 /\ Path(k)[i + 1] = 0]
SearchEnds(k) == Path(k)[Max] = 0

TreeFind(k) == \E i \in 0 .. Max : Path(k)[i] # 0 /\ tree_key[Path(k)[i]] = k

\* MUTANT of Reset: a node taken again keeps its links.
ResetKeepsLinks(n, k) ==
    /\ tree_key' = [tree_key EXCEPT ![n] = k]
    /\ UNCHANGED <<tree_left, tree_right>>

\* The node TreeAlloc returns, before it is linked.
Reset(n, k) ==
    /\ tree_key' = [tree_key EXCEPT ![n] = k]
    /\ tree_left' = [tree_left EXCEPT ![n] = 0]
    /\ tree_right' = [tree_right EXCEPT ![n] = 0]

\* TreeInsert into an empty tree.  A full one gives the client the null link.
InsertRoot(k) ==
    /\ root = 0
    /\ IF tree_size >= Max
       THEN UNCHANGED vars
       ELSE /\ Reset(tree_size, k)
            /\ root' = tree_size
            /\ tree_size' = tree_size + 1

LinkLeaf(n, k) ==
    /\ tree_key' = [tree_key EXCEPT ![tree_size] = k]
    /\ tree_left' = [tree_left EXCEPT ![tree_size] = 0,
                                      ![n] = IF k < tree_key[n] THEN tree_size ELSE @]
    /\ tree_right' = [tree_right EXCEPT ![tree_size] = 0,
                                        ![n] = IF k > tree_key[n] THEN tree_size ELSE @]

\* TreeInsertAt.  When no node is left the link that was 0 is set to 0.
InsertLeaf(k) ==
    /\ root # 0
    /\ IF tree_size >= Max \/ tree_key[LastNode(k)] = k
       THEN UNCHANGED vars
       ELSE /\ LinkLeaf(LastNode(k), k)
            /\ tree_size' = tree_size + 1
            /\ UNCHANGED root

Next ==
    \/ TreeNew
    \/ TreeFree
    \/ \E k \in Keys : InsertRoot(k) \/ InsertLeaf(k)

Spec == Init /\ [][Next]_vars

(***************************************************************************)
(* Properties                                                              *)
(***************************************************************************)
Nodes == 1 .. tree_size - 1
InTree == {tree_key[n] : n \in IF root = 0 THEN {} ELSE Nodes}

\* Every key that was given a node is found, and no other.
FindsExactlyTheKeys == \A k \in Keys : TreeFind(k) <=> k \in InTree

\* The links to n from older nodes.
LinksTo(n) ==
    {l \in Nodes \X {"left", "right"} :
        /\ l[1] < n
        /\ n = IF l[2] = "left" THEN tree_left[l[1]] ELSE tree_right[l[1]]}

\* No key has two nodes, also in arrays that hold the links of an earlier tree, and
\* every node but the root has one link to it, from an older node.
NodesFormTree ==
    /\ Cardinality(InTree) = IF root = 0 THEN 0 ELSE tree_size - 1
    /\ root # 0 => \A n \in Nodes \ {root} : Cardinality(LinksTo(n)) = 1

TreeIsSearchTree == NodesFormTree /\ FindsExactlyTheKeys
=============================================================================
