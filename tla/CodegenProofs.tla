--------------------------- MODULE CodegenProofs ----------------------------
(***************************************************************************)
(* The compiler (Codegen) leaves no block without its end and none that    *)
(* is named but not made, for every set of programs and every depth.       *)
(*                                                                         *)
(*  1. Trees and sequences: what is above a statement, which statements    *)
(*     close a block, what a join of sequences is.                         *)
(*  2. Claims: the blocks a statement may make, apart for statements that  *)
(*     are apart.                                                          *)
(*  3. Path: tasks that can be done one after the other, with the state of *)
(*     the insertion block between them; what each kind of statement is    *)
(*     lowered to is such a path (Leads) and names only blocks that are    *)
(*     made (Settled).                                                     *)
(*  4. Compiling, the invariant of the compiler: there is a path through   *)
(*     what is left to do, and every block is closed, written to or still  *)
(*     to be opened.  One lemma per kind of task, then per step.           *)
(*  5. generate itself: the functions in their order and Main make a path  *)
(*     from nothing.                                                       *)
(*  6. Verified and Running: the code that was generated stays as it is,   *)
(*     and every activation stands at one of its instructions.             *)
(***************************************************************************)
EXTENDS InterpControlProofs

CONSTANTS
  CodePrograms,   \* the programs that are compiled
  MaxDepth        \* bound: how many calls are active

VARIABLES
  code_prog, todo, code, ins, breakTo, continueTo, phase, stack, tryStack

Code == INSTANCE Codegen WITH Programs <- CodePrograms, prog <- code_prog

\* Codegen: once a module is generated, it passes the verifier: every block ends with
\* one terminator, which leads to blocks of the module.
ModuleVerifies == Code!ModuleVerifies

-----------------------------------------------------------------------------
(* Trees, once more: who is within whom, and which labels are lowered.     *)

\* Statement a is n or one that n is within.
Above(p, a, n) ==
  LET above[m \in DOMAIN p.node] ==
        LET u == p.node[m].up IN IF m = a \/ u = 0 THEN m = a ELSE above[u]
  IN  above[n]

LEMMA AboveIs ==
  ASSUME NEW p, WellFormed(p), NEW a, NEW n \in DOMAIN p.node
  PROVE  Above(p, a, n) = IF n = a \/ p.node[n].up = 0
                        THEN n = a ELSE Above(p, a, p.node[n].up)
<1> DEFINE len == Len(p.node)
           up == [m \in 1 .. len |-> p.node[m].up]
           own == [m \in 1 .. len |-> m = a \/ p.node[m].up = 0]
           value == [m \in 1 .. len |-> m = a]
           Fits(f) == f = [m \in DOMAIN p.node |->
                             IF m = a \/ p.node[m].up = 0
                             THEN m = a ELSE f[p.node[m].up]]
<1>1. len \in Nat /\ DOMAIN p.node = 1 .. len /\ up \in [1 .. len -> Nat]
      /\ own \in [1 .. len -> BOOLEAN]
      /\ \A m \in 1 .. len : up[m] < m /\ (up[m] = 0 => own[m])
      /\ (p.node[n].up # 0 => p.node[n].up \in DOMAIN p.node)
  BY TreeIs
<1>2. PICK f : Inherits(f, len, up, own, value)
  <2> HIDE DEF len, up, own, value
  <2> QED
    BY <1>1, InheritedExists
<1>3. Fits(f)
  BY <1>1, <1>2 DEF Inherits
<1>4. \A m \in DOMAIN p.node : Above(p, a, m) = (CHOOSE r : Fits(r))[m]
  BY DEF Above
<1>5. Fits(CHOOSE r : Fits(r))
  <2> HIDE DEF Fits
  <2> QED
    BY <1>3
<1>6. PICK r : Fits(r) /\ \A m \in DOMAIN p.node : Above(p, a, m) = r[m]
  <2> HIDE DEF Fits
  <2> QED
    BY <1>4, <1>5
<1> QED
  BY <1>1, <1>6

\* The way up from n reaches a, through statements whose kinds are in K.
Within(p, K, a, n) ==
  LET within[m \in DOMAIN p.node] ==
        LET u == p.node[m].up
        IN  IF m = a \/ u = 0 \/ p.node[u].kind \notin K THEN m = a
            ELSE within[u]
  IN  within[n]

LEMMA WithinIs ==
  ASSUME NEW p, WellFormed(p), NEW K, NEW a, NEW n \in DOMAIN p.node
  PROVE  Within(p, K, a, n) = IF n = a \/ p.node[n].up = 0
                           \/ p.node[p.node[n].up].kind \notin K
                        THEN n = a ELSE Within(p, K, a, p.node[n].up)
<1> DEFINE len == Len(p.node)
           up == [m \in 1 .. len |-> p.node[m].up]
           own == [m \in 1 .. len |-> m = a \/ p.node[m].up = 0
                           \/ p.node[p.node[m].up].kind \notin K]
           value == [m \in 1 .. len |-> m = a]
           Fits(f) == f = [m \in DOMAIN p.node |->
                             IF m = a \/ p.node[m].up = 0
                           \/ p.node[p.node[m].up].kind \notin K
                             THEN m = a ELSE f[p.node[m].up]]
<1>1. len \in Nat /\ DOMAIN p.node = 1 .. len /\ up \in [1 .. len -> Nat]
      /\ own \in [1 .. len -> BOOLEAN]
      /\ \A m \in 1 .. len : up[m] < m /\ (up[m] = 0 => own[m])
      /\ (p.node[n].up # 0 => p.node[n].up \in DOMAIN p.node)
  BY TreeIs
<1>2. PICK f : Inherits(f, len, up, own, value)
  <2> HIDE DEF len, up, own, value
  <2> QED
    BY <1>1, InheritedExists
<1>3. Fits(f)
  BY <1>1, <1>2 DEF Inherits
<1>4. \A m \in DOMAIN p.node : Within(p, K, a, m) = (CHOOSE r : Fits(r))[m]
  BY DEF Within
<1>5. Fits(CHOOSE r : Fits(r))
  <2> HIDE DEF Fits
  <2> QED
    BY <1>3
<1>6. PICK r : Fits(r) /\ \A m \in DOMAIN p.node : Within(p, K, a, m) = r[m]
  <2> HIDE DEF Fits
  <2> QED
    BY <1>4, <1>5
<1> QED
  BY <1>1, <1>6

\* Whoever fails something last above it, fails it first: what holds of a node where it
\* holds of its parent, holds of all nodes.
LEMMA TreeInduction ==
  ASSUME NEW p, WellFormed(p), NEW T,
         \A m \in DOMAIN p.node : (p.node[m].up # 0 => p.node[m].up \in T) => m \in T
  PROVE  \A m \in DOMAIN p.node : m \in T
<1> DEFINE S == {m \in DOMAIN p.node : m \notin T}
<1>1. ASSUME S # {} PROVE FALSE
  <2>1. S \subseteq Nat
    BY TreeIs
  <2>2. PICK m \in S : \A k \in S : m <= k
    <3> HIDE DEF S
    <3> QED
      BY <1>1, <2>1, LeastExists
  <2>3. /\ m \in DOMAIN p.node /\ m \in Nat /\ p.node[m].up \in Nat /\ p.node[m].up < m
        /\ p.node[m].up # 0 => p.node[m].up \in DOMAIN p.node
    BY TreeIs
  <2>4. p.node[m].up # 0 => p.node[m].up \in T
    BY <2>2, <2>3
  <2> QED
    BY <2>2, <2>3, <2>4
<1> QED
  BY <1>1

LEMMA UpIs ==
  ASSUME NEW p, WellFormed(p), NEW m \in DOMAIN p.node
  PROVE  /\ m \in Nat /\ m # 0 /\ p.node[m].up \in Nat /\ p.node[m].up < m
         /\ p.node[m].up # 0 => p.node[m].up \in DOMAIN p.node
BY TreeIs

LEMMA AboveSelf ==
  ASSUME NEW p, WellFormed(p), NEW n \in DOMAIN p.node
  PROVE  Above(p, n, n)
BY AboveIs

\* A statement is within earlier ones only.
LEMMA AboveLess ==
  ASSUME NEW p, WellFormed(p), NEW a
  PROVE  \A n \in DOMAIN p.node : Above(p, a, n) => a \in DOMAIN p.node /\ a <= n
<1> DEFINE T == {n \in DOMAIN p.node : Above(p, a, n) => a \in DOMAIN p.node /\ a <= n}
<1>1. ASSUME NEW m \in DOMAIN p.node, p.node[m].up # 0 => p.node[m].up \in T
      PROVE  m \in T
  <2>1. Above(p, a, m) = IF m = a \/ p.node[m].up = 0 THEN m = a ELSE Above(p, a, p.node[m].up)
    BY AboveIs
  <2>2. CASE m = a \/ p.node[m].up = 0
    <3>1. Above(p, a, m) => m = a
      BY <2>1, <2>2
    <3>2. m \in Nat
      BY UpIs
    <3> QED
      BY <3>1, <3>2
  <2>3. CASE m # a /\ p.node[m].up # 0
    <3>1. Above(p, a, p.node[m].up) => a \in DOMAIN p.node /\ a <= p.node[m].up
      BY <1>1, <2>3
    <3>2. Above(p, a, m) => a \in Nat /\ p.node[m].up \in Nat /\ p.node[m].up < m /\ m \in Nat
      BY <2>1, <2>3, <3>1, UpIs
    <3> QED
      BY <2>1, <2>3, <3>1, <3>2
  <2> QED
    BY <2>2, <2>3
<1>2. \A m \in DOMAIN p.node : m \in T
  <2> HIDE DEF T
  <2> QED
    BY <1>1, TreeInduction
<1> QED
  BY <1>2

LEMMA AboveKid ==
  ASSUME NEW p, WellFormed(p), NEW a \in DOMAIN p.node
  PROVE  \A n \in DOMAIN p.node : Above(p, a, n) /\ n # a =>
           \E k \in DOMAIN p.node : p.node[k].up = a /\ Above(p, k, n)
<1> DEFINE T == {n \in DOMAIN p.node : Above(p, a, n) /\ n # a =>
                   \E k \in DOMAIN p.node : p.node[k].up = a /\ Above(p, k, n)}
<1>1. ASSUME NEW m \in DOMAIN p.node, p.node[m].up # 0 => p.node[m].up \in T
      PROVE  m \in T
  <2> SUFFICES ASSUME Above(p, a, m), m # a
               PROVE  \E k \in DOMAIN p.node : p.node[k].up = a /\ Above(p, k, m)
    OBVIOUS
  <2>1. p.node[m].up # 0 /\ Above(p, a, p.node[m].up) /\ p.node[m].up \in DOMAIN p.node
    BY AboveIs, TreeIs
  <2>2. CASE p.node[m].up = a
    BY <2>2, AboveSelf
  <2>3. CASE p.node[m].up # a
    <3>1. PICK k \in DOMAIN p.node : p.node[k].up = a /\ Above(p, k, p.node[m].up)
      BY <1>1, <2>1, <2>3
    <3>2. Above(p, k, m)
      BY <2>1, <3>1, AboveIs
    <3> QED
      BY <3>1, <3>2
  <2> QED
    BY <2>2, <2>3
<1>2. \A m \in DOMAIN p.node : m \in T
  <2> HIDE DEF T
  <2> QED
    BY <1>1, TreeInduction
<1> QED
  BY <1>2

\* What is within a kid is within its parent.
LEMMA AboveThrough ==
  ASSUME NEW p, WellFormed(p), NEW k \in DOMAIN p.node, p.node[k].up # 0
  PROVE  \A n \in DOMAIN p.node : Above(p, k, n) => Above(p, p.node[k].up, n)
<1> DEFINE T == {n \in DOMAIN p.node : Above(p, k, n) => Above(p, p.node[k].up, n)}
<1>1. ASSUME NEW m \in DOMAIN p.node, p.node[m].up # 0 => p.node[m].up \in T
      PROVE  m \in T
  <2>1. p.node[k].up \in DOMAIN p.node /\ Above(p, p.node[k].up, p.node[k].up)
    BY AboveSelf, TreeIs
  <2>2. /\ Above(p, k, m) = IF m = k \/ p.node[m].up = 0 THEN m = k ELSE Above(p, k, p.node[m].up)
        /\ Above(p, p.node[k].up, m) = IF m = p.node[k].up \/ p.node[m].up = 0 THEN m = p.node[k].up
                 ELSE Above(p, p.node[k].up, p.node[m].up)
    BY AboveIs
  <2>3. p.node[k].up # 0 /\ (p.node[m].up # 0 => (Above(p, k, p.node[m].up) => Above(p, p.node[k].up, p.node[m].up)))
    BY <1>1
  <2>4. Above(p, k, m) => Above(p, p.node[k].up, m)
    BY <2>1, <2>2, <2>3
  <2> QED
    BY <2>4
<1>2. \A m \in DOMAIN p.node : m \in T
  <2> HIDE DEF T
  <2> QED
    BY <1>1, TreeInduction
<1> QED
  BY <1>2

\* No node is within two kids of another.
LEMMA AboveOne ==
  ASSUME NEW p, WellFormed(p), NEW j \in DOMAIN p.node, NEW k \in DOMAIN p.node,
         p.node[j].up = p.node[k].up, p.node[j].up # 0
  PROVE  \A n \in DOMAIN p.node : Above(p, j, n) /\ Above(p, k, n) => j = k
<1> DEFINE T == {n \in DOMAIN p.node : Above(p, j, n) /\ Above(p, k, n) => j = k}
<1>1. ASSUME NEW m \in DOMAIN p.node, p.node[m].up # 0 => p.node[m].up \in T
      PROVE  m \in T
  <2>1. /\ j \in Nat /\ k \in Nat /\ p.node[j].up \in DOMAIN p.node
        /\ p.node[j].up < j /\ p.node[j].up < k /\ p.node[j].up \in Nat
    BY TreeIs
  <2>2. ~ Above(p, j, p.node[k].up) /\ ~ Above(p, k, p.node[j].up)
    BY <2>1, AboveLess
  <2>3. /\ Above(p, j, m) = IF m = j \/ p.node[m].up = 0 THEN m = j ELSE Above(p, j, p.node[m].up)
        /\ Above(p, k, m) = IF m = k \/ p.node[m].up = 0 THEN m = k ELSE Above(p, k, p.node[m].up)
    BY AboveIs
  <2>4. p.node[m].up # 0 => (Above(p, j, p.node[m].up) /\ Above(p, k, p.node[m].up) => j = k)
    BY <1>1
  <2>5. Above(p, j, m) /\ Above(p, k, m) => j = k
    BY <2>2, <2>3, <2>4
  <2> QED
    BY <2>5
<1>2. \A m \in DOMAIN p.node : m \in T
  <2> HIDE DEF T
  <2> QED
    BY <1>1, TreeInduction
<1> QED
  BY <1>2

\* A statement that ends the way up is above all of its tree.
LEMMA AboveRoot ==
  ASSUME NEW p, WellFormed(p), NEW a \in DOMAIN p.node
  PROVE  \A n \in DOMAIN p.node : Above(p, a, n) => Root(p, n) = Root(p, a)
<1> DEFINE T == {n \in DOMAIN p.node : Above(p, a, n) => Root(p, n) = Root(p, a)}
<1>1. ASSUME NEW m \in DOMAIN p.node, p.node[m].up # 0 => p.node[m].up \in T
      PROVE  m \in T
  <2>1. Above(p, a, m) = IF m = a \/ p.node[m].up = 0 THEN m = a ELSE Above(p, a, p.node[m].up)
    BY AboveIs
  <2>2. Root(p, m) = IF p.node[m].up = 0 THEN m ELSE Root(p, p.node[m].up)
    BY RootIs
  <2>3. p.node[m].up # 0 => (Above(p, a, p.node[m].up) => Root(p, p.node[m].up) = Root(p, a))
    BY <1>1
  <2> QED
    BY <2>1, <2>2, <2>3
<1>2. \A m \in DOMAIN p.node : m \in T
  <2> HIDE DEF T
  <2> QED
    BY <1>1, TreeInduction
<1> QED
  BY <1>2

\* What is within a statement by some kinds is within it.
LEMMA WithinAbove ==
  ASSUME NEW p, WellFormed(p), NEW K, NEW a
  PROVE  \A n \in DOMAIN p.node : Within(p, K, a, n) => Above(p, a, n)
<1> DEFINE T == {n \in DOMAIN p.node : Within(p, K, a, n) => Above(p, a, n)}
<1>1. ASSUME NEW m \in DOMAIN p.node, p.node[m].up # 0 => p.node[m].up \in T
      PROVE  m \in T
  <2>1. /\ Above(p, a, m) = IF m = a \/ p.node[m].up = 0 THEN m = a ELSE Above(p, a, p.node[m].up)
        /\ Within(p, K, a, m) = IF m = a \/ p.node[m].up = 0 \/ p.node[p.node[m].up].kind \notin K
                                   THEN m = a ELSE Within(p, K, a, p.node[m].up)
    BY AboveIs, WithinIs
  <2>2. p.node[m].up # 0 => (Within(p, K, a, p.node[m].up) => Above(p, a, p.node[m].up))
    BY <1>1
  <2>3. Within(p, K, a, m) => Above(p, a, m)
    BY <2>1, <2>2
  <2> QED
    BY <2>3
<1>2. \A m \in DOMAIN p.node : m \in T
  <2> HIDE DEF T
  <2> QED
    BY <1>1, TreeInduction
<1> QED
  BY <1>2

\* What a statement is within by some kinds, its kids of those kinds are too.
LEMMA WithinThrough ==
  ASSUME NEW p, WellFormed(p), NEW K, NEW k \in DOMAIN p.node, p.node[k].up # 0,
         p.node[p.node[k].up].kind \in K
  PROVE  \A n \in DOMAIN p.node : Within(p, K, k, n) => Within(p, K, p.node[k].up, n)
<1> DEFINE T == {n \in DOMAIN p.node : Within(p, K, k, n) => Within(p, K, p.node[k].up, n)}
<1>1. ASSUME NEW m \in DOMAIN p.node, p.node[m].up # 0 => p.node[m].up \in T
      PROVE  m \in T
  <2>1. p.node[k].up \in DOMAIN p.node /\ Within(p, K, p.node[k].up, p.node[k].up)
    BY WithinIs, TreeIs
  <2>2. /\ Within(p, K, k, m) = IF m = k \/ p.node[m].up = 0 \/ p.node[p.node[m].up].kind \notin K
                                   THEN m = k ELSE Within(p, K, k, p.node[m].up)
        /\ Within(p, K, p.node[k].up, m) = IF m = p.node[k].up \/ p.node[m].up = 0 \/ p.node[p.node[m].up].kind \notin K
                 THEN m = p.node[k].up ELSE Within(p, K, p.node[k].up, p.node[m].up)
    BY WithinIs
  <2>3. p.node[m].up # 0 =>
          (Within(p, K, k, p.node[m].up) => Within(p, K, p.node[k].up, p.node[m].up))
    BY <1>1
  <2>4. Within(p, K, k, m) => Within(p, K, p.node[k].up, m)
    BY <2>1, <2>2, <2>3
  <2> QED
    BY <2>4
<1>2. \A m \in DOMAIN p.node : m \in T
  <2> HIDE DEF T
  <2> QED
    BY <1>1, TreeInduction
<1> QED
  BY <1>2

\* Whether a block is closed after a statement, from what it is and from its kids.
LEMMA ClosesIs ==
  ASSUME NEW p, WellFormed(p), NEW n \in DOMAIN p.node
  PROVE  /\ p.node[n].kind \in {"break", "continue"} \/ Throw \in Evaluated(p, n) => Closes(p, n)
         /\ \A k \in DOMAIN p.node :
              p.node[k].up = n /\ p.node[n].kind \in {"compound", "label"} /\ Closes(p, k)
                => Closes(p, n)
<1>1. \A a \in DOMAIN p.node :
        Closes(p, a) <=> \E m \in DOMAIN p.node :
                           /\ Within(p, {"compound", "label"}, a, m)
                           /\ p.node[m].kind \in {"break", "continue"} \/ Throw \in Evaluated(p, m)
  BY DEF Closes, Within
<1>2. Within(p, {"compound", "label"}, n, n)
  BY WithinIs
<1>3. ASSUME NEW k \in DOMAIN p.node, p.node[k].up = n, p.node[n].kind \in {"compound", "label"},
             Closes(p, k)
      PROVE  Closes(p, n)
  <2>1. n # 0
    BY TreeIs
  <2>2. PICK m \in DOMAIN p.node :
          /\ Within(p, {"compound", "label"}, k, m)
          /\ p.node[m].kind \in {"break", "continue"} \/ Throw \in Evaluated(p, m)
    BY <1>1, <1>3
  <2>3. Within(p, {"compound", "label"}, n, m)
    BY <1>3, <2>1, <2>2, WithinThrough
  <2> QED
    BY <1>1, <2>2, <2>3
<1> QED
  BY <1>1, <1>2, <1>3

\* What scanLabelsInStmt reaches from the body.
Seen(p, body, n) == Within(p, {"compound", "if", "label"} \cup Loops, body, n)

\* The labels of a body that the scan sees.
LEMMA SeenIs ==
  ASSUME NEW p, WellFormed(p), NEW body, NEW n \in DOMAIN p.node
  PROVE  Seen(p, body, n) = IF n = body \/ p.node[n].up = 0
                           \/ p.node[p.node[n].up].kind \notin {"compound", "if", "label"} \cup Loops
                        THEN n = body ELSE Seen(p, body, p.node[n].up)
BY WithinIs DEF Seen

\* A statement is lowered if its parent is and nothing before it closes the block.
LEMMA PlacedIs ==
  ASSUME NEW p, WellFormed(p), NEW n \in DOMAIN p.node
  PROVE  Placed(p, n) =
           IF p.node[n].up = 0 THEN n # p.top
           ELSE IF \/ p.node[p.node[n].up].kind \notin {"compound", "if", "label"} \cup Loops
                   \/ \E i \in 1..Position(p, n) - 1 : Closes(p, p.node[p.node[n].up].kids[i])
           THEN FALSE ELSE Placed(p, p.node[n].up)
<1> DEFINE len == Len(p.node)
           Bad(m) == \/ p.node[p.node[m].up].kind \notin {"compound", "if", "label"} \cup Loops
                     \/ \E i \in 1..Position(p, m) - 1 : Closes(p, p.node[p.node[m].up].kids[i])
           up == [m \in 1 .. len |-> p.node[m].up]
           own == [m \in 1 .. len |-> p.node[m].up = 0 \/ Bad(m)]
           value == [m \in 1 .. len |-> IF p.node[m].up = 0 THEN m # p.top ELSE FALSE]
           Fits(f) == f = [m \in DOMAIN p.node |->
                             IF p.node[m].up = 0 THEN m # p.top
                             ELSE IF Bad(m) THEN FALSE ELSE f[p.node[m].up]]
<1>1. len \in Nat /\ DOMAIN p.node = 1 .. len /\ up \in [1 .. len -> Nat]
      /\ own \in [1 .. len -> BOOLEAN]
      /\ \A m \in 1 .. len : up[m] < m /\ (up[m] = 0 => own[m])
      /\ (p.node[n].up # 0 => p.node[n].up \in DOMAIN p.node)
  <2> HIDE DEF Bad
  <2> QED
    BY TreeIs
<1>2. PICK f : Inherits(f, len, up, own, value)
  <2> HIDE DEF len, up, own, value
  <2> QED
    BY <1>1, InheritedExists
<1>3. Fits(f)
  <2> HIDE DEF Bad
  <2> QED
    BY <1>1, <1>2 DEF Inherits
<1>4. \A m \in DOMAIN p.node : Placed(p, m) = (CHOOSE r : Fits(r))[m]
  BY DEF Placed
<1>5. Fits(CHOOSE r : Fits(r))
  <2> HIDE DEF Fits
  <2> QED
    BY <1>3
<1>6. PICK r : Fits(r) /\ \A m \in DOMAIN p.node : Placed(p, m) = r[m]
  <2> HIDE DEF Fits
  <2> QED
    BY <1>4, <1>5
<1>7. Placed(p, n) = IF p.node[n].up = 0 THEN n # p.top
                     ELSE IF Bad(n) THEN FALSE ELSE Placed(p, p.node[n].up)
  <2> HIDE DEF Bad
  <2> QED
    BY <1>1, <1>6
<1> QED
  BY <1>7

\* Whatever is placed, everything around it is placed.
LEMMA PlacedAbove ==
  ASSUME NEW p, WellFormed(p), NEW a \in DOMAIN p.node
  PROVE  \A n \in DOMAIN p.node : Above(p, a, n) /\ Placed(p, n) => Placed(p, a)
<1> DEFINE T == {n \in DOMAIN p.node : Above(p, a, n) /\ Placed(p, n) => Placed(p, a)}
<1>1. ASSUME NEW m \in DOMAIN p.node, p.node[m].up # 0 => p.node[m].up \in T
      PROVE  m \in T
  <2>1. Above(p, a, m) = IF m = a \/ p.node[m].up = 0 THEN m = a ELSE Above(p, a, p.node[m].up)
    BY AboveIs
  <2>2. p.node[m].up # 0 => (Placed(p, m) => Placed(p, p.node[m].up))
    BY PlacedIs
  <2>3. p.node[m].up # 0 => (Above(p, a, p.node[m].up) /\ Placed(p, p.node[m].up) => Placed(p, a))
    BY <1>1
  <2>4. Above(p, a, m) /\ Placed(p, m) => Placed(p, a)
    BY <2>1, <2>2, <2>3
  <2> QED
    BY <2>4
<1>2. \A m \in DOMAIN p.node : m \in T
  <2> HIDE DEF T
  <2> QED
    BY <1>1, TreeInduction
<1> QED
  BY <1>2

\* A label that is lowered has been seen by the scan of its body.
LEMMA PlacedSeen ==
  ASSUME NEW p, WellFormed(p)
  PROVE  \A n \in DOMAIN p.node : Placed(p, n) => Seen(p, Root(p, n), n) /\ Root(p, n) # p.top
<1> DEFINE T == {n \in DOMAIN p.node :
                   Placed(p, n) => Seen(p, Root(p, n), n) /\ Root(p, n) # p.top}
<1>1. ASSUME NEW m \in DOMAIN p.node, p.node[m].up # 0 => p.node[m].up \in T
      PROVE  m \in T
  <2>1. Root(p, m) = IF p.node[m].up = 0 THEN m ELSE Root(p, p.node[m].up)
    BY RootIs
  <2>2. Seen(p, Root(p, m), m) =
          IF m = Root(p, m) \/ p.node[m].up = 0
             \/ p.node[p.node[m].up].kind \notin {"compound", "if", "label"} \cup Loops
          THEN m = Root(p, m) ELSE Seen(p, Root(p, m), p.node[m].up)
    BY SeenIs
  <2>3. CASE p.node[m].up = 0
    <3>1. Placed(p, m) => m # p.top
      BY <2>3, PlacedIs
    <3>2. Placed(p, m) => Seen(p, Root(p, m), m) /\ Root(p, m) # p.top
      BY <2>1, <2>2, <2>3, <3>1
    <3> QED
      BY <3>2
  <2>4. CASE p.node[m].up # 0
    <3>1. Placed(p, m) =>
            /\ p.node[p.node[m].up].kind \in {"compound", "if", "label"} \cup Loops
            /\ Placed(p, p.node[m].up)
      BY <2>4, PlacedIs
    <3>2. Placed(p, p.node[m].up) =>
            Seen(p, Root(p, p.node[m].up), p.node[m].up) /\ Root(p, p.node[m].up) # p.top
      BY <1>1, <2>4
    <3>3. Placed(p, m) => Seen(p, Root(p, m), m) /\ Root(p, m) # p.top
      BY <2>1, <2>2, <2>4, <3>1, <3>2
    <3> QED
      BY <3>3
  <2> QED
    BY <2>3, <2>4
<1>2. \A m \in DOMAIN p.node : m \in T
  <2> HIDE DEF T
  <2> QED
    BY <1>1, TreeInduction
<1> QED
  BY <1>2

\* A label inside a statement.
HasLabel(p, n) == \E m \in DOMAIN p.node : p.node[m].kind = "label" /\ Above(p, n, m)

\* Where a label is, no block has been closed before.
LEMMA HasLabelIs ==
  ASSUME NEW p, WellFormed(p), Compilable(p), NEW n \in DOMAIN p.node, HasLabel(p, n)
  PROVE  /\ Placed(p, n)
         /\ Root(p, n) # p.top
<1>1. PICK m \in DOMAIN p.node : p.node[m].kind = "label" /\ Above(p, n, m)
  BY DEF HasLabel
<1>2. Placed(p, m)
  BY <1>1 DEF Compilable
<1> QED
  BY <1>1, <1>2, PlacedAbove, PlacedSeen

\* The scan opens a block for every label of its body.
LEMMA ScannedIs ==
  ASSUME NEW body
  PROVE  Code!ScannedLabels(body) =
           {m \in DOMAIN code_prog.node : code_prog.node[m].kind = "label" /\ Seen(code_prog, body, m)}
BY DEF Code!ScannedLabels, Seen, Within, Loops, Code!Loops

-----------------------------------------------------------------------------
(* Sequences of anything.                                                  *)

\* The values of a sequence may be anything.
IsSeq(s) == s \in Seq({s[i] : i \in DOMAIN s})

LEMMA AnySeq ==
  ASSUME NEW S, NEW s \in Seq(S)
  PROVE  IsSeq(s)
<1> DEFINE R == {s[i] : i \in DOMAIN s}
<1>1. Len(s) \in Nat /\ DOMAIN s = 1 .. Len(s) /\ s \in [1 .. Len(s) -> S]
  OBVIOUS
<1>2. s \in [1 .. Len(s) -> R]
  BY <1>1
<1>3. s \in Seq(R)
  <2> HIDE DEF R
  <2> QED
    BY <1>1, <1>2
<1> QED
  BY <1>3 DEF IsSeq

LEMMA SeqIs ==
  ASSUME NEW s, IsSeq(s)
  PROVE  /\ Len(s) \in Nat /\ DOMAIN s = 1 .. Len(s)
         /\ s = <<>> <=> Len(s) = 0
BY DEF IsSeq

LEMMA SeqOfAll ==
  ASSUME NEW s, IsSeq(s), NEW S, \A i \in 1 .. Len(s) : s[i] \in S
  PROVE  s \in Seq(S)
<1>1. Len(s) \in Nat /\ DOMAIN s = 1 .. Len(s) /\ s \in [1 .. Len(s) -> {s[i] : i \in DOMAIN s}]
  BY DEF IsSeq
<1>2. s \in [1 .. Len(s) -> S]
  BY <1>1
<1> QED
  BY <1>1, <1>2

LEMMA ConcatIs ==
  ASSUME NEW s, IsSeq(s), NEW t, IsSeq(t)
  PROVE  /\ IsSeq(s \o t) /\ Len(s \o t) = Len(s) + Len(t)
         /\ \A i \in 1 .. Len(s) : (s \o t)[i] = s[i]
         /\ \A i \in 1 .. Len(t) : (s \o t)[Len(s) + i] = t[i]
<1> DEFINE S == {s[i] : i \in DOMAIN s} \cup {t[i] : i \in DOMAIN t}
<1>1. s \in Seq(S) /\ t \in Seq(S)
  <2>1. /\ \A i \in 1 .. Len(s) : s[i] \in S
        /\ \A i \in 1 .. Len(t) : t[i] \in S
    BY SeqIs
  <2> HIDE DEF S
  <2> QED
    BY <2>1, SeqOfAll
<1>2. /\ s \o t \in Seq(S) /\ Len(s \o t) = Len(s) + Len(t)
      /\ \A i \in 1 .. Len(s) : (s \o t)[i] = s[i]
      /\ \A i \in 1 .. Len(t) : (s \o t)[Len(s) + i] = t[i]
  <2> HIDE DEF S
  <2> QED
    BY <1>1
<1>3. IsSeq(s \o t)
  <2> HIDE DEF S
  <2> QED
    BY <1>2, AnySeq
<1> QED
  BY <1>2, <1>3

LEMMA TailSeq ==
  ASSUME NEW s, IsSeq(s), s # <<>>
  PROVE  /\ IsSeq(Tail(s)) /\ Len(s) >= 1 /\ Len(Tail(s)) = Len(s) - 1
         /\ Head(s) = s[1]
         /\ \A i \in 1 .. Len(s) - 1 : Tail(s)[i] = s[i + 1]
<1> DEFINE S == {s[i] : i \in DOMAIN s}
<1>1. s \in Seq(S)
  BY DEF IsSeq
<1>2. /\ Tail(s) \in Seq(S) /\ Len(s) >= 1 /\ Len(Tail(s)) = Len(s) - 1
      /\ Head(s) = s[1]
      /\ \A i \in 1 .. Len(s) - 1 : Tail(s)[i] = s[i + 1]
  <2> HIDE DEF S
  <2> QED
    BY <1>1
<1>3. IsSeq(Tail(s))
  <2> HIDE DEF S
  <2> QED
    BY <1>2, AnySeq
<1> QED
  BY <1>2, <1>3

\* What was appended is dropped again.
LEMMA FrontIs ==
  ASSUME NEW S, NEW s \in Seq(S), NEW x \in S
  PROVE  /\ SubSeq(Append(s, x), 1, Len(Append(s, x)) - 1) = s
         /\ SubSeq(s, 1, Len(s) - 0) = s
<1>1. /\ Append(s, x) \in Seq(S) /\ Len(Append(s, x)) = Len(s) + 1 /\ Append(s, x) # <<>>
      /\ \A i \in 1 .. Len(s) : Append(s, x)[i] = s[i]
      /\ s \in [1 .. Len(s) -> S]
  OBVIOUS
<1>2. SubSeq(Append(s, x), 1, Len(Append(s, x)) - 1) = s
  <2>1. s \in [1 .. Len(Append(s, x)) - 1 -> S]
        /\ \A i \in 1 .. Len(Append(s, x)) - 1 : s[i] = Append(s, x)[i]
    BY <1>1
  <2> QED
    BY <1>1, <2>1, PoppedIs
<1>3. Len(s) - 0 = Len(s) /\ SubSeq(s, 1, Len(s)) = s
  OBVIOUS
<1> QED
  BY <1>2, <1>3

-----------------------------------------------------------------------------
(* The blocks a statement makes.                                           *)

\* What blocks are made for, other than the cases of a switch and the labels.
Roles == {"then", "else", "merge", "cond", "body", "latch", "exit", "setup", "try", "catch",
          "dead"}

\* The block of a label.
LabelOf(p, m) == <<Root(p, m), "label", p.node[m].name>>

\* The blocks that lowering a statement makes itself.
OwnBlocks(p, m) ==
  {<<m, r>> : r \in Roles} \cup {<<m, "case", i>> : i \in Nat}
  \cup IF p.node[m].kind = "label" THEN {LabelOf(p, m)} ELSE {}

\* The blocks that lowering a statement makes, also for what is within it.
ClaimSet(p, n) == UNION {OwnBlocks(p, m) : m \in {m \in DOMAIN p.node : Above(p, n, m)}}

\* No two statements make one block.
LEMMA OwnApart ==
  ASSUME NEW p, WellFormed(p), CLegal(p), NEW m \in DOMAIN p.node, NEW n \in DOMAIN p.node,
         m # n
  PROVE  OwnBlocks(p, m) \cap OwnBlocks(p, n) = {}
<1>1. ASSUME NEW b \in OwnBlocks(p, m), b \in OwnBlocks(p, n) PROVE FALSE
  <2>1. \A k \in {m, n} :
          b \in OwnBlocks(p, k) =>
            \/ \E r \in Roles : b = <<k, r>>
            \/ \E i \in Nat : b = <<k, "case", i>>
            \/ p.node[k].kind = "label" /\ b = LabelOf(p, k)
    BY DEF OwnBlocks
  <2>2. \A k \in {m, n} :
          \/ b[2] # "label" /\ b[1] = k
          \/ b[2] = "label" /\ p.node[k].kind = "label" /\ b = LabelOf(p, k)
    BY <1>1, <2>1 DEF Roles, LabelOf
  <2>3. CASE b[2] # "label"
    BY <2>2, <2>3
  <2>4. CASE b[2] = "label"
    <3>1. p.node[m].kind = "label" /\ p.node[n].kind = "label"
          /\ b[1] = Root(p, m) /\ b[1] = Root(p, n)
          /\ b[3] = p.node[m].name /\ b[3] = p.node[n].name
      BY <2>2, <2>4 DEF LabelOf
    <3> QED
      BY <3>1 DEF CLegal
  <2> QED
    BY <2>3, <2>4
<1> QED
  BY <1>1

LEMMA ClaimsOfSelf ==
  ASSUME NEW p, WellFormed(p), NEW n \in DOMAIN p.node
  PROVE  OwnBlocks(p, n) \subseteq ClaimSet(p, n)
BY AboveSelf DEF ClaimSet

\* The blocks of a kid are some of its parent's, and none the parent makes itself.
LEMMA ClaimsOfKid ==
  ASSUME NEW p, WellFormed(p), CLegal(p), NEW n \in DOMAIN p.node, NEW k \in DOMAIN p.node,
         p.node[k].up = n
  PROVE  /\ ClaimSet(p, k) \subseteq ClaimSet(p, n)
         /\ ClaimSet(p, k) \cap OwnBlocks(p, n) = {}
<1>1. n # 0 /\ n \in Nat /\ k \in Nat /\ n < k
  BY UpIs
<1>2. ClaimSet(p, k) \subseteq ClaimSet(p, n)
  BY <1>1, AboveThrough DEF ClaimSet
<1>3. ASSUME NEW b \in ClaimSet(p, k), b \in OwnBlocks(p, n) PROVE FALSE
  <2>1. PICK m \in DOMAIN p.node : Above(p, k, m) /\ b \in OwnBlocks(p, m)
    BY DEF ClaimSet
  <2>2. k <= m /\ m \in Nat
    BY <2>1, AboveLess, UpIs
  <2>3. m # n
    BY <1>1, <2>2
  <2> QED
    BY <1>3, <2>1, <2>3, OwnApart
<1> QED
  BY <1>2, <1>3

\* Two kids of one parent share no block.
LEMMA ClaimsApart ==
  ASSUME NEW p, WellFormed(p), CLegal(p), NEW j \in DOMAIN p.node, NEW k \in DOMAIN p.node,
         p.node[j].up = p.node[k].up, p.node[j].up # 0, j # k
  PROVE  ClaimSet(p, j) \cap ClaimSet(p, k) = {}
<1>1. ASSUME NEW b \in ClaimSet(p, j), b \in ClaimSet(p, k) PROVE FALSE
  <2>1. PICK m \in DOMAIN p.node : Above(p, j, m) /\ b \in OwnBlocks(p, m)
    BY DEF ClaimSet
  <2>2. PICK n \in DOMAIN p.node : Above(p, k, n) /\ b \in OwnBlocks(p, n)
    BY <1>1 DEF ClaimSet
  <2>3. m = n
    BY <2>1, <2>2, OwnApart
  <2> QED
    BY <2>1, <2>2, <2>3, AboveOne
<1> QED
  BY <1>1

-----------------------------------------------------------------------------
(* What a list of tasks does to the insertion block: whether it is open,   *)
(* the targets of break and continue, the bodies whose labels are scanned, *)
(* and the blocks that may have been used.                                 *)

\* Whether the insertion block is open, closed or maybe either (o), breakTo and
\* continueTo (b, c), the bodies whose labels were scanned (l), and blocks that may
\* have been made (u).
State(o, b, c, l, u) == [o |-> o, b |-> b, c |-> c, l |-> l, u |-> u]

\* The instructions after which a block holds no other.
Ending(i) == i[1] \in {"br", "ret", "throw", "setjmp"}

\* Task t may be done in state s and leaves state z.
Passes(p, t, s, z) ==
  /\ s.u \subseteq z.u
  /\ t[1] \notin {"targets", "drop"} => z.b = s.b /\ z.c = s.c
  /\ t[1] # "labels" => z.l = s.l
  /\ \/ /\ t[1] = "stmt" /\ t[2] \in DOMAIN p.node
        /\ ClaimSet(p, t[2]) \cap s.u = {} /\ ClaimSet(p, t[2]) \subseteq z.u
        /\ HasLabel(p, t[2]) => s.o = "open"
        /\ Root(p, t[2]) \in s.l \cup {p.top}
        /\ z.o = "maybe" \/ (z.o = "open" /\ s.o = "open" /\ ~Closes(p, t[2]))
     \/ /\ t[1] = "eval" /\ t[2] \in Exprs /\ s.o = "open"
        /\ z.o = IF t[2] = Throw THEN "closed" ELSE "open"
     \/ /\ t[1] = "emit" /\ s.o = "open"
        /\ z.o = IF Ending(t[2]) THEN "closed" ELSE "open"
     \/ /\ t[1] = "open" /\ IsSeq(t[2]) /\ t[2] # <<>>
        /\ \A i \in 1 .. Len(t[2]) : Ending(t[2][i]) <=> i = Len(t[2])
        /\ z.o = "closed"
     \/ /\ t[1] = "at" /\ s.o = "closed" /\ t[2] \notin s.u
        /\ z.o = "open" /\ t[2] \in z.u
     \/ t[1] = "labels" /\ s.o = "open" /\ z.o = "open" /\ z.l = s.l \cup {t[2]}
     \/ /\ t[1] = "targets" /\ z.o \in {s.o, "maybe"}
        /\ z.b = Append(s.b, t[2]) /\ z.c = s.c \o t[3]
     \/ /\ t[1] = "drop" /\ z.o \in {s.o, "maybe"}
        /\ z.b = SubSeq(s.b, 1, Len(s.b) - 1) /\ z.c = SubSeq(s.c, 1, Len(s.c) - t[2])

Steps(p, list, st, s, e) ==
  /\ st[1] = s /\ st[Len(list) + 1] = e
  /\ \A i \in 1 .. Len(list) : Passes(p, list[i], st[i], st[i + 1])

\* The tasks of a list may be done one after the other, from state s to state e.
Path(p, list, s, e) == \E st : Steps(p, list, st, s, e)

LEMMA PathNil ==
  ASSUME NEW p, NEW s
  PROVE  /\ Path(p, <<>>, s, s)
         /\ \A e : Path(p, <<>>, s, e) => s = e
<1>1. Steps(p, <<>>, <<s>>, s, s)
  BY DEF Steps
<1> QED
  BY <1>1 DEF Path, Steps

\* Two lists are done one after the other if there is a state between them.
LEMMA PathConcat ==
  ASSUME NEW p, NEW q, IsSeq(q), NEW r, IsSeq(r), NEW s, NEW m, NEW e,
         Path(p, q, s, m), Path(p, r, m, e)
  PROVE  Path(p, q \o r, s, e)
<1>1. PICK f : Steps(p, q, f, s, m)
  BY DEF Path
<1>2. PICK g : Steps(p, r, g, m, e)
  BY DEF Path
<1> DEFINE st == [i \in 1 .. Len(q) + Len(r) + 1 |-> IF i <= Len(q) THEN f[i] ELSE g[i - Len(q)]]
<1>3. /\ Len(q) \in Nat /\ Len(r) \in Nat /\ Len(q \o r) = Len(q) + Len(r)
      /\ \A i \in 1 .. Len(q) : (q \o r)[i] = q[i]
      /\ \A i \in 1 .. Len(r) : (q \o r)[Len(q) + i] = r[i]
  BY SeqIs, ConcatIs
<1>4. /\ \A i \in 1 .. Len(q) + 1 : st[i] = f[i]
      /\ \A i \in 1 .. Len(r) + 1 : st[Len(q) + i] = g[i]
  BY <1>1, <1>2, <1>3 DEF Steps
<1>5. st[1] = s /\ st[Len(q \o r) + 1] = e
  <2> HIDE DEF st
  <2> QED
    BY <1>1, <1>2, <1>3, <1>4 DEF Steps
<1>6. ASSUME NEW i \in 1 .. Len(q \o r) PROVE Passes(p, (q \o r)[i], st[i], st[i + 1])
  <2> HIDE DEF st
  <2>1. CASE i <= Len(q)
    <3>1. i \in 1 .. Len(q) /\ i + 1 \in 1 .. Len(q) + 1 /\ i \in 1 .. Len(q) + 1
      BY <1>3, <2>1
    <3> QED
      BY <1>1, <1>3, <1>4, <3>1 DEF Steps
  <2>2. CASE i > Len(q)
    <3>1. i - Len(q) \in 1 .. Len(r) /\ i - Len(q) + 1 \in 1 .. Len(r) + 1
          /\ i - Len(q) \in 1 .. Len(r) + 1
          /\ i = Len(q) + (i - Len(q)) /\ i + 1 = Len(q) + (i - Len(q) + 1)
      BY <1>3, <2>2
    <3>2. Passes(p, r[i - Len(q)], g[i - Len(q)], g[i - Len(q) + 1])
      BY <1>2, <3>1 DEF Steps
    <3>3. (q \o r)[i] = r[i - Len(q)] /\ st[i] = g[i - Len(q)] /\ st[i + 1] = g[i - Len(q) + 1]
      BY <1>3, <1>4, <3>1
    <3> QED
      BY <3>2, <3>3
  <2> QED
    BY <1>3, <2>1, <2>2
<1>7. Steps(p, q \o r, st, s, e)
  <2> HIDE DEF st
  <2> QED
    BY <1>5, <1>6 DEF Steps
<1> QED
  BY <1>7 DEF Path

\* What is left of a list after its first task.
LEMMA PathTail ==
  ASSUME NEW p, NEW q, IsSeq(q), q # <<>>, NEW s, NEW e, Path(p, q, s, e)
  PROVE  \E z : Passes(p, q[1], s, z) /\ Path(p, Tail(q), z, e)
<1>1. PICK f : Steps(p, q, f, s, e)
  BY DEF Path
<1> DEFINE st == [i \in 1 .. Len(q) |-> f[i + 1]]
<1>2. /\ Len(q) \in Nat /\ Len(q) >= 1 /\ Len(Tail(q)) = Len(q) - 1
      /\ \A i \in 1 .. Len(q) - 1 : Tail(q)[i] = q[i + 1]
  BY SeqIs, TailSeq
<1>3. \A i \in 1 .. Len(q) : st[i] = f[i + 1]
  OBVIOUS
<1>4. Passes(p, q[1], s, f[2])
  BY <1>1, <1>2 DEF Steps
<1>5. st[1] = f[2] /\ st[Len(Tail(q)) + 1] = e
  <2> HIDE DEF st
  <2> QED
    BY <1>1, <1>2, <1>3 DEF Steps
<1>6. \A i \in 1 .. Len(Tail(q)) : Passes(p, Tail(q)[i], st[i], st[i + 1])
  <2> HIDE DEF st
  <2> SUFFICES ASSUME NEW i \in 1 .. Len(Tail(q)) PROVE Passes(p, Tail(q)[i], st[i], st[i + 1])
    OBVIOUS
  <2>1. i \in 1 .. Len(q) /\ i + 1 \in 1 .. Len(q) /\ i \in 1 .. Len(q) - 1
    BY <1>2
  <2>2. Passes(p, q[i + 1], f[i + 1], f[(i + 1) + 1])
    BY <1>1, <2>1 DEF Steps
  <2> QED
    BY <1>2, <1>3, <2>1, <2>2
<1>7. Steps(p, Tail(q), st, f[2], e)
  <2> HIDE DEF st
  <2> QED
    BY <1>5, <1>6 DEF Steps
<1> QED
  BY <1>4, <1>7 DEF Path

\* To start where more is known changes nothing that follows.
Better(z, s) ==
  /\ z.b = s.b /\ z.c = s.c /\ z.l = s.l /\ z.u \subseteq s.u
  /\ s.o \in {z.o, "maybe"}

LEMMA PassesFrom ==
  ASSUME NEW p, NEW t, NEW s, NEW z, NEW e, Passes(p, t, s, e), Better(z, s)
  PROVE  Passes(p, t, z, e)
BY DEF Passes, Better

\* A list that starts closed may start later, when more blocks were made.
LEMMA PathFrom ==
  ASSUME NEW p, NEW q, IsSeq(q), NEW s, NEW z, NEW e, Path(p, q, s, e), Better(z, s)
  PROVE  \E x : Path(p, q, z, x) /\ Better(x, e)
<1>1. CASE q = <<>>
  BY <1>1, PathNil
<1>2. CASE q # <<>>
  <2>1. PICK f : Steps(p, q, f, s, e)
    BY DEF Path
  <2> DEFINE st == [i \in 1 .. Len(q) + 1 |-> IF i = 1 THEN z ELSE f[i]]
  <2>2. Len(q) \in Nat /\ Len(q) # 0
    BY <1>2, SeqIs
  <2>3. st[1] = z /\ \A i \in 2 .. Len(q) + 1 : st[i] = f[i]
    BY <2>2
  <2>4. Passes(p, q[1], z, f[2])
    BY <2>1, <2>2, PassesFrom DEF Steps
  <2>5. Steps(p, q, st, z, e)
    <3> HIDE DEF st
    <3>1. st[Len(q) + 1] = e
      BY <2>1, <2>2, <2>3 DEF Steps
    <3>2. ASSUME NEW i \in 1 .. Len(q) PROVE Passes(p, q[i], st[i], st[i + 1])
      <4>1. CASE i = 1
        BY <2>2, <2>3, <2>4, <4>1
      <4>2. CASE i # 1
        <5>1. i \in 2 .. Len(q) + 1 /\ i + 1 \in 2 .. Len(q) + 1
          BY <2>2, <4>2
        <5> QED
          BY <2>1, <2>3, <5>1 DEF Steps
      <4> QED
        BY <4>1, <4>2
    <3> QED
      BY <2>3, <3>1, <3>2 DEF Steps
  <2>6. Better(e, e)
    BY DEF Better
  <2> QED
    BY <2>5, <2>6 DEF Path
<1> QED
  BY <1>1, <1>2

-----------------------------------------------------------------------------
(* What each task does.                                                    *)

LEMMA SameSyntax ==
  /\ Code!Throw = Throw /\ Code!Pure = Pure /\ Code!Exprs = Exprs /\ Code!Loops = Loops
  /\ \A p, n : Code!Root(p, n) = Root(p, n)
BY DEF Code!Throw, Throw, Code!Pure, Pure, Code!Exprs, Exprs, Code!Loops, Loops, Code!Root, Root

LEMMA StateIs ==
  ASSUME NEW o, NEW b, NEW c, NEW l, NEW u
  PROVE  /\ State(o, b, c, l, u).o = o /\ State(o, b, c, l, u).b = b
         /\ State(o, b, c, l, u).c = c /\ State(o, b, c, l, u).l = l
         /\ State(o, b, c, l, u).u = u
BY DEF State

LEMMA PassStmt ==
  ASSUME NEW p, NEW k \in DOMAIN p.node, NEW o, NEW b, NEW c, NEW l, NEW u,
         ClaimSet(p, k) \cap u = {}, HasLabel(p, k) => o = "open", Root(p, k) \in l \cup {p.top}
  PROVE  /\ Passes(p, Code!Stmt(k), State(o, b, c, l, u), State("maybe", b, c, l, u \cup ClaimSet(p, k)))
         /\ o = "open" /\ ~Closes(p, k) =>
              Passes(p, Code!Stmt(k), State(o, b, c, l, u), State("open", b, c, l, u \cup ClaimSet(p, k)))
BY StateIs DEF Passes, Code!Stmt

LEMMA PassEval ==
  ASSUME NEW p, NEW e \in Exprs, NEW b, NEW c, NEW l, NEW u
  PROVE  Passes(p, Code!Eval(e), State("open", b, c, l, u),
                State(IF e = Throw THEN "closed" ELSE "open", b, c, l, u))
BY StateIs DEF Passes, Code!Eval

LEMMA PassEmit ==
  ASSUME NEW p, NEW i, NEW b, NEW c, NEW l, NEW u
  PROVE  Passes(p, Code!Emit(i), State("open", b, c, l, u),
                State(IF Ending(i) THEN "closed" ELSE "open", b, c, l, u))
BY StateIs DEF Passes, Code!Emit

LEMMA PassBr ==
  ASSUME NEW p, NEW to, NEW b, NEW c, NEW l, NEW u
  PROVE  Passes(p, Code!Emit(Code!Br(to)), State("open", b, c, l, u), State("closed", b, c, l, u))
<1>1. Ending(Code!Br(to))
  BY DEF Ending, Code!Br
<1> QED
  BY <1>1, PassEmit

LEMMA PassMark ==
  ASSUME NEW p, NEW pt, NEW b, NEW c, NEW l, NEW u
  PROVE  Passes(p, Code!Emit(Code!Mark(pt)), State("open", b, c, l, u), State("open", b, c, l, u))
<1>1. ~ Ending(Code!Mark(pt))
  BY DEF Ending, Code!Mark
<1> QED
  BY <1>1, PassEmit

LEMMA PassOpen ==
  ASSUME NEW p, NEW q, NEW o, NEW b, NEW c, NEW l, NEW u, IsSeq(q), q # <<>>,
         \A i \in 1 .. Len(q) : Ending(q[i]) <=> i = Len(q)
  PROVE  Passes(p, Code!IfOpen(q), State(o, b, c, l, u), State("closed", b, c, l, u))
BY StateIs DEF Passes, Code!IfOpen

LEMMA PassFall ==
  ASSUME NEW p, NEW x, NEW o, NEW b, NEW c, NEW l, NEW u
  PROVE  Passes(p, Code!Fall(x), State(o, b, c, l, u), State("closed", b, c, l, u))
<1> DEFINE q == <<Code!Br({x})>>
<1>1. IsSeq(q) /\ q # <<>> /\ Len(q) = 1 /\ q[1] = Code!Br({x}) /\ Ending(Code!Br({x}))
  BY DEF IsSeq, Ending, Code!Br
<1>3. \A i \in 1 .. Len(q) : Ending(q[i]) <=> i = Len(q)
  <2> HIDE DEF q
  <2> QED
    BY <1>1
<1> HIDE DEF q
<1>2. Passes(p, Code!IfOpen(q), State(o, b, c, l, u), State("closed", b, c, l, u))
  BY <1>1, <1>3, PassOpen
<1> QED
  BY <1>2 DEF q, Code!Fall

LEMMA PassAt ==
  ASSUME NEW p, NEW x, NEW b, NEW c, NEW l, NEW u, x \notin u
  PROVE  Passes(p, Code!At(x), State("closed", b, c, l, u), State("open", b, c, l, u \cup {x}))
BY StateIs DEF Passes, Code!At

LEMMA PassTargets ==
  ASSUME NEW p, NEW S, NEW x \in S, NEW y \in S, NEW o, NEW b \in Seq(S), NEW c \in Seq(S),
         NEW l, NEW u
  PROVE  /\ Passes(p, Code!LoopTargets(x, y), State(o, b, c, l, u),
                   State(o, Append(b, x), Append(c, y), l, u))
         /\ Passes(p, Code!SwitchTarget(x), State(o, b, c, l, u), State(o, Append(b, x), c, l, u))
         /\ Passes(p, Code!DropTargets(1), State(o, Append(b, x), Append(c, y), l, u),
                   State(o, b, c, l, u))
         /\ Passes(p, Code!DropTargets(0), State(o, Append(b, x), c, l, u), State(o, b, c, l, u))
<1>1. Append(c, y) = c \o <<y>> /\ c = c \o <<>>
  OBVIOUS
<1>2. /\ SubSeq(Append(b, x), 1, Len(Append(b, x)) - 1) = b
      /\ SubSeq(Append(c, y), 1, Len(Append(c, y)) - 1) = c
      /\ SubSeq(c, 1, Len(c) - 0) = c
  BY FrontIs
<1>3. Passes(p, Code!LoopTargets(x, y), State(o, b, c, l, u),
             State(o, Append(b, x), Append(c, y), l, u))
  <2> DEFINE t == Code!LoopTargets(x, y)
             s == State(o, b, c, l, u)
             z == State(o, Append(b, x), Append(c, y), l, u)
  <2>1. /\ t[1] = "targets" /\ t[2] = x /\ t[3] = <<y>>
        /\ s.o = o /\ s.b = b /\ s.c = c /\ s.l = l /\ s.u = u
        /\ z.o = o /\ z.b = Append(b, x) /\ z.c = Append(c, y) /\ z.l = l /\ z.u = u
    BY DEF State, Code!LoopTargets
  <2> HIDE DEF t, s, z
  <2>2. Passes(p, t, s, z)
    BY <1>1, <2>1 DEF Passes
  <2> QED
    BY <2>2 DEF t, s, z
<1>4. Passes(p, Code!SwitchTarget(x), State(o, b, c, l, u), State(o, Append(b, x), c, l, u))
  <2> DEFINE t == Code!SwitchTarget(x)
             s == State(o, b, c, l, u)
             z == State(o, Append(b, x), c, l, u)
  <2>1. /\ t[1] = "targets" /\ t[2] = x /\ t[3] = <<>>
        /\ s.o = o /\ s.b = b /\ s.c = c /\ s.l = l /\ s.u = u
        /\ z.o = o /\ z.b = Append(b, x) /\ z.c = c /\ z.l = l /\ z.u = u
    BY DEF State, Code!SwitchTarget
  <2> HIDE DEF t, s, z
  <2>2. Passes(p, t, s, z)
    BY <1>1, <2>1 DEF Passes
  <2> QED
    BY <2>2 DEF t, s, z
<1>5. Passes(p, Code!DropTargets(1), State(o, Append(b, x), Append(c, y), l, u),
             State(o, b, c, l, u))
  <2> DEFINE t == Code!DropTargets(1)
             s == State(o, Append(b, x), Append(c, y), l, u)
             z == State(o, b, c, l, u)
  <2>1. /\ t[1] = "drop" /\ t[2] = 1
        /\ s.o = o /\ s.b = Append(b, x) /\ s.c = Append(c, y) /\ s.l = l /\ s.u = u
        /\ z.o = o /\ z.b = b /\ z.c = c /\ z.l = l /\ z.u = u
    BY DEF State, Code!DropTargets
  <2> HIDE DEF t, s, z
  <2>2. Passes(p, t, s, z)
    BY <1>2, <2>1 DEF Passes
  <2> QED
    BY <2>2 DEF t, s, z
<1>6. Passes(p, Code!DropTargets(0), State(o, Append(b, x), c, l, u), State(o, b, c, l, u))
  <2> DEFINE t == Code!DropTargets(0)
             s == State(o, Append(b, x), c, l, u)
             z == State(o, b, c, l, u)
  <2>1. /\ t[1] = "drop" /\ t[2] = 0
        /\ s.o = o /\ s.b = Append(b, x) /\ s.c = c /\ s.l = l /\ s.u = u
        /\ z.o = o /\ z.b = b /\ z.c = c /\ z.l = l /\ z.u = u
    BY DEF State, Code!DropTargets
  <2> HIDE DEF t, s, z
  <2>2. Passes(p, t, s, z)
    BY <1>2, <2>1 DEF Passes
  <2> QED
    BY <2>2 DEF t, s, z
<1> QED
  BY <1>3, <1>4, <1>5, <1>6

-----------------------------------------------------------------------------
(* What each statement is lowered to passes.                               *)

\* The blocks of statements that are neither cases nor labels.
Plain == {<<m, r>> : m \in DOMAIN code_prog.node, r \in Roles}

Legal == WellFormed(code_prog) /\ CLegal(code_prog) /\ Compilable(code_prog)

\* The statement may be lowered in an open block, where breakTo and continueTo are b and c.
Fits(n, b, c, l, u) ==
  /\ b \in Seq(Plain) /\ c \in Seq(Plain)
  /\ ClaimSet(code_prog, n) \cap u = {}
  /\ Root(code_prog, n) \in l \cup {code_prog.top}

\* What statement n is lowered to can be done in an open block, and leaves the targets
\* of break and continue as they were.
Leads(n, list, b, c, l, u) ==
  /\ IsSeq(list)
  /\ \E z : /\ Path(code_prog, list, State("open", b, c, l, u), z)
            /\ z.b = b /\ z.c = c /\ z.l = l /\ z.u \subseteq u \cup ClaimSet(code_prog, n)
            /\ ~Closes(code_prog, n) => z.o = "open"

\* What a statement is lowered into fits the places of its kids.
LEMMA KidIs ==
  ASSUME Legal, NEW n \in DOMAIN code_prog.node, NEW i \in DOMAIN code_prog.node[n].kids,
         NEW b, NEW c, NEW l, NEW u, Fits(n, b, c, l, u)
  PROVE  LET k == code_prog.node[n].kids[i]
         IN  /\ k \in DOMAIN code_prog.node /\ code_prog.node[k].up = n
             /\ ClaimSet(code_prog, k) \subseteq ClaimSet(code_prog, n)
             /\ ClaimSet(code_prog, k) \cap u = {}
             /\ \A x \in OwnBlocks(code_prog, n) : x \notin ClaimSet(code_prog, k)
             /\ Root(code_prog, k) \in l \cup {code_prog.top}
             /\ HasLabel(code_prog, k) =>
                  /\ code_prog.node[n].kind \in {"compound", "if", "label"} \cup Loops
                  /\ \A j \in 1 .. i - 1 : ~Closes(code_prog, code_prog.node[n].kids[j])
<1> DEFINE k == code_prog.node[n].kids[i]
<1>1. /\ k \in DOMAIN code_prog.node /\ code_prog.node[k].up = n /\ n # 0
      /\ Position(code_prog, k) = i
  BY KidsAre DEF Legal
<1>2. Root(code_prog, k) = Root(code_prog, n)
  <2>1. Root(code_prog, k) = IF code_prog.node[k].up = 0 THEN k
                             ELSE Root(code_prog, code_prog.node[k].up)
    BY <1>1, RootIs DEF Legal
  <2> QED
    BY <1>1, <2>1
<1>3. /\ ClaimSet(code_prog, k) \subseteq ClaimSet(code_prog, n)
      /\ ClaimSet(code_prog, k) \cap OwnBlocks(code_prog, n) = {}
  BY <1>1, ClaimsOfKid DEF Legal
<1>4. ASSUME HasLabel(code_prog, k)
      PROVE  /\ code_prog.node[n].kind \in {"compound", "if", "label"} \cup Loops
             /\ \A j \in 1 .. i - 1 : ~Closes(code_prog, code_prog.node[n].kids[j])
  <2>1. Placed(code_prog, k)
    BY <1>1, <1>4, HasLabelIs DEF Legal
  <2>2. ~ \/ code_prog.node[n].kind \notin {"compound", "if", "label"} \cup Loops
          \/ \E j \in 1 .. i - 1 : Closes(code_prog, code_prog.node[n].kids[j])
    BY <1>1, <2>1, PlacedIs DEF Legal
  <2> QED
    BY <2>2
<1> HIDE DEF k
<1>5. /\ k \in DOMAIN code_prog.node /\ code_prog.node[k].up = n
      /\ ClaimSet(code_prog, k) \subseteq ClaimSet(code_prog, n)
      /\ ClaimSet(code_prog, k) \cap u = {}
      /\ \A x \in OwnBlocks(code_prog, n) : x \notin ClaimSet(code_prog, k)
      /\ Root(code_prog, k) \in l \cup {code_prog.top}
      /\ HasLabel(code_prog, k) =>
           /\ code_prog.node[n].kind \in {"compound", "if", "label"} \cup Loops
           /\ \A j \in 1 .. i - 1 : ~Closes(code_prog, code_prog.node[n].kids[j])
  BY <1>1, <1>2, <1>3, <1>4 DEF Fits
<1> QED
  BY <1>5 DEF k

LEMMA OwnRoles ==
  ASSUME Legal, NEW n \in DOMAIN code_prog.node,
         NEW b, NEW c, NEW l, NEW u, Fits(n, b, c, l, u)
  PROVE  /\ \A x \in OwnBlocks(code_prog, n) : x \in ClaimSet(code_prog, n) /\ x \notin u
         /\ \A r \in Roles : <<n, r>> \in OwnBlocks(code_prog, n) /\ <<n, r>> \in Plain
         /\ \A i \in Nat : <<n, "case", i>> \in OwnBlocks(code_prog, n)
<1>1. \A x \in OwnBlocks(code_prog, n) : x \in ClaimSet(code_prog, n)
  BY ClaimsOfSelf DEF Legal
<1>2. \A x \in OwnBlocks(code_prog, n) : x \notin u
  BY <1>1 DEF Fits
<1>3. ASSUME NEW r \in Roles PROVE <<n, r>> \in OwnBlocks(code_prog, n) /\ <<n, r>> \in Plain
  <2>1. <<n, r>> \in {<<n, q>> : q \in Roles}
    OBVIOUS
  <2>2. <<n, r>> \in OwnBlocks(code_prog, n)
    BY <2>1 DEF OwnBlocks
  <2>3. <<n, r>> \in Plain
    BY DEF Plain
  <2> QED
    BY <2>2, <2>3
<1>4. ASSUME NEW i \in Nat PROVE <<n, "case", i>> \in OwnBlocks(code_prog, n)
  <2>1. <<n, "case", i>> \in {<<n, "case", j>> : j \in Nat}
    OBVIOUS
  <2> QED
    BY <2>1 DEF OwnBlocks
<1> QED
  BY <1>1, <1>2, <1>3, <1>4

LEMMA PassPlain ==
  ASSUME NEW p, NEW e \in Exprs, e # Throw, NEW b, NEW c, NEW l, NEW u
  PROVE  Passes(p, Code!Eval(e), State("open", b, c, l, u), State("open", b, c, l, u))
BY PassEval

\* Only a statement that is an expression throws.
LEMMA PlainExprs ==
  ASSUME Legal, NEW n \in DOMAIN code_prog.node, code_prog.node[n].kind # "simple",
         NEW e \in {code_prog.node[n].expr, code_prog.node[n].init, code_prog.node[n].post}
  PROVE  e \in Exprs /\ e # Throw
<1>1. code_prog.node[n] \in Node
  BY TreeIs DEF Legal
<1>2. Throw \notin Evaluated(code_prog, n)
  BY DEF Legal, Compilable
<1> QED
  BY <1>1, <1>2 DEF Node, Evaluated

LEMMA LeadsWhile ==
  ASSUME Legal, NEW n \in DOMAIN code_prog.node, code_prog.node[n].kind = "while",
         NEW b, NEW c, NEW l, NEW u, Fits(n, b, c, l, u)
  PROVE  Leads(n, Code!LowerWhile(n), b, c, l, u)
<1> DEFINE node == code_prog.node[n]
           k1 == node.kids[1]
           b1 == Append(b, <<n, "exit">>)
           c1 == Append(c, <<n, "cond">>)
           u1 == u \cup {<<n, "cond">>}
           u2 == u1 \cup {<<n, "body">>}
           u3 == u2 \cup ClaimSet(code_prog, k1)
           u4 == u3 \cup {<<n, "exit">>}
           list == << Code!LoopTargets(<<n, "exit">>, <<n, "cond">>),
                      Code!Emit(Code!Br({<<n, "cond">>})),
                      Code!At(<<n, "cond">>),
                      Code!Emit(Code!Mark(Code!Again(n))),
                      Code!Eval(node.expr),
                      Code!Emit(Code!Br({<<n, "body">>, <<n, "exit">>})),
                      Code!At(<<n, "body">>),
                      Code!Stmt(k1),
                      Code!Fall(<<n, "cond">>),
                      Code!DropTargets(1),
                      Code!At(<<n, "exit">>) >>
           st == << State("open", b, c, l, u),
                    State("open", b1, c1, l, u),
                    State("closed", b1, c1, l, u),
                    State("open", b1, c1, l, u1),
                    State("open", b1, c1, l, u1),
                    State("open", b1, c1, l, u1),
                    State("closed", b1, c1, l, u1),
                    State("open", b1, c1, l, u2),
                    State("maybe", b1, c1, l, u3),
                    State("closed", b1, c1, l, u3),
                    State("closed", b, c, l, u3),
                    State("open", b, c, l, u4) >>
<1>1. n \in DOMAIN code_prog.node /\ node.kind # "simple" /\ Len(node.kids) = 1
      /\ DOMAIN node.kids = 1 .. 1
  <2>1. node \in Node /\ Len(node.kids) = 1
    BY TreeIs DEF Legal, WellFormed, Loops
  <2> QED
    BY <2>1 DEF Node
<1>2. /\ b \in Seq(Plain) /\ c \in Seq(Plain)
      /\ \A r \in Roles : <<n, r>> \in Plain /\ <<n, r>> \in ClaimSet(code_prog, n) /\ <<n, r>> \notin u
  BY OwnRoles DEF Fits
<1>t. <<n, "exit">> \in Plain /\ <<n, "cond">> \in Plain
  BY <1>2 DEF Roles
<1>3. /\ k1 \in DOMAIN code_prog.node /\ ClaimSet(code_prog, k1) \subseteq ClaimSet(code_prog, n)
      /\ ClaimSet(code_prog, k1) \cap u = {} /\ Root(code_prog, k1) \in l \cup {code_prog.top}
      /\ \A r \in Roles : <<n, r>> \notin ClaimSet(code_prog, k1)
  <2>1. 1 \in DOMAIN node.kids
    BY <1>1
  <2>2. /\ k1 \in DOMAIN code_prog.node /\ ClaimSet(code_prog, k1) \subseteq ClaimSet(code_prog, n)
        /\ ClaimSet(code_prog, k1) \cap u = {} /\ Root(code_prog, k1) \in l \cup {code_prog.top}
        /\ \A x \in OwnBlocks(code_prog, n) : x \notin ClaimSet(code_prog, k1)
        /\ code_prog.node[k1].up = n
        /\ HasLabel(code_prog, k1) => node.kind \in {"compound", "if", "label"} \cup Loops
    BY <2>1, KidIs
  <2>3. \A r \in Roles : <<n, r>> \in OwnBlocks(code_prog, n)
    BY OwnRoles
  <2> QED
    BY <2>2, <2>3 DEF Loops
<1> HIDE DEF k1
<1>4. Passes(code_prog, Code!LoopTargets(<<n, "exit">>, <<n, "cond">>),
             State("open", b, c, l, u), State("open", b1, c1, l, u))
  BY PassTargets, <1>2, <1>t
<1>5. Passes(code_prog, Code!Emit(Code!Br({<<n, "cond">>})),
             State("open", b1, c1, l, u), State("closed", b1, c1, l, u))
  BY PassBr
<1>6. Passes(code_prog, Code!At(<<n, "cond">>),
             State("closed", b1, c1, l, u), State("open", b1, c1, l, u1))
  BY PassAt, <1>2, <1>3 DEF Roles, u1, u2, u3, u4
<1>7. Passes(code_prog, Code!Emit(Code!Mark(Code!Again(n))),
             State("open", b1, c1, l, u1), State("open", b1, c1, l, u1))
  BY PassMark
<1>8. Passes(code_prog, Code!Eval(node.expr),
             State("open", b1, c1, l, u1), State("open", b1, c1, l, u1))
  BY PassPlain, PlainExprs, <1>1
<1>9. Passes(code_prog, Code!Emit(Code!Br({<<n, "body">>, <<n, "exit">>})),
             State("open", b1, c1, l, u1), State("closed", b1, c1, l, u1))
  BY PassBr
<1>10. Passes(code_prog, Code!At(<<n, "body">>),
             State("closed", b1, c1, l, u1), State("open", b1, c1, l, u2))
  BY PassAt, <1>2, <1>3 DEF Roles, u1, u2, u3, u4
<1>11. Passes(code_prog, Code!Stmt(k1),
             State("open", b1, c1, l, u2), State("maybe", b1, c1, l, u3))
  BY PassStmt, <1>2, <1>3 DEF Roles, u1, u2, u3, u4
<1>12. Passes(code_prog, Code!Fall(<<n, "cond">>),
             State("maybe", b1, c1, l, u3), State("closed", b1, c1, l, u3))
  BY PassFall
<1>13. Passes(code_prog, Code!DropTargets(1),
             State("closed", b1, c1, l, u3), State("closed", b, c, l, u3))
  BY PassTargets, <1>2, <1>t
<1>14. Passes(code_prog, Code!At(<<n, "exit">>),
             State("closed", b, c, l, u3), State("open", b, c, l, u4))
  BY PassAt, <1>2, <1>3 DEF Roles, u1, u2, u3, u4
<1>15. IsSeq(list) /\ Path(code_prog, list, State("open", b, c, l, u), State("open", b, c, l, u4))
  <2>1. IsSeq(list) /\ Len(list) = 11
    BY DEF IsSeq
  <2>2. st[1] = State("open", b, c, l, u) /\ st[12] = State("open", b, c, l, u4)
    OBVIOUS
  <2>3. \A i \in 1 .. 11 : Passes(code_prog, list[i], st[i], st[i + 1])
    <3> HIDE DEF node, b1, c1, u1, u2, u3, u4
    <3> QED
      BY <1>4, <1>5, <1>6, <1>7, <1>8, <1>9, <1>10, <1>11, <1>12, <1>13, <1>14
  <2> HIDE DEF list, st
  <2> QED
    BY <2>1, <2>2, <2>3 DEF Path, Steps
<1>17. u4 \subseteq u \cup ClaimSet(code_prog, n)
  BY <1>2, <1>3 DEF Roles
<1>z. LET z == State("open", b, c, l, u4)
      IN  /\ z.b = b /\ z.c = c /\ z.l = l /\ z.u \subseteq u \cup ClaimSet(code_prog, n)
          /\ z.o = "open"
  <2> HIDE DEF u4
  <2> QED
    BY <1>17, StateIs
<1>18. Code!LowerWhile(n) = list
  BY DEF k1, Code!LowerWhile
<1> HIDE DEF list
<1> QED
  BY <1>15, <1>z, <1>18 DEF Leads

LEMMA LeadsFor ==
  ASSUME Legal, NEW n \in DOMAIN code_prog.node, code_prog.node[n].kind = "for",
         NEW b, NEW c, NEW l, NEW u, Fits(n, b, c, l, u)
  PROVE  Leads(n, Code!LowerFor(n), b, c, l, u)
<1> DEFINE node == code_prog.node[n]
           k1 == node.kids[1]
           b1 == Append(b, <<n, "exit">>)
           c1 == Append(c, <<n, "latch">>)
           u1 == u \cup {<<n, "cond">>}
           u2 == u1 \cup {<<n, "body">>}
           u3 == u2 \cup ClaimSet(code_prog, k1)
           u4 == u3 \cup {<<n, "latch">>}
           u5 == u4 \cup {<<n, "exit">>}
           list == << Code!Eval(node.init),
                      Code!LoopTargets(<<n, "exit">>, <<n, "latch">>),
                      Code!Emit(Code!Br({<<n, "cond">>})),
                      Code!At(<<n, "cond">>),
                      Code!Eval(node.expr),
                      Code!Emit(Code!Br({<<n, "body">>, <<n, "exit">>})),
                      Code!At(<<n, "body">>),
                      Code!Stmt(k1),
                      Code!Fall(<<n, "latch">>),
                      Code!At(<<n, "latch">>),
                      Code!Emit(Code!Mark(Code!Again(n))),
                      Code!Eval(node.post),
                      Code!Emit(Code!Br({<<n, "cond">>})),
                      Code!DropTargets(1),
                      Code!At(<<n, "exit">>) >>
           st == << State("open", b, c, l, u),
                    State("open", b, c, l, u),
                    State("open", b1, c1, l, u),
                    State("closed", b1, c1, l, u),
                    State("open", b1, c1, l, u1),
                    State("open", b1, c1, l, u1),
                    State("closed", b1, c1, l, u1),
                    State("open", b1, c1, l, u2),
                    State("maybe", b1, c1, l, u3),
                    State("closed", b1, c1, l, u3),
                    State("open", b1, c1, l, u4),
                    State("open", b1, c1, l, u4),
                    State("open", b1, c1, l, u4),
                    State("closed", b1, c1, l, u4),
                    State("closed", b, c, l, u4),
                    State("open", b, c, l, u5) >>
<1>1. n \in DOMAIN code_prog.node /\ node.kind # "simple" /\ Len(node.kids) = 1
      /\ DOMAIN node.kids = 1 .. 1
  <2>1. node \in Node /\ Len(node.kids) = 1
    BY TreeIs DEF Legal, WellFormed, Loops
  <2> QED
    BY <2>1 DEF Node
<1>2. /\ b \in Seq(Plain) /\ c \in Seq(Plain)
      /\ \A r \in Roles : <<n, r>> \in Plain /\ <<n, r>> \in ClaimSet(code_prog, n) /\ <<n, r>> \notin u
  BY OwnRoles DEF Fits
<1>t. <<n, "exit">> \in Plain /\ <<n, "latch">> \in Plain
  BY <1>2 DEF Roles
<1>3. /\ k1 \in DOMAIN code_prog.node /\ ClaimSet(code_prog, k1) \subseteq ClaimSet(code_prog, n)
      /\ ClaimSet(code_prog, k1) \cap u = {} /\ Root(code_prog, k1) \in l \cup {code_prog.top}
      /\ \A r \in Roles : <<n, r>> \notin ClaimSet(code_prog, k1)
  <2>1. 1 \in DOMAIN node.kids
    BY <1>1
  <2>2. /\ k1 \in DOMAIN code_prog.node /\ ClaimSet(code_prog, k1) \subseteq ClaimSet(code_prog, n)
        /\ ClaimSet(code_prog, k1) \cap u = {} /\ Root(code_prog, k1) \in l \cup {code_prog.top}
        /\ \A x \in OwnBlocks(code_prog, n) : x \notin ClaimSet(code_prog, k1)
        /\ code_prog.node[k1].up = n
        /\ HasLabel(code_prog, k1) => node.kind \in {"compound", "if", "label"} \cup Loops
    BY <2>1, KidIs
  <2>3. \A r \in Roles : <<n, r>> \in OwnBlocks(code_prog, n)
    BY OwnRoles
  <2> QED
    BY <2>2, <2>3 DEF Loops
<1> HIDE DEF k1
<1>4. Passes(code_prog, Code!Eval(node.init),
             State("open", b, c, l, u), State("open", b, c, l, u))
  BY PassPlain, PlainExprs, <1>1
<1>5. Passes(code_prog, Code!LoopTargets(<<n, "exit">>, <<n, "latch">>),
             State("open", b, c, l, u), State("open", b1, c1, l, u))
  BY PassTargets, <1>2, <1>t
<1>6. Passes(code_prog, Code!Emit(Code!Br({<<n, "cond">>})),
             State("open", b1, c1, l, u), State("closed", b1, c1, l, u))
  BY PassBr
<1>7. Passes(code_prog, Code!At(<<n, "cond">>),
             State("closed", b1, c1, l, u), State("open", b1, c1, l, u1))
  BY PassAt, <1>2, <1>3 DEF Roles, u1, u2, u3, u4, u5
<1>8. Passes(code_prog, Code!Eval(node.expr),
             State("open", b1, c1, l, u1), State("open", b1, c1, l, u1))
  BY PassPlain, PlainExprs, <1>1
<1>9. Passes(code_prog, Code!Emit(Code!Br({<<n, "body">>, <<n, "exit">>})),
             State("open", b1, c1, l, u1), State("closed", b1, c1, l, u1))
  BY PassBr
<1>10. Passes(code_prog, Code!At(<<n, "body">>),
             State("closed", b1, c1, l, u1), State("open", b1, c1, l, u2))
  BY PassAt, <1>2, <1>3 DEF Roles, u1, u2, u3, u4, u5
<1>11. Passes(code_prog, Code!Stmt(k1),
             State("open", b1, c1, l, u2), State("maybe", b1, c1, l, u3))
  BY PassStmt, <1>2, <1>3 DEF Roles, u1, u2, u3, u4, u5
<1>12. Passes(code_prog, Code!Fall(<<n, "latch">>),
             State("maybe", b1, c1, l, u3), State("closed", b1, c1, l, u3))
  BY PassFall
<1>13. Passes(code_prog, Code!At(<<n, "latch">>),
             State("closed", b1, c1, l, u3), State("open", b1, c1, l, u4))
  BY PassAt, <1>2, <1>3 DEF Roles, u1, u2, u3, u4, u5
<1>14. Passes(code_prog, Code!Emit(Code!Mark(Code!Again(n))),
             State("open", b1, c1, l, u4), State("open", b1, c1, l, u4))
  BY PassMark
<1>15. Passes(code_prog, Code!Eval(node.post),
             State("open", b1, c1, l, u4), State("open", b1, c1, l, u4))
  BY PassPlain, PlainExprs, <1>1
<1>16. Passes(code_prog, Code!Emit(Code!Br({<<n, "cond">>})),
             State("open", b1, c1, l, u4), State("closed", b1, c1, l, u4))
  BY PassBr
<1>17. Passes(code_prog, Code!DropTargets(1),
             State("closed", b1, c1, l, u4), State("closed", b, c, l, u4))
  BY PassTargets, <1>2, <1>t
<1>18. Passes(code_prog, Code!At(<<n, "exit">>),
             State("closed", b, c, l, u4), State("open", b, c, l, u5))
  BY PassAt, <1>2, <1>3 DEF Roles, u1, u2, u3, u4, u5
<1>19. IsSeq(list) /\ Path(code_prog, list, State("open", b, c, l, u), State("open", b, c, l, u5))
  <2>1. IsSeq(list) /\ Len(list) = 15
    BY DEF IsSeq
  <2>2. st[1] = State("open", b, c, l, u) /\ st[16] = State("open", b, c, l, u5)
    OBVIOUS
  <2>3. \A i \in 1 .. 15 : Passes(code_prog, list[i], st[i], st[i + 1])
    <3> HIDE DEF node, b1, c1, u1, u2, u3, u4, u5
    <3> QED
      BY <1>4, <1>5, <1>6, <1>7, <1>8, <1>9, <1>10, <1>11, <1>12, <1>13, <1>14, <1>15, <1>16, <1>17, <1>18
  <2> HIDE DEF list, st
  <2> QED
    BY <2>1, <2>2, <2>3 DEF Path, Steps
<1>21. u5 \subseteq u \cup ClaimSet(code_prog, n)
  BY <1>2, <1>3 DEF Roles
<1>z. LET z == State("open", b, c, l, u5)
      IN  /\ z.b = b /\ z.c = c /\ z.l = l /\ z.u \subseteq u \cup ClaimSet(code_prog, n)
          /\ z.o = "open"
  <2> HIDE DEF u5
  <2> QED
    BY <1>21, StateIs
<1>22. Code!LowerFor(n) = list
  BY DEF k1, Code!LowerFor
<1> HIDE DEF list
<1> QED
  BY <1>19, <1>z, <1>22 DEF Leads

LEMMA LeadsDoWhile ==
  ASSUME Legal, NEW n \in DOMAIN code_prog.node, code_prog.node[n].kind = "dowhile",
         NEW b, NEW c, NEW l, NEW u, Fits(n, b, c, l, u)
  PROVE  Leads(n, Code!LowerDoWhile(n), b, c, l, u)
<1> DEFINE node == code_prog.node[n]
           k1 == node.kids[1]
           b1 == Append(b, <<n, "exit">>)
           c1 == Append(c, <<n, "latch">>)
           u1 == u \cup {<<n, "body">>}
           u2 == u1 \cup ClaimSet(code_prog, k1)
           u3 == u2 \cup {<<n, "latch">>}
           u4 == u3 \cup {<<n, "exit">>}
           list == << Code!LoopTargets(<<n, "exit">>, <<n, "latch">>),
                      Code!Emit(Code!Br({<<n, "body">>})),
                      Code!At(<<n, "body">>),
                      Code!Stmt(k1),
                      Code!Fall(<<n, "latch">>),
                      Code!At(<<n, "latch">>),
                      Code!Emit(Code!Mark(Code!Again(n))),
                      Code!Eval(node.expr),
                      Code!Emit(Code!Br({<<n, "body">>, <<n, "exit">>})),
                      Code!DropTargets(1),
                      Code!At(<<n, "exit">>) >>
           st == << State("open", b, c, l, u),
                    State("open", b1, c1, l, u),
                    State("closed", b1, c1, l, u),
                    State("open", b1, c1, l, u1),
                    State("maybe", b1, c1, l, u2),
                    State("closed", b1, c1, l, u2),
                    State("open", b1, c1, l, u3),
                    State("open", b1, c1, l, u3),
                    State("open", b1, c1, l, u3),
                    State("closed", b1, c1, l, u3),
                    State("closed", b, c, l, u3),
                    State("open", b, c, l, u4) >>
<1>1. n \in DOMAIN code_prog.node /\ node.kind # "simple" /\ Len(node.kids) = 1
      /\ DOMAIN node.kids = 1 .. 1
  <2>1. node \in Node /\ Len(node.kids) = 1
    BY TreeIs DEF Legal, WellFormed, Loops
  <2> QED
    BY <2>1 DEF Node
<1>2. /\ b \in Seq(Plain) /\ c \in Seq(Plain)
      /\ \A r \in Roles : <<n, r>> \in Plain /\ <<n, r>> \in ClaimSet(code_prog, n) /\ <<n, r>> \notin u
  BY OwnRoles DEF Fits
<1>t. <<n, "exit">> \in Plain /\ <<n, "latch">> \in Plain
  BY <1>2 DEF Roles
<1>3. /\ k1 \in DOMAIN code_prog.node /\ ClaimSet(code_prog, k1) \subseteq ClaimSet(code_prog, n)
      /\ ClaimSet(code_prog, k1) \cap u = {} /\ Root(code_prog, k1) \in l \cup {code_prog.top}
      /\ \A r \in Roles : <<n, r>> \notin ClaimSet(code_prog, k1)
  <2>1. 1 \in DOMAIN node.kids
    BY <1>1
  <2>2. /\ k1 \in DOMAIN code_prog.node /\ ClaimSet(code_prog, k1) \subseteq ClaimSet(code_prog, n)
        /\ ClaimSet(code_prog, k1) \cap u = {} /\ Root(code_prog, k1) \in l \cup {code_prog.top}
        /\ \A x \in OwnBlocks(code_prog, n) : x \notin ClaimSet(code_prog, k1)
        /\ code_prog.node[k1].up = n
        /\ HasLabel(code_prog, k1) => node.kind \in {"compound", "if", "label"} \cup Loops
    BY <2>1, KidIs
  <2>3. \A r \in Roles : <<n, r>> \in OwnBlocks(code_prog, n)
    BY OwnRoles
  <2> QED
    BY <2>2, <2>3 DEF Loops
<1> HIDE DEF k1
<1>4. Passes(code_prog, Code!LoopTargets(<<n, "exit">>, <<n, "latch">>),
             State("open", b, c, l, u), State("open", b1, c1, l, u))
  BY PassTargets, <1>2, <1>t
<1>5. Passes(code_prog, Code!Emit(Code!Br({<<n, "body">>})),
             State("open", b1, c1, l, u), State("closed", b1, c1, l, u))
  BY PassBr
<1>6. Passes(code_prog, Code!At(<<n, "body">>),
             State("closed", b1, c1, l, u), State("open", b1, c1, l, u1))
  BY PassAt, <1>2, <1>3 DEF Roles, u1, u2, u3, u4
<1>7. Passes(code_prog, Code!Stmt(k1),
             State("open", b1, c1, l, u1), State("maybe", b1, c1, l, u2))
  BY PassStmt, <1>2, <1>3 DEF Roles, u1, u2, u3, u4
<1>8. Passes(code_prog, Code!Fall(<<n, "latch">>),
             State("maybe", b1, c1, l, u2), State("closed", b1, c1, l, u2))
  BY PassFall
<1>9. Passes(code_prog, Code!At(<<n, "latch">>),
             State("closed", b1, c1, l, u2), State("open", b1, c1, l, u3))
  BY PassAt, <1>2, <1>3 DEF Roles, u1, u2, u3, u4
<1>10. Passes(code_prog, Code!Emit(Code!Mark(Code!Again(n))),
             State("open", b1, c1, l, u3), State("open", b1, c1, l, u3))
  BY PassMark
<1>11. Passes(code_prog, Code!Eval(node.expr),
             State("open", b1, c1, l, u3), State("open", b1, c1, l, u3))
  BY PassPlain, PlainExprs, <1>1
<1>12. Passes(code_prog, Code!Emit(Code!Br({<<n, "body">>, <<n, "exit">>})),
             State("open", b1, c1, l, u3), State("closed", b1, c1, l, u3))
  BY PassBr
<1>13. Passes(code_prog, Code!DropTargets(1),
             State("closed", b1, c1, l, u3), State("closed", b, c, l, u3))
  BY PassTargets, <1>2, <1>t
<1>14. Passes(code_prog, Code!At(<<n, "exit">>),
             State("closed", b, c, l, u3), State("open", b, c, l, u4))
  BY PassAt, <1>2, <1>3 DEF Roles, u1, u2, u3, u4
<1>15. IsSeq(list) /\ Path(code_prog, list, State("open", b, c, l, u), State("open", b, c, l, u4))
  <2>1. IsSeq(list) /\ Len(list) = 11
    BY DEF IsSeq
  <2>2. st[1] = State("open", b, c, l, u) /\ st[12] = State("open", b, c, l, u4)
    OBVIOUS
  <2>3. \A i \in 1 .. 11 : Passes(code_prog, list[i], st[i], st[i + 1])
    <3> HIDE DEF node, b1, c1, u1, u2, u3, u4
    <3> QED
      BY <1>4, <1>5, <1>6, <1>7, <1>8, <1>9, <1>10, <1>11, <1>12, <1>13, <1>14
  <2> HIDE DEF list, st
  <2> QED
    BY <2>1, <2>2, <2>3 DEF Path, Steps
<1>17. u4 \subseteq u \cup ClaimSet(code_prog, n)
  BY <1>2, <1>3 DEF Roles
<1>z. LET z == State("open", b, c, l, u4)
      IN  /\ z.b = b /\ z.c = c /\ z.l = l /\ z.u \subseteq u \cup ClaimSet(code_prog, n)
          /\ z.o = "open"
  <2> HIDE DEF u4
  <2> QED
    BY <1>17, StateIs
<1>18. Code!LowerDoWhile(n) = list
  BY DEF k1, Code!LowerDoWhile
<1> HIDE DEF list
<1> QED
  BY <1>15, <1>z, <1>18 DEF Leads

LEMMA LeadsTry ==
  ASSUME Legal, NEW n \in DOMAIN code_prog.node, code_prog.node[n].kind = "try",
         NEW b, NEW c, NEW l, NEW u, Fits(n, b, c, l, u)
  PROVE  Leads(n, Code!LowerTry(n), b, c, l, u)
<1> DEFINE node == code_prog.node[n]
           k1 == node.kids[1]
           k2 == node.kids[2]
           u1 == u \cup {<<n, "setup">>}
           u2 == u1 \cup {<<n, "try">>}
           u3 == u2 \cup ClaimSet(code_prog, k1)
           u4 == u3 \cup {<<n, "catch">>}
           u5 == u4 \cup ClaimSet(code_prog, k2)
           u6 == u5 \cup {<<n, "merge">>}
           list == << Code!Emit(Code!SetJmp(n)),
                      Code!At(<<n, "setup">>),
                      Code!Emit(Code!Push(n)),
                      Code!Emit(Code!Br({<<n, "try">>})),
                      Code!At(<<n, "try">>),
                      Code!Stmt(k1),
                      Code!IfOpen(<<Code!Pop, Code!Br({<<n, "merge">>})>>),
                      Code!At(<<n, "catch">>),
                      Code!Stmt(k2),
                      Code!Fall(<<n, "merge">>),
                      Code!At(<<n, "merge">>) >>
           st == << State("open", b, c, l, u),
                    State("closed", b, c, l, u),
                    State("open", b, c, l, u1),
                    State("open", b, c, l, u1),
                    State("closed", b, c, l, u1),
                    State("open", b, c, l, u2),
                    State("maybe", b, c, l, u3),
                    State("closed", b, c, l, u3),
                    State("open", b, c, l, u4),
                    State("maybe", b, c, l, u5),
                    State("closed", b, c, l, u5),
                    State("open", b, c, l, u6) >>
<1>1. n \in DOMAIN code_prog.node /\ node.kind # "simple" /\ Len(node.kids) = 2
      /\ DOMAIN node.kids = 1 .. 2
  <2>1. node \in Node /\ Len(node.kids) = 2
    BY TreeIs DEF Legal, WellFormed, Loops
  <2> QED
    BY <2>1 DEF Node
<1>2. /\ b \in Seq(Plain) /\ c \in Seq(Plain)
      /\ \A r \in Roles : <<n, r>> \in Plain /\ <<n, r>> \in ClaimSet(code_prog, n) /\ <<n, r>> \notin u
  BY OwnRoles DEF Fits
<1>3. /\ k1 \in DOMAIN code_prog.node /\ ClaimSet(code_prog, k1) \subseteq ClaimSet(code_prog, n)
      /\ ClaimSet(code_prog, k1) \cap u = {} /\ Root(code_prog, k1) \in l \cup {code_prog.top}
      /\ \A r \in Roles : <<n, r>> \notin ClaimSet(code_prog, k1)
      /\ ~ HasLabel(code_prog, k1)
      /\ k2 \in DOMAIN code_prog.node /\ ClaimSet(code_prog, k2) \subseteq ClaimSet(code_prog, n)
      /\ ClaimSet(code_prog, k2) \cap u = {} /\ Root(code_prog, k2) \in l \cup {code_prog.top}
      /\ \A r \in Roles : <<n, r>> \notin ClaimSet(code_prog, k2)
      /\ ~ HasLabel(code_prog, k2)
      /\ ClaimSet(code_prog, k1) \cap ClaimSet(code_prog, k2) = {}
  <2>1. 1 \in DOMAIN node.kids
    BY <1>1
  <2>3. /\ k1 \in DOMAIN code_prog.node /\ ClaimSet(code_prog, k1) \subseteq ClaimSet(code_prog, n)
        /\ ClaimSet(code_prog, k1) \cap u = {} /\ Root(code_prog, k1) \in l \cup {code_prog.top}
        /\ \A x \in OwnBlocks(code_prog, n) : x \notin ClaimSet(code_prog, k1)
        /\ code_prog.node[k1].up = n
        /\ HasLabel(code_prog, k1) => node.kind \in {"compound", "if", "label"} \cup Loops
    BY <2>1, KidIs
  <2>2. 2 \in DOMAIN node.kids
    BY <1>1
  <2>4. /\ k2 \in DOMAIN code_prog.node /\ ClaimSet(code_prog, k2) \subseteq ClaimSet(code_prog, n)
        /\ ClaimSet(code_prog, k2) \cap u = {} /\ Root(code_prog, k2) \in l \cup {code_prog.top}
        /\ \A x \in OwnBlocks(code_prog, n) : x \notin ClaimSet(code_prog, k2)
        /\ code_prog.node[k2].up = n
        /\ HasLabel(code_prog, k2) => node.kind \in {"compound", "if", "label"} \cup Loops
    BY <2>2, KidIs
  <2>5. k1 # k2 /\ n # 0
    BY <1>1, <2>1, <2>2, UpIs DEF Legal, WellFormed
  <2>6. ClaimSet(code_prog, k1) \cap ClaimSet(code_prog, k2) = {}
    BY <2>3, <2>4, <2>5, ClaimsApart DEF Legal
  <2>7. \A r \in Roles : <<n, r>> \in OwnBlocks(code_prog, n)
    BY OwnRoles
  <2> QED
    BY <2>3, <2>4, <2>5, <2>6, <2>7 DEF Loops
<1>4. LET q == <<Code!Pop, Code!Br({<<n, "merge">>})>>
      IN  IsSeq(q) /\ q # <<>> /\ \A i \in 1 .. Len(q) : Ending(q[i]) <=> i = Len(q)
  BY DEF IsSeq, Ending, Code!Pop, Code!Br
<1> HIDE DEF k1, k2
<1>5. Passes(code_prog, Code!Emit(Code!SetJmp(n)),
             State("open", b, c, l, u), State("closed", b, c, l, u))
  BY PassEmit DEF Ending, Code!SetJmp
<1>6. Passes(code_prog, Code!At(<<n, "setup">>),
             State("closed", b, c, l, u), State("open", b, c, l, u1))
  BY PassAt, <1>2, <1>3 DEF Roles, u1, u2, u3, u4, u5, u6
<1>7. Passes(code_prog, Code!Emit(Code!Push(n)),
             State("open", b, c, l, u1), State("open", b, c, l, u1))
  BY PassEmit DEF Ending, Code!Push
<1>8. Passes(code_prog, Code!Emit(Code!Br({<<n, "try">>})),
             State("open", b, c, l, u1), State("closed", b, c, l, u1))
  BY PassBr
<1>9. Passes(code_prog, Code!At(<<n, "try">>),
             State("closed", b, c, l, u1), State("open", b, c, l, u2))
  BY PassAt, <1>2, <1>3 DEF Roles, u1, u2, u3, u4, u5, u6
<1>10. Passes(code_prog, Code!Stmt(k1),
             State("open", b, c, l, u2), State("maybe", b, c, l, u3))
  BY PassStmt, <1>2, <1>3 DEF Roles, u1, u2, u3, u4, u5, u6
<1>11. Passes(code_prog, Code!IfOpen(<<Code!Pop, Code!Br({<<n, "merge">>})>>),
             State("maybe", b, c, l, u3), State("closed", b, c, l, u3))
  BY <1>4, PassOpen
<1>12. Passes(code_prog, Code!At(<<n, "catch">>),
             State("closed", b, c, l, u3), State("open", b, c, l, u4))
  BY PassAt, <1>2, <1>3 DEF Roles, u1, u2, u3, u4, u5, u6
<1>13. Passes(code_prog, Code!Stmt(k2),
             State("open", b, c, l, u4), State("maybe", b, c, l, u5))
  BY PassStmt, <1>2, <1>3 DEF Roles, u1, u2, u3, u4, u5, u6
<1>14. Passes(code_prog, Code!Fall(<<n, "merge">>),
             State("maybe", b, c, l, u5), State("closed", b, c, l, u5))
  BY PassFall
<1>15. Passes(code_prog, Code!At(<<n, "merge">>),
             State("closed", b, c, l, u5), State("open", b, c, l, u6))
  BY PassAt, <1>2, <1>3 DEF Roles, u1, u2, u3, u4, u5, u6
<1>16. IsSeq(list) /\ Path(code_prog, list, State("open", b, c, l, u), State("open", b, c, l, u6))
  <2>1. IsSeq(list) /\ Len(list) = 11
    BY DEF IsSeq
  <2>2. st[1] = State("open", b, c, l, u) /\ st[12] = State("open", b, c, l, u6)
    OBVIOUS
  <2>3. \A i \in 1 .. 11 : Passes(code_prog, list[i], st[i], st[i + 1])
    <3> HIDE DEF node, u1, u2, u3, u4, u5, u6
    <3> QED
      BY <1>5, <1>6, <1>7, <1>8, <1>9, <1>10, <1>11, <1>12, <1>13, <1>14, <1>15
  <2> HIDE DEF list, st
  <2> QED
    BY <2>1, <2>2, <2>3 DEF Path, Steps
<1>18. u6 \subseteq u \cup ClaimSet(code_prog, n)
  BY <1>2, <1>3 DEF Roles
<1>z. LET z == State("open", b, c, l, u6)
      IN  /\ z.b = b /\ z.c = c /\ z.l = l /\ z.u \subseteq u \cup ClaimSet(code_prog, n)
          /\ z.o = "open"
  <2> HIDE DEF u6
  <2> QED
    BY <1>18, StateIs
<1>19. Code!LowerTry(n) = list
  BY DEF k1, k2, Code!LowerTry
<1> HIDE DEF list
<1> QED
  BY <1>16, <1>z, <1>19 DEF Leads

LEMMA LeadsIfThen ==
  ASSUME Legal, NEW n \in DOMAIN code_prog.node, code_prog.node[n].kind = "if",
         Len(code_prog.node[n].kids) = 1, NEW b, NEW c, NEW l, NEW u, Fits(n, b, c, l, u)
  PROVE  Leads(n, Code!LowerIf(n), b, c, l, u)
<1> DEFINE node == code_prog.node[n]
           k1 == node.kids[1]
           u1 == u \cup {<<n, "then">>}
           u2 == u1 \cup ClaimSet(code_prog, k1)
           u3 == u2 \cup {<<n, "merge">>}
           list1 == << Code!Eval(node.expr),
                       Code!Emit(Code!Br({<<n, "then">>, <<n, "merge">>})),
                       Code!At(<<n, "then">>),
                       Code!Stmt(k1),
                       Code!Fall(<<n, "merge">>) >>
           st1 == << State("open", b, c, l, u),
                     State("open", b, c, l, u),
                     State("closed", b, c, l, u),
                     State("open", b, c, l, u1),
                     State("maybe", b, c, l, u2),
                     State("closed", b, c, l, u2) >>
           list2 == <<>>
           list3 == << Code!At(<<n, "merge">>) >>
           st3 == << State("closed", b, c, l, u2),
                     State("open", b, c, l, u3) >>
<1>1. n \in DOMAIN code_prog.node /\ node.kind # "simple" /\ Len(node.kids) = 1
      /\ DOMAIN node.kids = 1 .. 1
  <2>1. node \in Node /\ Len(node.kids) = 1
    BY TreeIs DEF Legal, WellFormed, Loops
  <2> QED
    BY <2>1 DEF Node
<1>2. /\ b \in Seq(Plain) /\ c \in Seq(Plain)
      /\ \A r \in Roles : <<n, r>> \in Plain /\ <<n, r>> \in ClaimSet(code_prog, n) /\ <<n, r>> \notin u
  BY OwnRoles DEF Fits
<1>3. /\ k1 \in DOMAIN code_prog.node /\ ClaimSet(code_prog, k1) \subseteq ClaimSet(code_prog, n)
      /\ ClaimSet(code_prog, k1) \cap u = {} /\ Root(code_prog, k1) \in l \cup {code_prog.top}
      /\ \A r \in Roles : <<n, r>> \notin ClaimSet(code_prog, k1)
  <2>1. 1 \in DOMAIN node.kids
    BY <1>1
  <2>2. /\ k1 \in DOMAIN code_prog.node /\ ClaimSet(code_prog, k1) \subseteq ClaimSet(code_prog, n)
        /\ ClaimSet(code_prog, k1) \cap u = {} /\ Root(code_prog, k1) \in l \cup {code_prog.top}
        /\ \A x \in OwnBlocks(code_prog, n) : x \notin ClaimSet(code_prog, k1)
        /\ code_prog.node[k1].up = n
        /\ HasLabel(code_prog, k1) => node.kind \in {"compound", "if", "label"} \cup Loops
    BY <2>1, KidIs
  <2>3. \A r \in Roles : <<n, r>> \in OwnBlocks(code_prog, n)
    BY OwnRoles
  <2> QED
    BY <2>2, <2>3 DEF Loops
<1> HIDE DEF k1
<1>4. Passes(code_prog, Code!Eval(node.expr),
             State("open", b, c, l, u), State("open", b, c, l, u))
  BY PassPlain, PlainExprs, <1>1
<1>5. Passes(code_prog, Code!Emit(Code!Br({<<n, "then">>, <<n, "merge">>})),
             State("open", b, c, l, u), State("closed", b, c, l, u))
  BY PassBr
<1>6. Passes(code_prog, Code!At(<<n, "then">>),
             State("closed", b, c, l, u), State("open", b, c, l, u1))
  BY PassAt, <1>2, <1>3 DEF Roles, u1, u2, u3
<1>7. Passes(code_prog, Code!Stmt(k1),
             State("open", b, c, l, u1), State("maybe", b, c, l, u2))
  BY PassStmt, <1>2, <1>3 DEF Roles, u1, u2, u3
<1>8. Passes(code_prog, Code!Fall(<<n, "merge">>),
             State("maybe", b, c, l, u2), State("closed", b, c, l, u2))
  BY PassFall
<1>9. Passes(code_prog, Code!At(<<n, "merge">>),
             State("closed", b, c, l, u2), State("open", b, c, l, u3))
  BY PassAt, <1>2, <1>3 DEF Roles, u1, u2, u3
<1>10. IsSeq(list1) /\ Path(code_prog, list1, State("open", b, c, l, u), State("closed", b, c, l, u2))
  <2>1. IsSeq(list1) /\ Len(list1) = 5
    BY DEF IsSeq
  <2>2. st1[1] = State("open", b, c, l, u) /\ st1[6] = State("closed", b, c, l, u2)
    OBVIOUS
  <2>3. \A i \in 1 .. 5 : Passes(code_prog, list1[i], st1[i], st1[i + 1])
    <3> HIDE DEF node, u1, u2, u3
    <3> QED
      BY <1>4, <1>5, <1>6, <1>7, <1>8
  <2> HIDE DEF list1, st1
  <2> QED
    BY <2>1, <2>2, <2>3 DEF Path, Steps
<1>11. IsSeq(list2) /\ Path(code_prog, list2, State("closed", b, c, l, u2), State("closed", b, c, l, u2))
  BY PathNil DEF IsSeq
<1>12. IsSeq(list3) /\ Path(code_prog, list3, State("closed", b, c, l, u2), State("open", b, c, l, u3))
  <2>1. IsSeq(list3) /\ Len(list3) = 1
    BY DEF IsSeq
  <2>2. st3[1] = State("closed", b, c, l, u2) /\ st3[2] = State("open", b, c, l, u3)
    OBVIOUS
  <2>3. \A i \in 1 .. 1 : Passes(code_prog, list3[i], st3[i], st3[i + 1])
    <3> HIDE DEF node, u1, u2, u3
    <3> QED
      BY <1>9
  <2> HIDE DEF list3, st3
  <2> QED
    BY <2>1, <2>2, <2>3 DEF Path, Steps
<1> HIDE DEF list1, list2, list3
<1>13. IsSeq(list1 \o list2)
      /\ Path(code_prog, list1 \o list2, State("open", b, c, l, u), State("closed", b, c, l, u2))
  BY <1>10, <1>11, ConcatIs, PathConcat
<1>14. IsSeq(list1 \o list2 \o list3)
      /\ Path(code_prog, list1 \o list2 \o list3, State("open", b, c, l, u), State("open", b, c, l, u3))
  BY <1>13, <1>12, ConcatIs, PathConcat
<1>15. u3 \subseteq u \cup ClaimSet(code_prog, n)
  BY <1>2, <1>3 DEF Roles
<1>z. LET z == State("open", b, c, l, u3)
      IN  /\ z.b = b /\ z.c = c /\ z.l = l /\ z.u \subseteq u \cup ClaimSet(code_prog, n)
          /\ z.o = "open"
  <2> HIDE DEF u3
  <2> QED
    BY <1>15, StateIs
<1>16. Code!LowerIf(n) = list1 \o list2 \o list3
  BY <1>1 DEF k1, list1, list2, list3, Code!LowerIf
<1> QED
  BY <1>14, <1>z, <1>16 DEF Leads

LEMMA LeadsIfElse ==
  ASSUME Legal, NEW n \in DOMAIN code_prog.node, code_prog.node[n].kind = "if",
         Len(code_prog.node[n].kids) = 2, NEW b, NEW c, NEW l, NEW u, Fits(n, b, c, l, u)
  PROVE  Leads(n, Code!LowerIf(n), b, c, l, u)
<1> DEFINE node == code_prog.node[n]
           k1 == node.kids[1]
           k2 == node.kids[2]
           u1 == u \cup {<<n, "then">>}
           u2 == u1 \cup ClaimSet(code_prog, k1)
           u3 == u2 \cup {<<n, "else">>}
           u4 == u3 \cup ClaimSet(code_prog, k2)
           u5 == u4 \cup {<<n, "merge">>}
           list1 == << Code!Eval(node.expr),
                       Code!Emit(Code!Br({<<n, "then">>, <<n, "else">>})),
                       Code!At(<<n, "then">>),
                       Code!Stmt(k1),
                       Code!Fall(<<n, "merge">>) >>
           st1 == << State("open", b, c, l, u),
                     State("open", b, c, l, u),
                     State("closed", b, c, l, u),
                     State("open", b, c, l, u1),
                     State("maybe", b, c, l, u2),
                     State("closed", b, c, l, u2) >>
           list2 == << Code!At(<<n, "else">>),
                       Code!Stmt(k2),
                       Code!Fall(<<n, "merge">>) >>
           st2 == << State("closed", b, c, l, u2),
                     State("open", b, c, l, u3),
                     State("maybe", b, c, l, u4),
                     State("closed", b, c, l, u4) >>
           list3 == << Code!At(<<n, "merge">>) >>
           st3 == << State("closed", b, c, l, u4),
                     State("open", b, c, l, u5) >>
<1>1. n \in DOMAIN code_prog.node /\ node.kind # "simple" /\ Len(node.kids) = 2
      /\ DOMAIN node.kids = 1 .. 2
  <2>1. node \in Node /\ Len(node.kids) = 2
    BY TreeIs DEF Legal, WellFormed, Loops
  <2> QED
    BY <2>1 DEF Node
<1>2. /\ b \in Seq(Plain) /\ c \in Seq(Plain)
      /\ \A r \in Roles : <<n, r>> \in Plain /\ <<n, r>> \in ClaimSet(code_prog, n) /\ <<n, r>> \notin u
  BY OwnRoles DEF Fits
<1>3. /\ k1 \in DOMAIN code_prog.node /\ ClaimSet(code_prog, k1) \subseteq ClaimSet(code_prog, n)
      /\ ClaimSet(code_prog, k1) \cap u = {} /\ Root(code_prog, k1) \in l \cup {code_prog.top}
      /\ \A r \in Roles : <<n, r>> \notin ClaimSet(code_prog, k1)
      /\ k2 \in DOMAIN code_prog.node /\ ClaimSet(code_prog, k2) \subseteq ClaimSet(code_prog, n)
      /\ ClaimSet(code_prog, k2) \cap u = {} /\ Root(code_prog, k2) \in l \cup {code_prog.top}
      /\ \A r \in Roles : <<n, r>> \notin ClaimSet(code_prog, k2)
      /\ ClaimSet(code_prog, k1) \cap ClaimSet(code_prog, k2) = {}
  <2>1. 1 \in DOMAIN node.kids
    BY <1>1
  <2>3. /\ k1 \in DOMAIN code_prog.node /\ ClaimSet(code_prog, k1) \subseteq ClaimSet(code_prog, n)
        /\ ClaimSet(code_prog, k1) \cap u = {} /\ Root(code_prog, k1) \in l \cup {code_prog.top}
        /\ \A x \in OwnBlocks(code_prog, n) : x \notin ClaimSet(code_prog, k1)
        /\ code_prog.node[k1].up = n
        /\ HasLabel(code_prog, k1) => node.kind \in {"compound", "if", "label"} \cup Loops
    BY <2>1, KidIs
  <2>2. 2 \in DOMAIN node.kids
    BY <1>1
  <2>4. /\ k2 \in DOMAIN code_prog.node /\ ClaimSet(code_prog, k2) \subseteq ClaimSet(code_prog, n)
        /\ ClaimSet(code_prog, k2) \cap u = {} /\ Root(code_prog, k2) \in l \cup {code_prog.top}
        /\ \A x \in OwnBlocks(code_prog, n) : x \notin ClaimSet(code_prog, k2)
        /\ code_prog.node[k2].up = n
        /\ HasLabel(code_prog, k2) => node.kind \in {"compound", "if", "label"} \cup Loops
    BY <2>2, KidIs
  <2>5. k1 # k2 /\ n # 0
    BY <1>1, <2>1, <2>2, UpIs DEF Legal, WellFormed
  <2>6. ClaimSet(code_prog, k1) \cap ClaimSet(code_prog, k2) = {}
    BY <2>3, <2>4, <2>5, ClaimsApart DEF Legal
  <2>7. \A r \in Roles : <<n, r>> \in OwnBlocks(code_prog, n)
    BY OwnRoles
  <2> QED
    BY <2>3, <2>4, <2>5, <2>6, <2>7 DEF Loops
<1> HIDE DEF k1, k2
<1>4. Passes(code_prog, Code!Eval(node.expr),
             State("open", b, c, l, u), State("open", b, c, l, u))
  BY PassPlain, PlainExprs, <1>1
<1>5. Passes(code_prog, Code!Emit(Code!Br({<<n, "then">>, <<n, "else">>})),
             State("open", b, c, l, u), State("closed", b, c, l, u))
  BY PassBr
<1>6. Passes(code_prog, Code!At(<<n, "then">>),
             State("closed", b, c, l, u), State("open", b, c, l, u1))
  BY PassAt, <1>2, <1>3 DEF Roles, u1, u2, u3, u4, u5
<1>7. Passes(code_prog, Code!Stmt(k1),
             State("open", b, c, l, u1), State("maybe", b, c, l, u2))
  BY PassStmt, <1>2, <1>3 DEF Roles, u1, u2, u3, u4, u5
<1>8. Passes(code_prog, Code!Fall(<<n, "merge">>),
             State("maybe", b, c, l, u2), State("closed", b, c, l, u2))
  BY PassFall
<1>9. Passes(code_prog, Code!At(<<n, "else">>),
             State("closed", b, c, l, u2), State("open", b, c, l, u3))
  BY PassAt, <1>2, <1>3 DEF Roles, u1, u2, u3, u4, u5
<1>10. Passes(code_prog, Code!Stmt(k2),
             State("open", b, c, l, u3), State("maybe", b, c, l, u4))
  BY PassStmt, <1>2, <1>3 DEF Roles, u1, u2, u3, u4, u5
<1>11. Passes(code_prog, Code!Fall(<<n, "merge">>),
             State("maybe", b, c, l, u4), State("closed", b, c, l, u4))
  BY PassFall
<1>12. Passes(code_prog, Code!At(<<n, "merge">>),
             State("closed", b, c, l, u4), State("open", b, c, l, u5))
  BY PassAt, <1>2, <1>3 DEF Roles, u1, u2, u3, u4, u5
<1>13. IsSeq(list1) /\ Path(code_prog, list1, State("open", b, c, l, u), State("closed", b, c, l, u2))
  <2>1. IsSeq(list1) /\ Len(list1) = 5
    BY DEF IsSeq
  <2>2. st1[1] = State("open", b, c, l, u) /\ st1[6] = State("closed", b, c, l, u2)
    OBVIOUS
  <2>3. \A i \in 1 .. 5 : Passes(code_prog, list1[i], st1[i], st1[i + 1])
    <3> HIDE DEF node, u1, u2, u3, u4, u5
    <3> QED
      BY <1>4, <1>5, <1>6, <1>7, <1>8
  <2> HIDE DEF list1, st1
  <2> QED
    BY <2>1, <2>2, <2>3 DEF Path, Steps
<1>14. IsSeq(list2) /\ Path(code_prog, list2, State("closed", b, c, l, u2), State("closed", b, c, l, u4))
  <2>1. IsSeq(list2) /\ Len(list2) = 3
    BY DEF IsSeq
  <2>2. st2[1] = State("closed", b, c, l, u2) /\ st2[4] = State("closed", b, c, l, u4)
    OBVIOUS
  <2>3. \A i \in 1 .. 3 : Passes(code_prog, list2[i], st2[i], st2[i + 1])
    <3> HIDE DEF node, u1, u2, u3, u4, u5
    <3> QED
      BY <1>9, <1>10, <1>11
  <2> HIDE DEF list2, st2
  <2> QED
    BY <2>1, <2>2, <2>3 DEF Path, Steps
<1>15. IsSeq(list3) /\ Path(code_prog, list3, State("closed", b, c, l, u4), State("open", b, c, l, u5))
  <2>1. IsSeq(list3) /\ Len(list3) = 1
    BY DEF IsSeq
  <2>2. st3[1] = State("closed", b, c, l, u4) /\ st3[2] = State("open", b, c, l, u5)
    OBVIOUS
  <2>3. \A i \in 1 .. 1 : Passes(code_prog, list3[i], st3[i], st3[i + 1])
    <3> HIDE DEF node, u1, u2, u3, u4, u5
    <3> QED
      BY <1>12
  <2> HIDE DEF list3, st3
  <2> QED
    BY <2>1, <2>2, <2>3 DEF Path, Steps
<1> HIDE DEF list1, list2, list3
<1>16. IsSeq(list1 \o list2)
      /\ Path(code_prog, list1 \o list2, State("open", b, c, l, u), State("closed", b, c, l, u4))
  BY <1>13, <1>14, ConcatIs, PathConcat
<1>17. IsSeq(list1 \o list2 \o list3)
      /\ Path(code_prog, list1 \o list2 \o list3, State("open", b, c, l, u), State("open", b, c, l, u5))
  BY <1>16, <1>15, ConcatIs, PathConcat
<1>18. u5 \subseteq u \cup ClaimSet(code_prog, n)
  BY <1>2, <1>3 DEF Roles
<1>z. LET z == State("open", b, c, l, u5)
      IN  /\ z.b = b /\ z.c = c /\ z.l = l /\ z.u \subseteq u \cup ClaimSet(code_prog, n)
          /\ z.o = "open"
  <2> HIDE DEF u5
  <2> QED
    BY <1>18, StateIs
<1>19. Code!LowerIf(n) = list1 \o list2 \o list3
  BY <1>1 DEF k1, k2, list1, list2, list3, Code!LowerIf
<1> QED
  BY <1>17, <1>z, <1>19 DEF Leads

\* The tasks that lower the kids of a statement.
KidList(n) ==
  [i \in DOMAIN code_prog.node[n].kids |-> Code!Stmt(code_prog.node[n].kids[i])]

\* The kids of a list or of a label can be lowered one after the other.
LeadsKids(n, b, c, l, v) ==
  LET kids == code_prog.node[n].kids
  IN  /\ IsSeq(KidList(n))
      /\ \E z : /\ Path(code_prog, KidList(n), State("open", b, c, l, v), z)
                /\ z.b = b /\ z.c = c /\ z.l = l
                /\ z.u \subseteq v \cup ClaimSet(code_prog, n)
                /\ (\A i \in DOMAIN kids : ~Closes(code_prog, kids[i])) => z.o = "open"

\* The kids of a list or of a label, one after the other.
LEMMA KidsPath ==
  ASSUME Legal, NEW n \in DOMAIN code_prog.node, code_prog.node[n].kind \in {"compound", "label"},
         NEW b, NEW c, NEW l, NEW u, Fits(n, b, c, l, u),
         NEW v, u \subseteq v, v \subseteq u \cup OwnBlocks(code_prog, n)
  PROVE  LeadsKids(n, b, c, l, v)
<1> DEFINE kids == code_prog.node[n].kids
           list == [i \in DOMAIN kids |-> Code!Stmt(kids[i])]
           used(i) == v \cup UNION {ClaimSet(code_prog, kids[j]) : j \in 1 .. i - 1}
           at(i) == IF \E j \in 1 .. i - 1 : Closes(code_prog, kids[j]) THEN "maybe" ELSE "open"
           st == [i \in 1 .. Len(kids) + 1 |-> State(at(i), b, c, l, used(i))]
<1>1. kids \in Seq(Nat \ {0}) /\ Len(kids) \in Nat /\ DOMAIN kids = 1 .. Len(kids)
  <2>1. code_prog.node[n] \in Node
    BY TreeIs DEF Legal
  <2> QED
    BY <2>1 DEF Node
<1>2. IsSeq(list) /\ Len(list) = Len(kids) /\ \A i \in 1 .. Len(kids) : list[i] = Code!Stmt(kids[i])
  BY <1>1 DEF IsSeq
<1>3. ASSUME NEW i \in 1 .. Len(kids)
      PROVE  /\ kids[i] \in DOMAIN code_prog.node
             /\ ClaimSet(code_prog, kids[i]) \subseteq ClaimSet(code_prog, n)
             /\ ClaimSet(code_prog, kids[i]) \cap v = {}
             /\ \A j \in 1 .. i - 1 : ClaimSet(code_prog, kids[i]) \cap ClaimSet(code_prog, kids[j]) = {}
             /\ Root(code_prog, kids[i]) \in l \cup {code_prog.top}
             /\ HasLabel(code_prog, kids[i]) =>
                  \A j \in 1 .. i - 1 : ~Closes(code_prog, kids[j])
  <2>1. i \in DOMAIN kids
    BY <1>1
  <2>2. /\ kids[i] \in DOMAIN code_prog.node /\ code_prog.node[kids[i]].up = n
        /\ ClaimSet(code_prog, kids[i]) \subseteq ClaimSet(code_prog, n)
        /\ ClaimSet(code_prog, kids[i]) \cap u = {}
        /\ \A x \in OwnBlocks(code_prog, n) : x \notin ClaimSet(code_prog, kids[i])
        /\ Root(code_prog, kids[i]) \in l \cup {code_prog.top}
        /\ HasLabel(code_prog, kids[i]) =>
             \A j \in 1 .. i - 1 : ~Closes(code_prog, kids[j])
    BY <2>1, KidIs
  <2>3. ASSUME NEW j \in 1 .. i - 1
        PROVE  ClaimSet(code_prog, kids[i]) \cap ClaimSet(code_prog, kids[j]) = {}
    <3>1. j \in DOMAIN kids /\ j # i
      BY <1>1
    <3>2. kids[j] \in DOMAIN code_prog.node /\ code_prog.node[kids[j]].up = n
      BY <3>1, KidIs
    <3>3. kids[i] # kids[j] /\ n # 0
      BY <2>1, <3>1, UpIs DEF Legal, WellFormed
    <3> QED
      BY <2>2, <3>2, <3>3, ClaimsApart DEF Legal
  <2> QED
    BY <2>2, <2>3
<1> HIDE DEF kids
<1>4. ASSUME NEW i \in 1 .. Len(kids) PROVE Passes(code_prog, list[i], st[i], st[i + 1])
  <2>0. i \in 1 .. Len(kids) + 1 /\ i + 1 \in 1 .. Len(kids) + 1
    BY <1>1
  <2>1. /\ st[i] = State(at(i), b, c, l, used(i))
        /\ st[i + 1] = State(at(i + 1), b, c, l, used(i + 1))
    <3> HIDE DEF at, used
    <3> QED
      BY <2>0
  <2>2. 1 .. (i + 1) - 1 = (1 .. i - 1) \cup {i}
    BY <1>1
  <2>3. used(i + 1) = used(i) \cup ClaimSet(code_prog, kids[i])
    BY <2>2
  <2>4. ClaimSet(code_prog, kids[i]) \cap used(i) = {}
    BY <1>3
  <2>5. HasLabel(code_prog, kids[i]) => at(i) = "open"
    BY <1>3
  <2>6. at(i + 1) = "maybe" \/ (at(i + 1) = "open" /\ at(i) = "open" /\ ~Closes(code_prog, kids[i]))
    BY <2>2
  <2>7. kids[i] \in DOMAIN code_prog.node /\ Root(code_prog, kids[i]) \in l \cup {code_prog.top}
    BY <1>3
  <2>8. list[i] = Code!Stmt(kids[i])
    BY <1>2
  <2> HIDE DEF used, at, st, list, kids
  <2>9. Passes(code_prog, Code!Stmt(kids[i]), State(at(i), b, c, l, used(i)),
               State(at(i + 1), b, c, l, used(i) \cup ClaimSet(code_prog, kids[i])))
    BY <2>4, <2>5, <2>6, <2>7, PassStmt
  <2> QED
    BY <2>1, <2>3, <2>8, <2>9
<1>5. Path(code_prog, list, st[1], st[Len(kids) + 1])
  <2> HIDE DEF list, st, kids
  <2> QED
    BY <1>2, <1>4 DEF Path, Steps
<1>6. st[1] = State("open", b, c, l, v)
  <2>1. 1 .. 1 - 1 = {}
    OBVIOUS
  <2>2. used(1) = v /\ at(1) = "open"
    BY <2>1
  <2>3. st[1] = State(at(1), b, c, l, used(1))
    BY <1>1
  <2> HIDE DEF used, at
  <2> QED
    BY <2>2, <2>3
<1>7. used(Len(kids) + 1) \subseteq v \cup ClaimSet(code_prog, n)
  <2>1. 1 .. (Len(kids) + 1) - 1 = 1 .. Len(kids)
    BY <1>1
  <2> QED
    BY <1>3, <2>1
<1>8. (\A i \in DOMAIN kids : ~Closes(code_prog, kids[i])) => at(Len(kids) + 1) = "open"
  BY <1>1
<1>9. LET z == st[Len(kids) + 1]
      IN  /\ z.b = b /\ z.c = c /\ z.l = l
          /\ z.u = used(Len(kids) + 1) /\ z.o = at(Len(kids) + 1)
  <2>1. st[Len(kids) + 1] = State(at(Len(kids) + 1), b, c, l, used(Len(kids) + 1))
    BY <1>1
  <2> HIDE DEF used, at, st
  <2> QED
    BY <2>1, StateIs
<1> HIDE DEF used, at, st, list
<1>10. /\ IsSeq(list)
       /\ \E z : /\ Path(code_prog, list, State("open", b, c, l, v), z)
                 /\ z.b = b /\ z.c = c /\ z.l = l
                 /\ z.u \subseteq v \cup ClaimSet(code_prog, n)
                 /\ (\A i \in DOMAIN kids : ~Closes(code_prog, kids[i])) => z.o = "open"
  BY <1>2, <1>5, <1>6, <1>7, <1>8, <1>9
<1> QED
  BY <1>10 DEF list, kids, KidList, LeadsKids

\* A kid that closes the block closes it for the list and for the label.
LEMMA KidCloses ==
  ASSUME Legal, NEW n \in DOMAIN code_prog.node, code_prog.node[n].kind \in {"compound", "label"},
         ~Closes(code_prog, n)
  PROVE  \A i \in DOMAIN code_prog.node[n].kids : ~Closes(code_prog, code_prog.node[n].kids[i])
<1> SUFFICES ASSUME NEW i \in DOMAIN code_prog.node[n].kids,
                    Closes(code_prog, code_prog.node[n].kids[i])
             PROVE  FALSE
  OBVIOUS
<1> DEFINE k == code_prog.node[n].kids[i]
<1>1. k \in DOMAIN code_prog.node /\ code_prog.node[k].up = n
  BY KidsAre DEF Legal
<1> HIDE DEF k
<1>2. ~Closes(code_prog, k)
  <2>1. \A m \in DOMAIN code_prog.node :
          code_prog.node[m].up = n /\ code_prog.node[n].kind \in {"compound", "label"}
          /\ Closes(code_prog, m) => Closes(code_prog, n)
    BY ClosesIs DEF Legal
  <2> QED
    BY <1>1, <2>1
<1> QED
  BY <1>2 DEF k

LEMMA LeadsCompound ==
  ASSUME Legal, NEW n \in DOMAIN code_prog.node, code_prog.node[n].kind = "compound",
         NEW b, NEW c, NEW l, NEW u, Fits(n, b, c, l, u)
  PROVE  Leads(n, KidList(n), b, c, l, u)
<1>1. LeadsKids(n, b, c, l, u)
  BY KidsPath
<1>2. ~Closes(code_prog, n) =>
        \A i \in DOMAIN code_prog.node[n].kids : ~Closes(code_prog, code_prog.node[n].kids[i])
  BY KidCloses
<1> QED
  BY <1>1, <1>2 DEF Leads, LeadsKids

LEMMA LeadsLabel ==
  ASSUME Legal, NEW n \in DOMAIN code_prog.node, code_prog.node[n].kind = "label",
         NEW b, NEW c, NEW l, NEW u, Fits(n, b, c, l, u)
  PROVE  Leads(n, Code!LowerLabel(n), b, c, l, u)
<1> DEFINE x == LabelOf(code_prog, n)
           u1 == u \cup {x}
           kids == code_prog.node[n].kids
           list1 == << Code!Fall(x), Code!At(x), Code!Emit(Code!Mark(Code!Enter(n))) >>
           st1 == << State("open", b, c, l, u), State("closed", b, c, l, u),
                     State("open", b, c, l, u1), State("open", b, c, l, u1) >>
           list2 == KidList(n)
<1>1. x \in OwnBlocks(code_prog, n) /\ x \notin u /\ x \in ClaimSet(code_prog, n)
  <2>1. x \in OwnBlocks(code_prog, n)
    BY DEF OwnBlocks
  <2> HIDE DEF x
  <2> QED
    BY <2>1, OwnRoles
<1> HIDE DEF x
<1>2. Passes(code_prog, Code!Fall(x), State("open", b, c, l, u), State("closed", b, c, l, u))
  BY PassFall
<1>3. Passes(code_prog, Code!At(x), State("closed", b, c, l, u), State("open", b, c, l, u1))
  BY <1>1, PassAt
<1>4. Passes(code_prog, Code!Emit(Code!Mark(Code!Enter(n))), State("open", b, c, l, u1),
             State("open", b, c, l, u1))
  BY PassMark
<1>5. IsSeq(list1) /\ Path(code_prog, list1, State("open", b, c, l, u), State("open", b, c, l, u1))
  <2>1. IsSeq(list1) /\ Len(list1) = 3
    BY DEF IsSeq
  <2>2. st1[1] = State("open", b, c, l, u) /\ st1[4] = State("open", b, c, l, u1)
    OBVIOUS
  <2>3. \A i \in 1 .. 3 : Passes(code_prog, list1[i], st1[i], st1[i + 1])
    <3> HIDE DEF u1
    <3> QED
      BY <1>2, <1>3, <1>4
  <2> HIDE DEF list1, st1
  <2> QED
    BY <2>1, <2>2, <2>3 DEF Path, Steps
<1>6. u \subseteq u1 /\ u1 \subseteq u \cup OwnBlocks(code_prog, n)
      /\ u1 \cup ClaimSet(code_prog, n) = u \cup ClaimSet(code_prog, n)
  BY <1>1
<1> HIDE DEF list1, u1
<1>7. LeadsKids(n, b, c, l, u1)
  BY <1>6, KidsPath
<1>8. ~Closes(code_prog, n) => \A i \in DOMAIN kids : ~Closes(code_prog, kids[i])
  BY KidCloses
<1>9. Leads(n, list1 \o list2, b, c, l, u)
  <2>1. PICK z : /\ Path(code_prog, list2, State("open", b, c, l, u1), z)
                 /\ z.b = b /\ z.c = c /\ z.l = l
                 /\ z.u \subseteq u1 \cup ClaimSet(code_prog, n)
                 /\ (\A i \in DOMAIN kids : ~Closes(code_prog, kids[i])) => z.o = "open"
                 /\ IsSeq(list2)
    BY <1>7 DEF LeadsKids
  <2>2. IsSeq(list1 \o list2) /\ Path(code_prog, list1 \o list2, State("open", b, c, l, u), z)
    BY <1>5, <2>1, ConcatIs, PathConcat
  <2> QED
    BY <1>6, <1>8, <2>1, <2>2 DEF Leads
<1>10. Code!LowerLabel(n) = list1 \o list2
  <2>1. Code!LabelBlock(Code!Root(code_prog, n), code_prog.node[n].name) = x
    BY SameSyntax DEF Code!LabelBlock, LabelOf, x
  <2> QED
    BY <2>1 DEF Code!LowerLabel, list1, KidList
<1> QED
  BY <1>9, <1>10

-----------------------------------------------------------------------------
(* Lists joined one after the other.                                       *)

\* f[i] joins the first i sequences of q.
Joined(f, q, n) == f = [i \in 0 .. n |-> IF i = 0 THEN <<>> ELSE f[i - 1] \o q[i]]

LEMMA JoinedIs ==
  ASSUME NEW q, NEW n \in Nat, NEW f, Joined(f, q, n)
  PROVE  /\ f[0] = <<>>
         /\ \A i \in 0 .. n : i # 0 => f[i] = f[i - 1] \o q[i]
BY DEF Joined

LEMMA JoinedAt ==
  ASSUME NEW q, NEW n \in Nat, NEW f, Joined(f, q, n), NEW i \in 1 .. n
  PROVE  f[i] = f[i - 1] \o q[i]
<1>1. i \in 0 .. n /\ i # 0
  OBVIOUS
<1> QED
  BY <1>1, JoinedIs

LEMMA JoinExists ==
  ASSUME NEW q, NEW n \in Nat
  PROVE  \E f : Joined(f, q, n)
<1> DEFINE T == {k \in Nat : \E f : Joined(f, q, k)}
<1>1. 0 \in T
  <2> DEFINE f == [i \in 0 .. 0 |-> <<>>]
  <2>1. Joined(f, q, 0)
    BY DEF Joined
  <2> QED
    BY <2>1
<1>2. ASSUME NEW k \in Nat, k \in T PROVE k + 1 \in T
  <2>1. PICK f : Joined(f, q, k)
    BY <1>2
  <2> DEFINE g == [i \in 0 .. k + 1 |-> IF i = k + 1 THEN f[k] \o q[i] ELSE f[i]]
  <2>2. /\ g = [i \in 0 .. k + 1 |-> g[i]]
        /\ g[k + 1] = f[k] \o q[k + 1] /\ \A i \in 0 .. k : g[i] = f[i]
    <3>1. k + 1 \in 0 .. k + 1 /\ \A i \in 0 .. k : i \in 0 .. k + 1 /\ i # k + 1
      OBVIOUS
    <3>2. g[k + 1] = f[k] \o q[k + 1]
      BY <3>1
    <3>3. \A i \in 0 .. k : g[i] = f[i]
      BY <3>1
    <3>4. g = [i \in 0 .. k + 1 |-> g[i]]
      <4> DEFINE e(i) == IF i = k + 1 THEN f[k] \o q[i] ELSE f[i]
      <4>1. g = [i \in 0 .. k + 1 |-> e(i)]
        OBVIOUS
      <4> HIDE DEF e, g
      <4> QED
        BY <4>1
    <3> HIDE DEF g
    <3> QED
      BY <3>2, <3>3, <3>4
  <2> HIDE DEF g
  <2>3. ASSUME NEW i \in 0 .. k + 1
        PROVE  g[i] = IF i = 0 THEN <<>> ELSE g[i - 1] \o q[i]
    <3>1. CASE i = k + 1
      <4>1. k \in 0 .. k /\ (k + 1) - 1 = k /\ k + 1 # 0
        OBVIOUS
      <4>2. g[k] = f[k]
        BY <2>2, <4>1
      <4> QED
        BY <2>2, <3>1, <4>1, <4>2
    <3>2. CASE i = 0
      <4>1. f[0] = <<>>
        BY <2>1, JoinedIs
      <4>2. 0 \in 0 .. k
        OBVIOUS
      <4> QED
        BY <2>2, <3>2, <4>1, <4>2
    <3>3. CASE i # k + 1 /\ i # 0
      <4>1. i \in 1 .. k /\ i \in 0 .. k /\ i - 1 \in 0 .. k
        BY <3>3
      <4>2. f[i] = f[i - 1] \o q[i]
        BY <2>1, <4>1, JoinedAt
      <4>3. g[i] = f[i] /\ g[i - 1] = f[i - 1]
        BY <2>2, <4>1
      <4> QED
        BY <3>3, <4>2, <4>3
    <3> QED
      BY <3>1, <3>2, <3>3
  <2>4. Joined(g, q, k + 1)
    BY <2>2, <2>3 DEF Joined
  <2> QED
    BY <2>4
<1>3. \A k \in Nat : k \in T
  <2> HIDE DEF T
  <2> QED
    BY <1>1, <1>2, NatSetInduction
<1> QED
  BY <1>3

\* Sequences joined are what FlattenSeq computes.
LEMMA JoinIsSeq ==
  ASSUME NEW q, NEW n \in Nat, NEW f, Joined(f, q, n), \A i \in 1 .. n : IsSeq(q[i])
  PROVE  \A i \in 0 .. n : IsSeq(f[i])
<1> DEFINE T == {i \in 0 .. n : IsSeq(f[i])}
<1>1. 0 \in T
  <2>1. f[0] = <<>>
    BY JoinedIs
  <2>2. IsSeq(f[0])
    BY <2>1 DEF IsSeq
  <2> QED
    BY <2>2
<1>2. ASSUME NEW k \in 0 .. n - 1, k \in T PROVE k + 1 \in T
  <2>1. k + 1 \in 1 .. n /\ k + 1 \in 0 .. n /\ (k + 1) - 1 = k
    OBVIOUS
  <2>2. f[k + 1] = f[k] \o q[k + 1]
    BY <2>1, JoinedAt
  <2>3. IsSeq(f[k]) /\ IsSeq(q[k + 1])
    BY <1>2, <2>1
  <2>4. IsSeq(f[k + 1])
    BY <2>2, <2>3, ConcatIs
  <2> QED
    BY <2>1, <2>4
<1>3. \A k \in 0 .. n : k \in T
  <2> HIDE DEF T
  <2> QED
    BY <1>1, <1>2, IntervalInduction
<1> QED
  BY <1>3

\* Lists that lead on to each other lead on when joined.
LEMMA JoinPath ==
  ASSUME NEW q, NEW n \in Nat, NEW f, Joined(f, q, n), \A i \in 1 .. n : IsSeq(q[i]),
         NEW p, NEW st, \A i \in 1 .. n : Path(p, q[i], st[i - 1], st[i])
  PROVE  \A i \in 0 .. n : Path(p, f[i], st[0], st[i])
<1> DEFINE T == {i \in 0 .. n : Path(p, f[i], st[0], st[i])}
<1>1. 0 \in T
  <2>1. f[0] = <<>>
    BY JoinedIs
  <2>2. Path(p, f[0], st[0], st[0])
    BY <2>1, PathNil
  <2> QED
    BY <2>2
<1>2. ASSUME NEW k \in 0 .. n - 1, k \in T PROVE k + 1 \in T
  <2>1. k + 1 \in 1 .. n /\ k + 1 \in 0 .. n /\ (k + 1) - 1 = k /\ k \in 0 .. n
    OBVIOUS
  <2>2. f[k + 1] = f[k] \o q[k + 1]
    BY <2>1, JoinedAt
  <2>3. IsSeq(f[k]) /\ IsSeq(q[k + 1])
    BY <2>1, JoinIsSeq
  <2>4. Path(p, f[k], st[0], st[k]) /\ Path(p, q[k + 1], st[k], st[k + 1])
    BY <1>2, <2>1
  <2> QED
    BY <2>1, <2>2, <2>3, <2>4, PathConcat
<1>3. \A k \in 0 .. n : k \in T
  <2> HIDE DEF T
  <2> QED
    BY <1>1, <1>2, IntervalInduction
<1> QED
  BY <1>3

\* x is in sequence q.
Has(q, x) == \E i \in 1 .. Len(q) : q[i] = x

LEMMA HoldsConcat ==
  ASSUME NEW q, IsSeq(q), NEW r, IsSeq(r), NEW x
  PROVE  Has(q \o r, x) <=> Has(q, x) \/ Has(r, x)
<1>1. /\ Len(q) \in Nat /\ Len(r) \in Nat /\ Len(q \o r) = Len(q) + Len(r)
      /\ \A i \in 1 .. Len(q) : (q \o r)[i] = q[i]
      /\ \A i \in 1 .. Len(r) : (q \o r)[Len(q) + i] = r[i]
  BY SeqIs, ConcatIs
<1>2. ASSUME Has(q \o r, x) PROVE Has(q, x) \/ Has(r, x)
  <2>1. PICK i \in 1 .. Len(q \o r) : (q \o r)[i] = x
    BY <1>2 DEF Has
  <2>2. CASE i <= Len(q)
    BY <1>1, <2>1, <2>2 DEF Has
  <2>3. CASE i > Len(q)
    <3>1. i - Len(q) \in 1 .. Len(r) /\ Len(q) + (i - Len(q)) = i
      BY <1>1, <2>3
    <3> QED
      BY <1>1, <2>1, <3>1 DEF Has
  <2> QED
    BY <1>1, <2>2, <2>3
<1>3. ASSUME Has(q, x) PROVE Has(q \o r, x)
  <2>1. PICK i \in 1 .. Len(q) : q[i] = x
    BY <1>3 DEF Has
  <2> QED
    BY <1>1, <2>1 DEF Has
<1>4. ASSUME Has(r, x) PROVE Has(q \o r, x)
  <2>1. PICK i \in 1 .. Len(r) : r[i] = x
    BY <1>4 DEF Has
  <2>2. Len(q) + i \in 1 .. Len(q \o r)
    BY <1>1
  <2> QED
    BY <1>1, <2>1, <2>2 DEF Has
<1> QED
  BY <1>2, <1>3, <1>4

LEMMA HoldsJoined ==
  ASSUME NEW q, NEW n \in Nat, NEW f, Joined(f, q, n), \A i \in 1 .. n : IsSeq(q[i]), NEW x
  PROVE  \A i \in 0 .. n : Has(f[i], x) <=> \E j \in 1 .. i : Has(q[j], x)
<1> DEFINE T == {i \in 0 .. n : Has(f[i], x) <=> \E j \in 1 .. i : Has(q[j], x)}
<1>1. 0 \in T
  <2>1. f[0] = <<>>
    BY JoinedIs
  <2>4. 1 .. 0 = {}
    OBVIOUS
  <2>2. ~ Has(f[0], x)
    BY <2>1 DEF Has
  <2>3. Has(f[0], x) <=> \E j \in 1 .. 0 : Has(q[j], x)
    BY <2>2, <2>4
  <2> QED
    BY <2>3
<1>2. ASSUME NEW k \in 0 .. n - 1, k \in T PROVE k + 1 \in T
  <2>1. k + 1 \in 1 .. n /\ k + 1 \in 0 .. n /\ (k + 1) - 1 = k /\ k \in 0 .. n
        /\ 1 .. k + 1 = (1 .. k) \cup {k + 1}
    OBVIOUS
  <2>2. f[k + 1] = f[k] \o q[k + 1]
    BY <2>1, JoinedAt
  <2>3. IsSeq(f[k]) /\ IsSeq(q[k + 1])
    BY <2>1, JoinIsSeq
  <2>4. Has(f[k], x) <=> \E j \in 1 .. k : Has(q[j], x)
    BY <1>2
  <2>5. Has(f[k + 1], x) <=> Has(f[k], x) \/ Has(q[k + 1], x)
    BY <2>2, <2>3, HoldsConcat
  <2> QED
    BY <2>1, <2>4, <2>5
<1>3. \A k \in 0 .. n : k \in T
  <2> HIDE DEF T
  <2> QED
    BY <1>1, <1>2, IntervalInduction
<1> QED
  BY <1>3

\* FlattenSeq is the join of all.
LEMMA FlattenIs ==
  ASSUME NEW q, IsSeq(q), \A i \in 1 .. Len(q) : IsSeq(q[i])
  PROVE  \E f : Joined(f, q, Len(q)) /\ Code!FlattenSeq(q) = f[Len(q)]
<1> DEFINE n == Len(q)
           Fits2(f) == f = [i \in 1 .. n |-> IF i = 1 THEN q[i] ELSE f[i - 1] \o q[i]]
<1>1. n \in Nat /\ (q = <<>> <=> n = 0)
  BY SeqIs
<1>2. PICK f : Joined(f, q, n)
  BY <1>1, JoinExists
<1>3. f[0] = <<>>
  BY <1>1, <1>2, JoinedIs
<1>6. ASSUME NEW i \in 1 .. n PROVE f[i] = f[i - 1] \o q[i]
  BY <1>1, <1>2, JoinedAt
<1>4. CASE n = 0
  BY <1>1, <1>2, <1>3, <1>4 DEF Code!FlattenSeq
<1>5. CASE n # 0
  <2> DEFINE g == [i \in 1 .. n |-> f[i]]
  <2>2. g = [i \in 1 .. n |-> g[i]] /\ \A i \in 1 .. n : g[i] = f[i]
    OBVIOUS
  <2> HIDE DEF g
  <2>1. ASSUME NEW i \in 1 .. n PROVE g[i] = IF i = 1 THEN q[i] ELSE g[i - 1] \o q[i]
    <3>1. CASE i = 1
      <4>1. IsSeq(q[1])
        BY <1>1, <1>5
      <4>3. <<>> \o q[1] = q[1]
        BY <4>1 DEF IsSeq
      <4>4. f[i] = f[i - 1] \o q[i]
        BY <1>6
      <4>5. i - 1 = 0
        BY <3>1
      <4> QED
        BY <1>3, <2>2, <3>1, <4>3, <4>4, <4>5
    <3>2. CASE i # 1
      <4>1. i - 1 \in 1 .. n
        BY <1>1, <3>2
      <4>2. f[i] = f[i - 1] \o q[i]
        BY <1>6
      <4>3. g[i] = f[i] /\ g[i - 1] = f[i - 1]
        BY <2>2, <4>1
      <4> QED
        BY <3>2, <4>2, <4>3
    <3> QED
      BY <3>1, <3>2
  <2>3. Fits2(g)
    BY <2>1, <2>2
  <2>4. Fits2(CHOOSE r : Fits2(r))
    <3> HIDE DEF Fits2
    <3> QED
      BY <2>3
  <2>5. Code!FlattenSeq(q) = (CHOOSE r : Fits2(r))[n]
    BY <1>5 DEF Code!FlattenSeq
  <2> DEFINE r == CHOOSE r : Fits2(r)
             h == [i \in 0 .. n |-> IF i = 0 THEN <<>> ELSE r[i]]
  <2>6. \A i \in 1 .. n : r[i] = IF i = 1 THEN q[i] ELSE r[i - 1] \o q[i]
    BY <2>4
  <2>8. h = [i \in 0 .. n |-> h[i]] /\ h[n] = r[n] /\ h[0] = <<>>
        /\ \A i \in 1 .. n : h[i] = r[i]
    <3> HIDE DEF r
    <3>1. 0 \in 0 .. n /\ n \in 0 .. n /\ \A i \in 1 .. n : i \in 0 .. n /\ i # 0
      BY <1>1
    <3>2. h[0] = <<>> /\ h[n] = r[n] /\ \A i \in 1 .. n : h[i] = r[i]
      BY <1>5, <3>1
    <3>3. h = [i \in 0 .. n |-> h[i]]
      <4> DEFINE e(i) == IF i = 0 THEN <<>> ELSE r[i]
      <4>1. h = [i \in 0 .. n |-> e(i)]
        OBVIOUS
      <4> HIDE DEF e, h
      <4> QED
        BY <4>1
    <3> HIDE DEF h
    <3> QED
      BY <3>2, <3>3
  <2> HIDE DEF r, h
  <2>7. ASSUME NEW i \in 0 .. n PROVE h[i] = IF i = 0 THEN <<>> ELSE h[i - 1] \o q[i]
    <3>1. CASE i = 1
      <4>1. IsSeq(q[1])
        BY <1>1, <1>5
      <4>3. <<>> \o q[1] = q[1]
        BY <4>1 DEF IsSeq
      <4>2. r[1] = q[1]
        BY <1>1, <1>5, <2>6
      <4>4. h[1] = r[1] /\ 1 - 1 = 0
        BY <1>1, <1>5, <2>8
      <4> QED
        BY <2>8, <3>1, <4>2, <4>3, <4>4
    <3>2. CASE i = 0
      BY <2>8, <3>2
    <3>3. CASE i # 0 /\ i # 1
      <4>1. i \in 1 .. n /\ i - 1 \in 1 .. n
        BY <1>1, <3>3
      <4>2. r[i] = r[i - 1] \o q[i]
        BY <2>6, <3>3, <4>1
      <4>3. h[i] = r[i] /\ h[i - 1] = r[i - 1]
        BY <2>8, <4>1
      <4> QED
        BY <3>3, <4>2, <4>3
    <3> QED
      BY <3>1, <3>2, <3>3
  <2>9. Joined(h, q, n)
    BY <2>7, <2>8 DEF Joined
  <2> QED
    BY <2>5, <2>8, <2>9 DEF r
<1> QED
  BY <1>4, <1>5

\* What is lowered for each statement of a switch.
CaseLists(n) ==
  [i \in 1 .. Len(code_prog.node[n].kids) |->
     IF i \in code_prog.node[n].entries
     THEN << Code!Fall(<<n, "case", i>>), Code!At(<<n, "case", i>>),
             Code!Stmt(code_prog.node[n].kids[i]) >>
     ELSE << Code!Stmt(code_prog.node[n].kids[i]) >>]

\* What a switch is lowered to before its cases.
SwitchHead(n) ==
  << Code!Eval(code_prog.node[n].expr), Code!SwitchTarget(<<n, "exit">>),
     Code!Emit(Code!Br({<<n, "case", i>> : i \in code_prog.node[n].entries}
                       \cup IF code_prog.node[n].dflt THEN {} ELSE {<<n, "exit">>})) >>

\* What a switch is lowered to after its cases.
SwitchEnd(n) ==
  << Code!Fall(<<n, "exit">>), Code!DropTargets(0), Code!At(<<n, "exit">>) >>

LEMMA SwitchIs ==
  ASSUME NEW n, Len(code_prog.node[n].kids) \in Nat
  PROVE  \E f : /\ Joined(f, CaseLists(n), Len(code_prog.node[n].kids))
                /\ Code!LowerSwitch(n) =
                     (SwitchHead(n) \o f[Len(code_prog.node[n].kids)]) \o SwitchEnd(n)
<1> DEFINE node == code_prog.node[n]
           len == Len(node.kids)
           at(i) == IF i \in node.entries
                    THEN << Code!Fall(<<n, "case", i>>), Code!At(<<n, "case", i>>),
                            Code!Stmt(node.kids[i]) >>
                    ELSE << Code!Stmt(node.kids[i]) >>
           Fits1(f) == f = [i \in 0 .. len |-> IF i = 0 THEN <<>> ELSE f[i - 1] \o at(i)]
           q == CaseLists(n)
<1>1. \A i \in 0 .. len : i # 0 => q[i] = at(i)
  BY DEF CaseLists
<1>2. ASSUME NEW f PROVE Fits1(f) <=> Joined(f, q, len)
  <2> HIDE DEF at, q
  <2>1. [i \in 0 .. len |-> IF i = 0 THEN <<>> ELSE f[i - 1] \o at(i)]
          = [i \in 0 .. len |-> IF i = 0 THEN <<>> ELSE f[i - 1] \o q[i]]
    BY <1>1
  <2> QED
    BY <2>1 DEF Joined
<1>3. PICK f : Joined(f, q, len)
  <2> HIDE DEF q
  <2> QED
    BY JoinExists
<1>4. Fits1(CHOOSE f1 : Fits1(f1))
  <2> HIDE DEF Fits1, q
  <2> QED
    BY <1>2, <1>3
<1>5. Code!LowerSwitch(n) = (SwitchHead(n) \o (CHOOSE f1 : Fits1(f1))[len]) \o SwitchEnd(n)
  BY DEF Code!LowerSwitch, SwitchHead, SwitchEnd
<1> HIDE DEF Fits1, q
<1> QED
  BY <1>2, <1>4, <1>5 DEF q

LEMMA LeadsSwitch ==
  ASSUME Legal, NEW n \in DOMAIN code_prog.node, code_prog.node[n].kind = "switch",
         NEW b, NEW c, NEW l, NEW u, Fits(n, b, c, l, u)
  PROVE  Leads(n, Code!LowerSwitch(n), b, c, l, u)
<1> DEFINE node == code_prog.node[n]
           kids == node.kids
           len == Len(kids)
           b1 == Append(b, <<n, "exit">>)
           used(i) == (u \cup UNION {ClaimSet(code_prog, kids[j]) : j \in 1 .. i})
                      \cup {<<n, "case", j>> : j \in 1 .. i}
           at(i) == IF i = 0 THEN "closed" ELSE "maybe"
           st == [i \in 0 .. len |-> State(at(i), b1, c, l, used(i))]
           q == CaseLists(n)
           head == SwitchHead(n)
           end == SwitchEnd(n)
<1>1. /\ node.kind # "simple" /\ len \in Nat /\ DOMAIN kids = 1 .. len /\ n # 0
      /\ kids \in Seq(Nat \ {0}) /\ node.entries \subseteq Nat
  <2>1. node \in Node /\ n # 0
    BY TreeIs DEF Legal
  <2> QED
    BY <2>1 DEF Node
<1>2. /\ b \in Seq(Plain) /\ c \in Seq(Plain) /\ <<n, "exit">> \in Plain
      /\ <<n, "exit">> \in ClaimSet(code_prog, n) /\ <<n, "exit">> \notin u
      /\ \A i \in Nat : <<n, "case", i>> \in ClaimSet(code_prog, n) /\ <<n, "case", i>> \notin u
  BY OwnRoles DEF Fits, Roles
<1>3. ASSUME NEW i \in 1 .. len
      PROVE  /\ kids[i] \in DOMAIN code_prog.node /\ code_prog.node[kids[i]].up = n
             /\ ClaimSet(code_prog, kids[i]) \subseteq ClaimSet(code_prog, n)
             /\ ClaimSet(code_prog, kids[i]) \cap u = {}
             /\ <<n, "exit">> \notin ClaimSet(code_prog, kids[i])
             /\ \A j \in Nat : <<n, "case", j>> \notin ClaimSet(code_prog, kids[i])
             /\ Root(code_prog, kids[i]) \in l \cup {code_prog.top}
             /\ ~ HasLabel(code_prog, kids[i])
  <2>1. i \in DOMAIN kids
    BY <1>1
  <2>2. /\ kids[i] \in DOMAIN code_prog.node /\ code_prog.node[kids[i]].up = n
        /\ ClaimSet(code_prog, kids[i]) \subseteq ClaimSet(code_prog, n)
        /\ ClaimSet(code_prog, kids[i]) \cap u = {}
        /\ \A x \in OwnBlocks(code_prog, n) : x \notin ClaimSet(code_prog, kids[i])
        /\ Root(code_prog, kids[i]) \in l \cup {code_prog.top}
        /\ HasLabel(code_prog, kids[i]) =>
             node.kind \in {"compound", "if", "label"} \cup Loops
    BY <2>1, KidIs
  <2>3. <<n, "exit">> \in OwnBlocks(code_prog, n)
        /\ \A j \in Nat : <<n, "case", j>> \in OwnBlocks(code_prog, n)
    BY OwnRoles DEF Roles
  <2> QED
    BY <2>2, <2>3 DEF Loops
<1>4. ASSUME NEW i \in 1 .. len, NEW j \in 1 .. len, i # j
      PROVE  ClaimSet(code_prog, kids[i]) \cap ClaimSet(code_prog, kids[j]) = {}
  <2>1. kids[i] # kids[j]
    BY <1>1, <1>4 DEF Legal, WellFormed
  <2>2. /\ kids[i] \in DOMAIN code_prog.node /\ code_prog.node[kids[i]].up = n
        /\ kids[j] \in DOMAIN code_prog.node /\ code_prog.node[kids[j]].up = n
    BY <1>3
  <2> HIDE DEF kids
  <2> QED
    BY <1>1, <2>1, <2>2, ClaimsApart DEF Legal
<1> HIDE DEF kids
<1>5. ASSUME NEW i \in 1 .. len PROVE IsSeq(q[i]) /\ Path(code_prog, q[i], st[i - 1], st[i])
  <2> DEFINE k == kids[i]
             x == <<n, "case", i>>
             v == used(i - 1)
             w == v \cup {x}
  <2>1. /\ k \in DOMAIN code_prog.node /\ Root(code_prog, k) \in l \cup {code_prog.top}
        /\ ~ HasLabel(code_prog, k)
    BY <1>3
  <2>2. ClaimSet(code_prog, k) \cap v = {} /\ x \notin ClaimSet(code_prog, k)
    <3>1. \A j \in 1 .. i - 1 : j \in 1 .. len /\ j # i /\ j \in Nat
      BY <1>1
    <3>2. \A j \in 1 .. i - 1 : ClaimSet(code_prog, k) \cap ClaimSet(code_prog, kids[j]) = {}
      BY <1>4, <3>1
    <3>3. /\ ClaimSet(code_prog, k) \cap u = {}
          /\ \A j \in Nat : <<n, "case", j>> \notin ClaimSet(code_prog, k)
      BY <1>3
    <3> QED
      BY <3>1, <3>2, <3>3
  <2>3. x \notin v
    <3>1. \A j \in 1 .. i - 1 : j \in 1 .. len /\ j # i /\ j \in Nat
      BY <1>1
    <3>2. x \notin u
      BY <1>2
    <3>3. \A j \in 1 .. i - 1 : x \notin ClaimSet(code_prog, kids[j])
      BY <1>3, <3>1
    <3>4. \A j \in 1 .. i - 1 : x # <<n, "case", j>>
      BY <3>1
    <3> QED
      BY <3>2, <3>3, <3>4
  <2>4. v \cup ClaimSet(code_prog, k) \subseteq used(i) /\ w \cup ClaimSet(code_prog, k) \subseteq used(i)
    <3>1. 1 .. i = (1 .. i - 1) \cup {i}
      BY <1>1
    <3> QED
      BY <3>1
  <2>5. st[i - 1] = State(at(i - 1), b1, c, l, v) /\ st[i] = State("maybe", b1, c, l, used(i))
    BY <1>1
  <2> HIDE DEF used, v, st, at, b1
  <2>6. \A o : Passes(code_prog, Code!Stmt(k), State(o, b1, c, l, v), State("maybe", b1, c, l, used(i)))
               /\ Passes(code_prog, Code!Stmt(k), State(o, b1, c, l, w), State("maybe", b1, c, l, used(i)))
    <3> HIDE DEF k, x
    <3>1. ClaimSet(code_prog, k) \cap w = {}
      BY <2>2
    <3> HIDE DEF w
    <3> SUFFICES ASSUME NEW o
                 PROVE  /\ Passes(code_prog, Code!Stmt(k), State(o, b1, c, l, v), State("maybe", b1, c, l, used(i)))
                        /\ Passes(code_prog, Code!Stmt(k), State(o, b1, c, l, w), State("maybe", b1, c, l, used(i)))
      OBVIOUS
    <3>2. /\ Passes(code_prog, Code!Stmt(k), State(o, b1, c, l, v), State("maybe", b1, c, l, v \cup ClaimSet(code_prog, k)))
          /\ Passes(code_prog, Code!Stmt(k), State(o, b1, c, l, w), State("maybe", b1, c, l, w \cup ClaimSet(code_prog, k)))
      BY <2>1, <2>2, <3>1, PassStmt
    <3> QED
      BY <2>4, <3>2, StateIs DEF Passes, Code!Stmt
  <2>7. CASE i \in node.entries
    <3> DEFINE s == << State(at(i - 1), b1, c, l, v), State("closed", b1, c, l, v),
                       State("open", b1, c, l, w), State("maybe", b1, c, l, used(i)) >>
    <3>1. q[i] = << Code!Fall(x), Code!At(x), Code!Stmt(k) >>
      BY <1>1, <2>7 DEF CaseLists, kids
    <3>2. Passes(code_prog, Code!Fall(x), State(at(i - 1), b1, c, l, v), State("closed", b1, c, l, v))
      BY PassFall
    <3>3. Passes(code_prog, Code!At(x), State("closed", b1, c, l, v), State("open", b1, c, l, w))
      BY <2>3, PassAt
    <3>4. Passes(code_prog, Code!Stmt(k), State("open", b1, c, l, w), State("maybe", b1, c, l, used(i)))
      BY <2>6
    <3> HIDE DEF q, k, x, w
    <3>5. /\ IsSeq(q[i]) /\ Len(q[i]) = 3
          /\ s[1] = State(at(i - 1), b1, c, l, v) /\ s[4] = State("maybe", b1, c, l, used(i))
      BY <3>1 DEF IsSeq
    <3>6. \A j \in 1 .. 3 : Passes(code_prog, q[i][j], s[j], s[j + 1])
      BY <3>1, <3>2, <3>3, <3>4
    <3> HIDE DEF s
    <3> QED
      BY <2>5, <3>5, <3>6 DEF Path, Steps
  <2>8. CASE i \notin node.entries
    <3> DEFINE s == << State(at(i - 1), b1, c, l, v), State("maybe", b1, c, l, used(i)) >>
    <3>1. q[i] = << Code!Stmt(k) >>
      BY <1>1, <2>8 DEF CaseLists, kids
    <3>2. Passes(code_prog, Code!Stmt(k), State(at(i - 1), b1, c, l, v), State("maybe", b1, c, l, used(i)))
      BY <2>6
    <3> HIDE DEF q, k, x, w
    <3>3. /\ IsSeq(q[i]) /\ Len(q[i]) = 1
          /\ s[1] = State(at(i - 1), b1, c, l, v) /\ s[2] = State("maybe", b1, c, l, used(i))
      BY <3>1 DEF IsSeq
    <3>4. \A j \in 1 .. 1 : Passes(code_prog, q[i][j], s[j], s[j + 1])
      BY <3>1, <3>2
    <3> HIDE DEF s
    <3> QED
      BY <2>5, <3>3, <3>4 DEF Path, Steps
  <2> QED
    BY <2>7, <2>8
<1>6. PICK f : /\ Joined(f, q, len)
               /\ Code!LowerSwitch(n) = (head \o f[len]) \o end
  BY <1>1, SwitchIs DEF kids
<1>7. st[0] = State("closed", b1, c, l, u) /\ st[len] = State(at(len), b1, c, l, used(len))
  <2>1. 0 \in 0 .. len /\ len \in 0 .. len /\ 1 .. 0 = {}
    BY <1>1
  <2>2. used(0) = u /\ at(0) = "closed"
    BY <2>1
  <2>3. st[0] = State(at(0), b1, c, l, used(0)) /\ st[len] = State(at(len), b1, c, l, used(len))
    BY <2>1
  <2> HIDE DEF st, used, at
  <2> QED
    BY <2>2, <2>3
<1>8. /\ used(len) \subseteq u \cup ClaimSet(code_prog, n)
      /\ <<n, "exit">> \notin used(len)
  BY <1>2, <1>3
<1> HIDE DEF st, used, at, q
<1>9. IsSeq(f[len]) /\ Path(code_prog, f[len], st[0], st[len])
  <2>1. \A i \in 1 .. len : IsSeq(q[i])
    BY <1>5
  <2>2. \A i \in 1 .. len : Path(code_prog, q[i], st[i - 1], st[i])
    BY <1>5
  <2>3. len \in 0 .. len
    BY <1>1
  <2>4. \A i \in 0 .. len : IsSeq(f[i])
    BY <1>1, <1>6, <2>1, JoinIsSeq
  <2>5. \A i \in 0 .. len : Path(code_prog, f[i], st[0], st[i])
    BY <1>1, <1>6, <2>1, <2>2, JoinPath
  <2> QED
    BY <2>3, <2>4, <2>5
<1>10. IsSeq(head) /\ Path(code_prog, head, State("open", b, c, l, u), State("closed", b1, c, l, u))
  <2> DEFINE targets == {<<n, "case", i>> : i \in node.entries}
                        \cup IF node.dflt THEN {} ELSE {<<n, "exit">>}
             s == << State("open", b, c, l, u), State("open", b, c, l, u),
                     State("open", b1, c, l, u), State("closed", b1, c, l, u) >>
  <2>1. head = << Code!Eval(node.expr), Code!SwitchTarget(<<n, "exit">>), Code!Emit(Code!Br(targets)) >>
    BY DEF SwitchHead
  <2> HIDE DEF targets, head
  <2>2. Passes(code_prog, Code!Eval(node.expr), State("open", b, c, l, u), State("open", b, c, l, u))
    BY <1>1, PlainExprs, PassPlain
  <2>3. Passes(code_prog, Code!SwitchTarget(<<n, "exit">>), State("open", b, c, l, u),
               State("open", b1, c, l, u))
    BY <1>2, PassTargets
  <2>4. Passes(code_prog, Code!Emit(Code!Br(targets)), State("open", b1, c, l, u),
               State("closed", b1, c, l, u))
    BY PassBr
  <2> HIDE DEF b1, node
  <2>5. /\ IsSeq(head) /\ Len(head) = 3
        /\ s[1] = State("open", b, c, l, u) /\ s[4] = State("closed", b1, c, l, u)
    BY <2>1 DEF IsSeq
  <2>6. \A j \in 1 .. 3 : Passes(code_prog, head[j], s[j], s[j + 1])
    BY <2>1, <2>2, <2>3, <2>4
  <2> HIDE DEF s
  <2> QED
    BY <2>5, <2>6 DEF Path, Steps
<1>11. IsSeq(end) /\ Path(code_prog, end, State(at(len), b1, c, l, used(len)),
                          State("open", b, c, l, used(len) \cup {<<n, "exit">>}))
  <2> DEFINE v == used(len)
             s == << State(at(len), b1, c, l, v), State("closed", b1, c, l, v),
                     State("closed", b, c, l, v), State("open", b, c, l, v \cup {<<n, "exit">>}) >>
  <2>1. end = << Code!Fall(<<n, "exit">>), Code!DropTargets(0), Code!At(<<n, "exit">>) >>
    BY DEF SwitchEnd
  <2>2. Passes(code_prog, Code!Fall(<<n, "exit">>), State(at(len), b1, c, l, v),
               State("closed", b1, c, l, v))
    BY PassFall
  <2>3. Passes(code_prog, Code!DropTargets(0), State("closed", b1, c, l, v), State("closed", b, c, l, v))
    BY <1>2, PassTargets
  <2>4. Passes(code_prog, Code!At(<<n, "exit">>), State("closed", b, c, l, v),
               State("open", b, c, l, v \cup {<<n, "exit">>}))
    BY <1>8, PassAt
  <2> HIDE DEF b1, end, v
  <2>5. /\ IsSeq(end) /\ Len(end) = 3
        /\ s[1] = State(at(len), b1, c, l, v) /\ s[4] = State("open", b, c, l, v \cup {<<n, "exit">>})
    BY <2>1 DEF IsSeq
  <2>6. \A j \in 1 .. 3 : Passes(code_prog, end[j], s[j], s[j + 1])
    BY <2>1, <2>2, <2>3, <2>4
  <2> HIDE DEF s
  <2>7. IsSeq(end) /\ Path(code_prog, end, State(at(len), b1, c, l, v),
                           State("open", b, c, l, v \cup {<<n, "exit">>}))
    BY <2>5, <2>6 DEF Path, Steps
  <2> QED
    BY <2>7 DEF v
<1> HIDE DEF head, end, b1
<1>12. IsSeq(head \o f[len])
       /\ Path(code_prog, head \o f[len], State("open", b, c, l, u), State(at(len), b1, c, l, used(len)))
  BY <1>7, <1>9, <1>10, ConcatIs, PathConcat
<1>13. IsSeq((head \o f[len]) \o end)
       /\ Path(code_prog, (head \o f[len]) \o end, State("open", b, c, l, u),
               State("open", b, c, l, used(len) \cup {<<n, "exit">>}))
  BY <1>11, <1>12, ConcatIs, PathConcat
<1>14. used(len) \cup {<<n, "exit">>} \subseteq u \cup ClaimSet(code_prog, n)
  BY <1>2, <1>8
<1> QED
  BY <1>6, <1>13, <1>14, StateIs DEF Leads

LEMMA LeadsSimple ==
  ASSUME Legal, NEW n \in DOMAIN code_prog.node, code_prog.node[n].kind = "simple",
         NEW b, NEW c, NEW l, NEW u, Fits(n, b, c, l, u)
  PROVE  Leads(n, << Code!Eval(code_prog.node[n].expr) >>, b, c, l, u)
<1> DEFINE e == code_prog.node[n].expr
           z == State(IF e = Throw THEN "closed" ELSE "open", b, c, l, u)
           list == << Code!Eval(e) >>
           st == << State("open", b, c, l, u), z >>
<1>1. e \in Exprs
  <2>1. code_prog.node[n] \in Node
    BY TreeIs DEF Legal
  <2> QED
    BY <2>1 DEF Node
<1>2. ~Closes(code_prog, n) => e # Throw
  BY ClosesIs DEF Legal, Evaluated
<1> HIDE DEF e
<1>3. Passes(code_prog, Code!Eval(e), State("open", b, c, l, u), z)
  BY <1>1, PassEval
<1>4. /\ z.b = b /\ z.c = c /\ z.l = l /\ z.u \subseteq u \cup ClaimSet(code_prog, n)
      /\ ~Closes(code_prog, n) => z.o = "open"
  BY <1>2, StateIs
<1> HIDE DEF z
<1>5. /\ IsSeq(list) /\ Len(list) = 1 /\ st[1] = State("open", b, c, l, u) /\ st[2] = z
      /\ \A i \in 1 .. 1 : Passes(code_prog, list[i], st[i], st[i + 1])
  BY <1>3 DEF IsSeq
<1> HIDE DEF st, list
<1>6. Path(code_prog, list, State("open", b, c, l, u), z)
  BY <1>5 DEF Path, Steps
<1>7. Leads(n, list, b, c, l, u)
  BY <1>4, <1>5, <1>6 DEF Leads
<1> QED
  BY <1>7 DEF list, e

LEMMA LeadsReturn ==
  ASSUME Legal, NEW n \in DOMAIN code_prog.node, code_prog.node[n].kind = "return",
         NEW b, NEW c, NEW l, NEW u, Fits(n, b, c, l, u)
  PROVE  Leads(n, Code!LowerReturn(n), b, c, l, u)
<1> DEFINE e == code_prog.node[n].expr
           x == <<n, "dead">>
           z == State("open", b, c, l, u \cup {x})
           list == << Code!Eval(e), Code!Emit(Code!Ret), Code!At(x) >>
           st == << State("open", b, c, l, u), State("open", b, c, l, u),
                    State("closed", b, c, l, u), z >>
<1>1. e \in Exprs /\ e # Throw
  BY PlainExprs
<1>2. x \in ClaimSet(code_prog, n) /\ x \notin u
  BY OwnRoles DEF Roles
<1>3. Code!LowerReturn(n) = list
  BY DEF Code!LowerReturn
<1> HIDE DEF e, x
<1>4. Passes(code_prog, Code!Eval(e), State("open", b, c, l, u), State("open", b, c, l, u))
  BY <1>1, PassPlain
<1>5. Passes(code_prog, Code!Emit(Code!Ret), State("open", b, c, l, u), State("closed", b, c, l, u))
  <2>1. Ending(Code!Ret)
    BY DEF Ending, Code!Ret
  <2> QED
    BY <2>1, PassEmit
<1>6. Passes(code_prog, Code!At(x), State("closed", b, c, l, u), z)
  BY <1>2, PassAt
<1>7. /\ z.b = b /\ z.c = c /\ z.l = l /\ z.u \subseteq u \cup ClaimSet(code_prog, n)
      /\ z.o = "open"
  BY <1>2, StateIs
<1> HIDE DEF z
<1>8. /\ IsSeq(list) /\ Len(list) = 3 /\ st[1] = State("open", b, c, l, u) /\ st[4] = z
      /\ \A i \in 1 .. 3 : Passes(code_prog, list[i], st[i], st[i + 1])
  BY <1>4, <1>5, <1>6 DEF IsSeq
<1> HIDE DEF st, list
<1>9. Path(code_prog, list, State("open", b, c, l, u), z)
  BY <1>8 DEF Path, Steps
<1> QED
  BY <1>3, <1>7, <1>8, <1>9 DEF Leads

\* A goto has its block: its label stands in the same body, and was scanned.
LEMMA LeadsGoto ==
  ASSUME Legal, NEW n \in DOMAIN code_prog.node, code_prog.node[n].kind = "goto",
         LabelOf(code_prog, n) \in DOMAIN code,
         NEW b, NEW c, NEW l, NEW u, Fits(n, b, c, l, u)
  PROVE  /\ Leads(n, Code!LowerGoto(n), b, c, l, u)
         /\ Code!LowerGoto(n) = << Code!Fall(LabelOf(code_prog, n)) >> \o << Code!At(<<n, "dead">>) >>
<1> DEFINE y == LabelOf(code_prog, n)
           x == <<n, "dead">>
           z == State("open", b, c, l, u \cup {x})
           list == << Code!Fall(y) >>
           rest == << Code!At(x) >>
           s == << State("open", b, c, l, u), State("closed", b, c, l, u) >>
           t == << State("closed", b, c, l, u), z >>
<1>1. x \in ClaimSet(code_prog, n) /\ x \notin u
  BY OwnRoles DEF Roles
<1>2. Code!LowerGoto(n) = list \o rest
  <2>1. Code!LabelBlock(Code!Root(code_prog, n), code_prog.node[n].name) = LabelOf(code_prog, n)
    BY SameSyntax DEF Code!LabelBlock, LabelOf
  <2>2. Code!LowerGoto(n) = (IF y \in DOMAIN code THEN list ELSE <<>>) \o rest
    BY <2>1 DEF Code!LowerGoto
  <2> QED
    BY <2>2
<1> HIDE DEF y, x
<1>3. Passes(code_prog, Code!Fall(y), State("open", b, c, l, u), State("closed", b, c, l, u))
  BY PassFall
<1>4. Passes(code_prog, Code!At(x), State("closed", b, c, l, u), z)
  BY <1>1, PassAt
<1>5. /\ z.b = b /\ z.c = c /\ z.l = l /\ z.u \subseteq u \cup ClaimSet(code_prog, n)
      /\ z.o = "open"
  BY <1>1, StateIs
<1> HIDE DEF z
<1>6. /\ IsSeq(list) /\ Len(list) = 1 /\ s[1] = State("open", b, c, l, u)
      /\ s[2] = State("closed", b, c, l, u)
      /\ \A i \in 1 .. 1 : Passes(code_prog, list[i], s[i], s[i + 1])
  BY <1>3 DEF IsSeq
<1>7. /\ IsSeq(rest) /\ Len(rest) = 1 /\ t[1] = State("closed", b, c, l, u) /\ t[2] = z
      /\ \A i \in 1 .. 1 : Passes(code_prog, rest[i], t[i], t[i + 1])
  BY <1>4 DEF IsSeq
<1> HIDE DEF s, t, list, rest
<1>8. Path(code_prog, list, State("open", b, c, l, u), State("closed", b, c, l, u))
      /\ Path(code_prog, rest, State("closed", b, c, l, u), z)
  BY <1>6, <1>7 DEF Path, Steps
<1>9. IsSeq(list \o rest) /\ Path(code_prog, list \o rest, State("open", b, c, l, u), z)
  BY <1>6, <1>7, <1>8, ConcatIs, PathConcat
<1>10. Leads(n, Code!LowerGoto(n), b, c, l, u)
  BY <1>2, <1>5, <1>9 DEF Leads
<1> QED
  BY <1>2, <1>10 DEF list, rest, x, y

LEMMA LeadsJump ==
  ASSUME Legal, NEW n \in DOMAIN code_prog.node, code_prog.node[n].kind \in {"break", "continue"},
         NEW b, NEW c, NEW l, NEW u, Fits(n, b, c, l, u), NEW targets
  PROVE  Leads(n, Code!JumpTo(targets), b, c, l, u)
<1>1. Closes(code_prog, n)
  BY ClosesIs DEF Legal
<1>2. CASE targets = <<>>
  <2> DEFINE z == State("open", b, c, l, u)
  <2>1. /\ z.b = b /\ z.c = c /\ z.l = l /\ z.u \subseteq u \cup ClaimSet(code_prog, n)
    BY StateIs
  <2>2. Code!JumpTo(targets) = <<>> /\ IsSeq(<<>>)
    BY <1>2 DEF Code!JumpTo, IsSeq
  <2> HIDE DEF z
  <2>3. Path(code_prog, <<>>, z, z)
    BY PathNil
  <2> QED
    BY <1>1, <2>1, <2>2, <2>3 DEF Leads, z
<1>3. CASE targets # <<>>
  <2> DEFINE to == {targets[Len(targets)]}
             z == State("closed", b, c, l, u)
             list == << Code!Emit(Code!Br(to)) >>
             st == << State("open", b, c, l, u), z >>
  <2>1. Code!JumpTo(targets) = list
    BY <1>3 DEF Code!JumpTo
  <2>2. Passes(code_prog, Code!Emit(Code!Br(to)), State("open", b, c, l, u), z)
    BY PassBr
  <2>3. /\ z.b = b /\ z.c = c /\ z.l = l /\ z.u \subseteq u \cup ClaimSet(code_prog, n)
    BY StateIs
  <2> HIDE DEF to, z
  <2>4. /\ IsSeq(list) /\ Len(list) = 1 /\ st[1] = State("open", b, c, l, u) /\ st[2] = z
        /\ \A i \in 1 .. 1 : Passes(code_prog, list[i], st[i], st[i + 1])
    BY <2>2 DEF IsSeq
  <2> HIDE DEF st, list
  <2>5. Path(code_prog, list, State("open", b, c, l, u), z)
    BY <2>4 DEF Path, Steps
  <2> QED
    BY <1>1, <2>1, <2>3, <2>4, <2>5 DEF Leads
<1> QED
  BY <1>2, <1>3

LEMMA LowerIs ==
  ASSUME Legal, NEW n \in DOMAIN code_prog.node
  PROVE  /\ code_prog.node[n].kind \in Kinds
         /\ code_prog.node[n].kind = "simple" => Code!Lower(n) = << Code!Eval(code_prog.node[n].expr) >>
         /\ code_prog.node[n].kind = "compound" => Code!Lower(n) = KidList(n)
         /\ code_prog.node[n].kind = "if" => Code!Lower(n) = Code!LowerIf(n)
         /\ code_prog.node[n].kind = "for" => Code!Lower(n) = Code!LowerFor(n)
         /\ code_prog.node[n].kind = "while" => Code!Lower(n) = Code!LowerWhile(n)
         /\ code_prog.node[n].kind = "dowhile" => Code!Lower(n) = Code!LowerDoWhile(n)
         /\ code_prog.node[n].kind = "switch" => Code!Lower(n) = Code!LowerSwitch(n)
         /\ code_prog.node[n].kind = "try" => Code!Lower(n) = Code!LowerTry(n)
         /\ code_prog.node[n].kind = "label" => Code!Lower(n) = Code!LowerLabel(n)
         /\ code_prog.node[n].kind = "goto" => Code!Lower(n) = Code!LowerGoto(n)
         /\ code_prog.node[n].kind = "return" => Code!Lower(n) = Code!LowerReturn(n)
         /\ code_prog.node[n].kind = "break" => Code!Lower(n) = Code!JumpTo(breakTo)
         /\ code_prog.node[n].kind = "continue" => Code!Lower(n) = Code!JumpTo(continueTo)
<1>1. code_prog.node[n].kind \in Kinds
  <2>1. code_prog.node[n] \in Node
    BY TreeIs DEF Legal
  <2> QED
    BY <2>1 DEF Node
<1>2. code_prog.node[n].kind = "simple" => Code!Lower(n) = << Code!Eval(code_prog.node[n].expr) >>
  BY DEF Code!Lower
<1>3. code_prog.node[n].kind = "compound" => Code!Lower(n) = KidList(n)
  BY DEF Code!Lower, KidList
<1>4. code_prog.node[n].kind = "if" => Code!Lower(n) = Code!LowerIf(n)
  BY DEF Code!Lower
<1>5. code_prog.node[n].kind = "for" => Code!Lower(n) = Code!LowerFor(n)
  BY DEF Code!Lower
<1>6. code_prog.node[n].kind = "while" => Code!Lower(n) = Code!LowerWhile(n)
  BY DEF Code!Lower
<1>7. code_prog.node[n].kind = "dowhile" => Code!Lower(n) = Code!LowerDoWhile(n)
  BY DEF Code!Lower
<1>8. code_prog.node[n].kind = "switch" => Code!Lower(n) = Code!LowerSwitch(n)
  BY DEF Code!Lower
<1>9. code_prog.node[n].kind = "try" => Code!Lower(n) = Code!LowerTry(n)
  BY DEF Code!Lower
<1>10. code_prog.node[n].kind = "label" => Code!Lower(n) = Code!LowerLabel(n)
  BY DEF Code!Lower
<1>11. code_prog.node[n].kind = "goto" => Code!Lower(n) = Code!LowerGoto(n)
  BY DEF Code!Lower
<1>12. code_prog.node[n].kind = "return" => Code!Lower(n) = Code!LowerReturn(n)
  BY DEF Code!Lower
<1>13. code_prog.node[n].kind = "break" => Code!Lower(n) = Code!JumpTo(breakTo)
  BY DEF Code!Lower
<1>14. code_prog.node[n].kind = "continue" => Code!Lower(n) = Code!JumpTo(continueTo)
  BY DEF Code!Lower
<1> QED
  BY <1>1, <1>2, <1>3, <1>4, <1>5, <1>6, <1>7, <1>8, <1>9, <1>10, <1>11, <1>12, <1>13, <1>14

\* Whatever a statement is, it is lowered to a list that can be done.
LEMMA LeadsLower ==
  ASSUME Legal, NEW n \in DOMAIN code_prog.node,
         code_prog.node[n].kind = "goto" => LabelOf(code_prog, n) \in DOMAIN code,
         NEW b, NEW c, NEW l, NEW u, Fits(n, b, c, l, u)
  PROVE  Leads(n, Code!Lower(n), b, c, l, u)
<1> DEFINE kind == code_prog.node[n].kind
<1>1. kind \in Kinds
  BY LowerIs
<1>2. CASE kind = "simple"
  BY <1>2, LowerIs, LeadsSimple
<1>3. CASE kind = "compound"
  BY <1>3, LowerIs, LeadsCompound
<1>4. CASE kind = "if"
  <2>1. Len(code_prog.node[n].kids) \in {1, 2}
    BY <1>4 DEF Legal, WellFormed
  <2> QED
    BY <1>4, <2>1, LowerIs, LeadsIfThen, LeadsIfElse
<1>5. CASE kind = "for"
  BY <1>5, LowerIs, LeadsFor
<1>6. CASE kind = "while"
  BY <1>6, LowerIs, LeadsWhile
<1>7. CASE kind = "dowhile"
  BY <1>7, LowerIs, LeadsDoWhile
<1>8. CASE kind = "switch"
  BY <1>8, LowerIs, LeadsSwitch
<1>9. CASE kind = "try"
  BY <1>9, LowerIs, LeadsTry
<1>10. CASE kind = "label"
  BY <1>10, LowerIs, LeadsLabel
<1>11. CASE kind = "goto"
  BY <1>11, LowerIs, LeadsGoto
<1>12. CASE kind = "return"
  BY <1>12, LowerIs, LeadsReturn
<1>13. CASE kind = "break"
  BY <1>13, LowerIs, LeadsJump
<1>14. CASE kind = "continue"
  BY <1>14, LowerIs, LeadsJump
<1> QED
  BY <1>1, <1>2, <1>3, <1>4, <1>5, <1>6, <1>7, <1>8, <1>9, <1>10, <1>11, <1>12, <1>13, <1>14
     DEF Kinds, Loops

-----------------------------------------------------------------------------
(* The blocks that instructions and tasks name, and those that tasks make. *)

\* Instruction i names only blocks of K.
NamesIn(i, K) ==
  /\ i[1] = "br" => i[2] \subseteq K
  /\ i[1] = "setjmp" => <<i[2], "setup">> \in K /\ <<i[2], "catch">> \in K
  /\ i[1] = "push" => <<i[2], "catch">> \in K
  /\ i[1] \in {"call", "main"} => <<i[2], "entry">> \in K

\* Task t names only blocks of K, whatever it is done in.
Fine(t, K) ==
  \/ t[1] \in {"stmt", "eval", "at"}
  \/ t[1] = "drop" /\ t[2] \in {0, 1}
  \/ t[1] = "emit" /\ NamesIn(t[2], K)
  \/ t[1] = "open" /\ \A i \in 1 .. Len(t[2]) : NamesIn(t[2][i], K)
  \/ t[1] = "targets" /\ t[2] \in K \cap Plain /\ t[3] \in Seq(K \cap Plain)

\* The blocks of the labels within a statement.
LabelsUnder(n) ==
  {LabelOf(code_prog, m) : m \in {m \in DOMAIN code_prog.node :
                                    code_prog.node[m].kind = "label" /\ Above(code_prog, n, m)}}

\* The blocks that a task is sure to make.
Makes(t) == IF t[1] = "at" THEN {t[2]} ELSE IF t[1] = "stmt" THEN LabelsUnder(t[2]) ELSE {}
Made(q) == UNION {Makes(q[i]) : i \in 1 .. Len(q)}

AllFine(q, K) == \A i \in 1 .. Len(q) : Fine(q[i], K)

\* What n is lowered to makes the blocks of its labels and names only blocks that
\* there are or that it makes.
Settled(n, list) ==
  /\ IsSeq(list)
  /\ LabelsUnder(n) \subseteq Made(list)
  /\ \A K : /\ DOMAIN code \cup Made(list) \subseteq K
            /\ breakTo \in Seq(K \cap Plain) /\ continueTo \in Seq(K \cap Plain)
            => AllFine(list, K)

LEMMA MadeIs ==
  ASSUME NEW q, NEW x
  PROVE  x \in Made(q) <=> \E i \in 1 .. Len(q) : x \in Makes(q[i])
BY DEF Made

LEMMA MadeConcat ==
  ASSUME NEW q, IsSeq(q), NEW r, IsSeq(r)
  PROVE  Made(q \o r) = Made(q) \cup Made(r)
<1>1. /\ Len(q) \in Nat /\ Len(r) \in Nat /\ Len(q \o r) = Len(q) + Len(r)
      /\ \A i \in 1 .. Len(q) : (q \o r)[i] = q[i]
      /\ \A i \in 1 .. Len(r) : (q \o r)[Len(q) + i] = r[i]
  BY SeqIs, ConcatIs
<1>2. ASSUME NEW x \in Made(q \o r) PROVE x \in Made(q) \cup Made(r)
  <2>1. PICK i \in 1 .. Len(q \o r) : x \in Makes((q \o r)[i])
    BY MadeIs
  <2>2. CASE i <= Len(q)
    <3>1. i \in 1 .. Len(q) /\ x \in Makes(q[i])
      BY <1>1, <2>1, <2>2
    <3> QED
      BY <3>1, MadeIs
  <2>3. CASE i > Len(q)
    <3>1. i - Len(q) \in 1 .. Len(r) /\ Len(q) + (i - Len(q)) = i
      BY <1>1, <2>3
    <3>2. x \in Makes(r[i - Len(q)])
      BY <1>1, <2>1, <3>1
    <3> QED
      BY <3>1, <3>2, MadeIs
  <2> QED
    BY <1>1, <2>2, <2>3
<1>3. ASSUME NEW x \in Made(q) PROVE x \in Made(q \o r)
  <2>1. PICK i \in 1 .. Len(q) : x \in Makes(q[i])
    BY MadeIs
  <2>2. i \in 1 .. Len(q \o r) /\ x \in Makes((q \o r)[i])
    BY <1>1, <2>1
  <2> QED
    BY <2>2, MadeIs
<1>4. ASSUME NEW x \in Made(r) PROVE x \in Made(q \o r)
  <2>1. PICK i \in 1 .. Len(r) : x \in Makes(r[i])
    BY MadeIs
  <2>2. Len(q) + i \in 1 .. Len(q \o r) /\ x \in Makes((q \o r)[Len(q) + i])
    BY <1>1, <2>1
  <2> QED
    BY <2>2, MadeIs
<1> QED
  BY <1>2, <1>3, <1>4

LEMMA MadeTail ==
  ASSUME NEW q, IsSeq(q), q # <<>>
  PROVE  Made(q) = Makes(q[1]) \cup Made(Tail(q))
<1>1. /\ Len(q) \in Nat /\ Len(q) >= 1 /\ Len(Tail(q)) = Len(q) - 1
      /\ \A i \in 1 .. Len(q) - 1 : Tail(q)[i] = q[i + 1]
  BY SeqIs, TailSeq
<1>2. ASSUME NEW x \in Made(q) PROVE x \in Makes(q[1]) \cup Made(Tail(q))
  <2>1. PICK i \in 1 .. Len(q) : x \in Makes(q[i])
    BY MadeIs
  <2>2. CASE i # 1
    <3>1. i - 1 \in 1 .. Len(q) - 1 /\ (i - 1) + 1 = i
      BY <1>1, <2>2
    <3>2. Tail(q)[i - 1] = q[(i - 1) + 1]
      BY <1>1, <3>1
    <3>3. i - 1 \in 1 .. Len(Tail(q)) /\ x \in Makes(Tail(q)[i - 1])
      BY <1>1, <2>1, <3>1, <3>2
    <3> QED
      BY <3>3, MadeIs
  <2> QED
    BY <2>1, <2>2
<1>3. ASSUME NEW x \in Made(Tail(q)) PROVE x \in Made(q)
  <2>1. PICK i \in 1 .. Len(Tail(q)) : x \in Makes(Tail(q)[i])
    BY MadeIs
  <2>2. i + 1 \in 1 .. Len(q) /\ x \in Makes(q[i + 1])
    BY <1>1, <2>1
  <2> QED
    BY <2>2, MadeIs
<1>4. Makes(q[1]) \subseteq Made(q)
  <2>1. 1 \in 1 .. Len(q)
    BY <1>1
  <2> QED
    BY <2>1, MadeIs
<1> QED
  BY <1>2, <1>3, <1>4

LEMMA FineConcat ==
  ASSUME NEW q, IsSeq(q), NEW r, IsSeq(r), NEW K
  PROVE  AllFine(q \o r, K) <=> AllFine(q, K) /\ AllFine(r, K)
<1>1. /\ Len(q) \in Nat /\ Len(r) \in Nat /\ Len(q \o r) = Len(q) + Len(r)
      /\ \A i \in 1 .. Len(q) : (q \o r)[i] = q[i]
      /\ \A i \in 1 .. Len(r) : (q \o r)[Len(q) + i] = r[i]
  BY SeqIs, ConcatIs
<1>2. ASSUME AllFine(q, K), AllFine(r, K) PROVE AllFine(q \o r, K)
  <2> SUFFICES ASSUME NEW i \in 1 .. Len(q \o r) PROVE Fine((q \o r)[i], K)
    BY DEF AllFine
  <2>2. CASE i <= Len(q)
    BY <1>1, <1>2, <2>2 DEF AllFine
  <2>3. CASE i > Len(q)
    <3>1. i - Len(q) \in 1 .. Len(r) /\ Len(q) + (i - Len(q)) = i
      BY <1>1, <2>3
    <3>2. Fine(r[i - Len(q)], K) /\ (q \o r)[Len(q) + (i - Len(q))] = r[i - Len(q)]
      BY <1>1, <1>2, <3>1 DEF AllFine
    <3> QED
      BY <3>1, <3>2
  <2> QED
    BY <1>1, <2>2, <2>3
<1>3. ASSUME AllFine(q \o r, K) PROVE AllFine(q, K) /\ AllFine(r, K)
  <2>1. ASSUME NEW i \in 1 .. Len(q) PROVE Fine(q[i], K)
    <3>1. i \in 1 .. Len(q \o r)
      BY <1>1
    <3> QED
      BY <1>1, <1>3, <3>1 DEF AllFine
  <2>2. ASSUME NEW i \in 1 .. Len(r) PROVE Fine(r[i], K)
    <3>1. Len(q) + i \in 1 .. Len(q \o r)
      BY <1>1
    <3> QED
      BY <1>1, <1>3, <3>1 DEF AllFine
  <2> QED
    BY <2>1, <2>2 DEF AllFine
<1> QED
  BY <1>2, <1>3

LEMMA FineTasks ==
  ASSUME NEW K
  PROVE  /\ \A n : Fine(Code!Stmt(n), K)
         /\ \A e : Fine(Code!Eval(e), K)
         /\ \A b : Fine(Code!At(b), K)
         /\ \A i \in {0, 1} : Fine(Code!DropTargets(i), K)
         /\ \A pt : Fine(Code!Emit(Code!Mark(pt)), K)
         /\ Fine(Code!Emit(Code!Ret), K)
BY DEF Fine, NamesIn, Code!Stmt, Code!Eval, Code!At, Code!DropTargets, Code!Emit, Code!Mark, Code!Ret

LEMMA FineBr ==
  ASSUME NEW K, NEW bs, bs \subseteq K
  PROVE  Fine(Code!Emit(Code!Br(bs)), K)
BY DEF Fine, NamesIn, Code!Emit, Code!Br

LEMMA FineFall ==
  ASSUME NEW K, NEW b \in K
  PROVE  Fine(Code!Fall(b), K)
<1> DEFINE q == <<Code!Br({b})>>
<1>1. NamesIn(Code!Br({b}), K)
  BY DEF NamesIn, Code!Br
<1>2. Len(q) = 1 /\ q[1] = Code!Br({b})
  OBVIOUS
<1> HIDE DEF q
<1>3. Fine(Code!IfOpen(q), K)
  <2>1. \A i \in 1 .. Len(q) : NamesIn(q[i], K)
    BY <1>1, <1>2
  <2>2. Code!IfOpen(q)[1] = "open" /\ Code!IfOpen(q)[2] = q
    BY DEF Code!IfOpen
  <2> QED
    BY <2>1, <2>2 DEF Fine
<1> QED
  BY <1>3 DEF q, Code!Fall

LEMMA FineTargets ==
  ASSUME NEW K, NEW b \in K \cap Plain, NEW c \in K \cap Plain
  PROVE  Fine(Code!LoopTargets(b, c), K) /\ Fine(Code!SwitchTarget(b), K)
<1> DEFINE t == Code!LoopTargets(b, c)
           s == Code!SwitchTarget(b)
<1>1. /\ t[1] = "targets" /\ t[2] = b /\ t[3] = <<c>>
      /\ s[1] = "targets" /\ s[2] = b /\ s[3] = <<>>
  BY DEF Code!LoopTargets, Code!SwitchTarget
<1>2. <<c>> \in Seq(K \cap Plain) /\ <<>> \in Seq(K \cap Plain)
  OBVIOUS
<1> HIDE DEF t, s
<1>3. Fine(t, K) /\ Fine(s, K)
  BY <1>1, <1>2 DEF Fine
<1> QED
  BY <1>3 DEF t, s

LEMMA MadeAt ==
  ASSUME NEW q, NEW i \in 1 .. Len(q), NEW x, q[i] = Code!At(x)
  PROVE  x \in Made(q)
<1>1. x \in Makes(q[i])
  BY DEF Makes, Code!At
<1> QED
  BY <1>1, MadeIs

LEMMA MadeStmt ==
  ASSUME NEW q, NEW i \in 1 .. Len(q), NEW k, q[i] = Code!Stmt(k)
  PROVE  LabelsUnder(k) \subseteq Made(q)
<1>1. LabelsUnder(k) = Makes(q[i])
  BY DEF Makes, Code!Stmt
<1> QED
  BY <1>1, MadeIs

\* Labels stand only in the statements that the scan of the labels enters.
LEMMA LabelsUnderIs ==
  ASSUME Legal, NEW n \in DOMAIN code_prog.node, NEW x \in LabelsUnder(n)
  PROVE  \/ code_prog.node[n].kind = "label" /\ x = LabelOf(code_prog, n)
         \/ /\ code_prog.node[n].kind \in {"compound", "if", "label"} \cup Loops
            /\ \E i \in DOMAIN code_prog.node[n].kids : x \in LabelsUnder(code_prog.node[n].kids[i])
<1>1. PICK m \in DOMAIN code_prog.node :
        code_prog.node[m].kind = "label" /\ Above(code_prog, n, m) /\ x = LabelOf(code_prog, m)
  BY DEF LabelsUnder
<1>2. CASE m = n
  BY <1>1, <1>2
<1>3. CASE m # n
  <2>1. PICK k \in DOMAIN code_prog.node : code_prog.node[k].up = n /\ Above(code_prog, k, m)
    BY <1>1, <1>3, AboveKid DEF Legal
  <2>2. x \in LabelsUnder(k) /\ HasLabel(code_prog, k)
    BY <1>1, <2>1 DEF LabelsUnder, HasLabel
  <2>3. Placed(code_prog, k) /\ n # 0
    BY <2>1, <2>2, HasLabelIs, UpIs DEF Legal
  <2>4. code_prog.node[n].kind \in {"compound", "if", "label"} \cup Loops
    BY <2>1, <2>3, PlacedIs DEF Legal
  <2>5. PICK i \in DOMAIN code_prog.node[n].kids : code_prog.node[n].kids[i] = k
    BY <2>1, <2>3 DEF Legal, WellFormed
  <2> QED
    BY <2>2, <2>4, <2>5
<1> QED
  BY <1>2, <1>3

LEMMA FinePopBr ==
  ASSUME NEW K, NEW b \in K
  PROVE  Fine(Code!IfOpen(<<Code!Pop, Code!Br({b})>>), K)
<1> DEFINE q == <<Code!Pop, Code!Br({b})>>
<1>1. NamesIn(Code!Br({b}), K) /\ NamesIn(Code!Pop, K)
  BY DEF NamesIn, Code!Br, Code!Pop
<1>2. Len(q) = 2 /\ q[1] = Code!Pop /\ q[2] = Code!Br({b})
  OBVIOUS
<1> HIDE DEF q
<1>3. \A i \in 1 .. Len(q) : NamesIn(q[i], K)
  BY <1>1, <1>2
<1>4. Code!IfOpen(q)[1] = "open" /\ Code!IfOpen(q)[2] = q
  BY DEF Code!IfOpen
<1>5. Fine(Code!IfOpen(q), K)
  BY <1>3, <1>4 DEF Fine
<1> QED
  BY <1>5 DEF q

LEMMA SettledWhile ==
  ASSUME Legal, NEW n \in DOMAIN code_prog.node, code_prog.node[n].kind = "while"
  PROVE  Settled(n, Code!LowerWhile(n))
<1> DEFINE node == code_prog.node[n]
           list == << Code!LoopTargets(<<n, "exit">>, <<n, "cond">>),
                      Code!Emit(Code!Br({<<n, "cond">>})),
                      Code!At(<<n, "cond">>),
                      Code!Emit(Code!Mark(Code!Again(n))),
                      Code!Eval(node.expr),
                      Code!Emit(Code!Br({<<n, "body">>, <<n, "exit">>})),
                      Code!At(<<n, "body">>),
                      Code!Stmt(node.kids[1]),
                      Code!Fall(<<n, "cond">>),
                      Code!DropTargets(1),
                      Code!At(<<n, "exit">>) >>
<1>1. n \in DOMAIN code_prog.node /\ Len(node.kids) = 1 /\ DOMAIN node.kids = 1 .. 1
  <2>1. node \in Node /\ Len(node.kids) = 1
    BY TreeIs DEF Legal, WellFormed, Loops
  <2> QED
    BY <2>1 DEF Node
<1>2. /\ IsSeq(list) /\ Len(list) = 11
      /\ <<n, "cond">> \in Made(list)
      /\ <<n, "body">> \in Made(list)
      /\ <<n, "exit">> \in Made(list)
      /\ LabelsUnder(node.kids[1]) \subseteq Made(list)
  <2>1. IsSeq(list) /\ Len(list) = 11
    BY DEF IsSeq
  <2>2. <<n, "cond">> \in Made(list)
    <3>1. 3 \in 1 .. Len(list) /\ list[3] = Code!At(<<n, "cond">>)
      BY <2>1
    <3> HIDE DEF node, list
    <3> QED
      BY <3>1, MadeAt
  <2>3. <<n, "body">> \in Made(list)
    <3>1. 7 \in 1 .. Len(list) /\ list[7] = Code!At(<<n, "body">>)
      BY <2>1
    <3> HIDE DEF node, list
    <3> QED
      BY <3>1, MadeAt
  <2>4. LabelsUnder(node.kids[1]) \subseteq Made(list)
    <3>1. 8 \in 1 .. Len(list) /\ list[8] = Code!Stmt(node.kids[1])
      BY <2>1
    <3> HIDE DEF node, list
    <3> QED
      BY <3>1, MadeStmt
  <2>5. <<n, "exit">> \in Made(list)
    <3>1. 11 \in 1 .. Len(list) /\ list[11] = Code!At(<<n, "exit">>)
      BY <2>1
    <3> HIDE DEF node, list
    <3> QED
      BY <3>1, MadeAt
  <2> HIDE DEF node, list
  <2> QED
    BY <2>1, <2>2, <2>3, <2>4, <2>5
<1>3. ASSUME NEW K, {<<n, "cond">>, <<n, "body">>, <<n, "exit">>} \subseteq K
      PROVE  AllFine(list, K)
  <2>1. \A r \in {"cond", "body", "exit"} : <<n, r>> \in K
    BY <1>3
  <2>2. <<n, "exit">> \in K \cap Plain /\ <<n, "cond">> \in K \cap Plain
    BY <2>1 DEF Plain, Roles
  <2>3. Fine(Code!LoopTargets(<<n, "exit">>, <<n, "cond">>), K)
    BY <2>2, FineTargets
  <2>4. Fine(Code!Emit(Code!Br({<<n, "cond">>})), K)
    BY <1>3, FineBr
  <2>5. Fine(Code!At(<<n, "cond">>), K)
    BY FineTasks
  <2>6. Fine(Code!Emit(Code!Mark(Code!Again(n))), K)
    BY FineTasks
  <2>7. Fine(Code!Eval(node.expr), K)
    BY FineTasks
  <2>8. Fine(Code!Emit(Code!Br({<<n, "body">>, <<n, "exit">>})), K)
    BY <1>3, FineBr
  <2>9. Fine(Code!At(<<n, "body">>), K)
    BY FineTasks
  <2>10. Fine(Code!Stmt(node.kids[1]), K)
    BY FineTasks
  <2>11. Fine(Code!Fall(<<n, "cond">>), K)
    BY <2>1, FineFall
  <2>12. Fine(Code!DropTargets(1), K)
    BY FineTasks
  <2>13. Fine(Code!At(<<n, "exit">>), K)
    BY FineTasks
  <2>14. Len(list) = 11
    OBVIOUS
  <2>15. \A i \in 1 .. 11 : Fine(list[i], K)
    <3> HIDE DEF node
    <3> QED
      BY <2>3, <2>4, <2>5, <2>6, <2>7, <2>8, <2>9, <2>10, <2>11, <2>12, <2>13, <2>14
  <2> HIDE DEF list
  <2> QED
    BY <2>14, <2>15 DEF AllFine
<1>4. Code!LowerWhile(n) = list
  BY DEF Code!LowerWhile
<1> HIDE DEF list
<1>5. IsSeq(list) /\ Made(list) = Made(list)
  BY <1>2
<1> DEFINE all == list
<1>6. IsSeq(all) /\ Made(all) = Made(list)
        /\ \A K : AllFine(all, K) <=> AllFine(list, K)
  BY <1>5
<1>7. Code!LowerWhile(n) = all
  BY <1>4
<1> HIDE DEF all
<1>8. ASSUME NEW x \in LabelsUnder(n) PROVE x \in Made(all)
  <2>1. PICK i \in DOMAIN node.kids : x \in LabelsUnder(node.kids[i])
    BY LabelsUnderIs
  <2>2. i = 1
    BY <1>1
  <2> HIDE DEF node
  <2> QED
    BY <1>2, <1>6, <2>1, <2>2
<1>9. ASSUME NEW K, Made(all) \subseteq K PROVE AllFine(all, K)
  <2>1. {<<n, "cond">>, <<n, "body">>, <<n, "exit">>} \subseteq K
    <3> HIDE DEF node
    <3> QED
      BY <1>2, <1>6, <1>9
  <2> QED
    BY <1>3, <1>6, <2>1
<1> QED
  BY <1>6, <1>7, <1>8, <1>9 DEF Settled

LEMMA SettledFor ==
  ASSUME Legal, NEW n \in DOMAIN code_prog.node, code_prog.node[n].kind = "for"
  PROVE  Settled(n, Code!LowerFor(n))
<1> DEFINE node == code_prog.node[n]
           list == << Code!Eval(node.init),
                      Code!LoopTargets(<<n, "exit">>, <<n, "latch">>),
                      Code!Emit(Code!Br({<<n, "cond">>})),
                      Code!At(<<n, "cond">>),
                      Code!Eval(node.expr),
                      Code!Emit(Code!Br({<<n, "body">>, <<n, "exit">>})),
                      Code!At(<<n, "body">>),
                      Code!Stmt(node.kids[1]),
                      Code!Fall(<<n, "latch">>),
                      Code!At(<<n, "latch">>),
                      Code!Emit(Code!Mark(Code!Again(n))),
                      Code!Eval(node.post),
                      Code!Emit(Code!Br({<<n, "cond">>})),
                      Code!DropTargets(1),
                      Code!At(<<n, "exit">>) >>
<1>1. n \in DOMAIN code_prog.node /\ Len(node.kids) = 1 /\ DOMAIN node.kids = 1 .. 1
  <2>1. node \in Node /\ Len(node.kids) = 1
    BY TreeIs DEF Legal, WellFormed, Loops
  <2> QED
    BY <2>1 DEF Node
<1>2. /\ IsSeq(list) /\ Len(list) = 15
      /\ <<n, "cond">> \in Made(list)
      /\ <<n, "body">> \in Made(list)
      /\ <<n, "latch">> \in Made(list)
      /\ <<n, "exit">> \in Made(list)
      /\ LabelsUnder(node.kids[1]) \subseteq Made(list)
  <2>1. IsSeq(list) /\ Len(list) = 15
    BY DEF IsSeq
  <2>2. <<n, "cond">> \in Made(list)
    <3>1. 4 \in 1 .. Len(list) /\ list[4] = Code!At(<<n, "cond">>)
      BY <2>1
    <3> HIDE DEF node, list
    <3> QED
      BY <3>1, MadeAt
  <2>3. <<n, "body">> \in Made(list)
    <3>1. 7 \in 1 .. Len(list) /\ list[7] = Code!At(<<n, "body">>)
      BY <2>1
    <3> HIDE DEF node, list
    <3> QED
      BY <3>1, MadeAt
  <2>4. LabelsUnder(node.kids[1]) \subseteq Made(list)
    <3>1. 8 \in 1 .. Len(list) /\ list[8] = Code!Stmt(node.kids[1])
      BY <2>1
    <3> HIDE DEF node, list
    <3> QED
      BY <3>1, MadeStmt
  <2>5. <<n, "latch">> \in Made(list)
    <3>1. 10 \in 1 .. Len(list) /\ list[10] = Code!At(<<n, "latch">>)
      BY <2>1
    <3> HIDE DEF node, list
    <3> QED
      BY <3>1, MadeAt
  <2>6. <<n, "exit">> \in Made(list)
    <3>1. 15 \in 1 .. Len(list) /\ list[15] = Code!At(<<n, "exit">>)
      BY <2>1
    <3> HIDE DEF node, list
    <3> QED
      BY <3>1, MadeAt
  <2> HIDE DEF node, list
  <2> QED
    BY <2>1, <2>2, <2>3, <2>4, <2>5, <2>6
<1>3. ASSUME NEW K, {<<n, "cond">>, <<n, "body">>, <<n, "latch">>, <<n, "exit">>} \subseteq K
      PROVE  AllFine(list, K)
  <2>1. \A r \in {"cond", "body", "latch", "exit"} : <<n, r>> \in K
    BY <1>3
  <2>2. <<n, "exit">> \in K \cap Plain /\ <<n, "latch">> \in K \cap Plain
    BY <2>1 DEF Plain, Roles
  <2>3. Fine(Code!Eval(node.init), K)
    BY FineTasks
  <2>4. Fine(Code!LoopTargets(<<n, "exit">>, <<n, "latch">>), K)
    BY <2>2, FineTargets
  <2>5. Fine(Code!Emit(Code!Br({<<n, "cond">>})), K)
    BY <1>3, FineBr
  <2>6. Fine(Code!At(<<n, "cond">>), K)
    BY FineTasks
  <2>7. Fine(Code!Eval(node.expr), K)
    BY FineTasks
  <2>8. Fine(Code!Emit(Code!Br({<<n, "body">>, <<n, "exit">>})), K)
    BY <1>3, FineBr
  <2>9. Fine(Code!At(<<n, "body">>), K)
    BY FineTasks
  <2>10. Fine(Code!Stmt(node.kids[1]), K)
    BY FineTasks
  <2>11. Fine(Code!Fall(<<n, "latch">>), K)
    BY <2>1, FineFall
  <2>12. Fine(Code!At(<<n, "latch">>), K)
    BY FineTasks
  <2>13. Fine(Code!Emit(Code!Mark(Code!Again(n))), K)
    BY FineTasks
  <2>14. Fine(Code!Eval(node.post), K)
    BY FineTasks
  <2>15. Fine(Code!Emit(Code!Br({<<n, "cond">>})), K)
    BY <1>3, FineBr
  <2>16. Fine(Code!DropTargets(1), K)
    BY FineTasks
  <2>17. Fine(Code!At(<<n, "exit">>), K)
    BY FineTasks
  <2>18. Len(list) = 15
    OBVIOUS
  <2>19. \A i \in 1 .. 15 : Fine(list[i], K)
    <3> HIDE DEF node
    <3> QED
      BY <2>3, <2>4, <2>5, <2>6, <2>7, <2>8, <2>9, <2>10, <2>11, <2>12, <2>13, <2>14, <2>15, <2>16, <2>17, <2>18
  <2> HIDE DEF list
  <2> QED
    BY <2>18, <2>19 DEF AllFine
<1>4. Code!LowerFor(n) = list
  BY DEF Code!LowerFor
<1> HIDE DEF list
<1>5. IsSeq(list) /\ Made(list) = Made(list)
  BY <1>2
<1> DEFINE all == list
<1>6. IsSeq(all) /\ Made(all) = Made(list)
        /\ \A K : AllFine(all, K) <=> AllFine(list, K)
  BY <1>5
<1>7. Code!LowerFor(n) = all
  BY <1>4
<1> HIDE DEF all
<1>8. ASSUME NEW x \in LabelsUnder(n) PROVE x \in Made(all)
  <2>1. PICK i \in DOMAIN node.kids : x \in LabelsUnder(node.kids[i])
    BY LabelsUnderIs
  <2>2. i = 1
    BY <1>1
  <2> HIDE DEF node
  <2> QED
    BY <1>2, <1>6, <2>1, <2>2
<1>9. ASSUME NEW K, Made(all) \subseteq K PROVE AllFine(all, K)
  <2>1. {<<n, "cond">>, <<n, "body">>, <<n, "latch">>, <<n, "exit">>} \subseteq K
    <3> HIDE DEF node
    <3> QED
      BY <1>2, <1>6, <1>9
  <2> QED
    BY <1>3, <1>6, <2>1
<1> QED
  BY <1>6, <1>7, <1>8, <1>9 DEF Settled

LEMMA SettledDoWhile ==
  ASSUME Legal, NEW n \in DOMAIN code_prog.node, code_prog.node[n].kind = "dowhile"
  PROVE  Settled(n, Code!LowerDoWhile(n))
<1> DEFINE node == code_prog.node[n]
           list == << Code!LoopTargets(<<n, "exit">>, <<n, "latch">>),
                      Code!Emit(Code!Br({<<n, "body">>})),
                      Code!At(<<n, "body">>),
                      Code!Stmt(node.kids[1]),
                      Code!Fall(<<n, "latch">>),
                      Code!At(<<n, "latch">>),
                      Code!Emit(Code!Mark(Code!Again(n))),
                      Code!Eval(node.expr),
                      Code!Emit(Code!Br({<<n, "body">>, <<n, "exit">>})),
                      Code!DropTargets(1),
                      Code!At(<<n, "exit">>) >>
<1>1. n \in DOMAIN code_prog.node /\ Len(node.kids) = 1 /\ DOMAIN node.kids = 1 .. 1
  <2>1. node \in Node /\ Len(node.kids) = 1
    BY TreeIs DEF Legal, WellFormed, Loops
  <2> QED
    BY <2>1 DEF Node
<1>2. /\ IsSeq(list) /\ Len(list) = 11
      /\ <<n, "body">> \in Made(list)
      /\ <<n, "latch">> \in Made(list)
      /\ <<n, "exit">> \in Made(list)
      /\ LabelsUnder(node.kids[1]) \subseteq Made(list)
  <2>1. IsSeq(list) /\ Len(list) = 11
    BY DEF IsSeq
  <2>2. <<n, "body">> \in Made(list)
    <3>1. 3 \in 1 .. Len(list) /\ list[3] = Code!At(<<n, "body">>)
      BY <2>1
    <3> HIDE DEF node, list
    <3> QED
      BY <3>1, MadeAt
  <2>3. LabelsUnder(node.kids[1]) \subseteq Made(list)
    <3>1. 4 \in 1 .. Len(list) /\ list[4] = Code!Stmt(node.kids[1])
      BY <2>1
    <3> HIDE DEF node, list
    <3> QED
      BY <3>1, MadeStmt
  <2>4. <<n, "latch">> \in Made(list)
    <3>1. 6 \in 1 .. Len(list) /\ list[6] = Code!At(<<n, "latch">>)
      BY <2>1
    <3> HIDE DEF node, list
    <3> QED
      BY <3>1, MadeAt
  <2>5. <<n, "exit">> \in Made(list)
    <3>1. 11 \in 1 .. Len(list) /\ list[11] = Code!At(<<n, "exit">>)
      BY <2>1
    <3> HIDE DEF node, list
    <3> QED
      BY <3>1, MadeAt
  <2> HIDE DEF node, list
  <2> QED
    BY <2>1, <2>2, <2>3, <2>4, <2>5
<1>3. ASSUME NEW K, {<<n, "body">>, <<n, "latch">>, <<n, "exit">>} \subseteq K
      PROVE  AllFine(list, K)
  <2>1. \A r \in {"body", "latch", "exit"} : <<n, r>> \in K
    BY <1>3
  <2>2. <<n, "exit">> \in K \cap Plain /\ <<n, "latch">> \in K \cap Plain
    BY <2>1 DEF Plain, Roles
  <2>3. Fine(Code!LoopTargets(<<n, "exit">>, <<n, "latch">>), K)
    BY <2>2, FineTargets
  <2>4. Fine(Code!Emit(Code!Br({<<n, "body">>})), K)
    BY <1>3, FineBr
  <2>5. Fine(Code!At(<<n, "body">>), K)
    BY FineTasks
  <2>6. Fine(Code!Stmt(node.kids[1]), K)
    BY FineTasks
  <2>7. Fine(Code!Fall(<<n, "latch">>), K)
    BY <2>1, FineFall
  <2>8. Fine(Code!At(<<n, "latch">>), K)
    BY FineTasks
  <2>9. Fine(Code!Emit(Code!Mark(Code!Again(n))), K)
    BY FineTasks
  <2>10. Fine(Code!Eval(node.expr), K)
    BY FineTasks
  <2>11. Fine(Code!Emit(Code!Br({<<n, "body">>, <<n, "exit">>})), K)
    BY <1>3, FineBr
  <2>12. Fine(Code!DropTargets(1), K)
    BY FineTasks
  <2>13. Fine(Code!At(<<n, "exit">>), K)
    BY FineTasks
  <2>14. Len(list) = 11
    OBVIOUS
  <2>15. \A i \in 1 .. 11 : Fine(list[i], K)
    <3> HIDE DEF node
    <3> QED
      BY <2>3, <2>4, <2>5, <2>6, <2>7, <2>8, <2>9, <2>10, <2>11, <2>12, <2>13, <2>14
  <2> HIDE DEF list
  <2> QED
    BY <2>14, <2>15 DEF AllFine
<1>4. Code!LowerDoWhile(n) = list
  BY DEF Code!LowerDoWhile
<1> HIDE DEF list
<1>5. IsSeq(list) /\ Made(list) = Made(list)
  BY <1>2
<1> DEFINE all == list
<1>6. IsSeq(all) /\ Made(all) = Made(list)
        /\ \A K : AllFine(all, K) <=> AllFine(list, K)
  BY <1>5
<1>7. Code!LowerDoWhile(n) = all
  BY <1>4
<1> HIDE DEF all
<1>8. ASSUME NEW x \in LabelsUnder(n) PROVE x \in Made(all)
  <2>1. PICK i \in DOMAIN node.kids : x \in LabelsUnder(node.kids[i])
    BY LabelsUnderIs
  <2>2. i = 1
    BY <1>1
  <2> HIDE DEF node
  <2> QED
    BY <1>2, <1>6, <2>1, <2>2
<1>9. ASSUME NEW K, Made(all) \subseteq K PROVE AllFine(all, K)
  <2>1. {<<n, "body">>, <<n, "latch">>, <<n, "exit">>} \subseteq K
    <3> HIDE DEF node
    <3> QED
      BY <1>2, <1>6, <1>9
  <2> QED
    BY <1>3, <1>6, <2>1
<1> QED
  BY <1>6, <1>7, <1>8, <1>9 DEF Settled

LEMMA SettledTry ==
  ASSUME Legal, NEW n \in DOMAIN code_prog.node, code_prog.node[n].kind = "try"
  PROVE  Settled(n, Code!LowerTry(n))
<1> DEFINE node == code_prog.node[n]
           list == << Code!Emit(Code!SetJmp(n)),
                      Code!At(<<n, "setup">>),
                      Code!Emit(Code!Push(n)),
                      Code!Emit(Code!Br({<<n, "try">>})),
                      Code!At(<<n, "try">>),
                      Code!Stmt(node.kids[1]),
                      Code!IfOpen(<<Code!Pop, Code!Br({<<n, "merge">>})>>),
                      Code!At(<<n, "catch">>),
                      Code!Stmt(node.kids[2]),
                      Code!Fall(<<n, "merge">>),
                      Code!At(<<n, "merge">>) >>
<1>1. n \in DOMAIN code_prog.node /\ Len(node.kids) = 2 /\ DOMAIN node.kids = 1 .. 2
  <2>1. node \in Node /\ Len(node.kids) = 2
    BY TreeIs DEF Legal, WellFormed, Loops
  <2> QED
    BY <2>1 DEF Node
<1>2. /\ IsSeq(list) /\ Len(list) = 11
      /\ <<n, "setup">> \in Made(list)
      /\ <<n, "try">> \in Made(list)
      /\ <<n, "catch">> \in Made(list)
      /\ <<n, "merge">> \in Made(list)
      /\ LabelsUnder(node.kids[1]) \subseteq Made(list)
      /\ LabelsUnder(node.kids[2]) \subseteq Made(list)
  <2>1. IsSeq(list) /\ Len(list) = 11
    BY DEF IsSeq
  <2>2. <<n, "setup">> \in Made(list)
    <3>1. 2 \in 1 .. Len(list) /\ list[2] = Code!At(<<n, "setup">>)
      BY <2>1
    <3> HIDE DEF node, list
    <3> QED
      BY <3>1, MadeAt
  <2>3. <<n, "try">> \in Made(list)
    <3>1. 5 \in 1 .. Len(list) /\ list[5] = Code!At(<<n, "try">>)
      BY <2>1
    <3> HIDE DEF node, list
    <3> QED
      BY <3>1, MadeAt
  <2>4. LabelsUnder(node.kids[1]) \subseteq Made(list)
    <3>1. 6 \in 1 .. Len(list) /\ list[6] = Code!Stmt(node.kids[1])
      BY <2>1
    <3> HIDE DEF node, list
    <3> QED
      BY <3>1, MadeStmt
  <2>5. <<n, "catch">> \in Made(list)
    <3>1. 8 \in 1 .. Len(list) /\ list[8] = Code!At(<<n, "catch">>)
      BY <2>1
    <3> HIDE DEF node, list
    <3> QED
      BY <3>1, MadeAt
  <2>6. LabelsUnder(node.kids[2]) \subseteq Made(list)
    <3>1. 9 \in 1 .. Len(list) /\ list[9] = Code!Stmt(node.kids[2])
      BY <2>1
    <3> HIDE DEF node, list
    <3> QED
      BY <3>1, MadeStmt
  <2>7. <<n, "merge">> \in Made(list)
    <3>1. 11 \in 1 .. Len(list) /\ list[11] = Code!At(<<n, "merge">>)
      BY <2>1
    <3> HIDE DEF node, list
    <3> QED
      BY <3>1, MadeAt
  <2> HIDE DEF node, list
  <2> QED
    BY <2>1, <2>2, <2>3, <2>4, <2>5, <2>6, <2>7
<1>3. ASSUME NEW K, {<<n, "setup">>, <<n, "try">>, <<n, "catch">>, <<n, "merge">>} \subseteq K
      PROVE  AllFine(list, K)
  <2>1. \A r \in {"setup", "try", "catch", "merge"} : <<n, r>> \in K
    BY <1>3
  <2>2. Fine(Code!Emit(Code!SetJmp(n)), K)
    BY <2>1 DEF Fine, NamesIn, Code!Emit, Code!SetJmp
  <2>3. Fine(Code!At(<<n, "setup">>), K)
    BY FineTasks
  <2>4. Fine(Code!Emit(Code!Push(n)), K)
    BY <2>1 DEF Fine, NamesIn, Code!Emit, Code!Push
  <2>5. Fine(Code!Emit(Code!Br({<<n, "try">>})), K)
    BY <1>3, FineBr
  <2>6. Fine(Code!At(<<n, "try">>), K)
    BY FineTasks
  <2>7. Fine(Code!Stmt(node.kids[1]), K)
    BY FineTasks
  <2>8. Fine(Code!IfOpen(<<Code!Pop, Code!Br({<<n, "merge">>})>>), K)
    BY <2>1, FinePopBr
  <2>9. Fine(Code!At(<<n, "catch">>), K)
    BY FineTasks
  <2>10. Fine(Code!Stmt(node.kids[2]), K)
    BY FineTasks
  <2>11. Fine(Code!Fall(<<n, "merge">>), K)
    BY <2>1, FineFall
  <2>12. Fine(Code!At(<<n, "merge">>), K)
    BY FineTasks
  <2>13. Len(list) = 11
    OBVIOUS
  <2>14. \A i \in 1 .. 11 : Fine(list[i], K)
    <3> HIDE DEF node
    <3> QED
      BY <2>2, <2>3, <2>4, <2>5, <2>6, <2>7, <2>8, <2>9, <2>10, <2>11, <2>12, <2>13
  <2> HIDE DEF list
  <2> QED
    BY <2>13, <2>14 DEF AllFine
<1>4. Code!LowerTry(n) = list
  BY DEF Code!LowerTry
<1> HIDE DEF list
<1>5. IsSeq(list) /\ Made(list) = Made(list)
  BY <1>2
<1> DEFINE all == list
<1>6. IsSeq(all) /\ Made(all) = Made(list)
        /\ \A K : AllFine(all, K) <=> AllFine(list, K)
  BY <1>5
<1>7. Code!LowerTry(n) = all
  BY <1>4
<1> HIDE DEF all
<1>8. ASSUME NEW x \in LabelsUnder(n) PROVE x \in Made(all)
  BY LabelsUnderIs DEF Loops
<1>9. ASSUME NEW K, Made(all) \subseteq K PROVE AllFine(all, K)
  <2>1. {<<n, "setup">>, <<n, "try">>, <<n, "catch">>, <<n, "merge">>} \subseteq K
    <3> HIDE DEF node
    <3> QED
      BY <1>2, <1>6, <1>9
  <2> QED
    BY <1>3, <1>6, <2>1
<1> QED
  BY <1>6, <1>7, <1>8, <1>9 DEF Settled

LEMMA SettledIfThen ==
  ASSUME Legal, NEW n \in DOMAIN code_prog.node, code_prog.node[n].kind = "if",
         Len(code_prog.node[n].kids) = 1
  PROVE  Settled(n, Code!LowerIf(n))
<1> DEFINE node == code_prog.node[n]
           list1 == << Code!Eval(node.expr),
                       Code!Emit(Code!Br({<<n, "then">>, <<n, "merge">>})),
                       Code!At(<<n, "then">>),
                       Code!Stmt(node.kids[1]),
                       Code!Fall(<<n, "merge">>) >>
           list2 == << Code!At(<<n, "merge">>) >>
<1>1. n \in DOMAIN code_prog.node /\ Len(node.kids) = 1 /\ DOMAIN node.kids = 1 .. 1
  <2>1. node \in Node /\ Len(node.kids) = 1
    BY TreeIs DEF Legal, WellFormed, Loops
  <2> QED
    BY <2>1 DEF Node
<1>2. /\ IsSeq(list1) /\ Len(list1) = 5
      /\ <<n, "then">> \in Made(list1)
      /\ LabelsUnder(node.kids[1]) \subseteq Made(list1)
  <2>1. IsSeq(list1) /\ Len(list1) = 5
    BY DEF IsSeq
  <2>2. <<n, "then">> \in Made(list1)
    <3>1. 3 \in 1 .. Len(list1) /\ list1[3] = Code!At(<<n, "then">>)
      BY <2>1
    <3> HIDE DEF node, list1
    <3> QED
      BY <3>1, MadeAt
  <2>3. LabelsUnder(node.kids[1]) \subseteq Made(list1)
    <3>1. 4 \in 1 .. Len(list1) /\ list1[4] = Code!Stmt(node.kids[1])
      BY <2>1
    <3> HIDE DEF node, list1
    <3> QED
      BY <3>1, MadeStmt
  <2> HIDE DEF node, list1
  <2> QED
    BY <2>1, <2>2, <2>3
<1>3. /\ IsSeq(list2) /\ Len(list2) = 1
      /\ <<n, "merge">> \in Made(list2)
  <2>1. IsSeq(list2) /\ Len(list2) = 1
    BY DEF IsSeq
  <2>2. <<n, "merge">> \in Made(list2)
    <3>1. 1 \in 1 .. Len(list2) /\ list2[1] = Code!At(<<n, "merge">>)
      BY <2>1
    <3> HIDE DEF node, list2
    <3> QED
      BY <3>1, MadeAt
  <2> HIDE DEF node, list2
  <2> QED
    BY <2>1, <2>2
<1>4. ASSUME NEW K, {<<n, "then">>, <<n, "merge">>} \subseteq K
      PROVE  AllFine(list1, K)
  <2>1. \A r \in {"then", "merge"} : <<n, r>> \in K
    BY <1>4
  <2>2. Fine(Code!Eval(node.expr), K)
    BY FineTasks
  <2>3. Fine(Code!Emit(Code!Br({<<n, "then">>, <<n, "merge">>})), K)
    BY <1>4, FineBr
  <2>4. Fine(Code!At(<<n, "then">>), K)
    BY FineTasks
  <2>5. Fine(Code!Stmt(node.kids[1]), K)
    BY FineTasks
  <2>6. Fine(Code!Fall(<<n, "merge">>), K)
    BY <2>1, FineFall
  <2>7. Len(list1) = 5
    OBVIOUS
  <2>8. \A i \in 1 .. 5 : Fine(list1[i], K)
    <3> HIDE DEF node
    <3> QED
      BY <2>2, <2>3, <2>4, <2>5, <2>6, <2>7
  <2> HIDE DEF list1
  <2> QED
    BY <2>7, <2>8 DEF AllFine
<1>5. ASSUME NEW K, {<<n, "then">>, <<n, "merge">>} \subseteq K
      PROVE  AllFine(list2, K)
  <2>1. \A r \in {"then", "merge"} : <<n, r>> \in K
    BY <1>5
  <2>2. Fine(Code!At(<<n, "merge">>), K)
    BY FineTasks
  <2>3. Len(list2) = 1
    OBVIOUS
  <2>4. \A i \in 1 .. 1 : Fine(list2[i], K)
    <3> HIDE DEF node
    <3> QED
      BY <2>2, <2>3
  <2> HIDE DEF list2
  <2> QED
    BY <2>3, <2>4 DEF AllFine
<1>6. Code!LowerIf(n) = list1 \o list2
  BY <1>1 DEF Code!LowerIf
<1> HIDE DEF list1, list2
<1>7. IsSeq(list1 \o list2) /\ Made(list1 \o list2) = Made(list1) \cup Made(list2)
        /\ \A K : AllFine(list1 \o list2, K) <=> AllFine(list1, K) /\ AllFine(list2, K)
  BY <1>2, <1>3, ConcatIs, MadeConcat, FineConcat
<1> DEFINE all == list1 \o list2
<1>8. IsSeq(all) /\ Made(all) = Made(list1) \cup Made(list2)
        /\ \A K : AllFine(all, K) <=> AllFine(list1, K) /\ AllFine(list2, K)
  BY <1>7
<1>9. Code!LowerIf(n) = all
  BY <1>6
<1> HIDE DEF all
<1>10. ASSUME NEW x \in LabelsUnder(n) PROVE x \in Made(all)
  <2>1. PICK i \in DOMAIN node.kids : x \in LabelsUnder(node.kids[i])
    BY LabelsUnderIs
  <2>2. i = 1
    BY <1>1
  <2> HIDE DEF node
  <2> QED
    BY <1>2, <1>3, <1>8, <2>1, <2>2
<1>11. ASSUME NEW K, Made(all) \subseteq K PROVE AllFine(all, K)
  <2>1. {<<n, "then">>, <<n, "merge">>} \subseteq K
    <3> HIDE DEF node
    <3> QED
      BY <1>2, <1>3, <1>8, <1>11
  <2> QED
    BY <1>4, <1>5, <1>8, <2>1
<1> QED
  BY <1>8, <1>9, <1>10, <1>11 DEF Settled

LEMMA SettledIfElse ==
  ASSUME Legal, NEW n \in DOMAIN code_prog.node, code_prog.node[n].kind = "if",
         Len(code_prog.node[n].kids) = 2
  PROVE  Settled(n, Code!LowerIf(n))
<1> DEFINE node == code_prog.node[n]
           list1 == << Code!Eval(node.expr),
                       Code!Emit(Code!Br({<<n, "then">>, <<n, "else">>})),
                       Code!At(<<n, "then">>),
                       Code!Stmt(node.kids[1]),
                       Code!Fall(<<n, "merge">>) >>
           list2 == << Code!At(<<n, "else">>),
                       Code!Stmt(node.kids[2]),
                       Code!Fall(<<n, "merge">>) >>
           list3 == << Code!At(<<n, "merge">>) >>
<1>1. n \in DOMAIN code_prog.node /\ Len(node.kids) = 2 /\ DOMAIN node.kids = 1 .. 2
  <2>1. node \in Node /\ Len(node.kids) = 2
    BY TreeIs DEF Legal, WellFormed, Loops
  <2> QED
    BY <2>1 DEF Node
<1>2. /\ IsSeq(list1) /\ Len(list1) = 5
      /\ <<n, "then">> \in Made(list1)
      /\ LabelsUnder(node.kids[1]) \subseteq Made(list1)
  <2>1. IsSeq(list1) /\ Len(list1) = 5
    BY DEF IsSeq
  <2>2. <<n, "then">> \in Made(list1)
    <3>1. 3 \in 1 .. Len(list1) /\ list1[3] = Code!At(<<n, "then">>)
      BY <2>1
    <3> HIDE DEF node, list1
    <3> QED
      BY <3>1, MadeAt
  <2>3. LabelsUnder(node.kids[1]) \subseteq Made(list1)
    <3>1. 4 \in 1 .. Len(list1) /\ list1[4] = Code!Stmt(node.kids[1])
      BY <2>1
    <3> HIDE DEF node, list1
    <3> QED
      BY <3>1, MadeStmt
  <2> HIDE DEF node, list1
  <2> QED
    BY <2>1, <2>2, <2>3
<1>3. /\ IsSeq(list2) /\ Len(list2) = 3
      /\ <<n, "else">> \in Made(list2)
      /\ LabelsUnder(node.kids[2]) \subseteq Made(list2)
  <2>1. IsSeq(list2) /\ Len(list2) = 3
    BY DEF IsSeq
  <2>2. <<n, "else">> \in Made(list2)
    <3>1. 1 \in 1 .. Len(list2) /\ list2[1] = Code!At(<<n, "else">>)
      BY <2>1
    <3> HIDE DEF node, list2
    <3> QED
      BY <3>1, MadeAt
  <2>3. LabelsUnder(node.kids[2]) \subseteq Made(list2)
    <3>1. 2 \in 1 .. Len(list2) /\ list2[2] = Code!Stmt(node.kids[2])
      BY <2>1
    <3> HIDE DEF node, list2
    <3> QED
      BY <3>1, MadeStmt
  <2> HIDE DEF node, list2
  <2> QED
    BY <2>1, <2>2, <2>3
<1>4. /\ IsSeq(list3) /\ Len(list3) = 1
      /\ <<n, "merge">> \in Made(list3)
  <2>1. IsSeq(list3) /\ Len(list3) = 1
    BY DEF IsSeq
  <2>2. <<n, "merge">> \in Made(list3)
    <3>1. 1 \in 1 .. Len(list3) /\ list3[1] = Code!At(<<n, "merge">>)
      BY <2>1
    <3> HIDE DEF node, list3
    <3> QED
      BY <3>1, MadeAt
  <2> HIDE DEF node, list3
  <2> QED
    BY <2>1, <2>2
<1>5. ASSUME NEW K, {<<n, "then">>, <<n, "else">>, <<n, "merge">>} \subseteq K
      PROVE  AllFine(list1, K)
  <2>1. \A r \in {"then", "else", "merge"} : <<n, r>> \in K
    BY <1>5
  <2>2. Fine(Code!Eval(node.expr), K)
    BY FineTasks
  <2>3. Fine(Code!Emit(Code!Br({<<n, "then">>, <<n, "else">>})), K)
    BY <1>5, FineBr
  <2>4. Fine(Code!At(<<n, "then">>), K)
    BY FineTasks
  <2>5. Fine(Code!Stmt(node.kids[1]), K)
    BY FineTasks
  <2>6. Fine(Code!Fall(<<n, "merge">>), K)
    BY <2>1, FineFall
  <2>7. Len(list1) = 5
    OBVIOUS
  <2>8. \A i \in 1 .. 5 : Fine(list1[i], K)
    <3> HIDE DEF node
    <3> QED
      BY <2>2, <2>3, <2>4, <2>5, <2>6, <2>7
  <2> HIDE DEF list1
  <2> QED
    BY <2>7, <2>8 DEF AllFine
<1>6. ASSUME NEW K, {<<n, "then">>, <<n, "else">>, <<n, "merge">>} \subseteq K
      PROVE  AllFine(list2, K)
  <2>1. \A r \in {"then", "else", "merge"} : <<n, r>> \in K
    BY <1>6
  <2>2. Fine(Code!At(<<n, "else">>), K)
    BY FineTasks
  <2>3. Fine(Code!Stmt(node.kids[2]), K)
    BY FineTasks
  <2>4. Fine(Code!Fall(<<n, "merge">>), K)
    BY <2>1, FineFall
  <2>5. Len(list2) = 3
    OBVIOUS
  <2>6. \A i \in 1 .. 3 : Fine(list2[i], K)
    <3> HIDE DEF node
    <3> QED
      BY <2>2, <2>3, <2>4, <2>5
  <2> HIDE DEF list2
  <2> QED
    BY <2>5, <2>6 DEF AllFine
<1>7. ASSUME NEW K, {<<n, "then">>, <<n, "else">>, <<n, "merge">>} \subseteq K
      PROVE  AllFine(list3, K)
  <2>1. \A r \in {"then", "else", "merge"} : <<n, r>> \in K
    BY <1>7
  <2>2. Fine(Code!At(<<n, "merge">>), K)
    BY FineTasks
  <2>3. Len(list3) = 1
    OBVIOUS
  <2>4. \A i \in 1 .. 1 : Fine(list3[i], K)
    <3> HIDE DEF node
    <3> QED
      BY <2>2, <2>3
  <2> HIDE DEF list3
  <2> QED
    BY <2>3, <2>4 DEF AllFine
<1>8. Code!LowerIf(n) = (list1 \o list2) \o list3
  BY <1>1 DEF Code!LowerIf
<1> HIDE DEF list1, list2, list3
<1>9. IsSeq((list1 \o list2) \o list3) /\ Made((list1 \o list2) \o list3) = Made(list1) \cup Made(list2) \cup Made(list3)
        /\ \A K : AllFine((list1 \o list2) \o list3, K) <=> AllFine(list1, K) /\ AllFine(list2, K) /\ AllFine(list3, K)
  <2>1. IsSeq(list1 \o list2) /\ Made(list1 \o list2) = Made(list1) \cup Made(list2)
        /\ \A K : AllFine(list1 \o list2, K) <=> AllFine(list1, K) /\ AllFine(list2, K)
    BY <1>2, <1>3, <1>4, ConcatIs, MadeConcat, FineConcat
  <2> DEFINE both == list1 \o list2
  <2>2. IsSeq(both) /\ Made(both) = Made(list1) \cup Made(list2)
        /\ \A K : AllFine(both, K) <=> AllFine(list1, K) /\ AllFine(list2, K)
    BY <2>1
  <2> HIDE DEF both
  <2>3. IsSeq(both \o list3) /\ Made(both \o list3) = Made(both) \cup Made(list3)
        /\ \A K : AllFine(both \o list3, K) <=> AllFine(both, K) /\ AllFine(list3, K)
    BY <1>4, <2>2, ConcatIs, MadeConcat, FineConcat
  <2>4. IsSeq(both \o list3) /\ Made(both \o list3) = (Made(list1) \cup Made(list2)) \cup Made(list3)
        /\ \A K : AllFine(both \o list3, K) <=> AllFine(list1, K) /\ AllFine(list2, K) /\ AllFine(list3, K)
    BY <2>2, <2>3
  <2> QED
    BY <2>4 DEF both
<1> DEFINE all == (list1 \o list2) \o list3
<1>10. IsSeq(all) /\ Made(all) = Made(list1) \cup Made(list2) \cup Made(list3)
        /\ \A K : AllFine(all, K) <=> AllFine(list1, K) /\ AllFine(list2, K) /\ AllFine(list3, K)
  BY <1>9
<1>11. Code!LowerIf(n) = all
  BY <1>8
<1> HIDE DEF all
<1>12. ASSUME NEW x \in LabelsUnder(n) PROVE x \in Made(all)
  <2>1. PICK i \in DOMAIN node.kids : x \in LabelsUnder(node.kids[i])
    BY LabelsUnderIs
  <2>2. i = 1 \/ i = 2
    BY <1>1
  <2> HIDE DEF node
  <2> QED
    BY <1>2, <1>3, <1>4, <1>10, <2>1, <2>2
<1>13. ASSUME NEW K, Made(all) \subseteq K PROVE AllFine(all, K)
  <2>1. {<<n, "then">>, <<n, "else">>, <<n, "merge">>} \subseteq K
    <3> HIDE DEF node
    <3> QED
      BY <1>2, <1>3, <1>4, <1>10, <1>13
  <2> QED
    BY <1>5, <1>6, <1>7, <1>10, <2>1
<1> QED
  BY <1>10, <1>11, <1>12, <1>13 DEF Settled

\* The lists of the kids name what is known.
LEMMA KidsSettle ==
  ASSUME Legal, NEW n \in DOMAIN code_prog.node
  PROVE  /\ IsSeq(KidList(n))
         /\ \A i \in DOMAIN code_prog.node[n].kids :
              LabelsUnder(code_prog.node[n].kids[i]) \subseteq Made(KidList(n))
         /\ \A K : AllFine(KidList(n), K)
<1> DEFINE kids == code_prog.node[n].kids
           list == KidList(n)
<1>1. kids \in Seq(Nat \ {0}) /\ Len(kids) \in Nat /\ DOMAIN kids = 1 .. Len(kids)
  <2>1. code_prog.node[n] \in Node
    BY TreeIs DEF Legal
  <2> QED
    BY <2>1 DEF Node
<1>2. IsSeq(list) /\ Len(list) = Len(kids) /\ \A i \in 1 .. Len(kids) : list[i] = Code!Stmt(kids[i])
  BY <1>1 DEF IsSeq, KidList
<1> HIDE DEF list
<1>3. ASSUME NEW i \in DOMAIN kids PROVE LabelsUnder(kids[i]) \subseteq Made(list)
  <2>1. i \in 1 .. Len(list) /\ list[i] = Code!Stmt(kids[i])
    BY <1>1, <1>2
  <2> HIDE DEF kids
  <2> QED
    BY <2>1, MadeStmt
<1>4. \A K : AllFine(list, K)
  <2> HIDE DEF kids
  <2> QED
    BY <1>2, FineTasks DEF AllFine
<1>5. /\ IsSeq(list)
      /\ \A i \in DOMAIN kids : LabelsUnder(kids[i]) \subseteq Made(list)
      /\ \A K : AllFine(list, K)
  BY <1>2, <1>3, <1>4
<1> QED
  BY <1>5 DEF list

LEMMA SettledCompound ==
  ASSUME Legal, NEW n \in DOMAIN code_prog.node, code_prog.node[n].kind = "compound"
  PROVE  Settled(n, KidList(n))
<1>1. ASSUME NEW x \in LabelsUnder(n) PROVE x \in Made(KidList(n))
  <2>1. PICK i \in DOMAIN code_prog.node[n].kids : x \in LabelsUnder(code_prog.node[n].kids[i])
    BY LabelsUnderIs
  <2> QED
    BY <2>1, KidsSettle
<1> QED
  BY <1>1, KidsSettle DEF Settled

LEMMA SettledLabel ==
  ASSUME Legal, NEW n \in DOMAIN code_prog.node, code_prog.node[n].kind = "label"
  PROVE  Settled(n, Code!LowerLabel(n))
<1> DEFINE x == LabelOf(code_prog, n)
           list1 == << Code!Fall(x), Code!At(x), Code!Emit(Code!Mark(Code!Enter(n))) >>
           list2 == KidList(n)
<1>1. Code!LowerLabel(n) = list1 \o list2
  <2>1. Code!LabelBlock(Code!Root(code_prog, n), code_prog.node[n].name) = x
    BY SameSyntax DEF Code!LabelBlock, LabelOf
  <2> QED
    BY <2>1 DEF Code!LowerLabel, KidList
<1> HIDE DEF x
<1>2. IsSeq(list1) /\ Len(list1) = 3 /\ x \in Made(list1)
  <2>1. IsSeq(list1) /\ Len(list1) = 3 /\ list1[2] = Code!At(x)
    BY DEF IsSeq
  <2> HIDE DEF list1
  <2>2. 2 \in 1 .. Len(list1)
    BY <2>1
  <2> QED
    BY <2>1, <2>2, MadeAt
<1>3. ASSUME NEW K, x \in K PROVE AllFine(list1, K)
  <2>1. Fine(Code!Fall(x), K) /\ Fine(Code!At(x), K) /\ Fine(Code!Emit(Code!Mark(Code!Enter(n))), K)
    BY <1>3, FineFall, FineTasks
  <2>2. \A i \in 1 .. 3 : Fine(list1[i], K)
    BY <2>1
  <2> HIDE DEF list1
  <2> QED
    BY <1>2, <2>2 DEF AllFine
<1> HIDE DEF list1
<1>4. /\ IsSeq(list2)
      /\ \A i \in DOMAIN code_prog.node[n].kids :
           LabelsUnder(code_prog.node[n].kids[i]) \subseteq Made(list2)
      /\ \A K : AllFine(list2, K)
  BY KidsSettle
<1> HIDE DEF list2
<1>5. IsSeq(list1 \o list2) /\ Made(list1 \o list2) = Made(list1) \cup Made(list2)
      /\ \A K : AllFine(list1 \o list2, K) <=> AllFine(list1, K) /\ AllFine(list2, K)
  BY <1>2, <1>4, ConcatIs, MadeConcat, FineConcat
<1>6. ASSUME NEW y \in LabelsUnder(n) PROVE y \in Made(list1 \o list2)
  BY <1>2, <1>4, <1>5, <1>6, LabelsUnderIs DEF x
<1>7. ASSUME NEW K, Made(list1 \o list2) \subseteq K PROVE AllFine(list1 \o list2, K)
  BY <1>2, <1>3, <1>4, <1>5, <1>7
<1> QED
  BY <1>1, <1>5, <1>6, <1>7 DEF Settled

LEMMA SettledSimple ==
  ASSUME Legal, NEW n \in DOMAIN code_prog.node, code_prog.node[n].kind = "simple"
  PROVE  Settled(n, << Code!Eval(code_prog.node[n].expr) >>)
<1> DEFINE e == code_prog.node[n].expr
           list == << Code!Eval(e) >>
<1>1. IsSeq(list) /\ Len(list) = 1 /\ list[1] = Code!Eval(e)
  BY DEF IsSeq
<1> HIDE DEF list, e
<1>2. \A K : AllFine(list, K)
  BY <1>1, FineTasks DEF AllFine
<1>3. LabelsUnder(n) \subseteq Made(list)
  BY LabelsUnderIs DEF Loops
<1>4. Settled(n, list)
  BY <1>1, <1>2, <1>3 DEF Settled
<1> QED
  BY <1>4 DEF list, e

LEMMA SettledReturn ==
  ASSUME Legal, NEW n \in DOMAIN code_prog.node, code_prog.node[n].kind = "return"
  PROVE  Settled(n, Code!LowerReturn(n))
<1> DEFINE list == << Code!Eval(code_prog.node[n].expr), Code!Emit(Code!Ret),
                      Code!At(<<n, "dead">>) >>
<1>1. IsSeq(list) /\ Len(list) = 3
  BY DEF IsSeq
<1>2. \A K : /\ Fine(Code!Eval(code_prog.node[n].expr), K) /\ Fine(Code!Emit(Code!Ret), K)
             /\ Fine(Code!At(<<n, "dead">>), K)
  BY FineTasks
<1>3. \A K : \A i \in 1 .. 3 : Fine(list[i], K)
  BY <1>2
<1>4. Code!LowerReturn(n) = list
  BY DEF Code!LowerReturn
<1> HIDE DEF list
<1>5. \A K : AllFine(list, K)
  BY <1>1, <1>3 DEF AllFine
<1>6. LabelsUnder(n) \subseteq Made(list)
  BY LabelsUnderIs DEF Loops
<1> QED
  BY <1>1, <1>4, <1>5, <1>6 DEF Settled

LEMMA SettledGoto ==
  ASSUME Legal, NEW n \in DOMAIN code_prog.node, code_prog.node[n].kind = "goto",
         LabelOf(code_prog, n) \in DOMAIN code
  PROVE  Settled(n, Code!LowerGoto(n))
<1> DEFINE y == LabelOf(code_prog, n)
           list1 == << Code!Fall(y) >>
           list2 == << Code!At(<<n, "dead">>) >>
<1>1. Code!LowerGoto(n) = list1 \o list2
  <2>1. Code!LabelBlock(Code!Root(code_prog, n), code_prog.node[n].name) = y
    BY SameSyntax DEF Code!LabelBlock, LabelOf
  <2>2. Code!LowerGoto(n) = (IF y \in DOMAIN code THEN list1 ELSE <<>>) \o list2
    BY <2>1 DEF Code!LowerGoto
  <2> QED
    BY <2>2
<1>2. y \in DOMAIN code
  OBVIOUS
<1> HIDE DEF y
<1>3. IsSeq(list1) /\ Len(list1) = 1 /\ list1[1] = Code!Fall(y)
      /\ IsSeq(list2) /\ Len(list2) = 1 /\ list2[1] = Code!At(<<n, "dead">>)
  BY DEF IsSeq
<1> HIDE DEF list1, list2
<1>4. ASSUME NEW K, DOMAIN code \subseteq K PROVE AllFine(list1, K) /\ AllFine(list2, K)
  <2>1. Fine(Code!Fall(y), K) /\ Fine(Code!At(<<n, "dead">>), K)
    BY <1>2, <1>4, FineFall, FineTasks
  <2> QED
    BY <1>3, <2>1 DEF AllFine
<1>5. IsSeq(list1 \o list2)
      /\ \A K : AllFine(list1 \o list2, K) <=> AllFine(list1, K) /\ AllFine(list2, K)
  BY <1>3, ConcatIs, FineConcat
<1>6. LabelsUnder(n) \subseteq Made(list1 \o list2)
  BY LabelsUnderIs DEF Loops
<1>7. ASSUME NEW K, DOMAIN code \subseteq K PROVE AllFine(list1 \o list2, K)
  BY <1>4, <1>5, <1>7
<1> QED
  BY <1>1, <1>5, <1>6, <1>7 DEF Settled

LEMMA SettledJump ==
  ASSUME Legal, NEW n \in DOMAIN code_prog.node,
         \/ code_prog.node[n].kind = "break" /\ Code!Lower(n) = Code!JumpTo(breakTo)
         \/ code_prog.node[n].kind = "continue" /\ Code!Lower(n) = Code!JumpTo(continueTo)
  PROVE  Settled(n, Code!Lower(n))
<1>1. PICK targets \in {breakTo, continueTo} : Code!Lower(n) = Code!JumpTo(targets)
  OBVIOUS
<1>2. \A x : x \in LabelsUnder(n) => FALSE
  BY LabelsUnderIs DEF Loops
<1>3. CASE targets = <<>>
  <2>1. Code!Lower(n) = <<>> /\ IsSeq(<<>>) /\ Len(<<>>) = 0
    BY <1>1, <1>3 DEF Code!JumpTo, IsSeq
  <2>2. \A K : AllFine(<<>>, K)
    BY <2>1 DEF AllFine
  <2> QED
    BY <1>2, <2>1, <2>2 DEF Settled
<1>4. CASE targets # <<>>
  <2> DEFINE i == Code!Br({targets[Len(targets)]})
             list == << Code!Emit(i) >>
  <2>1. Code!Lower(n) = list
    BY <1>1, <1>4 DEF Code!JumpTo
  <2>2. ASSUME NEW K, targets \in Seq(K) PROVE Fine(Code!Emit(i), K)
    <3>1. targets[Len(targets)] \in K
      BY <1>4, <2>2
    <3> QED
      BY <3>1, FineBr
  <2> HIDE DEF i
  <2>3. IsSeq(list) /\ Len(list) = 1 /\ list[1] = Code!Emit(i)
    BY DEF IsSeq
  <2> HIDE DEF list
  <2>4. ASSUME NEW K, breakTo \in Seq(K \cap Plain), continueTo \in Seq(K \cap Plain)
        PROVE  AllFine(list, K)
    <3>1. targets \in Seq(K \cap Plain)
      BY <2>4
    <3>2. targets \in Seq(K)
      BY <3>1
    <3> QED
      BY <2>2, <2>3, <3>2 DEF AllFine
  <2> QED
    BY <1>2, <2>1, <2>3, <2>4 DEF Settled
<1> QED
  BY <1>3, <1>4

LEMMA FineHeld ==
  ASSUME NEW q, NEW K
  PROVE  AllFine(q, K) <=> \A x : Has(q, x) => Fine(x, K)
BY DEF AllFine, Has

LEMMA HeldAt ==
  ASSUME NEW q, NEW x, Has(q, Code!At(x))
  PROVE  x \in Made(q)
BY MadeAt DEF Has

LEMMA SettledSwitch ==
  ASSUME Legal, NEW n \in DOMAIN code_prog.node, code_prog.node[n].kind = "switch"
  PROVE  Settled(n, Code!LowerSwitch(n))
<1> DEFINE node == code_prog.node[n]
           kids == node.kids
           len == Len(kids)
           q == CaseLists(n)
           head == SwitchHead(n)
           end == SwitchEnd(n)
           bs == {<<n, "case", i>> : i \in node.entries}
                 \cup IF node.dflt THEN {} ELSE {<<n, "exit">>}
<1>1. /\ len \in Nat /\ DOMAIN kids = 1 .. len /\ node.entries \subseteq 1 .. len
  <2>1. node \in Node /\ node.entries \subseteq DOMAIN kids
    BY TreeIs DEF Legal, WellFormed
  <2> QED
    BY <2>1 DEF Node
<1>2. PICK f : /\ Joined(f, q, len)
               /\ Code!LowerSwitch(n) = (head \o f[len]) \o end
  BY <1>1, SwitchIs
<1>3. /\ IsSeq(head) /\ Len(head) = 3 /\ IsSeq(end) /\ Len(end) = 3
      /\ head[1] = Code!Eval(node.expr) /\ head[2] = Code!SwitchTarget(<<n, "exit">>)
      /\ head[3] = Code!Emit(Code!Br(bs))
      /\ end[1] = Code!Fall(<<n, "exit">>) /\ end[2] = Code!DropTargets(0)
      /\ end[3] = Code!At(<<n, "exit">>)
  BY DEF SwitchHead, SwitchEnd, IsSeq
<1>4. ASSUME NEW i \in 1 .. len
      PROVE  /\ IsSeq(q[i])
             /\ i \in node.entries => Has(q[i], Code!At(<<n, "case", i>>))
             /\ \A K : (i \in node.entries => <<n, "case", i>> \in K) => AllFine(q[i], K)
  <2>1. CASE i \in node.entries
    <3> DEFINE x == <<n, "case", i>>
               list == << Code!Fall(x), Code!At(x), Code!Stmt(kids[i]) >>
    <3>1. q[i] = list
      BY <2>1 DEF CaseLists
    <3>2. \A K : x \in K =>
            Fine(Code!Fall(x), K) /\ Fine(Code!At(x), K) /\ Fine(Code!Stmt(kids[i]), K)
      BY FineFall, FineTasks
    <3> HIDE DEF x, kids
    <3>3. /\ IsSeq(list) /\ Len(list) = 3 /\ list[2] = Code!At(x)
          /\ \A K : x \in K => \A j \in 1 .. 3 : Fine(list[j], K)
      BY <3>2 DEF IsSeq
    <3> HIDE DEF list, q
    <3>4. IsSeq(q[i]) /\ Has(q[i], Code!At(x)) /\ \A K : x \in K => AllFine(q[i], K)
      BY <3>1, <3>3 DEF Has, AllFine
    <3> QED
      BY <2>1, <3>4 DEF x
  <2>2. CASE i \notin node.entries
    <3> DEFINE list == << Code!Stmt(kids[i]) >>
    <3>1. q[i] = list
      BY <2>2 DEF CaseLists
    <3>2. \A K : Fine(Code!Stmt(kids[i]), K)
      BY FineTasks
    <3> HIDE DEF kids
    <3>3. IsSeq(list) /\ Len(list) = 1 /\ \A K : \A j \in 1 .. 1 : Fine(list[j], K)
      BY <3>2 DEF IsSeq
    <3> HIDE DEF list, q
    <3>4. IsSeq(q[i]) /\ \A K : AllFine(q[i], K)
      BY <3>1, <3>3 DEF AllFine
    <3> QED
      BY <2>2, <3>4
  <2> QED
    BY <2>1, <2>2
<1> HIDE DEF q, head, end
<1>5. IsSeq(f[len])
  <2>1. \A i \in 1 .. len : IsSeq(q[i])
    BY <1>4
  <2>2. \A i \in 0 .. len : IsSeq(f[i])
    BY <1>1, <1>2, <2>1, JoinIsSeq
  <2> QED
    BY <1>1, <2>2
<1>6. \A x : Has(f[len], x) <=> \E j \in 1 .. len : Has(q[j], x)
  <2> HIDE DEF node, kids, len
  <2> SUFFICES ASSUME NEW x PROVE Has(f[len], x) <=> \E j \in 1 .. len : Has(q[j], x)
    OBVIOUS
  <2>1. \A i \in 1 .. len : IsSeq(q[i])
    BY <1>4
  <2>2. \A i \in 0 .. len : Has(f[i], x) <=> \E j \in 1 .. i : Has(q[j], x)
    BY <1>1, <1>2, <2>1, HoldsJoined
  <2> QED
    BY <1>1, <2>2
<1>7. ASSUME NEW i \in node.entries PROVE <<n, "case", i>> \in Made(f[len])
  <2>1. Has(f[len], Code!At(<<n, "case", i>>))
    BY <1>1, <1>4, <1>6
  <2> QED
    BY <2>1, HeldAt
<1>8. <<n, "exit">> \in Made(end)
  <2>1. 3 \in 1 .. Len(end)
    BY <1>3
  <2> QED
    BY <1>3, <2>1, MadeAt
<1>9. ASSUME NEW K, \A i \in node.entries : <<n, "case", i>> \in K PROVE AllFine(f[len], K)
  <2>1. ASSUME NEW x, Has(f[len], x) PROVE Fine(x, K)
    <3>1. PICK j \in 1 .. len : Has(q[j], x)
      BY <1>6, <2>1
    <3>2. AllFine(q[j], K)
      BY <1>4, <1>9
    <3> QED
      BY <3>1, <3>2, FineHeld
  <2> QED
    BY <2>1, FineHeld
<1>10. ASSUME NEW K, \A i \in node.entries : <<n, "case", i>> \in K, <<n, "exit">> \in K
       PROVE  AllFine(head, K) /\ AllFine(end, K)
  <2>1. bs \subseteq K
    BY <1>10
  <2>2. <<n, "exit">> \in Plain
    BY DEF Plain, Roles
  <2> HIDE DEF bs
  <2>3. /\ Fine(Code!Eval(node.expr), K) /\ Fine(Code!SwitchTarget(<<n, "exit">>), K)
        /\ Fine(Code!Emit(Code!Br(bs)), K) /\ Fine(Code!Fall(<<n, "exit">>), K)
        /\ Fine(Code!DropTargets(0), K) /\ Fine(Code!At(<<n, "exit">>), K)
    BY <1>10, <2>1, <2>2, FineTasks, FineBr, FineFall, FineTargets
  <2> DEFINE xs == <<n, "exit">>
  <2> HIDE DEF node, bs, xs
  <2>4. Fine(head[1], K) /\ Fine(head[2], K) /\ Fine(head[3], K)
    BY <1>3, <2>3 DEF xs
  <2>5. Fine(end[1], K) /\ Fine(end[2], K) /\ Fine(end[3], K)
    BY <1>3, <2>3 DEF xs
  <2>6. Len(head) = 3 /\ Len(end) = 3
    BY <1>3
  <2> QED
    BY <2>4, <2>5, <2>6 DEF AllFine
<1> DEFINE g == f[len]
<1>11. /\ IsSeq(g) /\ (\A i \in node.entries : <<n, "case", i>> \in Made(g))
       /\ \A K : (\A i \in node.entries : <<n, "case", i>> \in K) => AllFine(g, K)
       /\ Code!LowerSwitch(n) = (head \o g) \o end
  BY <1>2, <1>5, <1>7, <1>9
<1> HIDE DEF g
<1> DEFINE both == head \o g
<1>12. IsSeq(both) /\ Made(both) = Made(head) \cup Made(g)
       /\ \A K : AllFine(both, K) <=> AllFine(head, K) /\ AllFine(g, K)
  BY <1>3, <1>11, ConcatIs, MadeConcat, FineConcat
<1>13. Code!LowerSwitch(n) = both \o end
  BY <1>11
<1> HIDE DEF both
<1>14. IsSeq(both \o end) /\ Made(both \o end) = Made(both) \cup Made(end)
       /\ \A K : AllFine(both \o end, K) <=> AllFine(both, K) /\ AllFine(end, K)
  BY <1>3, <1>12, ConcatIs, MadeConcat, FineConcat
<1>15. LabelsUnder(n) \subseteq Made(both \o end)
  BY LabelsUnderIs DEF Loops
<1>16. ASSUME NEW K, Made(both \o end) \subseteq K PROVE AllFine(both \o end, K)
  <2>1. (\A i \in node.entries : <<n, "case", i>> \in K) /\ <<n, "exit">> \in K
    BY <1>8, <1>11, <1>12, <1>14, <1>16
  <2>2. AllFine(head, K) /\ AllFine(end, K) /\ AllFine(g, K)
    BY <1>10, <1>11, <2>1
  <2> QED
    BY <1>12, <1>14, <2>2
<1> QED
  BY <1>13, <1>14, <1>15, <1>16 DEF Settled

\* Whatever a statement is, what it is lowered to names only blocks that get made.
LEMMA SettledLower ==
  ASSUME Legal, NEW n \in DOMAIN code_prog.node,
         code_prog.node[n].kind = "goto" => LabelOf(code_prog, n) \in DOMAIN code
  PROVE  Settled(n, Code!Lower(n))
<1> DEFINE kind == code_prog.node[n].kind
<1>1. kind \in Kinds
  BY LowerIs
<1>2. CASE kind = "simple"
  BY <1>2, LowerIs, SettledSimple
<1>3. CASE kind = "compound"
  BY <1>3, LowerIs, SettledCompound
<1>4. CASE kind = "if"
  <2>1. Len(code_prog.node[n].kids) \in {1, 2}
    BY <1>4 DEF Legal, WellFormed
  <2> QED
    BY <1>4, <2>1, LowerIs, SettledIfThen, SettledIfElse
<1>5. CASE kind = "for"
  BY <1>5, LowerIs, SettledFor
<1>6. CASE kind = "while"
  BY <1>6, LowerIs, SettledWhile
<1>7. CASE kind = "dowhile"
  BY <1>7, LowerIs, SettledDoWhile
<1>8. CASE kind = "switch"
  BY <1>8, LowerIs, SettledSwitch
<1>9. CASE kind = "try"
  BY <1>9, LowerIs, SettledTry
<1>10. CASE kind = "label"
  BY <1>10, LowerIs, SettledLabel
<1>11. CASE kind = "goto"
  BY <1>11, LowerIs, SettledGoto
<1>12. CASE kind = "return"
  BY <1>12, LowerIs, SettledReturn
<1>13. CASE kind \in {"break", "continue"}
  BY <1>13, LowerIs, SettledJump
<1> QED
  BY <1>1, <1>2, <1>3, <1>4, <1>5, <1>6, <1>7, <1>8, <1>9, <1>10, <1>11, <1>12, <1>13
     DEF Kinds, Loops

-----------------------------------------------------------------------------
(* The invariant of the compiler.                                          *)

\* Block x ends the way a block must.
Closed(c, x) == c[x] # <<>> /\ Ending(c[x][Len(c[x])])

\* No block of the code goes on after its end.
Built(c) ==
  \A x \in DOMAIN c : /\ IsSeq(c[x])
                      /\ \A i \in 1 .. Len(c[x]) : Ending(c[x][i]) => i = Len(c[x])

\* The blocks there are or will be.
KnownIn(q, c) == DOMAIN c \cup Made(q)

\* The code c names only blocks of K.
AllNamed(c, K) == \A x \in DOMAIN c : \A i \in 1 .. Len(c[x]) : NamesIn(c[x][i], K)

\* A task of the list names only known blocks; labels are scanned just before their
\* body is lowered.
TaskOk(q, i, K) ==
  \/ Fine(q[i], K)
  \/ /\ q[i][1] = "labels" /\ q[i][2] \in DOMAIN code_prog.node
     /\ code_prog.node[q[i][2]].up = 0
     /\ i < Len(q) /\ q[i + 1] = Code!Stmt(q[i][2])

TodoOk(q, K) == \A i \in 1 .. Len(q) : TaskOk(q, i, K)

\* Every block but the one written to is closed, or still to be opened.
Unmade(q, c, x) == \A y \in DOMAIN c : y = x \/ Closed(c, y) \/ y \in Made(q)

\* The code and the targets are as state s tells.
Now(s, c, x, b, d) ==
  /\ s.o = "open" => x \in DOMAIN c /\ ~ Closed(c, x)
  /\ s.o = "closed" /\ x \in DOMAIN c => Closed(c, x)
  /\ s.b = b /\ s.c = d
  /\ \A m \in DOMAIN code_prog.node :
       code_prog.node[m].kind = "label" /\ Root(code_prog, m) \in s.l =>
         LabelOf(code_prog, m) \in DOMAIN c
  /\ \A y \in DOMAIN c : y \in s.u \/ (c[y] = <<>> /\ y # x)

\* What has an entry block.
Roots == Code!Bodies \cup {code_prog.top}

EntryOf(r) == <<r, "entry">>

\* The entry blocks of all functions are in K.
Entries(K) == \A r \in Roots : EntryOf(r) \in K

\* What is left to do can be done, and leaves the last block closed.
Follows(q, c, x, b, d) ==
  \E s, e : /\ Path(code_prog, q, s, e) /\ Now(s, c, x, b, d)
            /\ e.o = "closed" /\ e.b = <<>> /\ e.c = <<>>

\* The invariant while code is generated: tasks q, code c, insertion block x, targets
\* of break b and of continue d.
Compiling(q, c, x, b, d) ==
  /\ IsSeq(q) /\ Built(c) /\ Unmade(q, c, x)
  /\ AllNamed(c, KnownIn(q, c)) /\ TodoOk(q, KnownIn(q, c)) /\ Entries(KnownIn(q, c))
  /\ b \in Seq(KnownIn(q, c) \cap Plain) /\ d \in Seq(KnownIn(q, c) \cap Plain)
  /\ x \in DOMAIN c \/ (q # <<>> /\ q[1][1] = "at")
  /\ Follows(q, c, x, b, d)

LEMMA EndedIs ==
  ASSUME NEW x
  PROVE  Code!Terminated(x) <=> Closed(code, x)
BY DEF Code!Terminated, Code!Last, Code!Terminators, Closed, Ending

LEMMA NamesMore ==
  ASSUME NEW i, NEW K, NEW L, K \subseteq L, NamesIn(i, K)
  PROVE  NamesIn(i, L)
BY DEF NamesIn

LEMMA SeqMore ==
  ASSUME NEW K, NEW L, K \subseteq L, NEW b \in Seq(K \cap Plain)
  PROVE  b \in Seq(L \cap Plain)
OBVIOUS

LEMMA FineMore ==
  ASSUME NEW t, NEW K, NEW L, K \subseteq L, Fine(t, K)
  PROVE  Fine(t, L)
<1>1. CASE t[1] = "targets" /\ t[2] \in K \cap Plain /\ t[3] \in Seq(K \cap Plain)
  <2>1. t[3] \in Seq(L \cap Plain)
    BY <1>1, SeqMore
  <2> QED
    BY <1>1, <2>1 DEF Fine
<1>2. CASE t[1] \in {"stmt", "eval", "at"} \/ (t[1] = "drop" /\ t[2] \in {0, 1})
  BY <1>2 DEF Fine
<1>3. CASE t[1] = "emit" /\ NamesIn(t[2], K)
  BY <1>3, NamesMore DEF Fine
<1>4. CASE t[1] = "open" /\ \A i \in 1 .. Len(t[2]) : NamesIn(t[2][i], K)
  <2>1. \A i \in 1 .. Len(t[2]) : NamesIn(t[2][i], L)
    BY <1>4, NamesMore
  <2> QED
    BY <1>4, <2>1 DEF Fine
<1> QED
  BY <1>1, <1>2, <1>3, <1>4 DEF Fine

LEMMA TodoTail ==
  ASSUME NEW q, IsSeq(q), q # <<>>, NEW K, NEW L, K \subseteq L, TodoOk(q, K)
  PROVE  TodoOk(Tail(q), L)
<1>1. /\ Len(q) \in Nat /\ Len(q) >= 1 /\ Len(Tail(q)) = Len(q) - 1
      /\ \A i \in 1 .. Len(q) - 1 : Tail(q)[i] = q[i + 1]
  BY SeqIs, TailSeq
<1> SUFFICES ASSUME NEW i \in 1 .. Len(Tail(q)) PROVE TaskOk(Tail(q), i, L)
  BY DEF TodoOk
<1>2. i \in 1 .. Len(q) - 1 /\ i + 1 \in 1 .. Len(q)
  BY <1>1
<1>3. TaskOk(q, i + 1, K) /\ Tail(q)[i] = q[i + 1]
  BY <1>1, <1>2 DEF TodoOk
<1>4. CASE Fine(q[i + 1], K)
  BY <1>3, <1>4, FineMore DEF TaskOk
<1>5. CASE ~ Fine(q[i + 1], K)
  <2>1. /\ q[i + 1][1] = "labels" /\ q[i + 1][2] \in DOMAIN code_prog.node
        /\ code_prog.node[q[i + 1][2]].up = 0
        /\ i + 1 < Len(q) /\ q[(i + 1) + 1] = Code!Stmt(q[i + 1][2])
    BY <1>3, <1>5 DEF TaskOk
  <2>2. i + 1 \in 1 .. Len(q) - 1
    BY <1>1, <1>2, <2>1
  <2>3. Tail(q)[i + 1] = q[(i + 1) + 1] /\ i < Len(Tail(q))
    BY <1>1, <2>1, <2>2
  <2> QED
    BY <1>3, <2>1, <2>3 DEF TaskOk
<1> QED
  BY <1>4, <1>5

LEMMA TodoConcat ==
  ASSUME NEW q, IsSeq(q), NEW r, IsSeq(r), NEW K, TodoOk(q, K), TodoOk(r, K)
  PROVE  TodoOk(q \o r, K)
<1>1. /\ Len(q) \in Nat /\ Len(r) \in Nat /\ Len(q \o r) = Len(q) + Len(r)
      /\ \A i \in 1 .. Len(q) : (q \o r)[i] = q[i]
      /\ \A i \in 1 .. Len(r) : (q \o r)[Len(q) + i] = r[i]
  BY SeqIs, ConcatIs
<1> SUFFICES ASSUME NEW i \in 1 .. Len(q \o r) PROVE TaskOk(q \o r, i, K)
  BY DEF TodoOk
<1>2. CASE i <= Len(q)
  <2>1. i \in 1 .. Len(q) /\ (q \o r)[i] = q[i]
    BY <1>1, <1>2
  <2>2. TaskOk(q, i, K)
    BY <2>1 DEF TodoOk
  <2>3. i < Len(q) => (q \o r)[i + 1] = q[i + 1] /\ i < Len(q \o r)
    <3> SUFFICES ASSUME i < Len(q) PROVE (q \o r)[i + 1] = q[i + 1] /\ i < Len(q \o r)
      OBVIOUS
    <3>1. i + 1 \in 1 .. Len(q)
      BY <1>1
    <3> QED
      BY <1>1, <3>1
  <2> QED
    BY <2>1, <2>2, <2>3 DEF TaskOk
<1>3. CASE i > Len(q)
  <2> DEFINE j == i - Len(q)
  <2>1. j \in 1 .. Len(r) /\ i = Len(q) + j /\ i + 1 = Len(q) + (j + 1)
    BY <1>1, <1>3
  <2> HIDE DEF j
  <2>2. TaskOk(r, j, K) /\ (q \o r)[i] = r[j]
    BY <1>1, <2>1 DEF TodoOk
  <2>3. j < Len(r) => (q \o r)[i + 1] = r[j + 1] /\ i < Len(q \o r)
    <3> SUFFICES ASSUME j < Len(r) PROVE (q \o r)[i + 1] = r[j + 1] /\ i < Len(q \o r)
      OBVIOUS
    <3>1. j + 1 \in 1 .. Len(r)
      BY <1>1, <2>1
    <3> QED
      BY <1>1, <2>1, <3>1
  <2> QED
    BY <2>1, <2>2, <2>3 DEF TaskOk
<1> QED
  BY <1>1, <1>2, <1>3

LEMMA NamedMore ==
  ASSUME NEW c, NEW K, NEW L, K \subseteq L, AllNamed(c, K)
  PROVE  AllNamed(c, L)
BY NamesMore DEF AllNamed

LEMMA EntriesMore ==
  ASSUME NEW K, NEW L, K \subseteq L, Entries(K)
  PROVE  Entries(L)
BY DEF Entries

LEMMA AllFineOk ==
  ASSUME NEW q, NEW K, AllFine(q, K)
  PROVE  TodoOk(q, K)
BY DEF AllFine, TodoOk, TaskOk

\* Instructions q at the end of block x.
Adds(c, x, q) == [c EXCEPT ![x] = c[x] \o q]

\* d is c with q at the end of x.
Grown(c, d, x, q) ==
  /\ Built(d) /\ DOMAIN d = DOMAIN c
  /\ \A y \in DOMAIN c : y # x => d[y] = c[y]
  /\ Closed(d, x) <=> (IF q = <<>> THEN Closed(c, x) ELSE Ending(q[Len(q)]))
  /\ \A K : AllNamed(c, K) /\ (\A i \in 1 .. Len(q) : NamesIn(q[i], K)) => AllNamed(d, K)

\* A block that is open grows.
LEMMA Grows ==
  ASSUME NEW c, Built(c), NEW x \in DOMAIN c, NEW q, IsSeq(q), q = <<>> \/ ~ Closed(c, x),
         \A i \in 1 .. Len(q) : Ending(q[i]) => i = Len(q)
  PROVE  Grown(c, Adds(c, x, q), x, q)
<1> DEFINE d == Adds(c, x, q)
<1>1. /\ DOMAIN d = DOMAIN c /\ d[x] = c[x] \o q
      /\ \A y \in DOMAIN c : y # x => d[y] = c[y]
  BY DEF Adds
<1> HIDE DEF d
<1>2. /\ IsSeq(c[x]) /\ Len(c[x]) \in Nat /\ Len(q) \in Nat
      /\ (c[x] = <<>> <=> Len(c[x]) = 0) /\ (q = <<>> <=> Len(q) = 0)
      /\ \A i \in 1 .. Len(c[x]) : Ending(c[x][i]) => i = Len(c[x])
  <2>1. IsSeq(c[x]) /\ \A i \in 1 .. Len(c[x]) : Ending(c[x][i]) => i = Len(c[x])
    BY DEF Built
  <2> QED
    BY <2>1, SeqIs
<1> DEFINE s == c[x]
           t == d[x]
<1>3. /\ IsSeq(t) /\ Len(t) = Len(s) + Len(q) /\ (t = <<>> <=> Len(t) = 0)
      /\ \A i \in 1 .. Len(s) : t[i] = s[i]
      /\ \A i \in 1 .. Len(q) : t[Len(s) + i] = q[i]
  <2>1. IsSeq(s)
    BY <1>2
  <2>2. t = s \o q
    BY <1>1
  <2> HIDE DEF s, t
  <2>3. /\ IsSeq(t) /\ Len(t) = Len(s) + Len(q)
        /\ \A i \in 1 .. Len(s) : t[i] = s[i]
        /\ \A i \in 1 .. Len(q) : t[Len(s) + i] = q[i]
    BY <2>1, <2>2, ConcatIs
  <2>4. t = <<>> <=> Len(t) = 0
    BY <2>3, SeqIs
  <2> QED
    BY <2>3, <2>4
<1>4. /\ Closed(c, x) <=> (Len(s) # 0 /\ Ending(s[Len(s)]))
      /\ Closed(d, x) <=> (Len(t) # 0 /\ Ending(t[Len(t)]))
  <2>1. (s = <<>> <=> Len(s) = 0) /\ (t = <<>> <=> Len(t) = 0)
    BY <1>2, <1>3
  <2>2. /\ Closed(c, x) <=> (s # <<>> /\ Ending(s[Len(s)]))
        /\ Closed(d, x) <=> (t # <<>> /\ Ending(t[Len(t)]))
    BY DEF Closed
  <2> HIDE DEF s, t
  <2> QED
    BY <2>1, <2>2
<1>5. /\ Len(s) \in Nat /\ \A i \in 1 .. Len(s) : Ending(s[i]) => i = Len(s)
  BY <1>2
<1> HIDE DEF s, t
<1>6. ASSUME NEW i \in 1 .. Len(t), Ending(t[i]) PROVE i = Len(t)
  <2>1. CASE i <= Len(s)
    <3>1. i \in 1 .. Len(s)
      BY <1>2, <1>3, <1>5, <2>1
    <3>2. t[i] = s[i]
      BY <1>3, <3>1
    <3>3. i = Len(s)
      BY <1>5, <1>6, <3>1, <3>2
    <3>4. Closed(c, x)
      BY <1>4, <1>6, <3>1, <3>2, <3>3
    <3>5. Len(q) = 0
      BY <1>2, <3>4
    <3> QED
      BY <1>3, <1>5, <3>3, <3>5
  <2>2. CASE i > Len(s)
    <3>1. i - Len(s) \in 1 .. Len(q) /\ i = Len(s) + (i - Len(s))
      BY <1>2, <1>3, <1>5, <2>2
    <3>2. t[i] = q[i - Len(s)]
      BY <1>3, <3>1
    <3>3. i - Len(s) = Len(q)
      BY <1>6, <3>1, <3>2
    <3> QED
      BY <1>2, <1>3, <1>5, <3>1, <3>3
  <2> QED
    BY <1>2, <1>3, <1>5, <2>1, <2>2
<1>7. Built(d)
  <2> SUFFICES ASSUME NEW y \in DOMAIN d
               PROVE  IsSeq(d[y]) /\ \A i \in 1 .. Len(d[y]) : Ending(d[y][i]) => i = Len(d[y])
    BY DEF Built
  <2>1. CASE y = x
    BY <1>3, <1>6, <2>1 DEF t
  <2>2. CASE y # x
    BY <1>1, <2>2 DEF Built
  <2> QED
    BY <2>1, <2>2
<1>8. Closed(d, x) <=> (IF q = <<>> THEN Closed(c, x) ELSE Ending(q[Len(q)]))
  <2>1. CASE q = <<>>
    <3>1. Len(t) = Len(s)
      BY <1>2, <1>3, <1>5, <2>1
    <3>2. CASE Len(s) = 0
      BY <1>4, <2>1, <3>1, <3>2
    <3>3. CASE Len(s) # 0
      <4>1. Len(s) \in 1 .. Len(s)
        BY <1>5, <3>3
      <4>2. t[Len(s)] = s[Len(s)]
        BY <1>3, <4>1
      <4> QED
        BY <1>4, <2>1, <3>1, <4>2
    <3> QED
      BY <3>2, <3>3
  <2>2. CASE q # <<>>
    <3>1. Len(q) \in 1 .. Len(q) /\ Len(t) # 0
      BY <1>2, <1>3, <1>5, <2>2
    <3>2. t[Len(t)] = q[Len(q)]
      BY <1>3, <3>1
    <3> QED
      BY <1>4, <2>2, <3>1, <3>2
  <2> QED
    BY <2>1, <2>2
<1>9. ASSUME NEW K, AllNamed(c, K), \A i \in 1 .. Len(q) : NamesIn(q[i], K)
      PROVE  AllNamed(d, K)
  <2>1. ASSUME NEW i \in 1 .. Len(t) PROVE NamesIn(t[i], K)
    <3>1. CASE i <= Len(s)
      <4>1. i \in 1 .. Len(s)
        BY <1>2, <1>3, <1>5, <3>1
      <4>2. t[i] = s[i] /\ NamesIn(s[i], K)
        BY <1>3, <1>9, <4>1 DEF AllNamed, s
      <4> QED
        BY <4>2
    <3>2. CASE i > Len(s)
      <4>1. i - Len(s) \in 1 .. Len(q) /\ i = Len(s) + (i - Len(s))
        BY <1>2, <1>3, <1>5, <3>2
      <4>2. t[i] = q[i - Len(s)]
        BY <1>3, <4>1
      <4> QED
        BY <1>9, <4>1, <4>2
    <3> QED
      BY <1>2, <1>3, <1>5, <3>1, <3>2
  <2>2. ASSUME NEW y \in DOMAIN d, NEW i \in 1 .. Len(d[y]) PROVE NamesIn(d[y][i], K)
    <3>1. CASE y = x
      BY <2>1, <2>2, <3>1 DEF t
    <3>2. CASE y # x
      <4>1. d[y] = c[y] /\ y \in DOMAIN c
        BY <1>1, <3>2
      <4> QED
        BY <1>9, <2>2, <4>1 DEF AllNamed
    <3> QED
      BY <3>1, <3>2
  <2> QED
    BY <2>2 DEF AllNamed
<1>10. Grown(c, d, x, q)
  BY <1>1, <1>7, <1>8, <1>9 DEF Grown
<1> QED
  BY <1>10 DEF d

\* The blocks of B are made, empty, where they are not there yet.
LEMMA Creates ==
  ASSUME Built(code), NEW B
  PROVE  LET d == Code!Created(B)
         IN  /\ Built(d) /\ DOMAIN d = DOMAIN code \cup B
             /\ \A y \in DOMAIN code : d[y] = code[y]
             /\ \A y \in B : y \notin DOMAIN code => d[y] = <<>>
             /\ \A K : AllNamed(code, K) => AllNamed(d, K)
<1> DEFINE d == Code!Created(B)
<1>1. /\ DOMAIN d = DOMAIN code \cup B /\ \A y \in DOMAIN code : d[y] = code[y]
      /\ \A y \in B : y \notin DOMAIN code => d[y] = <<>>
  BY DEF Code!Created
<1> HIDE DEF d
<1>2. Built(d)
  <2>1. IsSeq(<<>>) /\ 1 .. Len(<<>>) = {}
    BY DEF IsSeq
  <2> QED
    BY <1>1, <2>1 DEF Built
<1>3. ASSUME NEW K, AllNamed(code, K) PROVE AllNamed(d, K)
  <2>1. 1 .. Len(<<>>) = {}
    OBVIOUS
  <2> QED
    BY <1>1, <1>3, <2>1 DEF AllNamed
<1>4. /\ Built(d) /\ DOMAIN d = DOMAIN code \cup B
      /\ \A y \in DOMAIN code : d[y] = code[y]
      /\ \A y \in B : y \notin DOMAIN code => d[y] = <<>>
      /\ \A K : AllNamed(code, K) => AllNamed(d, K)
  BY <1>1, <1>2, <1>3
<1> QED
  BY <1>4 DEF d

-----------------------------------------------------------------------------
(* Every step of the compiler keeps its invariant.                         *)

\* What the invariant says of a list of tasks holds for the code that one of them wrote.
LEMMA Carry ==
  ASSUME NEW q, IsSeq(q), q # <<>>, NEW list, IsSeq(list), NEW c, NEW d,
         DOMAIN c \subseteq DOMAIN d, Makes(q[1]) \subseteq DOMAIN d \cup Made(list)
  PROVE  /\ IsSeq(list \o Tail(q)) /\ IsSeq(Tail(q))
         /\ KnownIn(q, c) \subseteq KnownIn(list \o Tail(q), d)
         /\ Made(list \o Tail(q)) = Made(list) \cup Made(Tail(q))
         /\ Made(q) = Makes(q[1]) \cup Made(Tail(q))
<1>1. IsSeq(Tail(q)) /\ Made(q) = Makes(q[1]) \cup Made(Tail(q))
  BY TailSeq, MadeTail
<1>2. IsSeq(list \o Tail(q)) /\ Made(list \o Tail(q)) = Made(list) \cup Made(Tail(q))
  BY <1>1, ConcatIs, MadeConcat
<1> QED
  BY <1>1, <1>2 DEF KnownIn

\* The same, when that task is gone.
LEMMA CarryTail ==
  ASSUME NEW q, IsSeq(q), q # <<>>, NEW c, NEW d,
         DOMAIN c \subseteq DOMAIN d, Makes(q[1]) \subseteq DOMAIN d
  PROVE  /\ IsSeq(Tail(q)) /\ <<>> \o Tail(q) = Tail(q)
         /\ KnownIn(q, c) \subseteq KnownIn(Tail(q), d)
         /\ Made(q) = Makes(q[1]) \cup Made(Tail(q))
<1>1. IsSeq(Tail(q)) /\ Made(q) = Makes(q[1]) \cup Made(Tail(q))
  BY TailSeq, MadeTail
<1>2. <<>> \o Tail(q) = Tail(q)
  BY <1>1 DEF IsSeq
<1> QED
  BY <1>1, <1>2 DEF KnownIn

\* The head of the list is done: what is left is as sound as before.
LEMMA CarryOk ==
  ASSUME NEW q, NEW c, NEW x, NEW b, NEW d, Compiling(q, c, x, b, d), q # <<>>,
         NEW c2, DOMAIN c \subseteq DOMAIN c2, Makes(q[1]) \subseteq DOMAIN c2
  PROVE  /\ IsSeq(Tail(q)) /\ <<>> \o Tail(q) = Tail(q)
         /\ KnownIn(q, c) \subseteq KnownIn(Tail(q), c2)
         /\ Made(q) = Makes(q[1]) \cup Made(Tail(q))
         /\ TodoOk(Tail(q), KnownIn(Tail(q), c2)) /\ Entries(KnownIn(Tail(q), c2))
         /\ b \in Seq(KnownIn(Tail(q), c2) \cap Plain) /\ d \in Seq(KnownIn(Tail(q), c2) \cap Plain)
<1> DEFINE K == KnownIn(q, c)
           L == KnownIn(Tail(q), c2)
<1>1. /\ IsSeq(q) /\ TodoOk(q, K) /\ Entries(K)
      /\ b \in Seq(K \cap Plain) /\ d \in Seq(K \cap Plain)
  BY DEF Compiling
<1>2. /\ IsSeq(Tail(q)) /\ <<>> \o Tail(q) = Tail(q) /\ K \subseteq L
      /\ Made(q) = Makes(q[1]) \cup Made(Tail(q))
  BY <1>1, CarryTail
<1> HIDE DEF K, L
<1>3. TodoOk(Tail(q), L)
  BY <1>1, <1>2, TodoTail
<1>4. Entries(L)
  BY <1>1, <1>2, EntriesMore
<1>5. b \in Seq(L \cap Plain) /\ d \in Seq(L \cap Plain)
  BY <1>1, <1>2, SeqMore
<1> QED
  BY <1>2, <1>3, <1>4, <1>5 DEF K, L

LEMMA FollowsIs ==
  ASSUME NEW q, NEW c, NEW x, NEW b, NEW d, Compiling(q, c, x, b, d), q # <<>>
  PROVE  \E s, z, e : /\ Passes(code_prog, q[1], s, z) /\ Now(s, c, x, b, d)
                      /\ Path(code_prog, Tail(q), z, e)
                      /\ e.o = "closed" /\ e.b = <<>> /\ e.c = <<>>
<1>1. IsSeq(q) /\ Follows(q, c, x, b, d)
  BY DEF Compiling
<1>2. PICK s, e : /\ Path(code_prog, q, s, e) /\ Now(s, c, x, b, d)
                  /\ e.o = "closed" /\ e.b = <<>> /\ e.c = <<>>
  BY <1>1 DEF Follows
<1>3. PICK z : Passes(code_prog, q[1], s, z) /\ Path(code_prog, Tail(q), z, e)
  BY <1>1, <1>2, PathTail
<1> QED
  BY <1>2, <1>3

\* A task that writes to the insertion block.
LEMMA ExtendStep ==
  ASSUME NEW q, NEW c, NEW x, NEW b, NEW d, Compiling(q, c, x, b, d), q # <<>>,
         q[1][1] \notin {"at", "targets", "drop", "labels"}, Makes(q[1]) = {},
         NEW c2, Built(c2), DOMAIN c2 = DOMAIN c, \A y \in DOMAIN c : y # x => c2[y] = c[y],
         AllNamed(c2, KnownIn(q, c)),
         \A s, z : Passes(code_prog, q[1], s, z) /\ Now(s, c, x, b, d) =>
           (z.o = "open" => ~ Closed(c2, x)) /\ (z.o = "closed" => Closed(c2, x))
  PROVE  Compiling(Tail(q), c2, x, b, d)
<1>1. /\ IsSeq(Tail(q)) /\ KnownIn(q, c) \subseteq KnownIn(Tail(q), c2)
      /\ Made(q) = Makes(q[1]) \cup Made(Tail(q))
      /\ TodoOk(Tail(q), KnownIn(Tail(q), c2)) /\ Entries(KnownIn(Tail(q), c2))
      /\ b \in Seq(KnownIn(Tail(q), c2) \cap Plain) /\ d \in Seq(KnownIn(Tail(q), c2) \cap Plain)
  BY CarryOk
<1>2. AllNamed(c2, KnownIn(Tail(q), c2))
  BY <1>1, NamedMore
<1>3. x \in DOMAIN c /\ Unmade(q, c, x)
  BY DEF Compiling
<1>4. Unmade(Tail(q), c2, x)
  <2>1. \A y \in DOMAIN c : y # x => (Closed(c2, y) <=> Closed(c, y))
    BY DEF Closed
  <2> QED
    BY <1>1, <1>3, <2>1 DEF Unmade
<1>5. Follows(Tail(q), c2, x, b, d)
  <2>1. PICK s, z, e : /\ Passes(code_prog, q[1], s, z) /\ Now(s, c, x, b, d)
                       /\ Path(code_prog, Tail(q), z, e)
                       /\ e.o = "closed" /\ e.b = <<>> /\ e.c = <<>>
    BY FollowsIs
  <2>2. s.u \subseteq z.u /\ z.b = s.b /\ z.c = s.c /\ z.l = s.l
    BY <2>1 DEF Passes
  <2>3. (z.o = "open" => ~ Closed(c2, x)) /\ (z.o = "closed" => Closed(c2, x))
    BY <2>1
  <2>4. Now(z, c2, x, b, d)
    BY <1>3, <2>1, <2>2, <2>3 DEF Now
  <2> QED
    BY <2>1, <2>4 DEF Follows
<1> QED
  BY <1>1, <1>2, <1>3, <1>4, <1>5 DEF Compiling

\* A task that opens a block and makes it the insertion block.
LEMMA AtStep ==
  ASSUME Compiling(todo, code, ins, breakTo, continueTo), todo # <<>>, todo[1][1] = "at"
  PROVE  Compiling(Tail(todo), Code!Created({todo[1][2]}), todo[1][2], breakTo, continueTo)
<1> DEFINE q == todo
           x == todo[1][2]
           c2 == Code!Created({x})
<1>1. Built(code) /\ AllNamed(code, KnownIn(q, code)) /\ Unmade(q, code, ins)
  BY DEF Compiling
<1>2. /\ Built(c2) /\ DOMAIN c2 = DOMAIN code \cup {x}
      /\ \A y \in DOMAIN code : c2[y] = code[y]
      /\ x \notin DOMAIN code => c2[x] = <<>>
      /\ \A K : AllNamed(code, K) => AllNamed(c2, K)
  BY <1>1, Creates
<1>3. Makes(q[1]) = {x}
  BY DEF Makes
<1> HIDE DEF c2, x
<1>4. /\ IsSeq(Tail(q)) /\ KnownIn(q, code) \subseteq KnownIn(Tail(q), c2)
      /\ Made(q) = Makes(q[1]) \cup Made(Tail(q))
      /\ TodoOk(Tail(q), KnownIn(Tail(q), c2)) /\ Entries(KnownIn(Tail(q), c2))
      /\ breakTo \in Seq(KnownIn(Tail(q), c2) \cap Plain)
      /\ continueTo \in Seq(KnownIn(Tail(q), c2) \cap Plain)
  BY <1>2, <1>3, CarryOk
<1>5. AllNamed(c2, KnownIn(Tail(q), c2))
  <2>1. AllNamed(c2, KnownIn(q, code))
    BY <1>1, <1>2
  <2> QED
    BY <1>4, <2>1, NamedMore
<1>6. PICK s, z, e : /\ Passes(code_prog, q[1], s, z) /\ Now(s, code, ins, breakTo, continueTo)
                     /\ Path(code_prog, Tail(q), z, e)
                     /\ e.o = "closed" /\ e.b = <<>> /\ e.c = <<>>
  BY FollowsIs
<1>7. /\ s.u \subseteq z.u /\ z.b = s.b /\ z.c = s.c /\ z.l = s.l
      /\ s.o = "closed" /\ x \notin s.u /\ z.o = "open" /\ x \in z.u
  BY <1>6 DEF Passes, x
<1>8. \A y \in DOMAIN code : Closed(c2, y) <=> Closed(code, y)
  BY <1>2 DEF Closed
<1>9. Unmade(Tail(q), c2, x)
  <2> SUFFICES ASSUME NEW y \in DOMAIN c2, y # x PROVE Closed(c2, y) \/ y \in Made(Tail(q))
    BY DEF Unmade
  <2>1. y \in DOMAIN code
    BY <1>2
  <2>2. y = ins \/ Closed(code, y) \/ y \in Made(q)
    BY <1>1, <2>1 DEF Unmade
  <2>3. CASE y = ins
    BY <1>6, <1>7, <1>8, <2>1, <2>3 DEF Now
  <2>4. CASE y \in Made(q)
    BY <1>3, <1>4, <2>4
  <2> QED
    BY <1>8, <2>1, <2>2, <2>3, <2>4
<1>10. c2[x] = <<>>
  <2>1. x \in DOMAIN code => code[x] = <<>>
    BY <1>6, <1>7 DEF Now
  <2> QED
    BY <1>2, <2>1
<1>11. Now(z, c2, x, breakTo, continueTo)
  <2>1. \A y \in DOMAIN c2 : y \in z.u \/ (c2[y] = <<>> /\ y # x)
    BY <1>2, <1>6, <1>7 DEF Now
  <2>2. ~ Closed(c2, x) /\ x \in DOMAIN c2
    BY <1>2, <1>10 DEF Closed
  <2>3. /\ z.b = breakTo /\ z.c = continueTo
        /\ \A m \in DOMAIN code_prog.node :
             code_prog.node[m].kind = "label" /\ Root(code_prog, m) \in z.l =>
               LabelOf(code_prog, m) \in DOMAIN c2
    BY <1>2, <1>6, <1>7 DEF Now
  <2> QED
    BY <1>7, <2>1, <2>2, <2>3 DEF Now
<1>12. Follows(Tail(q), c2, x, breakTo, continueTo)
  BY <1>6, <1>11 DEF Follows
<1>13. Compiling(Tail(q), c2, x, breakTo, continueTo)
  BY <1>2, <1>4, <1>5, <1>9, <1>12 DEF Compiling
<1> QED
  BY <1>13 DEF c2, x

\* A task that pushes the targets of break and continue.
LEMMA TargetsStep ==
  ASSUME NEW q, NEW c, NEW x, NEW b, NEW d, Compiling(q, c, x, b, d), q # <<>>,
         q[1][1] = "targets"
  PROVE  Compiling(Tail(q), c, x, Append(b, q[1][2]), d \o q[1][3])
<1> DEFINE t == q[1]
           K == KnownIn(Tail(q), c)
<1>1. Makes(t) = {}
  BY DEF Makes
<1>2. /\ IsSeq(Tail(q)) /\ KnownIn(q, c) \subseteq KnownIn(Tail(q), c)
      /\ Made(q) = Makes(q[1]) \cup Made(Tail(q))
      /\ TodoOk(Tail(q), K) /\ Entries(K)
      /\ b \in Seq(K \cap Plain) /\ d \in Seq(K \cap Plain)
  BY <1>1, CarryOk
<1>3. /\ IsSeq(q) /\ Built(c) /\ Unmade(q, c, x) /\ AllNamed(c, KnownIn(q, c))
      /\ TodoOk(q, KnownIn(q, c)) /\ x \in DOMAIN c
  BY DEF Compiling
<1>4. AllNamed(c, K)
  BY <1>2, <1>3, NamedMore
<1>5. t[2] \in K \cap Plain /\ t[3] \in Seq(K \cap Plain)
  <2>1. 1 \in 1 .. Len(q)
    BY <1>3, SeqIs
  <2>2. TaskOk(q, 1, KnownIn(q, c))
    BY <1>3, <2>1 DEF TodoOk
  <2>3. t[2] \in KnownIn(q, c) \cap Plain /\ t[3] \in Seq(KnownIn(q, c) \cap Plain)
    BY <2>2 DEF TaskOk, Fine
  <2> HIDE DEF K, t
  <2> QED
    BY <1>2, <2>3, SeqMore DEF K
<1>6. Append(b, t[2]) \in Seq(K \cap Plain) /\ d \o t[3] \in Seq(K \cap Plain)
  <2> HIDE DEF K, t
  <2> QED
    BY <1>2, <1>5
<1>7. Unmade(Tail(q), c, x)
  BY <1>1, <1>2, <1>3 DEF Unmade
<1>8. Follows(Tail(q), c, x, Append(b, t[2]), d \o t[3])
  <2>1. PICK s, z, e : /\ Passes(code_prog, q[1], s, z) /\ Now(s, c, x, b, d)
                       /\ Path(code_prog, Tail(q), z, e)
                       /\ e.o = "closed" /\ e.b = <<>> /\ e.c = <<>>
    BY FollowsIs
  <2>2. /\ s.u \subseteq z.u /\ z.l = s.l /\ z.o \in {s.o, "maybe"}
        /\ z.b = Append(s.b, t[2]) /\ z.c = s.c \o t[3]
    BY <2>1 DEF Passes
  <2> HIDE DEF t
  <2>3. Now(z, c, x, Append(b, t[2]), d \o t[3])
    BY <2>1, <2>2 DEF Now
  <2> QED
    BY <2>1, <2>3 DEF Follows
<1> HIDE DEF t
<1>9. Compiling(Tail(q), c, x, Append(b, t[2]), d \o t[3])
  BY <1>2, <1>3, <1>4, <1>6, <1>7, <1>8 DEF Compiling
<1> QED
  BY <1>9 DEF t

LEMMA ShorterSeq ==
  ASSUME NEW S, NEW b \in Seq(S), NEW i \in {0, 1}
  PROVE  SubSeq(b, 1, Len(b) - i) \in Seq(S)
<1>1. Len(b) \in Nat /\ b \in [1 .. Len(b) -> S]
  OBVIOUS
<1>2. CASE Len(b) - i = -1
  <2>1. SubSeq(b, 1, -1) = <<>>
    OBVIOUS
  <2> QED
    BY <1>2, <2>1
<1>3. CASE Len(b) - i # -1
  <2>1. Len(b) - i \in Nat
    BY <1>1, <1>3
  <2> QED
    BY <1>1, <2>1
<1> QED
  BY <1>2, <1>3

\* A task that pops them.
LEMMA DropStep ==
  ASSUME NEW q, NEW c, NEW x, NEW b, NEW d, Compiling(q, c, x, b, d), q # <<>>,
         q[1][1] = "drop"
  PROVE  Compiling(Tail(q), c, x, SubSeq(b, 1, Len(b) - 1), SubSeq(d, 1, Len(d) - q[1][2]))
<1> DEFINE t == q[1]
           K == KnownIn(Tail(q), c)
           b2 == SubSeq(b, 1, Len(b) - 1)
           d2 == SubSeq(d, 1, Len(d) - t[2])
<1>1. Makes(t) = {}
  BY DEF Makes
<1>2. /\ IsSeq(Tail(q)) /\ KnownIn(q, c) \subseteq KnownIn(Tail(q), c)
      /\ Made(q) = Makes(q[1]) \cup Made(Tail(q))
      /\ TodoOk(Tail(q), K) /\ Entries(K)
      /\ b \in Seq(K \cap Plain) /\ d \in Seq(K \cap Plain)
  BY <1>1, CarryOk
<1>3. /\ IsSeq(q) /\ Built(c) /\ Unmade(q, c, x) /\ AllNamed(c, KnownIn(q, c))
      /\ TodoOk(q, KnownIn(q, c)) /\ x \in DOMAIN c
  BY DEF Compiling
<1>4. AllNamed(c, K)
  BY <1>2, <1>3, NamedMore
<1>5. t[2] \in {0, 1}
  <2>1. 1 \in 1 .. Len(q)
    BY <1>3, SeqIs
  <2>2. TaskOk(q, 1, KnownIn(q, c))
    BY <1>3, <2>1 DEF TodoOk
  <2> QED
    BY <2>2 DEF TaskOk, Fine
<1>6. b2 \in Seq(K \cap Plain) /\ d2 \in Seq(K \cap Plain)
  <2> DEFINE S == K \cap Plain
  <2>1. b \in Seq(S) /\ d \in Seq(S) /\ 1 \in {0, 1}
    BY <1>2
  <2> HIDE DEF S, t
  <2>2. b2 \in Seq(S) /\ d2 \in Seq(S)
    BY <1>5, <2>1, ShorterSeq
  <2> QED
    BY <2>2 DEF S
<1>7. Unmade(Tail(q), c, x)
  BY <1>1, <1>2, <1>3 DEF Unmade
<1>8. Follows(Tail(q), c, x, b2, d2)
  <2>1. PICK s, z, e : /\ Passes(code_prog, q[1], s, z) /\ Now(s, c, x, b, d)
                       /\ Path(code_prog, Tail(q), z, e)
                       /\ e.o = "closed" /\ e.b = <<>> /\ e.c = <<>>
    BY FollowsIs
  <2>2. /\ s.u \subseteq z.u /\ z.l = s.l /\ z.o \in {s.o, "maybe"}
        /\ z.b = SubSeq(s.b, 1, Len(s.b) - 1) /\ z.c = SubSeq(s.c, 1, Len(s.c) - t[2])
    BY <2>1 DEF Passes
  <2> HIDE DEF t
  <2>4. s.b = b /\ s.c = d
    BY <2>1 DEF Now
  <2>5. z.b = b2 /\ z.c = d2
    BY <2>2, <2>4
  <2> HIDE DEF b2, d2
  <2>3. Now(z, c, x, b2, d2)
    BY <2>1, <2>2, <2>5 DEF Now
  <2> QED
    BY <2>1, <2>3 DEF Follows
<1> HIDE DEF t, b2, d2
<1>9. Compiling(Tail(q), c, x, b2, d2)
  BY <1>2, <1>3, <1>4, <1>6, <1>7, <1>8 DEF Compiling
<1> QED
  BY <1>9 DEF t, b2, d2

\* The blocks of a body's labels are made before the body is lowered, which reaches
\* all of them.
LEMMA LabelsStep ==
  ASSUME Legal, Compiling(todo, code, ins, breakTo, continueTo), todo # <<>>,
         todo[1][1] = "labels",
         NEW B, B = {Code!LabelBlock(todo[1][2], code_prog.node[m].name) :
                       m \in Code!ScannedLabels(todo[1][2])}
  PROVE  Compiling(Tail(todo), Code!Created(B), ins, breakTo, continueTo)
<1> DEFINE q == todo
           r == todo[1][2]
           c2 == Code!Created(B)
<1>1. /\ Built(code) /\ AllNamed(code, KnownIn(q, code)) /\ Unmade(q, code, ins)
      /\ IsSeq(q) /\ TodoOk(q, KnownIn(q, code)) /\ ins \in DOMAIN code
  BY DEF Compiling
<1>2. /\ Built(c2) /\ DOMAIN c2 = DOMAIN code \cup B
      /\ \A y \in DOMAIN code : c2[y] = code[y]
      /\ \A y \in B : y \notin DOMAIN code => c2[y] = <<>>
      /\ \A K : AllNamed(code, K) => AllNamed(c2, K)
  BY <1>1, Creates
<1>3. Makes(q[1]) = {}
  BY DEF Makes
<1>4. /\ r \in DOMAIN code_prog.node /\ code_prog.node[r].up = 0
      /\ 1 < Len(q) /\ q[2] = Code!Stmt(r)
  <2>1. 1 \in 1 .. Len(q) /\ 1 + 1 = 2
    BY <1>1, SeqIs
  <2>2. TaskOk(q, 1, KnownIn(q, code))
    BY <1>1, <2>1 DEF TodoOk
  <2>3. ~ Fine(q[1], KnownIn(q, code))
    BY DEF Fine
  <2> QED
    BY <2>1, <2>2, <2>3 DEF TaskOk
<1> HIDE DEF c2, r
<1>5. /\ IsSeq(Tail(q)) /\ KnownIn(q, code) \subseteq KnownIn(Tail(q), c2)
      /\ Made(q) = Makes(q[1]) \cup Made(Tail(q))
      /\ TodoOk(Tail(q), KnownIn(Tail(q), c2)) /\ Entries(KnownIn(Tail(q), c2))
      /\ breakTo \in Seq(KnownIn(Tail(q), c2) \cap Plain)
      /\ continueTo \in Seq(KnownIn(Tail(q), c2) \cap Plain)
  BY <1>2, <1>3, CarryOk
<1>6. AllNamed(c2, KnownIn(Tail(q), c2))
  <2>1. AllNamed(c2, KnownIn(q, code))
    BY <1>1, <1>2
  <2> QED
    BY <1>5, <2>1, NamedMore
<1>7. \A m \in DOMAIN code_prog.node :
        code_prog.node[m].kind = "label" /\ Root(code_prog, m) = r => LabelOf(code_prog, m) \in B
  <2> SUFFICES ASSUME NEW m \in DOMAIN code_prog.node, code_prog.node[m].kind = "label",
                      Root(code_prog, m) = r
               PROVE  LabelOf(code_prog, m) \in B
    OBVIOUS
  <2>1. Placed(code_prog, m)
    BY DEF Legal, Compilable
  <2>2. Seen(code_prog, r, m)
    BY <2>1, PlacedSeen DEF Legal
  <2>3. m \in Code!ScannedLabels(r)
    BY <2>2, ScannedIs
  <2>4. Code!LabelBlock(r, code_prog.node[m].name) \in B
    BY <2>3 DEF r
  <2> QED
    BY <2>4 DEF Code!LabelBlock, LabelOf
<1>8. B \subseteq Made(Tail(q))
  <2>1. ASSUME NEW y \in B PROVE y \in LabelsUnder(r)
    <3>1. PICK m \in Code!ScannedLabels(r) : y = Code!LabelBlock(r, code_prog.node[m].name)
      BY DEF r
    <3>2. /\ m \in DOMAIN code_prog.node /\ code_prog.node[m].kind = "label"
          /\ Seen(code_prog, r, m)
      BY <3>1, ScannedIs
    <3>3. Above(code_prog, r, m)
      BY <3>2, WithinAbove DEF Legal, Seen
    <3>4. Root(code_prog, m) = r
      <4>1. Root(code_prog, m) = Root(code_prog, r)
        BY <1>4, <3>2, <3>3, AboveRoot DEF Legal
      <4>2. Root(code_prog, r) = IF code_prog.node[r].up = 0 THEN r
                                 ELSE Root(code_prog, code_prog.node[r].up)
        BY <1>4, RootIs DEF Legal
      <4> QED
        BY <1>4, <4>1, <4>2
    <3>5. y = LabelOf(code_prog, m)
      BY <3>1, <3>4 DEF Code!LabelBlock, LabelOf
    <3> QED
      BY <3>2, <3>3, <3>5 DEF LabelsUnder
  <2>2. LabelsUnder(r) \subseteq Made(Tail(q))
    <3>1. Len(q) \in Nat /\ q # <<>>
      BY <1>1, SeqIs
    <3>2. Len(Tail(q)) = Len(q) - 1 /\ \A i \in 1 .. Len(q) - 1 : Tail(q)[i] = q[i + 1]
      BY <1>1, TailSeq
    <3>3. 1 \in 1 .. Len(Tail(q)) /\ Tail(q)[1] = q[2]
      BY <1>4, <3>1, <3>2
    <3> QED
      BY <1>4, <3>3, MadeStmt
  <2> QED
    BY <2>1, <2>2
<1>9. Unmade(Tail(q), c2, ins)
  <2> SUFFICES ASSUME NEW y \in DOMAIN c2, y # ins PROVE Closed(c2, y) \/ y \in Made(Tail(q))
    BY DEF Unmade
  <2>1. CASE y \in DOMAIN code
    <3>1. Closed(code, y) \/ y \in Made(q)
      BY <1>1, <2>1 DEF Unmade
    <3>2. Closed(c2, y) <=> Closed(code, y)
      BY <1>2, <2>1 DEF Closed
    <3> QED
      BY <1>3, <1>5, <3>1, <3>2
  <2>2. CASE y \notin DOMAIN code
    BY <1>2, <1>8, <2>2
  <2> QED
    BY <2>1, <2>2
<1>10. PICK s, z, e : /\ Passes(code_prog, q[1], s, z) /\ Now(s, code, ins, breakTo, continueTo)
                      /\ Path(code_prog, Tail(q), z, e)
                      /\ e.o = "closed" /\ e.b = <<>> /\ e.c = <<>>
  BY FollowsIs
<1>11. /\ s.u \subseteq z.u /\ z.b = s.b /\ z.c = s.c /\ z.l = s.l \cup {r}
       /\ s.o = "open" /\ z.o = "open"
  BY <1>10 DEF Passes, r
<1>12. Now(z, c2, ins, breakTo, continueTo)
  <2>1. ins \in DOMAIN c2 /\ ~ Closed(c2, ins)
    BY <1>1, <1>2, <1>10, <1>11 DEF Now, Closed
  <2>2. ASSUME NEW y \in DOMAIN c2 PROVE y \in z.u \/ (c2[y] = <<>> /\ y # ins)
    BY <1>1, <1>2, <1>10, <1>11 DEF Now
  <2>3. z.b = breakTo /\ z.c = continueTo
    BY <1>10, <1>11 DEF Now
  <2>4. ASSUME NEW m \in DOMAIN code_prog.node, code_prog.node[m].kind = "label",
               Root(code_prog, m) \in z.l
        PROVE  LabelOf(code_prog, m) \in DOMAIN c2
    BY <1>2, <1>7, <1>10, <1>11, <2>4 DEF Now
  <2> QED
    BY <1>11, <2>1, <2>2, <2>3, <2>4 DEF Now
<1>13. Follows(Tail(q), c2, ins, breakTo, continueTo)
  BY <1>10, <1>12 DEF Follows
<1>14. Compiling(Tail(q), c2, ins, breakTo, continueTo)
  BY <1>1, <1>2, <1>5, <1>6, <1>9, <1>13 DEF Compiling
<1> QED
  BY <1>14 DEF c2

\* The label of a goto stands in its body, whose labels have been scanned.
LEMMA GotoHasBlock ==
  ASSUME Legal, NEW n \in DOMAIN code_prog.node, code_prog.node[n].kind = "goto",
         NEW l, Root(code_prog, n) \in l \cup {code_prog.top}, NEW D,
         \A m \in DOMAIN code_prog.node :
           code_prog.node[m].kind = "label" /\ Root(code_prog, m) \in l => LabelOf(code_prog, m) \in D
  PROVE  LabelOf(code_prog, n) \in D
<1>1. PICK m \in DOMAIN code_prog.node :
        /\ code_prog.node[m].kind = "label" /\ code_prog.node[m].name = code_prog.node[n].name
        /\ Root(code_prog, m) = Root(code_prog, n)
  BY DEF Legal, CLegal
<1>2. Root(code_prog, m) # code_prog.top
  <2>1. Placed(code_prog, m)
    BY <1>1 DEF Legal, Compilable
  <2> QED
    BY <2>1, PlacedSeen DEF Legal
<1>3. LabelOf(code_prog, m) \in D
  BY <1>1, <1>2
<1> QED
  BY <1>1, <1>3 DEF LabelOf

\* A statement is replaced by what it is lowered to.
LEMMA LowerStep ==
  ASSUME Legal, Compiling(todo, code, ins, breakTo, continueTo), todo # <<>>,
         todo[1][1] = "stmt", ~ Closed(code, ins),
         NEW c2, c2 = [code EXCEPT ![ins] = code[ins] \o <<Code!Mark(Code!Enter(todo[1][2]))>>]
  PROVE  Compiling(Code!Lower(todo[1][2]) \o Tail(todo), c2, ins, breakTo, continueTo)
<1> DEFINE q == todo
           n == todo[1][2]
           list == Code!Lower(n)
           mark == Code!Mark(Code!Enter(n))
<1>1. /\ Built(code) /\ AllNamed(code, KnownIn(q, code)) /\ Unmade(q, code, ins)
      /\ IsSeq(q) /\ TodoOk(q, KnownIn(q, code)) /\ Entries(KnownIn(q, code))
      /\ breakTo \in Seq(KnownIn(q, code) \cap Plain)
      /\ continueTo \in Seq(KnownIn(q, code) \cap Plain)
      /\ ins \in DOMAIN code
  BY DEF Compiling
<1>2. PICK s, z, e : /\ Passes(code_prog, q[1], s, z) /\ Now(s, code, ins, breakTo, continueTo)
                     /\ Path(code_prog, Tail(q), z, e)
                     /\ e.o = "closed" /\ e.b = <<>> /\ e.c = <<>>
  BY FollowsIs
<1>3. /\ n \in DOMAIN code_prog.node /\ s.u \subseteq z.u
      /\ z.b = s.b /\ z.c = s.c /\ z.l = s.l
      /\ ClaimSet(code_prog, n) \cap s.u = {} /\ ClaimSet(code_prog, n) \subseteq z.u
      /\ Root(code_prog, n) \in s.l \cup {code_prog.top}
      /\ z.o = "maybe" \/ (z.o = "open" /\ ~Closes(code_prog, n))
  BY <1>2 DEF Passes
<1>4. code_prog.node[n].kind = "goto" => LabelOf(code_prog, n) \in DOMAIN code
  <2>1. \A m \in DOMAIN code_prog.node :
          code_prog.node[m].kind = "label" /\ Root(code_prog, m) \in s.l =>
            LabelOf(code_prog, m) \in DOMAIN code
    BY <1>2 DEF Now
  <2> HIDE DEF n
  <2> QED
    BY <1>3, <2>1, GotoHasBlock
<1>5. Fits(n, breakTo, continueTo, s.l, s.u)
  <2>1. breakTo \in Seq(Plain) /\ continueTo \in Seq(Plain)
    <3> DEFINE K == KnownIn(q, code)
    <3>1. breakTo \in Seq(K \cap Plain) /\ continueTo \in Seq(K \cap Plain)
      BY <1>1
    <3> HIDE DEF K
    <3> QED
      BY <3>1
  <2> HIDE DEF n
  <2> QED
    BY <1>3, <2>1 DEF Fits
<1> HIDE DEF n
<1>6. Leads(n, list, breakTo, continueTo, s.l, s.u)
  BY <1>3, <1>4, <1>5, LeadsLower
<1>7. Settled(n, list)
  BY <1>3, <1>4, SettledLower
<1>8. Makes(q[1]) = LabelsUnder(n)
  BY DEF Makes, n
<1> HIDE DEF list
<1>9. /\ IsSeq(list) /\ LabelsUnder(n) \subseteq Made(list)
      /\ \A K : /\ DOMAIN code \cup Made(list) \subseteq K
                /\ breakTo \in Seq(K \cap Plain) /\ continueTo \in Seq(K \cap Plain)
                => AllFine(list, K)
  BY <1>7 DEF Settled
<1>10. /\ Built(c2) /\ DOMAIN c2 = DOMAIN code
       /\ \A y \in DOMAIN code : y # ins => c2[y] = code[y]
       /\ ~ Closed(c2, ins)
       /\ \A K : AllNamed(code, K) => AllNamed(c2, K)
  <2> DEFINE is == <<mark>>
  <2>1. IsSeq(is) /\ is # <<>> /\ Len(is) = 1 /\ is[1] = mark
    BY DEF IsSeq
  <2>2. ~ Ending(mark) /\ \A K : NamesIn(mark, K)
    BY DEF Ending, NamesIn, Code!Mark
  <2>3. c2 = Adds(code, ins, is)
    BY DEF n, Adds
  <2> HIDE DEF is, mark
  <2>4. \A i \in 1 .. Len(is) : Ending(is[i]) => i = Len(is)
    BY <2>1, <2>2
  <2>5. Grown(code, Adds(code, ins, is), ins, is)
    BY <1>1, <2>1, <2>4, Grows
  <2>6. Grown(code, c2, ins, is)
    BY <2>3, <2>5
  <2>7. Closed(c2, ins) <=> Ending(mark)
    BY <2>1, <2>6 DEF Grown
  <2>8. ASSUME NEW K, AllNamed(code, K) PROVE AllNamed(c2, K)
    <3>1. \A i \in 1 .. Len(is) : NamesIn(is[i], K)
      BY <2>1, <2>2
    <3> QED
      BY <2>6, <2>8, <3>1 DEF Grown
  <2> QED
    BY <2>2, <2>6, <2>7, <2>8 DEF Grown
<1> DEFINE r == list \o Tail(q)
           K == KnownIn(r, c2)
<1>11. /\ IsSeq(r) /\ IsSeq(Tail(q)) /\ KnownIn(q, code) \subseteq K
       /\ Made(r) = Made(list) \cup Made(Tail(q))
       /\ Made(q) = Makes(q[1]) \cup Made(Tail(q))
  <2>1. DOMAIN code \subseteq DOMAIN c2 /\ Makes(q[1]) \subseteq DOMAIN c2 \cup Made(list)
    BY <1>8, <1>9, <1>10
  <2> QED
    BY <1>1, <1>9, <2>1, Carry
<1> HIDE DEF r
<1>12. breakTo \in Seq(K \cap Plain) /\ continueTo \in Seq(K \cap Plain)
  <2> HIDE DEF K
  <2> QED
    BY <1>1, <1>11, SeqMore
<1>13. TodoOk(r, K)
  <2>1. AllFine(list, K)
    <3>1. DOMAIN code \cup Made(list) \subseteq K
      BY <1>10, <1>11 DEF KnownIn
    <3> HIDE DEF K
    <3> QED
      BY <1>9, <1>12, <3>1
  <2> HIDE DEF K
  <2>2. TodoOk(list, K)
    BY <2>1, AllFineOk
  <2>3. TodoOk(Tail(q), K)
    BY <1>1, <1>11, TodoTail
  <2> QED
    BY <1>9, <1>11, <2>2, <2>3, TodoConcat DEF r
<1>14. Entries(K) /\ AllNamed(c2, K)
  <2>1. AllNamed(c2, KnownIn(q, code))
    BY <1>1, <1>10
  <2> HIDE DEF K
  <2> QED
    BY <1>1, <1>11, <2>1, EntriesMore, NamedMore
<1>15. Unmade(r, c2, ins)
  <2> SUFFICES ASSUME NEW y \in DOMAIN c2, y # ins PROVE Closed(c2, y) \/ y \in Made(r)
    BY DEF Unmade
  <2>1. Closed(code, y) \/ y \in Made(q)
    BY <1>1, <1>10 DEF Unmade
  <2>2. Closed(c2, y) <=> Closed(code, y)
    BY <1>10 DEF Closed
  <2> QED
    BY <1>8, <1>9, <1>11, <2>1, <2>2
<1>16. Follows(r, c2, ins, breakTo, continueTo)
  <2> DEFINE s1 == State("open", breakTo, continueTo, s.l, s.u)
  <2>1. PICK w : /\ Path(code_prog, list, s1, w)
                 /\ w.b = breakTo /\ w.c = continueTo /\ w.l = s.l
                 /\ w.u \subseteq s.u \cup ClaimSet(code_prog, n)
                 /\ ~Closes(code_prog, n) => w.o = "open"
    BY <1>6 DEF Leads
  <2>2. s.b = breakTo /\ s.c = continueTo
    BY <1>2 DEF Now
  <2>3. Better(w, z)
    BY <1>3, <2>1, <2>2 DEF Better
  <2>4. PICK x : Path(code_prog, Tail(q), w, x) /\ Better(x, e)
    BY <1>2, <1>11, <2>3, PathFrom
  <2>5. x.o = "closed" /\ x.b = <<>> /\ x.c = <<>>
    BY <1>2, <2>4 DEF Better
  <2>6. /\ s1.o = "open" /\ s1.b = breakTo /\ s1.c = continueTo /\ s1.l = s.l /\ s1.u = s.u
    BY StateIs
  <2> HIDE DEF s1
  <2>7. Path(code_prog, r, s1, x)
    BY <1>9, <1>11, <2>1, <2>4, PathConcat DEF r
  <2>8. Now(s1, c2, ins, breakTo, continueTo)
    BY <1>1, <1>2, <1>10, <2>6 DEF Now
  <2> QED
    BY <2>5, <2>7, <2>8 DEF Follows
<1>17. Compiling(r, c2, ins, breakTo, continueTo)
  BY <1>1, <1>10, <1>11, <1>12, <1>13, <1>14, <1>15, <1>16 DEF Compiling
<1> QED
  BY <1>17 DEF r, list, n

LEMMA HeadIs ==
  ASSUME IsSeq(todo), NEW task, Code!Doing(task)
  PROVE  /\ phase = "compile" /\ todo # <<>> /\ Head(todo) = todo[1] /\ todo[1][1] = task
         /\ Code!Arg = todo[1][2]
BY TailSeq DEF Code!Doing, Code!Arg

LEMMA Dropped ==
  ASSUME Legal, Compiling(todo, code, ins, breakTo, continueTo), todo # <<>>,
         todo[1][1] = "stmt", Closed(code, ins)
  PROVE  Compiling(Tail(todo), code, ins, breakTo, continueTo)
<1>1. /\ IsSeq(todo) /\ Built(code) /\ AllNamed(code, KnownIn(todo, code)) /\ ins \in DOMAIN code
  BY DEF Compiling
<1>2. \A s, z : Passes(code_prog, todo[1], s, z) /\ Now(s, code, ins, breakTo, continueTo) =>
        z.o = "maybe" /\ ~ HasLabel(code_prog, todo[1][2])
  BY DEF Passes, Now
<1>3. Makes(todo[1]) = {}
  <2>1. PICK s, z, e : /\ Passes(code_prog, todo[1], s, z)
                       /\ Now(s, code, ins, breakTo, continueTo)
    BY FollowsIs
  <2>2. ~ HasLabel(code_prog, todo[1][2])
    BY <1>2, <2>1
  <2> QED
    BY <2>2 DEF Makes, LabelsUnder, HasLabel
<1> QED
  BY <1>1, <1>2, <1>3, ExtendStep

\* What is appended to the open block, and what the block is then.
LEMMA Appended ==
  ASSUME NEW q, NEW c, NEW x, NEW b, NEW d, Compiling(q, c, x, b, d), q # <<>>,
         q[1][1] \notin {"stmt", "at", "targets", "drop", "labels"},
         NEW is, IsSeq(is), is = <<>> \/ ~ Closed(c, x),
         \A i \in 1 .. Len(is) : Ending(is[i]) => i = Len(is),
         \A i \in 1 .. Len(is) : NamesIn(is[i], KnownIn(q, c)),
         \A s, z : Passes(code_prog, q[1], s, z) /\ Now(s, c, x, b, d) =>
           LET ended == IF is = <<>> THEN Closed(c, x) ELSE Ending(is[Len(is)])
           IN  (z.o = "open" => ~ ended) /\ (z.o = "closed" => ended)
  PROVE  Compiling(Tail(q), Adds(c, x, is), x, b, d)
<1> DEFINE c2 == Adds(c, x, is)
<1>1. Built(c) /\ AllNamed(c, KnownIn(q, c)) /\ x \in DOMAIN c
  BY DEF Compiling
<1>2. Grown(c, c2, x, is)
  BY <1>1, Grows
<1> HIDE DEF c2
<1>3. AllNamed(c2, KnownIn(q, c))
  BY <1>1, <1>2 DEF Grown
<1>4. /\ Built(c2) /\ DOMAIN c2 = DOMAIN c /\ \A y \in DOMAIN c : y # x => c2[y] = c[y]
      /\ Closed(c2, x) <=> (IF is = <<>> THEN Closed(c, x) ELSE Ending(is[Len(is)]))
  BY <1>2 DEF Grown
<1>5. Makes(q[1]) = {}
  BY DEF Makes
<1>6. \A s, z : Passes(code_prog, q[1], s, z) /\ Now(s, c, x, b, d) =>
        (z.o = "open" => ~ Closed(c2, x)) /\ (z.o = "closed" => Closed(c2, x))
  BY <1>4
<1>7. Compiling(Tail(q), c2, x, b, d)
  BY <1>3, <1>4, <1>5, <1>6, ExtendStep
<1> QED
  BY <1>7 DEF c2

\* An expression leaves at most one instruction.
EvalOf(e) ==
  IF e = Pure THEN <<>> ELSE IF e = Throw THEN <<Code!ThrowCall>> ELSE <<Code!CallOf(e)>>

LEMMA EvalIs ==
  ASSUME NEW e \in Exprs
  PROVE  (CASE e = Code!Pure -> <<>> [] e = Code!Throw -> <<Code!ThrowCall>>
            [] e \in Funcs -> <<Code!CallOf(e)>>) = EvalOf(e)
<1>1. Pure # Throw /\ Pure \notin Funcs /\ Throw \notin Funcs
  BY FuncsAssumption DEF Pure, Throw
<1>2. Code!Pure = Pure /\ Code!Throw = Throw
  BY SameSyntax
<1> QED
  BY <1>1, <1>2 DEF Exprs, EvalOf

LEMMA OneIs ==
  ASSUME NEW i
  PROVE  IsSeq(<<i>>) /\ <<i>> # <<>> /\ Len(<<i>>) = 1 /\ <<i>>[1] = i
BY DEF IsSeq

LEMMA StepStmt ==
  ASSUME Legal, Compiling(todo, code, ins, breakTo, continueTo), Code!LowerStmt
  PROVE  Compiling(todo', code', ins', breakTo', continueTo')
<1>1. IsSeq(todo) /\ ins' = ins /\ breakTo' = breakTo /\ continueTo' = continueTo
  BY DEF Compiling, Code!LowerStmt
<1>2. todo # <<>> /\ todo[1][1] = "stmt" /\ Code!Arg = todo[1][2]
  BY <1>1, HeadIs DEF Code!LowerStmt
<1>3. CASE Closed(code, ins)
  <2>1. todo' = <<>> \o Tail(todo) /\ code' = code
    BY <1>3, EndedIs DEF Code!LowerStmt, Code!Open, Code!Continue
  <2>2. <<>> \o Tail(todo) = Tail(todo)
    BY <1>1, <1>2, TailSeq DEF IsSeq
  <2>3. Compiling(Tail(todo), code, ins, breakTo, continueTo)
    BY <1>2, <1>3, Dropped
  <2> QED
    BY <1>1, <2>1, <2>2, <2>3
<1>4. CASE ~ Closed(code, ins)
  <2>1. todo' = Code!Lower(todo[1][2]) \o Tail(todo)
        /\ code' = [code EXCEPT ![ins] = code[ins] \o <<Code!Mark(Code!Enter(todo[1][2]))>>]
    BY <1>2, <1>4, EndedIs DEF Code!LowerStmt, Code!Open, Code!Continue, Code!Extend
  <2>2. Compiling(Code!Lower(todo[1][2]) \o Tail(todo), code', ins, breakTo, continueTo)
    BY <1>2, <1>4, <2>1, LowerStep
  <2> QED
    BY <1>1, <2>1, <2>2
<1> QED
  BY <1>3, <1>4

LEMMA StepExpr ==
  ASSUME Legal, Compiling(todo, code, ins, breakTo, continueTo), Code!LowerExpr
  PROVE  Compiling(todo', code', ins', breakTo', continueTo')
<1> DEFINE e == todo[1][2]
           is == EvalOf(e)
<1>1. IsSeq(todo) /\ ins' = ins /\ breakTo' = breakTo /\ continueTo' = continueTo
      /\ Entries(KnownIn(todo, code))
  BY DEF Compiling, Code!LowerExpr
<1>2. todo # <<>> /\ todo[1][1] = "eval" /\ Code!Arg = e
  BY <1>1, HeadIs DEF Code!LowerExpr
<1>3. \A s, z : Passes(code_prog, todo[1], s, z) /\ Now(s, code, ins, breakTo, continueTo) =>
        /\ e \in Exprs /\ s.o = "open" /\ ~ Closed(code, ins)
        /\ z.o = IF e = Throw THEN "closed" ELSE "open"
  BY <1>2 DEF Passes, Now
<1>4. e \in Exprs /\ ~ Closed(code, ins)
  BY <1>2, <1>3, FollowsIs
<1>5. todo' = <<>> \o Tail(todo) /\ code' = Adds(code, ins, is)
  <2>1. todo' = <<>> \o Tail(todo)
    BY DEF Code!LowerExpr, Code!Continue
  <2>2. code' = [code EXCEPT ![ins] = code[ins] \o
                   (CASE e = Code!Pure -> <<>> [] e = Code!Throw -> <<Code!ThrowCall>>
                      [] e \in Funcs -> <<Code!CallOf(e)>>)]
    BY <1>2 DEF Code!LowerExpr, Code!Extend
  <2> HIDE DEF e
  <2>3. code' = [code EXCEPT ![ins] = code[ins] \o EvalOf(e)]
    BY <1>4, <2>2, EvalIs
  <2> QED
    BY <2>1, <2>3 DEF Adds
<1>6. <<>> \o Tail(todo) = Tail(todo)
  BY <1>1, <1>2, TailSeq DEF IsSeq
<1> HIDE DEF e
<1>7. /\ IsSeq(is) /\ \A i \in 1 .. Len(is) : Ending(is[i]) => i = Len(is)
      /\ \A i \in 1 .. Len(is) : NamesIn(is[i], KnownIn(todo, code))
      /\ e = Throw => is # <<>> /\ Ending(is[Len(is)])
      /\ e # Throw => is = <<>> \/ ~ Ending(is[Len(is)])
  <2>1. CASE e = Pure
    <3>1. is = <<>> /\ e # Throw
      BY <2>1 DEF EvalOf, Pure, Throw
    <3>2. IsSeq(<<>>) /\ 1 .. Len(<<>>) = {}
      BY DEF IsSeq
    <3> QED
      BY <3>1, <3>2
  <2>2. CASE e = Throw
    <3>1. is = <<Code!ThrowCall>>
      BY <2>2 DEF EvalOf, Pure, Throw
    <3>2. Ending(Code!ThrowCall) /\ \A K : NamesIn(Code!ThrowCall, K)
      BY DEF Code!ThrowCall, Ending, NamesIn
    <3> HIDE DEF is
    <3> QED
      BY <2>2, <3>1, <3>2, OneIs
  <2>3. CASE e \notin {Pure, Throw}
    <3>1. is = <<Code!CallOf(e)>> /\ e \in Funcs
      BY <1>4, <2>3 DEF EvalOf, Exprs
    <3>2. EntryOf(code_prog.body[e]) \in KnownIn(todo, code)
      <4>1. code_prog.body[e] \in Roots
        BY <3>1 DEF Roots, Code!Bodies
      <4> QED
        BY <1>1, <4>1 DEF Entries
    <3>3. ~ Ending(Code!CallOf(e)) /\ NamesIn(Code!CallOf(e), KnownIn(todo, code))
      BY <3>2 DEF Code!CallOf, Ending, NamesIn, EntryOf
    <3> HIDE DEF is
    <3> QED
      BY <2>3, <3>1, <3>3, OneIs
  <2> QED
    BY <2>1, <2>2, <2>3
<1> HIDE DEF is
<1>8. \A s, z : Passes(code_prog, todo[1], s, z) /\ Now(s, code, ins, breakTo, continueTo) =>
        LET ended == IF is = <<>> THEN Closed(code, ins) ELSE Ending(is[Len(is)])
        IN  (z.o = "open" => ~ ended) /\ (z.o = "closed" => ended)
  BY <1>3, <1>4, <1>7
<1>9. Compiling(Tail(todo), Adds(code, ins, is), ins, breakTo, continueTo)
  BY <1>2, <1>4, <1>7, <1>8, Appended
<1> QED
  BY <1>1, <1>5, <1>6, <1>9

LEMMA StepEmit ==
  ASSUME Legal, Compiling(todo, code, ins, breakTo, continueTo), Code!EmitInstruction
  PROVE  Compiling(todo', code', ins', breakTo', continueTo')
<1> DEFINE a == todo[1][2]
           is == <<a>>
<1>1. IsSeq(todo) /\ ins' = ins /\ breakTo' = breakTo /\ continueTo' = continueTo
      /\ TodoOk(todo, KnownIn(todo, code))
  BY DEF Compiling, Code!EmitInstruction
<1>2. todo # <<>> /\ todo[1][1] = "emit" /\ Code!Arg = a
  BY <1>1, HeadIs DEF Code!EmitInstruction
<1>3. \A s, z : Passes(code_prog, todo[1], s, z) /\ Now(s, code, ins, breakTo, continueTo) =>
        /\ s.o = "open" /\ ~ Closed(code, ins)
        /\ z.o = IF Ending(a) THEN "closed" ELSE "open"
  BY <1>2 DEF Passes, Now
<1>4. ~ Closed(code, ins)
  BY <1>2, <1>3, FollowsIs
<1>5. todo' = <<>> \o Tail(todo) /\ code' = Adds(code, ins, is)
  BY <1>2 DEF Code!EmitInstruction, Code!Continue, Code!Extend, Adds
<1>6. <<>> \o Tail(todo) = Tail(todo)
  BY <1>1, <1>2, TailSeq DEF IsSeq
<1>7. NamesIn(a, KnownIn(todo, code))
  <2>1. 1 \in 1 .. Len(todo)
    BY <1>1, <1>2, SeqIs
  <2>2. TaskOk(todo, 1, KnownIn(todo, code))
    BY <1>1, <2>1 DEF TodoOk
  <2> QED
    BY <1>2, <2>2 DEF TaskOk, Fine
<1>8. IsSeq(is) /\ is # <<>> /\ Len(is) = 1 /\ is[1] = a
  BY OneIs
<1> HIDE DEF a, is
<1>9. \A s, z : Passes(code_prog, todo[1], s, z) /\ Now(s, code, ins, breakTo, continueTo) =>
        LET ended == IF is = <<>> THEN Closed(code, ins) ELSE Ending(is[Len(is)])
        IN  (z.o = "open" => ~ ended) /\ (z.o = "closed" => ended)
  BY <1>3, <1>8
<1>10. /\ \A i \in 1 .. Len(is) : Ending(is[i]) => i = Len(is)
       /\ \A i \in 1 .. Len(is) : NamesIn(is[i], KnownIn(todo, code))
  BY <1>7, <1>8
<1>11. Compiling(Tail(todo), Adds(code, ins, is), ins, breakTo, continueTo)
  BY <1>2, <1>4, <1>8, <1>9, <1>10, Appended
<1> QED
  BY <1>1, <1>5, <1>6, <1>11

LEMMA StepOpen ==
  ASSUME Legal, Compiling(todo, code, ins, breakTo, continueTo), Code!EmitIfOpen
  PROVE  Compiling(todo', code', ins', breakTo', continueTo')
<1> DEFINE a == todo[1][2]
           is == IF Closed(code, ins) THEN <<>> ELSE a
<1>1. IsSeq(todo) /\ ins' = ins /\ breakTo' = breakTo /\ continueTo' = continueTo
      /\ TodoOk(todo, KnownIn(todo, code))
  BY DEF Compiling, Code!EmitIfOpen
<1>2. todo # <<>> /\ todo[1][1] = "open" /\ Code!Arg = a
  BY <1>1, HeadIs DEF Code!EmitIfOpen
<1>3. \A s, z : Passes(code_prog, todo[1], s, z) =>
        /\ IsSeq(a) /\ a # <<>> /\ z.o = "closed"
        /\ \A i \in 1 .. Len(a) : Ending(a[i]) <=> i = Len(a)
  BY <1>2 DEF Passes
<1>4. IsSeq(a) /\ a # <<>> /\ \A i \in 1 .. Len(a) : Ending(a[i]) <=> i = Len(a)
  BY <1>2, <1>3, FollowsIs
<1>5. todo' = <<>> \o Tail(todo) /\ code' = Adds(code, ins, is)
  BY <1>2, EndedIs DEF Code!EmitIfOpen, Code!Continue, Code!Extend, Code!Open, Adds
<1>6. <<>> \o Tail(todo) = Tail(todo)
  BY <1>1, <1>2, TailSeq DEF IsSeq
<1>7. \A i \in 1 .. Len(a) : NamesIn(a[i], KnownIn(todo, code))
  <2>1. 1 \in 1 .. Len(todo)
    BY <1>1, <1>2, SeqIs
  <2>2. TaskOk(todo, 1, KnownIn(todo, code))
    BY <1>1, <2>1 DEF TodoOk
  <2> QED
    BY <1>2, <2>2 DEF TaskOk, Fine
<1> HIDE DEF a
<1>8. /\ IsSeq(is) /\ (is = <<>> \/ ~ Closed(code, ins))
      /\ \A i \in 1 .. Len(is) : Ending(is[i]) => i = Len(is)
      /\ \A i \in 1 .. Len(is) : NamesIn(is[i], KnownIn(todo, code))
      /\ IF is = <<>> THEN Closed(code, ins) ELSE Ending(is[Len(is)])
  <2>1. CASE Closed(code, ins)
    <3>1. is = <<>>
      BY <2>1
    <3>2. IsSeq(<<>>) /\ 1 .. Len(<<>>) = {}
      BY DEF IsSeq
    <3> QED
      BY <2>1, <3>1, <3>2
  <2>2. CASE ~ Closed(code, ins)
    <3>1. is = a
      BY <2>2
    <3>2. Len(a) \in 1 .. Len(a)
      BY <1>4, SeqIs
    <3> HIDE DEF is
    <3> QED
      BY <1>4, <1>7, <2>2, <3>1, <3>2
  <2> QED
    BY <2>1, <2>2
<1> HIDE DEF is
<1>9. \A s, z : Passes(code_prog, todo[1], s, z) /\ Now(s, code, ins, breakTo, continueTo) =>
        LET ended == IF is = <<>> THEN Closed(code, ins) ELSE Ending(is[Len(is)])
        IN  (z.o = "open" => ~ ended) /\ (z.o = "closed" => ended)
  BY <1>3, <1>8
<1>11. Compiling(Tail(todo), Adds(code, ins, is), ins, breakTo, continueTo)
  BY <1>2, <1>8, <1>9, Appended
<1> QED
  BY <1>1, <1>5, <1>6, <1>11

\* Every step of the compiler keeps its invariant.
LEMMA CompileStep ==
  ASSUME Legal, Compiling(todo, code, ins, breakTo, continueTo), Code!Compile
  PROVE  /\ Compiling(todo', code', ins', breakTo', continueTo')
         /\ phase = "compile" /\ UNCHANGED <<code_prog, phase, stack, tryStack>>
<1>1. IsSeq(todo)
  BY DEF Compiling
<1>2. CASE Code!LowerStmt
  BY <1>1, <1>2, StepStmt, HeadIs DEF Code!LowerStmt, Code!Still
<1>3. CASE Code!LowerExpr
  BY <1>1, <1>3, StepExpr, HeadIs DEF Code!LowerExpr, Code!Still
<1>4. CASE Code!EmitInstruction
  BY <1>1, <1>4, StepEmit, HeadIs DEF Code!EmitInstruction, Code!Still
<1>5. CASE Code!EmitIfOpen
  BY <1>1, <1>5, StepOpen, HeadIs DEF Code!EmitIfOpen, Code!Still
<1>10. todo # <<>> => <<>> \o Tail(todo) = Tail(todo)
  BY <1>1, TailSeq DEF IsSeq
<1>6. CASE Code!SetInsertPoint
  <2>1. todo # <<>> /\ todo[1][1] = "at" /\ Code!Arg = todo[1][2]
    BY <1>1, <1>6, HeadIs DEF Code!SetInsertPoint
  <2>2. Compiling(Tail(todo), Code!Created({todo[1][2]}), todo[1][2], breakTo, continueTo)
    BY <2>1, AtStep
  <2>3. /\ todo' = Tail(todo) /\ code' = Code!Created({todo[1][2]}) /\ ins' = todo[1][2]
        /\ breakTo' = breakTo /\ continueTo' = continueTo
    BY <1>6, <1>10, <2>1 DEF Code!SetInsertPoint, Code!Continue
  <2> QED
    BY <1>1, <1>6, <2>2, <2>3, HeadIs DEF Code!SetInsertPoint, Code!Still
<1>7. CASE Code!ScanLabelsInStmt
  <2> DEFINE B == {Code!LabelBlock(todo[1][2], code_prog.node[m].name) :
                     m \in Code!ScannedLabels(todo[1][2])}
  <2>1. todo # <<>> /\ todo[1][1] = "labels" /\ Code!Arg = todo[1][2]
    BY <1>1, <1>7, HeadIs DEF Code!ScanLabelsInStmt
  <2>2. Compiling(Tail(todo), Code!Created(B), ins, breakTo, continueTo)
    BY <2>1, LabelsStep
  <2>3. /\ todo' = Tail(todo) /\ code' = Code!Created(B) /\ ins' = ins
        /\ breakTo' = breakTo /\ continueTo' = continueTo
    BY <1>7, <1>10, <2>1 DEF Code!ScanLabelsInStmt, Code!Continue
  <2> HIDE DEF B
  <2> QED
    BY <1>1, <1>7, <2>2, <2>3, HeadIs DEF Code!ScanLabelsInStmt, Code!Still
<1>8. CASE Code!PushTargets
  <2>1. todo # <<>> /\ todo[1][1] = "targets" /\ Code!Arg = todo[1][2] /\ Head(todo) = todo[1]
    BY <1>1, <1>8, HeadIs DEF Code!PushTargets
  <2>2. Compiling(Tail(todo), code, ins, Append(breakTo, todo[1][2]), continueTo \o todo[1][3])
    BY <2>1, TargetsStep
  <2>3. /\ todo' = Tail(todo) /\ code' = code /\ ins' = ins
        /\ breakTo' = Append(breakTo, todo[1][2]) /\ continueTo' = continueTo \o todo[1][3]
    BY <1>8, <1>10, <2>1 DEF Code!PushTargets, Code!Continue
  <2> QED
    BY <1>1, <1>8, <2>2, <2>3, HeadIs DEF Code!PushTargets, Code!Still
<1>9. CASE Code!PopTargets
  <2>1. todo # <<>> /\ todo[1][1] = "drop" /\ Code!Arg = todo[1][2]
    BY <1>1, <1>9, HeadIs DEF Code!PopTargets
  <2>2. Compiling(Tail(todo), code, ins, SubSeq(breakTo, 1, Len(breakTo) - 1),
                  SubSeq(continueTo, 1, Len(continueTo) - todo[1][2]))
    BY <2>1, DropStep
  <2>3. /\ todo' = Tail(todo) /\ code' = code /\ ins' = ins
        /\ breakTo' = SubSeq(breakTo, 1, Len(breakTo) - 1)
        /\ continueTo' = SubSeq(continueTo, 1, Len(continueTo) - todo[1][2])
    BY <1>9, <1>10, <2>1 DEF Code!PopTargets, Code!Continue, Code!Front
  <2> QED
    BY <1>1, <1>9, <2>2, <2>3, HeadIs DEF Code!PopTargets, Code!Still
<1> QED
  BY <1>2, <1>3, <1>4, <1>5, <1>6, <1>7, <1>8, <1>9 DEF Code!Compile

-----------------------------------------------------------------------------
(* What generate has the compiler do at first.                             *)

LEMMA RootOfBody ==
  ASSUME NEW p, WellFormed(p), NEW r \in DOMAIN p.node, p.node[r].up = 0
  PROVE  Root(p, r) = r
BY RootIs

\* No two functions share a block.
LEMMA RootsApart ==
  ASSUME Legal, NEW r \in DOMAIN code_prog.node, NEW s \in DOMAIN code_prog.node,
         code_prog.node[r].up = 0, code_prog.node[s].up = 0, r # s
  PROVE  ClaimSet(code_prog, r) \cap ClaimSet(code_prog, s) = {}
<1>1. ASSUME NEW b \in ClaimSet(code_prog, r), b \in ClaimSet(code_prog, s) PROVE FALSE
  <2>1. PICK m \in DOMAIN code_prog.node : Above(code_prog, r, m) /\ b \in OwnBlocks(code_prog, m)
    BY DEF ClaimSet
  <2>2. PICK n \in DOMAIN code_prog.node : Above(code_prog, s, n) /\ b \in OwnBlocks(code_prog, n)
    BY <1>1 DEF ClaimSet
  <2>3. m = n
    BY <2>1, <2>2, OwnApart DEF Legal
  <2>4. Root(code_prog, m) = Root(code_prog, r) /\ Root(code_prog, m) = Root(code_prog, s)
    BY <2>1, <2>2, <2>3, AboveRoot DEF Legal
  <2>5. Root(code_prog, r) = r /\ Root(code_prog, s) = s
    BY RootOfBody DEF Legal
  <2> QED
    BY <2>4, <2>5
<1> QED
  BY <1>1

\* No statement makes an entry block.
LEMMA EntryFree ==
  ASSUME NEW p, NEW n, NEW r
  PROVE  EntryOf(r) \notin ClaimSet(p, n)
<1>1. ASSUME NEW m PROVE EntryOf(r) \notin OwnBlocks(p, m)
  <2>1. EntryOf(r)[2] = "entry"
    BY DEF EntryOf
  <2>2. \A b \in OwnBlocks(p, m) : b[2] \in Roles \cup {"case", "label"}
    BY DEF OwnBlocks, LabelOf
  <2> QED
    BY <2>1, <2>2 DEF Roles
<1> QED
  BY <1>1 DEF ClaimSet

\* The bodies: the compounds without a parent that are not the top level.
LEMMA BodyIs ==
  ASSUME Legal, NEW r \in Code!Bodies
  PROVE  /\ r \in DOMAIN code_prog.node /\ code_prog.node[r].up = 0
         /\ code_prog.node[r].kind = "compound" /\ r # code_prog.top
<1>1. r \in {code_prog.body[f] : f \in Funcs} \cup ({code_prog.main} \ {0})
  BY DEF Code!Bodies
<1> QED
  BY <1>1 DEF Legal, WellFormed

\* The functions are compiled in some order, each once.
LEMMA OrderIs ==
  ASSUME Legal
  PROVE  \E n \in Nat : LET order == Code!SetToSeq(Code!Bodies) IN
           /\ order \in [1 .. n -> Code!Bodies]
           /\ \A i, j \in 1 .. n : order[i] = order[j] => i = j
           /\ \A r \in Code!Bodies : \E i \in 1 .. n : order[i] = r
<1> DEFINE S == Code!Bodies
           n == Cardinality(S)
           order == Code!SetToSeq(S)
<1>1. IsFiniteSet(S)
  <2>1. DOMAIN code_prog.node = 1 .. Len(code_prog.node) /\ Len(code_prog.node) \in Nat
    BY TreeIs DEF Legal
  <2>2. IsFiniteSet(1 .. Len(code_prog.node))
    <3>1. 1 \in Int /\ Len(code_prog.node) \in Int
      BY <2>1
    <3> QED
      BY <3>1, FS_Interval, Zenon
  <2>3. S \subseteq 1 .. Len(code_prog.node)
    BY <2>1, BodyIs
  <2> QED
    BY <2>2, <2>3, FS_Subset
<1>2. n \in Nat /\ ExistsBijection(1 .. n, S)
  BY <1>1, FS_CardinalityType
<1>3. PICK g \in Bijection(1 .. n, S) : TRUE
  BY <1>2 DEF ExistsBijection
<1>4. g \in [1 .. n -> S] /\ Code!IsInjective(g)
  BY <1>3 DEF Bijection, Injection, IsInjective, Code!IsInjective
<1>5. order \in [1 .. n -> S] /\ Code!IsInjective(order)
  <2>1. order = CHOOSE f \in [1 .. n -> S] : Code!IsInjective(f)
    <3>1. Code!Cardinality(Code!Bodies) = Cardinality(Code!Bodies)
      BY DEF Code!Cardinality, Cardinality
    <3> QED
      BY <3>1 DEF Code!SetToSeq
  <2> HIDE DEF order, S, n
  <2>2. \E f \in [1 .. n -> S] : Code!IsInjective(f)
    BY <1>4
  <2> QED
    BY <2>1, <2>2
<1>6. \A i, j \in 1 .. n : order[i] = order[j] => i = j
  BY <1>5 DEF Code!IsInjective
<1>7. order \in Injection(1 .. n, S)
  BY <1>5, <1>6 DEF Injection, IsInjective
<1>8. Cardinality(1 .. n) = Cardinality(S)
  <2>1. Cardinality(1 .. n) = n
    BY <1>2, FS_Interval
  <2> QED
    BY <2>1
<1>9. order \in Surjection(1 .. n, S)
  BY <1>1, <1>7, <1>8, FS_Injection
<1>10. \A r \in S : \E i \in 1 .. n : order[i] = r
  BY <1>9 DEF Surjection
<1> QED
  BY <1>2, <1>5, <1>6, <1>10

\* What a function is lowered to.
BodyPath(r, l, u) ==
  Path(code_prog, Code!LowerFunction(r), State("closed", <<>>, <<>>, l, u),
       State("closed", <<>>, <<>>, l \cup {r}, (u \cup {EntryOf(r)}) \cup ClaimSet(code_prog, r)))

\* A function can be compiled where no block of its own was made.
LEMMA FunctionPath ==
  ASSUME Legal, NEW r \in Code!Bodies, NEW l, NEW u,
         EntryOf(r) \notin u, ClaimSet(code_prog, r) \cap u = {}
  PROVE  BodyPath(r, l, u)
<1> DEFINE list == << Code!At(EntryOf(r)), Code!ScanLabels(r), Code!Stmt(r),
                      Code!IfOpen(<<Code!Ret>>) >>
           u1 == u \cup {EntryOf(r)}
           u2 == u1 \cup ClaimSet(code_prog, r)
           k == l \cup {r}
           st == << State("closed", <<>>, <<>>, l, u), State("open", <<>>, <<>>, l, u1),
                    State("open", <<>>, <<>>, k, u1), State("maybe", <<>>, <<>>, k, u2),
                    State("closed", <<>>, <<>>, k, u2) >>
<1>1. Passes(code_prog, Code!At(EntryOf(r)), State("closed", <<>>, <<>>, l, u),
             State("open", <<>>, <<>>, l, u1))
  BY PassAt
<1>2. Passes(code_prog, Code!ScanLabels(r), State("open", <<>>, <<>>, l, u1),
             State("open", <<>>, <<>>, k, u1))
  <2>1. Code!ScanLabels(r)[1] = "labels" /\ Code!ScanLabels(r)[2] = r
    BY DEF Code!ScanLabels
  <2> HIDE DEF u1
  <2> QED
    BY <2>1, StateIs DEF Passes
<1>3. Passes(code_prog, Code!Stmt(r), State("open", <<>>, <<>>, k, u1),
             State("maybe", <<>>, <<>>, k, u2))
  <2>1. r \in DOMAIN code_prog.node /\ Root(code_prog, r) = r
    BY BodyIs, RootOfBody DEF Legal
  <2>2. ClaimSet(code_prog, r) \cap u1 = {}
    BY EntryFree
  <2>3. Root(code_prog, r) \in k \cup {code_prog.top}
    BY <2>1
  <2> HIDE DEF u1, k
  <2> QED
    BY <2>1, <2>2, <2>3, PassStmt
<1>4. Passes(code_prog, Code!IfOpen(<<Code!Ret>>), State("maybe", <<>>, <<>>, k, u2),
             State("closed", <<>>, <<>>, k, u2))
  <2> DEFINE q == <<Code!Ret>>
  <2>1. q \in Seq({Code!Ret}) /\ Len(q) = 1 /\ q[1] = Code!Ret /\ q # <<>>
    OBVIOUS
  <2>2. Ending(Code!Ret)
    BY DEF Ending, Code!Ret
  <2> HIDE DEF q, u2, k
  <2>3. IsSeq(q) /\ \A i \in 1 .. Len(q) : Ending(q[i]) <=> i = Len(q)
    BY <2>1, <2>2, AnySeq
  <2>4. Passes(code_prog, Code!IfOpen(q), State("maybe", <<>>, <<>>, k, u2),
               State("closed", <<>>, <<>>, k, u2))
    BY <2>1, <2>3, PassOpen
  <2> QED
    BY <2>4 DEF q
<1>5. Code!LowerFunction(r) = list
  BY DEF Code!LowerFunction, EntryOf
<1> HIDE DEF u1, u2, k
<1>6. /\ list[1] = Code!At(EntryOf(r)) /\ list[2] = Code!ScanLabels(r) /\ list[3] = Code!Stmt(r)
      /\ list[4] = Code!IfOpen(<<Code!Ret>>) /\ Len(list) = 4
  OBVIOUS
<1>7. /\ st[1] = State("closed", <<>>, <<>>, l, u) /\ st[2] = State("open", <<>>, <<>>, l, u1)
      /\ st[3] = State("open", <<>>, <<>>, k, u1) /\ st[4] = State("maybe", <<>>, <<>>, k, u2)
      /\ st[5] = State("closed", <<>>, <<>>, k, u2)
  OBVIOUS
<1> HIDE DEF list, st
<1>8. \A i \in 1 .. Len(list) : Passes(code_prog, list[i], st[i], st[i + 1])
  <2>1. 1 .. Len(list) = {1, 2, 3, 4} /\ 1 + 1 = 2 /\ 2 + 1 = 3 /\ 3 + 1 = 4 /\ 4 + 1 = 5
    BY <1>6
  <2> QED
    BY <1>1, <1>2, <1>3, <1>4, <1>6, <1>7, <2>1
<1>9. Path(code_prog, list, st[1], st[5])
  <2>1. Len(list) + 1 = 5
    BY <1>6
  <2>2. Steps(code_prog, list, st, st[1], st[5])
    BY <1>8, <2>1 DEF Steps
  <2> QED
    BY <2>2 DEF Path
<1>10. Path(code_prog, Code!LowerFunction(r), State("closed", <<>>, <<>>, l, u),
            State("closed", <<>>, <<>>, k, u2))
  BY <1>5, <1>7, <1>9
<1> QED
  BY <1>10 DEF BodyPath, k, u1, u2

\* A list that may be done in a closed block.
Starts(q) == q = <<>> \/ q[1][1] = "at"

LEMMA FunctionOk ==
  ASSUME Legal, NEW r \in Code!Bodies, NEW K
  PROVE  /\ IsSeq(Code!LowerFunction(r)) /\ TodoOk(Code!LowerFunction(r), K)
         /\ Starts(Code!LowerFunction(r)) /\ Has(Code!LowerFunction(r), Code!At(EntryOf(r)))
<1> DEFINE q == << Code!At(EntryOf(r)), Code!ScanLabels(r), Code!Stmt(r),
                   Code!IfOpen(<<Code!Ret>>) >>
<1>1. /\ q[1] = Code!At(EntryOf(r)) /\ q[2] = Code!ScanLabels(r) /\ q[3] = Code!Stmt(r)
      /\ q[4] = Code!IfOpen(<<Code!Ret>>) /\ Len(q) = 4
  OBVIOUS
<1>2. IsSeq(q)
  BY DEF IsSeq
<1>3. Code!LowerFunction(r) = q
  BY DEF Code!LowerFunction, EntryOf
<1>4. Fine(q[1], K) /\ Fine(q[3], K)
  BY <1>1, FineTasks
<1>5. Fine(q[4], K)
  <2> DEFINE a == <<Code!Ret>>
  <2>1. Len(a) = 1 /\ a[1] = Code!Ret
    OBVIOUS
  <2>2. NamesIn(Code!Ret, K)
    BY DEF NamesIn, Code!Ret
  <2> HIDE DEF a
  <2>3. Fine(Code!IfOpen(a), K)
    <3>1. Code!IfOpen(a)[1] = "open" /\ Code!IfOpen(a)[2] = a
      BY DEF Code!IfOpen
    <3>2. \A i \in 1 .. Len(a) : NamesIn(a[i], K)
      BY <2>1, <2>2
    <3> QED
      BY <3>1, <3>2 DEF Fine
  <2> QED
    BY <1>1, <2>3 DEF a
<1>6. TaskOk(q, 2, K)
  <2>1. q[2][1] = "labels" /\ q[2][2] = r
    BY <1>1 DEF Code!ScanLabels
  <2>2. r \in DOMAIN code_prog.node /\ code_prog.node[r].up = 0
    BY BodyIs
  <2>3. 2 < Len(q) /\ q[2 + 1] = Code!Stmt(r)
    BY <1>1
  <2> HIDE DEF q
  <2> QED
    BY <2>1, <2>2, <2>3 DEF TaskOk
<1> HIDE DEF q
<1>7. TodoOk(q, K)
  <2>1. TaskOk(q, 1, K) /\ TaskOk(q, 3, K) /\ TaskOk(q, 4, K)
    BY <1>4, <1>5 DEF TaskOk
  <2>2. 1 .. Len(q) = {1, 2, 3, 4}
    BY <1>1
  <2> QED
    BY <1>6, <2>1, <2>2 DEF TodoOk
<1>8. Starts(q)
  <2>1. q[1][1] = "at"
    BY <1>1 DEF Code!At
  <2> QED
    BY <2>1 DEF Starts
<1>9. Has(q, Code!At(EntryOf(r)))
  <2>1. 1 \in 1 .. Len(q)
    BY <1>1
  <2> QED
    BY <1>1, <2>1 DEF Has
<1> QED
  BY <1>2, <1>3, <1>7, <1>8, <1>9

LEMMA StartsConcat ==
  ASSUME NEW q, IsSeq(q), NEW r, IsSeq(r), Starts(q), Starts(r)
  PROVE  Starts(q \o r)
<1>1. CASE q = <<>>
  <2>1. <<>> \o r = r
    BY DEF IsSeq
  <2> QED
    BY <1>1, <2>1
<1>2. CASE q # <<>>
  <2>1. 1 \in 1 .. Len(q)
    BY <1>2, SeqIs
  <2>2. (q \o r)[1] = q[1]
    BY <2>1, ConcatIs
  <2> QED
    BY <1>2, <2>2 DEF Starts
<1> QED
  BY <1>1, <1>2

\* What is known of lists is known of their join.
LEMMA JoinOk ==
  ASSUME NEW q, NEW n \in Nat, NEW f, Joined(f, q, n), \A i \in 1 .. n : IsSeq(q[i]),
         NEW K, \A i \in 1 .. n : TodoOk(q[i], K) /\ Starts(q[i])
  PROVE  \A i \in 0 .. n : TodoOk(f[i], K) /\ Starts(f[i])
<1> DEFINE T == {i \in 0 .. n : TodoOk(f[i], K) /\ Starts(f[i])}
<1>1. 0 \in T
  <2>1. f[0] = <<>>
    BY JoinedIs
  <2>2. TodoOk(f[0], K) /\ Starts(f[0])
    BY <2>1 DEF TodoOk, Starts
  <2> QED
    BY <2>2
<1>2. ASSUME NEW k \in 0 .. n - 1, k \in T PROVE k + 1 \in T
  <2>1. k + 1 \in 1 .. n /\ k + 1 \in 0 .. n /\ (k + 1) - 1 = k /\ k \in 0 .. n
    OBVIOUS
  <2>2. f[k + 1] = f[k] \o q[k + 1]
    BY <2>1, JoinedAt
  <2>3. IsSeq(f[k]) /\ IsSeq(q[k + 1])
    BY <2>1, JoinIsSeq
  <2>4. TodoOk(f[k], K) /\ Starts(f[k]) /\ TodoOk(q[k + 1], K) /\ Starts(q[k + 1])
    BY <1>2, <2>1
  <2>5. TodoOk(f[k + 1], K) /\ Starts(f[k + 1])
    BY <2>2, <2>3, <2>4, TodoConcat, StartsConcat
  <2> QED
    BY <2>1, <2>5
<1>3. \A k \in 0 .. n : k \in T
  <2> HIDE DEF T
  <2> QED
    BY <1>1, <1>2, IntervalInduction
<1> QED
  BY <1>3

-----------------------------------------------------------------------------
(* The functions, one after the other.                                     *)

\* After the functions of the first i bodies.
After(order, i) == {order[j] : j \in 1 .. i}

\* The blocks of the first i bodies.
Used(order, i) ==
  UNION {{EntryOf(order[j])} \cup ClaimSet(code_prog, order[j]) : j \in 1 .. i}

\* f compiles all functions.
Funs(f, K) ==
  /\ IsSeq(f) /\ TodoOk(f, K) /\ Starts(f)
  /\ \A r \in Code!Bodies : Has(f, Code!At(EntryOf(r)))
  /\ \E l, u : /\ Path(code_prog, f, State("closed", <<>>, <<>>, {}, {}),
                       State("closed", <<>>, <<>>, l, u))
               /\ \A x \in u : \E r \in Code!Bodies : x = EntryOf(r) \/ x \in ClaimSet(code_prog, r)

LEMMA FunctionsPath ==
  ASSUME Legal, NEW n \in Nat, NEW order \in [1 .. n -> Code!Bodies],
         \A i, j \in 1 .. n : order[i] = order[j] => i = j,
         NEW i \in 1 .. n
  PROVE  Path(code_prog, Code!LowerFunction(order[i]),
              State("closed", <<>>, <<>>, After(order, i - 1), Used(order, i - 1)),
              State("closed", <<>>, <<>>, After(order, i), Used(order, i)))
<1> DEFINE r == order[i]
           u == Used(order, i - 1)
           l == After(order, i - 1)
<1>1. i - 1 \in 0 .. n /\ 1 .. i = (1 .. i - 1) \cup {i} /\ i \notin 1 .. i - 1
      /\ 1 .. i - 1 \subseteq 1 .. n
  OBVIOUS
<1>2. r \in Code!Bodies
  OBVIOUS
<1>3. ASSUME NEW j \in 1 .. i - 1
      PROVE  /\ EntryOf(order[j]) # EntryOf(r) /\ EntryOf(order[j]) \notin ClaimSet(code_prog, r)
             /\ EntryOf(r) \notin ClaimSet(code_prog, order[j])
             /\ ClaimSet(code_prog, r) \cap ClaimSet(code_prog, order[j]) = {}
  <2>1. j \in 1 .. n /\ j # i /\ order[j] \in Code!Bodies
    BY <1>1
  <2>2. order[j] # r
    BY <2>1
  <2>3. /\ r \in DOMAIN code_prog.node /\ code_prog.node[r].up = 0
        /\ order[j] \in DOMAIN code_prog.node /\ code_prog.node[order[j]].up = 0
    BY <1>2, <2>1, BodyIs
  <2>4. ClaimSet(code_prog, r) \cap ClaimSet(code_prog, order[j]) = {}
    BY <2>2, <2>3, RootsApart
  <2>5. EntryOf(order[j]) # EntryOf(r)
    BY <2>2 DEF EntryOf
  <2> QED
    BY <2>4, <2>5, EntryFree
<1>4. EntryOf(r) \notin u
  BY <1>3 DEF Used
<1>5. ClaimSet(code_prog, r) \cap u = {}
  BY <1>3 DEF Used
<1>6. BodyPath(r, l, u)
  BY <1>2, <1>4, <1>5, FunctionPath
<1>7. l \cup {r} = After(order, i)
  BY <1>1 DEF After
<1>8. (u \cup {EntryOf(r)}) \cup ClaimSet(code_prog, r) = Used(order, i)
  BY <1>1 DEF Used
<1> HIDE DEF u, l, r
<1>9. Path(code_prog, Code!LowerFunction(r), State("closed", <<>>, <<>>, l, u),
           State("closed", <<>>, <<>>, After(order, i), Used(order, i)))
  BY <1>6, <1>7, <1>8 DEF BodyPath
<1> QED
  BY <1>9 DEF u, l, r

\* Joined, the functions can be compiled, and each gets its entry block.
LEMMA FunsAre ==
  ASSUME Legal
  PROVE  \E f : Code!Generate = f \o Code!LowerMainFunction /\ \A K : Funs(f, K)
<1> DEFINE order == Code!SetToSeq(Code!Bodies)
<1>1. PICK n \in Nat :
        /\ order \in [1 .. n -> Code!Bodies]
        /\ \A i, j \in 1 .. n : order[i] = order[j] => i = j
        /\ \A r \in Code!Bodies : \E i \in 1 .. n : order[i] = r
  BY OrderIs
<1> DEFINE q == [i \in 1 .. n |-> Code!LowerFunction(order[i])]
<1>2. Code!Generate = Code!FlattenSeq(q) \o Code!LowerMainFunction
  <2>1. DOMAIN order = 1 .. n
    BY <1>1
  <2> QED
    BY <2>1 DEF Code!Generate
<1> HIDE DEF order
<1>3. q \in Seq({q[i] : i \in 1 .. n}) /\ Len(q) = n /\ \A i \in 1 .. n : q[i] = Code!LowerFunction(order[i])
  OBVIOUS
<1> HIDE DEF q
<1>4. IsSeq(q)
  BY <1>3, AnySeq
<1>5. \A i \in 1 .. n : IsSeq(q[i])
  BY <1>1, <1>3, FunctionOk
<1>6. PICK f : Joined(f, q, n) /\ Code!FlattenSeq(q) = f[n]
  BY <1>3, <1>4, <1>5, FlattenIs
<1>7. n \in 0 .. n /\ 0 \in 0 .. n
  OBVIOUS
<1>8. IsSeq(f[n])
  BY <1>5, <1>6, <1>7, JoinIsSeq
<1>9. ASSUME NEW K PROVE TodoOk(f[n], K) /\ Starts(f[n])
  <2>1. \A i \in 1 .. n : TodoOk(q[i], K) /\ Starts(q[i])
    BY <1>1, <1>3, FunctionOk
  <2> QED
    BY <1>5, <1>6, <1>7, <2>1, JoinOk
<1>10. ASSUME NEW r \in Code!Bodies PROVE Has(f[n], Code!At(EntryOf(r)))
  <2>1. PICK i \in 1 .. n : order[i] = r
    BY <1>1
  <2>2. Has(q[i], Code!At(EntryOf(r)))
    BY <1>3, <2>1, FunctionOk
  <2> DEFINE x == Code!At(EntryOf(r))
  <2>3. Has(q[i], x)
    BY <2>2
  <2> HIDE DEF x
  <2>4. Has(f[n], x) <=> \E j \in 1 .. n : Has(q[j], x)
    BY <1>5, <1>6, <1>7, HoldsJoined
  <2>5. Has(f[n], x)
    BY <2>3, <2>4
  <2> QED
    BY <2>5 DEF x
<1> DEFINE st == [i \in 0 .. n |-> State("closed", <<>>, <<>>, After(order, i), Used(order, i))]
<1>11. \A i \in 1 .. n : Path(code_prog, q[i], st[i - 1], st[i])
  <2> SUFFICES ASSUME NEW i \in 1 .. n PROVE Path(code_prog, q[i], st[i - 1], st[i])
    OBVIOUS
  <2>1. Path(code_prog, Code!LowerFunction(order[i]),
             State("closed", <<>>, <<>>, After(order, i - 1), Used(order, i - 1)),
             State("closed", <<>>, <<>>, After(order, i), Used(order, i)))
    BY <1>1, FunctionsPath
  <2>2. /\ st[i - 1] = State("closed", <<>>, <<>>, After(order, i - 1), Used(order, i - 1))
        /\ st[i] = State("closed", <<>>, <<>>, After(order, i), Used(order, i))
    OBVIOUS
  <2> QED
    BY <1>3, <2>1, <2>2
<1>12. /\ st[0] = State("closed", <<>>, <<>>, After(order, 0), Used(order, 0))
       /\ st[n] = State("closed", <<>>, <<>>, After(order, n), Used(order, n))
  BY <1>7
<1>13. After(order, 0) = {} /\ Used(order, 0) = {}
  <2>1. 1 .. 0 = {}
    OBVIOUS
  <2> QED
    BY <2>1 DEF After, Used
<1> HIDE DEF st
<1>14. Path(code_prog, f[n], st[0], st[n])
  BY <1>5, <1>6, <1>7, <1>11, JoinPath
<1>15. Path(code_prog, f[n], State("closed", <<>>, <<>>, {}, {}),
            State("closed", <<>>, <<>>, After(order, n), Used(order, n)))
  BY <1>12, <1>13, <1>14
<1>16. \A x \in Used(order, n) : \E r \in Code!Bodies : x = EntryOf(r) \/ x \in ClaimSet(code_prog, r)
  BY <1>1 DEF Used
<1>17. \A K : Funs(f[n], K)
  BY <1>8, <1>9, <1>10, <1>15, <1>16 DEF Funs
<1> QED
  BY <1>2, <1>6, <1>17

\* How main ends: with the call of Main, when there is one.
MainEnd ==
  IF code_prog.main = 0 THEN << Code!IfOpen(<<Code!Ret>>) >>
  ELSE << Code!Emit(Code!CallMain), Code!Emit(Code!Ret) >>

LEMMA MainIs ==
  Code!LowerMainFunction = (<< Code!At(EntryOf(code_prog.top)) >> \o KidList(code_prog.top)) \o MainEnd
BY DEF Code!LowerMainFunction, MainEnd, KidList, EntryOf

LEMMA TopIs ==
  ASSUME Legal
  PROVE  /\ code_prog.top \in DOMAIN code_prog.node /\ code_prog.node[code_prog.top].up = 0
         /\ code_prog.node[code_prog.top].kind = "compound" /\ code_prog.top \notin Code!Bodies
         /\ Root(code_prog, code_prog.top) = code_prog.top
<1>1. code_prog.top \in DOMAIN code_prog.node
  BY DEF Legal, WellFormed
<1>2. code_prog.top # 0
  BY <1>1, TreeIs DEF Legal
<1>3. code_prog.node[code_prog.top].up = 0 /\ code_prog.node[code_prog.top].kind = "compound"
  BY <1>2 DEF Legal, WellFormed
<1>4. code_prog.top \notin Code!Bodies
  BY DEF Legal, WellFormed, Code!Bodies
<1>5. Root(code_prog, code_prog.top) = code_prog.top
  BY <1>1, <1>3, RootOfBody DEF Legal
<1> QED
  BY <1>1, <1>3, <1>4, <1>5

LEMMA EndPath ==
  ASSUME Legal, NEW z, code_prog.main # 0 => z.o = "open"
  PROVE  /\ IsSeq(MainEnd)
         /\ \E e : Path(code_prog, MainEnd, z, e) /\ e.o = "closed" /\ e.b = z.b /\ e.c = z.c
<1> DEFINE m == State("open", z.b, z.c, z.l, z.u)
           e == State("closed", z.b, z.c, z.l, z.u)
<1>1. /\ m.o = "open" /\ m.b = z.b /\ m.c = z.c /\ m.l = z.l /\ m.u = z.u
      /\ e.o = "closed" /\ e.b = z.b /\ e.c = z.c /\ e.l = z.l /\ e.u = z.u
  BY StateIs
<1> HIDE DEF m, e
<1>2. CASE code_prog.main = 0
  <2> DEFINE a == <<Code!Ret>>
             list == <<Code!IfOpen(a)>>
  <2>1. IsSeq(a) /\ Len(a) = 1 /\ a # <<>> /\ a[1] = Code!Ret
    BY DEF IsSeq
  <2>2. IsSeq(list) /\ Len(list) = 1 /\ list[1] = Code!IfOpen(a)
    BY DEF IsSeq
  <2>3. MainEnd = list
    BY <1>2 DEF MainEnd
  <2> HIDE DEF a, list
  <2>4. \A i \in 1 .. Len(a) : Ending(a[i]) <=> i = Len(a)
    BY <2>1 DEF Ending, Code!Ret
  <2>5. Code!IfOpen(a)[1] = "open" /\ Code!IfOpen(a)[2] = a
    BY DEF Code!IfOpen
  <2>6. Passes(code_prog, Code!IfOpen(a), z, e)
    BY <1>1, <2>1, <2>4, <2>5 DEF Passes
  <2> DEFINE st == <<z, e>>
  <2>7. st[1] = z /\ st[1 + 1] = e
    OBVIOUS
  <2> HIDE DEF st
  <2>8. Steps(code_prog, list, st, z, e)
    BY <2>2, <2>6, <2>7 DEF Steps
  <2> QED
    BY <1>1, <2>2, <2>3, <2>8 DEF Path
<1>3. CASE code_prog.main # 0
  <2> DEFINE i == Code!CallMain
             list == <<Code!Emit(i), Code!Emit(Code!Ret)>>
  <2>1. ~ Ending(i) /\ Ending(Code!Ret)
    BY DEF Ending, Code!CallMain, Code!Ret
  <2>2. MainEnd = list
    BY <1>3 DEF MainEnd
  <2> HIDE DEF i
  <2>3. IsSeq(list) /\ Len(list) = 2 /\ list[1] = Code!Emit(i) /\ list[2] = Code!Emit(Code!Ret)
    BY DEF IsSeq
  <2> HIDE DEF list
  <2>4. \A x : Code!Emit(x)[1] = "emit" /\ Code!Emit(x)[2] = x
    BY DEF Code!Emit
  <2>5. Passes(code_prog, Code!Emit(i), z, m)
    BY <1>1, <1>3, <2>1, <2>4 DEF Passes
  <2>6. Passes(code_prog, Code!Emit(Code!Ret), m, e)
    BY <1>1, <2>1, <2>4 DEF Passes
  <2> DEFINE st == <<z, m, e>>
  <2>7. st[1] = z /\ st[2] = m /\ st[3] = e /\ 1 + 1 = 2 /\ 2 + 1 = 3 /\ 1 .. 2 = {1, 2}
    OBVIOUS
  <2> HIDE DEF st
  <2>8. Steps(code_prog, list, st, z, e)
    BY <2>3, <2>5, <2>6, <2>7 DEF Steps
  <2> QED
    BY <1>1, <2>2, <2>3, <2>8 DEF Path
<1> QED
  BY <1>2, <1>3

\* Main can be compiled, or what stands for it at the top level.
LEMMA MainPath ==
  ASSUME Legal, NEW l, NEW u,
         \A x \in u : \E r \in Code!Bodies : x = EntryOf(r) \/ x \in ClaimSet(code_prog, r)
  PROVE  \E e : /\ Path(code_prog, Code!LowerMainFunction, State("closed", <<>>, <<>>, l, u), e)
                /\ e.o = "closed" /\ e.b = <<>> /\ e.c = <<>>
<1> DEFINE top == code_prog.top
           v == u \cup {EntryOf(top)}
           head == << Code!At(EntryOf(top)) >>
<1>1. /\ top \in DOMAIN code_prog.node /\ code_prog.node[top].up = 0
      /\ code_prog.node[top].kind = "compound" /\ top \notin Code!Bodies
      /\ Root(code_prog, top) = top
  BY TopIs
<1>2. ASSUME NEW r \in Code!Bodies
      PROVE  /\ EntryOf(r) # EntryOf(top)
             /\ ClaimSet(code_prog, top) \cap ClaimSet(code_prog, r) = {}
  <2>1. r # top /\ r \in DOMAIN code_prog.node /\ code_prog.node[r].up = 0
    BY <1>1, BodyIs
  <2> QED
    BY <1>1, <2>1, RootsApart DEF EntryOf
<1>3. EntryOf(top) \notin u /\ ClaimSet(code_prog, top) \cap v = {}
  BY <1>2, EntryFree
<1>4. Passes(code_prog, Code!At(EntryOf(top)), State("closed", <<>>, <<>>, l, u),
             State("open", <<>>, <<>>, l, v))
  BY <1>3, PassAt
<1>5. Fits(top, <<>>, <<>>, l, v)
  BY <1>1, <1>3 DEF Fits
<1>6. LeadsKids(top, <<>>, <<>>, l, v)
  BY <1>1, <1>5, KidsPath
<1> HIDE DEF v
<1>7. PICK z : /\ Path(code_prog, KidList(top), State("open", <<>>, <<>>, l, v), z)
               /\ z.b = <<>> /\ z.c = <<>>
               /\ (\A i \in DOMAIN code_prog.node[top].kids :
                     ~Closes(code_prog, code_prog.node[top].kids[i])) => z.o = "open"
  BY <1>6 DEF LeadsKids
<1>8. IsSeq(KidList(top))
  BY <1>6 DEF LeadsKids
<1>9. code_prog.main # 0 => z.o = "open"
  BY <1>7 DEF Legal, Compilable
<1>10. IsSeq(MainEnd)
  BY <1>9, EndPath
<1>11. PICK e : Path(code_prog, MainEnd, z, e) /\ e.o = "closed" /\ e.b = z.b /\ e.c = z.c
  BY <1>9, EndPath
<1> DEFINE s == State("closed", <<>>, <<>>, l, u)
           m == State("open", <<>>, <<>>, l, v)
<1>12. IsSeq(head) /\ Path(code_prog, head, s, m)
  <2>1. IsSeq(head) /\ Len(head) = 1 /\ head[1] = Code!At(EntryOf(top))
    BY DEF IsSeq
  <2> HIDE DEF head, s, m
  <2>2. Passes(code_prog, head[1], s, m)
    BY <1>4, <2>1 DEF s, m
  <2> DEFINE st == <<s, m>>
  <2>3. st[1] = s /\ st[1 + 1] = m
    OBVIOUS
  <2> HIDE DEF st
  <2>4. Steps(code_prog, head, st, s, m)
    BY <2>1, <2>2, <2>3 DEF Steps
  <2> QED
    BY <2>1, <2>4 DEF Path
<1> HIDE DEF head
<1>13. Path(code_prog, KidList(top), m, z)
  BY <1>7
<1> HIDE DEF s, m
<1>14. Path(code_prog, head \o KidList(top), s, z) /\ IsSeq(head \o KidList(top))
  BY <1>8, <1>12, <1>13, PathConcat, ConcatIs
<1>15. Path(code_prog, (head \o KidList(top)) \o MainEnd, s, e)
  BY <1>10, <1>11, <1>14, PathConcat
<1>16. Code!LowerMainFunction = (head \o KidList(top)) \o MainEnd
  BY MainIs DEF head
<1>17. e.o = "closed" /\ e.b = <<>> /\ e.c = <<>>
  BY <1>7, <1>11
<1>18. Path(code_prog, Code!LowerMainFunction, s, e)
  BY <1>15, <1>16
<1> QED
  BY <1>17, <1>18 DEF s

LEMMA MainOk ==
  ASSUME Legal, NEW K, code_prog.main # 0 => EntryOf(code_prog.main) \in K
  PROVE  /\ IsSeq(Code!LowerMainFunction) /\ TodoOk(Code!LowerMainFunction, K)
         /\ Code!LowerMainFunction # <<>> /\ Code!LowerMainFunction[1][1] = "at"
         /\ Has(Code!LowerMainFunction, Code!At(EntryOf(code_prog.top)))
<1> DEFINE top == code_prog.top
           head == << Code!At(EntryOf(top)) >>
<1>1. IsSeq(head) /\ Len(head) = 1 /\ head[1] = Code!At(EntryOf(top))
  BY DEF IsSeq
<1>2. IsSeq(KidList(top)) /\ TodoOk(KidList(top), K)
  BY TopIs, KidsSettle, AllFineOk
<1>3. IsSeq(MainEnd)
  <2>1. CASE code_prog.main = 0
    <3>1. IsSeq(<< Code!IfOpen(<<Code!Ret>>) >>)
      BY DEF IsSeq
    <3> QED
      BY <2>1, <3>1 DEF MainEnd
  <2>2. CASE code_prog.main # 0
    <3>1. IsSeq(<< Code!Emit(Code!CallMain), Code!Emit(Code!Ret) >>)
      BY DEF IsSeq
    <3> QED
      BY <2>2, <3>1 DEF MainEnd
  <2> QED
    BY <2>1, <2>2
<1>4. TodoOk(MainEnd, K)
  <2>1. CASE code_prog.main = 0
    <3> DEFINE a == <<Code!Ret>>
               q == << Code!IfOpen(a) >>
    <3>1. Len(a) = 1 /\ a[1] = Code!Ret /\ Len(q) = 1 /\ q[1] = Code!IfOpen(a)
      OBVIOUS
    <3>2. MainEnd = q
      BY <2>1 DEF MainEnd
    <3> HIDE DEF a, q
    <3>3. Code!IfOpen(a)[1] = "open" /\ Code!IfOpen(a)[2] = a
      BY DEF Code!IfOpen
    <3>4. NamesIn(Code!Ret, K)
      BY DEF NamesIn, Code!Ret
    <3>5. \A i \in 1 .. Len(a) : NamesIn(a[i], K)
      BY <3>1, <3>4
    <3>6. Fine(Code!IfOpen(a), K)
      BY <3>3, <3>5 DEF Fine
    <3>7. AllFine(q, K)
      BY <3>1, <3>6 DEF AllFine
    <3> QED
      BY <3>2, <3>7, AllFineOk
  <2>2. CASE code_prog.main # 0
    <3> DEFINE i == Code!CallMain
               q == << Code!Emit(i), Code!Emit(Code!Ret) >>
    <3>1. NamesIn(i, K)
      BY <2>2 DEF NamesIn, Code!CallMain, EntryOf
    <3>2. MainEnd = q
      BY <2>2 DEF MainEnd
    <3> HIDE DEF i
    <3>3. Len(q) = 2 /\ q[1] = Code!Emit(i) /\ q[2] = Code!Emit(Code!Ret) /\ 1 .. 2 = {1, 2}
      OBVIOUS
    <3> HIDE DEF q
    <3>4. Code!Emit(i)[1] = "emit" /\ Code!Emit(i)[2] = i
      BY DEF Code!Emit
    <3>5. Fine(Code!Emit(i), K)
      BY <3>1, <3>4 DEF Fine
    <3>6. Fine(Code!Emit(Code!Ret), K)
      BY FineTasks
    <3>7. AllFine(q, K)
      BY <3>3, <3>5, <3>6 DEF AllFine
    <3> QED
      BY <3>2, <3>7, AllFineOk
  <2> QED
    BY <2>1, <2>2
<1>5. TodoOk(head, K)
  <2> HIDE DEF head
  <2>1. Fine(Code!At(EntryOf(top)), K)
    BY FineTasks
  <2>2. AllFine(head, K)
    BY <1>1, <2>1 DEF AllFine
  <2> QED
    BY <2>2, AllFineOk
<1> DEFINE x == Code!At(EntryOf(top))
<1>6. Has(head, x) /\ head # <<>> /\ x[1] = "at"
  <2>1. x[1] = "at"
    BY DEF Code!At
  <2> HIDE DEF x
  <2> QED
    BY <1>1, <2>1 DEF Has, x
<1>7. Code!LowerMainFunction = (head \o KidList(top)) \o MainEnd
  BY MainIs
<1> HIDE DEF head, x
<1> DEFINE q == head \o KidList(top)
<1>8. IsSeq(q) /\ TodoOk(q, K) /\ Len(q) >= 1 /\ q[1] = head[1]
  <2>1. IsSeq(q) /\ Len(q) = Len(head) + Len(KidList(top)) /\ Len(KidList(top)) \in Nat
    BY <1>1, <1>2, ConcatIs, SeqIs
  <2>2. 1 \in 1 .. Len(head)
    BY <1>1
  <2>3. q[1] = head[1]
    BY <1>1, <1>2, <2>2, ConcatIs
  <2>4. TodoOk(q, K)
    BY <1>1, <1>2, <1>5, TodoConcat
  <2> QED
    BY <1>1, <2>1, <2>3, <2>4
<1>9. Has(q, x)
  BY <1>1, <1>2, <1>6, HoldsConcat
<1> HIDE DEF q
<1> DEFINE r == q \o MainEnd
<1>10. IsSeq(r) /\ TodoOk(r, K) /\ Has(r, x)
  BY <1>3, <1>4, <1>8, <1>9, ConcatIs, TodoConcat, HoldsConcat
<1>11. r # <<>> /\ r[1] = q[1]
  <2>1. Len(r) = Len(q) + Len(MainEnd) /\ Len(MainEnd) \in Nat /\ Len(q) \in Nat
    BY <1>3, <1>8, ConcatIs, SeqIs
  <2>2. 1 \in 1 .. Len(q)
    BY <1>8, <2>1
  <2>3. r[1] = q[1]
    BY <1>3, <1>8, <2>2, ConcatIs
  <2>4. r # <<>>
    BY <1>8, <1>10, <2>1, SeqIs
  <2> QED
    BY <2>3, <2>4
<1>12. r[1][1] = "at"
  BY <1>1, <1>6, <1>8, <1>11 DEF x
<1>13. Code!LowerMainFunction = r
  BY <1>7 DEF q, r
<1> HIDE DEF r
<1> QED
  BY <1>10, <1>11, <1>12, <1>13 DEF x

\* Before the first step the invariant of the compiler holds.
LEMMA CompilingInit ==
  ASSUME Legal
  PROVE  Compiling(Code!Generate, <<>>, <<>>, <<>>, <<>>)
<1> DEFINE g == Code!Generate
           K == KnownIn(g, <<>>)
           main == Code!LowerMainFunction
<1>1. PICK f : g = f \o main /\ \A L : Funs(f, L)
  BY FunsAre
<1> HIDE DEF g
<1>2. IsSeq(f) /\ Starts(f)
      /\ \A r \in Code!Bodies : Has(f, Code!At(EntryOf(r)))
  BY <1>1 DEF Funs
<1>3. PICK l, u : /\ Path(code_prog, f, State("closed", <<>>, <<>>, {}, {}),
                         State("closed", <<>>, <<>>, l, u))
                  /\ \A x \in u : \E r \in Code!Bodies : x = EntryOf(r) \/ x \in ClaimSet(code_prog, r)
  BY <1>1 DEF Funs
<1>4. IsSeq(main) /\ main # <<>> /\ main[1][1] = "at"
      /\ Has(main, Code!At(EntryOf(code_prog.top)))
  <2> DEFINE L == {EntryOf(code_prog.main)}
  <2>1. code_prog.main # 0 => EntryOf(code_prog.main) \in L
    OBVIOUS
  <2> HIDE DEF L
  <2> QED
    BY <2>1, MainOk
<1>5. Made(g) = Made(f) \cup Made(main)
  BY <1>1, <1>2, <1>4, MadeConcat
<1>6. ASSUME NEW r \in Roots PROVE EntryOf(r) \in K
  <2>1. r \in Code!Bodies \/ r = code_prog.top
    BY DEF Roots
  <2>2. EntryOf(r) \in Made(f) \cup Made(main)
    BY <1>2, <1>4, <2>1, HeldAt
  <2> QED
    BY <1>5, <2>2 DEF KnownIn
<1>7. Entries(K)
  BY <1>6 DEF Entries
<1>8. TodoOk(g, K)
  <2>1. code_prog.main # 0 => code_prog.main \in Roots
    BY DEF Roots, Code!Bodies
  <2>2. code_prog.main # 0 => EntryOf(code_prog.main) \in K
    BY <1>6, <2>1
  <2> HIDE DEF K, main
  <2>3. TodoOk(main, K)
    BY <2>2, MainOk DEF main
  <2>4. TodoOk(f, K)
    BY <1>1 DEF Funs
  <2> QED
    BY <1>1, <1>2, <1>4, <2>3, <2>4, TodoConcat
<1>9. PICK e : /\ Path(code_prog, main, State("closed", <<>>, <<>>, l, u), e)
               /\ e.o = "closed" /\ e.b = <<>> /\ e.c = <<>>
  BY <1>3, MainPath
<1> HIDE DEF main
<1> DEFINE s == State("closed", <<>>, <<>>, {}, {})
<1>10. Path(code_prog, g, s, e)
  BY <1>1, <1>2, <1>3, <1>4, <1>9, PathConcat
<1>11. s.o = "closed" /\ s.b = <<>> /\ s.c = <<>> /\ s.l = {} /\ s.u = {}
  BY StateIs
<1> HIDE DEF s
<1>12. DOMAIN << >> = {}
  OBVIOUS
<1>13. Now(s, <<>>, <<>>, <<>>, <<>>)
  <2> DEFINE c == << >>
  <2>1. DOMAIN c = {}
    BY <1>12
  <2> HIDE DEF c
  <2>2. Now(s, c, <<>>, <<>>, <<>>)
    BY <1>11, <2>1 DEF Now
  <2> QED
    BY <2>2 DEF c
<1>14. Follows(g, <<>>, <<>>, <<>>, <<>>)
  BY <1>9, <1>10, <1>13 DEF Follows
<1>15. IsSeq(g)
  BY <1>1, <1>2, <1>4, ConcatIs
<1>16. g # <<>> /\ g[1][1] = "at"
  <2>1. Starts(g)
    BY <1>1, <1>2, <1>4, StartsConcat DEF Starts
  <2>2. Len(g) = Len(f) + Len(main) /\ Len(f) \in Nat /\ Len(main) \in Nat /\ Len(main) # 0
    BY <1>1, <1>2, <1>4, ConcatIs, SeqIs
  <2>3. g # <<>>
    BY <1>15, <2>2, SeqIs
  <2> QED
    BY <2>1, <2>3 DEF Starts
<1>17. Built(<<>>) /\ Unmade(g, <<>>, <<>>) /\ AllNamed(<<>>, K)
  <2> DEFINE c == << >>
  <2>1. DOMAIN c = {}
    BY <1>12
  <2> HIDE DEF c, K
  <2>2. Built(c) /\ Unmade(g, c, <<>>) /\ AllNamed(c, K)
    BY <2>1 DEF Built, Unmade, AllNamed
  <2> QED
    BY <2>2 DEF c
<1>18. << >> \in Seq(K \cap Plain)
  OBVIOUS
<1>19. Compiling(g, <<>>, <<>>, <<>>, <<>>)
  BY <1>7, <1>8, <1>14, <1>15, <1>16, <1>17, <1>18 DEF Compiling
<1> QED
  BY <1>19 DEF g

-----------------------------------------------------------------------------
(* The code of a module that is compiled, and how it runs.                 *)

\* Every block ends with its only ending instruction and names blocks that exist.
Verified(c) ==
  /\ Entries(DOMAIN c)
  /\ \A x \in DOMAIN c :
       /\ IsSeq(c[x]) /\ c[x] # <<>>
       /\ \A i \in 1 .. Len(c[x]) : /\ Ending(c[x][i]) <=> i = Len(c[x])
                                    /\ NamesIn(c[x][i], DOMAIN c)

\* When nothing is left to do, the code is verified.
LEMMA CompiledIs ==
  ASSUME NEW c, NEW x, NEW b, NEW d, Compiling(<<>>, c, x, b, d)
  PROVE  Verified(c) /\ b = <<>> /\ d = <<>>
<1> DEFINE q == << >>
<1>1. Len(q) = 0 /\ q = << >>
  OBVIOUS
<1>2. Compiling(q, c, x, b, d)
  OBVIOUS
<1>3. \A p, s, e : Path(p, q, s, e) => s = e
  BY PathNil
<1> HIDE DEF q
<1>4. Made(q) = {}
  <2>1. 1 .. 0 = {}
    OBVIOUS
  <2> QED
    BY <1>1, <2>1 DEF Made
<1>5. KnownIn(q, c) = DOMAIN c
  BY <1>4 DEF KnownIn
<1>6. PICK s : Now(s, c, x, b, d) /\ s.o = "closed" /\ s.b = <<>> /\ s.c = <<>>
  <2>1. Follows(q, c, x, b, d)
    BY <1>2 DEF Compiling
  <2>2. PICK s, e : /\ Path(code_prog, q, s, e) /\ Now(s, c, x, b, d)
                    /\ e.o = "closed" /\ e.b = <<>> /\ e.c = <<>>
    BY <2>1 DEF Follows
  <2> QED
    BY <1>3, <2>2
<1>7. b = <<>> /\ d = <<>> /\ (x \in DOMAIN c => Closed(c, x))
  BY <1>6 DEF Now
<1>8. Built(c) /\ Unmade(q, c, x) /\ AllNamed(c, DOMAIN c) /\ Entries(DOMAIN c)
  BY <1>2, <1>5 DEF Compiling
<1>9. ASSUME NEW y \in DOMAIN c PROVE Closed(c, y)
  BY <1>4, <1>7, <1>8 DEF Unmade
<1>10. ASSUME NEW y \in DOMAIN c
       PROVE  /\ IsSeq(c[y]) /\ c[y] # <<>>
              /\ \A i \in 1 .. Len(c[y]) : /\ Ending(c[y][i]) <=> i = Len(c[y])
                                           /\ NamesIn(c[y][i], DOMAIN c)
  <2>1. IsSeq(c[y]) /\ \A i \in 1 .. Len(c[y]) : Ending(c[y][i]) => i = Len(c[y])
    BY <1>8 DEF Built
  <2>2. c[y] # <<>> /\ Ending(c[y][Len(c[y])])
    BY <1>9 DEF Closed
  <2>3. \A i \in 1 .. Len(c[y]) : NamesIn(c[y][i], DOMAIN c)
    BY <1>8 DEF AllNamed
  <2> QED
    BY <2>1, <2>2, <2>3
<1> QED
  BY <1>7, <1>8, <1>10 DEF Verified

\* An activation a stands at an instruction of its block.
Poised(c, a) ==
  /\ a \in [blk : DOMAIN c, i : Int, pt : {a.pt}]
  /\ a.i \in 1 .. Len(c[a.blk])

\* A try that was entered by one of the d activations has its catch block.
Catching(c, d, t) ==
  /\ t \in [frame : Int, try : {t.try}]
  /\ t.frame \in 0 .. d /\ <<t.try, "catch">> \in DOMAIN c

\* Every call stands at an instruction, and every try entered has its catch.
Running(c, s, t) ==
  /\ IsSeq(s) /\ IsSeq(t)
  /\ \A k \in 1 .. Len(s) : Poised(c, s[k])
  /\ \A k \in 1 .. Len(t) : Catching(c, Len(s), t[k])

\* The program does not change.
LEMMA SameProgram ==
  ASSUME code_prog' = code_prog
  PROVE  /\ Plain' = Plain /\ Roots' = Roots
         /\ \A n : LabelsUnder(n)' = LabelsUnder(n)
BY DEF Plain, Roots, Code!Bodies, LabelsUnder

LEMMA SameKnown ==
  ASSUME code_prog' = code_prog
  PROVE  /\ Made(todo)' = Made(todo')
         /\ KnownIn(todo, code)' = KnownIn(todo', code')
BY SameProgram DEF KnownIn, Made, Makes

LEMMA SameTodo ==
  ASSUME code_prog' = code_prog, NEW K, TodoOk(todo', K)
  PROVE  TodoOk(todo, K)'
<1>1. ASSUME NEW i \in 1 .. Len(todo'), TaskOk(todo', i, K) PROVE TaskOk(todo, i, K)'
  <2>1. CASE Fine((todo')[i], K)
    BY <2>1, SameProgram DEF TaskOk, Fine
  <2>2. CASE ~ Fine((todo')[i], K)
    BY <1>1, <2>2 DEF TaskOk, Code!Stmt
  <2> QED
    BY <2>1, <2>2
<1> QED
  BY <1>1 DEF TodoOk

LEMMA SameFollows ==
  ASSUME code_prog' = code_prog, Follows(todo', code', ins', breakTo', continueTo')
  PROVE  Follows(todo, code, ins, breakTo, continueTo)'
BY DEF Follows, Now, Closed

LEMMA SameCompiling ==
  ASSUME code_prog' = code_prog, Compiling(todo', code', ins', breakTo', continueTo')
  PROVE  Compiling(todo, code, ins, breakTo, continueTo)'
<1> DEFINE K == KnownIn(todo', code')
<1>1. /\ IsSeq(todo') /\ Built(code') /\ Unmade(todo', code', ins')
      /\ AllNamed(code', K) /\ TodoOk(todo', K) /\ Entries(K)
      /\ breakTo' \in Seq(K \cap Plain) /\ continueTo' \in Seq(K \cap Plain)
      /\ ins' \in DOMAIN code' \/ (todo' # <<>> /\ (todo')[1][1] = "at")
      /\ Follows(todo', code', ins', breakTo', continueTo')
  BY DEF Compiling
<1>2. K = KnownIn(todo, code)' /\ Plain' = Plain /\ Roots' = Roots
  BY SameKnown, SameProgram
<1>3. TodoOk(todo, KnownIn(todo, code))'
  BY <1>1, <1>2, SameTodo
<1>4. Follows(todo, code, ins, breakTo, continueTo)'
  BY <1>1, SameFollows
<1>5. Unmade(todo, code, ins)'
  BY <1>1, SameKnown DEF Unmade, Closed
<1>6. Entries(KnownIn(todo, code))'
  BY <1>1, <1>2 DEF Entries
<1>7. AllNamed(code, KnownIn(todo, code))'
  BY <1>1, <1>2 DEF AllNamed
<1>8. Built(code)' /\ IsSeq(todo)'
  BY <1>1 DEF Built, IsSeq
<1>9. /\ breakTo' \in Seq(KnownIn(todo, code) \cap Plain)'
      /\ continueTo' \in Seq(KnownIn(todo, code) \cap Plain)'
  BY <1>1, <1>2
<1> HIDE DEF K
<1> QED
  BY <1>1, <1>3, <1>4, <1>5, <1>6, <1>7, <1>8, <1>9 DEF Compiling

\* An activation later in its block.
Stepped(a, i) == [a EXCEPT !.i = i]

\* An activation that noted what it passed.
Noting(a, p) == [a EXCEPT !.pt = p]

\* An activation at the start of a block.
Into(a, b) == [a EXCEPT !.blk = b, !.i = 1]

LEMMA PoisedIs ==
  ASSUME NEW c, NEW a, Poised(c, a)
  PROVE  /\ a.blk \in DOMAIN c /\ a.i \in 1 .. Len(c[a.blk])
         /\ \A b \in DOMAIN c : Len(c[b]) \in Nat /\ Len(c[b]) # 0 => Poised(c, Into(a, b))
         /\ \A i \in 1 .. Len(c[a.blk]) :
              Poised(c, Stepped(a, i)) /\ \A p : Poised(c, Noting(Stepped(a, i), p))
<1>1. a \in [blk : DOMAIN c, i : Int, pt : {a.pt}] /\ a.blk \in DOMAIN c /\ a.i \in 1 .. Len(c[a.blk])
  BY DEF Poised
<1>2. ASSUME NEW b \in DOMAIN c, Len(c[b]) \in Nat, Len(c[b]) # 0
      PROVE  Poised(c, Into(a, b))
  <2> DEFINE s == [a EXCEPT !.blk = b]
             r == [s EXCEPT !.i = 1]
  <2>1. s \in [blk : DOMAIN c, i : Int, pt : {a.pt}] /\ s.blk = b /\ s.pt = a.pt
    BY <1>1
  <2> HIDE DEF s
  <2>2. r \in [blk : DOMAIN c, i : Int, pt : {a.pt}] /\ r.blk = b /\ r.i = 1 /\ r.pt = a.pt
    BY <2>1
  <2> HIDE DEF r
  <2>3. 1 \in 1 .. Len(c[b])
    BY <1>2
  <2>4. Poised(c, r)
    BY <2>2, <2>3 DEF Poised
  <2>5. r = Into(a, b)
    BY DEF r, s, Into
  <2> QED
    BY <2>4, <2>5
<1>3. ASSUME NEW i \in 1 .. Len(c[a.blk]), NEW p
      PROVE  Poised(c, Stepped(a, i)) /\ Poised(c, Noting(Stepped(a, i), p))
  <2> DEFINE r == Stepped(a, i)
  <2>1. r \in [blk : DOMAIN c, i : Int, pt : {a.pt}] /\ r.blk = a.blk /\ r.i = i /\ r.pt = a.pt
    BY <1>1 DEF Stepped
  <2> HIDE DEF r
  <2>2. Poised(c, r)
    BY <2>1 DEF Poised
  <2> DEFINE s == Noting(r, p)
  <2>3. s \in [blk : DOMAIN c, i : Int, pt : {p}] /\ s.blk = a.blk /\ s.i = i /\ s.pt = p
    BY <2>1 DEF Noting
  <2> HIDE DEF s
  <2>4. Poised(c, s)
    BY <1>1, <2>3 DEF Poised
  <2> QED
    BY <2>2, <2>4 DEF r, s
<1> QED
  BY <1>1, <1>2, <1>3

LEMMA PoisedAt ==
  ASSUME NEW c, NEW b \in DOMAIN c, NEW i \in 1 .. Len(c[b]), NEW p
  PROVE  Poised(c, [blk |-> b, i |-> i, pt |-> p])
<1> DEFINE r == [blk |-> b, i |-> i, pt |-> p]
<1>1. r \in [blk : DOMAIN c, i : Int, pt : {p}] /\ r.blk = b /\ r.i = i /\ r.pt = p
  OBVIOUS
<1> HIDE DEF r
<1>2. Poised(c, r)
  BY <1>1 DEF Poised
<1> QED
  BY <1>2 DEF r

LEMMA CatchingIs ==
  ASSUME NEW c, NEW d \in Nat, NEW t, Catching(c, d, t)
  PROVE  /\ t.frame \in 0 .. d /\ <<t.try, "catch">> \in DOMAIN c
         /\ \A e \in Nat : t.frame <= e => Catching(c, e, t)
         /\ \A e \in Nat : Catching(c, e, [t EXCEPT !.frame = 0])
<1>1. /\ t \in [frame : Int, try : {t.try}]
      /\ t.frame \in 0 .. d /\ <<t.try, "catch">> \in DOMAIN c
  BY DEF Catching
<1>2. ASSUME NEW e \in Nat, t.frame <= e PROVE Catching(c, e, t)
  <2>1. t.frame \in 0 .. e
    BY <1>1, <1>2
  <2> QED
    BY <1>1, <2>1 DEF Catching
<1>3. ASSUME NEW e \in Nat PROVE Catching(c, e, [t EXCEPT !.frame = 0])
  <2> DEFINE r == [t EXCEPT !.frame = 0]
  <2>1. r \in [frame : Int, try : {t.try}] /\ r.frame = 0 /\ r.try = t.try
    BY <1>1
  <2>2. 0 \in 0 .. e
    OBVIOUS
  <2> HIDE DEF r
  <2>3. Catching(c, e, r)
    BY <1>1, <2>1, <2>2 DEF Catching
  <2> QED
    BY <2>3 DEF r
<1> QED
  BY <1>1, <1>2, <1>3

LEMMA CatchingAt ==
  ASSUME NEW c, NEW d \in Nat, NEW k \in 0 .. d, NEW n, <<n, "catch">> \in DOMAIN c
  PROVE  Catching(c, d, [frame |-> k, try |-> n])
<1> DEFINE r == [frame |-> k, try |-> n]
<1>1. r \in [frame : Int, try : {n}] /\ r.frame = k /\ r.try = n
  OBVIOUS
<1> HIDE DEF r
<1>2. Catching(c, d, r)
  BY <1>1 DEF Catching
<1> QED
  BY <1>2 DEF r

\* The first d elements of a sequence.
LEMMA FirstOf ==
  ASSUME NEW s, IsSeq(s), NEW d \in 0 .. Len(s)
  PROVE  /\ IsSeq(SubSeq(s, 1, d)) /\ Len(SubSeq(s, 1, d)) = d
         /\ \A i \in 1 .. d : SubSeq(s, 1, d)[i] = s[i]
<1> DEFINE S == {s[i] : i \in DOMAIN s}
           r == SubSeq(s, 1, d)
<1>1. s \in Seq(S) /\ Len(s) \in Nat
  BY DEF IsSeq
<1>2. r \in Seq(S) /\ Len(r) = d /\ \A i \in 1 .. d : r[i] = s[i]
  <2> HIDE DEF S
  <2> QED
    BY <1>1
<1>3. IsSeq(r)
  <2> HIDE DEF r, S
  <2> QED
    BY <1>2, AnySeq
<1> QED
  BY <1>2, <1>3

LEMMA AddedTo ==
  ASSUME NEW s, IsSeq(s), NEW a
  PROVE  /\ IsSeq(Append(s, a)) /\ Len(Append(s, a)) = Len(s) + 1
         /\ \A i \in 1 .. Len(s) : Append(s, a)[i] = s[i]
         /\ Append(s, a)[Len(s) + 1] = a
         /\ Append(s, a) # <<>>
<1> DEFINE S == {s[i] : i \in DOMAIN s} \cup {a}
           r == Append(s, a)
<1>1. s \in Seq(S) /\ a \in S
  <2>1. s \in Seq({s[i] : i \in DOMAIN s})
    BY DEF IsSeq
  <2> QED
    BY <2>1
<1>2. r \in Seq(S) /\ Len(r) = Len(s) + 1 /\ r[Len(s) + 1] = a /\ \A i \in 1 .. Len(s) : r[i] = s[i]
  <2> HIDE DEF S
  <2> QED
    BY <1>1
<1>3. IsSeq(r) /\ r # <<>>
  <2>1. Len(s) \in Nat
    BY SeqIs
  <2>2. IsSeq(r)
    <3> HIDE DEF r, S
    <3> QED
      BY <1>2, AnySeq
  <2> HIDE DEF r, S
  <2> QED
    BY <1>2, <2>1, <2>2, SeqIs
<1> QED
  BY <1>2, <1>3

\* The innermost call moves on.
LEMMA MovedOn ==
  ASSUME NEW c, NEW s, NEW t, Running(c, s, t), s # <<>>, NEW a, Poised(c, a)
  PROVE  LET r == Append(SubSeq(s, 1, Len(s) - 1), a)
         IN  Running(c, r, t) /\ r # <<>> /\ Len(r) = Len(s)
<1> DEFINE f == SubSeq(s, 1, Len(s) - 1)
           r == Append(f, a)
<1>1. IsSeq(s) /\ Len(s) \in Nat /\ Len(s) # 0
  BY SeqIs DEF Running
<1>2. Len(s) - 1 \in 0 .. Len(s) /\ (Len(s) - 1) + 1 = Len(s)
  BY <1>1
<1>3. IsSeq(f) /\ Len(f) = Len(s) - 1 /\ \A i \in 1 .. Len(s) - 1 : f[i] = s[i]
  BY <1>1, <1>2, FirstOf
<1> HIDE DEF f
<1>4. /\ IsSeq(r) /\ Len(r) = Len(f) + 1 /\ r[Len(f) + 1] = a /\ r # <<>>
      /\ \A i \in 1 .. Len(f) : r[i] = f[i]
  BY <1>3, AddedTo
<1> HIDE DEF r
<1>5. ASSUME NEW k \in 1 .. Len(r) PROVE Poised(c, r[k])
  <2>1. CASE k = Len(s)
    BY <1>2, <1>3, <1>4, <2>1
  <2>2. CASE k # Len(s)
    <3>3. k \in Int /\ 1 <= k /\ k <= Len(s)
      BY <1>2, <1>3, <1>4
    <3>1. k \in 1 .. Len(f) /\ k \in 1 .. Len(s) /\ k \in 1 .. Len(s) - 1
      BY <1>1, <1>3, <2>2, <3>3
    <3>2. r[k] = s[k]
      BY <1>3, <1>4, <3>1
    <3> QED
      BY <3>1, <3>2 DEF Running
  <2> QED
    BY <2>1, <2>2
<1>6. Len(r) = Len(s)
  BY <1>2, <1>3, <1>4
<1>7. Running(c, r, t)
  BY <1>4, <1>5, <1>6 DEF Running
<1> QED
  BY <1>4, <1>6, <1>7 DEF r, f

\* The calls after the first d are over.
LEMMA CutTo ==
  ASSUME NEW c, NEW s, NEW t, Running(c, s, t), NEW d \in 0 .. Len(s)
  PROVE  Running(c, SubSeq(s, 1, d), Code!Dangling(t, d))
<1> DEFINE r == SubSeq(s, 1, d)
           u == Code!Dangling(t, d)
<1>1. IsSeq(s) /\ IsSeq(t) /\ Len(s) \in Nat /\ Len(t) \in Nat /\ DOMAIN t = 1 .. Len(t) /\ d \in Nat
  BY SeqIs DEF Running
<1>2. IsSeq(r) /\ Len(r) = d /\ \A i \in 1 .. d : r[i] = s[i]
  BY <1>1, FirstOf
<1>3. /\ IsSeq(u) /\ Len(u) = Len(t)
      /\ \A k \in 1 .. Len(t) : u[k] = IF t[k].frame > d THEN [t[k] EXCEPT !.frame = 0] ELSE t[k]
  <2> DEFINE e(k) == IF t[k].frame > d THEN [t[k] EXCEPT !.frame = 0] ELSE t[k]
  <2>1. u = [k \in 1 .. Len(t) |-> e(k)]
    BY <1>1 DEF Code!Dangling
  <2>2. u \in Seq({e(k) : k \in 1 .. Len(t)}) /\ Len(u) = Len(t) /\ \A k \in 1 .. Len(t) : u[k] = e(k)
    <3> HIDE DEF u, e
    <3> QED
      BY <1>1, <2>1
  <2>3. IsSeq(u)
    <3> HIDE DEF u, e
    <3> QED
      BY <2>2, AnySeq
  <2> QED
    BY <2>2, <2>3
<1> HIDE DEF r, u
<1>4. ASSUME NEW k \in 1 .. Len(r) PROVE Poised(c, r[k])
  <2>1. k \in 1 .. Len(s) /\ r[k] = s[k]
    BY <1>1, <1>2
  <2> QED
    BY <2>1 DEF Running
<1>5. ASSUME NEW k \in 1 .. Len(u) PROVE Catching(c, d, u[k])
  <2>1. k \in 1 .. Len(t) /\ Catching(c, Len(s), t[k])
    BY <1>3 DEF Running
  <2>2. t[k].frame \in 0 .. Len(s)
    BY <1>1, <2>1, CatchingIs
  <2>3. CASE t[k].frame > d
    <3>1. u[k] = [t[k] EXCEPT !.frame = 0]
      BY <1>3, <2>1, <2>3
    <3> QED
      BY <1>1, <2>1, <3>1, CatchingIs
  <2>4. CASE ~ (t[k].frame > d)
    <3>2. u[k] = t[k]
      BY <1>3, <2>1, <2>4
    <3>3. t[k].frame <= d
      BY <1>1, <2>2, <2>4
    <3>1. u[k] = t[k] /\ t[k].frame <= d
      BY <3>2, <3>3
    <3> QED
      BY <1>1, <2>1, <3>1, CatchingIs
  <2> QED
    BY <2>3, <2>4
<1>6. Running(c, r, u)
  BY <1>2, <1>3, <1>4, <1>5 DEF Running
<1> QED
  BY <1>6 DEF r, u

\* The last try is left.
LEMMA TryLeft ==
  ASSUME NEW c, NEW s, NEW t, Running(c, s, t), t # <<>>
  PROVE  Running(c, s, SubSeq(t, 1, Len(t) - 1))
<1> DEFINE u == SubSeq(t, 1, Len(t) - 1)
<1>1. IsSeq(t) /\ Len(t) \in Nat /\ Len(t) # 0
  BY SeqIs DEF Running
<1>2. Len(t) - 1 \in 0 .. Len(t)
  BY <1>1
<1>3. IsSeq(u) /\ Len(u) = Len(t) - 1 /\ \A i \in 1 .. Len(t) - 1 : u[i] = t[i]
  BY <1>1, <1>2, FirstOf
<1> HIDE DEF u
<1>4. ASSUME NEW k \in 1 .. Len(u) PROVE Catching(c, Len(s), u[k])
  <2>1. k \in 1 .. Len(t) /\ u[k] = t[k]
    BY <1>1, <1>3
  <2> QED
    BY <2>1 DEF Running
<1>5. Running(c, s, u)
  BY <1>3, <1>4 DEF Running
<1> QED
  BY <1>5 DEF u

\* A try is entered.
LEMMA TryEntered ==
  ASSUME NEW c, NEW s, NEW t, Running(c, s, t), NEW x, Catching(c, Len(s), x)
  PROVE  Running(c, s, Append(t, x))
<1> DEFINE u == Append(t, x)
<1>1. IsSeq(t) /\ Len(t) \in Nat
  BY SeqIs DEF Running
<1>2. IsSeq(u) /\ Len(u) = Len(t) + 1 /\ u[Len(t) + 1] = x /\ \A i \in 1 .. Len(t) : u[i] = t[i]
  BY <1>1, AddedTo
<1> HIDE DEF u
<1>3. ASSUME NEW k \in 1 .. Len(u) PROVE Catching(c, Len(s), u[k])
  <2>1. CASE k = Len(t) + 1
    BY <1>2, <2>1
  <2>2. CASE k # Len(t) + 1
    <3>1. k \in 1 .. Len(t)
      BY <1>1, <1>2, <2>2
    <3> QED
      BY <1>2, <3>1 DEF Running
  <2> QED
    BY <2>1, <2>2
<1>4. Running(c, s, u)
  BY <1>2, <1>3 DEF Running
<1> QED
  BY <1>4 DEF u

\* A call begins.
LEMMA CallBegun ==
  ASSUME NEW c, NEW s, NEW t, Running(c, s, t), NEW a, Poised(c, a)
  PROVE  Running(c, s \o <<a>>, t) /\ s \o <<a>> # <<>>
<1> DEFINE r == Append(s, a)
<1>1. IsSeq(s) /\ Len(s) \in Nat /\ IsSeq(t) /\ Len(s) + 1 \in Nat
  BY SeqIs DEF Running
<1>2. IsSeq(r) /\ Len(r) = Len(s) + 1 /\ r[Len(s) + 1] = a /\ r # <<>> /\ \A i \in 1 .. Len(s) : r[i] = s[i]
  BY <1>1, AddedTo
<1>3. s \o <<a>> = r
  <2> DEFINE S == {s[i] : i \in DOMAIN s} \cup {a}
  <2>1. s \in Seq({s[i] : i \in DOMAIN s})
    BY <1>1 DEF IsSeq
  <2>2. s \in Seq(S) /\ a \in S
    BY <2>1
  <2> HIDE DEF S
  <2> QED
    BY <2>2
<1> HIDE DEF r
<1>4. ASSUME NEW k \in 1 .. Len(r) PROVE Poised(c, r[k])
  <2>1. CASE k = Len(s) + 1
    BY <1>2, <2>1
  <2>2. CASE k # Len(s) + 1
    <3>1. k \in 1 .. Len(s)
      BY <1>1, <1>2, <2>2
    <3> QED
      BY <1>2, <3>1 DEF Running
  <2> QED
    BY <2>1, <2>2
<1>5. ASSUME NEW k \in 1 .. Len(t) PROVE Catching(c, Len(r), t[k])
  <2>1. Catching(c, Len(s), t[k])
    BY DEF Running
  <2>2. t[k].frame \in 0 .. Len(s)
    BY <1>1, <2>1, CatchingIs
  <2>3. t[k].frame <= Len(s) + 1
    BY <1>1, <2>2
  <2> QED
    BY <1>1, <1>2, <2>1, <2>3, CatchingIs
<1>6. Running(c, r, t)
  BY <1>1, <1>2, <1>4, <1>5 DEF Running
<1> QED
  BY <1>2, <1>3, <1>6

\* The step is one of the run, and leaves it able to go on.
Ran ==
  /\ Running(code, stack', tryStack') /\ phase' \in {"run", "done", "undefined"}
  /\ phase' = "run" => stack' # <<>>

\* The verified code is run.
Runs == phase = "run" /\ Verified(code) /\ Running(code, stack, tryStack) /\ stack # <<>>

LEMMA HereIs ==
  ASSUME Runs
  PROVE  /\ Poised(code, Code!Top) /\ Code!Top.blk \in DOMAIN code
         /\ NamesIn(Code!Here, DOMAIN code)
         /\ ~ Ending(Code!Here) => Code!Top.i + 1 \in 1 .. Len(code[Code!Top.blk])
         /\ \A x \in DOMAIN code : Len(code[x]) \in Nat /\ Len(code[x]) # 0
         /\ Len(stack) \in Nat \ {0} /\ Code!Front(stack) = SubSeq(stack, 1, Len(stack) - 1)
<1>1. IsSeq(stack) /\ Len(stack) \in Nat \ {0}
  BY SeqIs DEF Runs, Running
<1>2. Poised(code, Code!Top)
  BY <1>1 DEF Runs, Running, Code!Top
<1>3. Code!Top.blk \in DOMAIN code /\ Code!Top.i \in 1 .. Len(code[Code!Top.blk])
  BY <1>2, PoisedIs
<1>4. ASSUME NEW x \in DOMAIN code PROVE Len(code[x]) \in Nat /\ Len(code[x]) # 0
  <2>1. IsSeq(code[x]) /\ code[x] # <<>>
    BY DEF Runs, Verified
  <2> QED
    BY <2>1, SeqIs
<1>5. /\ Ending(Code!Here) <=> Code!Top.i = Len(code[Code!Top.blk])
      /\ NamesIn(Code!Here, DOMAIN code)
  BY <1>3 DEF Runs, Verified, Code!Here
<1>6. ~ Ending(Code!Here) => Code!Top.i + 1 \in 1 .. Len(code[Code!Top.blk])
  BY <1>3, <1>4, <1>5
<1> QED
  BY <1>1, <1>2, <1>3, <1>4, <1>5, <1>6 DEF Code!Front

LEMMA ContinuedIs ==
  ASSUME Runs, ~ Ending(Code!Here), NEW p
  PROVE  Poised(code, Code!Continued) /\ Poised(code, [Code!Continued EXCEPT !.pt = p])
<1> DEFINE i == Code!Top.i + 1
           a == Code!Top
<1>1. Poised(code, a) /\ i \in 1 .. Len(code[a.blk])
  BY HereIs
<1>2. Code!Continued = Stepped(a, i)
  BY DEF Code!Continued, Stepped
<1>3. [Code!Continued EXCEPT !.pt = p] = Noting(Stepped(a, i), p)
  BY <1>2 DEF Noting
<1> HIDE DEF i, a
<1> QED
  BY <1>1, <1>2, <1>3, PoisedIs

LEMMA RanOn ==
  ASSUME Runs, NEW a, Poised(code, a), Code!Replaced(a), NEW t, Running(code, stack, t),
         tryStack' = t, phase' = "run"
  PROVE  Ran
<1>1. stack' = Append(SubSeq(stack, 1, Len(stack) - 1), a)
  BY HereIs DEF Code!Replaced
<1>2. Running(code, stack', t) /\ stack' # <<>>
  BY <1>1, MovedOn DEF Runs
<1> QED
  BY <1>2 DEF Ran

LEMMA RunMark ==
  ASSUME Runs, Code!ReachMark
  PROVE  Ran
<1>1. ~ Ending(Code!Here) /\ phase' = "run" /\ tryStack' = tryStack
  BY DEF Code!ReachMark, Code!Ready, Ending
<1>2. \E a \in {Code!Continued, [Code!Continued EXCEPT !.pt = Code!Here[2]]} : Code!Replaced(a)
  BY DEF Code!ReachMark
<1>3. PICK a \in {Code!Continued, [Code!Continued EXCEPT !.pt = Code!Here[2]]} : Code!Replaced(a)
  BY <1>2
<1>4. Poised(code, a)
  BY <1>1, ContinuedIs
<1> QED
  BY <1>1, <1>3, <1>4, RanOn DEF Runs

LEMMA IntoIs ==
  ASSUME Runs, NEW b \in DOMAIN code
  PROVE  Poised(code, [Code!Top EXCEPT !.blk = b, !.i = 1])
<1>1. Poised(code, Into(Code!Top, b))
  BY HereIs, PoisedIs
<1> QED
  BY <1>1 DEF Into

LEMMA RunBranch ==
  ASSUME Runs, Code!Branch
  PROVE  Ran
<1>1. Code!Here[1] = "br" /\ phase' = "run" /\ tryStack' = tryStack
  BY DEF Code!Branch, Code!Ready
<1>2. PICK b \in Code!Here[2] : Code!Replaced([Code!Top EXCEPT !.blk = b, !.i = 1])
  BY DEF Code!Branch
<1>3. b \in DOMAIN code
  BY <1>1, HereIs DEF NamesIn
<1> DEFINE a == [Code!Top EXCEPT !.blk = b, !.i = 1]
<1>4. Poised(code, a) /\ Code!Replaced(a)
  BY <1>2, <1>3, IntoIs
<1> HIDE DEF a
<1> QED
  BY <1>1, <1>4, RanOn DEF Runs

LEMMA RunEnterTry ==
  ASSUME Runs, Code!EnterTry
  PROVE  Ran
<1>1. Code!Here[1] = "setjmp" /\ phase' = "run" /\ tryStack' = tryStack
  BY DEF Code!EnterTry, Code!Ready
<1> DEFINE b == <<Code!Here[2], "setup">>
           a == [Code!Top EXCEPT !.blk = b, !.i = 1]
<1>2. Code!Replaced(a)
  BY DEF Code!EnterTry
<1>3. b \in DOMAIN code
  BY <1>1, HereIs DEF NamesIn
<1>4. Poised(code, a)
  <2> HIDE DEF b
  <2> QED
    BY <1>3, IntoIs
<1> HIDE DEF a
<1> QED
  BY <1>1, <1>2, <1>4, RanOn DEF Runs

LEMMA RunPush ==
  ASSUME Runs, Code!TryPush
  PROVE  Ran
<1>1. /\ Code!Here[1] = "push" /\ phase' = "run" /\ Code!Replaced(Code!Continued)
      /\ tryStack' = Append(tryStack, [frame |-> Len(stack), try |-> Code!Here[2]])
  BY DEF Code!TryPush, Code!Ready
<1> DEFINE x == [frame |-> Len(stack), try |-> Code!Here[2]]
<1>2. ~ Ending(Code!Here) /\ <<Code!Here[2], "catch">> \in DOMAIN code
  BY <1>1, HereIs DEF NamesIn, Ending
<1>3. Catching(code, Len(stack), x)
  <2>1. Len(stack) \in Nat /\ Len(stack) \in 0 .. Len(stack)
    BY HereIs
  <2> QED
    BY <1>2, <2>1, CatchingAt
<1> HIDE DEF x
<1>4. Running(code, stack, Append(tryStack, x))
  BY <1>3, TryEntered DEF Runs
<1>5. Poised(code, Code!Continued)
  BY <1>2, ContinuedIs
<1>6. tryStack' = Append(tryStack, x)
  BY <1>1 DEF x
<1> QED
  BY <1>1, <1>4, <1>5, <1>6, RanOn

LEMMA RunPop ==
  ASSUME Runs, Code!TryPop
  PROVE  Ran
<1>1. /\ Code!Here[1] = "pop" /\ phase' = "run" /\ Code!Replaced(Code!Continued)
      /\ tryStack' = IF tryStack = <<>> THEN <<>> ELSE Code!Front(tryStack)
  BY DEF Code!TryPop, Code!Ready
<1>2. ~ Ending(Code!Here)
  BY <1>1 DEF Ending
<1>3. Poised(code, Code!Continued)
  BY <1>2, ContinuedIs
<1>4. Running(code, stack, tryStack')
  <2>1. CASE tryStack = <<>>
    BY <1>1, <2>1 DEF Runs
  <2>2. CASE tryStack # <<>>
    <3>1. tryStack' = SubSeq(tryStack, 1, Len(tryStack) - 1)
      BY <1>1, <2>2 DEF Code!Front
    <3> QED
      BY <2>2, <3>1, TryLeft DEF Runs
  <2> QED
    BY <2>1, <2>2
<1> QED
  BY <1>1, <1>3, <1>4, RanOn

LEMMA RunCall ==
  ASSUME Runs, Code!Call
  PROVE  Ran
<1> DEFINE r == Append(SubSeq(stack, 1, Len(stack) - 1), Code!Continued)
           a == Code!Activation(Code!Here[2])
<1>1. /\ Code!Here[1] \in {"call", "main"} /\ phase' = "run" /\ tryStack' = tryStack
      /\ stack' = r \o <<a>>
  BY HereIs DEF Code!Call
<1>2. ~ Ending(Code!Here) /\ <<Code!Here[2], "entry">> \in DOMAIN code
  BY <1>1, HereIs DEF NamesIn, Ending
<1>3. Poised(code, Code!Continued)
  BY <1>2, ContinuedIs
<1>4. Running(code, r, tryStack)
  BY <1>3, MovedOn DEF Runs
<1>5. Poised(code, a)
  <2> DEFINE b == <<Code!Here[2], "entry">>
  <2>1. b \in DOMAIN code
    BY <1>2
  <2>2. a = [blk |-> b, i |-> 1, pt |-> Code!Enter(Code!Here[2])]
    BY DEF Code!Activation
  <2> HIDE DEF b, a
  <2>3. 1 \in 1 .. Len(code[b])
    BY <2>1, HereIs
  <2> QED
    BY <2>1, <2>2, <2>3, PoisedAt
<1> HIDE DEF r, a
<1>6. Running(code, r \o <<a>>, tryStack) /\ r \o <<a>> # <<>>
  BY <1>4, <1>5, CallBegun
<1> QED
  BY <1>1, <1>6 DEF Ran

LEMMA RunReturn ==
  ASSUME Runs, Code!Return
  PROVE  Ran
<1> DEFINE d == Len(stack) - 1
<1>1. /\ phase' = (IF Len(stack) = 1 THEN "done" ELSE "run")
      /\ stack' = SubSeq(stack, 1, d) /\ tryStack' = Code!Dangling(tryStack, d)
  BY HereIs DEF Code!Return
<1>2. d \in 0 .. Len(stack) /\ (Len(stack) # 1 => d # 0)
  BY HereIs
<1> HIDE DEF d
<1>3. Running(code, stack', tryStack')
  BY <1>1, <1>2, CutTo DEF Runs
<1>4. Len(stack') = d /\ IsSeq(stack')
  BY <1>1, <1>2, FirstOf DEF Runs, Running
<1>5. phase' = "run" => stack' # <<>>
  BY <1>1, <1>2, <1>4, SeqIs
<1> QED
  BY <1>1, <1>3, <1>5 DEF Ran

LEMMA RunThrow ==
  ASSUME Runs, Code!ThrowTo
  PROVE  Ran
<1> DEFINE jb == tryStack[Len(tryStack)]
           u == SubSeq(tryStack, 1, Len(tryStack) - 1)
           d == jb.frame
           a == [blk |-> <<jb.try, "catch">>, i |-> 1,
                 pt |-> Code!Enter(code_prog.node[jb.try].kids[2])]
<1>1. phase = "run" /\ tryStack # <<>>
  BY DEF Code!ThrowTo, Code!Ready
<1>2. \/ phase' = "undefined" /\ stack' = stack /\ tryStack' = tryStack
      \/ /\ d # 0 /\ stack' = Append(SubSeq(stack, 1, d - 1), a)
         /\ tryStack' = Code!Dangling(u, d) /\ phase' = phase
  BY DEF Code!ThrowTo, Code!Last, Code!Front
<1>3. CASE phase' = "undefined" /\ stack' = stack /\ tryStack' = tryStack
  BY <1>3 DEF Ran, Runs
<1>4. CASE /\ d # 0 /\ stack' = Append(SubSeq(stack, 1, d - 1), a)
           /\ tryStack' = Code!Dangling(u, d) /\ phase' = phase
  <2>1. IsSeq(tryStack) /\ IsSeq(stack) /\ Len(tryStack) \in Nat /\ Len(tryStack) # 0 /\ Len(stack) \in Nat
    BY <1>1, SeqIs DEF Runs, Running
  <2>2. Len(tryStack) \in 1 .. Len(tryStack)
    BY <2>1
  <2>3. Catching(code, Len(stack), jb)
    BY <2>2 DEF Runs, Running
  <2>4. d \in 0 .. Len(stack) /\ <<jb.try, "catch">> \in DOMAIN code
    BY <2>1, <2>3, CatchingIs
  <2>5. Running(code, stack, u)
    BY <1>1, TryLeft DEF Runs
  <2>6. Poised(code, a)
    <3> DEFINE b == <<jb.try, "catch">>
    <3>1. b \in DOMAIN code
      BY <2>4
    <3> DEFINE p == Code!Enter(code_prog.node[jb.try].kids[2])
    <3>2. a = [blk |-> b, i |-> 1, pt |-> p]
      OBVIOUS
    <3> HIDE DEF b, a, p
    <3>3. 1 \in 1 .. Len(code[b])
      BY <3>1, HereIs
    <3> QED
      BY <3>1, <3>2, <3>3, PoisedAt
  <2> HIDE DEF a, u, d
  <2> DEFINE s == SubSeq(stack, 1, d)
             v == Code!Dangling(u, d)
  <2>7. Running(code, s, v)
    BY <2>4, <2>5, CutTo
  <2>8. IsSeq(s) /\ Len(s) = d /\ \A i \in 1 .. d : s[i] = stack[i]
    BY <2>1, <2>4, FirstOf
  <2>9. s # <<>>
    BY <1>4, <2>8, SeqIs
  <2>10. SubSeq(s, 1, d - 1) = SubSeq(stack, 1, d - 1)
    <3>1. d - 1 \in 0 .. Len(s) /\ d - 1 \in 0 .. Len(stack) /\ d \in Nat
      BY <1>4, <2>1, <2>4, <2>8
    <3> DEFINE x == SubSeq(s, 1, d - 1)
               y == SubSeq(stack, 1, d - 1)
    <3>2. /\ IsSeq(x) /\ Len(x) = d - 1 /\ \A i \in 1 .. d - 1 : x[i] = s[i]
          /\ IsSeq(y) /\ Len(y) = d - 1 /\ \A i \in 1 .. d - 1 : y[i] = stack[i]
      BY <2>1, <2>8, <3>1, FirstOf
    <3>3. \A i \in 1 .. d - 1 : s[i] = stack[i]
      BY <2>8, <3>1
    <3> HIDE DEF x, y, s
    <3>4. x = y
      <4>1. /\ x \in [1 .. d - 1 -> {x[i] : i \in DOMAIN x}]
            /\ y \in [1 .. d - 1 -> {y[i] : i \in DOMAIN y}]
        BY <3>2 DEF IsSeq
      <4>2. \A i \in 1 .. d - 1 : x[i] = y[i]
        BY <3>2, <3>3
      <4>3. DOMAIN x = 1 .. d - 1 /\ DOMAIN y = 1 .. d - 1
        BY <4>1
      <4>4. x = [i \in 1 .. d - 1 |-> x[i]] /\ y = [i \in 1 .. d - 1 |-> y[i]]
        BY <4>1
      <4> QED
        BY <4>2, <4>4
    <3> QED
      BY <3>4 DEF x, y
  <2> HIDE DEF s, v
  <2>11. Running(code, Append(SubSeq(s, 1, Len(s) - 1), a), v)
         /\ Append(SubSeq(s, 1, Len(s) - 1), a) # <<>>
    BY <2>6, <2>7, <2>9, MovedOn
  <2>12. stack' = Append(SubSeq(s, 1, Len(s) - 1), a) /\ tryStack' = v
    BY <1>4, <2>8, <2>10 DEF v
  <2> QED
    BY <1>1, <1>4, <2>11, <2>12 DEF Ran
<1> QED
  BY <1>2, <1>3, <1>4

LEMMA RunUnhandled ==
  ASSUME Runs, Code!ThrowUnhandled
  PROVE  Ran
<1>1. phase' = "done" /\ stack' = <<>> /\ tryStack' = <<>>
  BY DEF Code!ThrowUnhandled
<1>2. Len(<<>>) = 0 /\ IsSeq(<<>>)
  BY DEF IsSeq
<1>3. Running(code, <<>>, <<>>)
  <2> DEFINE e == << >>
  <2>1. Len(e) = 0 /\ IsSeq(e)
    BY <1>2
  <2> HIDE DEF e
  <2>2. Running(code, e, e)
    BY <2>1 DEF Running
  <2> QED
    BY <2>2 DEF e
<1> QED
  BY <1>1, <1>3 DEF Ran

LEMMA RunStart ==
  ASSUME Verified(code), tryStack = <<>>, Code!Start
  PROVE  Ran
<1> DEFINE a == Code!Activation(code_prog.top)
           b == EntryOf(code_prog.top)
<1>1. stack' = <<a>> /\ phase' = "run" /\ tryStack' = <<>>
  BY DEF Code!Start
<1>2. b \in DOMAIN code
  BY DEF Verified, Entries, Roots
<1>3. a = [blk |-> b, i |-> 1, pt |-> Code!Enter(code_prog.top)]
  BY DEF Code!Activation, EntryOf
<1> HIDE DEF a, b
<1>4. Poised(code, a)
  <2>1. IsSeq(code[b]) /\ code[b] # <<>>
    BY <1>2 DEF Verified
  <2>2. 1 \in 1 .. Len(code[b])
    BY <2>1, SeqIs
  <2> QED
    BY <1>2, <1>3, <2>2, PoisedAt
<1> DEFINE e == << >>
<1>5. Len(e) = 0 /\ IsSeq(e) /\ e = << >>
  BY DEF IsSeq
<1> HIDE DEF e
<1>6. Running(code, e, e)
  BY <1>5 DEF Running
<1>7. Running(code, e \o <<a>>, e) /\ e \o <<a>> # <<>>
  BY <1>4, <1>6, CallBegun
<1>8. e \o <<a>> = <<a>>
  BY <1>5
<1> QED
  BY <1>1, <1>5, <1>7, <1>8 DEF Ran

-----------------------------------------------------------------------------
\* The invariant of the module: while it is generated and while it is run.
CodeInv ==
  /\ Legal
  /\ phase \in {"compile", "run", "done", "undefined"}
  /\ phase = "compile" =>
       Compiling(todo, code, ins, breakTo, continueTo) /\ stack = <<>> /\ tryStack = <<>>
  /\ phase # "compile" =>
       /\ Verified(code) /\ breakTo = <<>> /\ continueTo = <<>>
       /\ Running(code, stack, tryStack) /\ (phase = "run" => stack # <<>>)

\* It holds initially.
LEMMA CodeInvInit ==
  ASSUME \A p \in CodePrograms : WellFormed(p) /\ CLegal(p) /\ Compilable(p), Code!Init
  PROVE  CodeInv
<1>1. PICK p \in CodePrograms : Code!InitOf(p)
  BY DEF Code!Init
<1>2. Legal
  BY <1>1 DEF Legal, Code!InitOf
<1>3. Compiling(Code!Generate, <<>>, <<>>, <<>>, <<>>)
  BY <1>2, CompilingInit
<1>4. /\ todo = Code!Generate /\ code = <<>> /\ ins = <<>> /\ breakTo = <<>> /\ continueTo = <<>>
      /\ phase = "compile" /\ stack = <<>> /\ tryStack = <<>>
  BY <1>1 DEF Code!InitOf
<1> QED
  BY <1>2, <1>3, <1>4 DEF CodeInv

\* Every step keeps it.
LEMMA CodeInvStep ==
  ASSUME CodeInv, [Code!Next]_(Code!vars)
  PROVE  CodeInv'
<1>1. CASE Code!Compile
  <2>1. phase = "compile"
    BY <1>1 DEF Code!Compile, Code!LowerStmt, Code!LowerExpr, Code!EmitInstruction,
                Code!EmitIfOpen, Code!SetInsertPoint, Code!ScanLabelsInStmt, Code!PushTargets,
                Code!PopTargets, Code!Doing
  <2>2. /\ Compiling(todo', code', ins', breakTo', continueTo')
        /\ UNCHANGED <<code_prog, phase, stack, tryStack>>
    BY <1>1, <2>1, CompileStep DEF CodeInv
  <2>3. Compiling(todo, code, ins, breakTo, continueTo)'
    BY <2>2, SameCompiling
  <2> QED
    BY <2>1, <2>2, <2>3 DEF CodeInv, Legal
<1>2. ASSUME Ran, Verified(code), breakTo = <<>>, continueTo = <<>>,
             UNCHANGED <<code_prog, todo, code, ins, breakTo, continueTo>>
      PROVE  CodeInv'
  <2>1. Legal'
    BY <1>2 DEF CodeInv, Legal
  <2>2. Verified(code)'
    <3>1. Roots' = Roots
      BY <1>2, SameProgram
    <3> QED
      BY <1>2, <3>1 DEF Verified, Entries
  <2>3. Running(code, stack, tryStack)' /\ phase' \in {"run", "done", "undefined"}
        /\ (phase' = "run" => stack' # <<>>)
    BY <1>2 DEF Ran, Running
  <2> QED
    BY <1>2, <2>1, <2>2, <2>3 DEF CodeInv
<1>3. CASE Code!Start
  <2>1. phase = "compile" /\ todo = <<>> /\ UNCHANGED <<code_prog, todo, code, ins, breakTo, continueTo>>
    BY <1>3 DEF Code!Start
  <2>2. Compiling(<<>>, code, ins, breakTo, continueTo) /\ tryStack = <<>>
    BY <2>1 DEF CodeInv
  <2>3. Verified(code) /\ breakTo = <<>> /\ continueTo = <<>>
    BY <2>2, CompiledIs
  <2> QED
    BY <1>2, <1>3, <2>1, <2>2, <2>3, RunStart
<1>4. CASE Code!Run /\ ~ Code!Start
  <2>1. phase = "run" /\ UNCHANGED <<code_prog, todo, code, ins, breakTo, continueTo>>
    BY <1>4 DEF Code!Run, Code!ReachMark, Code!Branch, Code!Call, Code!Return, Code!EnterTry,
                Code!TryPush, Code!TryPop, Code!ThrowTo, Code!ThrowUnhandled, Code!Ready,
                Code!compiler
  <2>2. Runs /\ Verified(code) /\ breakTo = <<>> /\ continueTo = <<>>
    BY <2>1 DEF CodeInv, Runs
  <2>3. Ran
    BY <1>4, <2>2, RunMark, RunBranch, RunCall, RunReturn, RunEnterTry, RunPush, RunPop, RunThrow,
       RunUnhandled DEF Code!Run
  <2> QED
    BY <1>2, <2>1, <2>2, <2>3
<1>5. CASE Code!Ended \/ UNCHANGED Code!vars
  <2>1. UNCHANGED <<code_prog, todo, code, ins, breakTo, continueTo, phase, stack, tryStack>>
    BY <1>5 DEF Code!Ended, Code!vars
  <2>2. Legal'
    BY <2>1 DEF CodeInv, Legal
  <2>3. CASE phase = "compile"
    <3>1. Compiling(todo', code', ins', breakTo', continueTo')
      BY <2>1, <2>3 DEF CodeInv
    <3>2. Compiling(todo, code, ins, breakTo, continueTo)'
      BY <2>1, <3>1, SameCompiling
    <3> QED
      BY <2>1, <2>2, <2>3, <3>2 DEF CodeInv
  <2>4. CASE phase # "compile"
    <3>1. Ran /\ Verified(code) /\ breakTo = <<>> /\ continueTo = <<>>
      BY <2>1, <2>4 DEF CodeInv, Ran
    <3> QED
      BY <1>2, <2>1, <3>1
  <2> QED
    BY <2>3, <2>4
<1> QED
  BY <1>1, <1>3, <1>4, <1>5 DEF Code!Next

\* Once generated, the module passes the verifier.
LEMMA CodeInvVerifies ==
  ASSUME CodeInv
  PROVE  ModuleVerifies
<1>1. CASE phase = "compile"
  BY <1>1 DEF CodeInv, ModuleVerifies, Code!ModuleVerifies, Code!TypeOK
<1>2. CASE phase # "compile"
  <2>1. /\ Verified(code) /\ breakTo = <<>> /\ continueTo = <<>>
        /\ Running(code, stack, tryStack)
    BY <1>2 DEF CodeInv
  <2>2. /\ IsSeq(stack) /\ IsSeq(tryStack) /\ Len(stack) \in Nat
        /\ DOMAIN stack = 1 .. Len(stack) /\ DOMAIN tryStack = 1 .. Len(tryStack)
    BY <2>1, SeqIs DEF Running
  <2>3. ASSUME NEW x \in DOMAIN code
        PROVE  /\ DOMAIN code[x] = 1 .. Len(code[x]) /\ Len(code[x]) \in Nat /\ Len(code[x]) # 0
               /\ code[x] # <<>>
               /\ \A i \in 1 .. Len(code[x]) : /\ Ending(code[x][i]) <=> i = Len(code[x])
                                               /\ NamesIn(code[x][i], DOMAIN code)
    <3>1. IsSeq(code[x]) /\ code[x] # <<>>
      BY <2>1 DEF Verified
    <3>2. \A i \in 1 .. Len(code[x]) : /\ Ending(code[x][i]) <=> i = Len(code[x])
                                       /\ NamesIn(code[x][i], DOMAIN code)
      BY <2>1 DEF Verified
    <3> QED
      BY <3>1, <3>2, SeqIs
  <2>4. ASSUME NEW k \in DOMAIN stack
        PROVE  stack[k].blk \in DOMAIN code /\ stack[k].i \in DOMAIN code[stack[k].blk]
    <3>1. Poised(code, stack[k])
      BY <2>1, <2>2 DEF Running
    <3> QED
      BY <2>3, <3>1, PoisedIs
  <2>5. ASSUME NEW k \in DOMAIN tryStack PROVE tryStack[k].frame \in 0 .. Len(stack)
    <3>1. Catching(code, Len(stack), tryStack[k])
      BY <2>1, <2>2 DEF Running
    <3> QED
      BY <2>2, <3>1, CatchingIs
  <2>6. Code!TypeOK
    BY <2>4, <2>5 DEF CodeInv, Code!TypeOK
  <2>7. ASSUME NEW x \in DOMAIN code
        PROVE  /\ \A i \in DOMAIN code[x] : code[x][i][1] \in Code!Terminators <=> i = Len(code[x])
               /\ Code!Terminated(x)
               /\ Code!Last(code[x])[1] = "br" => Code!Last(code[x])[2] \subseteq DOMAIN code
    <3>1. Len(code[x]) \in 1 .. Len(code[x])
      BY <2>3
    <3>2. \A i \in DOMAIN code[x] : code[x][i][1] \in Code!Terminators <=> i = Len(code[x])
      BY <2>3 DEF Ending, Code!Terminators
    <3>3. Code!Terminated(x)
      BY <2>3, <3>1 DEF Code!Terminated, Code!Terminators, Ending, Code!Last
    <3>4. Code!Last(code[x])[1] = "br" => Code!Last(code[x])[2] \subseteq DOMAIN code
      BY <2>3, <3>1 DEF NamesIn, Code!Last
    <3> QED
      BY <3>2, <3>3, <3>4
  <2> QED
    BY <2>1, <2>6, <2>7 DEF ModuleVerifies, Code!ModuleVerifies
<1> QED
  BY <1>1, <1>2

\* Compiled from any programs that are legal and whose throws and labels are where the
\* compiler expects them, the module passes the verifier (ModuleVerifies), whatever
\* its functions, statements and order.
THEOREM ModuleVerifiesHolds ==
  ASSUME \A p \in CodePrograms : WellFormed(p) /\ CLegal(p) /\ Compilable(p)
  PROVE  Code!Spec => []ModuleVerifies
<1>1. Code!Init => CodeInv
  BY CodeInvInit
<1>2. CodeInv /\ [Code!Next]_(Code!vars) => CodeInv'
  BY CodeInvStep
<1>3. CodeInv => ModuleVerifies
  BY CodeInvVerifies
<1> QED
  BY <1>1, <1>2, <1>3, PTL DEF Code!Spec
=============================================================================
