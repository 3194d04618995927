---------------------------- MODULE CommonLemmas ----------------------------
(***************************************************************************)
(* Facts that the proofs of several components need: least elements, which *)
(* stand in for induction; sequences built element by element; sequences   *)
(* used as stacks, the last element on top.                                *)
(***************************************************************************)
EXTENDS Integers, Sequences, SequenceTheorems, WellFoundedInduction, TLAPS

\* A nonempty set of natural numbers has a least element.
LEMMA LeastExists ==
  ASSUME NEW S, S \subseteq Nat, S # {}
  PROVE  \E m \in S : \A n \in S : m <= n
<1> DEFINE Less == OpToRel(<, Nat)
<1>1. IsWellFoundedOn(Less, Nat)
  BY NatLessThanWellFounded
<1>2. PICK m \in S : \A n \in S : ~ (<<n, m>> \in Less)
  <2> HIDE DEF Less
  <2> QED BY <1>1, WFMin
<1>3. \A n \in S : ~ (n < m)
  BY <1>2 DEF OpToRel
<1>4. QED
  BY <1>3

\* Induction along an interval, and along the natural numbers, on a set in place of
\* a predicate.
LEMMA IntervalInduction ==
  ASSUME NEW a \in Nat, NEW b \in Nat, NEW T, a \in T,
         \A k \in a .. b - 1 : k \in T => k + 1 \in T
  PROVE  \A k \in a .. b : k \in T
<1> DEFINE Missing == {k \in a .. b : k \notin T}
<1>1. CASE Missing # {}
  <2>1. Missing \subseteq Nat
    OBVIOUS
  <2>2. PICK k \in Missing : \A j \in Missing : k <= j
    <3> HIDE DEF Missing
    <3> QED
      BY <1>1, <2>1, LeastExists
  <2>3. k \in a .. b /\ k # a
    OBVIOUS
  <2>4. k - 1 \in a .. b - 1 /\ k - 1 \notin Missing
    BY <2>2, <2>3
  <2>5. (k - 1) + 1 \in T
    BY <2>4
  <2> QED
    BY <2>3, <2>5
<1>2. CASE Missing = {}
  BY <1>2
<1> QED
  BY <1>1, <1>2

LEMMA NatSetInduction ==
  ASSUME NEW T, 0 \in T, \A k \in Nat : k \in T => k + 1 \in T
  PROVE  \A k \in Nat : k \in T
<1> SUFFICES ASSUME NEW n \in Nat PROVE n \in T
  OBVIOUS
<1>1. \A k \in 0 .. n - 1 : k \in T => k + 1 \in T
  OBVIOUS
<1> QED
  BY <1>1, IntervalInduction

\* A step repeated from a start: the elements it comes to exist as a function.
Iterates(f, step, a, n) == f[0] = a /\ \A k \in 1 .. n : f[k] = step[f[k - 1]]

LEMMA IterationExists ==
  ASSUME NEW S, NEW step \in [S -> S], NEW a \in S, NEW n \in Nat
  PROVE  \E f \in [0 .. n -> S] : Iterates(f, step, a, n)
<1> USE DEF Iterates
<1> DEFINE Reaches(k) == \E f \in [0 .. k -> S] :
             f[0] = a /\ \A j \in 1 .. k : f[j] = step[f[j - 1]]
           Missing == {k \in Nat : ~ Reaches(k)}
<1>1. Reaches(0)
  <2> DEFINE f == [k \in 0 .. 0 |-> a]
  <2>1. f \in [0 .. 0 -> S] /\ f[0] = a /\ \A j \in 1 .. 0 : f[j] = step[f[j - 1]]
    OBVIOUS
  <2> QED
    BY <2>1
<1>2. ASSUME NEW k \in Nat, Reaches(k)
      PROVE  Reaches(k + 1)
  <2>1. PICK f \in [0 .. k -> S] : f[0] = a /\ \A j \in 1 .. k : f[j] = step[f[j - 1]]
    BY <1>2
  <2> DEFINE g == [j \in 0 .. k + 1 |-> IF j = k + 1 THEN step[f[k]] ELSE f[j]]
  <2>2. g \in [0 .. k + 1 -> S] /\ g[0] = a /\ g[k + 1] = step[f[k]]
    BY <2>1
  <2>3. \A j \in 0 .. k : g[j] = f[j]
    OBVIOUS
  <2>4. ASSUME NEW j \in 1 .. k + 1
        PROVE  g[j] = step[g[j - 1]]
    <3>1. CASE j = k + 1
      BY <2>2, <2>3, <3>1
    <3>2. CASE j # k + 1
      BY <2>1, <2>3, <3>2
    <3> QED
      BY <3>1, <3>2
  <2> HIDE DEF g
  <2> QED
    BY <2>2, <2>4
<1> HIDE DEF Reaches
<1>3. CASE Missing # {}
  <2>1. PICK k \in Missing : \A j \in Missing : k <= j
    BY <1>3, LeastExists
  <2>2. k \in Nat \ {0} /\ k - 1 \notin Missing
    BY <1>1, <2>1
  <2>3. Reaches((k - 1) + 1)
    BY <1>2, <2>2
  <2> QED
    BY <2>1, <2>2, <2>3
<1>4. CASE Missing = {}
  BY <1>4 DEF Reaches
<1> QED
  BY <1>3, <1>4

\* Induction over an interval of integers.
LEMMA IntegerInduction ==
  ASSUME NEW a \in Int, NEW b \in Int, NEW T, a \in T,
         \A i \in a .. b - 1 : i \in T => i + 1 \in T
  PROVE  \A i \in a .. b : i \in T
<1> DEFINE U == {k \in Nat : a + k \in T}
<1>1. SUFFICES ASSUME NEW i \in a .. b PROVE i \in T
  OBVIOUS
<1>2. 0 \in Nat /\ i - a \in Nat /\ 0 \in U
  OBVIOUS
<1>3. ASSUME NEW k \in 0 .. (i - a) - 1, k \in U
      PROVE  k + 1 \in U
  <2>1. a + k \in a .. b - 1 /\ (a + k) + 1 = a + (k + 1) /\ k + 1 \in Nat
    OBVIOUS
  <2> QED
    BY <1>3, <2>1
<1> HIDE DEF U
<1>4. \A k \in 0 .. i - a : k \in U
  BY <1>2, <1>3, IntervalInduction
<1>5. i - a \in U
  BY <1>2, <1>4
<1> QED
  BY <1>5 DEF U

\* A loop over an interval, whose turn at i makes G[i][v] of v.
Turns(w, G, x, lo, hi) == w[lo] = x /\ \A i \in lo + 1 .. hi : w[i] = G[i][w[i - 1]]

LEMMA TurnsExist ==
  ASSUME NEW S, NEW lo \in Int, NEW hi \in Int, lo <= hi, NEW x \in S,
         NEW G \in [lo + 1 .. hi -> [S -> S]]
  PROVE  \E w \in [lo .. hi -> S] : Turns(w, G, x, lo, hi)
<1> USE DEF Turns
<1> DEFINE Reaches(k) == \E w \in [lo .. k -> S] : Turns(w, G, x, lo, k)
           T == {k \in lo .. hi : Reaches(k)}
<1>1. lo \in T
  <2> DEFINE w == [i \in lo .. lo |-> x]
  <2>1. w \in [lo .. lo -> S] /\ w[lo] = x /\ lo \in lo .. hi
    OBVIOUS
  <2>2. \A i \in lo + 1 .. lo : w[i] = G[i][w[i - 1]]
    OBVIOUS
  <2> HIDE DEF w
  <2>3. Reaches(lo)
    BY <2>1, <2>2
  <2> QED
    BY <2>1, <2>3
<1>2. ASSUME NEW k \in lo .. hi - 1, k \in T
      PROVE  k + 1 \in T
  <2>1. PICK w \in [lo .. k -> S] : Turns(w, G, x, lo, k)
    BY <1>2
  <2> DEFINE u == [i \in lo .. k + 1 |-> IF i = k + 1 THEN G[i][w[k]] ELSE w[i]]
  <2>2. /\ k + 1 \in lo + 1 .. hi /\ k + 1 \in lo .. hi /\ w[k] \in S
        /\ G[k + 1] \in [S -> S] /\ G[k + 1][w[k]] \in S
    OBVIOUS
  <2>3. u \in [lo .. k + 1 -> S]
    BY <2>2
  <2>4. \A i \in lo .. k : u[i] = w[i]
    OBVIOUS
  <2>5. u[k + 1] = G[k + 1][w[k]]
    BY <2>2
  <2>6. u[lo] = x
    BY <2>1, <2>4
  <2> HIDE DEF u
  <2>7. ASSUME NEW i \in lo + 1 .. k + 1
        PROVE  u[i] = G[i][u[i - 1]]
    <3>1. CASE i = k + 1
      BY <2>4, <2>5, <3>1
    <3>2. CASE i # k + 1
      <4>1. i \in lo + 1 .. k /\ i \in lo .. k /\ i - 1 \in lo .. k
        BY <3>2
      <4> QED
        BY <2>1, <2>4, <4>1
    <3> QED
      BY <3>1, <3>2
  <2>8. Reaches(k + 1)
    BY <2>3, <2>6, <2>7
  <2> HIDE DEF Reaches
  <2> QED
    BY <2>2, <2>8
<1>3. \A k \in lo .. hi : k \in T
  <2> HIDE DEF T
  <2> QED
    BY <1>1, <1>2, IntegerInduction
<1>4. hi \in T
  BY <1>3
<1> QED
  BY <1>4

-----------------------------------------------------------------------------
\* A function on 1 .. n is a sequence of length n.
LEMMA FunctionIsSequence ==
  ASSUME NEW S, NEW n \in Nat, NEW f \in [1 .. n -> S]
  PROVE  f \in Seq(S) /\ Len(f) = n
OBVIOUS

\* A sequence that continues another by one element.
LEMMA AppendIs ==
  ASSUME NEW S, NEW q \in Seq(S), NEW e \in S, NEW f,
         f \in [1 .. Len(q) + 1 -> S],
         \A i \in 1 .. Len(q) : f[i] = q[i],
         f[Len(q) + 1] = e
  PROVE  f = Append(q, e)
<1>1. f \in Seq(S) /\ Len(f) = Len(q) + 1
  BY FunctionIsSequence
<1>2. /\ Append(q, e) \in Seq(S) /\ Len(Append(q, e)) = Len(q) + 1
      /\ \A i \in 1 .. Len(q) : Append(q, e)[i] = q[i]
      /\ Append(q, e)[Len(q) + 1] = e
  OBVIOUS
<1>3. \A i \in 1 .. Len(q) + 1 : f[i] = Append(q, e)[i]
  BY <1>2
<1>4. QED
  BY <1>1, <1>2, <1>3, SeqEqual

\* A sequence that lacks the first element of another.
LEMMA TailIs ==
  ASSUME NEW S, NEW q \in Seq(S), q # <<>>, NEW f,
         f \in [1 .. Len(q) - 1 -> S],
         \A i \in 1 .. Len(q) - 1 : f[i] = q[i + 1]
  PROVE  f = Tail(q)
<1>1. Len(q) - 1 \in Nat
  OBVIOUS
<1>2. f \in Seq(S) /\ Len(f) = Len(q) - 1
  BY <1>1, FunctionIsSequence
<1>3. /\ Tail(q) \in Seq(S) /\ Len(Tail(q)) = Len(q) - 1
      /\ \A i \in 1 .. Len(q) - 1 : Tail(q)[i] = q[i + 1]
  OBVIOUS
<1>4. QED
  BY <1>2, <1>3, SeqEqual

\* Cutting a stack to height n keeps the n lower elements.
LEMMA CutStack ==
  ASSUME NEW S, NEW s \in Seq(S), NEW n \in Nat, n <= Len(s)
  PROVE  /\ SubSeq(s, 1, n) \in Seq(S)
         /\ Len(SubSeq(s, 1, n)) = n
         /\ \A k \in 1..n : SubSeq(s, 1, n)[k] = s[k]
<1>1. \A k \in 1..n : s[k] \in S
  OBVIOUS
<1>2. QED
  BY <1>1, SubSeqProperties

\* Popping a nonempty stack removes one element and keeps the others.
LEMMA PopStack ==
  ASSUME NEW S, NEW s \in Seq(S), s # <<>>
  PROVE  /\ Len(s) \in Nat \ {0}
         /\ s[Len(s)] \in S
         /\ SubSeq(s, 1, Len(s) - 1) \in Seq(S)
         /\ Len(SubSeq(s, 1, Len(s) - 1)) = Len(s) - 1
         /\ \A k \in 1..(Len(s) - 1) : SubSeq(s, 1, Len(s) - 1)[k] = s[k]
<1>1. Len(s) \in Nat \ {0} /\ s[Len(s)] \in S
  OBVIOUS
<1>2. Len(s) - 1 \in Nat /\ Len(s) - 1 <= Len(s)
  BY <1>1
<1>3. QED
  BY <1>1, <1>2, CutStack

\* A sequence that lacks the last element of another.
LEMMA PoppedIs ==
  ASSUME NEW S, NEW q \in Seq(S), q # <<>>, NEW f,
         f \in [1 .. Len(q) - 1 -> S],
         \A i \in 1 .. Len(q) - 1 : f[i] = q[i]
  PROVE  f = SubSeq(q, 1, Len(q) - 1)
<1>1. Len(q) - 1 \in Nat
  OBVIOUS
<1>2. f \in Seq(S) /\ Len(f) = Len(q) - 1
  BY <1>1, FunctionIsSequence
<1> QED
  BY <1>2, PopStack, SeqEqual

\* Pushing adds one element on top.
LEMMA PushStack ==
  ASSUME NEW S, NEW s \in Seq(S), NEW a \in S
  PROVE  /\ Append(s, a) \in Seq(S)
         /\ Len(Append(s, a)) = Len(s) + 1
         /\ Append(s, a)[Len(s) + 1] = a
         /\ \A k \in 1..Len(s) : Append(s, a)[k] = s[k]
  OBVIOUS

\* Replacing the top.
LEMMA ReplaceTop ==
  ASSUME NEW S, NEW s \in Seq(S), s # <<>>, NEW a \in S
  PROVE  LET t == Append(SubSeq(s, 1, Len(s) - 1), a) IN
         /\ t \in Seq(S)
         /\ Len(t) = Len(s)
         /\ t[Len(s)] = a
         /\ \A k \in 1..(Len(s) - 1) : t[k] = s[k]
<1> DEFINE r == SubSeq(s, 1, Len(s) - 1)
<1>1. /\ r \in Seq(S) /\ Len(r) = Len(s) - 1 /\ Len(s) \in Nat \ {0}
      /\ \A k \in 1..(Len(s) - 1) : r[k] = s[k]
  BY PopStack
<1> SUFFICES LET t == Append(r, a) IN
               /\ t \in Seq(S)
               /\ Len(t) = Len(s)
               /\ t[Len(s)] = a
               /\ \A k \in 1..(Len(s) - 1) : t[k] = s[k]
  OBVIOUS
<1> HIDE DEF r
<1>2. /\ Append(r, a) \in Seq(S)
      /\ Len(Append(r, a)) = Len(r) + 1
      /\ Append(r, a)[Len(r) + 1] = a
      /\ \A k \in 1..Len(r) : Append(r, a)[k] = r[k]
  BY <1>1, PushStack
<1> QED
  BY <1>1, <1>2

\* Sequences that differ in their last element, or not at all.
LEMMA SameAs ==
  ASSUME NEW S, NEW q \in Seq(S), NEW t \in Seq(S), Len(t) = Len(q),
         \A i \in 1 .. Len(q) : t[i] = q[i]
  PROVE  t = q
BY SeqEqual

LEMMA TurnedIs ==
  ASSUME NEW S, NEW q \in Seq(S), q # <<>>, NEW t \in Seq(S), Len(t) = Len(q),
         \A i \in 1 .. Len(q) : i # Len(q) => t[i] = q[i]
  PROVE  t = [q EXCEPT ![Len(q)] = t[Len(q)]]
<1> DEFINE u == [q EXCEPT ![Len(q)] = t[Len(q)]]
<1>1. Len(q) \in 1 .. Len(q) /\ t[Len(q)] \in S
  OBVIOUS
<1>2. u \in Seq(S) /\ Len(u) = Len(q) /\ \A i \in 1 .. Len(q) : t[i] = u[i]
  BY <1>1
<1> HIDE DEF u
<1>3. t = u
  BY <1>2, SameAs
<1> QED
  BY <1>3 DEF u

LEMMA LongerIs ==
  ASSUME NEW S, NEW q \in Seq(S), NEW t \in Seq(S), Len(t) = Len(q) + 1,
         \A i \in 1 .. Len(q) : t[i] = q[i]
  PROVE  t = Append(q, t[Len(t)])
<1>1. t \in [1 .. Len(q) + 1 -> S] /\ t[Len(t)] \in S
  OBVIOUS
<1> QED
  BY <1>1, AppendIs

=============================================================================
