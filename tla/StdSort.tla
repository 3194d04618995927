------------------------------ MODULE StdSort -------------------------------
(***************************************************************************)
(* src/stdlib/sort.HC: SortI64, a quicksort that recurses into the smaller *)
(* part, loops on the larger one and leaves short ranges to an insertion   *)
(* sort.  A frame of the recursion is the range its loop has left to sort. *)
(***************************************************************************)
EXTENDS Integers, SequencesExt, Bags

CONSTANTS
    Values,     \* the elements
    Sizes,      \* bound: the lengths of the arrays sorted
    Short       \* ranges with hi - lo below this are insertion-sorted: 16

VARIABLES
    arr,        \* the array, from index 0
    frames,     \* the active calls of _I64QSort, the innermost last
    input       \* history: the array SortI64 was called with

vars == <<arr, frames, input>>

N == Cardinality(DOMAIN input)
Frame(l, h) == [lo |-> l, hi |-> h]
Top == frames[Len(frames)]
Callers == SubSeq(frames, 1, Len(frames) - 1)

Swap(a, i, j) == [a EXCEPT ![i] = a[j], ![j] = a[i]]

\* One turn of _I64InsSort: key arr[i] goes behind the last element of the sorted
\* part that is not greater, and those after it move up.
InsertElement(a, lo, i) ==
    LET p == Max({lo} \union {j + 1 : j \in {x \in lo .. i - 1 : a[x] <= a[i]}})
    IN  [x \in DOMAIN a |-> IF x = p THEN a[i]
                            ELSE IF x \in p + 1 .. i THEN a[x - 1]
                            ELSE a[x]]

InsSort(a, lo, hi) ==
    LET after[i \in lo .. hi] ==
          IF i = lo THEN a ELSE InsertElement(after[i - 1], lo, i)
    IN  after[hi]

\* MUTANT of PartitionTurn: elements that are not smaller than the pivot move too.
PartitionTurnReversed(s, j, pivot) ==
    IF s.a[j] >= pivot
    THEN [a |-> Swap(s.a, s.i + 1, j), i |-> s.i + 1]
    ELSE s

\* One turn of the loop of _I64Partition.
PartitionTurn(s, j, pivot) ==
    IF s.a[j] <= pivot
    THEN [a |-> Swap(s.a, s.i + 1, j), i |-> s.i + 1]
    ELSE s

\* The array _I64Partition leaves and the place of the pivot it returns.
Partition(a, lo, hi) ==
    LET after[j \in lo - 1 .. hi - 1] ==
          IF j = lo - 1 THEN [a |-> a, i |-> lo - 1]
          ELSE PartitionTurn(after[j - 1], j, a[hi])
        s == after[hi - 1]
    IN  [a |-> Swap(s.a, s.i + 1, hi), p |-> s.i + 1]

\* SortI64 on any array of one of the Sizes.
Init ==
    /\ \E n \in Sizes : arr \in [0 .. n - 1 -> Values]
    /\ input = arr
    /\ frames = IF N > 1 THEN <<Frame(0, N - 1)>> ELSE <<>>

ReturnFromEmpty ==
    /\ frames # <<>> /\ Top.lo >= Top.hi
    /\ frames' = Callers
    /\ UNCHANGED <<arr, input>>

SortShort ==
    /\ frames # <<>> /\ Top.lo < Top.hi
    /\ Top.hi - Top.lo < Short
    /\ arr' = InsSort(arr, Top.lo, Top.hi)
    /\ frames' = Callers
    /\ UNCHANGED input

\* MUTANT of SmallerFirst: the call gets the larger part.
LargerFirst(lo, p, hi) ==
    IF p - lo >= hi - p THEN <<Frame(p + 1, hi), Frame(lo, p - 1)>>
    ELSE <<Frame(lo, p - 1), Frame(p + 1, hi)>>

\* What the loop keeps for itself, and what it calls _I64QSort for first.
SmallerFirst(lo, p, hi) ==
    IF p - lo < hi - p THEN <<Frame(p + 1, hi), Frame(lo, p - 1)>>
    ELSE <<Frame(lo, p - 1), Frame(p + 1, hi)>>

SortLong ==
    /\ frames # <<>> /\ Top.lo < Top.hi
    /\ Top.hi - Top.lo >= Short
    /\ LET part == Partition(arr, Top.lo, Top.hi)
       IN  /\ arr' = part.a
           /\ frames' = Callers \o SmallerFirst(Top.lo, part.p, Top.hi)
    /\ UNCHANGED input

Done == frames = <<>> /\ UNCHANGED vars

Next == ReturnFromEmpty \/ SortShort \/ SortLong \/ Done

Spec == Init /\ [][Next]_vars

(***************************************************************************)
(* Properties                                                              *)
(***************************************************************************)
BagOf(a) == [v \in {a[i] : i \in DOMAIN a} |-> Cardinality({i \in DOMAIN a : a[i] = v})]

\* The array holds the elements it was given, each as often, at every moment.
KeepsElements == BagOf(arr) = BagOf(input)

\* Outside the ranges that are still to be sorted, every element is where it stays:
\* nothing before it is greater and nothing after it is smaller.
SettledInPlace ==
    \A i \in DOMAIN arr :
        (\A f \in ToSet(frames) : i \notin f.lo .. f.hi) =>
            \A j \in DOMAIN arr : /\ j < i => arr[j] <= arr[i]
                                  /\ j > i => arr[j] >= arr[i]

Power2[n \in Nat] == IF n = 0 THEN 1 ELSE 2 * Power2[n - 1]

\* A range on the stack is at most half of what its caller's loop began with, so
\* that the depth of the recursion is logarithmic for every input.
DepthIsLogarithmic == Power2[Len(frames)] <= 2 * (N + 1)

\* What calls fs have left to do: two for every element of a range and one for the
\* range.
WorkOf(fs) ==
    LET upTo[k \in 0 .. Len(fs)] ==
          IF k = 0 THEN 0 ELSE upTo[k - 1] + 2 * (fs[k].hi - fs[k].lo + 1) + 1
    IN  upTo[Len(fs)]
Work == WorkOf(frames)

\* The sort ends: every step leaves less to do, whatever pivot it met.
WorkShrinks == [][Work' < Work]_vars
=============================================================================
