--------------------------- MODULE OrderingProofs ---------------------------
(***************************************************************************)
(* TLAPS proofs of what sorting a set and filtering a sequence give, for   *)
(* every finite set and every sequence.                                    *)
(***************************************************************************)
EXTENDS Ordering, FiniteSetTheorems, SequenceTheorems, TLAPS

-----------------------------------------------------------------------------
(* Sorting.  The rank of an element, the number of those before it, is a    *)
(* one-to-one map of a finite set onto 0 .. n-1, so that Sorted lists every *)
(* element once.                                                            *)

\* The order is one of the elements of the set, and compares any two of them.
TotalOrder(S, less) ==
  /\ \A x \in S : <<x, x>> \notin less
  /\ \A x, y, z \in S : <<x, y>> \in less /\ <<y, z>> \in less => <<x, z>> \in less
  /\ \A x, y \in S : x # y => <<x, y>> \in less \/ <<y, x>> \in less

\* Who comes before another in a total order of a finite set has fewer members below.
LEMMA RankGrows ==
  ASSUME NEW S, IsFiniteSet(S), NEW less, TotalOrder(S, less),
         NEW x \in S, NEW y \in S, <<x, y>> \in less
  PROVE  Cardinality(Below(S, less, x)) < Cardinality(Below(S, less, y))
<1>1. Below(S, less, x) \subseteq Below(S, less, y) \ {x}
  BY DEF Below, TotalOrder
<1>2. x \in Below(S, less, y)
  BY DEF Below
<1>3. IsFiniteSet(Below(S, less, y)) /\ Cardinality(Below(S, less, y)) \in Nat
  BY FS_Subset, FS_CardinalityType DEF Below
<1>4. /\ IsFiniteSet(Below(S, less, y) \ {x})
      /\ Cardinality(Below(S, less, y) \ {x}) = Cardinality(Below(S, less, y)) - 1
  BY <1>2, <1>3, FS_RemoveElement
<1>5. /\ Cardinality(Below(S, less, x)) <= Cardinality(Below(S, less, y) \ {x})
      /\ IsFiniteSet(Below(S, less, x))
  BY <1>1, <1>4, FS_Subset
<1>0. Cardinality(Below(S, less, x)) \in Nat
  BY <1>5, FS_CardinalityType
<1>7. QED
  BY <1>3, <1>4, <1>5, <1>0

\* Sorting by a total order lists every member of a finite set once, each at the
\* place its number of lesser members gives: what sorted(...) returns.
LEMMA SortedLists ==
  ASSUME NEW S, IsFiniteSet(S), NEW less, TotalOrder(S, less)
  PROVE  /\ Cardinality(S) \in Nat
         /\ Sorted(S, less) \in [1 .. Cardinality(S) -> S]
         /\ \A i, j \in 1 .. Cardinality(S) :
              Sorted(S, less)[i] = Sorted(S, less)[j] => i = j
         /\ \A x \in S : \E i \in 1 .. Cardinality(S) : Sorted(S, less)[i] = x
         /\ \A i \in 1 .. Cardinality(S) :
              Cardinality(Below(S, less, Sorted(S, less)[i])) = i - 1
<1> DEFINE n == Cardinality(S)
           rank == [x \in S |-> Cardinality(Below(S, less, x))]
<1>1. n \in Nat
  BY FS_CardinalityType
<1>2. ASSUME NEW x \in S PROVE rank[x] \in 0 .. n - 1
  <2>1. Below(S, less, x) \subseteq S \ {x}
    BY DEF Below, TotalOrder
  <2>2. IsFiniteSet(S \ {x}) /\ Cardinality(S \ {x}) = n - 1
    BY FS_RemoveElement
  <2>3. IsFiniteSet(Below(S, less, x)) /\ Cardinality(Below(S, less, x)) <= n - 1
    BY <2>1, <2>2, FS_Subset
  <2>4. Cardinality(Below(S, less, x)) \in Nat
    BY <2>3, FS_CardinalityType
  <2>5. QED
    BY <1>1, <2>3, <2>4
<1>3. ASSUME NEW x \in S, NEW y \in S, rank[x] = rank[y] PROVE x = y
  <2>1. Cardinality(Below(S, less, x)) = Cardinality(Below(S, less, y))
    BY <1>3
  <2>2. rank[x] \in Nat /\ rank[y] \in Nat
    BY <1>1, <1>2
  <2>3. ~(<<x, y>> \in less) /\ ~(<<y, x>> \in less)
    BY <2>1, <2>2, RankGrows
  <2>4. QED
    BY <2>3 DEF TotalOrder
<1>4. rank \in Injection(S, 0 .. n - 1)
  BY <1>2, <1>3 DEF Injection, IsInjective
<1>5. IsFiniteSet(0 .. n - 1) /\ Cardinality(0 .. n - 1) = n
  <2>1. 0 \in Int /\ n - 1 \in Int
    BY <1>1
  <2>2. /\ IsFiniteSet(0 .. n - 1)
        /\ Cardinality(0 .. n - 1) = IF 0 > n - 1 THEN 0 ELSE (n - 1) - 0 + 1
    BY <2>1, FS_Interval
  <2> HIDE DEF n
  <2>3. QED
    BY <1>1, <2>2
<1>0. rank \in Surjection(S, 0 .. n - 1)
  BY <1>4, <1>5, FS_Injection
<1>7. \A k \in 0 .. n - 1 : \E x \in S : rank[x] = k
  BY <1>0 DEF Surjection
<1>8. ASSUME NEW i \in 1 .. n
      PROVE  Sorted(S, less)[i] \in S /\ rank[Sorted(S, less)[i]] = i - 1
  <2>1. \E x \in S : Cardinality(Below(S, less, x)) = i - 1
    BY <1>1, <1>7
  <2>2. Sorted(S, less)[i] = CHOOSE x \in S : Cardinality(Below(S, less, x)) = i - 1
    BY DEF Sorted
  <2>3. QED
    BY <2>1, <2>2
<1>9. ASSUME NEW x \in S PROVE \E i \in 1 .. n : Sorted(S, less)[i] = x
  <2>1. rank[x] \in 0 .. n - 1 /\ rank[x] + 1 \in 1 .. n
    BY <1>1, <1>2
  <2>2. Sorted(S, less)[rank[x] + 1] = x
    <3> HIDE DEF rank
    <3>1. /\ Sorted(S, less)[rank[x] + 1] \in S
          /\ rank[Sorted(S, less)[rank[x] + 1]] = rank[x]
      BY <1>1, <1>8, <2>1
    <3>2. QED
      BY <1>3, <3>1
  <2>3. QED
    BY <2>1, <2>2
<1>10. Sorted(S, less) = [i \in 1 .. n |-> Sorted(S, less)[i]]
  BY DEF Sorted
<1>11. QED
  <2>1. Sorted(S, less) \in [1 .. n -> S]
    BY <1>8, <1>10
  <2>2. \A i, j \in 1 .. n : Sorted(S, less)[i] = Sorted(S, less)[j] => i = j
    <3> HIDE DEF rank
    <3>1. SUFFICES ASSUME NEW i \in 1 .. n, NEW j \in 1 .. n,
                          Sorted(S, less)[i] = Sorted(S, less)[j]
                   PROVE  i = j
      OBVIOUS
    <3>2. i - 1 = j - 1 /\ i \in Nat /\ j \in Nat
      BY <1>1, <1>8, <3>1
    <3>3. QED
      BY <3>2
  <2>3. \A i \in 1 .. n : Cardinality(Below(S, less, Sorted(S, less)[i])) = i - 1
    BY <1>8
  <2>4. QED
    BY <1>1, <1>9, <2>1, <2>2, <2>3

-----------------------------------------------------------------------------
(* Filtering *)

\* A finite set of numbers, listed from the least to the largest, each once.
LEMMA AscendingLists ==
  ASSUME NEW P, P \subseteq Nat, IsFiniteSet(P)
  PROVE  /\ Cardinality(P) \in Nat
         /\ Ascending(P) \in [1 .. Cardinality(P) -> P]
         /\ \A i, j \in 1 .. Cardinality(P) : Ascending(P)[i] = Ascending(P)[j] => i = j
         /\ \A p \in P : \E i \in 1 .. Cardinality(P) : Ascending(P)[i] = p
         /\ \A i \in 1 .. Cardinality(P) :
              Cardinality({p \in P : p < Ascending(P)[i]}) = i - 1
<1> DEFINE less == {p \in P \X P : p[1] < p[2]}
<1>1. \A x, y \in P : <<x, y>> \in less <=> x < y
  OBVIOUS
<1>2. TotalOrder(P, less)
  <2> HIDE DEF less
  <2>1. \A x \in P : x \in Nat
    OBVIOUS
  <2>2. QED
    BY <1>1, <2>1 DEF TotalOrder
<1>3. \A x \in P : Below(P, less, x) = {p \in P : p < x}
  BY <1>1 DEF Below
<1>4. Ascending(P) = Sorted(P, less)
  BY DEF Ascending
<1> HIDE DEF less
<1>5. /\ Cardinality(P) \in Nat
      /\ Ascending(P) \in [1 .. Cardinality(P) -> P]
      /\ \A i, j \in 1 .. Cardinality(P) : Ascending(P)[i] = Ascending(P)[j] => i = j
      /\ \A p \in P : \E i \in 1 .. Cardinality(P) : Ascending(P)[i] = p
      /\ \A i \in 1 .. Cardinality(P) : Cardinality(Below(P, less, Ascending(P)[i])) = i - 1
  BY <1>2, <1>4, SortedLists
<1>6. ASSUME NEW i \in 1 .. Cardinality(P)
      PROVE  Cardinality({p \in P : p < Ascending(P)[i]}) = i - 1
  <2>1. Ascending(P)[i] \in P
    BY <1>5
  <2>2. Below(P, less, Ascending(P)[i]) = {p \in P : p < Ascending(P)[i]}
    BY <1>3, <2>1
  <2>3. QED
    BY <1>5, <2>2
<1>7. QED
  BY <1>5, <1>6

\* The numbers from 1 to n are where they belong.
LEMMA AscendingAll ==
  ASSUME NEW n \in Nat
  PROVE  /\ IsFiniteSet(1 .. n) /\ Cardinality(1 .. n) = n
         /\ \A i \in 1 .. n : Ascending(1 .. n)[i] = i
<1>1. /\ IsFiniteSet(1 .. n) /\ Cardinality(1 .. n) = n
  BY FS_Interval
<1>2. SUFFICES ASSUME NEW i \in 1 .. n PROVE Ascending(1 .. n)[i] = i
  BY <1>1
<1> DEFINE a == Ascending(1 .. n)[i]
<1>3. a \in 1 .. n /\ Cardinality({p \in 1 .. n : p < a}) = i - 1
  <2>1. 1 .. n \subseteq Nat
    OBVIOUS
  <2>2. /\ Ascending(1 .. n) \in [1 .. Cardinality(1 .. n) -> 1 .. n]
        /\ \A k \in 1 .. Cardinality(1 .. n) :
             Cardinality({p \in 1 .. n : p < Ascending(1 .. n)[k]}) = k - 1
    BY <1>1, <2>1, AscendingLists
  <2>3. QED
    BY <1>1, <2>2
<1> HIDE DEF a
<1>4. {p \in 1 .. n : p < a} = 1 .. a - 1
  BY <1>3
<1>5. Cardinality(1 .. a - 1) = a - 1
  <2>1. 1 \in Int /\ a \in Int /\ a - 1 \in Int /\ a >= 1
    BY <1>3
  <2>2. Cardinality(1 .. a - 1) = IF 1 > a - 1 THEN 0 ELSE (a - 1) - 1 + 1
    BY <2>1, FS_Interval
  <2>3. QED
    BY <2>1, <2>2
<1>6. a - 1 = i - 1 /\ a \in Int /\ i \in Int
  <2>1. Cardinality({p \in 1 .. n : p < a}) = Cardinality(1 .. a - 1)
    BY <1>4
  <2>2. QED
    BY <1>3, <1>5, <2>1
<1>7. QED
  BY <1>6 DEF a

\* What is picked from a sequence is a sequence of elements of it.
LEMMA PickedIsSequence ==
  ASSUME NEW T, NEW s \in Seq(T), NEW P, P \subseteq DOMAIN s
  PROVE  /\ P \subseteq Nat /\ IsFiniteSet(P)
         /\ Cardinality(P) \in Nat
         /\ Picked(s, P) \in Seq(T) /\ Len(Picked(s, P)) = Cardinality(P)
         /\ DOMAIN Picked(s, P) = 1 .. Cardinality(P)
         /\ \A i \in 1 .. Cardinality(P) :
              Ascending(P)[i] \in P /\ Picked(s, P)[i] = s[Ascending(P)[i]]
<1>1. Len(s) \in Nat /\ DOMAIN s = 1 .. Len(s) /\ \A i \in 1 .. Len(s) : s[i] \in T
  OBVIOUS
<1>2. P \subseteq Nat /\ IsFiniteSet(P)
  <2>1. IsFiniteSet(1 .. Len(s))
    BY <1>1, AscendingAll
  <2>2. QED
    BY <1>1, <2>1, FS_Subset
<1>3. Cardinality(P) \in Nat /\ Ascending(P) \in [1 .. Cardinality(P) -> P]
  BY <1>2, AscendingLists
<1>4. \A i \in 1 .. Cardinality(P) : Ascending(P)[i] \in P /\ s[Ascending(P)[i]] \in T
  BY <1>1, <1>3
<1>5. Picked(s, P) = [i \in 1 .. Cardinality(P) |-> s[Ascending(P)[i]]]
  BY DEF Picked
<1>6. Picked(s, P) \in [1 .. Cardinality(P) -> T]
  BY <1>4, <1>5
<1>7. QED
  BY <1>2, <1>3, <1>4, <1>5, <1>6

\* Picking everything changes nothing.
LEMMA PickedAll ==
  ASSUME NEW T, NEW s \in Seq(T)
  PROVE  Picked(s, DOMAIN s) = s
<1>1. Len(s) \in Nat /\ DOMAIN s = 1 .. Len(s)
  OBVIOUS
<1>2. /\ Cardinality(1 .. Len(s)) = Len(s)
      /\ \A i \in 1 .. Len(s) : Ascending(1 .. Len(s))[i] = i
  BY <1>1, AscendingAll
<1>3. Picked(s, 1 .. Len(s)) = [i \in 1 .. Len(s) |-> s[i]]
  BY <1>1, <1>2 DEF Picked
<1>4. s = [i \in 1 .. Len(s) |-> s[i]]
  BY <1>1
<1>5. QED
  BY <1>1, <1>3, <1>4

\* What is picked depends only on what the sequence has at these positions.
LEMMA PickedSame ==
  ASSUME NEW P, P \subseteq Nat, IsFiniteSet(P), NEW s, NEW t,
         \A p \in P : s[p] = t[p]
  PROVE  Picked(s, P) = Picked(t, P)
<1>1. \A i \in 1 .. Cardinality(P) : Ascending(P)[i] \in P
  BY AscendingLists
<1>2. QED
  BY <1>1 DEF Picked
=============================================================================
