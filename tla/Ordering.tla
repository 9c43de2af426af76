------------------------------ MODULE Ordering ------------------------------
(***************************************************************************)
(* Sorting a set and filtering a sequence, as Python's sorted and its list *)
(* comprehensions do it.  Both are written with the ranks of the elements  *)
(* and not as a recursion over a sequence, because what a recursive        *)
(* definition computes can only be proved by induction.                    *)
(***************************************************************************)
EXTENDS Integers, Sequences, FiniteSets

Below(S, less, x) == {y \in S : <<y, x>> \in less}

\* The elements of a set in the order of a relation that is total on it.
Sorted(S, less) ==
  [i \in 1 .. Cardinality(S) |-> CHOOSE x \in S : Cardinality(Below(S, less, x)) = i - 1]

\* A set of numbers from the least to the largest.
Ascending(P) == Sorted(P, {p \in P \X P : p[1] < p[2]})

\* What a sequence has at these positions, in its order.
Picked(s, positions) ==
  [i \in 1 .. Cardinality(positions) |-> s[Ascending(positions)[i]]]
=============================================================================
