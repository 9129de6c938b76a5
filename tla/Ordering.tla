------------------------------ MODULE Ordering ------------------------------
(***************************************************************************)
(* The members of a finite set of integers in ascending order.  A member's *)
(* place is the number of members up to it: unlike a sorted permutation,   *)
(* that can be reasoned about without induction.                           *)
(***************************************************************************)
EXTENDS Integers, FiniteSets, Sequences

Ascending(I) ==
    LET place(i) == Cardinality({j \in I : j <= i})
    IN  [k \in 1 .. Cardinality(I) |-> CHOOSE i \in I : place(i) = k]
=============================================================================
