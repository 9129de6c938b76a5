--------------------------- MODULE MCPriceHistory ---------------------------
(* Small instances of PriceHistory.  A result has one or two fares; the same *)
(* identity may occur twice in it.                                           *)
EXTENDS PriceRefinement, TLC

CONSTANTS f1, f2, w1, w2, p1, p2, p3

Quotes(n) == [1 .. n -> Quote]
OneFare == Quotes(1)
UpToTwoFares == Quotes(1) \cup Quotes(2)

(* One fare of any amount, or two of whole cents. *)
TwoExactFares == Quotes(1) \cup {fares \in Quotes(2) : \A i \in 1 .. 2 : fares[i].price # p3}

(* p3 has more decimals than a column, which holds it as p2. *)
RoundsToP2 == [p \in Price |-> IF p = p3 THEN p2 ELSE p]

Symmetry == Permutations({w1, w2})
=============================================================================
