------------------------------ MODULE PriceWatch ------------------------------
(***************************************************************************)
(* What the price history of one subscription and one provider promises:   *)
(* every fare a poll returns is kept, the changes recorded of a fare are   *)
(* exactly those between each of its prices and the one before it, and     *)
(* both appear at once, in the order the fares were returned.              *)
(***************************************************************************)
EXTENDS Integers, Sequences, Ordering

CONSTANTS
    Fare,     \* fare identities
    Price,    \* prices
    NoPrice,  \* the old price of a first observation
    Result    \* what a poll may return: sequences of fares with prices

VARIABLES
    exists,    \* the subscription has not been deleted
    observed,  \* the prices stored of each fare, oldest first
    changes    \* the changes recorded of each fare, oldest first

vars == <<exists, observed, changes>>

Init ==
    /\ exists = TRUE
    /\ observed = [f \in Fare |-> << >>]
    /\ changes = [f \in Fare |-> << >>]

(* The prices of one fare in a result, which may hold it more than once. *)
PricesOf(f, fares) ==
    LET own == Ascending({i \in 1 .. Len(fares) : fares[i].fare = f})
    IN  [k \in 1 .. Len(own) |-> fares[own[k]].price]

(* The price before each of a sequence of prices; there is none before the   *)
(* first.                                                                    *)
PriceBefore(s, i) == IF i = 1 THEN NoPrice ELSE s[i - 1]

(* The changes within a sequence of prices; the first price is one. *)
Transitions(s) ==
    LET changed == Ascending({i \in 1 .. Len(s) : PriceBefore(s, i) # s[i]})
    IN  [k \in 1 .. Len(changed) |->
            [old |-> PriceBefore(s, changed[k]), new |-> s[changed[k]]]]

Observe(fares) ==
    /\ exists
    /\ observed' = [f \in Fare |-> observed[f] \o PricesOf(f, fares)]
    /\ changes' = [f \in Fare |-> Transitions(observed'[f])]
    /\ UNCHANGED exists

(* Deleting the subscription deletes what was stored for it. *)
Delete ==
    /\ exists
    /\ exists' = FALSE
    /\ observed' = [f \in Fare |-> << >>]
    /\ changes' = [f \in Fare |-> << >>]

Next == Delete \/ \E fares \in Result : Observe(fares)

Spec == Init /\ [][Next]_vars
=============================================================================
