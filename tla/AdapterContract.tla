--------------------------- MODULE AdapterContract ---------------------------
(***************************************************************************)
(* What run_subscription relies on when it calls search of an airline      *)
(* adapter: the call returns fares in the order of their outbound dates,   *)
(* or raises; a WizzAirRateLimitError is told from any other exception.    *)
(* Nothing is handed over unless the whole search succeeds.                *)
(***************************************************************************)
EXTENDS Integers, Sequences

CONSTANTS
    Day,         \* outbound dates
    RateLimited  \* TRUE if the adapter raises a rate-limit error of its own

VARIABLES
    outcome,  \* "idle", "searching", or how the call ended
    dates     \* outbound dates of the fares returned

vars == <<outcome, dates>>

Ended == {"fares", "error", "rateLimit"}
Sorted(s) == \A i, j \in 1 .. Len(s) : i < j => s[i] <= s[j]

Init == outcome = "idle" /\ dates = << >>

Call ==
    /\ outcome = "idle"
    /\ outcome' = "searching"
    /\ UNCHANGED dates

Return ==
    /\ outcome = "searching"
    /\ outcome' = "fares"
    /\ dates' \in Seq(Day) /\ Sorted(dates')

Raise ==
    /\ outcome = "searching"
    /\ outcome' \in {"error"} \cup (IF RateLimited THEN {"rateLimit"} ELSE {})
    /\ UNCHANGED dates

Handled ==
    /\ outcome \in Ended
    /\ outcome' = "idle" /\ dates' = << >>

Next == Call \/ Return \/ Raise \/ Handled

Spec == Init /\ [][Next]_vars
=============================================================================
