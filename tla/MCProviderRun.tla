---------------------------- MODULE MCProviderRun ----------------------------
(* Small instances of ProviderRun: listings of up to three pages of up to    *)
(* two fares, whose links lead forward, so that a page may also be skipped;  *)
(* answers of up to two flights, some without a date or a price.             *)
EXTENDS ProviderRun

MCDay == 1 .. 2
Dates == UNION {[1 .. n -> MCDay] : n \in 0 .. 2}
MCListing ==
    {l \in [1 .. MaxPages -> [dates : Dates, next : 0 .. MaxPages]] :
        \A p \in 1 .. MaxPages : l[p].next = 0 \/ l[p].next > p}

MCFlight == [day : MCDay \cup {NoDay}, priced : BOOLEAN]
MCAnswer == UNION {[1 .. n -> MCFlight] : n \in 0 .. 2}
=============================================================================
