------------------------- MODULE MCProviderRuntime -------------------------
(* A small instance of ProviderRuntime: Wizz Air, which has a minimum poll  *)
(* interval and, as in its default definition, a longer cooldown for        *)
(* rate-limit answers.                                                      *)
EXTENDS ProviderRuntime, TLC

CONSTANTS wizzair, w1, w2

MCRank == [p \in Provider |-> 0]
MCInterval == [p \in Provider |-> 1]
MCCooldown == [p \in Provider |-> 1]
MCRateLimit == [p \in Provider |-> 2]

(* An administrator empties a time or types one far ahead. *)
MCTypedTime == {Null, MaxTime + 5}

Symmetry == Permutations(Worker)
=============================================================================
