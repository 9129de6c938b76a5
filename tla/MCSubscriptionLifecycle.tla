---------------------- MODULE MCSubscriptionLifecycle ----------------------
(* Small instances of SubscriptionLifecycle. *)
EXTENDS SubscriptionLifecycle, TLC

CONSTANTS s1, s2, w1, w2

Symmetry == Permutations(Worker)
=============================================================================
