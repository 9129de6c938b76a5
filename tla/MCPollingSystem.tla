---------------------------- MODULE MCPollingSystem ----------------------------
(* Small instances of PollingSystem: the two airlines of the default         *)
(* configuration, of which only Wizz Air has an interval.                    *)
EXTENDS PollingSystem, TLC

CONSTANTS s1, s2, w1, w2, ryanair, wizzair

MCRotation == <<ryanair, wizzair>>
=============================================================================
