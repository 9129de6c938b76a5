------------------------------ MODULE MCAccounts ------------------------------
(* A small instance of Accounts: two addresses with the local part ana, and  *)
(* administrators that name an account ana-2, after ana-2@z, or otherwise.   *)
EXTENDS Accounts, TLC

CONSTANTS e1, e2, e3, a1, a2, a3, v1, v2, ana, bob

MCBaseOf == [e \in Email |-> <<ana>>]
MCChosen == {<<ana, 2>>, <<bob>>}

(* An administrator takes an approval back, or locks an approved account. *)
MCFlags == {[active |-> TRUE, approved |-> FALSE, temporary |-> FALSE],
            [active |-> FALSE, approved |-> TRUE, temporary |-> TRUE]}

Symmetry == Permutations(Applicant) \cup Permutations(Account) \cup Permutations(Reviewer)
=============================================================================
