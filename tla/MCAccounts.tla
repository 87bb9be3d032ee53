----------------------------- MODULE MCAccounts -----------------------------
(* Instances of Accounts for TLC. *)
EXTENDS Accounts, TLC

Symmetry == Permutations(Org) \cup Permutations(Address) \cup Permutations(Invite)
            \cup Permutations(Request)
=============================================================================
