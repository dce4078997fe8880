------------------------------ MODULE MCLaunch ------------------------------
(* Symmetry of the Launch runs: nothing tells one account from another. *)
EXTENDS Launch, TLC

AccountSymmetry == Permutations(Accounts)
=============================================================================
