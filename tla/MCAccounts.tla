------------------------------ MODULE MCAccounts ------------------------------
(* A finite instance of Accounts: requests are alike. *)
EXTENDS Accounts, TLC

CONSTANTS u1, r1, r2

MCSymmetry == Permutations(Requests)
===============================================================================
