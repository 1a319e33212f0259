------------------------------ MODULE MCAccounts ------------------------------
(***************************************************************************)
(* The constants of the runs of Accounts.                                  *)
(***************************************************************************)
EXTENDS Accounts, TLC

CONSTANTS p1, p2, v1, v2, e1

AccountsSymmetry == Permutations(Phones) \cup Permutations(Verifications)

=============================================================================
