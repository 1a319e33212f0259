------------------------------ MODULE MCWallet ------------------------------
(***************************************************************************)
(* The constants of the wallet's runs.                                     *)
(***************************************************************************)
EXTENDS Wallet

CONSTANTS saver, player, s1, a1

=============================================================================
