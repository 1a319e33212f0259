---------------------------- MODULE MCRoomsGateway ----------------------------
(***************************************************************************)
(* The constants of the gateway's run.                                     *)
(***************************************************************************)
EXTENDS RoomsGateway

CONSTANTS r1, r2

=============================================================================
