-------------------------- MODULE MCEngineAndGateway --------------------------
(***************************************************************************)
(* The constants of the run of engine and gateway together.                *)
(***************************************************************************)
EXTENDS EngineAndGateway, TLC

CONSTANTS u1, c1

\* One card with two lines.
TwoLines == c1 :> <<<<1, 0>>, <<0, 2>>>>

=============================================================================
