----------------------------- MODULE MCEngine -----------------------------
(***************************************************************************)
(* The packet engine with configuration swaps, for model checking.         *)
(***************************************************************************)
EXTENDS EngineProperties, TLC

=============================================================================
