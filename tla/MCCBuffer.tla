----------------------------- MODULE MCCBuffer -----------------------------
(***************************************************************************)
(* Model values for checking the ring of destinations on its own.          *)
(***************************************************************************)
EXTENDS CBuffer, TLC

=============================================================================
