------------------------------- MODULE MCPre -------------------------------
(***************************************************************************)
(* Model values for checking the replication engine.                       *)
(***************************************************************************)
EXTENDS SimplePre, TLC

=============================================================================
