-------------------------- MODULE MCPermanentDelete --------------------------
(* PermanentDelete for TLC. *)
EXTENDS PermanentDelete
==============================================================================
