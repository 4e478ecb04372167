---------------------------- MODULE MCBatchRename ----------------------------
(* BatchRename for TLC. *)
EXTENDS BatchRename
==============================================================================
