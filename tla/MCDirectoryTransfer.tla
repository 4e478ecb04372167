-------------------------- MODULE MCDirectoryTransfer --------------------------
(* A folder of two files, with a few failures and one interference, for TLC. *)
EXTENDS DirectoryTransfer
==============================================================================
