---------------------------- MODULE MCFileCommands ----------------------------
(* FileCommands for TLC: a queue of folders and a file, and a batch of folders. *)
EXTENDS FileCommands
==============================================================================
