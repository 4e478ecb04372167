------------------------------- MODULE MCTrash --------------------------------
(* Trash for TLC: a folder among files, and all faults of the environment. *)
EXTENDS Trash
==============================================================================
