-------------------------- MODULE MCDurableJournal ---------------------------
(* DurableJournal for TLC: a handful of records, interchangeable. *)
EXTENDS DurableJournal, TLC

Symmetry == Permutations(Payload)
==============================================================================
