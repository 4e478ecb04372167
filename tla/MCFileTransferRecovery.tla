------------------------ MODULE MCFileTransferRecovery -----------------------
(***************************************************************************)
(* What becomes of an interrupted operation when the program is started    *)
(* again and again, and the user answers every question: nobody else       *)
(* touches the files.                                                      *)
(***************************************************************************)
EXTENDS FileTransfer

(* The recovery workflow resumes what it finds in the journal, and the     *)
(* user answers, always.                                                   *)
PersistentSpec ==
  /\ Spec
  /\ WF_vars(Resume)
  /\ WF_vars(DecideOverwrite \/ DecideCreateCopy \/ DecideCancel)

(* README.md:34 promises "recovery of interrupted operations": an          *)
(* operation that is in the journal is, some run later, out of it again,   *)
(* finished or undone.                                                     *)
InterruptedIsRecovered == (journal.current # NoTxn) ~> (journal.current = NoTxn)
==============================================================================
