---------------------------- MODULE FolderTransfer ----------------------------
(***************************************************************************)
(* What a client of the helper that transfers one folder may rely on: the  *)
(* commands of file_transfer_service.cpp and fileops/helper/main.cpp, the  *)
(* evidence they leave on disk, and the hand-over of the completion, in    *)
(* which the helper waits for the client's acknowledgement before it       *)
(* removes the evidence.  ObjectTransferQueue is such a client;            *)
(* DirectoryTransfer, the work itself, implements this specification.      *)
(*                                                                         *)
(* The evidence of a transfer is its control directory: "none", "husk"     *)
(* (the directory without a complete manifest) or "manifest".              *)
(***************************************************************************)
EXTENDS Naturals

CONSTANTS Folders     \* the folders to transfer, each with a control directory of its own

VARIABLES folder      \* the helper, the evidence and the last answer for each folder

Commands == {"fresh", "discover", "resume", "discard", "discover_discard"}
Scans == {"discover", "discover_discard"}

(* "kept": recovery_available without a manifest path, "kept_path": with   *)
(* one; "clean": a status of clean_directory_failure, nothing to recover;  *)
(* "other": any other failure that offers no recovery.  The status         *)
(* not_found has four meanings: "not_found", the evidence is not there;    *)
(* "missing", a fresh transfer lacks its source or its destination;        *)
(* "lost" and "lost_path", the same of a transfer that is under way, which *)
(* offers recovery.                                                        *)
Answers ==
  {"none", "ok", "not_found", "missing", "clean", "other", "kept", "kept_path", "lost",
   "lost_path"}

Folder ==
  [stage : {"off", "looking", "working", "withdrawing", "reporting", "acknowledged"},
   command : Commands \union {"none"},
   evidence : {"none", "husk", "manifest"},
   delivered : BOOLEAN,
   answer : Answers]

Untouched ==
  [stage |-> "off", command |-> "none", evidence |-> "none",
   delivered |-> FALSE, answer |-> "none"]

FolderInit == folder = [i \in Folders |-> Untouched]

Become(i, f) == folder' = [folder EXCEPT ![i] = f]

Answer(f, a) == [f EXCEPT !.stage = "off", !.command = "none", !.answer = a]

Given(f, command) ==
  [f EXCEPT !.stage = IF command = "fresh" /\ f.evidence = "none" THEN "working" ELSE "looking",
            !.command = command, !.answer = "none"]

Goes(f, stage, evidence) == [f EXCEPT !.stage = stage, !.evidence = evidence]

Recovering(f) == f.command \in Commands \ {"fresh"}

(* The wrapper of a resumed command offers recovery after any failure, and *)
(* names the manifest, even one that is gone.                              *)
Failures(f) == IF Recovering(f) THEN {"kept_path"} ELSE {"clean", "other"}

-----------------------------------------------------------------------------
(* The client. *)

Begin(i, command) ==
  /\ folder[i].stage = "off"
  /\ Become(i, Given(folder[i], command))

Acknowledge(i) ==
  /\ folder[i].stage = "reporting"
  /\ Become(i, Goes(folder[i], "acknowledged", folder[i].evidence))

(* The pipe breaks, the helper dies, stays silent or is killed: a client   *)
(* that is still there is told that the outcome is unknown.                *)
Lose(i, a) ==
  /\ folder[i].stage # "off"
  /\ Become(i, Answer(folder[i], a))

-----------------------------------------------------------------------------
(* The helper looks for the evidence. *)

FindNothing(i) ==
  LET f == folder[i] IN
  /\ f.stage = "looking" /\ f.evidence = "none"
  /\ Become(i, Answer(f, "not_found"))

(* A scan takes a control directory without a manifest for damage.         *)
FindHusk(i) ==
  LET f == folder[i] IN
  /\ f.stage = "looking" /\ f.command \in Scans \union {"discard"} /\ f.evidence = "husk"
  /\ Become(i, Answer(f, IF f.command \in Scans THEN "kept" ELSE "not_found"))

(* The manifest is incomplete, or cannot be read: nothing is known of the  *)
(* transfer, and no recovery is offered.                                   *)
Reject(i) ==
  LET f == folder[i] IN
  /\ f.stage = "looking" /\ f.command # "fresh"
  /\ f.evidence = "manifest" \/ (f.evidence = "husk" /\ f.command \notin Scans)
  /\ Become(i, Answer(f, "other"))

(* cleanup_manifestless_control_directory, which may itself fail.          *)
CleanHusk(i, left) ==
  LET f == folder[i] IN
  /\ f.stage = "looking" /\ f.command = "resume" /\ f.evidence = "husk"
  /\ left \in {"none", "husk"}
  /\ Become(i, Answer(Goes(f, f.stage, left), "not_found"))

FindManifest(i) ==
  LET f == folder[i] IN
  /\ f.stage = "looking" /\ f.command # "fresh" /\ f.evidence = "manifest"
  /\ Become(i, Goes(f, "working", f.evidence))

(* A fresh transfer does not touch a control directory that bears its      *)
(* number already.                                                         *)
FindControlTaken(i) ==
  LET f == folder[i] IN
  /\ f.stage = "looking" /\ f.command = "fresh" /\ f.evidence # "none"
  /\ Become(i, Answer(f, "clean"))

-----------------------------------------------------------------------------
(* The helper works. *)

Refuse(i, a) ==
  LET f == folder[i] IN
  /\ f.stage = "working" /\ f.evidence = "none" /\ a \in Failures(f)
  /\ Become(i, Answer(f, a))

(* The destination is taken, by the very folder this transfer delivered.   *)
FindDestinationTaken(i) == folder[i].delivered /\ Refuse(i, "clean")

MakeControl(i) ==
  LET f == folder[i] IN
  /\ f.stage = "working" /\ f.evidence = "none" /\ ~f.delivered
  /\ Become(i, Goes(f, f.stage, "husk"))

AbandonHusk(i, left, a) ==
  LET f == folder[i] IN
  /\ f.stage = "working" /\ f.evidence = "husk"
  /\ left \in {"none", "husk"} /\ a \in Failures(f)
  /\ Become(i, Answer(Goes(f, f.stage, left), a))

WriteManifest(i) ==
  LET f == folder[i] IN
  /\ f.stage = "working" /\ f.evidence = "husk"
  /\ Become(i, Goes(f, f.stage, "manifest"))

Deliver(i) ==
  LET f == folder[i] IN
  /\ f.stage = "working" /\ f.evidence = "manifest" /\ ~f.delivered
  /\ Become(i, [f EXCEPT !.delivered = TRUE])

(* A failure after which the manifest stays. *)
GiveUp(i) ==
  LET f == folder[i] IN
  /\ f.stage = "working" /\ f.evidence = "manifest"
  /\ Become(i, Answer(f, "kept_path"))

(* A failure that left nothing behind: the manifest is retired too, and    *)
(* the helper answers, or starts over with a new control directory.        *)
Withdraw(i) ==
  LET f == folder[i] IN
  /\ f.stage = "working" /\ f.evidence = "manifest" /\ ~f.delivered
  /\ Become(i, Goes(f, "withdrawing", "husk"))

FinishWithdrawal(i) ==
  LET f == folder[i] IN
  /\ f.stage = "withdrawing"
  /\ Become(i, Goes(f, "working", "none"))

FailWithdrawal(i) ==
  LET f == folder[i] IN
  /\ f.stage = "withdrawing"
  /\ Become(i, Answer(f, "kept_path"))

-----------------------------------------------------------------------------
(* The completion and its acknowledgement. *)

Report(i) ==
  LET f == folder[i] IN
  /\ f.stage = "working" /\ f.evidence = "manifest" /\ f.delivered
  /\ Become(i, Goes(f, "reporting", f.evidence))

(* What was unfinished has been removed, at the user's request. *)
ReportDiscard(i) ==
  LET f == folder[i] IN
  /\ f.stage = "working" /\ f.evidence = "manifest"
  /\ f.command \in {"discard", "discover_discard"}
  /\ Become(i, Goes(f, "reporting", f.evidence))

(* The reconciliation of a copy removes the evidence before it reports. *)
ConfirmCopy(i, left) ==
  LET f == folder[i] IN
  /\ f.stage = "working" /\ f.evidence = "manifest" /\ f.delivered /\ Recovering(f)
  /\ left \in {"none", "husk", "manifest"}
  /\ Become(i, Goes(f, "reporting", left))

Retire(i) ==
  LET f == folder[i] IN
  /\ f.stage = "acknowledged" /\ f.evidence = "manifest"
  /\ Become(i, Goes(f, f.stage, "husk"))

FinishRetirement(i) ==
  LET f == folder[i] IN
  /\ f.stage = "acknowledged" /\ f.evidence \in {"none", "husk"}
  /\ Become(i, Answer(Goes(f, f.stage, "none"), "ok"))

FailRetirement(i) ==
  LET f == folder[i] IN
  /\ f.stage = "acknowledged" /\ f.evidence # "none"
  /\ Become(i, Answer(f, "kept_path"))

-----------------------------------------------------------------------------
(* The source or the destination is out of reach, because its volume was   *)
(* removed or a folder above it renamed, and every look at it ends with    *)
(* not_found: a scan finds nothing in an empty mount point, or no folder   *)
(* to scan.  What is there stays there.                                    *)
OutOfReach(i, a) ==
  LET f == folder[i] IN
  /\ \/ f.stage = "looking" /\ a = IF f.command = "fresh" THEN "missing" ELSE "not_found"
     \/ f.stage = "looking" /\ a = "lost" /\ f.command \in Scans
     \/ f.stage = "working" /\ a = "missing" /\ ~Recovering(f) /\ f.evidence # "manifest"
     \/ f.stage = "working" /\ a = "lost_path" /\ (Recovering(f) \/ f.evidence = "manifest")
     \/ f.stage = "withdrawing" /\ a = "lost_path"
     \/ f.stage = "acknowledged" /\ a = "kept_path"
  /\ Become(i, Answer(f, a))

-----------------------------------------------------------------------------
(* What the helper does of itself, unhindered, and what goes wrong. *)

HelperStep(i) ==
  \/ FindNothing(i) \/ FindHusk(i) \/ FindManifest(i) \/ FindControlTaken(i)
  \/ MakeControl(i) \/ WriteManifest(i) \/ Deliver(i)
  \/ Report(i) \/ ReportDiscard(i) \/ Retire(i) \/ FinishRetirement(i)
  \/ FinishWithdrawal(i) \/ CleanHusk(i, "none") \/ FindDestinationTaken(i)

HelperFails(i) ==
  \/ CleanHusk(i, "husk")
  \/ \E left \in {"none", "husk"}, a \in Answers : AbandonHusk(i, left, a)
  \/ \E a \in Answers : Refuse(i, a)
  \/ \E left \in {"none", "husk", "manifest"} : ConfirmCopy(i, left)
  \/ Reject(i) \/ GiveUp(i) \/ Withdraw(i) \/ FailWithdrawal(i) \/ FailRetirement(i)

FolderNext ==
  \E i \in Folders :
    \/ \E c \in Commands : Begin(i, c)
    \/ Acknowledge(i)
    \/ \E a \in {"none", "kept"} : Lose(i, a)
    \/ \E a \in Answers : OutOfReach(i, a)
    \/ HelperStep(i) \/ HelperFails(i)

FolderSpec == FolderInit /\ [][FolderNext]_folder
==============================================================================
