--------------------------- MODULE DirectoryTransfer ---------------------------
(***************************************************************************)
(* The transfer of one folder (src/fileops/basic_directory_transfer.cpp),  *)
(* as the helper process performs it: a copy, or a move, which is one      *)
(* rename if the file system allows it and otherwise a copy followed by    *)
(* the removal of the source.  What is under way is recorded next to the   *)
(* destination, in a control directory with the manifest and two proofs,   *)
(* and by a marker inside the source; a recovery decides from them, and    *)
(* from the names that exist, whether to go forward, to start over or to   *)
(* leave everything to the user.                                           *)
(*                                                                         *)
(* The helper may be killed or fail between any two steps, a small file    *)
(* may be left half written, the power may fail, and other programs edit   *)
(* the files of the source or take the names.                              *)
(***************************************************************************)
EXTENDS FiniteSets, Naturals

CONSTANTS
  Entries,        \* the files of the folder
  MaxFaults,      \* bound: kills, power failures, failed system calls
  MaxMeddling     \* bound: edits by other programs and names they take

ASSUME DirectoryAssumption ==
  IsFiniteSet(Entries) /\ MaxFaults \in Nat /\ MaxMeddling \in Nat

VARIABLES
  kind,         \* copy or move
  source,       \* the root the user chose, wherever it is now
  copy,         \* the tree the helper makes
  disk,         \* what of the two is sure to survive a power failure
  control,      \* the control directory and its manifest
  proof,        \* publication-proof in it
  committed,    \* atomic-move-proof in it
  occupied,     \* names that other programs took
  pc,           \* the helper's next step
  command,
  atomic,       \* the root may be renamed (allow_atomic_root_move)
  withdrawal,   \* what follows when the manifest has been withdrawn
  answer,
  faults, meddling

tree == <<source, copy, disk>>
records == <<control, proof, committed>>
run == <<pc, command, atomic, withdrawal, answer>>
vars == <<kind, tree, records, occupied, run, faults, meddling>>

(* A small file: absent, half written or whole. *)
File == {"none", "torn", "whole"}

Steps ==
  {"idle", "load", "examine", "plan", "control", "manifest", "choose", "mark", "move", "moved",
   "commit", "unmark", "stage", "copying", "verify", "sync", "prove", "resync", "retire_source",
   "confirm_retired", "own", "validate", "delete", "disown", "confirm_removed", "final",
   "publish", "publish_sync", "hide_staging", "quarantine", "remove_staging", "clear_proof",
   "recheck", "withdraw", "withdraw_control", "withdrawn",
   "done", "report", "retire", "retire_control"}

SourceType ==
  [at : {"source", "retirement", "destination", "gone"},
   leaf : [Entries -> {"here", "tomb", "gone"}], edited : SUBSET Entries,
   marked : File, owned : File]

CopyType ==
  [at : {"none", "staging", "retiring", "deleting", "destination"}, has : SUBSET Entries]

DiskType ==
  [source : {"source", "retirement", "destination", "gone"},
   copy : {"none", "staging", "retiring", "deleting", "destination"}, has : SUBSET Entries]

Commands == {"fresh", "discover", "resume", "discard", "discover_discard"}
Scanning == command \in {"discover", "discover_discard"}
Discarding == command \in {"discard", "discover_discard"}

TypeOK ==
  /\ kind \in {"copy", "move"} /\ source \in SourceType /\ copy \in CopyType /\ disk \in DiskType
  /\ control \in {"none", "husk", "torn", "manifest"} /\ {proof, committed} \subseteq File
  /\ occupied \subseteq {"source", "destination"}
  /\ pc \in Steps /\ command \in Commands \union {"none"}
  /\ pc = "idle" <=> command = "none"
  /\ atomic \in BOOLEAN /\ withdrawal \in {"answer", "replan", "fallback"}
  /\ answer \in {"none", "ok", "not_found", "clean", "other", "kept", "kept_path"}
  /\ faults \in 0..MaxFaults /\ meddling \in 0..MaxMeddling

Init ==
  /\ kind \in {"copy", "move"}
  /\ source = [at |-> "source", leaf |-> [e \in Entries |-> "here"], edited |-> {},
               marked |-> "none", owned |-> "none"]
  /\ copy = [at |-> "none", has |-> {}]
  /\ disk = [source |-> "source", copy |-> "none", has |-> {}]
  /\ control = "none" /\ proof = "none" /\ committed = "none" /\ occupied = {}
  /\ pc = "idle" /\ command = "none" /\ atomic = FALSE /\ withdrawal = "answer"
  /\ answer = "none" /\ faults = 0 /\ meddling = 0

-----------------------------------------------------------------------------
(* How a step goes on.                                                     *)

Goto(next) == pc' = next /\ UNCHANGED <<command, atomic, withdrawal, answer>>

(* One unhindered step of the helper. *)
Step(at, next) == pc = at /\ Goto(next) /\ UNCHANGED <<kind, occupied, faults, meddling>>

Stop(a) ==
  /\ pc' = "idle" /\ command' = "none" /\ answer' = a
  /\ UNCHANGED <<kind, atomic, withdrawal, occupied, faults, meddling>>

(* What is returned as it was found, with the manifest to resume from.     *)
Keep == Stop("kept_path") /\ UNCHANGED <<tree, records>>

Withdraw(then) ==
  /\ pc' = "withdraw" /\ withdrawal' = then
  /\ UNCHANGED <<kind, occupied, command, atomic, answer, faults, meddling>>

Fault == faults < MaxFaults /\ faults' = faults + 1

(* After a failed recovery the manifest is named even if it is gone. *)
Failure == IF command = "fresh" THEN "clean" ELSE "kept_path"

Present == {e \in Entries : source.leaf[e] # "gone"}
Unedited == source.edited = {}
DestinationPresent ==
  source.at = "destination" \/ copy.at = "destination" \/ "destination" \in occupied
SourcePresent == source.at = "source" \/ "source" \in occupied

MoveSource(to) == [source EXCEPT !.at = to]
MoveCopy(to) == [copy EXCEPT !.at = to]
SourceOnDisk == [disk EXCEPT !.source = source.at]
CopyOnDisk == [disk EXCEPT !.copy = copy.at, !.has = copy.has]

-----------------------------------------------------------------------------
(* The plan, the control directory and its manifest.                       *)

(* A new plan reads the source as it is. *)
Plan ==
  /\ Step("plan", "control") /\ ~DestinationPresent
  /\ source' = [source EXCEPT !.edited = {}]
  /\ UNCHANGED <<copy, disk, records>>

Refuse ==
  /\ pc \in {"plan", "control"} /\ (DestinationPresent \/ pc = "plan")
  /\ Stop(Failure) /\ UNCHANGED <<tree, records>>

(* The fallback of an atomic move copies what the first plan described. *)
MakeControl ==
  /\ Step("control", "manifest") /\ ~DestinationPresent
  /\ control' = "husk" /\ UNCHANGED <<tree, proof, committed>>

WriteManifest ==
  /\ Step("manifest", "choose")
  /\ control' = "manifest" /\ UNCHANGED <<tree, proof, committed>>

(* The lease or the manifest cannot be written, and all of it goes again,  *)
(* or not all of it.                                                       *)
AbandonControl ==
  /\ pc = "manifest" /\ Fault
  /\ \E left \in {"none", "husk"} : control' = left
  /\ pc' = "idle" /\ command' = "none" /\ answer' = Failure
  /\ UNCHANGED <<kind, tree, proof, committed, occupied, atomic, withdrawal, meddling>>

(* The same volume is reported, or another. *)
Choose ==
  /\ \/ kind = "move" /\ atomic /\ Step("choose", "mark")
     \/ Step("choose", "stage")
  /\ UNCHANGED <<tree, records>>

-----------------------------------------------------------------------------
(* The move as one rename.                                                 *)

Mark ==
  /\ Unedited /\ Step("mark", "move")
  /\ source' = [source EXCEPT !.marked = "whole"]
  /\ UNCHANGED <<copy, disk, records>>

(* The source changed, or has no identity that could be proved later. *)
MarkNothing ==
  /\ \/ ~Unedited /\ pc = "mark" /\ Withdraw("answer")
     \/ Unedited /\ Step("mark", "stage")
  /\ UNCHANGED <<tree, records>>

Move ==
  /\ ~DestinationPresent /\ Step("move", "moved")
  /\ source' = MoveSource("destination")
  /\ UNCHANGED <<copy, disk, records>>

(* MUTANT of MoveRefused: the marker stays in the source.                  *)
MoveRefusedStillMarked ==
  /\ pc = "move" /\ DestinationPresent /\ Withdraw("answer")
  /\ UNCHANGED <<tree, records>>

(* The name is taken, or it is another volume after all. *)
MoveRefused ==
  /\ pc = "move"
  /\ \/ DestinationPresent /\ Withdraw("answer")
     \/ ~DestinationPresent /\ Withdraw("fallback")
  /\ source' = [source EXCEPT !.marked = "none"]
  /\ UNCHANGED <<copy, disk, records>>

(* The marker, the shape and the identity of what came to the destination  *)
(* are checked; then its name is made durable.                             *)
ConfirmMoved ==
  /\ Unedited /\ Step("moved", IF committed = "whole" THEN "unmark" ELSE "commit")
  /\ disk' = SourceOnDisk /\ UNCHANGED <<source, copy, records>>

MovedChanged == pc = "moved" /\ ~Unedited /\ Keep

CommitMove ==
  /\ Step("commit", "unmark")
  /\ committed' = "whole" /\ UNCHANGED <<tree, control, proof>>

UnmarkMoved ==
  /\ Step("unmark", "done")
  /\ source' = [source EXCEPT !.marked = "none"]
  /\ UNCHANGED <<copy, disk, records>>

-----------------------------------------------------------------------------
(* The copy, in a hidden staging directory beside the destination.         *)

MakeStaging ==
  /\ Step("stage", "copying")
  /\ copy' = [at |-> "staging", has |-> {}]
  /\ disk' = [disk EXCEPT !.copy = "none", !.has = {}] /\ UNCHANGED <<source, records>>

StagingDenied ==
  /\ pc = "stage" /\ Fault
  /\ pc' = "withdraw" /\ withdrawal' = "answer"
  /\ UNCHANGED <<kind, tree, records, occupied, command, atomic, answer, meddling>>

CopyEntry ==
  /\ \E e \in Entries \ (copy.has \union source.edited) :
       copy' = [copy EXCEPT !.has = @ \union {e}]
  /\ Step("copying", "copying") /\ UNCHANGED <<source, disk, records>>

CopiedAll ==
  /\ copy.has = Entries /\ Step("copying", "verify")
  /\ UNCHANGED <<tree, records>>

(* A file is no longer what the plan says, or the source is not.           *)
SourceChanged ==
  /\ ~Unedited
  /\ \/ pc = "copying" /\ ~(Entries \subseteq copy.has)
     \/ pc = "verify" /\ kind = "copy"
  /\ Keep

Verify ==
  /\ \/ kind = "copy" /\ Unedited /\ Step("verify", "publish")
     \/ kind = "move" /\ Step("verify", "sync")
  /\ UNCHANGED <<tree, records>>

(* MUTANT of SyncStaging: the copy is not synchronised before the proof.   *)
SyncNothing == Step("sync", "prove") /\ UNCHANGED <<tree, records>>

SyncStaging ==
  /\ Step("sync", "prove")
  /\ disk' = CopyOnDisk /\ UNCHANGED <<source, copy, records>>

WriteProof ==
  /\ Step("prove", "retire_source")
  /\ proof' = "whole" /\ UNCHANGED <<tree, control, committed>>

-----------------------------------------------------------------------------
(* continue_move_source_cleanup: the source is hidden, marked as owned by  *)
(* the transfer and removed file by file, each under a tombstone name.     *)

(* A recovery does not know whether the copy was synchronised.             *)
Resync ==
  /\ copy.has = Entries /\ Step("resync", "retire_source")
  /\ disk' = CopyOnDisk /\ UNCHANGED <<source, copy, records>>

RetireSource ==
  /\ source.at = "source" /\ Unedited /\ Step("retire_source", "confirm_retired")
  /\ source' = MoveSource("retirement") /\ UNCHANGED <<copy, disk, records>>

(* It was retired, or removed, in an earlier run. *)
FindRetired ==
  /\ ~SourcePresent
  /\ \/ source.at = "retirement" /\ Step("retire_source", "confirm_retired") /\ UNCHANGED disk
     \/ source.at = "gone" /\ Step("retire_source", "final") /\ disk' = SourceOnDisk
  /\ UNCHANGED <<source, copy, records>>

(* Two roots, a foreign one, or an edited one. *)
RetireNothing ==
  /\ pc = "retire_source"
  /\ IF source.at = "source" THEN ~Unedited ELSE SourcePresent
  /\ Keep

ConfirmRetired ==
  /\ Step("confirm_retired", "own")
  /\ disk' = SourceOnDisk /\ UNCHANGED <<source, copy, records>>

(* An empty directory without the marker is the last step of a removal. *)
RemoveEmpty ==
  /\ source.owned = "none" /\ Present = {} /\ Step("own", "confirm_removed")
  /\ source' = MoveSource("gone") /\ UNCHANGED <<copy, disk, records>>

(* validate_retired_source_subset: what is left is what the plan says. *)
Untouched == source.edited \intersect Present = {}

Own ==
  /\ source.owned # "whole" => Untouched
  /\ ~(source.owned = "none" /\ Present = {})
  /\ Step("own", IF source.owned = "none" THEN "delete" ELSE "validate")
  /\ source' = [source EXCEPT !.owned = "whole"] /\ UNCHANGED <<copy, disk, records>>

Validate == Untouched /\ Step("validate", "delete") /\ UNCHANGED <<tree, records>>

OwnNothing ==
  /\ ~Untouched
  /\ pc = "validate" \/ (pc = "own" /\ source.owned # "whole")
  /\ Keep

BuryEntry ==
  /\ \E e \in Entries :
       source.leaf[e] = "here" /\ source' = [source EXCEPT !.leaf[e] = "tomb"]
  /\ \A e \in Entries : source.leaf[e] # "tomb"
  /\ Step("delete", "delete") /\ UNCHANGED <<copy, disk, records>>

(* It is looked at once more, under its tombstone and a lock. *)
DeleteEntry ==
  /\ \E e \in Entries \ source.edited :
       source.leaf[e] = "tomb" /\ source' = [source EXCEPT !.leaf[e] = "gone"]
  /\ Step("delete", "delete") /\ UNCHANGED <<copy, disk, records>>

DeleteRefused ==
  /\ pc = "delete" /\ \E e \in source.edited : source.leaf[e] = "tomb"
  /\ Keep

DeletedAll ==
  /\ Present = {} /\ Step("delete", "disown")
  /\ source' = [source EXCEPT !.owned = "none"] /\ UNCHANGED <<copy, disk, records>>

RemoveRoot ==
  /\ Step("disown", "confirm_removed")
  /\ source' = MoveSource("gone") /\ UNCHANGED <<copy, disk, records>>

ConfirmRemoved ==
  /\ Step("confirm_removed", "final")
  /\ disk' = SourceOnDisk /\ UNCHANGED <<source, copy, records>>

-----------------------------------------------------------------------------
(* Publication, completion and its acknowledgement.                        *)

FinalAudit ==
  /\ copy.has = Entries /\ Step("final", "publish") /\ UNCHANGED <<tree, records>>

Publish ==
  /\ ~DestinationPresent /\ Step("publish", "publish_sync")
  /\ copy' = MoveCopy("destination") /\ UNCHANGED <<source, disk, records>>

PublishRefused == pc = "publish" /\ DestinationPresent /\ Keep

SyncPublication ==
  /\ Step("publish_sync", "done")
  /\ disk' = CopyOnDisk /\ UNCHANGED <<source, copy, records>>

(* MUTANT of Report: the evidence is removed without waiting for the       *)
(* client's acknowledgement.                                               *)
ReportUnheard == Step("done", "retire") /\ UNCHANGED <<tree, records>>

(* The phase "completed" goes to the client, which must answer before      *)
(* anything else happens.                                                  *)
Report == Step("done", "report") /\ UNCHANGED <<tree, records>>

(* The client has saved the completion: acknowledged. *)
Acknowledge ==
  /\ Step("report", "retire") /\ UNCHANGED <<tree, records>>

Retire ==
  /\ Step("retire", "retire_control")
  /\ control' = (IF control = "none" THEN "none" ELSE "husk")
  /\ UNCHANGED <<tree, proof, committed>>

ForgetControl == control' = "none" /\ proof' = "none" /\ committed' = "none"

FinishRetirement ==
  /\ pc = "retire_control" /\ Stop("ok") /\ ForgetControl /\ UNCHANGED tree

(* A failure that changed nothing: the manifest goes before the answer. *)
WithdrawManifest ==
  /\ Step("withdraw", "withdraw_control")
  /\ control' = "husk" /\ UNCHANGED <<tree, proof, committed>>

WithdrawControl ==
  /\ Step("withdraw_control", "withdrawn")
  /\ ForgetControl /\ UNCHANGED tree

(* The answer; or a new plan and a new control directory, for the whole    *)
(* move or, if the source is what it was, for the copy in its place.       *)
Fallback == withdrawal = "fallback" /\ Unedited

AfterWithdrawal ==
  /\ pc = "withdrawn" /\ UNCHANGED <<tree, records>>
  /\ IF withdrawal = "replan" \/ Fallback
     THEN /\ pc' = (IF Fallback THEN "control" ELSE "plan") /\ atomic' = ~Fallback
          /\ UNCHANGED <<kind, occupied, command, withdrawal, answer, faults, meddling>>
     ELSE Stop(Failure)

-----------------------------------------------------------------------------
(* A command that recovers: the manifest, and what the names tell.         *)

FindNothing ==
  /\ pc = "load" /\ control = "none" /\ Stop("not_found") /\ UNCHANGED <<tree, records>>

(* A control directory without a manifest, or with a torn one, is damage   *)
(* to a scan; a resumption removes the former.                             *)
FindDamage ==
  /\ pc = "load" /\ control \in {"husk", "torn"}
  /\ \/ Scanning /\ Stop("kept") /\ UNCHANGED records
     \/ ~Scanning /\ control = "torn" /\ Stop("other") /\ UNCHANGED records
     \/ command = "resume" /\ control = "husk" /\ Stop("not_found") /\ ForgetControl
     \/ command = "discard" /\ control = "husk" /\ Stop("not_found") /\ UNCHANGED records
  /\ UNCHANGED tree

FindManifest ==
  /\ control = "manifest" /\ Step("load", "examine") /\ UNCHANGED <<tree, records>>

Examine(next) == Step("examine", next)
Resuming == command \in {"discover", "resume"}

(* The copy was published, and its source is still what it was: the        *)
(* evidence is removed, or not all of it, before the completion is told.   *)
ConfirmCopied ==
  /\ Resuming /\ kind = "copy" /\ copy.at = "destination" /\ Unedited
  /\ pc = "examine" /\ Goto("report")
  /\ \/ ForgetControl /\ UNCHANGED faults
     \/ Fault /\ control' \in {"husk", "manifest"} /\ UNCHANGED <<proof, committed>>
  /\ UNCHANGED <<kind, tree, occupied, meddling>>

(* Another folder has the name: the source was marked, but never renamed.  *)
MarkedInVain ==
  /\ kind = "move" /\ DestinationPresent /\ copy.at # "staging" /\ proof = "none"
  /\ source.at = "source" /\ source.marked # "none"

(* MUTANT of MovedRoot: a torn committed proof is not written again.       *)
MovedRootOfWholeProof ==
  /\ kind = "move" /\ source.at = "destination" /\ ~SourcePresent /\ proof = "none"
  /\ source.marked # "torn" /\ committed # "torn"

MovedRoot ==
  /\ kind = "move" /\ source.at = "destination" /\ ~SourcePresent /\ proof = "none"
  /\ source.marked # "torn" /\ (committed = "torn" => source.marked = "whole")

PublishedMove ==
  /\ kind = "move" /\ copy.at = "destination" /\ copy.has = Entries /\ proof = "whole"
  /\ source.at = "gone" /\ ~SourcePresent

ResumeMarkedInVain ==
  /\ Resuming /\ MarkedInVain /\ source.marked = "whole" /\ pc = "examine"
  /\ source' = [source EXCEPT !.marked = "none"]
  /\ Withdraw("answer") /\ UNCHANGED <<copy, disk, records>>

ResumeMovedRoot ==
  /\ Resuming /\ MovedRoot /\ Examine("moved")
  /\ committed' = (IF committed = "torn" THEN "none" ELSE committed)
  /\ UNCHANGED <<tree, control, proof>>

ResumePublishedMove ==
  /\ Resuming /\ PublishedMove /\ Examine("done")
  /\ disk' = CopyOnDisk /\ UNCHANGED <<source, copy, records>>

(* The staged copy is whole and proved: the source is removed, or was.     *)
Finishable == kind = "move" /\ copy.at = "staging" /\ proof = "whole"

ResumeFinishable ==
  /\ Resuming /\ ~DestinationPresent /\ Finishable
  /\ Examine(IF source.at = "gone" THEN "retire_source" ELSE "resync")
  /\ UNCHANGED <<tree, records>>

(* Neither the source nor a proved copy of it can be relied on.            *)
Unclear ==
  kind = "move" /\ (~SourcePresent \/ source.at = "retirement" \/ committed # "none")

ResumeMarked ==
  /\ Resuming /\ ~DestinationPresent /\ ~Finishable /\ ~Unclear
  /\ source.marked = "whole" /\ pc = "examine"
  /\ source' = [source EXCEPT !.marked = "none"]
  /\ Withdraw("replan") /\ UNCHANGED <<copy, disk, records>>

AfterStaging == IF Discarding THEN "done" ELSE "clear_proof"

RemoveStagingFirst ==
  IF copy.at = "staging" THEN "hide_staging"
  ELSE IF copy.at \in {"retiring", "deleting"} THEN "quarantine" ELSE AfterStaging

Restartable ==
  /\ ~DestinationPresent /\ ~Finishable /\ ~Unclear
  /\ source.marked = "none" /\ source.at = "source" /\ Unedited

Restart ==
  /\ Resuming /\ Restartable /\ Examine(RemoveStagingFirst) /\ UNCHANGED <<tree, records>>

ResumeNothing ==
  /\ Resuming /\ pc = "examine"
  /\ ~(kind = "copy" /\ copy.at = "destination" /\ Unedited)
  /\ ~(MarkedInVain /\ source.marked = "whole") /\ ~MovedRoot /\ ~PublishedMove
  /\ DestinationPresent
     \/ ~(Finishable \/ Restartable \/ (~Unclear /\ source.marked = "whole"))
  /\ Keep

(* What is unfinished is discarded only while the source is at its place.  *)
Discard ==
  /\ Discarding /\ source.at = "source" /\ source.marked # "torn" /\ Unedited
  /\ Examine(RemoveStagingFirst)
  /\ source' = [source EXCEPT !.marked = "none"] /\ UNCHANGED <<copy, disk, records>>

DiscardNothing ==
  /\ pc = "examine" /\ Discarding /\ Stop("kept_path")
  /\ source.at # "source" \/ source.marked = "torn" \/ ~Unedited
  /\ source' = (IF source.at = "source" /\ source.marked = "whole"
                THEN [source EXCEPT !.marked = "none"] ELSE source)
  /\ UNCHANGED <<copy, disk, records>>

(* The unfinished copy is hidden, hidden again and removed; the source is  *)
(* looked at before each of these.                                         *)
HideStaging ==
  /\ Step("hide_staging", "quarantine")
  /\ copy' = MoveCopy("retiring") /\ UNCHANGED <<source, disk, records>>

Quarantine ==
  /\ Unedited /\ Step("quarantine", "recheck")
  /\ copy' = MoveCopy("deleting") /\ UNCHANGED <<source, disk, records>>

Recheck == Unedited /\ Step("recheck", "remove_staging") /\ UNCHANGED <<tree, records>>

RemoveNothing == pc \in {"quarantine", "recheck"} /\ ~Unedited /\ Keep

RemoveStaging ==
  /\ \/ /\ \E e \in copy.has : copy' = [copy EXCEPT !.has = @ \ {e}]
        /\ Step("remove_staging", "remove_staging")
     \/ /\ copy.has = {} /\ copy' = MoveCopy("none")
        /\ Step("remove_staging", AfterStaging)
  /\ UNCHANGED <<source, disk, records>>

(* The transfer is performed again, under the same manifest. *)
ClearProof ==
  /\ ~DestinationPresent /\ pc = "clear_proof" /\ pc' = "choose"
  /\ proof' = "none" /\ atomic' = (kind = "move")
  /\ UNCHANGED <<kind, tree, control, committed, occupied, command, withdrawal, answer,
                 faults, meddling>>

ClearProofOnly ==
  /\ pc = "clear_proof" /\ DestinationPresent /\ Stop("kept_path")
  /\ proof' = "none" /\ UNCHANGED <<tree, control, committed>>

-----------------------------------------------------------------------------
(* What goes wrong. *)

(* A call fails while the manifest is there: all is left to a recovery.    *)
GiveUp ==
  /\ pc \in Steps \ {"idle", "load", "plan", "control", "manifest", "withdraw_control",
                     "withdrawn", "done", "report"}
  /\ ~(pc \in {"retire", "retire_control"} /\ control = "none") /\ Fault
  /\ pc' = "idle" /\ command' = "none" /\ answer' = "kept_path"
  /\ UNCHANGED <<kind, tree, records, occupied, atomic, withdrawal, meddling>>

FailWithdrawal ==
  /\ pc = "withdraw_control" /\ Fault
  /\ pc' = "idle" /\ command' = "none" /\ answer' = "kept_path"
  /\ UNCHANGED <<kind, tree, records, occupied, atomic, withdrawal, meddling>>

(* The directory of a husk resists. *)
CleanNothing ==
  /\ pc = "load" /\ command = "resume" /\ control = "husk" /\ Fault
  /\ pc' = "idle" /\ command' = "none" /\ answer' = "not_found"
  /\ UNCHANGED <<kind, tree, records, occupied, atomic, withdrawal, meddling>>

(* The small file the helper was writing, in place, is left half written.  *)
Torn(at, file) == {file} \union (IF pc = at /\ file # "whole" THEN {"torn"} ELSE {})

Interrupted ==
  /\ Fault /\ pc' = "idle" /\ command' = "none"
  /\ answer' \in IF pc = "idle" THEN {answer} ELSE {"none", "kept"}
  /\ UNCHANGED <<kind, occupied, atomic, withdrawal, meddling>>

(* The helper dies, or is killed because its client fell silent.           *)
Interrupt ==
  /\ pc # "idle" /\ Interrupted
  /\ control' \in {control} \union (IF pc = "manifest" THEN {"torn"} ELSE {})
  /\ proof' \in Torn("prove", proof) /\ committed' \in Torn("commit", committed)
  /\ \E m \in Torn("mark", source.marked), o \in Torn("own", source.owned) :
       source' = [source EXCEPT !.marked = m, !.owned = o]
  /\ UNCHANGED <<copy, disk>>

UndoneCopy ==
  IF copy.at = "destination" /\ disk.copy # "destination" THEN {"staging"}
  ELSE IF copy.at = "staging" /\ disk.copy = "none" THEN {"none"} ELSE {}

(* The power fails: of a move, what was not synchronised may be undone.    *)
PowerLoss ==
  /\ kind = "move" /\ Interrupted
  /\ \E at \in {source.at, disk.source}, leaf \in [Entries -> {"here", "tomb", "gone"}] :
       /\ \A e \in Entries :
            \/ leaf[e] = source.leaf[e]
            \/ source.leaf[e] # "here" /\ disk.source # "gone" /\ leaf[e] # "gone"
       /\ at = "gone" => leaf = source.leaf
       /\ source' = [source EXCEPT !.at = at, !.leaf = leaf,
                                   !.owned = IF source.at = "gone" /\ at # "gone"
                                             THEN "whole" ELSE @]
  /\ \E at \in {copy.at} \union UndoneCopy, has \in SUBSET copy.has :
       /\ disk.has \intersect copy.has \subseteq has /\ (at = "none" => has = {})
       /\ copy' = [at |-> at, has |-> has]
  /\ UNCHANGED <<disk, records>>

(* Another program saves a file of the source, or takes or frees a name.   *)
Meddle ==
  /\ meddling < MaxMeddling /\ meddling' = meddling + 1
  /\ \/ /\ source.at \in {"source", "retirement"}
        /\ \E e \in Present : source' = [source EXCEPT !.edited = @ \union {e}]
        /\ UNCHANGED occupied
     \/ /\ \/ ~DestinationPresent /\ occupied' = occupied \union {"destination"}
           \/ ~SourcePresent /\ occupied' = occupied \union {"source"}
           \/ \E name \in occupied : occupied' = occupied \ {name}
        /\ UNCHANGED source
  /\ UNCHANGED <<kind, copy, disk, records, run, faults>>

(* The client: a new transfer of a folder that is there, or a recovery.    *)
Begin(c) ==
  /\ pc = "idle" /\ command' = c /\ answer' = "none"
  /\ \/ c = "fresh" /\ control = "none" /\ source.at = "source"
        /\ pc' = "plan" /\ atomic' = (kind = "move")
     \/ c # "fresh" /\ pc' = "load" /\ UNCHANGED atomic
  /\ UNCHANGED <<kind, tree, records, occupied, withdrawal, faults, meddling>>

-----------------------------------------------------------------------------

Planning == Plan \/ Refuse \/ MakeControl \/ WriteManifest \/ AbandonControl \/ Choose

Moving ==
  Mark \/ MarkNothing \/ Move \/ MoveRefused \/ ConfirmMoved \/ MovedChanged
    \/ CommitMove \/ UnmarkMoved

Copying ==
  MakeStaging \/ StagingDenied \/ CopyEntry \/ CopiedAll \/ SourceChanged \/ Verify
    \/ SyncStaging \/ WriteProof

RemovingSource ==
  Resync \/ RetireSource \/ FindRetired \/ RetireNothing \/ ConfirmRetired \/ RemoveEmpty
    \/ Own \/ Validate \/ OwnNothing \/ BuryEntry \/ DeleteEntry \/ DeleteRefused
    \/ DeletedAll \/ RemoveRoot \/ ConfirmRemoved

Publishing ==
  FinalAudit \/ Publish \/ PublishRefused \/ SyncPublication \/ Report \/ Acknowledge
    \/ Retire \/ FinishRetirement

Withdrawing == WithdrawManifest \/ WithdrawControl \/ AfterWithdrawal

Deciding ==
  FindNothing \/ FindDamage \/ FindManifest \/ ConfirmCopied \/ ResumeMarkedInVain
    \/ ResumeMovedRoot \/ ResumePublishedMove \/ ResumeFinishable \/ ResumeMarked
    \/ Restart \/ ResumeNothing \/ Discard \/ DiscardNothing

RemovingCopy ==
  HideStaging \/ Quarantine \/ Recheck \/ RemoveNothing \/ RemoveStaging \/ ClearProof
    \/ ClearProofOnly

Work ==
  Planning \/ Moving \/ Copying \/ RemovingSource \/ Publishing \/ Withdrawing \/ Deciding
    \/ RemovingCopy

Fail == GiveUp \/ FailWithdrawal \/ CleanNothing \/ Interrupt \/ PowerLoss

Next == Work \/ Fail \/ Meddle \/ \E c \in Commands : Begin(c)

(* A client that is offered a recovery resumes, sooner or later.           *)
Resume == control = "manifest" /\ Begin("resume")

Spec == Init /\ [][Next]_vars /\ WF_vars(Work) /\ SF_vars(Resume)

-----------------------------------------------------------------------------
(* Properties.                                                             *)

(* A file is removed from the source only as it was planned, and when a    *)
(* synchronised copy of it exists: no kill, power failure, edit or retry   *)
(* of the seven-step removal loses one.                                    *)
NothingIsLost ==
  /\ TypeOK
  /\ \A e \in Entries :
       source.leaf[e] = "gone" =>
         /\ e \notin source.edited
         /\ e \in copy.has \intersect disk.has /\ copy.at \in {"staging", "destination"}

(* Without a manifest nothing is left that only a manifest could explain:  *)
(* the folder is untouched, copied, or moved, without hidden remains.      *)
AllOrNothing ==
  control # "manifest" =>
    \/ /\ source.at = "source" /\ Present = Entries /\ source.owned = "none"
       /\ source.marked = "none" /\ copy.at \in {"none", "destination"}
    \/ source.at = "destination" /\ source.marked = "none" /\ copy.at = "none"
    \/ source.at = "gone" /\ copy.at = "destination" /\ copy.has = Entries

(* The helper keeps what FolderTransfer promises its clients: evidence is  *)
(* removed only after a delivery was acknowledged, a copy was confirmed or *)
(* a failure undone, and the answers tell them apart.                      *)
Stage ==
  CASE pc = "idle" -> "off"
    [] pc = "load" -> "looking"
    [] pc = "withdraw_control" -> "withdrawing"
    [] pc = "report" -> "reporting"
    [] pc \in {"retire", "retire_control"} -> "acknowledged"
    [] OTHER -> "working"

Evidence == IF control = "torn" THEN "husk" ELSE control

Delivered ==
  IF kind = "copy" THEN copy.at = "destination"
  ELSE disk.source = "destination" \/ disk.copy = "destination"

TheFolder ==
  [stage |-> Stage, command |-> command, evidence |-> Evidence, delivered |-> Delivered,
   answer |-> answer]

Promise == INSTANCE FolderTransfer WITH Folders <- {1}, folder <- [i \in {1} |-> TheFolder]
FolderPromise == Promise!FolderSpec

(* A transfer that was begun comes to its end, or can be resumed and comes *)
(* to its end then, unless other programs interfered, or a marker or a     *)
(* manifest was left half written, which no later run repairs.             *)
Damaged == source.marked = "torn" \/ control \in {"torn", "husk"}

RecoversUnlessDamaged ==
  []<>(pc = "idle" /\ control = "none") \/ <>[]Damaged \/ <>(meddling > 0)
==============================================================================
