----------------------- MODULE DirectoryTransferProofs -----------------------
(***************************************************************************)
(* Proofs about DirectoryTransfer for every folder and every number of     *)
(* kills, power failures and edits: no file of a folder is lost, and       *)
(* without a manifest nothing hidden is left.                              *)
(*                                                                         *)
(* A recovery decides from what it finds.  The inductive invariant says    *)
(* what each finding means (MarkerMeans ... DiskIsBehind) and what each    *)
(* step of the helper may rely on (Moves ... Settles).                     *)
(***************************************************************************)
EXTENDS DirectoryTransfer, TLAPS

Intact == \A e \in Entries : source.leaf[e] = "here"
Copied == copy.has = Entries
CopySafe == Copied /\ disk.has = Entries /\ disk.copy # "none"
Removing == {"retirement", "gone"}

(* The root is at its place and nothing of the transfer is in it. *)
AtRest ==
  /\ source.at = "source" /\ Intact /\ source.owned = "none" /\ source.marked = "none"

Undone ==
  AtRest /\ copy.at \in (IF kind = "move" THEN {"none"} ELSE {"none", "destination"})

MovedDurably ==
  /\ kind = "move" /\ source.at = "destination" /\ disk.source = "destination"
  /\ source.marked = "none" /\ copy.at = "none"

DeliveredDurably ==
  /\ kind = "move" /\ source.at = "gone" /\ disk.source = "gone"
  /\ copy.at = "destination" /\ disk.copy = "destination" /\ CopySafe

Settled == Undone \/ MovedDurably \/ DeliveredDurably

(* What is found on disk. *)

(* The source is taken apart only when its hidden name is durable. *)
RemovalIsDurable ==
  (~Intact \/ source.owned # "none") =>
    kind = "move" /\ source.at \in Removing /\ disk.source \in Removing

(* A removed root was empty, and a whole copy took its place. *)
GoneMeans ==
  source.at = "gone" => Present = {} /\ copy.at \in {"staging", "destination"} /\ CopySafe

(* A marked root has no copy, and has not been hidden. *)
MarkerMeans ==
  source.marked # "none" =>
    kind = "move" /\ copy.at = "none" /\ source.at \in {"source", "destination"}

RenameMeans == source.at = "destination" => kind = "move" /\ copy.at = "none"

RetirementMeans == source.at = "retirement" => kind = "move" /\ copy.at = "staging" /\ CopySafe

PublicationMeans ==
  copy.at = "destination" /\ kind = "move" =>
    source.at = "gone" /\ disk.source = "gone" /\ CopySafe

(* The disk shows the root where it is, or where it was before. *)
DiskIsBehind ==
  /\ disk.copy = "destination" => copy.at = "destination"
  /\ kind = "copy" => source.at = "source"
  /\ source.at = "source" => disk.source = "source"
  /\ source.at = "destination" => disk.source \in {"source", "destination"}
  /\ source.at = "retirement" => disk.source \in {"source", "retirement"}
  /\ source.at = "gone" => disk.source \in {"retirement", "gone"}

Findings ==
  /\ RemovalIsDurable /\ GoneMeans /\ MarkerMeans /\ RenameMeans /\ RetirementMeans
  /\ PublicationMeans /\ DiskIsBehind

(* What the steps of the helper rely on. *)

(* The manifest is there while the trees are worked on, and from the       *)
(* manifest to the report only a transfer that is done gets.               *)
Recorded ==
  /\ pc \in Steps \ {"idle", "load", "plan", "control", "manifest", "withdraw_control",
                     "withdrawn", "report", "retire", "retire_control"} => control = "manifest"
  /\ pc \in {"plan", "control", "withdrawn"} => control = "none"
  /\ pc \in {"manifest", "withdraw_control"} => control = "husk"
  /\ pc = "retire_control" => control # "manifest"
  /\ pc \in {"load", "examine"} => command # "fresh"
  /\ pc = "done" => Delivered \/ Discarding

Plans ==
  /\ pc = "plan" => Undone
  /\ pc = "control" => Undone
  /\ pc \in {"manifest", "choose", "mark", "stage", "clear_proof"} => AtRest /\ copy.at = "none"

Moves ==
  /\ pc \in {"mark", "move", "moved", "commit", "unmark"} => kind = "move" /\ copy.at = "none"
  /\ pc = "move" => source.at = "source"
  /\ pc \in {"moved", "commit", "unmark"} => source.at = "destination"
  /\ pc \in {"commit", "unmark"} => disk.source = "destination"

Copies ==
  /\ pc \in {"copying", "verify", "sync", "prove"} => AtRest /\ copy.at = "staging"
  /\ pc \in {"verify", "sync", "prove"} => Copied
  /\ pc \in {"sync", "prove"} => kind = "move"
  /\ pc = "prove" => CopySafe

RemovesSource ==
  /\ pc \in {"resync", "retire_source", "confirm_retired", "own", "validate", "delete", "disown",
             "confirm_removed", "final"} => kind = "move" /\ copy.at = "staging"
  /\ pc = "retire_source" => source.at = "gone" \/ CopySafe
  /\ pc = "confirm_retired" => source.at = "retirement"
  /\ pc \in {"own", "validate", "delete", "disown"} =>
       source.at = "retirement" /\ disk.source = "retirement"
  /\ pc = "disown" => Present = {}
  /\ pc \in {"confirm_removed", "final"} => source.at = "gone"
  /\ pc = "final" => disk.source = "gone"

Publishes ==
  /\ pc = "publish" =>
       /\ copy.at = "staging" /\ Copied
       /\ IF kind = "move" THEN source.at = "gone" /\ disk.source = "gone" ELSE AtRest
  /\ pc = "publish_sync" => copy.at = "destination" /\ (kind = "copy" => AtRest)

Settles ==
  /\ pc \in {"withdraw", "withdraw_control", "withdrawn"} => AtRest /\ copy.at = "none"
  /\ pc \in {"done", "report", "retire", "retire_control"} => Settled
  /\ control # "manifest" => Settled

RemovesCopy ==
  /\ pc \in {"hide_staging", "quarantine", "recheck", "remove_staging"} => AtRest
  /\ pc = "hide_staging" => copy.at = "staging"
  /\ pc = "quarantine" => copy.at \in {"retiring", "deleting"}
  /\ pc \in {"recheck", "remove_staging"} => copy.at = "deleting"

Reliances ==
  Recorded /\ Plans /\ Moves /\ Copies /\ RemovesSource /\ Publishes /\ Settles /\ RemovesCopy

IInv == NothingIsLost /\ Findings /\ Reliances

-----------------------------------------------------------------------------
(* The parts of the invariant are expanded in every step below. *)
USE DEF IInv, NothingIsLost, TypeOK, SourceType, CopyType, DiskType, File, Steps,
  Commands, Scanning, Discarding,
  Findings, RemovalIsDurable, GoneMeans, MarkerMeans, RenameMeans, RetirementMeans,
  PublicationMeans, DiskIsBehind,
  Reliances, Recorded, Plans, Moves, Copies, RemovesSource, Publishes, Settles, RemovesCopy,
  Intact, Copied, CopySafe, Removing, AtRest, Undone, MovedDurably, DeliveredDurably, Settled,
  Delivered, Present, Unedited

(* So are the ways in which a step goes on. *)
USE DEF Step, Goto, Stop, Keep, Withdraw, Failure, tree, records, run

LEMMA FaultIsCounted ==
  ASSUME IInv, Fault PROVE faults' \in 0..MaxFaults
BY DirectoryAssumption DEF Fault

LEMMA MeddlingIsCounted ==
  ASSUME IInv, meddling < MaxMeddling, meddling' = meddling + 1
  PROVE  meddling' \in 0..MaxMeddling
BY DirectoryAssumption

(* A synchronisation of the copy and of its name. *)
LEMMA DiskOfCopy ==
  ASSUME IInv, disk' = CopyOnDisk
  PROVE  disk' \in DiskType /\ disk'.source = disk.source /\ disk'.copy = copy.at
         /\ disk'.has = copy.has
<1>1. disk' = [source |-> disk.source, copy |-> copy.at, has |-> copy.has]
  BY DEF CopyOnDisk
<1> QED
  BY <1>1

LEMMA InitHolds == Init => IInv
<1> SUFFICES ASSUME Init PROVE IInv
  OBVIOUS
<1>1. TypeOK
  <2>1. source \in SourceType
    BY DEF Init
  <2>2. copy \in CopyType /\ disk \in DiskType
    BY DEF Init
  <2>3. faults \in 0..MaxFaults /\ meddling \in 0..MaxMeddling
    BY DirectoryAssumption DEF Init
  <2> HIDE DEF SourceType, CopyType, DiskType
  <2> QED
    BY <2>1, <2>2, <2>3 DEF Init
<1>2. NothingIsLost /\ Findings
  BY <1>1 DEF Init
<1> QED
  BY <1>2 DEF Init

-----------------------------------------------------------------------------
(* Each step keeps the invariant. *)

LEMMA ChooseKeeps ==
  ASSUME IInv, Choose PROVE IInv'
<1>1. CASE kind = "move" /\ Step("choose", "mark")
  BY <1>1 DEF Choose
<1>2. CASE Step("choose", "stage")
  BY <1>2 DEF Choose
<1> QED
  BY <1>1, <1>2 DEF Choose

(* The plan, the control directory and the manifest. *)
LEMMA PlanningKeeps ==
  ASSUME IInv, Planning PROVE IInv'
<1> USE DEF DestinationPresent
<1>1. CASE Plan
  BY <1>1 DEF Plan
<1>2. CASE Refuse
  BY <1>2 DEF Refuse
<1>3. CASE MakeControl
  BY <1>3 DEF MakeControl
<1>4. CASE WriteManifest
  BY <1>4 DEF WriteManifest
<1>5. CASE AbandonControl
  BY <1>5, FaultIsCounted DEF AbandonControl
<1> QED
  BY <1>1, <1>2, <1>3, <1>4, <1>5, ChooseKeeps DEF Planning

LEMMA MarkNothingKeeps ==
  ASSUME IInv, MarkNothing PROVE IInv'
<1>1. CASE pc = "mark" /\ Withdraw("answer")
  BY <1>1 DEF MarkNothing
<1>2. CASE Step("mark", "stage")
  BY <1>2 DEF MarkNothing
<1> QED
  BY <1>1, <1>2 DEF MarkNothing

(* The move as one rename. *)
LEMMA MovingKeeps ==
  ASSUME IInv, Moving PROVE IInv'
<1> USE DEF DestinationPresent, MoveSource, SourceOnDisk
<1>1. CASE Mark
  BY <1>1 DEF Mark
<1>2. CASE Move
  BY <1>2 DEF Move
<1>3. CASE MoveRefused
  BY <1>3 DEF MoveRefused
<1>4. CASE ConfirmMoved
  BY <1>4 DEF ConfirmMoved
<1>5. CASE MovedChanged
  BY <1>5 DEF MovedChanged
<1>6. CASE CommitMove
  BY <1>6 DEF CommitMove
<1>7. CASE UnmarkMoved
  BY <1>7 DEF UnmarkMoved
<1> QED
  BY <1>1, <1>2, <1>3, <1>4, <1>5, <1>6, <1>7, MarkNothingKeeps DEF Moving

LEMMA MakeStagingKeeps ==
  ASSUME IInv, MakeStaging PROVE IInv'
<1>1. disk' = [source |-> disk.source, copy |-> "none", has |-> {}]
  BY DEF MakeStaging
<1>2. TypeOK'
  BY <1>1 DEF MakeStaging
<1>3. NothingIsLost'
  BY <1>1, <1>2 DEF MakeStaging
<1>4. Findings'
  BY <1>1 DEF MakeStaging
<1> QED
  BY <1>1, <1>3, <1>4 DEF MakeStaging

LEMMA VerifyKeeps ==
  ASSUME IInv, Verify PROVE IInv'
<1>1. CASE kind = "copy" /\ Step("verify", "publish")
  BY <1>1 DEF Verify
<1>2. CASE kind = "move" /\ Step("verify", "sync")
  BY <1>2 DEF Verify
<1> QED
  BY <1>1, <1>2 DEF Verify

(* The copy in the staging directory. *)
LEMMA CopyingKeeps ==
  ASSUME IInv, Copying PROVE IInv'
<1>1. CASE StagingDenied
  BY <1>1, FaultIsCounted DEF StagingDenied
<1>2. CASE CopyEntry
  BY <1>2 DEF CopyEntry
<1>3. CASE CopiedAll
  BY <1>3 DEF CopiedAll
<1>4. CASE SourceChanged
  BY <1>4 DEF SourceChanged
<1>5. CASE SyncStaging
  BY <1>5, DiskOfCopy DEF SyncStaging
<1>6. CASE WriteProof
  BY <1>6 DEF WriteProof
<1> QED
  BY <1>1, <1>2, <1>3, <1>4, <1>5, <1>6, MakeStagingKeeps, VerifyKeeps DEF Copying

(* The removal of the source, after its copy is safe. *)
LEMMA RemovingSourceKeeps ==
  ASSUME IInv, RemovingSource PROVE IInv'
<1> USE DEF SourcePresent, Untouched, MoveSource, SourceOnDisk
<1>1. CASE Resync
  BY <1>1, DiskOfCopy DEF Resync
<1>2. CASE RetireSource
  BY <1>2 DEF RetireSource
<1>3. CASE FindRetired
  BY <1>3 DEF FindRetired
<1>4. CASE RetireNothing
  BY <1>4 DEF RetireNothing
<1>5. CASE ConfirmRetired
  BY <1>5 DEF ConfirmRetired
<1>6. CASE RemoveEmpty
  BY <1>6 DEF RemoveEmpty
<1>7. CASE Own
  BY <1>7 DEF Own
<1>8. CASE Validate
  BY <1>8 DEF Validate
<1>9. CASE OwnNothing
  BY <1>9 DEF OwnNothing
<1>10. CASE BuryEntry
  BY <1>10 DEF BuryEntry
<1>11. CASE DeleteEntry
  BY <1>11 DEF DeleteEntry
<1>12. CASE DeleteRefused
  BY <1>12 DEF DeleteRefused
<1>13. CASE DeletedAll
  BY <1>13 DEF DeletedAll
<1>14. CASE RemoveRoot
  BY <1>14 DEF RemoveRoot
<1>15. CASE ConfirmRemoved
  BY <1>15 DEF ConfirmRemoved
<1> QED
  BY <1>1, <1>2, <1>3, <1>4, <1>5, <1>6, <1>7, <1>8, <1>9, <1>10, <1>11, <1>12, <1>13, <1>14,
     <1>15 DEF RemovingSource

(* The publication and the report of the completion. *)
LEMMA PublishingKeeps ==
  ASSUME IInv, Publishing PROVE IInv'
<1> USE DEF DestinationPresent, MoveCopy, ForgetControl
<1>1. CASE FinalAudit
  BY <1>1 DEF FinalAudit
<1>2. CASE Publish
  BY <1>2 DEF Publish
<1>3. CASE PublishRefused
  BY <1>3 DEF PublishRefused
<1>4. CASE SyncPublication
  BY <1>4, DiskOfCopy DEF SyncPublication
<1>5. CASE Report
  BY <1>5 DEF Report
<1>6. CASE Acknowledge
  BY <1>6 DEF Acknowledge
<1>7. CASE Retire
  BY <1>7 DEF Retire
<1>8. CASE FinishRetirement
  BY <1>8 DEF FinishRetirement
<1> QED
  BY <1>1, <1>2, <1>3, <1>4, <1>5, <1>6, <1>7, <1>8 DEF Publishing

LEMMA AfterWithdrawalKeeps ==
  ASSUME IInv, AfterWithdrawal PROVE IInv'
<1>1. CASE Stop(Failure)
  BY <1>1 DEF AfterWithdrawal
<1>2. CASE pc' \in {"control", "plan"}
  <2>1. /\ UNCHANGED <<kind, tree, records, occupied, command, withdrawal, answer,
                    faults, meddling>>
        /\ atomic' \in BOOLEAN /\ pc = "withdrawn"
    BY <1>2 DEF AfterWithdrawal
  <2>2. TypeOK'
    BY <1>2, <2>1
  <2>3. NothingIsLost' /\ Findings'
    BY <2>1, <2>2
  <2>4. AtRest' /\ copy'.at = "none" /\ control' = "none"
    BY <2>1
  <2> QED
    BY <1>2, <2>3, <2>4
<1> QED
  BY <1>1, <1>2 DEF AfterWithdrawal

(* The withdrawal of a manifest. *)
LEMMA WithdrawingKeeps ==
  ASSUME IInv, Withdrawing PROVE IInv'
<1> USE DEF ForgetControl
<1>1. CASE WithdrawManifest
  BY <1>1 DEF WithdrawManifest
<1>2. CASE WithdrawControl
  BY <1>2 DEF WithdrawControl
<1> QED
  BY <1>1, <1>2, AfterWithdrawalKeeps DEF Withdrawing

LEMMA FindDamageKeeps ==
  ASSUME IInv, FindDamage PROVE IInv'
<1>1. /\ Settled /\ pc' = "idle" /\ command' = "none" /\ UNCHANGED tree
      /\ UNCHANGED <<kind, atomic, withdrawal, occupied, faults, meddling>>
  BY DEF FindDamage
<1>2. /\ control' \in {"none", control} /\ proof' \in File /\ committed' \in File
      /\ answer' \in {"kept", "other", "not_found"}
  BY DEF FindDamage, ForgetControl
<1>3. TypeOK'
  BY <1>1, <1>2
<1>4. NothingIsLost' /\ Findings' /\ Settled'
  BY <1>1, <1>3
<1> QED
  BY <1>1, <1>4

(* What a recovery concludes from what it finds. *)
LEMMA DecidingKeeps ==
  ASSUME IInv, Deciding PROVE IInv'
<1> USE DEF Examine, Resuming, MarkedInVain, MovedRoot, PublishedMove, Finishable, Unclear,
  Restartable, RemoveStagingFirst, AfterStaging, DestinationPresent, SourcePresent, ForgetControl
<1>1. CASE FindNothing
  BY <1>1 DEF FindNothing
<1>2. CASE FindManifest
  BY <1>2 DEF FindManifest
<1>3. CASE ConfirmCopied
  BY <1>3, FaultIsCounted DEF ConfirmCopied
<1>4. CASE ResumeMarkedInVain
  BY <1>4 DEF ResumeMarkedInVain
<1>5. CASE ResumeMovedRoot
  BY <1>5 DEF ResumeMovedRoot
<1>6. CASE ResumePublishedMove
  BY <1>6, DiskOfCopy DEF ResumePublishedMove
<1>7. CASE ResumeFinishable
  BY <1>7 DEF ResumeFinishable
<1>8. CASE ResumeMarked
  BY <1>8 DEF ResumeMarked
<1>9. CASE Restart
  BY <1>9 DEF Restart
<1>10. CASE ResumeNothing
  BY <1>10 DEF ResumeNothing
<1>11. CASE Discard
  BY <1>11 DEF Discard
<1>12. CASE DiscardNothing
  BY <1>12 DEF DiscardNothing
<1> QED
  BY <1>1, <1>2, <1>3, <1>4, <1>5, <1>6, <1>7, <1>8, <1>9, <1>10, <1>11, <1>12, FindDamageKeeps
     DEF Deciding

(* The removal of an unfinished copy. *)
LEMMA RemovingCopyKeeps ==
  ASSUME IInv, RemovingCopy PROVE IInv'
<1> USE DEF DestinationPresent, MoveCopy, AfterStaging
<1>1. CASE HideStaging
  BY <1>1 DEF HideStaging
<1>2. CASE Quarantine
  BY <1>2 DEF Quarantine
<1>3. CASE Recheck
  BY <1>3 DEF Recheck
<1>4. CASE RemoveNothing
  BY <1>4 DEF RemoveNothing
<1>5. CASE RemoveStaging
  BY <1>5 DEF RemoveStaging
<1>6. CASE ClearProof
  BY <1>6 DEF ClearProof
<1>7. CASE ClearProofOnly
  BY <1>7 DEF ClearProofOnly
<1> QED
  BY <1>1, <1>2, <1>3, <1>4, <1>5, <1>6, <1>7 DEF RemovingCopy

(* A kill, which may leave a small file half written. *)
LEMMA InterruptKeeps ==
  ASSUME IInv, Interrupt PROVE IInv'
<1>1. Torn("mark", source.marked) \subseteq File /\ Torn("own", source.owned) \subseteq File
  BY DEF Torn
<1>2. PICK m \in Torn("mark", source.marked), o \in Torn("own", source.owned) :
        source' = [source EXCEPT !.marked = m, !.owned = o]
  BY DEF Interrupt
<1>3. m \in File /\ o \in File
  BY <1>1
<1>4. source' = [at |-> source.at, leaf |-> source.leaf, edited |-> source.edited,
                 marked |-> m, owned |-> o]
  BY <1>2
<1>5. source' \in SourceType
  <2>1. source \in SourceType
    OBVIOUS
  <2> HIDE DEF IInv
  <2> QED
    BY <1>3, <1>4, <2>1
<1>6. /\ UNCHANGED <<kind, copy, disk, atomic, withdrawal, occupied, meddling>>
      /\ pc' = "idle" /\ command' = "none" /\ pc # "idle"
  BY DEF Interrupt, Interrupted
<1>7. /\ control' \in {"torn", control} /\ (control' # control => pc = "manifest")
      /\ proof' \in File /\ committed' \in File
  BY DEF Interrupt, Torn
<1>8. answer' \in {"none", "kept", answer} /\ faults' \in 0..MaxFaults
  BY FaultIsCounted DEF Interrupt, Interrupted
<1>9. TypeOK'
  BY <1>5, <1>6, <1>7, <1>8
<1>10. NothingIsLost'
  BY <1>4, <1>6, <1>9
<1>11. Findings'
  BY <1>3, <1>4, <1>6 DEF Torn
<1>12. Settles'
  BY <1>3, <1>4, <1>6, <1>7 DEF Torn
<1> QED
  BY <1>6, <1>10, <1>11, <1>12

(* A power failure, after which the disk shows a mixture of old and new. *)
LEMMA PowerLossKeeps ==
  ASSUME IInv, PowerLoss PROVE IInv'
<1>1. PICK at \in {source.at, disk.source}, leaf \in [Entries -> {"here", "tomb", "gone"}] :
       /\ \A e \in Entries :
            \/ leaf[e] = source.leaf[e]
            \/ source.leaf[e] # "here" /\ disk.source # "gone" /\ leaf[e] # "gone"
       /\ at = "gone" => leaf = source.leaf
       /\ source' = [source EXCEPT !.at = at, !.leaf = leaf,
                                   !.owned = IF source.at = "gone" /\ at # "gone"
                                             THEN "whole" ELSE @]
  BY DEF PowerLoss
<1>2. PICK place \in {copy.at} \union UndoneCopy, has \in SUBSET copy.has :
       /\ disk.has \intersect copy.has \subseteq has /\ (place = "none" => has = {})
       /\ copy' = [at |-> place, has |-> has]
  BY DEF PowerLoss
<1>3. PICK owned \in {source.owned, "whole"} :
       owned = (IF source.at = "gone" /\ at # "gone" THEN "whole" ELSE source.owned)
  OBVIOUS
<1>4. source' = [at |-> at, leaf |-> leaf, edited |-> source.edited, marked |-> source.marked,
                 owned |-> owned]
  BY <1>1, <1>3
<1>5. /\ source'.at \in {source.at, disk.source} /\ source'.leaf = leaf
      /\ source'.edited = source.edited /\ source'.marked = source.marked /\ source'.owned = owned
  <2> HIDE DEF IInv
  <2> QED
    BY <1>1, <1>3, <1>4
<1>6. source' \in SourceType
  <2>1. TypeOK
    OBVIOUS
  <2> HIDE DEF IInv
  <2> QED
    BY <1>1, <1>3, <1>4, <2>1, ZenonT(60)
<1>7. /\ copy' \in CopyType /\ copy'.at \in {copy.at} \union UndoneCopy
      /\ copy'.has \subseteq copy.has /\ disk.has \intersect copy.has \subseteq copy'.has
      /\ copy'.at = "none" => copy'.has = {}
  BY <1>2 DEF UndoneCopy
<1>8. /\ UNCHANGED <<kind, disk, records, atomic, withdrawal, occupied, meddling>>
      /\ pc' = "idle" /\ command' = "none"
  BY DEF PowerLoss, Interrupted
<1>9. answer' \in {"none", "kept", answer} /\ faults' \in 0..MaxFaults
  BY FaultIsCounted DEF PowerLoss, Interrupted
<1>10. TypeOK'
  BY <1>6, <1>7, <1>8, <1>9
<1>11. NothingIsLost'
  <2> SUFFICES ASSUME NEW e \in Entries, source'.leaf[e] = "gone"
               PROVE  /\ e \notin source'.edited /\ e \in copy'.has \intersect disk'.has
                      /\ copy'.at \in {"staging", "destination"}
    BY <1>10
  <2>1. source.leaf[e] = "gone"
    BY <1>1, <1>5
  <2>2. e \in copy.has \intersect disk.has /\ copy.at \in {"staging", "destination"}
    BY <2>1
  <2>3. e \in copy'.has
    BY <2>2, <1>7
  <2>4. copy'.at \in {"staging", "destination"}
    BY <2>2, <2>3, <1>7 DEF UndoneCopy
  <2> QED
    BY <2>1, <2>2, <2>3, <2>4, <1>5, <1>8
<1>12. RemovalIsDurable' /\ MarkerMeans' /\ RenameMeans'
  BY <1>1, <1>3, <1>5, <1>7, <1>8 DEF UndoneCopy
<1>13. GoneMeans'
  BY <1>1, <1>5, <1>7, <1>8 DEF UndoneCopy
<1>14. RetirementMeans'
  BY <1>5, <1>7, <1>8 DEF UndoneCopy
<1>15. PublicationMeans'
  BY <1>5, <1>7, <1>8 DEF UndoneCopy
<1>16. DiskIsBehind'
  BY <1>5, <1>7, <1>8 DEF UndoneCopy
<1>17. Settles'
  <2> SUFFICES ASSUME control # "manifest" PROVE Settled'
    BY <1>8
  <2>1. CASE Undone
    BY <2>1, <1>1, <1>3, <1>5, <1>7, <1>8 DEF UndoneCopy, PowerLoss
  <2>2. CASE MovedDurably
    BY <2>2, <1>5, <1>7, <1>8 DEF UndoneCopy
  <2>3. CASE DeliveredDurably
    BY <2>3, <1>5, <1>7, <1>8 DEF UndoneCopy
  <2> QED
    BY <2>1, <2>2, <2>3
<1> QED
  BY <1>8, <1>11, <1>12, <1>13, <1>14, <1>15, <1>16, <1>17

(* What goes wrong. *)
LEMMA FailKeeps ==
  ASSUME IInv, Fail PROVE IInv'
<1>1. CASE GiveUp
  BY <1>1, FaultIsCounted DEF GiveUp
<1>2. CASE FailWithdrawal
  BY <1>2, FaultIsCounted DEF FailWithdrawal
<1>3. CASE CleanNothing
  BY <1>3, FaultIsCounted DEF CleanNothing
<1> QED
  BY <1>1, <1>2, <1>3, InterruptKeeps, PowerLossKeeps DEF Fail

(* Other programs. *)
LEMMA MeddleKeeps ==
  ASSUME IInv, Meddle PROVE IInv'
BY MeddlingIsCounted DEF Meddle, DestinationPresent, SourcePresent

(* The client. *)
LEMMA BeginKeeps ==
  ASSUME IInv, NEW c \in Commands, Begin(c) PROVE IInv'
<1>1. CASE c = "fresh"
  BY <1>1 DEF Begin
<1>2. CASE c # "fresh"
  BY <1>2 DEF Begin
<1> QED
  BY <1>1, <1>2

LEMMA StepKeeps ==
  ASSUME IInv, [Next]_vars PROVE IInv'
<1>1. CASE Work
  <2> HIDE DEF IInv
  <2> QED
    BY <1>1, PlanningKeeps, MovingKeeps, CopyingKeeps, RemovingSourceKeeps, PublishingKeeps,
       WithdrawingKeeps, DecidingKeeps, RemovingCopyKeeps DEF Work
<1>2. CASE UNCHANGED vars
  BY <1>2 DEF vars
<1> HIDE DEF IInv
<1> QED
  BY <1>1, <1>2, FailKeeps, MeddleKeeps, BeginKeeps DEF Next

LEMMA Invariance == Spec => []IInv
<1> HIDE DEF IInv
<1> QED
  BY InitHolds, StepKeeps, PTL DEF Spec

-----------------------------------------------------------------------------

(* The variables have their types, and no kill, power failure, edit or     *)
(* retry of the removal of a source loses a file: whatever the number of   *)
(* files, faults and edits.                                                *)
THEOREM NoFileIsLost == Spec => []NothingIsLost
<1>1. IInv => NothingIsLost
  OBVIOUS
<1> HIDE DEF IInv, NothingIsLost
<1> QED
  BY <1>1, Invariance, PTL

(* Without a manifest the folder is untouched, copied or moved, and        *)
(* nothing of the transfer is hidden anywhere.                             *)
THEOREM AllOrNothingHolds == Spec => []AllOrNothing
<1>1. IInv => AllOrNothing
  BY DEF AllOrNothing
<1> HIDE DEF IInv
<1> QED
  BY <1>1, Invariance, PTL

-----------------------------------------------------------------------------
(***************************************************************************)
(* The refinement: DirectoryTransfer keeps what FolderTransfer promises    *)
(* the clients of the helper, for every folder and every number of faults: *)
(* the evidence that a recovery finds, the answers and the hand-over of    *)
(* the completion are those of the promise, whatever happens inside.       *)
(***************************************************************************)

Mapped == [i \in {1} |-> TheFolder]

Promised == [Promise!FolderNext]_Mapped

Working == Steps \ {"idle", "load", "withdraw_control", "report", "retire", "retire_control"}

(* What the folder of the promise looks like before and after a step. *)
Is(stage, does, evidence, delivered, says) ==
  [stage |-> stage, command |-> does, evidence |-> evidence, delivered |-> delivered,
   answer |-> says]

USE DEF Commands, Scanning, Discarding

LEMMA StageOf ==
  /\ pc \in Working => Stage = "working"
  /\ pc = "idle" => Stage = "off"
  /\ pc = "load" => Stage = "looking"
  /\ pc = "withdraw_control" => Stage = "withdrawing"
  /\ pc = "report" => Stage = "reporting"
  /\ pc \in {"retire", "retire_control"} => Stage = "acknowledged"
BY DEF Stage, Working, Steps

LEMMA NextStageOf ==
  /\ pc' \in Working => Stage' = "working"
  /\ pc' = "idle" => Stage' = "off"
  /\ pc' = "load" => Stage' = "looking"
  /\ pc' = "withdraw_control" => Stage' = "withdrawing"
  /\ pc' = "report" => Stage' = "reporting"
  /\ pc' \in {"retire", "retire_control"} => Stage' = "acknowledged"
BY DEF Stage, Working, Steps

LEMMA FolderIsTyped ==
  ASSUME TypeOK PROVE TheFolder \in Promise!Folder
<1>1. Stage \in {"off", "looking", "working", "withdrawing", "reporting", "acknowledged"}
  BY StageOf DEF TypeOK, Steps, Working
<1>2. Evidence \in {"none", "husk", "manifest"}
  BY DEF Evidence, TypeOK
<1>3. Delivered \in BOOLEAN
  BY DEF Delivered
<1> QED
  BY <1>1, <1>2, <1>3 DEF TypeOK, TheFolder, Promise!Folder, Promise!Answers, Promise!Commands

LEMMA FolderIs ==
  /\ Mapped[1] = TheFolder /\ TheFolder = Is(Stage, command, Evidence, Delivered, answer)
  /\ TheFolder.stage = Stage /\ TheFolder.command = command /\ TheFolder.evidence = Evidence
  /\ TheFolder.delivered = Delivered /\ TheFolder.answer = answer
BY DEF Mapped, TheFolder, Is

LEMMA Becomes ==
  ASSUME NEW f, TheFolder' = f PROVE Promise!Become(1, f)
BY DEF Promise!Become, Mapped

(* The records that the actions of the promise make, field by field. *)
LEMMA AnswerIs ==
  ASSUME NEW f \in Promise!Folder, NEW says
  PROVE  Promise!Answer(f, says) = Is("off", "none", f.evidence, f.delivered, says)
<1>1. ASSUME NEW g, g = Promise!Answer(f, says)
      PROVE  g = Is("off", "none", f.evidence, f.delivered, says)
  BY <1>1 DEF Promise!Answer, Promise!Folder, Is
<1> QED
  BY <1>1

LEMMA GoesIs ==
  ASSUME NEW f \in Promise!Folder, NEW stage, NEW left
  PROVE  Promise!Goes(f, stage, left) = Is(stage, f.command, left, f.delivered, f.answer)
<1>1. ASSUME NEW g, g = Promise!Goes(f, stage, left)
      PROVE  g = Is(stage, f.command, left, f.delivered, f.answer)
  BY <1>1 DEF Promise!Goes, Promise!Folder, Is
<1> QED
  BY <1>1

LEMMA BeginIs ==
  ASSUME NEW f \in Promise!Folder, NEW c, c = "fresh" => f.evidence = "none"
  PROVE  Promise!Given(f, c) = Is(IF c = "fresh" THEN "working" ELSE "looking", c,
                                  f.evidence, f.delivered, "none")
<1>1. ASSUME NEW g, g = Promise!Given(f, c)
      PROVE  g = Is(IF c = "fresh" THEN "working" ELSE "looking", c,
                    f.evidence, f.delivered, "none")
  BY <1>1 DEF Promise!Given, Promise!Folder, Is
<1> QED
  BY <1>1

LEMMA DeliveredIs ==
  ASSUME NEW f \in Promise!Folder
  PROVE  [f EXCEPT !.delivered = TRUE] = Is(f.stage, f.command, f.evidence, TRUE, f.answer)
<1>1. ASSUME NEW g, g = [f EXCEPT !.delivered = TRUE]
      PROVE  g = Is(f.stage, f.command, f.evidence, TRUE, f.answer)
  BY <1>1 DEF Promise!Folder, Is
<1> QED
  BY <1>1

LEMMA EvidenceAndAnswerIs ==
  ASSUME NEW f \in Promise!Folder, NEW left \in {"none", "husk", "manifest"}, NEW says
  PROVE  Promise!Answer(Promise!Goes(f, f.stage, left), says) =
           Is("off", "none", left, f.delivered, says)
<1>1. ASSUME NEW g, g = Promise!Goes(f, f.stage, left)
      PROVE  g \in Promise!Folder /\ g.evidence = left /\ g.delivered = f.delivered
  BY <1>1 DEF Promise!Goes, Promise!Folder
<1> QED
  BY <1>1, AnswerIs

LEMMA FailureIsPromised ==
  ASSUME TypeOK, Stage = "working" PROVE Failure \in Promise!Failures(TheFolder)
<1>1. command # "none"
  BY StageOf DEF TypeOK
<1> QED
  BY <1>1, FolderIs DEF Failure, Promise!Failures, Promise!Recovering, Promise!Commands, TypeOK

(* Two folders that agree field by field, after a step. *)
LEMMA NextFolder ==
  ASSUME NEW stage, NEW does, NEW evidence, NEW says,
         Stage' = stage, command' = does, Evidence' = evidence, answer' = says
  PROVE  TheFolder' = Is(stage, does, evidence, Delivered', says)
BY DEF TheFolder, Is

-----------------------------------------------------------------------------
(* How the steps of the helper map to those of the promise. *)

(* A failure that keeps the manifest. *)
LEMMA EndsByGivingUp ==
  ASSUME TypeOK, Stage = "working", Evidence = "manifest",
         Stage' = "off", command' = "none", Evidence' = "manifest", answer' = "kept_path",
         Delivered' = Delivered
  PROVE  Promised
<1>1. TheFolder' = Is("off", "none", "manifest", Delivered, "kept_path")
  BY NextFolder DEF Is, TheFolder
<1>2. Promise!GiveUp(1)
  BY <1>1, FolderIs, FolderIsTyped, Becomes, AnswerIs DEF Promise!GiveUp
<1> QED
  BY <1>2 DEF Promised, Promise!FolderNext, Promise!HelperFails

(* A failure without a control directory. *)
LEMMA EndsByRefusing ==
  ASSUME TypeOK, Stage = "working", Evidence = "none",
         Stage' = "off", command' = "none", Evidence' = "none", answer' = Failure,
         Delivered' = Delivered
  PROVE  Promised
<1>1. TheFolder' = Is("off", "none", "none", Delivered, Failure)
  BY NextFolder DEF Is, TheFolder
<1>2. Promise!Refuse(1, Failure)
  BY <1>1, FolderIs, FolderIsTyped, Becomes, AnswerIs, FailureIsPromised DEF Promise!Refuse
<1> QED
  BY <1>2 DEF Promised, Promise!FolderNext, Promise!HelperFails, Promise!Answers, Failure

(* A failure before the manifest is written. *)
LEMMA EndsByAbandoning ==
  ASSUME TypeOK, NEW left \in {"none", "husk"}, Stage = "working", Evidence = "husk",
         Stage' = "off", command' = "none", Evidence' = left, answer' = Failure,
         Delivered' = Delivered
  PROVE  Promised
<1>1. TheFolder' = Is("off", "none", left, Delivered, Failure)
  BY NextFolder DEF Is, TheFolder
<1>2. Promise!AbandonHusk(1, left, Failure)
  BY <1>1, FolderIs, FolderIsTyped, Becomes, EvidenceAndAnswerIs, FailureIsPromised
     DEF Promise!AbandonHusk
<1> QED
  BY <1>2 DEF Promised, Promise!FolderNext, Promise!HelperFails, Promise!Answers, Failure

(* The answer of a helper that died, or fell silent. *)
LEMMA EndsByLoss ==
  ASSUME TypeOK, NEW says \in {"none", "kept"}, Stage # "off",
         Stage' = "off", command' = "none", Evidence' = Evidence, answer' = says,
         Delivered' = Delivered
  PROVE  Promised
<1>1. TheFolder' = Is("off", "none", Evidence, Delivered, says)
  BY NextFolder DEF Is, TheFolder
<1>2. Promise!Lose(1, says)
  BY <1>1, FolderIs, FolderIsTyped, Becomes, AnswerIs DEF Promise!Lose
<1> QED
  BY <1>2 DEF Promised, Promise!FolderNext

(* A recovery that finds nothing. *)
LEMMA FindsNothing ==
  ASSUME TypeOK, Stage = "looking", Evidence = "none",
         Stage' = "off", command' = "none", Evidence' = "none", answer' = "not_found",
         Delivered' = Delivered
  PROVE  Promised
<1>1. TheFolder' = Is("off", "none", "none", Delivered, "not_found")
  BY NextFolder DEF Is, TheFolder
<1>2. Promise!FindNothing(1)
  BY <1>1, FolderIs, FolderIsTyped, Becomes, AnswerIs DEF Promise!FindNothing
<1> QED
  BY <1>2 DEF Promised, Promise!FolderNext, Promise!HelperStep

(* A scan that finds damage. *)
LEMMA ScansHusk ==
  ASSUME TypeOK, Stage = "looking", Evidence = "husk", Scanning,
         Stage' = "off", command' = "none", Evidence' = "husk", answer' = "kept",
         Delivered' = Delivered
  PROVE  Promised
<1>1. TheFolder' = Is("off", "none", "husk", Delivered, "kept")
  BY NextFolder DEF Is, TheFolder
<1>2. Promise!FindHusk(1)
  BY <1>1, FolderIs, FolderIsTyped, Becomes, AnswerIs DEF Promise!FindHusk, Promise!Scans
<1> QED
  BY <1>2 DEF Promised, Promise!FolderNext, Promise!HelperStep

(* A discarding that finds no manifest. *)
LEMMA LeavesHusk ==
  ASSUME TypeOK, Stage = "looking", Evidence = "husk", command = "discard",
         Stage' = "off", command' = "none", Evidence' = "husk", answer' = "not_found",
         Delivered' = Delivered
  PROVE  Promised
<1>1. TheFolder' = Is("off", "none", "husk", Delivered, "not_found")
  BY NextFolder DEF Is, TheFolder
<1>2. Promise!FindHusk(1)
  BY <1>1, FolderIs, FolderIsTyped, Becomes, AnswerIs DEF Promise!FindHusk, Promise!Scans
<1> QED
  BY <1>2 DEF Promised, Promise!FolderNext, Promise!HelperStep

(* A recovery that finds a manifest that is torn. *)
LEMMA RejectsHusk ==
  ASSUME TypeOK, Stage = "looking", Evidence = "husk", command \in {"resume", "discard"},
         Stage' = "off", command' = "none", Evidence' = "husk", answer' = "other",
         Delivered' = Delivered
  PROVE  Promised
<1>1. TheFolder' = Is("off", "none", "husk", Delivered, "other")
  BY NextFolder DEF Is, TheFolder
<1>2. Promise!Reject(1)
  BY <1>1, FolderIs, FolderIsTyped, Becomes, AnswerIs DEF Promise!Reject, Promise!Scans
<1> QED
  BY <1>2 DEF Promised, Promise!FolderNext, Promise!HelperFails

(* A resumption removes a control directory without a manifest, or fails to. *)
LEMMA CleansHusk ==
  ASSUME TypeOK, NEW left \in {"none", "husk"},
         Stage = "looking", Evidence = "husk", command = "resume",
         Stage' = "off", command' = "none", Evidence' = left, answer' = "not_found",
         Delivered' = Delivered
  PROVE  Promised
<1>1. TheFolder' = Is("off", "none", left, Delivered, "not_found")
  BY NextFolder DEF Is, TheFolder
<1>2. Promise!CleanHusk(1, left)
  BY <1>1, FolderIs, FolderIsTyped, Becomes, EvidenceAndAnswerIs DEF Promise!CleanHusk
<1> QED
  BY <1>2 DEF Promised, Promise!FolderNext, Promise!HelperFails, Promise!HelperStep

(* A recovery that has work to do. *)
LEMMA FindsManifest ==
  ASSUME TypeOK, Stage = "looking", command # "fresh", Evidence = "manifest",
         Stage' = "working", command' = command, Evidence' = "manifest", answer' = answer,
         Delivered' = Delivered
  PROVE  Promised
<1>1. TheFolder' = Is("working", command, "manifest", Delivered, answer)
  BY NextFolder DEF Is, TheFolder
<1>2. Promise!FindManifest(1)
  BY <1>1, FolderIs, FolderIsTyped, Becomes, GoesIs DEF Promise!FindManifest
<1> QED
  BY <1>2 DEF Promised, Promise!FolderNext, Promise!HelperStep

(* The control directory and its manifest appear. *)
LEMMA MakesControl ==
  ASSUME TypeOK, Stage = "working", Evidence = "none", ~Delivered,
         Stage' = "working", command' = command, Evidence' = "husk", answer' = answer,
         Delivered' = Delivered
  PROVE  Promised
<1>1. TheFolder' = Is("working", command, "husk", Delivered, answer)
  BY NextFolder DEF Is, TheFolder
<1>2. Promise!Become(1, Promise!Goes(TheFolder, "working", "husk"))
  <2>1. TheFolder' = Promise!Goes(TheFolder, "working", "husk")
    BY <1>1, FolderIs, FolderIsTyped, GoesIs
  <2> QED
    BY <2>1, Becomes
<1>3. /\ TheFolder.stage = "working" /\ TheFolder.evidence = "none" /\ ~TheFolder.delivered
      /\ Mapped[1] = TheFolder
  BY FolderIs
<1>4. Promise!MakeControl(1)
  BY <1>2, <1>3 DEF Promise!MakeControl
<1> QED
  BY <1>4 DEF Promised, Promise!FolderNext, Promise!HelperStep

LEMMA WritesManifest ==
  ASSUME TypeOK, Stage = "working", Evidence = "husk",
         Stage' = "working", command' = command, Evidence' = "manifest", answer' = answer,
         Delivered' = Delivered
  PROVE  Promised
<1>1. TheFolder' = Is("working", command, "manifest", Delivered, answer)
  BY NextFolder DEF Is, TheFolder
<1>2. Promise!WriteManifest(1)
  BY <1>1, FolderIs, FolderIsTyped, Becomes, GoesIs DEF Promise!WriteManifest
<1> QED
  BY <1>2 DEF Promised, Promise!FolderNext, Promise!HelperStep

(* They disappear after a failure that was undone. *)
LEMMA Withdraws ==
  ASSUME TypeOK, Stage = "working", Evidence = "manifest", ~Delivered,
         Stage' = "withdrawing", command' = command, Evidence' = "husk", answer' = answer,
         Delivered' = Delivered
  PROVE  Promised
<1>1. TheFolder' = Is("withdrawing", command, "husk", Delivered, answer)
  BY NextFolder DEF Is, TheFolder
<1>2. Promise!Become(1, Promise!Goes(TheFolder, "withdrawing", "husk"))
  <2>1. TheFolder' = Promise!Goes(TheFolder, "withdrawing", "husk")
    BY <1>1, FolderIs, FolderIsTyped, GoesIs
  <2> QED
    BY <2>1, Becomes
<1>3. /\ TheFolder.stage = "working" /\ TheFolder.evidence = "manifest" /\ ~TheFolder.delivered
      /\ Mapped[1] = TheFolder
  BY FolderIs
<1>4. Promise!Withdraw(1)
  BY <1>2, <1>3 DEF Promise!Withdraw
<1> QED
  BY <1>4 DEF Promised, Promise!FolderNext, Promise!HelperFails

LEMMA FinishesWithdrawal ==
  ASSUME TypeOK, Stage = "withdrawing",
         Stage' = "working", command' = command, Evidence' = "none", answer' = answer,
         Delivered' = Delivered
  PROVE  Promised
<1>1. TheFolder' = Is("working", command, "none", Delivered, answer)
  BY NextFolder DEF Is, TheFolder
<1>2. Promise!FinishWithdrawal(1)
  BY <1>1, FolderIs, FolderIsTyped, Becomes, GoesIs DEF Promise!FinishWithdrawal
<1> QED
  BY <1>2 DEF Promised, Promise!FolderNext, Promise!HelperStep

LEMMA FailsWithdrawal ==
  ASSUME TypeOK, Stage = "withdrawing",
         Stage' = "off", command' = "none", Evidence' = Evidence, answer' = "kept_path",
         Delivered' = Delivered
  PROVE  Promised
<1>1. TheFolder' = Is("off", "none", Evidence, Delivered, "kept_path")
  BY NextFolder DEF Is, TheFolder
<1>2. Promise!FailWithdrawal(1)
  BY <1>1, FolderIs, FolderIsTyped, Becomes, AnswerIs DEF Promise!FailWithdrawal
<1> QED
  BY <1>2 DEF Promised, Promise!FolderNext, Promise!HelperFails

(* The completion is reported: of a delivery, or of a discarding. *)
LEMMA Reports ==
  ASSUME TypeOK, Stage = "working", Evidence = "manifest", Delivered,
         Stage' = "reporting", command' = command, Evidence' = "manifest", answer' = answer,
         Delivered' = Delivered
  PROVE  Promised
<1>1. TheFolder' = Is("reporting", command, "manifest", Delivered, answer)
  BY NextFolder DEF Is, TheFolder
<1>2. Promise!Become(1, Promise!Goes(TheFolder, "reporting", TheFolder.evidence))
  <2>1. TheFolder' = Is("reporting", TheFolder.command, TheFolder.evidence, TheFolder.delivered,
                        TheFolder.answer)
    BY <1>1, FolderIs
  <2>2. TheFolder' = Promise!Goes(TheFolder, "reporting", TheFolder.evidence)
    BY <2>1, FolderIsTyped, GoesIs
  <2> QED
    BY <2>2, Becomes
<1>3. TheFolder.delivered /\ [i \in {1} |-> TheFolder][1] = TheFolder
  BY DEF TheFolder
<1>4. Promise!Report(1)
  BY <1>2, <1>3, FolderIs, Zenon DEF Promise!Report
<1> QED
  BY <1>4 DEF Promised, Promise!FolderNext, Promise!HelperStep

LEMMA ReportsDiscard ==
  ASSUME TypeOK, Stage = "working", Evidence = "manifest", Discarding,
         Stage' = "reporting", command' = command, Evidence' = "manifest", answer' = answer,
         Delivered' = Delivered
  PROVE  Promised
<1>1. TheFolder' = Is("reporting", command, "manifest", Delivered, answer)
  BY NextFolder DEF Is, TheFolder
<1>2. Promise!ReportDiscard(1)
  BY <1>1, FolderIs, FolderIsTyped, Becomes, GoesIs DEF Promise!ReportDiscard
<1> QED
  BY <1>2 DEF Promised, Promise!FolderNext, Promise!HelperStep

LEMMA ReportsConfirmation ==
  ASSUME TypeOK, NEW left \in {"none", "husk", "manifest"}, command \in {"discover", "resume"},
         Stage = "working", Evidence = "manifest", Delivered,
         Stage' = "reporting", command' = command, Evidence' = left, answer' = answer,
         Delivered' = Delivered
  PROVE  Promised
<1>1. TheFolder' = Is("reporting", command, left, Delivered, answer)
  BY NextFolder DEF Is, TheFolder
<1>2. Promise!Become(1, Promise!Goes(TheFolder, "reporting", left))
  <2>1. TheFolder' = Is("reporting", TheFolder.command, left, TheFolder.delivered,
                        TheFolder.answer)
    BY <1>1, FolderIs
  <2>2. TheFolder' = Promise!Goes(TheFolder, "reporting", left)
    BY <2>1, FolderIsTyped, GoesIs
  <2> QED
    BY <2>2, Becomes
<1>3. TheFolder.delivered /\ [i \in {1} |-> TheFolder][1] = TheFolder
  BY DEF TheFolder
<1>4. Promise!ConfirmCopy(1, left)
  BY <1>2, <1>3, FolderIs, Zenon DEF Promise!ConfirmCopy, Promise!Recovering, Promise!Commands
<1> QED
  BY <1>4 DEF Promised, Promise!FolderNext, Promise!HelperFails

(* The acknowledgement, and what follows it. *)
LEMMA IsAcknowledged ==
  ASSUME TypeOK, Stage = "reporting",
         Stage' = "acknowledged", command' = command, Evidence' = Evidence, answer' = answer,
         Delivered' = Delivered
  PROVE  Promised
<1>1. TheFolder' = Is("acknowledged", command, Evidence, Delivered, answer)
  BY NextFolder DEF Is, TheFolder
<1>2. Promise!Acknowledge(1)
  BY <1>1, FolderIs, FolderIsTyped, Becomes, GoesIs DEF Promise!Acknowledge
<1> QED
  BY <1>2 DEF Promised, Promise!FolderNext

LEMMA RetiresManifest ==
  ASSUME TypeOK, Stage = "acknowledged", Evidence = "manifest",
         Stage' = "acknowledged", command' = command, Evidence' = "husk", answer' = answer,
         Delivered' = Delivered
  PROVE  Promised
<1>1. TheFolder' = Is("acknowledged", command, "husk", Delivered, answer)
  BY NextFolder DEF Is, TheFolder
<1>2. Promise!Retire(1)
  BY <1>1, FolderIs, FolderIsTyped, Becomes, GoesIs DEF Promise!Retire
<1> QED
  BY <1>2 DEF Promised, Promise!FolderNext, Promise!HelperStep

LEMMA FinishesRetirement ==
  ASSUME TypeOK, Stage = "acknowledged", Evidence \in {"none", "husk"},
         Stage' = "off", command' = "none", Evidence' = "none", answer' = "ok",
         Delivered' = Delivered
  PROVE  Promised
<1>1. TheFolder' = Is("off", "none", "none", Delivered, "ok")
  BY NextFolder DEF Is, TheFolder
<1>2. Promise!FinishRetirement(1)
  BY <1>1, FolderIs, FolderIsTyped, Becomes, EvidenceAndAnswerIs DEF Promise!FinishRetirement
<1> QED
  BY <1>2 DEF Promised, Promise!FolderNext, Promise!HelperStep

LEMMA FailsRetirement ==
  ASSUME TypeOK, Stage = "acknowledged", Evidence # "none",
         Stage' = "off", command' = "none", Evidence' = Evidence, answer' = "kept_path",
         Delivered' = Delivered
  PROVE  Promised
<1>1. TheFolder' = Is("off", "none", Evidence, Delivered, "kept_path")
  BY NextFolder DEF Is, TheFolder
<1>2. Promise!FailRetirement(1)
  BY <1>1, FolderIs, FolderIsTyped, Becomes, AnswerIs DEF Promise!FailRetirement
<1> QED
  BY <1>2 DEF Promised, Promise!FolderNext, Promise!HelperFails

(* The client begins. *)
LEMMA Begins ==
  ASSUME TypeOK, NEW c \in Commands, Stage = "off", c = "fresh" => Evidence = "none",
         Stage' = (IF c = "fresh" THEN "working" ELSE "looking"),
         command' = c, Evidence' = Evidence, answer' = "none",
         Delivered' = Delivered
  PROVE  Promised
<1>1. TheFolder' = Is((IF c = "fresh" THEN "working" ELSE "looking"),
                        c, Evidence, Delivered, "none")
  BY NextFolder DEF Is, TheFolder
<1>2. Promise!Begin(1, c)
  BY <1>1, FolderIs, FolderIsTyped, Becomes, BeginIs DEF Promise!Begin
<1> QED
  BY <1>2 DEF Promised, Promise!FolderNext, Promise!Commands

(* Work that the promise does not distinguish, or that delivers.           *)
LEMMA GoesOn ==
  ASSUME TypeOK, Stage = "working", Stage' = "working", command' = command,
         Evidence' = Evidence, answer' = answer,
         Delivered => Delivered', Evidence = "manifest" \/ Delivered' = Delivered
  PROVE  Promised
<1>1. CASE Delivered' = Delivered
  BY <1>1 DEF Promised, Mapped, TheFolder
<1>2. CASE ~Delivered /\ Delivered'
  <2>1. TheFolder' = Is("working", command, "manifest", TRUE, answer)
    BY <1>2 DEF Is, TheFolder
  <2>2. Promise!Become(1, [TheFolder EXCEPT !.delivered = TRUE])
    <3>1. TheFolder' = Is(TheFolder.stage, TheFolder.command, TheFolder.evidence, TRUE,
                          TheFolder.answer)
      BY <1>2, <2>1, FolderIs
    <3>2. TheFolder' = [TheFolder EXCEPT !.delivered = TRUE]
      BY <3>1, FolderIsTyped, DeliveredIs
    <3> QED
      BY <3>2, Becomes
  <2>3. ~TheFolder.delivered /\ [i \in {1} |-> TheFolder][1] = TheFolder
    BY <1>2 DEF TheFolder
  <2>4. Promise!Deliver(1)
    BY <1>2, <2>2, <2>3, FolderIs, Zenon DEF Promise!Deliver
  <2> QED
    BY <2>4 DEF Promised, Promise!FolderNext, Promise!HelperStep
<1> QED
  BY <1>1, <1>2 DEF Delivered

LEMMA IsTheSame ==
  ASSUME Stage' = Stage, command' = command, Evidence' = Evidence, answer' = answer,
         Delivered' = Delivered
  PROVE  Promised
BY DEF Promised, Mapped, TheFolder

-----------------------------------------------------------------------------
(* Each step of the helper is one of the promise, or changes nothing in it. *)

USE DEF IInv, NothingIsLost, Findings, PublicationMeans, DiskIsBehind, RenameMeans, MarkerMeans,
  Reliances, Recorded, Plans, Moves, Copies, RemovesSource, Publishes, Settles, RemovesCopy,
  AtRest, Undone, Delivered, Evidence, Step, Goto, Stop, Keep, Withdraw, tree, records, run

(* A step of the work that leaves the evidence alone and takes no delivery *)
(* back.                                                                   *)
LEMMA WorksOn ==
  ASSUME IInv, pc \in Working, pc' \in Working,
         UNCHANGED <<command, control, answer>>,
         Delivered => Delivered', control = "manifest" \/ Delivered' = Delivered
  PROVE  Promised
<1>1. TypeOK /\ Evidence' = Evidence
  BY DEF TypeOK
<1>2. Evidence = "manifest" \/ Delivered' = Delivered
  OBVIOUS
<1> HIDE DEF IInv, Delivered, Evidence
<1> QED
  BY <1>1, <1>2, StageOf, NextStageOf, GoesOn

(* The plan, the control directory and the manifest. *)
LEMMA PlanningMaps ==
  ASSUME IInv, Planning PROVE  Promised
<1> USE DEF DestinationPresent, TypeOK
<1>1. CASE Plan
  BY <1>1, WorksOn DEF Plan, Working, Steps
<1>2. CASE Refuse
  BY <1>2, StageOf, NextStageOf, EndsByRefusing DEF Refuse, Working, Steps
<1>3. CASE MakeControl
  BY <1>3, StageOf, NextStageOf, MakesControl DEF MakeControl, Working, Steps
<1>4. CASE WriteManifest
  BY <1>4, StageOf, NextStageOf, WritesManifest DEF WriteManifest, Working, Steps
<1>5. CASE AbandonControl
  BY <1>5, StageOf, NextStageOf, EndsByAbandoning DEF AbandonControl, Working, Steps
<1>6. CASE Choose
  BY <1>6, WorksOn DEF Choose, Working, Steps
<1> QED
  BY <1>1, <1>2, <1>3, <1>4, <1>5, <1>6 DEF Planning

(* The move as one rename. *)
LEMMA MovingMaps ==
  ASSUME IInv, Moving PROVE  Promised
<1> USE DEF MoveSource, SourceOnDisk
<1>1. CASE Mark
  BY <1>1, WorksOn DEF Mark, Working, Steps
<1>2. CASE MarkNothing
  BY <1>2, WorksOn DEF MarkNothing, Working, Steps
<1>3. CASE Move
  BY <1>3, WorksOn DEF Move, Working, Steps
<1>4. CASE MoveRefused
  BY <1>4, WorksOn DEF MoveRefused, Working, Steps
<1>5. CASE ConfirmMoved
  BY <1>5, WorksOn DEF ConfirmMoved, Working, Steps
<1>6. CASE MovedChanged
  BY <1>6, StageOf, NextStageOf, EndsByGivingUp DEF MovedChanged, Working, Steps
<1>7. CASE CommitMove
  BY <1>7, WorksOn DEF CommitMove, Working, Steps
<1>8. CASE UnmarkMoved
  BY <1>8, WorksOn DEF UnmarkMoved, Working, Steps
<1> QED
  BY <1>1, <1>2, <1>3, <1>4, <1>5, <1>6, <1>7, <1>8 DEF Moving

(* The copy. *)
LEMMA CopyingMaps ==
  ASSUME IInv, Copying PROVE  Promised
<1> USE DEF CopyOnDisk
<1>1. CASE MakeStaging
  BY <1>1, WorksOn DEF MakeStaging, Working, Steps
<1>2. CASE StagingDenied
  BY <1>2, WorksOn DEF StagingDenied, Working, Steps
<1>3. CASE CopyEntry
  BY <1>3, WorksOn DEF CopyEntry, Working, Steps
<1>4. CASE CopiedAll
  BY <1>4, WorksOn DEF CopiedAll, Working, Steps
<1>5. CASE SourceChanged
  BY <1>5, StageOf, NextStageOf, EndsByGivingUp DEF SourceChanged, Working, Steps
<1>6. CASE Verify
  BY <1>6, WorksOn DEF Verify, Working, Steps
<1>7. CASE SyncStaging
  BY <1>7, WorksOn DEF SyncStaging, Working, Steps
<1>8. CASE WriteProof
  BY <1>8, WorksOn DEF WriteProof, Working, Steps
<1> QED
  BY <1>1, <1>2, <1>3, <1>4, <1>5, <1>6, <1>7, <1>8 DEF Copying

(* The removal of the source. *)
LEMMA RemovingSourceMaps ==
  ASSUME IInv, RemovingSource PROVE  Promised
<1> USE DEF MoveSource, SourceOnDisk, CopyOnDisk
<1>1. CASE Resync
  BY <1>1, WorksOn DEF Resync, Working, Steps
<1>2. CASE RetireSource
  BY <1>2, WorksOn DEF RetireSource, Working, Steps
<1>3. CASE FindRetired
  BY <1>3, WorksOn DEF FindRetired, Working, Steps
<1>4. CASE RetireNothing
  BY <1>4, StageOf, NextStageOf, EndsByGivingUp DEF RetireNothing, Working, Steps
<1>5. CASE ConfirmRetired
  BY <1>5, WorksOn DEF ConfirmRetired, Working, Steps
<1>6. CASE RemoveEmpty
  BY <1>6, WorksOn DEF RemoveEmpty, Working, Steps
<1>7. CASE Own
  BY <1>7, WorksOn DEF Own, Working, Steps
<1>8. CASE Validate
  BY <1>8, WorksOn DEF Validate, Working, Steps
<1>9. CASE OwnNothing
  BY <1>9, StageOf, NextStageOf, EndsByGivingUp DEF OwnNothing, Working, Steps
<1>10. CASE BuryEntry
  BY <1>10, WorksOn DEF BuryEntry, Working, Steps
<1>11. CASE DeleteEntry
  BY <1>11, WorksOn DEF DeleteEntry, Working, Steps
<1>12. CASE DeleteRefused
  BY <1>12, StageOf, NextStageOf, EndsByGivingUp DEF DeleteRefused, Working, Steps
<1>13. CASE DeletedAll
  BY <1>13, WorksOn DEF DeletedAll, Working, Steps
<1>14. CASE RemoveRoot
  BY <1>14, WorksOn DEF RemoveRoot, Working, Steps
<1>15. CASE ConfirmRemoved
  BY <1>15, WorksOn DEF ConfirmRemoved, Working, Steps
<1> QED
  BY <1>1, <1>2, <1>3, <1>4, <1>5, <1>6, <1>7, <1>8, <1>9, <1>10, <1>11, <1>12, <1>13, <1>14,
     <1>15 DEF RemovingSource

(* The publication and the report. *)
LEMMA PublishingMaps ==
  ASSUME IInv, Publishing PROVE  Promised
<1> USE DEF MoveCopy, CopyOnDisk, ForgetControl, TypeOK
<1>1. CASE FinalAudit
  BY <1>1, WorksOn DEF FinalAudit, Working, Steps
<1>2. CASE Publish
  BY <1>2, WorksOn DEF Publish, Working, Steps
<1>3. CASE PublishRefused
  BY <1>3, StageOf, NextStageOf, EndsByGivingUp DEF PublishRefused, Working, Steps
<1>4. CASE SyncPublication
  BY <1>4, WorksOn DEF SyncPublication, Working, Steps
<1>5. CASE Report
  BY <1>5, StageOf, NextStageOf, Reports, ReportsDiscard DEF Report, Working, Steps
<1>6. CASE Acknowledge
  BY <1>6, StageOf, NextStageOf, IsAcknowledged DEF Acknowledge, Working, Steps
<1>7. CASE Retire
  BY <1>7, StageOf, NextStageOf, RetiresManifest, IsTheSame DEF Retire, Working, Steps
<1>8. CASE FinishRetirement
  BY <1>8, StageOf, NextStageOf, FinishesRetirement DEF FinishRetirement, Working, Steps
<1> QED
  BY <1>1, <1>2, <1>3, <1>4, <1>5, <1>6, <1>7, <1>8 DEF Publishing

(* The withdrawal of a manifest. *)
LEMMA WithdrawingMaps ==
  ASSUME IInv, Withdrawing PROVE  Promised
<1> USE DEF ForgetControl, TypeOK
<1>1. CASE WithdrawManifest
  BY <1>1, StageOf, NextStageOf, Withdraws DEF WithdrawManifest, Working, Steps
<1>2. CASE WithdrawControl
  BY <1>2, StageOf, NextStageOf, FinishesWithdrawal DEF WithdrawControl, Working, Steps
<1>3. CASE AfterWithdrawal
  BY <1>3, StageOf, NextStageOf, EndsByRefusing, WorksOn DEF AfterWithdrawal, Working, Steps
<1> QED
  BY <1>1, <1>2, <1>3 DEF Withdrawing

(* The conclusions of a recovery. *)
LEMMA DecidingMaps ==
  ASSUME IInv, Deciding PROVE  Promised
<1> USE DEF Examine, Resuming, CopyOnDisk, RemoveStagingFirst, AfterStaging, ForgetControl
<1>1. CASE FindNothing
  BY <1>1, StageOf, NextStageOf, FindsNothing DEF FindNothing, Working, Steps
<1>2. CASE FindDamage
  <2>1. pc = "load" /\ Stage = "looking" /\ Evidence = "husk"
    BY <1>2, StageOf DEF FindDamage, Evidence
  <2>2. command \in {"discover", "resume", "discard", "discover_discard"}
    BY <2>1 DEF TypeOK
  <2>3. CASE Scanning /\ Stop("kept") /\ UNCHANGED records
    BY <1>2, <2>1, <2>3, NextStageOf, ScansHusk DEF FindDamage
  <2>4. CASE ~Scanning /\ control = "torn" /\ Stop("other") /\ UNCHANGED records
    BY <1>2, <2>1, <2>2, <2>4, NextStageOf, RejectsHusk DEF FindDamage
  <2>5. CASE command = "resume" /\ control = "husk" /\ Stop("not_found") /\ ForgetControl
    BY <1>2, <2>1, <2>5, NextStageOf, CleansHusk DEF FindDamage
  <2>6. CASE command = "discard" /\ control = "husk" /\ Stop("not_found") /\ UNCHANGED records
    BY <1>2, <2>1, <2>6, NextStageOf, LeavesHusk DEF FindDamage
  <2> QED
    BY <1>2, <2>3, <2>4, <2>5, <2>6 DEF FindDamage
<1>3. CASE FindManifest
  BY <1>3, StageOf, NextStageOf, FindsManifest DEF FindManifest, Working, Steps
<1>4. CASE ConfirmCopied
  BY <1>4, StageOf, NextStageOf, ReportsConfirmation DEF ConfirmCopied, Working, Steps
<1>5. CASE ResumeMarkedInVain
  BY <1>5, WorksOn DEF ResumeMarkedInVain, Working, Steps
<1>6. CASE ResumeMovedRoot
  BY <1>6, WorksOn DEF ResumeMovedRoot, Working, Steps
<1>7. CASE ResumePublishedMove
  BY <1>7, WorksOn DEF ResumePublishedMove, Working, Steps
<1>8. CASE ResumeFinishable
  BY <1>8, WorksOn DEF ResumeFinishable, Working, Steps
<1>9. CASE ResumeMarked
  BY <1>9, WorksOn DEF ResumeMarked, Working, Steps
<1>10. CASE Restart
  BY <1>10, WorksOn DEF Restart, Working, Steps
<1>11. CASE ResumeNothing
  BY <1>11, StageOf, NextStageOf, EndsByGivingUp DEF ResumeNothing, Working, Steps
<1>12. CASE Discard
  BY <1>12, WorksOn DEF Discard, Working, Steps
<1>13. CASE DiscardNothing
  BY <1>13, StageOf, NextStageOf, EndsByGivingUp DEF DiscardNothing, Working, Steps
<1> QED
  BY <1>1, <1>2, <1>3, <1>4, <1>5, <1>6, <1>7, <1>8, <1>9, <1>10, <1>11, <1>12, <1>13 DEF Deciding

(* The removal of an unfinished copy. *)
LEMMA RemovingCopyMaps ==
  ASSUME IInv, RemovingCopy PROVE  Promised
<1> USE DEF MoveCopy, AfterStaging
<1>1. CASE HideStaging
  BY <1>1, WorksOn DEF HideStaging, Working, Steps
<1>2. CASE Quarantine
  BY <1>2, WorksOn DEF Quarantine, Working, Steps
<1>3. CASE Recheck
  BY <1>3, WorksOn DEF Recheck, Working, Steps
<1>4. CASE RemoveNothing
  BY <1>4, StageOf, NextStageOf, EndsByGivingUp DEF RemoveNothing, Working, Steps
<1>5. CASE RemoveStaging
  BY <1>5, WorksOn DEF RemoveStaging, Working, Steps
<1>6. CASE ClearProof
  BY <1>6, WorksOn DEF ClearProof, Working, Steps
<1>7. CASE ClearProofOnly
  BY <1>7, StageOf, NextStageOf, EndsByGivingUp DEF ClearProofOnly, Working, Steps
<1> QED
  BY <1>1, <1>2, <1>3, <1>4, <1>5, <1>6, <1>7 DEF RemovingCopy

(* What goes wrong. *)
LEMMA FailMaps ==
  ASSUME IInv, Fail PROVE  Promised
<1> USE DEF Interrupted, TypeOK
<1>1. CASE GiveUp
  BY <1>1, StageOf, NextStageOf, EndsByGivingUp, FailsRetirement DEF GiveUp, Working, Steps
<1>2. CASE FailWithdrawal
  BY <1>2, StageOf, NextStageOf, FailsWithdrawal DEF FailWithdrawal, Working, Steps
<1>3. CASE CleanNothing
  BY <1>3, StageOf, NextStageOf, CleansHusk DEF CleanNothing, Working, Steps
<1>4. CASE Interrupt
  BY <1>4, StageOf, NextStageOf, EndsByLoss DEF Interrupt, Working, Steps
<1>5. CASE PowerLoss
  BY <1>5, StageOf, NextStageOf, EndsByLoss, IsTheSame DEF PowerLoss, Working, Steps
<1> QED
  BY <1>1, <1>2, <1>3, <1>4, <1>5 DEF Fail

LEMMA StepMaps ==
  ASSUME IInv, [Next]_vars PROVE Promised
<1>1. CASE Meddle
  BY <1>1, IsTheSame DEF Meddle, Stage
<1>2. ASSUME NEW c \in Commands, Begin(c)
      PROVE  Promised
  BY <1>2, StageOf, NextStageOf, Begins DEF Begin, Working, Steps
<1>3. CASE UNCHANGED vars
  BY <1>3, IsTheSame DEF vars, Stage
<1> HIDE DEF IInv
<1>4. CASE Work
  BY <1>4, PlanningMaps, MovingMaps, CopyingMaps, RemovingSourceMaps, PublishingMaps,
     WithdrawingMaps, DecidingMaps, RemovingCopyMaps DEF Work
<1> QED
  BY <1>1, <1>2, <1>3, <1>4, FailMaps DEF Next

(* The helper keeps the promise that the object queue relies on: whatever  *)
(* happens inside, its evidence, its answers and the hand-over of the      *)
(* completion are those of FolderTransfer.                                 *)
THEOREM PromiseIsKept == Spec => FolderPromise
<1>1. Init => Promise!FolderInit
  <2> SUFFICES ASSUME Init PROVE Promise!FolderInit
    OBVIOUS
  <2>1. Stage = "off" /\ command = "none" /\ Evidence = "none" /\ answer = "none"
    BY StageOf DEF Init
  <2>2. ~Delivered
    BY DEF Init
  <2> QED
    BY <2>1, <2>2 DEF Promise!FolderInit, Promise!Untouched, TheFolder
<1>2. IInv /\ [Next]_vars => [Promise!FolderNext]_([i \in {1} |-> TheFolder])
  BY StepMaps DEF Promised, Mapped
<1> HIDE DEF IInv
<1> QED
  BY <1>1, <1>2, Invariance, PTL DEF Spec, FolderPromise, Promise!FolderSpec
==============================================================================
