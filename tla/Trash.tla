-------------------------------- MODULE Trash --------------------------------
(***************************************************************************)
(* TrashCoordinator (src/fileops/trash_coordinator.cpp), the POSIX branches*)
(* on a local volume: files and folders are moved into a hidden container  *)
(* next to them, a manifest says what the container holds, and they are    *)
(* later restored from it, to where they were or to another folder, or     *)
(* purged.  A move that fails is rolled back, or cancelled so that what    *)
(* was stored stays; a restore that fails is rolled back; a purge is not.  *)
(*                                                                         *)
(* Journal, helper and environment are those of BatchRename.  One life of  *)
(* a container is modelled: it is filled once, then its manifest is        *)
(* restored or purged, more than once if a restore was rolled back.        *)
(***************************************************************************)
EXTENDS Naturals, FiniteSets

CONSTANTS Count,         \* how many things are moved to the trash
          Folders,       \* those of them that are folders, of one file each
          MaxRequests,   \* bound: restores and purges
          MaxFaults,     \* bound: crashes, stops, lost replies, journal errors
          MaxMeddling    \* bound: changes made by other programs

ASSUME TrashAssumption ==
  /\ Count \in Nat \ {0} /\ Folders \subseteq 1..Count
  /\ MaxRequests \in Nat /\ MaxFaults \in Nat /\ MaxMeddling \in Nat

VARIABLES
  dir,       \* what each name names
  inside,    \* the folders whose file is still in them
  container, \* "absent", "present", or "littered" by a foreign entry
  manifest,  \* what the published manifest lists, with snapshots
  journal,   \* the two generations of the journal file
  txn,       \* the worker's copy of the transaction
  pc,        \* the worker's next step
  call,      \* the request in flight, and its answer
  report,    \* how the last run ended
  requests, faults, meddling,
  taken,     \* the items that other programs removed (history)
  disturbed  \* whether other programs changed or removed an item (history)

disk == <<dir, inside, container, manifest>>
others == <<meddling, taken, disturbed>>
vars == <<disk, journal, txn, pc, call, report, requests, faults, others>>

Items == 1..Count

(* An item is where it was, in the folder it is restored to, or stored.    *)
Name == [is : {"old", "other", "stored"}, of : Items]

At(where, i) == [is |-> where, of |-> i]
Stored(i) == At("stored", i)

(* The content changes with an edit; the change time of the inode, which   *)
(* is part of a revision, also with a rename (file_identity.hpp, revision).*)
(* An edit leaves the size that was planned (payload_bytes), or another.   *)
File(id) == [id |-> id, rev |-> 0, change |-> 0, size |-> "same"]
Nothing == File(0)

(* snapshot_matches_object: a folder is recognised by its identity.        *)
Matches(object, expected) ==
  object = expected \/ (object.id = expected.id /\ object.id \in Folders)

-----------------------------------------------------------------------------
(* The transaction. *)

NoTxn == [phase |-> "none", step |-> "none", index |-> 0, target |-> "old", items |-> <<>>]

NewItem == [at |-> "source", snapshot |-> Nothing, cursor |-> 0]

(* prepare_trash_transaction *)
NewTransaction ==
  [NoTxn EXCEPT !.phase = "prepared",
                !.items = [i \in Items |-> [NewItem EXCEPT !.snapshot = File(i)]]]

(* run_restore_new, run_purge_new: the manifest's items, all stored        *)
FromManifest(phase, target) ==
  [NoTxn EXCEPT !.phase = phase, !.target = target,
                !.items = [i \in DOMAIN manifest |->
                             [at |-> "stored", snapshot |-> manifest[i], cursor |-> 0]]]

EmptyJournal == [current |-> NoTxn, previous |-> NoTxn]

Located(t, where) == {i \in DOMAIN t.items : t.items[i].at = where}

(* publish_manifest, and the subset that a cancelled move publishes        *)
Listing(t) == [i \in Located(t, "stored") |-> t.items[i].snapshot]

First(S) == CHOOSE i \in S : \A j \in S : i <= j
Last(S) == CHOOSE i \in S : \A j \in S : j <= i

(* clear_active *)
ClearActive(t) == [t EXCEPT !.step = "none", !.index = 0]

(* A folder's file is purged before the folder.                            *)
EntryIsNext(t) == t.step = "purge" /\ t.index \in Folders /\ t.items[t.index].cursor = 0

(* apply_success *)
Applied(t, object) ==
  [ClearActive(t) EXCEPT !.items[t.index] =
     CASE EntryIsNext(t) -> [@ EXCEPT !.cursor = 1]
       [] t.step = "store" -> [@ EXCEPT !.at = "stored", !.snapshot = object]
       [] t.step = "restore" -> [@ EXCEPT !.at = "source", !.snapshot = object]
       [] t.step = "purge" /\ ~EntryIsNext(t) -> [@ EXCEPT !.at = "deleted", !.cursor = 0]]

(* location_allowed *)
Allowed(phase) ==
  CASE phase \in {"prepared", "rollback_container_remove_intent",
                  "cancel_container_remove_intent", "manifest_remove_intent",
                  "restore_container_remove_intent", "restored"} -> {"source"}
    [] phase \in {"moving", "rollback", "cancel_remaining_intent", "restoring",
                  "restore_rollback"} -> {"source", "stored"}
    [] phase \in {"manifest_intent", "published", "restore_prepared", "purge_prepared"} ->
         {"stored"}
    [] phase = "purging" -> {"stored", "deleted"}
    [] phase \in {"purge_manifest_remove_intent", "purge_container_remove_intent",
                  "purged"} -> {"deleted"}

(* active_step_matches *)
StepMatchesPhase(t) ==
  CASE t.step = "none" -> t.index = 0
    [] t.step = "store" ->
         /\ t.phase \in {"moving", "cancel_remaining_intent", "restore_rollback"}
         /\ t.index \in Located(t, "source")
    [] t.step = "restore" ->
         /\ t.phase \in {"rollback", "cancel_remaining_intent", "restoring"}
         /\ t.index \in Located(t, "stored")
    [] t.step = "purge" -> t.phase = "purging" /\ t.index \in Located(t, "stored")

(* valid_trash_transaction, valid_directory_payload: what is encoded       *)
Valid(t) ==
  /\ StepMatchesPhase(t)
  /\ \A i \in DOMAIN t.items :
       /\ t.items[i].at \in Allowed(t.phase)
       /\ t.items[i].cursor # 0 => t.items[i].at = "stored"
       /\ t.items[i].snapshot.size = "same"
       /\ \A j \in DOMAIN t.items : i # j => t.items[i].snapshot.id # t.items[j].snapshot.id

-----------------------------------------------------------------------------
(* Ends of a worker's step. *)

NoCall == [recovering |-> FALSE, verdict |-> "none", object |-> Nothing]

Quiet == UNCHANGED <<requests, others>>

EndRun(outcome) ==
  /\ pc' = "idle" /\ txn' = NoTxn /\ call' = NoCall
  /\ report' = outcome

Goto(next, c) == pc' = next /\ call' = c /\ UNCHANGED <<journal, txn, report>>

Proceed(next) == Goto(next, NoCall)

(* persist; what cannot be encoded is not written, and ends the run.       *)
Writes(t) ==
  journal' = IF Valid(t) THEN [current |-> t, previous |-> journal.current] ELSE journal

Record(t, next) ==
  \E record \in {t} :
    /\ Writes(record)
    /\ IF Valid(record)
       THEN txn' = record /\ pc' = next /\ call' = NoCall /\ report' = "running"
       ELSE EndRun("record_rejected")

RecordAndEnd(t, outcome) ==
  \E record \in {t} :
    Writes(record) /\ EndRun(IF Valid(record) THEN outcome ELSE "record_rejected")

Fault == faults < MaxFaults /\ faults' = faults + 1
Steady == UNCHANGED faults

-----------------------------------------------------------------------------
(* Starting, resuming, cancelling. *)

Init ==
  /\ dir = [n \in Name |-> IF n.is = "old" THEN File(n.of) ELSE Nothing]
  /\ inside = Folders
  /\ container = "absent" /\ manifest = <<>>
  /\ journal = EmptyJournal
  /\ txn = NoTxn /\ pc = "idle" /\ call = NoCall
  /\ report = "new"
  /\ requests = 0 /\ faults = 0 /\ meddling = 0
  /\ taken = {} /\ disturbed = FALSE

(* start, restore, purge: refused while any journal is there               *)
Free == pc = "idle" /\ journal.current = NoTxn

(* run_new *)
Start ==
  /\ Free /\ report = "new"
  /\ Record(NewTransaction, "loop")
  /\ UNCHANGED disk /\ Quiet /\ Steady

Request ==
  /\ Free /\ manifest # <<>>
  /\ requests < MaxRequests /\ requests' = requests + 1
  /\ UNCHANGED <<disk, others>> /\ Steady

(* run_restore_new, to the folder the items came from or to another one    *)
Restore ==
  /\ Request
  /\ \E target \in {"old", "other"} : Record(FromManifest("restore_prepared", target), "loop")

(* run_purge_new *)
Purge == Request /\ Record(FromManifest("purge_prepared", "old"), "loop")

Kind(t) ==
  CASE t.phase \in {"restore_prepared", "restoring", "restore_rollback", "manifest_remove_intent",
                    "restore_container_remove_intent", "restored"} -> "restore"
    [] t.phase \in {"purge_prepared", "purging", "purge_manifest_remove_intent",
                    "purge_container_remove_intent", "purged"} -> "purge"
    [] OTHER -> "move"

Cancelling(t) == t.phase \in {"cancel_remaining_intent", "cancel_container_remove_intent"}

(* A transaction read from the journal is taken up with its active step,   *)
(* which is asked about before anything else.                              *)
TakeUp(t) ==
  /\ txn' = t /\ report' = "running"
  /\ IF t.step = "none" THEN pc' = "loop" /\ call' = NoCall
     ELSE pc' = "reconcile" /\ call' = [NoCall EXCEPT !.recovering = TRUE]

(* resume, run_resume *)
Resume ==
  /\ pc = "idle" /\ journal.current # NoTxn
  /\ TakeUp(journal.current)
  /\ UNCHANGED <<disk, journal>> /\ Quiet /\ Steady

(* cancel_remaining, run_resume: only a move, and from any of its phases   *)
CancelRemaining ==
  /\ pc = "idle" /\ journal.current # NoTxn
  /\ Kind(journal.current) = "move" /\ ~Cancelling(journal.current)
  /\ LET cancelled == [journal.current EXCEPT !.phase = "cancel_remaining_intent"]
     IN Writes(cancelled)
        /\ IF Valid(cancelled) THEN TakeUp(cancelled) ELSE EndRun("record_rejected")
  /\ UNCHANGED disk /\ Quiet /\ Steady

-----------------------------------------------------------------------------
(* The loops of continue_transaction, rollback, continue_restore,          *)
(* restore_rollback and continue_purge: which step comes next.             *)

InPhase(phase) == pc = "loop" /\ txn.phase = phase

Sources == Located(txn, "source")
StoredItems == Located(txn, "stored")

Begin(step, i) ==
  /\ Record([txn EXCEPT !.step = step, !.index = i], "execute")
  /\ UNCHANGED disk /\ Quiet /\ Steady

Enter(phase) ==
  /\ Record([txn EXCEPT !.phase = phase], "loop")
  /\ UNCHANGED disk /\ Quiet /\ Steady

(* The phases that only announce the next one. *)
Announce ==
  \/ pc = "made" /\ Enter("moving")
  \/ InPhase("restore_prepared") /\ Enter("restoring")
  \/ InPhase("purge_prepared") /\ Enter("purging")

StoreNext ==
  \/ InPhase("moving") /\ Sources # {} /\ Begin("store", First(Sources))
  \/ InPhase("restore_rollback") /\ Sources # {} /\ Begin("store", Last(Sources))

RestoreNext ==
  \/ InPhase("rollback") /\ StoredItems # {} /\ Begin("restore", Last(StoredItems))
  \/ InPhase("restoring") /\ StoredItems # {} /\ Begin("restore", First(StoredItems))

PurgeNext == InPhase("purging") /\ StoredItems # {} /\ Begin("purge", First(StoredItems))

(* Every item is where it should be. *)
AllMoved ==
  \/ InPhase("moving") /\ Sources = {} /\ Enter("manifest_intent")
  \/ InPhase("rollback") /\ StoredItems = {} /\ Enter("rollback_container_remove_intent")
  \/ InPhase("restoring") /\ StoredItems = {} /\ Enter("manifest_remove_intent")
  \/ InPhase("purging") /\ StoredItems = {} /\ Enter("purge_manifest_remove_intent")

-----------------------------------------------------------------------------
(* The container. *)

Empty == \A i \in Items : dir[Stored(i)] = Nothing

(* abort_untouched_preparation: nothing was begun, and nothing else is     *)
(* recorded, so the journal may go.                                        *)
Untouched ==
  /\ journal.current = txn /\ journal.previous \in {NoTxn, txn}
  /\ manifest = <<>> /\ container = "absent"
  /\ \A i \in Items : dir[At("old", i)] = txn.items[i].snapshot

(* ensure_container: made; found from an earlier run, and empty; not made. *)
(* What became of a lost request is seen by looking.                       *)
MakeContainer ==
  /\ InPhase("prepared")
  /\ \/ /\ container # "littered" /\ container' = "present"
        /\ Proceed("made") /\ Steady
     \/ /\ container = "littered" /\ UNCHANGED container
        /\ EndRun("recovery_required") /\ UNCHANGED journal /\ Steady
     \/ /\ container = "absent" /\ UNCHANGED container /\ Fault
        /\ IF Untouched THEN EndRun("unavailable") /\ journal' = EmptyJournal
           ELSE EndRun("recovery_required") /\ UNCHANGED journal
     \/ /\ container = "absent" /\ UNCHANGED container /\ Fault
        /\ EndRun("recovery_required") /\ UNCHANGED journal
  /\ UNCHANGED <<dir, inside, manifest>> /\ Quiet

(* A rollback tolerates what other programs left in the container.         *)
Tolerant == txn.phase = "rollback_container_remove_intent"

Retiring ==
  txn.phase \in {"rollback_container_remove_intent", "cancel_container_remove_intent",
                 "restore_container_remove_intent", "purge_container_remove_intent"}

ToRetire ==
  \/ pc = "loop" /\ Retiring /\ ~Cancelling(txn)
  \/ pc = "emptied"

(* MUTANT of RetireContainer: a container that is gone is an error.        *)
RetireContainerOnce ==
  /\ ToRetire
  /\ IF container = "present" /\ Empty
     THEN container' = "absent" /\ Proceed("retired") /\ UNCHANGED <<dir, inside, manifest>>
     ELSE EndRun("recovery_required") /\ UNCHANGED <<disk, journal>>
  /\ Quiet /\ Steady

(* retire_container: only an empty one is removed; one that is gone is     *)
(* removed; a removal whose answer was lost is looked at.                  *)
RetireContainer ==
  /\ ToRetire
  /\ \/ /\ container = "absent" \/ (container = "present" /\ Empty)
        /\ container' = "absent"
        /\ Proceed("retired") /\ Steady
     \/ /\ container = "littered" \/ (container = "present" /\ ~Empty)
        /\ UNCHANGED container
        /\ IF Tolerant THEN Proceed("retired") ELSE EndRun("recovery_required") /\ UNCHANGED journal
        /\ Steady
     \/ /\ container = "present" /\ UNCHANGED container /\ Fault
        /\ IF Tolerant THEN Proceed("retired") ELSE EndRun("recovery_required") /\ UNCHANGED journal
  /\ UNCHANGED <<dir, inside, manifest>> /\ Quiet

-----------------------------------------------------------------------------
(* The manifest, and the end of the journal. *)

Publish(listing, next) ==
  /\ manifest' = listing
  /\ Proceed(next)
  /\ UNCHANGED <<dir, inside, container>> /\ Quiet /\ Steady

(* publish_manifest, in manifest_intent; published: once more              *)
PublishManifest ==
  \/ InPhase("manifest_intent") /\ Publish(Listing(txn), "listed")
  \/ InPhase("published") /\ Publish(Listing(txn), "finished")

RecordPublished == pc = "listed" /\ Enter("published")

(* MUTANT of RemoveManifest: the manifest is kept.                        *)
RemoveManifestNever ==
  /\ pc = "loop" /\ txn.phase \in {"manifest_remove_intent", "purge_manifest_remove_intent"}
  /\ Publish(manifest, "unlisted")

(* remove_owned_manifests *)
RemoveManifest ==
  /\ pc = "loop" /\ txn.phase \in {"manifest_remove_intent", "purge_manifest_remove_intent"}
  /\ Publish(<<>>, "unlisted")

RecordUnlisted ==
  /\ pc = "unlisted"
  /\ Enter(IF txn.phase = "manifest_remove_intent" THEN "restore_container_remove_intent"
           ELSE "purge_container_remove_intent")

RecordRetired ==
  /\ pc = "retired" /\ Kind(txn) # "move"
  /\ Enter(IF Kind(txn) = "restore" THEN "restored" ELSE "purged")

(* The run's journal is removed, and then the run ends. *)
Outcome ==
  CASE pc = "finished" /\ ~Cancelling(txn) -> "stored"
    [] pc = "finished" /\ Cancelling(txn) -> "cancelled"
    [] pc = "retired" /\ Kind(txn) = "move" /\ Cancelling(txn) -> "cancelled"
    [] pc = "retired" /\ Kind(txn) = "move" /\ ~Cancelling(txn) -> "rolled_back"
    [] InPhase("restore_rollback") /\ Sources = {} -> "rolled_back"
    [] InPhase("restored") -> "restored"
    [] InPhase("purged") -> "purged"
    [] OTHER -> "none"

(* remove_journal; a crash within it leaves either generation.             *)
Finish ==
  /\ Outcome # "none"
  /\ \/ journal' = EmptyJournal /\ EndRun(Outcome) /\ Steady
     \/ /\ Fault
        /\ journal' \in {[current |-> journal.current, previous |-> NoTxn],
                         [current |-> journal.previous, previous |-> NoTxn],
                         EmptyJournal}
        /\ EndRun("journal_error")
  /\ UNCHANGED disk /\ Quiet

-----------------------------------------------------------------------------
(* continue_cancel_remaining: what is stored stays, what is not is let go. *)

(* The recorded plan is what the disk shows, item by item; without a       *)
(* container only the source can be looked at.                             *)
AsRecorded(i) ==
  LET it == txn.items[i]
      source == dir[At("old", i)]
      stored == dir[Stored(i)]
  IN CASE it.at = "source" /\ container = "absent" -> source = it.snapshot
       [] it.at = "source" /\ container # "absent" ->
            stored = Nothing /\ Matches(source, it.snapshot)
       [] it.at = "stored" ->
            stored.id = it.snapshot.id /\ stored.rev = it.snapshot.rev

(* Items that were let go are no longer looked at.                         *)
VerifyPlan ==
  /\ pc = "loop" /\ Cancelling(txn)
  /\ IF txn.phase = "cancel_container_remove_intent" \/ \A i \in Items : AsRecorded(i)
     THEN Record(ClearActive(txn), "verified")
     ELSE EndRun("recovery_required") /\ UNCHANGED journal
  /\ UNCHANGED disk /\ Quiet /\ Steady

(* MUTANT of PublishRemaining: all that was chosen is listed.              *)
PublishAll ==
  /\ pc = "verified"
  /\ Publish([i \in Items |-> txn.items[i].snapshot],
             IF StoredItems = {} THEN "nothing" ELSE "finished")

(* update_cancel_metadata: the manifest lists what is stored, if anything. *)
PublishRemaining ==
  /\ pc = "verified"
  /\ Publish(Listing(txn), IF StoredItems = {} THEN "nothing" ELSE "finished")

RecordNothing ==
  /\ pc = "nothing"
  /\ Record([txn EXCEPT !.phase = "cancel_container_remove_intent"], "emptied")
  /\ UNCHANGED disk /\ Quiet /\ Steady

-----------------------------------------------------------------------------
(* The helper: rename_request, purge_request. *)

From ==
  IF txn.items[txn.index].at = "source" THEN At(txn.target, txn.index) ELSE Stored(txn.index)

To == IF txn.step = "store" THEN Stored(txn.index) ELSE At(txn.target, txn.index)

Expected == txn.items[txn.index].snapshot

(* execute_rename, rename_no_replace; execute_delete, of the next entry of *)
(* a folder or of the item itself                                          *)
Verdict ==
  CASE EntryIsNext(txn) -> IF txn.index \in inside THEN "committed" ELSE "not_found"
    [] ~EntryIsNext(txn) /\ dir[From] = Nothing -> "not_found"
    [] ~EntryIsNext(txn) /\ Matches(dir[From], Expected)
         /\ (txn.step = "purge" \/ dir[To] = Nothing) -> "committed"
    [] OTHER -> "no_commit"

(* A rename is a change of the inode. *)
Renamed == [dir[From] EXCEPT !.change = @ + 1]

Effect ==
  IF Verdict # "committed" THEN UNCHANGED <<dir, inside>>
  ELSE CASE EntryIsNext(txn) -> inside' = inside \ {txn.index} /\ UNCHANGED dir
         [] txn.step = "purge" /\ ~EntryIsNext(txn) ->
              dir' = [dir EXCEPT ![From] = Nothing] /\ UNCHANGED inside
         [] txn.step # "purge" ->
              dir' = [dir EXCEPT ![To] = Renamed, ![From] = Nothing] /\ UNCHANGED inside

(* The reply arrives; or the system call fails; or the reply is lost, with *)
(* or without the effect, and the service asks what became of the item.    *)
Execute ==
  /\ pc = "execute"
  /\ \/ /\ Effect
        /\ Goto("answer", [NoCall EXCEPT !.verdict = Verdict, !.object = Renamed])
        /\ Steady
     \/ /\ Fault /\ UNCHANGED <<dir, inside>>
        /\ Goto("answer", [NoCall EXCEPT !.verdict = "no_commit"])
     \/ /\ Fault
        /\ Effect \/ UNCHANGED <<dir, inside>>
        /\ Goto("reconcile", NoCall)
  /\ UNCHANGED <<container, manifest>> /\ Quiet

(* reconcile_delete: what is gone from a container was purged.             *)
ReconciledPurge ==
  IF EntryIsNext(txn) THEN IF txn.index \in inside THEN "no_commit" ELSE "committed"
  ELSE IF dir[From] = Nothing THEN "committed" ELSE "no_commit"

(* reconcile_rename *)
ReconciledRename ==
  CASE dir[To].id = Expected.id -> "committed"
    [] dir[To].id # Expected.id /\ dir[From].id = Expected.id -> "no_commit"
    [] OTHER -> "none"

Reconcile ==
  /\ pc = "reconcile"
  /\ \/ /\ Goto("answer", IF txn.step = "purge" THEN [call EXCEPT !.verdict = ReconciledPurge]
                          ELSE [call EXCEPT !.verdict = ReconciledRename, !.object = dir[To]])
        /\ Steady
     \/ Goto("answer", [call EXCEPT !.verdict = "none"]) /\ Fault
  /\ UNCHANGED disk /\ Quiet

-----------------------------------------------------------------------------
(* execute_step, reconcile_active: the answer is recorded.                 *)

Answer(verdicts) ==
  pc = "answer" /\ call.verdict \in verdicts /\ UNCHANGED disk /\ Quiet

RecordSuccess ==
  /\ Answer({"committed"})
  /\ Record(Applied(txn, call.object), "loop")
  /\ Steady

LookAgain ==
  /\ Answer({"not_found"})
  /\ Goto("reconcile", call)
  /\ Steady

(* A move or a restore that fails turns around. *)
TurnedAround(t) ==
  [ClearActive(t) EXCEPT
     !.phase = CASE t.phase = "moving" /\ t.step = "store" -> "rollback"
                 [] t.phase = "restoring" /\ t.step = "restore" -> "restore_rollback"
                 [] OTHER -> t.phase]

(* In a recovery a step that did not happen is taken again; in a run it    *)
(* ends it, unless the operation turns around.                             *)
NotCommitted ==
  /\ Answer({"no_commit"})
  /\ LET next == TurnedAround(txn)
     IN IF call.recovering \/ next.phase # txn.phase THEN Record(next, "loop")
        ELSE RecordAndEnd(next, "recovery_required")
  /\ Steady

(* A stop request takes a missing item for a step that did not happen.     *)
StopAtMissing ==
  /\ Answer({"not_found"}) /\ Fault
  /\ RecordAndEnd(TurnedAround(txn), "interrupted")

Uncertain ==
  /\ Answer({"none"})
  /\ RecordAndEnd(txn, "recovery_required")
  /\ Steady

-----------------------------------------------------------------------------
(* The environment. *)

(* A stop request, an error of the journal, or the death of the program.   *)
Interrupt ==
  /\ pc # "idle" /\ Fault
  /\ EndRun("interrupted")
  /\ UNCHANGED <<disk, journal>> /\ Quiet

Meddles ==
  /\ meddling < MaxMeddling /\ meddling' = meddling + 1
  /\ UNCHANGED <<inside, manifest, journal, txn, pc, call, report, requests, faults>>

(* An open descriptor follows a file into the container. *)
Edit(n) ==
  /\ Meddles
  /\ dir[n].id \in Items \ Folders
  /\ \E size \in {"same", "other"} :
       dir' = [dir EXCEPT ![n].rev = meddling', ![n].change = @ + 1, ![n].size = size]
  /\ disturbed' = TRUE /\ UNCHANGED <<container, taken>>

Remove(n) ==
  /\ Meddles
  /\ n.is # "stored" /\ dir[n] # Nothing
  /\ dir' = [dir EXCEPT ![n] = Nothing]
  /\ taken' = taken \union {dir[n].id}
  /\ disturbed' = (disturbed \/ dir[n].id \in Items)
  /\ UNCHANGED container

Create(n) ==
  /\ Meddles
  /\ n.is # "stored" /\ dir[n] = Nothing
  /\ dir' = [dir EXCEPT ![n] = File(Count + meddling')]
  /\ UNCHANGED <<container, taken, disturbed>>

(* A file manager leaves a file of its own in the container, or cleans up. *)
Litter ==
  /\ Meddles
  /\ container # "absent"
  /\ container' = IF container = "present" THEN "littered" ELSE "present"
  /\ UNCHANGED <<dir, taken, disturbed>>

OtherPrograms == Litter \/ \E n \in Name : Edit(n) \/ Remove(n) \/ Create(n)

Coordinator ==
  \/ Announce \/ MakeContainer \/ StoreNext \/ RestoreNext \/ PurgeNext \/ AllMoved
  \/ RetireContainer \/ PublishManifest \/ RecordPublished \/ RemoveManifest
  \/ RecordUnlisted \/ RecordRetired \/ Finish
  \/ VerifyPlan \/ PublishRemaining \/ RecordNothing
  \/ RecordSuccess \/ LookAgain \/ NotCommitted \/ StopAtMissing \/ Uncertain

Helper == Execute \/ Reconcile

User == Start \/ Restore \/ Purge \/ Resume \/ CancelRemaining

Next == Coordinator \/ Helper \/ User \/ Interrupt \/ OtherPrograms

(* A worker thread and its helper, once started, keep running; the user    *)
(* takes the recovery that is offered (F5) whenever there is one.          *)
Spec == Init /\ [][Next]_vars /\ WF_vars(Coordinator \/ Helper) /\ WF_vars(Resume)

-----------------------------------------------------------------------------
(* Properties *)

Phase ==
  {"prepared", "moving", "rollback", "rollback_container_remove_intent",
   "cancel_remaining_intent", "cancel_container_remove_intent", "manifest_intent", "published",
   "restore_prepared", "restoring", "restore_rollback", "manifest_remove_intent",
   "restore_container_remove_intent", "restored", "purge_prepared", "purging",
   "purge_manifest_remove_intent", "purge_container_remove_intent", "purged"}

IsObject(object) ==
  /\ object.id \in 0..(Count + MaxMeddling)
  /\ object.rev \in 0..MaxMeddling /\ object.change \in Nat
  /\ object.size \in {"same", "other"}

IsTransaction(t) ==
  \/ t = NoTxn
  \/ /\ t.phase \in Phase /\ t.step \in {"none", "store", "restore", "purge"}
     /\ t.index \in {0} \union DOMAIN t.items /\ t.target \in {"old", "other"}
     /\ \A i \in DOMAIN t.items :
          /\ i \in Items /\ t.items[i].at \in {"source", "stored", "deleted"}
          /\ IsObject(t.items[i].snapshot) /\ t.items[i].cursor \in {0, 1}

(* Every variable has its type. *)
TypeOK ==
  /\ \A n \in Name : IsObject(dir[n])
  /\ inside \subseteq Folders /\ container \in {"absent", "present", "littered"}
  /\ DOMAIN manifest \subseteq Items /\ \A i \in DOMAIN manifest : IsObject(manifest[i])
  /\ IsTransaction(journal.current) /\ IsTransaction(journal.previous) /\ IsTransaction(txn)
  /\ pc \in {"idle", "loop", "made", "execute", "reconcile", "answer", "listed", "finished",
             "unlisted", "verified", "nothing", "emptied", "retired"}
  /\ call.verdict \in {"none", "committed", "no_commit", "not_found"}
  /\ report \in {"new", "running", "stored", "cancelled", "rolled_back", "restored", "purged",
                 "unavailable", "recovery_required", "journal_error", "interrupted",
                 "record_rejected"}
  /\ requests \in 0..MaxRequests /\ faults \in 0..MaxFaults /\ meddling \in 0..MaxMeddling

InTrash == {i \in Items : dir[Stored(i)] # Nothing}

Knows(t, i) ==
  /\ i \in DOMAIN t.items
  /\ t.items[i].at = "stored" \/ (t.step = "store" /\ t.index = i)

(* The container is hidden from every view, so a file in it that nothing   *)
(* lists would be lost: at any instant, also between the record of a step, *)
(* the step and the record of its outcome, and between the manifest and    *)
(* the journal, what is in the container is in the manifest or in the      *)
(* journal; and when no operation is pending the manifest lists exactly    *)
(* what is there, so that nothing listed is missing either                 *)
(* (continue_transaction, continue_cancel_remaining, continue_restore).    *)
(* And no run ends because its coordinator's own validation refuses the    *)
(* record it is about to write (valid_trash_transaction), which every      *)
(* recovery would meet again, with one exception: another program changed  *)
(* an item, and the answer on record is of a rename, which takes the file  *)
(* over as it finds it.  The journal then still holds that step.           *)
TrashIsListed ==
  /\ TypeOK
  /\ \A i \in InTrash : i \in DOMAIN manifest \/ Knows(journal.current, i)
  /\ journal.current = NoTxn => InTrash = DOMAIN manifest
  /\ report = "record_rejected" =>
       disturbed /\ journal.current.step \in {"store", "restore"}

Here(where, i) == dir[At(where, i)].id = i \/ i \in taken

(* What a run reports is true of every item, whatever it took to get       *)
(* there: all stored and listed; what was cancelled either listed or back; *)
(* all back; all restored, in one folder; or nothing left in the trash     *)
(* (TrashResult).  A rolled back restore leaves the trash as it was.       *)
OutcomeIsTrue ==
  CASE report = "stored" -> InTrash = Items /\ DOMAIN manifest = Items
    [] report = "cancelled" ->
         InTrash = DOMAIN manifest /\ \A i \in Items \ InTrash : Here("old", i)
    [] report = "unavailable" -> InTrash = {} /\ \A i \in Items : Here("old", i)
    [] report = "rolled_back" ->
         \/ InTrash = {} /\ \A i \in Items : Here("old", i)
         \/ InTrash = DOMAIN manifest /\ requests > 0
    [] report = "restored" ->
         /\ InTrash = {} /\ manifest = <<>>
         /\ \A i \in Items : Here("old", i) \/ Here("other", i)
    [] report = "purged" -> InTrash = {} /\ manifest = <<>> /\ container = "absent"
    [] OTHER -> TRUE

Pending == journal.current # NoTxn

Obstructed ==
  \/ container = "littered"
  \/ \E n \in Name : n.is # "stored" /\ dir[n] # Nothing /\ dir[n].id # n.of

(* The journal holds a snapshot of a stored file that the file has outlived *)
(* (restore_rollback does not publish the manifest again).  No run recovers *)
(* from it.                                                                 *)
Outlived ==
  \E i \in Located(journal.current, "stored") :
    dir[Stored(i)].id = i /\ ~Matches(dir[Stored(i)], journal.current.items[i].snapshot)

(* An operation that was interrupted, wherever and however often, is ended *)
(* by resuming it, unless other programs changed the items, stand in the   *)
(* way, or the journal was given an outlived snapshot (run_resume).        *)
RecoversUnlessOutlived == Pending ~> (~Pending \/ disturbed \/ Obstructed \/ Outlived)
==============================================================================
