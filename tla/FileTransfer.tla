----------------------------- MODULE FileTransfer ----------------------------
(***************************************************************************)
(* FileTransferCoordinator (src/fileops/file_transfer_coordinator.cpp):    *)
(* one copy or move of several files, item after item, each item a series  *)
(* of steps.  The coordinator writes the step into its journal, has a      *)
(* helper process carry it out, and writes the outcome into the journal.   *)
(*                                                                         *)
(* The helper may die before or after its system call, the reply may be    *)
(* lost, the journal may fail, the program may be stopped or killed, and   *)
(* other programs edit, remove and put files at the visible paths, all     *)
(* between any two steps.  A later run resumes from the journal alone.     *)
(***************************************************************************)
EXTENDS Naturals, Sequences, FiniteSets

CONSTANTS Count,        \* how many files one operation transfers
          MaxFaults,    \* bound: crashes, stops, lost replies, journal errors
          MaxMeddling   \* bound: changes made by other programs

ASSUME TransferAssumption ==
  Count \in Nat \ {0} /\ MaxFaults \in Nat /\ MaxMeddling \in Nat

VARIABLES
  fs,        \* what the paths of each item name
  far,       \* the items whose destination is on another file system
  journal,   \* the two generations of the journal file
  txn,       \* the worker's copy of the transaction
  pc,        \* the worker's next step
  call,      \* the request in flight: its answer, and what it is for
  report,    \* how the last run ended, unless it was resumed
  faults, meddling,
  taken,     \* what other programs removed (history)
  approved   \* what the user let be overwritten (history)

vars == <<fs, far, journal, txn, pc, call, report, faults, meddling, taken, approved>>

environment == <<far, meddling, taken>>

Items == 1..Count

-----------------------------------------------------------------------------
(* Files.  An object is known by its identity and by its revision; every   *)
(* edit gives it new data, and leaves it with the size it was planned or   *)
(* copied with (a source within two seconds of its old time, too), or not. *)
(* A temporary file is torn until its reservation marker is complete, and  *)
(* a part until it is a whole copy.                                        *)

Path == {"source", "staged", "temp", "backup", "destination", "copy"}

Object == [id : {"nothing", "src", "dst", "other", "torn", "marker", "part", "whole"},
           data : 0..MaxMeddling, size : {"same", "other"}]

File(id, data) == [id |-> id, data |-> data, size |-> "same"]
Nothing == File("nothing", 0)

Temporary == {"torn", "marker", "part", "whole"}

(* same_object_identity: what an edit does not change.  Foreign files are  *)
(* never edited, and told apart by their data.                             *)
SameObject(a, b) ==
  /\ a # Nothing /\ b # Nothing
  /\ a.id = b.id \/ {a.id, b.id} \subseteq Temporary
  /\ "other" \in {a.id, b.id} => a = b

-----------------------------------------------------------------------------
(* The transaction. *)

(* `to` is the path the item is delivered to; source, temp, auth and       *)
(* backup are snapshots: the source, the temporary or published file, the  *)
(* file the user let be overwritten, and where it was evacuated to.        *)
NewItem(kind, f, authorized) ==
  [strategy |-> IF kind = "copy" THEN "copy_stream" ELSE "move_undecided",
   at |-> "original", dest |-> "absent",
   over |-> IF authorized THEN "authorized" ELSE "none",
   token |-> FALSE, to |-> "destination",
   source |-> f["source"], temp |-> Nothing, proof |-> FALSE,
   auth |-> IF authorized THEN f["destination"] ELSE Nothing, backup |-> Nothing]

NewTransaction(kind, preapproved) ==
  [kind |-> kind, phase |-> "prepared", step |-> "none", cancelled |-> FALSE,
   items |-> [i \in Items |-> NewItem(kind, fs[i], i \in preapproved)]]

NoTxn == [kind |-> "none", phase |-> "none", step |-> "none", cancelled |-> FALSE,
          items |-> <<>>]

EmptyJournal == [current |-> NoTxn, previous |-> NoTxn]

SourceFinal(t, i) == t.items[i].at = IF t.kind = "copy" THEN "original" ELSE "removed"

Final(t, i) ==
  t.items[i].dest = "published" /\ t.items[i].over = "none" /\ SourceFinal(t, i)

(* The first item that is not final (completed_prefix, from one). *)
Unfinished(t) ==
  IF \A i \in Items : Final(t, i) THEN 0
  ELSE CHOOSE i \in Items : ~Final(t, i) /\ \A j \in 1..(i - 1) : Final(t, j)

WithItem(t, i, it) == [t EXCEPT !.items[i] = it]
ClearActive(t) == [t EXCEPT !.step = "none"]
ClearOverwrite(it) == [it EXCEPT !.auth = Nothing, !.backup = Nothing, !.over = "none"]
ClearProof(it) ==
  [it EXCEPT !.temp = Nothing, !.proof = FALSE, !.token = FALSE, !.dest = "absent"]

(* What follows a recorded success: a cleanup stays a cleanup. *)
Settled(t) ==
  IF t.phase = "cleanup" THEN ClearActive(t)
  ELSE [ClearActive(t) EXCEPT
          !.phase = IF Unfinished(t) = 0 THEN "completed" ELSE "processing"]

Streamed(it) == it.strategy \in {"copy_stream", "move_stream"}

-----------------------------------------------------------------------------
(* valid_file_transfer_transaction: what decoding accepts.                 *)

OverwriteIsValid(it) ==
  CASE it.over = "none" -> it.auth = Nothing /\ it.backup = Nothing
    [] it.over = "authorized" -> it.auth # Nothing /\ it.backup = Nothing
    [] it.over = "evacuated" -> it.auth # Nothing /\ it.backup = it.auth
    [] it.over = "evacuated_unexpected" -> it.auth # Nothing /\ it.backup # Nothing

LocationIsValid(kind, it) ==
  CASE it.strategy = "copy_stream" -> kind = "copy" /\ it.at = "original"
    [] it.strategy = "move_undecided" ->
         kind = "move" /\ it.at = "original" /\ it.dest = "absent"
    [] it.strategy = "move_atomic" ->
         kind = "move" /\ it.at = "removed" /\ it.dest = "published"
    [] it.strategy = "move_stream" ->
         /\ kind = "move"
         /\ it.dest = "absent" => it.at \in {"original", "staged"}
         /\ it.dest = "published" => it.at \in {"staged", "removed"}
         /\ it.dest \in {"temp_reserved", "content_ready"} => it.at = "staged"

ProofIsValid(it) ==
  /\ it.dest = "absent" => it.temp = Nothing /\ ~it.proof
  /\ it.dest # "absent" => it.temp # Nothing
  /\ it.strategy = "move_atomic" => ~it.proof /\ SameObject(it.source, it.temp)
  /\ it.dest = "temp_reserved" => ~it.proof
  /\ it.dest \in {"content_ready", "published"} /\ it.strategy # "move_atomic" => it.proof
  /\ Streamed(it) /\ it.dest # "absent" => it.token

(* The snapshots of a source and of its copy: their sizes are those of the *)
(* file that was planned.                                                  *)
SnapshotsMatch(it) ==
  /\ IF it.at = "original" /\ it.strategy # "move_stream" THEN it.source = File("src", 0)
     ELSE it.source.size = "same"
  /\ Streamed(it) /\ it.dest \in {"content_ready", "published"} => it.temp.size = "same"

Pristine(it) ==
  /\ it.strategy \in {"copy_stream", "move_undecided"}
  /\ it.at = "original" /\ it.dest = "absent" /\ ~it.token
  /\ it.over \in {"none", "authorized"}

StepIsValid(t) ==
  LET it == t.items[Unfinished(t)] IN
  CASE t.step = "none" -> TRUE
    [] t.step = "atomic_move" ->
         it.strategy = "move_undecided" /\ it.over \in {"none", "evacuated"}
    [] t.step = "stage_source" ->
         it.strategy = "move_stream" /\ it.at = "original" /\ it.dest = "absent"
    [] t.step = "reserve_temp" ->
         /\ Streamed(it) /\ it.dest = "absent" /\ it.token
         /\ t.kind = "copy" \/ it.at = "staged"
    [] t.step = "stream_temp" -> Streamed(it) /\ it.dest = "temp_reserved"
    [] t.step = "publish_temp" ->
         Streamed(it) /\ it.dest = "content_ready" /\ it.over \in {"none", "evacuated"}
    [] t.step = "delete_source" ->
         it.strategy = "move_stream" /\ it.at = "staged" /\ it.dest = "published"
    [] t.step = "restore_staged_source" ->
         /\ it.strategy = "move_stream" /\ it.at = "staged" /\ it.dest # "published"
         /\ t.phase = "cleanup"
    [] t.step = "cleanup_temp" ->
         /\ Streamed(it) /\ it.dest \in {"temp_reserved", "content_ready"}
         /\ t.phase = "cleanup"
    [] t.step = "evacuate_overwrite_destination" ->
         it.over = "authorized" /\ it.dest # "published"
    [] t.step = "restore_overwrite_destination" ->
         /\ it.over \in {"evacuated", "evacuated_unexpected"} /\ it.dest # "published"
         /\ t.phase = "cleanup"
    [] t.step = "cleanup_overwrite_destination" ->
         it.over = "evacuated" /\ it.dest = "published" /\ SourceFinal(t, Unfinished(t))

Valid(t) ==
  LET open == Unfinished(t) IN
  /\ t.cancelled => t.phase = "cleanup"
  /\ t.step # "none" => open # 0
  /\ StepIsValid(t)
  /\ t.phase \in {"prepared", "completed"} => t.step = "none"
  /\ \A i \in Items :
       /\ OverwriteIsValid(t.items[i])
       /\ LocationIsValid(t.kind, t.items[i])
       /\ ProofIsValid(t.items[i]) /\ SnapshotsMatch(t.items[i])
       /\ t.phase = "cleanup" /\ t.items[i].dest = "published" => Final(t, i)
       /\ Final(t, i) \/ i <= open \/ Pristine(t.items[i])
       /\ Final(t, i) => open = 0 \/ i < open
  /\ t.phase = "prepared" => \A i \in Items : Pristine(t.items[i])
  /\ t.phase = "completed" <=> open = 0

-----------------------------------------------------------------------------
(* Ends of a worker's step. *)

NoCall == [recovering |-> FALSE, verdict |-> "none", object |-> Nothing, asked |-> <<>>]

Quiet == UNCHANGED <<fs, environment, faults>>

EndRun(outcome) ==
  /\ pc' = "idle" /\ txn' = NoTxn /\ call' = NoCall
  /\ report' = outcome

Goto(next, c) == pc' = next /\ call' = c /\ UNCHANGED <<txn, report>>

(* persist: what cannot be encoded is not written, and the run ends. *)
RecordWith(t, next, c) ==
  \E record \in {t} :
    IF Valid(record)
    THEN /\ journal' = [current |-> record, previous |-> journal.current]
         /\ txn' = record /\ pc' = next /\ call' = c
         /\ UNCHANGED report
    ELSE UNCHANGED journal /\ EndRun("record_rejected")

Record(t, next) == RecordWith(t, next, NoCall)

(* preserve_uncertain, preserve_cleanup_uncertain: the step stays in the   *)
(* journal for a later run.                                                *)
Preserve ==
  /\ journal' = [current |-> txn, previous |-> journal.current]
  /\ EndRun("recovery_required")

EnterCleanup(t) == Record([ClearActive(t) EXCEPT !.phase = "cleanup"], "loop")

Fault == faults < MaxFaults /\ faults' = faults + 1

-----------------------------------------------------------------------------
(* Starting and resuming. *)

Init ==
  /\ \E present \in SUBSET Items :
       fs = [i \in Items |->
               [p \in Path |-> CASE p = "source" -> File("src", 0)
                                 [] p = "destination" /\ i \in present -> File("dst", 0)
                                 [] OTHER -> Nothing]]
  /\ far \in SUBSET Items
  /\ journal = EmptyJournal
  /\ txn = NoTxn /\ pc = "idle" /\ call = NoCall
  /\ report = "new"
  /\ faults = 0 /\ meddling = 0
  /\ taken = {} /\ approved = {}

(* A copy is streamed wherever it goes. *)
Start(kind, preapproved) ==
  /\ pc = "idle" /\ report = "new"
  /\ kind = "copy" => far = {}
  /\ \A i \in preapproved : fs[i]["destination"] # Nothing
  /\ Record(NewTransaction(kind, preapproved), "initial")
  /\ approved' = {<<i, fs[i]["destination"]>> : i \in preapproved}
  /\ Quiet

Resume ==
  /\ pc = "idle" /\ journal.current # NoTxn
  /\ txn' = journal.current
  /\ pc' = IF txn'.phase = "prepared" THEN "initial" ELSE "loop"
  /\ call' = NoCall /\ report' = "running"
  /\ UNCHANGED <<journal, approved>> /\ Quiet

(* A conflict is reported only while the source is the expected one. *)
Conflicts(i, from, expected) ==
  fs[i][from] = expected /\ fs[i][txn.items[i].to] # Nothing

Unapproved(i) == txn.items[i].auth = Nothing

(* request_initial_conflicts; the pending question is not in the journal.  *)
InitialConflicts ==
  /\ pc = "initial"
  /\ LET asked == {i \in Items : Unapproved(i) /\ Conflicts(i, "source", txn.items[i].source)} IN
       IF asked = {} THEN Goto("loop", NoCall) /\ UNCHANGED journal
       ELSE RecordWith(ClearActive(txn), "ask",
              [NoCall EXCEPT !.asked = [i \in asked |-> fs[i][txn.items[i].to]]])
  /\ Quiet /\ UNCHANGED approved

Asked == DOMAIN call.asked

DecideOverwrite ==
  /\ pc = "ask"
  /\ LET Authorized(i) ==
           [txn.items[i] EXCEPT !.auth = call.asked[i], !.over = "authorized"] IN
       Record([txn EXCEPT !.items =
                [i \in Items |-> IF i \in Asked THEN Authorized(i) ELSE txn.items[i]]], "loop")
  /\ approved' = approved \union {<<i, call.asked[i]>> : i \in Asked}
  /\ Quiet

(* assign_copy_destination: the first free name is always one path here. *)
DecideCreateCopy ==
  /\ pc = "ask"
  /\ LET Renamed(i) == [ClearOverwrite(txn.items[i]) EXCEPT !.to = "copy"] IN
       Record([txn EXCEPT !.items =
                [i \in Items |-> IF i \in Asked THEN Renamed(i) ELSE txn.items[i]]], "loop")
  /\ Quiet /\ UNCHANGED approved

DecideCancel ==
  /\ pc = "ask"
  /\ EnterCleanup([txn EXCEPT !.cancelled = TRUE])
  /\ Quiet /\ UNCHANGED approved

-----------------------------------------------------------------------------
(* The loop: which step comes next. *)

Current == Unfinished(txn)
Item == txn.items[Current]

RenameSteps == {"atomic_move", "stage_source", "publish_temp", "restore_staged_source",
                "evacuate_overwrite_destination", "restore_overwrite_destination"}
DeleteSteps == {"delete_source", "cleanup_temp", "cleanup_overwrite_destination"}

BeginProcessing ==
  /\ pc = "loop" /\ txn.phase = "prepared"
  /\ Record([txn EXCEPT !.phase = "processing"], "loop")
  /\ Quiet /\ UNCHANGED approved

Evacuates(it) ==
  /\ it.over = "authorized"
  /\ it.strategy = "move_undecided" \/ it.dest = "content_ready"

(* next_processing_step; no other state of an item may be met here. *)
NextStep ==
  CASE Evacuates(Item) -> "evacuate_overwrite_destination"
    [] ~Evacuates(Item) /\ Item.strategy = "move_undecided" -> "atomic_move"
    [] Item.strategy = "move_stream" /\ Item.at = "original" -> "stage_source"
    [] /\ Item.strategy = "copy_stream" \/ Item.at = "staged"
       /\ Item.dest \in {"absent", "temp_reserved"} -> "stream"
    [] ~Evacuates(Item) /\ Item.dest = "content_ready" -> "publish_temp"
    [] Item.dest = "published" /\ Item.at = "staged" -> "delete_source"
    [] Item.dest = "published" /\ SourceFinal(txn, Current) /\ Item.over = "evacuated" ->
         "cleanup_overwrite_destination"

Processing == pc = "loop" /\ txn.phase = "processing" /\ txn.step = "none"

BeginStep(step) == Record([txn EXCEPT !.step = step], "execute")

BeginRename ==
  /\ Processing
  /\ Item.over = "evacuated_unexpected" \/ NextStep \in RenameSteps
  /\ IF Item.over = "evacuated_unexpected" THEN EnterCleanup(txn) ELSE BeginStep(NextStep)
  /\ Quiet /\ UNCHANGED approved

(* refresh_staged_source_for_delete: only the file that was copied goes. *)
BeginDelete ==
  /\ Processing /\ Item.over # "evacuated_unexpected"
  /\ NextStep \in DeleteSteps
  /\ IF NextStep = "delete_source" /\ fs[Current]["staged"] # Item.source
     THEN Preserve
     ELSE BeginStep(NextStep)
  /\ Quiet /\ UNCHANGED approved

BeginStream ==
  /\ Processing /\ Item.over # "evacuated_unexpected"
  /\ NextStep = "stream"
  /\ IF Item.dest = "absent"
     THEN Record([WithItem(txn, Current, [Item EXCEPT !.token = TRUE])
                    EXCEPT !.step = "reserve_temp"], "reserve")
     ELSE Record([txn EXCEPT !.step = "stream_temp"], "stream")
  /\ Quiet /\ UNCHANGED approved

(* A step found in the journal is looked into before anything else. *)
RecoverStep ==
  /\ pc = "loop" /\ txn.step \in RenameSteps \union DeleteSteps
  /\ Goto("reconcile", [NoCall EXCEPT !.recovering = TRUE])
  /\ Quiet /\ UNCHANGED <<journal, approved>>

RecoverReservation ==
  /\ pc = "loop" /\ txn.step = "reserve_temp"
  /\ LET temp == fs[Current]["temp"] IN
       CASE temp = Nothing ->
              Record(ClearActive(WithItem(txn, Current, [Item EXCEPT !.token = FALSE])), "loop")
         [] temp.id = "marker" ->
              EnterCleanup(WithItem(txn, Current,
                             [Item EXCEPT !.temp = temp, !.dest = "temp_reserved"]))
         [] OTHER -> Preserve
  /\ Quiet /\ UNCHANGED approved

RecoverStream ==
  /\ pc = "loop" /\ txn.step = "stream_temp"
  /\ LET temp == fs[Current]["temp"] IN
       CASE temp = Nothing ->
              Record(ClearActive(WithItem(txn, Current, ClearProof(Item))), "loop")
         [] SameObject(temp, Item.temp) ->
              Record(WithItem(txn, Current, [Item EXCEPT !.temp = temp]), "stream")
         [] OTHER -> Preserve
  /\ Quiet /\ UNCHANGED approved

-----------------------------------------------------------------------------
(* Cleanup: the unfinished item is undone, last step first. *)

Cleaning == pc = "loop" /\ txn.phase = "cleanup" /\ txn.step = "none"

ReservationPending == Item.dest = "absent" /\ Item.token

TemporaryRecorded == Item.dest \in {"temp_reserved", "content_ready"}

CleanupReservation ==
  /\ Cleaning /\ ReservationPending
  /\ LET temp == fs[Current]["temp"] IN
       /\ temp # Nothing
       /\ IF temp.id = "marker"
          THEN Record(WithItem(txn, Current,
                        [Item EXCEPT !.temp = temp, !.dest = "temp_reserved"]), "loop")
          ELSE EndRun("recovery_required") /\ UNCHANGED journal
  /\ Quiet /\ UNCHANGED approved

CleanupTemporary ==
  /\ Cleaning /\ TemporaryRecorded
  /\ LET temp == fs[Current]["temp"] IN
       CASE temp = Nothing -> Record(WithItem(txn, Current, ClearProof(Item)), "loop")
         [] SameObject(temp, Item.temp) ->
              Record(WithItem(txn, Current,
                [Item EXCEPT !.temp = temp, !.proof = FALSE, !.dest = "temp_reserved"]), "discard")
         [] OTHER -> EndRun("recovery_required") /\ UNCHANGED journal
  /\ Quiet /\ UNCHANGED approved

DiscardTemporary ==
  /\ pc = "discard"
  /\ BeginStep("cleanup_temp")
  /\ Quiet /\ UNCHANGED approved

(* MUTANT of NoTemporary: a reservation that was never heard of is not looked for. *)
NoRecordedTemporary == ~TemporaryRecorded

NoTemporary ==
  /\ ~TemporaryRecorded
  /\ ReservationPending => fs[Current]["temp"] = Nothing

Evacuated == Item.over \in {"evacuated", "evacuated_unexpected"}

BeginRestore ==
  /\ Cleaning /\ NoTemporary
  /\ Item.at = "staged" \/ Evacuated
  /\ BeginStep(IF Item.at = "staged" THEN "restore_staged_source"
               ELSE "restore_overwrite_destination")
  /\ Quiet /\ UNCHANGED approved

(* MUTANT of Undone: the staged source is left where it is. *)
UndoneButStaged == Cleaning /\ NoTemporary /\ ~Evacuated

Undone == Cleaning /\ NoTemporary /\ Item.at # "staged" /\ ~Evacuated

(* remove_journal: generation after generation, so a removal that fails or *)
(* is cut short may leave either of them.                                  *)
Retire(outcome) ==
  \/ journal' = EmptyJournal /\ EndRun(outcome) /\ UNCHANGED faults
  \/ /\ Fault
     /\ journal' \in {[current |-> journal.current, previous |-> NoTxn],
                      [current |-> journal.previous, previous |-> NoTxn],
                      EmptyJournal}
     /\ EndRun("journal_error")

FinishSuccess ==
  /\ pc = "loop" /\ txn.phase = "completed"
  /\ Retire("success")
  /\ UNCHANGED <<fs, environment, approved>>

FinishCleanup ==
  /\ Undone
  /\ Retire(IF txn.cancelled THEN "cancelled" ELSE "partial_failure")
  /\ UNCHANGED <<fs, environment, approved>>

-----------------------------------------------------------------------------
(* The helper: one rename or one unlink.                                   *)

RenameOf(it, step) ==
  CASE step = "atomic_move" -> [from |-> "source", to |-> it.to, expected |-> it.source]
    [] step = "stage_source" -> [from |-> "source", to |-> "staged", expected |-> it.source]
    [] step = "publish_temp" -> [from |-> "temp", to |-> it.to, expected |-> it.temp]
    [] step = "restore_staged_source" ->
         [from |-> "staged", to |-> "source", expected |-> it.source]
    [] step = "evacuate_overwrite_destination" ->
         [from |-> it.to, to |-> "backup", expected |-> it.auth]
    [] step = "restore_overwrite_destination" ->
         [from |-> "backup", to |-> it.to, expected |-> it.backup]

DeleteOf(it, step) ==
  CASE step = "delete_source" -> [path |-> "staged", expected |-> it.source]
    [] step = "cleanup_temp" -> [path |-> "temp", expected |-> it.temp]
    [] step = "cleanup_overwrite_destination" -> [path |-> "backup", expected |-> it.backup]

(* MUTANT of RenameVerdict: the rename replaces what is in its way. *)
RenameReplacing(f, r) ==
  CASE f[r.from] # r.expected -> "changed"
    [] f[r.from] = r.expected /\ txn.step = "atomic_move" /\ Current \in far -> "cross_device"
    [] OTHER -> "committed"

(* rename_no_replace: another file system is reported before a conflict. *)
RenameVerdict(f, r) ==
  CASE f[r.from] # r.expected -> "changed"
    [] f[r.from] = r.expected /\ txn.step = "atomic_move" /\ Current \in far -> "cross_device"
    [] OTHER -> IF f[r.to] # Nothing THEN "conflict" ELSE "committed"

(* MUTANT of DeleteVerdict: the copy is not looked at again. *)
DeleteUnguarded(f, d) == IF f[d.path] = d.expected THEN "committed" ELSE "changed"

(* permanent_delete_remote: the source goes only while its copy is there. *)
DeleteVerdict(f, d) ==
  IF f[d.path] = d.expected /\ (txn.step = "delete_source" => f[Item.to] = Item.temp)
  THEN "committed" ELSE "changed"

(* The reply arrives; or the system call fails; or the reply is lost, with *)
(* or without the effect.                                                  *)
Replies(verdict, object, effect) ==
  /\ \/ /\ fs' = [fs EXCEPT ![Current] = effect]
        /\ Goto("answer", [NoCall EXCEPT !.verdict = verdict, !.object = object])
        /\ UNCHANGED faults
     \/ /\ Fault /\ UNCHANGED fs
        /\ Goto("answer", [NoCall EXCEPT !.verdict = "no_commit"])
     \/ /\ Fault
        /\ fs' \in {fs, [fs EXCEPT ![Current] = effect]}
        /\ Goto("reconcile", NoCall)
  /\ UNCHANGED <<environment, journal, approved>>

Moved(f, r) == [f EXCEPT ![r.to] = f[r.from], ![r.from] = Nothing]

ExecuteRename ==
  /\ pc = "execute" /\ txn.step \in RenameSteps
  /\ LET f == fs[Current]
         r == RenameOf(Item, txn.step)
         v == RenameVerdict(f, r) IN
       Replies(v, f[r.from], IF v = "committed" THEN Moved(f, r) ELSE f)

ExecuteDelete ==
  /\ pc = "execute" /\ txn.step \in DeleteSteps
  /\ LET f == fs[Current]
         d == DeleteOf(Item, txn.step)
         v == DeleteVerdict(f, d) IN
       Replies(v, Nothing, IF v = "committed" THEN [f EXCEPT ![d.path] = Nothing] ELSE f)

(* The file is written to while it is moved away and hashed. *)
EvacuateEdited ==
  /\ pc = "execute" /\ txn.step = "evacuate_overwrite_destination"
  /\ meddling < MaxMeddling /\ meddling' = meddling + 1
  /\ LET f == fs[Current]
         r == RenameOf(Item, txn.step)
         edited == File(f[r.from].id, meddling') IN
       /\ RenameVerdict(f, r) = "committed" /\ f[r.from].id # "other"
       /\ fs' = [fs EXCEPT ![Current] = [Moved(f, r) EXCEPT !["backup"] = edited]]
       /\ Goto("answer", [NoCall EXCEPT !.verdict = "unproven", !.object = edited])
  /\ UNCHANGED <<far, taken, journal, approved, faults>>

(* reconcile_rename: only looks at where the file is now. *)
ReconciledRename(f, r) ==
  LET exact == f[r.from] = r.expected
      equivalent == SameObject(f[r.from], r.expected)
      arrived == SameObject(f[r.to], r.expected) IN
    CASE arrived /\ txn.step = "evacuate_overwrite_destination" -> "unproven"
      [] arrived /\ txn.step # "evacuate_overwrite_destination" /\ ~equivalent -> "committed"
      [] ~arrived /\ exact /\ f[r.to] # Nothing -> "conflict"
      [] ~arrived /\ exact /\ f[r.to] = Nothing -> "no_commit"
      [] ~arrived /\ equivalent /\ ~exact -> "changed"
      [] OTHER -> "none"

(* reconcile_delete: absence proves nothing about the source. *)
ReconciledDelete(f, d) ==
  CASE f[d.path] = Nothing -> IF txn.step = "delete_source" THEN "none" ELSE "committed"
    [] SameObject(f[d.path], d.expected) -> "no_commit"
    [] OTHER -> "none"

(* After a lost reply an evacuation found committed has lost its proof and *)
(* its snapshot (merge_reconciliation); only a later run uses what it sees. *)
Usable(verdict) == verdict # "unproven" \/ call.recovering

Reconcile ==
  /\ pc = "reconcile"
  /\ LET f == fs[Current]
         renames == txn.step \in RenameSteps
         v == IF renames THEN ReconciledRename(f, RenameOf(Item, txn.step))
              ELSE ReconciledDelete(f, DeleteOf(Item, txn.step)) IN
       Goto("answer", [call EXCEPT
              !.verdict = IF Usable(v) THEN v ELSE "none",
              !.object = IF renames THEN f[RenameOf(Item, txn.step).to] ELSE Nothing])
  /\ Quiet /\ UNCHANGED <<journal, approved>>

-----------------------------------------------------------------------------
(* The answer is recorded. *)

(* apply_rename_success, apply_delete_success *)
Applied(it, step, object) ==
  CASE step = "atomic_move" ->
         [it EXCEPT !.strategy = "move_atomic", !.at = "removed",
                    !.dest = "published", !.temp = object]
    [] step = "stage_source" -> [it EXCEPT !.at = "staged", !.source = object]
    [] step = "publish_temp" -> [it EXCEPT !.dest = "published", !.temp = object]
    [] step = "restore_staged_source" -> [it EXCEPT !.at = "original", !.source = object]
    [] step = "evacuate_overwrite_destination" ->
         [it EXCEPT !.backup = object, !.over = "evacuated"]
    [] step \in {"restore_overwrite_destination", "cleanup_overwrite_destination"} ->
         ClearOverwrite(it)
    [] step = "cleanup_temp" -> ClearProof(it)
    [] step = "delete_source" -> [it EXCEPT !.at = "removed"]

NoCommit == call.verdict \in {"changed", "conflict", "no_commit"}

Answer == pc = "answer" /\ Quiet /\ UNCHANGED approved

RecordSuccess ==
  /\ Answer /\ call.verdict = "committed"
  /\ Record(Settled(WithItem(txn, Current, Applied(Item, txn.step, call.object))), "loop")

RecordUnexpected ==
  /\ Answer /\ call.verdict = "unproven"
  /\ EnterCleanup(WithItem(txn, Current,
       [Item EXCEPT !.backup = call.object, !.over = "evacuated_unexpected"]))

RecordCrossDevice ==
  /\ Answer /\ call.verdict = "cross_device"
  /\ Record(ClearActive(WithItem(txn, Current, [Item EXCEPT !.strategy = "move_stream"])), "loop")

(* The step did not happen: it is taken back, and the loop repeats it. *)
RepeatStep ==
  /\ Answer /\ call.recovering /\ NoCommit
  /\ Record(ClearActive(txn), "loop")

MayAsk ==
  call.verdict = "conflict" /\ txn.step \in {"atomic_move", "publish_temp"} /\ Unapproved(Current)

GivesUp ==
  /\ ~call.recovering /\ NoCommit
  /\ txn.phase # "cleanup" /\ txn.step \in RenameSteps

ConfirmConflict ==
  /\ Answer /\ GivesUp /\ MayAsk
  /\ Goto("confirm", NoCall) /\ UNCHANGED journal

FailStep ==
  /\ Answer /\ GivesUp /\ ~MayAsk
  /\ EnterCleanup(txn)

(* MUTANT of PreserveUncertain: it looks again until it is certain. *)
LookAgain ==
  /\ Answer
  /\ call.verdict = "none"
  /\ Goto("reconcile", call) /\ UNCHANGED journal

PreserveUncertain ==
  /\ Answer
  /\ \/ call.verdict = "none"
     \/ ~call.recovering /\ NoCommit /\ ~GivesUp
  /\ Preserve

(* request_overwrite *)
RequestOverwrite ==
  /\ pc = "confirm"
  /\ LET r == RenameOf(Item, txn.step) IN
       IF Conflicts(Current, r.from, r.expected)
       THEN RecordWith(ClearActive(txn), "ask",
              [NoCall EXCEPT !.asked = [i \in {Current} |-> fs[i][r.to]]])
       ELSE EnterCleanup(txn)
  /\ Quiet /\ UNCHANGED approved

-----------------------------------------------------------------------------
(* The streaming helper. *)

SourcePath(it) == IF it.at = "staged" THEN "staged" ELSE "source"

SourceIsExact == fs[Current][SourcePath(Item)] = Item.source

SetTemp(object) == fs' = [fs EXCEPT ![Current]["temp"] = object]

StreamReply(verdict, object) ==
  /\ Goto("streamed", [NoCall EXCEPT !.verdict = verdict, !.object = object])
  /\ UNCHANGED <<environment, approved>>

(* The temporary file is created, and the marker written into it, before   *)
(* the coordinator hears of it.                                            *)
MayReserve == SourceIsExact /\ fs[Current]["temp"] = Nothing

Reserve ==
  /\ pc = "reserve" /\ MayReserve
  /\ SetTemp(File("marker", 0))
  /\ Goto("commit", NoCall)
  /\ UNCHANGED <<environment, journal, faults, approved>>

ReserveRefused ==
  /\ pc = "reserve" /\ ~MayReserve
  /\ StreamReply("no_commit", Nothing)
  /\ UNCHANGED <<fs, journal, faults>>

(* The helper fails, and says so or not, or it is killed at its work. *)
ReserveFails ==
  /\ pc = "reserve" /\ Fault
  /\ \/ \E verdict \in {"no_commit", "none"} :
          UNCHANGED fs /\ StreamReply(verdict, Nothing)
     \/ /\ MayReserve
        /\ \E left \in {File("torn", 0), File("marker", 0)} : SetTemp(left)
        /\ StreamReply("none", Nothing)
  /\ UNCHANGED journal

Reservation ==
  [WithItem(txn, Current, [Item EXCEPT !.temp = fs[Current]["temp"], !.dest = "temp_reserved"])
     EXCEPT !.step = "stream_temp"]

CommitReservation ==
  /\ pc = "commit"
  /\ Record(Reservation, "stream")
  /\ Quiet /\ UNCHANGED approved

(* The journal reports an error, whatever it now holds: the helper is told *)
(* to give the reservation up, which it may not live to do.                *)
CommitFails ==
  /\ pc = "commit" /\ Fault
  /\ journal' \in {journal, [current |-> Reservation, previous |-> journal.current]}
  /\ \E left \in {Nothing, fs[Current]["temp"]} : SetTemp(left)
  /\ \E verdict \in {"no_commit", "none"} : StreamReply(verdict, Nothing)

TempIsExact == fs[Current]["temp"] = Item.temp

Stream ==
  /\ pc = "stream" /\ SourceIsExact /\ TempIsExact
  /\ LET whole == File("whole", Item.source.data) IN
       SetTemp(whole) /\ StreamReply("committed", whole)
  /\ UNCHANGED <<journal, faults>>

(* The source is verified again at the end of the stream. *)
StreamRefused ==
  /\ pc = "stream" /\ ~(SourceIsExact /\ TempIsExact)
  /\ \E left \in {fs[Current]["temp"], File("part", 0)} : SetTemp(left)
  /\ StreamReply("none", Nothing)
  /\ UNCHANGED <<journal, faults>>

(* A helper that never hears its acknowledgement removes the reservation;  *)
(* one that fails or is killed later leaves a part, or the whole copy.     *)
StreamFails ==
  /\ pc = "stream" /\ SourceIsExact /\ TempIsExact
  /\ Fault
  /\ \E left \in {File("part", 0), File("whole", Item.source.data), fs[Current]["temp"]}
                  \union (IF Item.temp.id = "marker" THEN {Nothing} ELSE {}) : SetTemp(left)
  /\ StreamReply("none", Nothing)
  /\ UNCHANGED journal

StreamAnswer == pc = "streamed" /\ Quiet /\ UNCHANGED approved

RecordStream ==
  /\ StreamAnswer /\ call.verdict = "committed"
  /\ Record(ClearActive(WithItem(txn, Current,
       [Item EXCEPT !.temp = call.object, !.proof = TRUE, !.dest = "content_ready"])), "loop")

FailStream ==
  /\ StreamAnswer
  /\ call.verdict = "no_commit" \/ (call.verdict = "none" /\ Item.dest # "absent")
  /\ EnterCleanup(txn)

PreserveStream ==
  /\ StreamAnswer /\ call.verdict = "none" /\ Item.dest = "absent"
  /\ Preserve

-----------------------------------------------------------------------------
(* The environment. *)

(* The program is killed or told to stop, or the journal cannot be written *)
(* any more: what the worker knew is lost, and so is its helper.           *)
Interrupt ==
  /\ pc # "idle" /\ Fault
  /\ EndRun("interrupted")
  /\ UNCHANGED <<fs, environment, journal, approved>>

Meddles ==
  /\ journal.current # NoTxn
  /\ meddling < MaxMeddling /\ meddling' = meddling + 1
  /\ UNCHANGED <<far, journal, txn, pc, call, report, faults, approved>>

Visible == {"source", "destination", "copy"}

(* An open descriptor follows a file to its hidden name.  The size of the  *)
(* file to be overwritten is compared only with all of its revision.       *)
Edit(i, p) ==
  /\ Meddles
  /\ fs[i][p].id \in {"src", "dst", "whole"} /\ p # "temp"
  /\ \E size \in {"same"} \union (IF fs[i][p].id = "dst" THEN {} ELSE {"other"}) :
       fs' = [fs EXCEPT ![i][p] = [id |-> @.id, data |-> meddling', size |-> size]]
  /\ UNCHANGED taken

Remove(i, p) ==
  /\ Meddles
  /\ p \in Visible /\ fs[i][p] # Nothing
  /\ fs' = [fs EXCEPT ![i][p] = Nothing]
  /\ taken' = taken \union {<<i, fs[i][p].id>>}

Create(i, p) ==
  /\ Meddles
  /\ p \in {"source", "destination"} /\ fs[i][p] = Nothing
  /\ fs' = [fs EXCEPT ![i][p] = File("other", meddling')]
  /\ UNCHANGED taken

OtherPrograms ==
  \E i \in Items, p \in Path : Edit(i, p) \/ Remove(i, p) \/ Create(i, p)

Coordinator ==
  \/ InitialConflicts \/ BeginProcessing
  \/ BeginRename \/ BeginDelete \/ BeginStream
  \/ RecoverStep \/ RecoverReservation \/ RecoverStream
  \/ CleanupReservation \/ CleanupTemporary \/ DiscardTemporary \/ BeginRestore
  \/ FinishSuccess \/ FinishCleanup
  \/ RecordSuccess \/ RecordUnexpected \/ RecordCrossDevice \/ RepeatStep
  \/ ConfirmConflict \/ FailStep \/ PreserveUncertain \/ RequestOverwrite
  \/ CommitReservation \/ CommitFails
  \/ RecordStream \/ FailStream \/ PreserveStream

Helper ==
  \/ ExecuteRename \/ EvacuateEdited \/ ExecuteDelete \/ Reconcile
  \/ Reserve \/ ReserveRefused \/ ReserveFails
  \/ Stream \/ StreamRefused \/ StreamFails

User ==
  \/ \E kind \in {"copy", "move"}, preapproved \in SUBSET Items : Start(kind, preapproved)
  \/ Resume
  \/ DecideOverwrite \/ DecideCreateCopy \/ DecideCancel

Next == Coordinator \/ Helper \/ User \/ Interrupt \/ OtherPrograms

(* A worker thread and its helper, once started, keep running. *)
Spec == Init /\ [][Next]_vars /\ WF_vars(Coordinator \/ Helper)

-----------------------------------------------------------------------------
(* Properties *)

ItemType ==
  [strategy : {"copy_stream", "move_undecided", "move_stream", "move_atomic"},
   at : {"original", "staged", "removed"},
   dest : {"absent", "temp_reserved", "content_ready", "published"},
   over : {"none", "authorized", "evacuated", "evacuated_unexpected"},
   token : BOOLEAN, to : {"destination", "copy"},
   source : Object, temp : Object, proof : BOOLEAN, auth : Object, backup : Object]

Steps == RenameSteps \union DeleteSteps \union {"none", "reserve_temp", "stream_temp"}

TransactionType ==
  [kind : {"copy", "move"}, phase : {"prepared", "processing", "cleanup", "completed"},
   step : Steps, cancelled : BOOLEAN, items : [Items -> ItemType]]
    \union {NoTxn}

Outcomes == {"success", "partial_failure", "cancelled", "recovery_required",
             "journal_error", "interrupted", "record_rejected"}

Verdicts == {"none", "committed", "unproven", "cross_device", "changed", "conflict", "no_commit"}

(* Every variable has its type. *)
TypeOK ==
  /\ fs \in [Items -> [Path -> Object]]
  /\ far \subseteq Items
  /\ journal \in [current : TransactionType, previous : TransactionType]
  /\ txn \in TransactionType
  /\ pc \in {"idle", "initial", "ask", "loop", "execute", "reconcile", "answer", "confirm",
             "discard", "reserve", "commit", "stream", "streamed"}
  /\ call.recovering \in BOOLEAN /\ call.verdict \in Verdicts /\ call.object \in Object
  /\ Asked \subseteq Items /\ \A i \in Asked : call.asked[i] \in Object
  /\ report \in Outcomes \union {"new", "running"}
  /\ faults \in 0..MaxFaults /\ meddling \in 0..MaxMeddling
  /\ taken \subseteq (Items \X {"src", "dst", "other", "whole"})
  /\ approved \subseteq (Items \X Object)

Holds(f, id) == \E p \in Path : f[p].id = id
Taken(i, id) == <<i, id>> \in taken
TakenNow(i) == \E p \in Path : Remove(i, p)

(* The new file is where the item is delivered, unless others took it. *)
Delivered(f, t, i) ==
  \E id \in {"src", "whole"} : f[i][t.items[i].to].id = id \/ Taken(i, id)

(* A step of the program makes a source file disappear only while, at the  *)
(* path it was to be moved to, there is a whole copy, made from this very  *)
(* revision of it (or edited since): no interleaving of edits, lost        *)
(* replies, crashes and recoveries loses the last copy of a moved file     *)
(* (delete_source and its guard, transfer_source_commit).                  *)
SourceOutlivesItsCopying ==
  [][\A i \in Items :
       Holds(fs[i], "src") /\ ~Holds(fs'[i], "src") /\ ~TakenNow(i) =>
         LET copy == fs[i][txn.items[i].to] IN
           /\ copy.id = "whole"
           /\ \A p \in Path : fs[i][p].id = "src" => copy.data >= fs[i][p].data]_vars

(* A step of the program makes a file that was at the destination          *)
(* disappear only in exactly the revision the user let be overwritten, and *)
(* only after the new file has been delivered in its place; a stranger's   *)
(* file that came to the same path later is never overwritten unasked.     *)
OverwrittenOnlyAsApproved ==
  [][\A i \in Items : \A id \in {"dst", "other"} :
       Holds(fs[i], id) /\ ~Holds(fs'[i], id) /\ ~TakenNow(i) =>
         /\ \E p \in Path : fs[i][p].id = id /\ <<i, fs[i][p]>> \in approved
         /\ Delivered(fs, txn, i)]_vars

(* The renames whose result is recorded with the size that is found.       *)
Adopting == {"stage_source", "publish_temp", "restore_staged_source"}

(* Files under the operation's hidden names (.staged, .temp, .backup)      *)
(* never outlive its journal, however the runs ended: nothing of the       *)
(* user's is left where no recovery would look for it.  And no run ends    *)
(* because its coordinator's own validation refuses the record it is about *)
(* to write (valid_file_transfer_transaction), with one exception: another *)
(* program changed a file, and the answer on record is of one of the       *)
(* renames that take the file over as they find it.  The journal then      *)
(* still holds that step.                                                  *)
NothingHiddenIsForgotten ==
  /\ TypeOK
  /\ journal.current = NoTxn =>
       \A i \in Items : \A p \in {"staged", "temp", "backup"} : fs[i][p] = Nothing
  /\ pc = "idle" /\ report = "record_rejected" =>
       meddling # 0 /\ journal.current.step \in Adopting

(* What a finished run did with an item: all of it, or nothing. *)
Complete(f, t, i) ==
  /\ Delivered(f, t, i)
  /\ t.kind = "copy" => f[i]["source"].id = "src" \/ Taken(i, "src")
  /\ t.kind = "move" => \A p \in Path : f[i][p].id = "src" => p = t.items[i].to
  /\ \A p \in {"staged", "temp", "backup"} : f[i][p] = Nothing

AsBefore(f, t, i) ==
  /\ f[i]["source"].id = "src" \/ Taken(i, "src")
  /\ ~Holds(f[i], "whole") /\ ~Taken(i, "whole")
  /\ \A p \in {"staged", "temp", "backup"} : f[i][p] = Nothing

(* A run that reports success has delivered every file; one that reports   *)
(* a partial failure or a cancellation has delivered some and has put all  *)
(* others back, an overwritten file included: no item is left halfway.     *)
OutcomeIsTrue ==
  [][report' # report =>
       /\ report' = "success" => \A i \in Items : Complete(fs, txn, i)
       /\ report' \in {"partial_failure", "cancelled"} =>
            \A i \in Items : Complete(fs, txn, i) \/ AsBefore(fs, txn, i)]_vars

(* A run ends, or waits for the user: the loop never repeats a step        *)
(* forever, whatever the helpers answer.                                   *)
RunEnds == (pc # "idle") ~> (pc \in {"idle", "ask"})
==============================================================================
