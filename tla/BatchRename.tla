----------------------------- MODULE BatchRename -----------------------------
(***************************************************************************)
(* BatchRenameCoordinator (src/fileops/batch_rename_coordinator.cpp):      *)
(* several files of one directory get new names, swaps and cycles of names *)
(* included.  Every file is first moved to a hidden name (evacuated), then *)
(* every file is moved to its new name (published); until the last file is *)
(* hidden a failure moves them all back, from then on only forward.        *)
(*                                                                         *)
(* Each move is written into the journal, made by a helper process, and    *)
(* its outcome is written into the journal.  Helpers and replies may be    *)
(* lost, the program may be stopped or killed, a journal may come back     *)
(* half removed, and other programs edit, remove and create files, all     *)
(* between any two steps.                                                  *)
(***************************************************************************)
EXTENDS Naturals, FiniteSets

CONSTANTS Count,        \* how many files one operation renames
          MaxFaults,    \* bound: crashes, stops, lost replies, journal errors
          MaxMeddling   \* bound: changes made by other programs

ASSUME BatchAssumption ==
  Count \in Nat \ {0} /\ MaxFaults \in Nat /\ MaxMeddling \in Nat

VARIABLES
  dir,       \* what each name of the directory names
  new,       \* the new name of each file (the plan)
  journal,   \* the two generations of the journal file
  txn,       \* the worker's copy of the transaction
  pc,        \* the worker's next step
  call,      \* the request in flight, and its answer
  report,    \* how the last run ended
  faults, meddling,
  taken,     \* the files that other programs removed (history)
  went       \* which way files were moved out of hiding (history)

vars == <<dir, new, journal, txn, pc, call, report, faults, meddling, taken, went>>

Items == 1..Count

-----------------------------------------------------------------------------
(* Names and files.  A file is known by its identity and its revision;     *)
(* a stranger's file has an identity above Count.                          *)

Old(i) == [is |-> "old", of |-> i]
Fresh(i) == [is |-> "fresh", of |-> i]
Hidden(i) == [is |-> "hidden", of |-> i]

Name == [is : {"old", "fresh", "hidden"}, of : Items]
Visible == {n \in Name : n.is # "hidden"}

Object == [id : 0..(Count + MaxMeddling), rev : 0..MaxMeddling]

File(id, rev) == [id |-> id, rev |-> rev]
Nothing == File(0, 0)

(* plan_batch_rename: no two files get one name, and none a name that an   *)
(* unselected file has; rows that change nothing are left out.             *)
Plans ==
  {p \in [Items -> Visible] :
     \A i \in Items :
       /\ p[i] \in {Old(j) : j \in Items \ {i}} \union {Fresh(i)}
       /\ \A j \in Items \ {i} : p[i] # p[j]}

-----------------------------------------------------------------------------
(* The transaction: where every file is, its snapshot, and the step that   *)
(* is under way.                                                           *)

NoTxn == [phase |-> "none", step |-> "none", index |-> 0, items |-> <<>>]

(* prepare_batch_transaction: the snapshots are those of the listing. *)
NewTransaction ==
  [phase |-> "prepared", step |-> "none", index |-> 0,
   items |-> [i \in Items |-> [at |-> "source", snapshot |-> File(i, 0)]]]

EmptyJournal == [current |-> NoTxn, previous |-> NoTxn]

At(t, where) == {i \in Items : t.items[i].at = where}

First(S) == CHOOSE i \in S : \A j \in S : i <= j
Last(S) == CHOOSE i \in S : \A j \in S : j <= i

NameAt(i, where) ==
  CASE where = "source" -> Old(i)
    [] where = "temporary" -> Hidden(i)
    [] where = "destination" -> new[i]

(* step_location *)
Target(step) ==
  CASE step = "evacuate" -> "temporary"
    [] step = "rollback" -> "source"
    [] step = "publish" -> "destination"

ClearActive(t) == [t EXCEPT !.step = "none", !.index = 0]

(* MUTANT of Applied: a file moved back opens the operation again. *)
AppliedReopening(t, object) ==
  [ClearActive(t) EXCEPT
     !.items[t.index] = [at |-> Target(t.step), snapshot |-> object],
     !.phase = IF t.step = "rollback" THEN "evacuating" ELSE t.phase]

(* apply_success *)
Applied(t, object) ==
  [ClearActive(t) EXCEPT !.items[t.index] = [at |-> Target(t.step), snapshot |-> object]]

(* valid_batch_transaction: what encoding and decoding accept. *)
Allowed(phase) ==
  CASE phase = "prepared" -> {"source"}
    [] phase \in {"evacuating", "rollback"} -> {"source", "temporary"}
    [] phase = "commit_intent" -> {"temporary"}
    [] phase = "publishing" -> {"temporary", "destination"}

StepMatchesPhase(t) ==
  CASE t.step = "none" -> t.index = 0
    [] t.step = "evacuate" -> t.phase = "evacuating" /\ t.index \in At(t, "source")
    [] t.step = "rollback" -> t.phase = "rollback" /\ t.index \in At(t, "temporary")
    [] t.step = "publish" -> t.phase = "publishing" /\ t.index \in At(t, "temporary")

Valid(t) ==
  /\ StepMatchesPhase(t)
  /\ \A i \in Items : t.items[i].at \in Allowed(t.phase)
  /\ \A i, j \in Items : i # j => t.items[i].snapshot.id # t.items[j].snapshot.id

-----------------------------------------------------------------------------
(* Ends of a worker's step. *)

NoCall == [recovering |-> FALSE, verdict |-> "none", object |-> Nothing]

Quiet == UNCHANGED <<dir, new, meddling, taken, went>>

EndRun(outcome) ==
  /\ pc' = "idle" /\ txn' = NoTxn /\ call' = NoCall
  /\ report' = outcome

Goto(next, c) == pc' = next /\ call' = c /\ UNCHANGED <<journal, txn, report>>

(* persist; what cannot be encoded is not written, and ends the run. *)
Writes(t) ==
  journal' = IF Valid(t) THEN [current |-> t, previous |-> journal.current] ELSE journal

Record(t, next) ==
  \E record \in {t} :
    /\ Writes(record)
    /\ IF Valid(record)
       THEN txn' = record /\ pc' = next /\ call' = NoCall /\ UNCHANGED report
       ELSE EndRun("record_rejected")

RecordAndEnd(t, outcome) ==
  \E record \in {t} :
    Writes(record) /\ EndRun(IF Valid(record) THEN outcome ELSE "record_rejected")

Fault == faults < MaxFaults /\ faults' = faults + 1

-----------------------------------------------------------------------------
(* Starting and resuming. *)

Init ==
  /\ dir = [n \in Name |-> IF n.is = "old" THEN File(n.of, 0) ELSE Nothing]
  /\ new \in Plans
  /\ journal = EmptyJournal
  /\ txn = NoTxn /\ pc = "idle" /\ call = NoCall
  /\ report = "new"
  /\ faults = 0 /\ meddling = 0
  /\ taken = {} /\ went = {}

(* start, run_new *)
Start ==
  /\ pc = "idle" /\ report = "new" /\ journal.current = NoTxn
  /\ Record(NewTransaction, "loop")
  /\ Quiet /\ UNCHANGED faults

(* resume, run_resume: a step found in the journal is looked into first. *)
Resume ==
  /\ pc = "idle" /\ journal.current # NoTxn
  /\ txn' = journal.current
  /\ IF txn'.step = "none" THEN pc' = "loop" /\ call' = NoCall
     ELSE pc' = "reconcile" /\ call' = [NoCall EXCEPT !.recovering = TRUE]
  /\ Quiet /\ UNCHANGED <<journal, report, faults>>

-----------------------------------------------------------------------------
(* continue_transaction: which step comes next. *)

InPhase(phase) == pc = "loop" /\ txn.phase = phase

(* execute_step: the step is in the journal before the helper is asked. *)
Begin(step, i) ==
  /\ Record([txn EXCEPT !.step = step, !.index = i], "execute")
  /\ Quiet /\ UNCHANGED faults

Enter(phase) ==
  /\ Record([txn EXCEPT !.phase = phase], "loop")
  /\ Quiet /\ UNCHANGED faults

BeginEvacuating == InPhase("prepared") /\ Enter("evacuating")

Evacuate ==
  /\ InPhase("evacuating")
  /\ At(txn, "source") # {}
  /\ Begin("evacuate", First(At(txn, "source")))

(* The decision: every file is hidden. *)
IntendCommit == InPhase("evacuating") /\ At(txn, "source") = {} /\ Enter("commit_intent")

BeginPublishing == InPhase("commit_intent") /\ Enter("publishing")

Publish ==
  /\ InPhase("publishing")
  /\ At(txn, "temporary") # {}
  /\ Begin("publish", First(At(txn, "temporary")))

(* rollback: the last hidden file first. *)
RollBack ==
  /\ InPhase("rollback")
  /\ At(txn, "temporary") # {}
  /\ Begin("rollback", Last(At(txn, "temporary")))

(* remove_journal goes generation after generation: one that fails or is   *)
(* cut short may leave either of them.                                     *)
Retire(outcome) ==
  /\ \/ journal' = EmptyJournal /\ EndRun(outcome) /\ UNCHANGED faults
     \/ /\ Fault
        /\ journal' \in {[current |-> journal.current, previous |-> NoTxn],
                         [current |-> journal.previous, previous |-> NoTxn],
                         EmptyJournal}
        /\ EndRun("journal_error")
  /\ Quiet

(* MUTANT of Succeed: the last file is not waited for. *)
SucceedEarly == InPhase("publishing") /\ At(txn, "destination") # {} /\ Retire("success")

Succeed == InPhase("publishing") /\ At(txn, "temporary") = {} /\ Retire("success")

FinishRollback == InPhase("rollback") /\ At(txn, "temporary") = {} /\ Retire("rolled_back")

-----------------------------------------------------------------------------
(* The helper. *)

From == NameAt(txn.index, txn.items[txn.index].at)
To == NameAt(txn.index, Target(txn.step))
Expected == txn.items[txn.index].snapshot

(* MUTANT of RenameVerdict: what is in the way is replaced. *)
RenameReplacing ==
  CASE dir[From] = Nothing -> "not_found"
    [] dir[From] = Expected -> "committed"
    [] OTHER -> "no_commit"

(* execute_rename, rename_no_replace *)
RenameVerdict ==
  CASE dir[From] = Nothing -> "not_found"
    [] dir[From] = Expected /\ dir[To] = Nothing -> "committed"
    [] OTHER -> "no_commit"

Rename ==
  /\ dir' = [dir EXCEPT ![To] = dir[From], ![From] = Nothing]
  /\ went' = went \union ({txn.step} \ {"evacuate"})

Effect ==
  IF RenameVerdict = "committed" THEN Rename ELSE UNCHANGED <<dir, went>>

(* The reply arrives; or the system call fails; or the reply is lost, with *)
(* or without the effect, and the service asks what became of the file.    *)
Execute ==
  /\ pc = "execute"
  /\ \/ /\ Effect
        /\ Goto("answer", [NoCall EXCEPT !.verdict = RenameVerdict, !.object = dir[From]])
        /\ UNCHANGED faults
     \/ /\ Fault /\ UNCHANGED <<dir, went>>
        /\ Goto("answer", [NoCall EXCEPT !.verdict = "no_commit"])
     \/ /\ Fault
        /\ Effect \/ UNCHANGED <<dir, went>>
        /\ Goto("reconcile", NoCall)
  /\ UNCHANGED <<new, meddling, taken>>

(* reconcile_rename, by identity alone: a file seen at its target arrived, *)
(* a file seen at its origin did not leave, and no sight of it proves      *)
(* nothing.                                                                *)
Reconciled ==
  CASE dir[To].id = Expected.id -> "committed"
    [] dir[To].id # Expected.id /\ dir[From].id = Expected.id -> "no_commit"
    [] OTHER -> "none"

Reconcile ==
  /\ pc = "reconcile"
  /\ \/ /\ Goto("answer", [call EXCEPT !.verdict = Reconciled, !.object = dir[To]])
        /\ UNCHANGED faults
     \/ Goto("answer", [call EXCEPT !.verdict = "none"]) /\ Fault
  /\ Quiet

-----------------------------------------------------------------------------
(* The answer is recorded. *)

Answer(verdict) == pc = "answer" /\ call.verdict = verdict /\ Quiet

RecordSuccess ==
  /\ Answer("committed")
  /\ Record(Applied(txn, call.object), "loop")
  /\ UNCHANGED faults

(* A source that is missing may have been moved by an earlier attempt. *)
LookAgain ==
  /\ Answer("not_found")
  /\ Goto("reconcile", call)
  /\ UNCHANGED faults

(* MUTANT of NotCommitted: a recovered step is left in the journal. *)
NotCommittedKept ==
  /\ Answer("no_commit")
  /\ CASE call.recovering -> RecordAndEnd(txn, "recovery_required")
       [] ~call.recovering /\ txn.step = "evacuate" ->
            Record([ClearActive(txn) EXCEPT !.phase = "rollback"], "loop")
       [] OTHER -> RecordAndEnd(ClearActive(txn), "recovery_required")
  /\ UNCHANGED faults

(* A recovered step that did not happen is repeated; a fresh evacuation    *)
(* that did not happen turns the operation around; a fresh publication or  *)
(* rollback that did not happen is left to a later run.                    *)
NotCommitted ==
  /\ Answer("no_commit")
  /\ CASE call.recovering -> Record(ClearActive(txn), "loop")
       [] ~call.recovering /\ txn.step = "evacuate" ->
            Record([ClearActive(txn) EXCEPT !.phase = "rollback"], "loop")
       [] OTHER -> RecordAndEnd(ClearActive(txn), "recovery_required")
  /\ UNCHANGED faults

(* A stop request takes a missing source for a step that did not happen.   *)
StopAtMissing ==
  /\ Answer("not_found") /\ Fault
  /\ RecordAndEnd(IF txn.step = "evacuate"
                  THEN [ClearActive(txn) EXCEPT !.phase = "rollback"]
                  ELSE ClearActive(txn), "interrupted")

Uncertain ==
  /\ Answer("none")
  /\ RecordAndEnd(txn, "recovery_required")
  /\ UNCHANGED faults

-----------------------------------------------------------------------------
(* The environment. *)

(* The program is killed or told to stop, or the journal cannot be written *)
(* any more: what the worker knew is lost, and so is its helper.           *)
Interrupt ==
  /\ pc # "idle" /\ Fault
  /\ EndRun("interrupted")
  /\ Quiet /\ UNCHANGED journal

Meddles ==
  /\ meddling < MaxMeddling /\ meddling' = meddling + 1
  /\ UNCHANGED <<new, journal, txn, pc, call, report, faults, went>>

(* An open descriptor follows a file to its hidden name. *)
Edit(n) ==
  /\ Meddles
  /\ dir[n].id \in Items
  /\ dir' = [dir EXCEPT ![n].rev = meddling']
  /\ UNCHANGED taken

Remove(n) ==
  /\ Meddles
  /\ dir[n] # Nothing
  /\ dir' = [dir EXCEPT ![n] = Nothing]
  /\ taken' = taken \union {dir[n].id}

Create(n) ==
  /\ Meddles
  /\ dir[n] = Nothing
  /\ dir' = [dir EXCEPT ![n] = File(Count + meddling', 0)]
  /\ UNCHANGED taken

OtherPrograms ==
  \/ \E n \in Name : Edit(n)
  \/ \E n \in Visible : Remove(n) \/ Create(n)

Coordinator ==
  \/ BeginEvacuating \/ Evacuate \/ IntendCommit \/ BeginPublishing \/ Publish
  \/ RollBack \/ Succeed \/ FinishRollback
  \/ RecordSuccess \/ LookAgain \/ NotCommitted \/ StopAtMissing \/ Uncertain

Helper == Execute \/ Reconcile

Next == Coordinator \/ Helper \/ Start \/ Resume \/ Interrupt \/ OtherPrograms

(* A worker thread and its helper, once started, keep running; the user    *)
(* takes the recovery that is offered (F5) whenever there is one.          *)
Spec == Init /\ [][Next]_vars /\ WF_vars(Coordinator \/ Helper) /\ WF_vars(Resume)

-----------------------------------------------------------------------------
(* Properties *)

ItemType == [at : {"source", "temporary", "destination"}, snapshot : Object]

TransactionType ==
  [phase : {"prepared", "evacuating", "commit_intent", "publishing", "rollback"},
   step : {"none", "evacuate", "publish", "rollback"}, index : 0..Count,
   items : [Items -> ItemType]]
    \union {NoTxn}

CallType ==
  [recovering : BOOLEAN, verdict : {"none", "committed", "no_commit", "not_found"},
   object : Object]

(* Every variable has its type; and no run ends because its coordinator's  *)
(* own validation refuses the record it is about to write: it would stop   *)
(* with the journal of an older step, and every recovery would stop there  *)
(* again (valid_batch_transaction).                                       *)
TypeOK ==
  /\ dir \in [Name -> Object]
  /\ new \in Plans
  /\ journal \in [current : TransactionType, previous : TransactionType]
  /\ txn \in TransactionType
  /\ pc \in {"idle", "loop", "execute", "reconcile", "answer"}
  /\ call \in CallType
  /\ report \in {"new", "success", "rolled_back", "recovery_required", "journal_error",
                 "interrupted"}
  /\ faults \in 0..MaxFaults /\ meddling \in 0..MaxMeddling
  /\ taken \subseteq 1..(Count + MaxMeddling)
  /\ went \subseteq {"publish", "rollback"}

Holding(d, id) == {n \in Name : d[n].id = id}

(* No file of the batch and no stranger's file that came meanwhile is      *)
(* overwritten or doubled by the program, in swaps and cycles of names     *)
(* neither: what other programs do not remove keeps exactly one name       *)
(* (rename_no_replace under every order of execute_step).                  *)
NoFileIsLost ==
  [][\A id \in 1..(Count + MaxMeddling) :
       Holding(dir, id) # {} => id \in taken' \/ Cardinality(Holding(dir', id)) = 1]_vars

(* From the first file that comes out of hiding on the operation goes one  *)
(* way: no file is published when another was moved back, whatever crashed *)
(* and whichever generation of the journal the recovery found              *)
(* (continue_transaction; commit_intent is the decision).                  *)
OneDirection ==
  /\ TypeOK
  /\ ~({"publish", "rollback"} \subseteq went)

(* A file under a hidden name is always known to the journal a recovery    *)
(* will read: recorded as hidden, or as being moved into or out of hiding. *)
HiddenIsRecorded ==
  \A i \in Items :
    dir[Hidden(i)] # Nothing =>
      LET t == journal.current IN
        /\ t # NoTxn
        /\ t.items[i].at = "temporary" \/ (t.step = "evacuate" /\ t.index = i)

(* A run reports success only when every file has its new name, and        *)
(* "rolled back" only when every file has its old name, files that other   *)
(* programs removed apart (continue_transaction, rollback); and what is    *)
(* hidden until then is recorded at every instant, so that a run that is   *)
(* cut short can be followed by one that reports either.                   *)
OutcomeIsTrue ==
  [][/\ HiddenIsRecorded'
     /\ report' # report =>
          \A i \in Items \ taken :
            /\ report' = "success" => dir[new[i]].id = i
            /\ report' = "rolled_back" => dir[Old(i)].id = i]_vars

Pending == journal.current # NoTxn

(* An interrupted operation that nobody else disturbs is recovered: some   *)
(* run brings it to an end, forward or back.                               *)
InterruptedIsRecovered == Pending ~> (~Pending \/ meddling > 0)
==============================================================================
