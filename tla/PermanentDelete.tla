--------------------------- MODULE PermanentDelete ---------------------------
(***************************************************************************)
(* PermanentDeleteCoordinator                                              *)
(* (src/fileops/permanent_delete_coordinator.cpp): the selected files of   *)
(* a network folder are deleted for good.  Every file is first moved to a  *)
(* hidden name; when all are hidden the intent is recorded, and the hidden *)
(* files are erased one by one.  A file that cannot be hidden turns the    *)
(* operation around: the hidden ones are moved back.                       *)
(*                                                                         *)
(* Journal, helper and environment are those of BatchRename; what differs  *)
(* is the last step, which leaves nothing behind to recognise, and what a  *)
(* recovery does with a step that did not happen.  A file server may keep  *)
(* a call waiting for longer than the program waits for its helper.        *)
(***************************************************************************)
EXTENDS Naturals, FiniteSets

CONSTANTS Count,        \* how many files one operation deletes
          MaxFaults,    \* bound: crashes, stops, lost replies, stuck calls, journal errors
          MaxMeddling   \* bound: changes made by other programs

ASSUME DeleteAssumption ==
  Count \in Nat \ {0} /\ MaxFaults \in Nat /\ MaxMeddling \in Nat

VARIABLES
  dir,       \* what each name of the directory names
  journal,   \* the two generations of the journal file
  txn,       \* the worker's copy of the transaction
  pc,        \* the worker's next step
  call,      \* the request in flight, and its answer
  late,      \* the system call that a killed helper is still stuck in
  report,    \* how the last run ended
  faults, meddling,
  taken,     \* the files that other programs removed (history)
  restored,  \* the files that were moved back (history)
  strayed    \* the files that a stuck call hid after it was given up (history)

vars == <<dir, journal, txn, pc, call, late, report, faults, meddling, taken, restored, strayed>>

Items == 1..Count

Old(i) == [is |-> "old", of |-> i]
Hidden(i) == [is |-> "hidden", of |-> i]

Name == [is : {"old", "hidden"}, of : Items]

(* A stranger's file has an identity above Count. *)
Object == [id : 0..(Count + MaxMeddling), rev : 0..MaxMeddling]

File(id, rev) == [id |-> id, rev |-> rev]
Nothing == File(0, 0)

-----------------------------------------------------------------------------
(* The transaction. *)

NoTxn == [phase |-> "none", step |-> "none", index |-> 0, items |-> <<>>]

NewTransaction ==
  [phase |-> "prepared", step |-> "none", index |-> 0,
   items |-> [i \in Items |-> [at |-> "source", snapshot |-> File(i, 0)]]]

EmptyJournal == [current |-> NoTxn, previous |-> NoTxn]

At(t, where) == {i \in Items : t.items[i].at = where}

First(S) == CHOOSE i \in S : \A j \in S : i <= j
Last(S) == CHOOSE i \in S : \A j \in S : j <= i

(* clear_active *)
ClearActive(t) == [t EXCEPT !.step = "none", !.index = 0]

(* MUTANT of Applied: a file moved back opens the operation again. *)
AppliedReopening(t, object) ==
  LET it == t.items[t.index] IN
  [ClearActive(t) EXCEPT
     !.phase = IF t.step = "rollback" THEN "evacuating" ELSE t.phase,
     !.items[t.index] =
       CASE t.step = "evacuate" -> [at |-> "temporary", snapshot |-> object]
         [] t.step = "rollback" -> [at |-> "source", snapshot |-> object]
         [] t.step = "erase" -> [it EXCEPT !.at = "deleted"]]

(* apply_success, apply_rename_success *)
Applied(t, object) ==
  LET it == t.items[t.index] IN
  [ClearActive(t) EXCEPT !.items[t.index] =
     CASE t.step = "evacuate" -> [at |-> "temporary", snapshot |-> object]
       [] t.step = "rollback" -> [at |-> "source", snapshot |-> object]
       [] t.step = "erase" -> [it EXCEPT !.at = "deleted"]]

(* valid_permanent_delete_transaction: what encoding and decoding accept. *)
Allowed(phase) ==
  CASE phase = "prepared" -> {"source"}
    [] phase \in {"evacuating", "rollback"} -> {"source", "temporary"}
    [] phase = "permanent_delete_intent" -> {"temporary"}
    [] phase = "deleting" -> {"temporary", "deleted"}

StepMatchesPhase(t) ==
  CASE t.step = "none" -> t.index = 0
    [] t.step = "evacuate" -> t.phase = "evacuating" /\ t.index \in At(t, "source")
    [] t.step = "rollback" -> t.phase = "rollback" /\ t.index \in At(t, "temporary")
    [] t.step = "erase" -> t.phase = "deleting" /\ t.index \in At(t, "temporary")

Valid(t) ==
  /\ StepMatchesPhase(t)
  /\ \A i \in Items : t.items[i].at \in Allowed(t.phase)
  /\ \A i, j \in Items : i # j => t.items[i].snapshot.id # t.items[j].snapshot.id

-----------------------------------------------------------------------------
(* Ends of a worker's step. *)

NotLate == [step |-> "none", of |-> 0]

NoCall == [recovering |-> FALSE, verdict |-> "none", object |-> Nothing]

Quiet == UNCHANGED <<dir, late, meddling, taken, restored, strayed>>

EndRun(outcome) ==
  /\ pc' = "idle" /\ txn' = NoTxn /\ call' = NoCall
  /\ report' = outcome

Goto(next, c) == pc' = next /\ call' = c /\ UNCHANGED <<journal, txn, report>>

(* persist; what cannot be encoded is not written, and ends the run. *)
Writes(t) ==
  journal' = IF Valid(t) THEN [current |-> t, previous |-> journal.current] ELSE journal

Record(t, next) ==
  \E record \in {t} :
    /\ Writes(record)
    /\ IF Valid(record)
       THEN txn' = record /\ pc' = next /\ call' = NoCall /\ UNCHANGED report
       ELSE EndRun("record_rejected")

RecordAndEnd(t, outcome) ==
  \E record \in {t} :
    Writes(record) /\ EndRun(IF Valid(record) THEN outcome ELSE "record_rejected")

Fault == faults < MaxFaults /\ faults' = faults + 1

-----------------------------------------------------------------------------
(* Starting and resuming. *)

Init ==
  /\ dir = [n \in Name |-> IF n.is = "old" THEN File(n.of, 0) ELSE Nothing]
  /\ journal = EmptyJournal
  /\ txn = NoTxn /\ pc = "idle" /\ call = NoCall
  /\ report = "new"
  /\ faults = 0 /\ meddling = 0
  /\ late = NotLate /\ taken = {} /\ restored = {} /\ strayed = {}

(* start, run_new *)
Start ==
  /\ pc = "idle" /\ report = "new" /\ journal.current = NoTxn
  /\ Record(NewTransaction, "loop")
  /\ Quiet /\ UNCHANGED faults

(* resume, run_resume *)
Resume ==
  /\ pc = "idle" /\ journal.current # NoTxn
  /\ txn' = journal.current
  /\ IF txn'.step = "none" THEN pc' = "loop" /\ call' = NoCall
     ELSE pc' = "reconcile" /\ call' = [NoCall EXCEPT !.recovering = TRUE]
  /\ Quiet /\ UNCHANGED <<journal, report, faults>>

-----------------------------------------------------------------------------
(* continue_transaction: which step comes next. *)

InPhase(phase) == pc = "loop" /\ txn.phase = phase

Begin(step, i) ==
  /\ Record([txn EXCEPT !.step = step, !.index = i], "execute")
  /\ Quiet /\ UNCHANGED faults

Enter(phase) ==
  /\ Record([txn EXCEPT !.phase = phase], "loop")
  /\ Quiet /\ UNCHANGED faults

BeginEvacuating == InPhase("prepared") /\ Enter("evacuating")

Evacuate ==
  /\ InPhase("evacuating")
  /\ At(txn, "source") # {}
  /\ Begin("evacuate", First(At(txn, "source")))

(* The decision: every file is hidden. *)
Intend == InPhase("evacuating") /\ At(txn, "source") = {} /\ Enter("permanent_delete_intent")

BeginDeleting == InPhase("permanent_delete_intent") /\ Enter("deleting")

Erase ==
  /\ InPhase("deleting")
  /\ At(txn, "temporary") # {}
  /\ Begin("erase", First(At(txn, "temporary")))

RollBack ==
  /\ InPhase("rollback")
  /\ At(txn, "temporary") # {}
  /\ Begin("rollback", Last(At(txn, "temporary")))

(* remove_journal *)
Retire(outcome) ==
  /\ \/ journal' = EmptyJournal /\ EndRun(outcome) /\ UNCHANGED faults
     \/ /\ Fault
        /\ journal' \in {[current |-> journal.current, previous |-> NoTxn],
                         [current |-> journal.previous, previous |-> NoTxn],
                         EmptyJournal}
        /\ EndRun("journal_error")
  /\ Quiet

(* MUTANT of Succeed: the last file is not waited for. *)
SucceedEarly == InPhase("deleting") /\ At(txn, "deleted") # {} /\ Retire("success")

Succeed == InPhase("deleting") /\ At(txn, "temporary") = {} /\ Retire("success")

FinishRollback == InPhase("rollback") /\ At(txn, "temporary") = {} /\ Retire("rolled_back")

-----------------------------------------------------------------------------
(* The helper. *)

NameAt(i, where) == IF where = "source" THEN Old(i) ELSE Hidden(i)

From == NameAt(txn.index, txn.items[txn.index].at)
To == IF txn.step = "evacuate" THEN Hidden(txn.index) ELSE Old(txn.index)
Expected == txn.items[txn.index].snapshot

(* MUTANT of Verdict: an erasure goes by the name alone. *)
VerdictByName ==
  CASE dir[From] = Nothing -> "not_found"
    [] dir[From] = Expected /\ txn.step # "erase" /\ dir[To] = Nothing -> "committed"
    [] dir[From] # Nothing /\ txn.step = "erase" -> "committed"
    [] OTHER -> "no_commit"

(* execute_rename, rename_no_replace; execute_delete, permanent_delete_remote *)
Verdict ==
  CASE dir[From] = Nothing -> "not_found"
    [] dir[From] = Expected /\ (txn.step = "erase" \/ dir[To] = Nothing) -> "committed"
    [] OTHER -> "no_commit"

(* renameat2 with RENAME_NOREPLACE, unlink *)
Moved ==
  IF txn.step = "erase" THEN [dir EXCEPT ![From] = Nothing]
  ELSE [dir EXCEPT ![To] = dir[From], ![From] = Nothing]

Effect ==
  IF Verdict = "committed"
  THEN /\ dir' = Moved
       /\ restored' = restored \union (IF txn.step = "rollback" THEN {txn.index} ELSE {})
  ELSE UNCHANGED <<dir, restored>>

(* A helper that was killed may be inside a system call that the file      *)
(* server has not answered; it has made its checks.                        *)
Stuck ==
  /\ Verdict = "committed" /\ late = NotLate
  /\ late' = [step |-> txn.step, of |-> txn.index]
  /\ UNCHANGED <<dir, restored>>

(* The reply arrives; or the system call fails; or the reply is lost, with *)
(* or without the effect, or before it, and the service asks what became   *)
(* of the file: it waits half a second for a helper it has killed.         *)
Execute ==
  /\ pc = "execute"
  /\ \/ /\ Effect
        /\ Goto("answer", [NoCall EXCEPT !.verdict = Verdict, !.object = dir[From]])
        /\ UNCHANGED <<faults, late>>
     \/ /\ Fault /\ UNCHANGED <<dir, restored, late>>
        /\ Goto("answer", [NoCall EXCEPT !.verdict = "no_commit"])
     \/ /\ Fault
        /\ Stuck \/ (UNCHANGED late /\ (Effect \/ UNCHANGED <<dir, restored>>))
        /\ Goto("reconcile", NoCall)
  /\ UNCHANGED <<meddling, taken, strayed>>

(* The worker looks no more for what it asked for: it has another step on  *)
(* record, or its answer already.                                          *)
GivenUp(step, i) ==
  pc = "answer" \/ journal.current.step # step \/ journal.current.index # i

(* The file server answers the stuck call, or refuses it: it goes by the   *)
(* names, whatever they name now.                                          *)
LateEffect ==
  LET i == late.of
      from == IF late.step = "evacuate" THEN Old(i) ELSE Hidden(i)
      to == IF late.step = "evacuate" THEN Hidden(i) ELSE Old(i)
      works == dir[from] # Nothing /\ (late.step = "erase" \/ dir[to] = Nothing) IN
  /\ late # NotLate /\ late' = NotLate
  /\ \/ UNCHANGED <<dir, restored, strayed>>
     \/ /\ works
        /\ dir' = [dir EXCEPT ![from] = Nothing,
                              ![to] = IF late.step = "erase" THEN @ ELSE dir[from]]
        /\ restored' = restored \union (IF late.step = "rollback" THEN {i} ELSE {})
        /\ strayed' = IF late.step = "evacuate" /\ GivenUp("evacuate", i)
                      THEN strayed \union {i} ELSE strayed
  /\ UNCHANGED <<journal, txn, pc, call, report, faults, meddling, taken>>

(* reconcile_rename *)
ReconciledRename ==
  CASE dir[To].id = Expected.id -> "committed"
    [] dir[To].id # Expected.id /\ dir[From] = Expected -> "no_commit"
    [] dir[To].id # Expected.id /\ dir[From].id = Expected.id /\ dir[From] # Expected -> "changed"
    [] OTHER -> "none"

(* reconcile_delete: absence cannot distinguish deletion from a rename. *)
ReconciledDelete ==
  CASE dir[From] = Nothing -> "none"
    [] dir[From] = Expected -> "no_commit"
    [] dir[From] # Expected /\ dir[From].id = Expected.id -> "changed"

Reconcile ==
  /\ pc = "reconcile"
  /\ \/ /\ Goto("answer", IF txn.step = "erase"
                          THEN [call EXCEPT !.verdict = ReconciledDelete]
                          ELSE [call EXCEPT !.verdict = ReconciledRename, !.object = dir[To]])
        /\ UNCHANGED faults
     \/ Goto("answer", [call EXCEPT !.verdict = "none"]) /\ Fault
  /\ Quiet

-----------------------------------------------------------------------------
(* The answer is recorded. *)

Answer(verdicts) == pc = "answer" /\ call.verdict \in verdicts /\ Quiet

RecordSuccess ==
  /\ Answer({"committed"})
  /\ Record(Applied(txn, call.object), "loop")
  /\ UNCHANGED faults

LookAgain ==
  /\ Answer({"not_found"})
  /\ Goto("reconcile", call)
  /\ UNCHANGED faults

(* MUTANT of TurnAround: the evacuation is left to the next run. *)
TurnAroundLater ==
  /\ Answer({"no_commit", "changed"}) /\ txn.step = "evacuate"
  /\ RecordAndEnd(txn, "recovery_required")
  /\ UNCHANGED faults

(* A file that could not be hidden turns the operation around, in a fresh  *)
(* run and in a recovery.                                                  *)
TurnAround ==
  /\ Answer({"no_commit", "changed"}) /\ txn.step = "evacuate"
  /\ Record([ClearActive(txn) EXCEPT !.phase = "rollback"], "loop")
  /\ UNCHANGED faults

RepeatsErase == call.recovering /\ txn.step = "erase" /\ call.verdict = "no_commit"

(* A recovery that finds the file untouched erases it. *)
RepeatErase ==
  /\ Answer({"no_commit"}) /\ RepeatsErase
  /\ Record(ClearActive(txn), "loop")
  /\ UNCHANGED faults

(* Any other step that did not happen is left to a later run. *)
NotCommitted ==
  /\ Answer({"no_commit", "changed"}) /\ txn.step # "evacuate" /\ ~RepeatsErase
  /\ RecordAndEnd(ClearActive(txn), "recovery_required")
  /\ UNCHANGED faults

(* A stop request takes a missing file for a step that did not happen. *)
StopAtMissing ==
  /\ Answer({"not_found"}) /\ Fault
  /\ RecordAndEnd(IF txn.step = "evacuate"
                  THEN [ClearActive(txn) EXCEPT !.phase = "rollback"]
                  ELSE ClearActive(txn), "interrupted")

Uncertain ==
  /\ Answer({"none"})
  /\ RecordAndEnd(txn, "recovery_required")
  /\ UNCHANGED faults

-----------------------------------------------------------------------------
(* The environment. *)

Interrupt ==
  /\ pc # "idle" /\ Fault
  /\ EndRun("interrupted")
  /\ Quiet /\ UNCHANGED journal

Meddles ==
  /\ meddling < MaxMeddling /\ meddling' = meddling + 1
  /\ UNCHANGED <<journal, txn, pc, call, late, report, faults, restored, strayed>>

(* An open descriptor follows a file to its hidden name. *)
Edit(n) ==
  /\ Meddles
  /\ dir[n].id \in Items
  /\ dir' = [dir EXCEPT ![n].rev = meddling']
  /\ UNCHANGED taken

Remove(i) ==
  /\ Meddles
  /\ dir[Old(i)] # Nothing
  /\ dir' = [dir EXCEPT ![Old(i)] = Nothing]
  /\ taken' = taken \union {dir[Old(i)].id}

Create(i) ==
  /\ Meddles
  /\ dir[Old(i)] = Nothing
  /\ dir' = [dir EXCEPT ![Old(i)] = File(Count + meddling', 0)]
  /\ UNCHANGED taken

OtherPrograms ==
  \/ \E n \in Name : Edit(n)
  \/ \E i \in Items : Remove(i) \/ Create(i)

Coordinator ==
  \/ BeginEvacuating \/ Evacuate \/ Intend \/ BeginDeleting \/ Erase
  \/ RollBack \/ Succeed \/ FinishRollback
  \/ RecordSuccess \/ LookAgain \/ TurnAround \/ RepeatErase \/ NotCommitted
  \/ StopAtMissing \/ Uncertain

Helper == Execute \/ Reconcile

Next == Coordinator \/ Helper \/ LateEffect \/ Start \/ Resume \/ Interrupt \/ OtherPrograms

(* A worker thread and its helper, once started, keep running; the user    *)
(* takes the recovery that is offered (F5) whenever there is one.          *)
Spec == Init /\ [][Next]_vars /\ WF_vars(Coordinator \/ Helper) /\ WF_vars(Resume)

-----------------------------------------------------------------------------
(* Properties *)

TransactionType ==
  [phase : {"prepared", "evacuating", "permanent_delete_intent", "deleting", "rollback"},
   step : {"none", "evacuate", "erase", "rollback"}, index : 0..Count,
   items : [Items -> [at : {"source", "temporary", "deleted"}, snapshot : Object]]]
    \union {NoTxn}

CallType ==
  [recovering : BOOLEAN, verdict : {"none", "committed", "no_commit", "changed", "not_found"},
   object : Object]

(* Every variable has its type; and no run ends because its coordinator's  *)
(* own validation refuses the record it is about to write: it would stop   *)
(* with the journal of an older step, and every recovery would stop there  *)
(* again (valid_permanent_delete_transaction).                             *)
TypeOK ==
  /\ dir \in [Name -> Object]
  /\ journal \in [current : TransactionType, previous : TransactionType]
  /\ txn \in TransactionType
  /\ pc \in {"idle", "loop", "execute", "reconcile", "answer"}
  /\ call \in CallType
  /\ late \in [step : {"none", "evacuate", "erase", "rollback"}, of : 0..Count]
  /\ report \in {"new", "success", "rolled_back", "recovery_required", "journal_error",
                 "interrupted"}
  /\ faults \in 0..MaxFaults /\ meddling \in 0..MaxMeddling
  /\ taken \subseteq 1..(Count + MaxMeddling)
  /\ restored \subseteq Items /\ strayed \subseteq Items

Exists(d, id) == \E n \in Name : d[n].id = id

(* What is gone was removed by another program, or erased. *)
Erased(d) == {i \in Items \ taken : ~Exists(d, i)}

(* All or nothing, up to the decision: while any file is still in its      *)
(* place, or was moved back, none has been erased, whatever crashed and    *)
(* whichever generation of the journal a recovery found.                   *)
ErasedOnlyWhenAllWereHidden ==
  /\ TypeOK
  /\ Erased(dir) # {} => restored = {} /\ \A i \in Items : dir[Old(i)].id # i

(* A program step that makes a file disappear erases, under its hidden     *)
(* name, one of the selected files, in a revision that the journal on disk *)
(* records: never a stranger's file, never one that was written to since   *)
(* the coordinator last saw it, and never a file the journal does not name *)
(* (permanent_delete_remote, execute_step).  A call that was stuck erases  *)
(* what has its name by then, but it also is one of the files, under its   *)
(* hidden name, and nothing is moved back any more.                        *)
OnlyRecordedFilesVanish ==
  [][\A n \in Name :
       dir[n] # Nothing /\ ~Exists(dir', dir[n].id) /\ taken' = taken =>
         LET t == journal.current IN
           \/ /\ t.step = "erase" /\ n = Hidden(t.index)
              /\ dir[n] = t.items[t.index].snapshot
           \/ /\ late = [step |-> "erase", of |-> dir[n].id] /\ late' = NotLate
              /\ n = Hidden(dir[n].id)
              /\ t.phase = "deleting"]_vars

(* A file under a hidden name is always known to the journal a recovery    *)
(* will read, unless a call that was given up for lost hid it in the end.  *)
HiddenIsRecorded ==
  \A i \in Items :
    dir[Hidden(i)] # Nothing =>
      LET t == journal.current IN
        \/ i \in strayed
        \/ /\ t # NoTxn
           /\ t.items[i].at = "temporary" \/ (t.step = "evacuate" /\ t.index = i)

(* A run reports success only when every selected file is gone, and        *)
(* "rolled back" only when every one is back under its name, except those  *)
(* that a stuck call hid meanwhile; and what is hidden until then is       *)
(* recorded at every instant, so that a run that is cut short can be       *)
(* followed by one that reports either.                                    *)
OutcomeIsTrue ==
  [][/\ HiddenIsRecorded'
     /\ report' # report =>
          /\ report' = "success" => \A i \in Items : ~Exists(dir, i)
          /\ report' = "rolled_back" =>
               \A i \in Items \ (taken \union strayed) : dir[Old(i)].id = i]_vars

Pending == journal.current # NoTxn

Decided == journal.current.phase = "deleting"

(* Until the decision, an interrupted deletion that nobody else disturbs   *)
(* is recovered: it is undone, or goes forward.                            *)
UndecidedIsRecovered == Pending ~> (~Pending \/ Decided \/ meddling > 0)
==============================================================================
