------------------------ MODULE PermanentDeleteProofs ------------------------
(***************************************************************************)
(* Proofs about PermanentDelete for every number of files, crashes, lost   *)
(* answers, stuck calls and changes by other programs: no file is erased   *)
(* while another one is in its place, no record is rejected, nothing but   *)
(* the recorded files vanishes, and what is reported is true.              *)
(*                                                                         *)
(* The operation passes a decision, and what must hold is different on its *)
(* two sides (Kept, Lost).  The first inductive invariant (IInv) ties the  *)
(* side to the phase of the record on disk, and says which older record    *)
(* may come back when the journal is removed by halves (OlderRecord).  The *)
(* second one (JInv) adds what the record tells of every single file.      *)
(***************************************************************************)
EXTENDS PermanentDelete, FiniteSetTheorems, TLAPS

Transactions ==
  [phase : {"prepared", "evacuating", "permanent_delete_intent", "deleting", "rollback"},
   step : {"none", "evacuate", "erase", "rollback"}, index : 0..Count,
   items : [Items -> [at : {"source", "temporary", "deleted"}, snapshot : Object]]]

(* A record is valid, and its snapshots are of the files it was made for.  *)
Sound(t) == t \in Transactions /\ Valid(t) /\ \A i \in Items : t.items[i].snapshot.id = i

Recorded(t) == t = NoTxn \/ Sound(t)

(* Objects have one name each, and strangers' objects are new. *)
NamesAreUnique ==
  /\ \A n \in Name : dir[n].id <= Count + meddling /\ (dir[n].id = 0 => dir[n] = Nothing)
  /\ \A n, m \in Name : dir[n].id = dir[m].id /\ dir[n].id # 0 => n = m

(* A stuck call is one that was made: an evacuation has not happened yet.  *)
LateIsACall ==
  \/ late = NotLate
  \/ /\ late.step # "none" /\ late.of \in Items
     /\ late.step = "evacuate" => dir[Hidden(late.of)].id # late.of

(* The worker's copy is what is on disk, and an answer is about its step.  *)
WorkerFollows ==
  /\ pc = "idle" => txn = NoTxn
  /\ pc # "idle" => txn = journal.current /\ txn # NoTxn
  /\ pc = "loop" => txn.step = "none"
  /\ pc \in {"execute", "reconcile", "answer"} => txn.step # "none"
  /\ pc = "execute" /\ txn.step = "evacuate" => late.step # "evacuate"
  /\ pc = "answer" /\ call.verdict = "committed" =>
       /\ txn.step # "erase" => call.object.id = txn.index
       /\ txn.step = "evacuate" =>
            late.step # "evacuate" /\ dir[Hidden(txn.index)].id = txn.index

(* The two sides of the decision. *)
Kept == Erased(dir) = {} /\ late.step # "erase"
Lost == restored = {} /\ late.step # "rollback" /\ \A i \in Items : dir[Old(i)].id # i

Before(phase) == phase \in {"prepared", "evacuating", "rollback"}
After(phase) == phase \in {"permanent_delete_intent", "deleting"}

(* On the way to the decision nothing moves back, and what is on record as *)
(* hidden is not in its place.                                             *)
OnTheWay(t) ==
  t.phase \in {"prepared", "evacuating"} =>
    /\ restored = {} /\ late.step # "rollback"
    /\ \A i \in Items : t.items[i].at = "temporary" => dir[Old(i)].id # i

(* Until a file is moved back, a hidden name is that of its own file,      *)
(* except the one whose evacuation is on record: a stuck call for it may   *)
(* hide a stranger's file there.                                           *)
OwnNames(t) ==
  t.phase \in {"prepared", "evacuating", "permanent_delete_intent", "deleting"} =>
    /\ \A i \in Items : dir[Hidden(i)].id \in {0, i} \/ (t.step = "evacuate" /\ t.index = i)
    /\ late.step = "evacuate" => t.step = "evacuate" /\ t.index = late.of

Sides ==
  /\ Kept \/ Lost
  /\ Before(journal.current.phase) => Kept
  /\ After(journal.current.phase) => Lost
  /\ OnTheWay(journal.current) /\ OwnNames(journal.current)
  /\ journal.current = NoTxn /\ report = "new" =>
       /\ Kept /\ restored = {} /\ late = NotLate
       /\ \A i \in Items : dir[Hidden(i)] = Nothing

(* What a half removed journal may bring back. *)
OlderRecord ==
  LET new == journal.current
      old == journal.previous IN
  /\ new.phase = "deleting" /\ At(new, "deleted") # {} => old.phase \in {"none", "deleting"}
  /\ new.phase = "rollback" =>
       /\ old.phase \in {"none", "evacuating", "rollback"}
       /\ old.phase = "evacuating" => new.step = "none"
       /\ OnTheWay(old) /\ OwnNames(old)

IInv ==
  /\ TypeOK
  /\ Recorded(journal.current) /\ Recorded(journal.previous)
  /\ NamesAreUnique /\ LateIsACall /\ WorkerFollows /\ Sides /\ OlderRecord

-----------------------------------------------------------------------------
(* Facts about the operators.                                              *)

(* A set of items that is not empty has a first and a last one: no chain   *)
(* of ever smaller subsets goes on for ever.                               *)
LEMMA Extremes ==
  ASSUME NEW S \in SUBSET Items, S # {}
  PROVE  First(S) \in S /\ Last(S) \in S
<1> USE DeleteAssumption DEF Items
<1>1. IsFiniteSet(Items)
  BY FS_Interval
<1>2. IsWellFoundedOn(StrictSubsetOrdering(Items), SUBSET Items)
  BY <1>1, FS_StrictSubsetOrderingWellFounded, FS_FiniteSubsetsOfFinite
<1>3. \E i \in S : \A j \in S : i <= j
  <2> DEFINE Up == {{j \in S : j <= k} : k \in S}
  <2>1. Up \subseteq SUBSET Items /\ Up # {}
    OBVIOUS
  <2> HIDE DEF Up
  <2>2. PICK U \in Up : \A V \in Up : <<V, U>> \notin StrictSubsetOrdering(Items)
    BY <1>2, <2>1, WFMin
  <2>3. PICK k \in S : U = {j \in S : j <= k}
    BY <2>2 DEF Up
  <2>4. ASSUME NEW j \in S, ~(k <= j) PROVE FALSE
    <3> DEFINE V == {m \in S : m <= j}
    <3>1. V \in Up
      BY DEF Up
    <3>2. V \subseteq U /\ k \in U /\ k \notin V
      <4>1. k \in Nat /\ j \in Nat /\ j < k /\ \A m \in S : m \in Nat
        BY <2>4
      <4>2. k \in U /\ k \notin V
        BY <2>3, <2>4, <4>1
      <4>3. \A m \in S : m <= j => m <= k
        BY <4>1
      <4> QED
        BY <2>3, <4>2, <4>3
    <3> HIDE DEF V
    <3>3. <<V, U>> \in StrictSubsetOrdering(Items)
      BY <3>1, <3>2, <2>1 DEF StrictSubsetOrdering
    <3> QED
      BY <3>1, <3>3, <2>2
  <2> QED
    BY <2>4
<1>4. \E i \in S : \A j \in S : j <= i
  <2> DEFINE Down == {{j \in S : k <= j} : k \in S}
  <2>1. Down \subseteq SUBSET Items /\ Down # {}
    OBVIOUS
  <2> HIDE DEF Down
  <2>2. PICK U \in Down : \A V \in Down : <<V, U>> \notin StrictSubsetOrdering(Items)
    BY <1>2, <2>1, WFMin
  <2>3. PICK k \in S : U = {j \in S : k <= j}
    BY <2>2 DEF Down
  <2>4. ASSUME NEW j \in S, ~(j <= k) PROVE FALSE
    <3> DEFINE V == {m \in S : j <= m}
    <3>1. V \in Down
      BY DEF Down
    <3>2. V \subseteq U /\ k \in U /\ k \notin V
      <4>1. k \in Nat /\ j \in Nat /\ k < j /\ \A m \in S : m \in Nat
        BY <2>4
      <4>2. k \in U /\ k \notin V
        BY <2>3, <2>4, <4>1
      <4>3. \A m \in S : j <= m => k <= m
        BY <4>1
      <4> QED
        BY <2>3, <4>2, <4>3
    <3> HIDE DEF V
    <3>3. <<V, U>> \in StrictSubsetOrdering(Items)
      BY <3>1, <3>2, <2>1 DEF StrictSubsetOrdering
    <3> QED
      BY <3>1, <3>3, <2>2
  <2> QED
    BY <2>4
<1> QED
  BY <1>3, <1>4 DEF First, Last

(* Steps are put on record and set aside within the type.                  *)
LEMMA StepTypes ==
  ASSUME NEW t \in Transactions
  PROVE  /\ \A step \in {"none", "evacuate", "erase", "rollback"}, k \in Items :
              [t EXCEPT !.step = step, !.index = k] \in Transactions
         /\ ClearActive(t) \in Transactions
         /\ [ClearActive(t) EXCEPT !.phase = "rollback"] \in Transactions
<1>1. Items \subseteq 0..Count /\ 0 \in 0..Count
  BY DeleteAssumption DEF Items
<1> QED
  BY <1>1 DEF Transactions, ClearActive

(* What a record may be followed by: the conditions under which writing t  *)
(* keeps the invariant.                                                    *)
Follows(t) ==
  /\ Sound(t)
  /\ Before(t.phase) => Kept
  /\ After(t.phase) => Lost
  /\ OnTheWay(t) /\ OwnNames(t)
  /\ t.phase = "deleting" /\ At(t, "deleted") # {} => journal.current.phase = "deleting"
  /\ t.phase = "rollback" =>
       /\ journal.current.phase \in {"evacuating", "rollback"}
       /\ journal.current.phase = "evacuating" => t.step = "none"

Persisted(t) == journal' = [current |-> t, previous |-> journal.current]

Ends == pc' = "idle" /\ txn' = NoTxn /\ call' = NoCall

(* Every record that is written keeps the invariant, whether the run goes  *)
(* on or ends with it.                                                     *)
LEMMA WritingKeeps ==
  ASSUME IInv, NEW t, Follows(t), Persisted(t), Quiet, faults' \in 0..MaxFaults,
         \/ /\ txn' = t /\ call' = NoCall /\ report' = report
            /\ pc' = IF t.step = "none" THEN "loop" ELSE "execute"
            /\ t.step = "evacuate" => late.step # "evacuate"
         \/ Ends /\ report' \in {"recovery_required", "interrupted"}
  PROVE  IInv'
<1> USE DeleteAssumption
<1>1. t \in TransactionType /\ t # NoTxn /\ t.step \in {"none", "evacuate", "erase", "rollback"}
  BY DEF Follows, Sound, Transactions, TransactionType, NoTxn
<1>2. NoCall \in CallType /\ NoTxn \in TransactionType
  BY DEF NoCall, CallType, Nothing, File, Object, TransactionType
<1>3. TypeOK'
  BY <1>1, <1>2 DEF IInv, TypeOK, Persisted, Quiet, Ends
<1>4. Recorded(journal.current)' /\ Recorded(journal.previous)'
  BY DEF IInv, Follows, Persisted, Recorded
<1>5. NamesAreUnique' /\ LateIsACall'
  BY DEF IInv, NamesAreUnique, LateIsACall, Quiet
<1>6. WorkerFollows'
  BY <1>1 DEF WorkerFollows, Persisted, Ends, Quiet, NoCall
<1>7. Sides'
  BY <1>1 DEF IInv, Sides, Follows, Persisted, Quiet, Kept, Lost, Erased, Exists, Before, After, OnTheWay, OwnNames
<1>8. OlderRecord'
  BY <1>1 DEF IInv, Sides, OlderRecord, Follows, Persisted, Quiet, OnTheWay, OwnNames
<1> QED
  BY <1>3, <1>4, <1>5, <1>6, <1>7, <1>8 DEF IInv

(* The same of the two ways in which the program writes a record.          *)
LEMMA RecordKeeps ==
  ASSUME IInv, NEW t, Follows(t), Quiet, UNCHANGED faults,
         NEW next, next = (IF t.step = "none" THEN "loop" ELSE "execute"),
         t.step = "evacuate" => late.step # "evacuate", Record(t, next)
  PROVE  IInv'
<1>1. Valid(t)
  BY DEF Follows, Sound
<1>2. Persisted(t) /\ txn' = t /\ pc' = next /\ call' = NoCall /\ report' = report
  BY <1>1 DEF Record, Writes, Persisted
<1>3. faults' \in 0..MaxFaults
  BY DEF IInv, TypeOK
<1> QED
  BY <1>2, <1>3, WritingKeeps

LEMMA RecordAndEndKeeps ==
  ASSUME IInv, NEW t, Follows(t), Quiet, UNCHANGED faults \/ Fault,
         NEW outcome \in {"recovery_required", "interrupted"}, RecordAndEnd(t, outcome)
  PROVE  IInv'
<1>1. Valid(t)
  BY DEF Follows, Sound
<1>2. Persisted(t) /\ Ends /\ report' = outcome
  BY <1>1 DEF RecordAndEnd, Writes, Persisted, EndRun, Ends
<1>3. faults' \in 0..MaxFaults
  BY DeleteAssumption DEF IInv, TypeOK, Fault
<1> QED
  BY <1>2, <1>3, WritingKeeps

(* While a run is active, its transaction is the record on disk.           *)
LEMMA ActiveRecord ==
  ASSUME IInv, pc # "idle"
  PROVE  /\ txn = journal.current /\ Sound(txn)
         /\ Before(txn.phase) => Kept
         /\ After(txn.phase) => Lost
         /\ OnTheWay(txn) /\ OwnNames(txn)
BY DEF IInv, WorkerFollows, Recorded, Sides

-----------------------------------------------------------------------------
(* The steps that write a record.                                          *)

LEMMA StartKeeps ==
  ASSUME IInv, Start
  PROVE  IInv'
<1> DEFINE t == NewTransaction
<1>1. Sound(t) /\ t.step = "none" /\ t.phase = "prepared"
  BY DeleteAssumption DEF Sound, Valid, StepMatchesPhase, Allowed, NewTransaction, Transactions,
     Items, Object, File
<1>2. \A i \in Items : t.items[i].at = "source"
  BY DEF NewTransaction
<1>3. Follows(t)
  BY <1>1, <1>2 DEF Follows, IInv, Sides, Start, OnTheWay, OwnNames, Before, After, Nothing, File, NotLate
<1>4. Record(t, "loop") /\ Quiet /\ UNCHANGED faults
  BY DEF Start
<1> HIDE DEF t
<1> QED
  BY <1>1, <1>3, <1>4, RecordKeeps

LEMMA BeginEvacuatingKeeps ==
  ASSUME IInv, BeginEvacuating
  PROVE  IInv'
<1> DEFINE t == [txn EXCEPT !.phase = "evacuating"]
<1>1. txn.step = "none" /\ pc = "loop" /\ txn.phase = "prepared"
  BY DEF IInv, WorkerFollows, BeginEvacuating, InPhase
<1>2. Sound(t) /\ t.step = "none"
  BY <1>1, ActiveRecord DEF Sound, Valid, StepMatchesPhase, Allowed, Transactions
<1>3. t.phase = "evacuating" /\ t.items = txn.items
  BY <1>1, ActiveRecord DEF Sound, Transactions
<1>4. Follows(t)
  BY <1>1, <1>2, <1>3, ActiveRecord DEF Follows, OnTheWay, OwnNames, Before, After
<1>5. Record(t, "loop") /\ Quiet /\ UNCHANGED faults
  BY DEF BeginEvacuating, Enter
<1> HIDE DEF t
<1> QED
  BY <1>2, <1>4, <1>5, RecordKeeps

LEMMA EvacuateKeeps ==
  ASSUME IInv, Evacuate
  PROVE  IInv'
<1> DEFINE k == First(At(txn, "source"))
           t == [txn EXCEPT !.step = "evacuate", !.index = k]
<1>1. txn.step = "none" /\ pc = "loop" /\ txn.phase = "evacuating"
  BY DEF IInv, WorkerFollows, Evacuate, InPhase
<1>2. k \in At(txn, "source")
  BY Extremes DEF Evacuate, At
<1> HIDE DEF k
<1>3. /\ t.step = "evacuate" /\ t.phase = "evacuating" /\ t.index = k
      /\ t.items = txn.items
  BY <1>1, ActiveRecord DEF Sound, Transactions
<1>4. Sound(t)
  <2>1. t \in Transactions
    BY <1>1, <1>2, ActiveRecord, StepTypes DEF Sound, At
  <2>2. StepMatchesPhase(t)
    BY <1>2, <1>3 DEF StepMatchesPhase, At
  <2> QED
    BY <1>1, <1>3, <2>1, <2>2, ActiveRecord DEF Sound, Valid
<1>5. Follows(t)
  BY <1>1, <1>3, <1>4, ActiveRecord DEF Follows, OnTheWay, OwnNames, Before, After
<1>6. late.step # "evacuate"
  BY <1>1, ActiveRecord DEF OwnNames
<1>7. Record(t, "execute") /\ Quiet /\ UNCHANGED faults
  BY DEF Evacuate, Begin, k
<1> HIDE DEF t
<1> QED
  BY <1>3, <1>5, <1>6, <1>7, RecordKeeps

LEMMA IntendKeeps ==
  ASSUME IInv, Intend
  PROVE  IInv'
<1> DEFINE t == [txn EXCEPT !.phase = "permanent_delete_intent"]
<1>1. /\ txn.step = "none" /\ pc = "loop" /\ txn.phase = "evacuating"
      /\ At(txn, "source") = {}
  BY DEF IInv, WorkerFollows, Intend, InPhase
<1>2. \A i \in Items : txn.items[i].at = "temporary"
  BY <1>1, ActiveRecord DEF Sound, Valid, Allowed, At
<1>3. t.phase = "permanent_delete_intent" /\ t.items = txn.items /\ t.step = "none"
  BY <1>1, ActiveRecord DEF Sound, Transactions
<1>4. Sound(t)
  BY <1>1, <1>2, ActiveRecord DEF Sound, Valid, StepMatchesPhase, Allowed, Transactions
<1>5. Lost
  BY <1>1, <1>2, ActiveRecord DEF Lost, OnTheWay
<1>6. Follows(t)
  BY <1>1, <1>3, <1>4, <1>5, ActiveRecord DEF Follows, OnTheWay, OwnNames, Before
<1>7. Record(t, "loop") /\ Quiet /\ UNCHANGED faults
  BY DEF Intend, Enter
<1> HIDE DEF t
<1> QED
  BY <1>3, <1>6, <1>7, RecordKeeps

LEMMA BeginDeletingKeeps ==
  ASSUME IInv, BeginDeleting
  PROVE  IInv'
<1> DEFINE t == [txn EXCEPT !.phase = "deleting"]
<1>1. txn.step = "none" /\ pc = "loop" /\ txn.phase = "permanent_delete_intent"
  BY DEF IInv, WorkerFollows, BeginDeleting, InPhase
<1>2. t.phase = "deleting" /\ t.items = txn.items /\ t.step = "none"
  BY <1>1, ActiveRecord DEF Sound, Transactions
<1>3. Sound(t) /\ At(t, "deleted") = {}
  BY <1>1, ActiveRecord DEF Sound, Valid, StepMatchesPhase, Allowed, Transactions, At
<1>4. Follows(t)
  BY <1>1, <1>2, <1>3, ActiveRecord DEF Follows, OnTheWay, OwnNames, Before, After
<1>5. Record(t, "loop") /\ Quiet /\ UNCHANGED faults
  BY DEF BeginDeleting, Enter
<1> HIDE DEF t
<1> QED
  BY <1>2, <1>4, <1>5, RecordKeeps

LEMMA EraseKeeps ==
  ASSUME IInv, Erase
  PROVE  IInv'
<1> DEFINE k == First(At(txn, "temporary"))
           t == [txn EXCEPT !.step = "erase", !.index = k]
<1>1. txn.step = "none" /\ pc = "loop" /\ txn.phase = "deleting"
  BY DEF IInv, WorkerFollows, Erase, InPhase
<1>2. k \in At(txn, "temporary")
  BY Extremes DEF Erase, At
<1> HIDE DEF k
<1>3. /\ t.step = "erase" /\ t.phase = "deleting" /\ t.index = k
      /\ t.items = txn.items
  BY <1>1, ActiveRecord DEF Sound, Transactions
<1>4. Sound(t)
  <2>1. t \in Transactions
    BY <1>1, <1>2, ActiveRecord, StepTypes DEF Sound, At
  <2>2. StepMatchesPhase(t)
    BY <1>1, <1>2, <1>3 DEF StepMatchesPhase, At
  <2> QED
    BY <1>1, <1>3, <2>1, <2>2, ActiveRecord DEF Sound, Valid
<1>5. Follows(t)
  BY <1>1, <1>3, <1>4, ActiveRecord DEF Follows, OnTheWay, OwnNames, Before, After
<1>6. Record(t, "execute") /\ Quiet /\ UNCHANGED faults
  BY DEF Erase, Begin, k
<1> HIDE DEF t
<1> QED
  BY <1>3, <1>5, <1>6, RecordKeeps

LEMMA RollBackKeeps ==
  ASSUME IInv, RollBack
  PROVE  IInv'
<1> DEFINE k == Last(At(txn, "temporary"))
           t == [txn EXCEPT !.step = "rollback", !.index = k]
<1>1. txn.step = "none" /\ pc = "loop" /\ txn.phase = "rollback"
  BY DEF IInv, WorkerFollows, RollBack, InPhase
<1>2. k \in At(txn, "temporary")
  BY Extremes DEF RollBack, At
<1> HIDE DEF k
<1>3. /\ t.step = "rollback" /\ t.phase = "rollback" /\ t.index = k
      /\ t.items = txn.items
  BY <1>1, ActiveRecord DEF Sound, Transactions
<1>4. Sound(t)
  <2>1. t \in Transactions
    BY <1>1, <1>2, ActiveRecord, StepTypes DEF Sound, At
  <2>2. StepMatchesPhase(t)
    BY <1>1, <1>2, <1>3 DEF StepMatchesPhase, At
  <2> QED
    BY <1>1, <1>3, <2>1, <2>2, ActiveRecord DEF Sound, Valid
<1>5. Follows(t)
  BY <1>1, <1>3, <1>4, ActiveRecord DEF Follows, OnTheWay, OwnNames, Before, After
<1>6. Record(t, "execute") /\ Quiet /\ UNCHANGED faults
  BY DEF RollBack, Begin, k
<1> HIDE DEF t
<1> QED
  BY <1>3, <1>5, <1>6, RecordKeeps

-----------------------------------------------------------------------------
(* The answers that are recorded.                                          *)

(* Putting the step aside, whatever it was, and turning an evacuation      *)
(* around.                                                                 *)
LEMMA PutAside ==
  ASSUME IInv, pc = "answer"
  PROVE  /\ txn.step # "evacuate" => Follows(ClearActive(txn)) /\ ClearActive(txn).step = "none"
         /\ txn.step = "evacuate" =>
              LET t == [ClearActive(txn) EXCEPT !.phase = "rollback"] IN
                Follows(t) /\ t.step = "none"
<1>1. txn.step \in {"evacuate", "erase", "rollback"} /\ StepMatchesPhase(txn) /\ Sound(txn)
  BY ActiveRecord DEF IInv, WorkerFollows, Sound, Transactions, Valid
<1>2. ASSUME txn.step # "evacuate"
      PROVE  Follows(ClearActive(txn)) /\ ClearActive(txn).step = "none"
  <2> DEFINE t == ClearActive(txn)
  <2>1. t.step = "none" /\ t.index = 0 /\ t.phase = txn.phase /\ t.items = txn.items
    BY <1>1 DEF ClearActive, Sound, Transactions
  <2>2. txn.phase \in {"deleting", "rollback"}
    BY <1>1, <1>2 DEF StepMatchesPhase
  <2>3. t \in Transactions
    BY <1>1, StepTypes DEF Sound
  <2> HIDE DEF t
  <2>4. Sound(t)
    BY <1>1, <2>1, <2>3 DEF Sound, Valid, StepMatchesPhase
  <2>5. Follows(t)
    BY <1>2, <2>1, <2>2, <2>4, ActiveRecord DEF Follows, OnTheWay, OwnNames, Before, After
  <2> QED
    BY <2>1, <2>5 DEF t
<1>3. ASSUME txn.step = "evacuate"
      PROVE  LET t == [ClearActive(txn) EXCEPT !.phase = "rollback"] IN
               Follows(t) /\ t.step = "none"
  <2> DEFINE t == [ClearActive(txn) EXCEPT !.phase = "rollback"]
  <2>1. t.step = "none" /\ t.index = 0 /\ t.phase = "rollback" /\ t.items = txn.items
    BY <1>1 DEF ClearActive, Sound, Transactions
  <2>2. txn.phase = "evacuating"
    BY <1>1, <1>3 DEF StepMatchesPhase
  <2>3. t \in Transactions
    BY <1>1, StepTypes DEF Sound, Transactions
  <2> HIDE DEF t
  <2>4. StepMatchesPhase(t)
    BY <2>1 DEF StepMatchesPhase
  <2>5. Allowed(txn.phase) = {"source", "temporary"} /\ Allowed(t.phase) = {"source", "temporary"}
    BY <2>1, <2>2 DEF Allowed
  <2>6. Sound(t)
    BY <1>1, <2>1, <2>3, <2>4, <2>5 DEF Sound, Valid
  <2>7. Follows(t)
    BY <1>3, <2>1, <2>2, <2>6, ActiveRecord DEF Follows, OnTheWay, OwnNames, Before, After
  <2> QED
    BY <2>1, <2>7 DEF t
<1> QED
  BY <1>2, <1>3

LEMMA RecordSuccessKeeps ==
  ASSUME IInv, RecordSuccess
  PROVE  IInv'
<1> DEFINE k == txn.index
           t == Applied(txn, call.object)
<1>1. /\ pc = "answer" /\ call.verdict = "committed" /\ Quiet /\ UNCHANGED faults
      /\ Record(t, "loop")
  BY DEF RecordSuccess, Answer
<1>2. /\ Sound(txn) /\ StepMatchesPhase(txn)
      /\ txn.step \in {"evacuate", "erase", "rollback"} /\ k \in Items
  BY <1>1, ActiveRecord DEF IInv, WorkerFollows, Sound, Transactions, Valid, StepMatchesPhase, At
<1>3. call.object \in Object /\ (txn.step # "erase" => call.object.id = k)
  BY <1>1 DEF IInv, TypeOK, CallType, WorkerFollows
<1> DEFINE it == CASE txn.step = "evacuate" -> [at |-> "temporary", snapshot |-> call.object]
                   [] txn.step = "rollback" -> [at |-> "source", snapshot |-> call.object]
                   [] txn.step = "erase" -> [txn.items[k] EXCEPT !.at = "deleted"]
<1>4. /\ t.step = "none" /\ t.index = 0 /\ t.phase = txn.phase
      /\ \A i \in Items : i # k => t.items[i] = txn.items[i]
      /\ t.items[k] = it
  BY <1>2 DEF Applied, ClearActive, Sound, Transactions
<1>5. /\ it \in [at : {"source", "temporary", "deleted"}, snapshot : Object]
      /\ it.snapshot.id = k
      /\ it.at \in Allowed(txn.phase)
  <2>1. txn.items[k] \in [at : {"source", "temporary", "deleted"}, snapshot : Object]
    BY <1>2 DEF Sound, Transactions
  <2>2. CASE txn.step = "evacuate"
    BY <1>2, <1>3, <2>2 DEF StepMatchesPhase, Allowed
  <2>3. CASE txn.step = "rollback"
    BY <1>2, <1>3, <2>3 DEF StepMatchesPhase, Allowed
  <2>4. CASE txn.step = "erase"
    BY <1>2, <2>1, <2>4 DEF StepMatchesPhase, Allowed, Sound
  <2> QED
    BY <1>2, <2>2, <2>3, <2>4
<1>6. t \in Transactions
  <2>1. t = [ClearActive(txn) EXCEPT !.items[k] = it]
    BY DEF Applied
  <2> HIDE DEF t, it
  <2>2. ClearActive(txn) \in Transactions
    BY <1>2, StepTypes DEF Sound
  <2> QED
    BY <1>2, <1>5, <2>1, <2>2 DEF Transactions
<1> HIDE DEF t
<1>7. \A i \in Items : t.items[i].snapshot.id = i /\ t.items[i].at \in Allowed(t.phase)
  BY <1>2, <1>4, <1>5 DEF Sound, Valid
<1>8. Sound(t)
  BY <1>4, <1>6, <1>7 DEF Sound, Valid, StepMatchesPhase
<1>9. /\ txn = journal.current
      /\ txn.step = "evacuate" =>
           /\ late.step # "evacuate" /\ dir[Hidden(k)].id = k
           /\ dir[Old(k)].id # k /\ t.items[k].at = "temporary"
  <2>1. \A i \in Items : Hidden(i) \in Name /\ Old(i) \in Name /\ Old(i) # Hidden(i)
    BY DEF Hidden, Old, Name
  <2>2. k # 0
    BY <1>2, DeleteAssumption DEF Items
  <2> QED
    BY <1>1, <1>2, <1>4, <2>1, <2>2, ActiveRecord DEF IInv, WorkerFollows, NamesAreUnique
<1>10. OnTheWay(t)
  <2>1. ASSUME txn.phase \in {"prepared", "evacuating"} PROVE txn.step = "evacuate"
    BY <1>2, <2>1 DEF StepMatchesPhase
  <2> QED
    BY <1>1, <1>2, <1>4, <1>9, <2>1, ActiveRecord DEF OnTheWay
<1>11. OwnNames(t)
  BY <1>1, <1>2, <1>4, <1>9, ActiveRecord DEF OwnNames
<1>12. Follows(t)
  BY <1>1, <1>4, <1>8, <1>9, <1>10, <1>11, ActiveRecord DEF Follows, Before, After
<1> QED
  BY <1>1, <1>4, <1>12, RecordKeeps

LEMMA TurnAroundKeeps ==
  ASSUME IInv, TurnAround
  PROVE  IInv'
<1> DEFINE t == [ClearActive(txn) EXCEPT !.phase = "rollback"]
<1>1. Record(t, "loop") /\ Quiet /\ UNCHANGED faults
  BY DEF TurnAround, Answer
<1>2. Follows(t) /\ t.step = "none"
  BY PutAside DEF TurnAround, Answer
<1> HIDE DEF t
<1> QED
  BY <1>1, <1>2, RecordKeeps

LEMMA RepeatEraseKeeps ==
  ASSUME IInv, RepeatErase
  PROVE  IInv'
<1>1. Record(ClearActive(txn), "loop") /\ Quiet /\ UNCHANGED faults
  BY DEF RepeatErase, Answer
<1>2. Follows(ClearActive(txn)) /\ ClearActive(txn).step = "none"
  BY PutAside DEF RepeatErase, RepeatsErase, Answer
<1> QED
  BY <1>1, <1>2, RecordKeeps

LEMMA NotCommittedKeeps ==
  ASSUME IInv, NotCommitted
  PROVE  IInv'
<1>1. Follows(ClearActive(txn))
  BY PutAside DEF NotCommitted, Answer
<1> QED
  BY <1>1, RecordAndEndKeeps DEF NotCommitted, Answer

LEMMA StopAtMissingKeeps ==
  ASSUME IInv, StopAtMissing
  PROVE  IInv'
<1> DEFINE t == IF txn.step = "evacuate" THEN [ClearActive(txn) EXCEPT !.phase = "rollback"]
                ELSE ClearActive(txn)
<1>1. Follows(t)
  BY PutAside DEF StopAtMissing, Answer
<1>2. RecordAndEnd(t, "interrupted") /\ Quiet /\ Fault
  BY DEF StopAtMissing, Answer
<1> HIDE DEF t
<1> QED
  BY <1>1, <1>2, RecordAndEndKeeps

LEMMA UncertainKeeps ==
  ASSUME IInv, Uncertain
  PROVE  IInv'
<1>1. pc = "answer" /\ txn.step # "none" /\ txn = journal.current
  BY DEF IInv, WorkerFollows, Uncertain, Answer
<1>2. Sound(txn) /\ StepMatchesPhase(txn)
  BY <1>1, ActiveRecord DEF Sound, Valid
<1>3. Follows(txn)
  BY <1>1, <1>2, ActiveRecord DEF Follows
<1> QED
  BY <1>3, RecordAndEndKeeps DEF Uncertain, Answer

-----------------------------------------------------------------------------
(* The steps that touch the files.                                         *)

LEMMA Names ==
  /\ \A i \in Items : i # 0 /\ Old(i) \in Name /\ Hidden(i) \in Name
  /\ \A i, j \in Items :
       /\ Old(i) # Hidden(j)
       /\ Old(i) = Old(j) => i = j
       /\ Hidden(i) = Hidden(j) => i = j
  /\ Nothing \in Object /\ Nothing.id = 0
<1>1. \A i \in Items : i # 0
  BY DeleteAssumption DEF Items
<1>2. Nothing \in Object /\ Nothing.id = 0
  BY DeleteAssumption DEF Nothing, File, Object
<1> QED
  BY <1>1, <1>2 DEF Old, Hidden, Name

(* A rename to a free name loses nothing, and an erasure confuses nothing. *)
LEMMA Moving ==
  ASSUME TypeOK, NamesAreUnique, UNCHANGED meddling,
         NEW from \in Name, NEW to \in Name, from # to, dir[to] = Nothing,
         dir' = [dir EXCEPT ![to] = dir[from], ![from] = Nothing]
  PROVE  /\ dir' \in [Name -> Object] /\ NamesAreUnique'
         /\ \A id : id # 0 => (Exists(dir', id) <=> Exists(dir, id))
<1>1. dir' \in [Name -> Object]
  BY Names DEF TypeOK
<1>2. /\ dir'[to] = dir[from] /\ dir'[from] = Nothing
      /\ \A n \in Name : n # from /\ n # to => dir'[n] = dir[n]
      /\ 0 <= Count + meddling
  BY DeleteAssumption DEF TypeOK
<1>3. NamesAreUnique'
  <2>1. \A n \in Name : dir'[n].id <= Count + meddling /\ (dir'[n].id = 0 => dir'[n] = Nothing)
    BY <1>2, Names DEF NamesAreUnique
  <2>2. ASSUME NEW n \in Name, NEW m \in Name, dir'[n].id = dir'[m].id, dir'[n].id # 0
        PROVE  n = m
    <3> DEFINE was(x) == IF x = to THEN from ELSE x
    <3>1. n # from /\ m # from
      BY <1>2, <2>2, Names
    <3>2. dir'[n] = dir[was(n)] /\ dir'[m] = dir[was(m)] /\ was(n) \in Name /\ was(m) \in Name
      BY <1>2, <3>1
    <3>3. was(n) = was(m)
      BY <2>2, <3>2 DEF NamesAreUnique
    <3> QED
      BY <3>1, <3>3
  <2> QED
    BY <2>1, <2>2 DEF NamesAreUnique
<1>4. ASSUME NEW id, id # 0 PROVE Exists(dir', id) <=> Exists(dir, id)
  BY <1>2, <1>4, Names, ZenonT(60) DEF Exists
<1> QED
  BY <1>1, <1>3, <1>4

LEMMA Erasing ==
  ASSUME TypeOK, NamesAreUnique, UNCHANGED meddling, NEW from \in Name,
         dir' = [dir EXCEPT ![from] = Nothing]
  PROVE  dir' \in [Name -> Object] /\ NamesAreUnique'
<1>1. dir' \in [Name -> Object]
  BY Names DEF TypeOK
<1>2. /\ dir'[from] = Nothing /\ \A n \in Name : n # from => dir'[n] = dir[n]
      /\ 0 <= Count + meddling
  BY DeleteAssumption DEF TypeOK
<1>3. NamesAreUnique'
  <2>1. \A n \in Name : dir'[n].id <= Count + meddling /\ (dir'[n].id = 0 => dir'[n] = Nothing)
    BY <1>2, Names DEF NamesAreUnique
  <2>2. ASSUME NEW n \in Name, NEW m \in Name, dir'[n].id = dir'[m].id, dir'[n].id # 0
        PROVE  n = m
    BY <1>2, <2>2, Names DEF NamesAreUnique
  <2> QED
    BY <2>1, <2>2 DEF NamesAreUnique
<1> QED
  BY <1>1, <1>3

(* The names that the step on record is about.                             *)
LEMMA StepNames ==
  ASSUME IInv, pc \in {"execute", "reconcile", "answer"}
  PROVE  /\ txn = journal.current /\ txn.index \in Items
         /\ Expected \in Object /\ Expected.id = txn.index
         /\ From \in Name /\ To \in Name /\ From # To
         /\ \/ /\ txn.step = "evacuate" /\ txn.phase = "evacuating"
               /\ txn.items[txn.index].at = "source"
               /\ From = Old(txn.index) /\ To = Hidden(txn.index)
            \/ /\ txn.step = "rollback" /\ txn.phase = "rollback"
               /\ From = Hidden(txn.index) /\ To = Old(txn.index)
            \/ /\ txn.step = "erase" /\ txn.phase = "deleting"
               /\ From = Hidden(txn.index) /\ To = Old(txn.index)
<1>1. /\ Sound(txn) /\ StepMatchesPhase(txn) /\ txn = journal.current
      /\ txn.step \in {"evacuate", "erase", "rollback"}
  BY ActiveRecord DEF IInv, WorkerFollows, Sound, Transactions, Valid
<1>2. txn.index \in Items
  BY <1>1 DEF StepMatchesPhase, At
<1>3. Expected \in Object /\ Expected.id = txn.index
  BY <1>1, <1>2 DEF Expected, Sound, Transactions
<1>4. CASE txn.step = "evacuate"
  <2>1. txn.phase = "evacuating" /\ txn.items[txn.index].at = "source"
    BY <1>1, <1>4 DEF StepMatchesPhase, At
  <2>2. From = Old(txn.index) /\ To = Hidden(txn.index)
    BY <1>4, <2>1 DEF From, To, NameAt
  <2> QED
    BY <1>1, <1>2, <1>3, <1>4, <2>1, <2>2, Names
<1>5. CASE txn.step \in {"rollback", "erase"}
  <2>1. /\ txn.items[txn.index].at = "temporary"
        /\ txn.phase = (IF txn.step = "rollback" THEN "rollback" ELSE "deleting")
    BY <1>1, <1>5 DEF StepMatchesPhase, At
  <2>2. From = Hidden(txn.index) /\ To = Old(txn.index)
    BY <1>5, <2>1 DEF From, To, NameAt
  <2>3. Old(txn.index) # Hidden(txn.index)
    BY <1>2, Names
  <2> QED
    BY <1>1, <1>2, <1>3, <1>5, <2>1, <2>2, <2>3, Names
<1> QED
  BY <1>1, <1>4, <1>5

LEMMA EffectKeeps ==
  ASSUME IInv, pc = "execute", Effect,
         UNCHANGED <<journal, report, late, meddling, taken, strayed>>
  PROVE  /\ dir' \in [Name -> Object] /\ restored' \in SUBSET Items
         /\ NamesAreUnique' /\ LateIsACall' /\ Sides' /\ OlderRecord'
         /\ Verdict = "committed" =>
              /\ dir[From].id = txn.index
              /\ txn.step = "evacuate" => dir'[Hidden(txn.index)].id = txn.index
<1> DEFINE k == txn.index
<1>1. CASE Verdict # "committed"
  BY <1>1 DEF Effect, IInv, TypeOK, NamesAreUnique, LateIsACall, Sides, OlderRecord,
     Kept, Lost, Erased, Exists, OnTheWay, OwnNames, Before, After
<1>2. CASE Verdict = "committed"
  <2>0. dir \in [Name -> Object]
    BY DEF IInv, TypeOK
  <2>1. dir[From] = Expected /\ (txn.step # "erase" => dir[To] = Nothing)
    BY <1>2 DEF Verdict
  <2>2. /\ dir' = Moved
        /\ restored' = restored \union (IF txn.step = "rollback" THEN {k} ELSE {})
    BY <1>2 DEF Effect
  <2>3. restored' \in SUBSET Items
    BY <2>2, StepNames DEF IInv, TypeOK
  <2>4. dir[From].id = k
    BY <2>1, StepNames
  <2>5. CASE txn.step = "evacuate"
    <3>1. /\ txn.phase = "evacuating" /\ From = Old(k) /\ To = Hidden(k) /\ k \in Items
          /\ txn = journal.current
      BY <2>5, StepNames
    <3>2. dir' = [dir EXCEPT ![To] = dir[From], ![From] = Nothing] /\ restored' = restored
      BY <2>2, <2>5 DEF Moved
    <3>3. /\ dir' \in [Name -> Object] /\ NamesAreUnique'
          /\ \A id : id # 0 => (Exists(dir', id) <=> Exists(dir, id))
      BY <2>1, <2>5, <3>2, StepNames, Moving DEF IInv
    <3>4. /\ dir'[Hidden(k)] = dir[From] /\ dir'[Old(k)] = Nothing
          /\ \A i \in Items : i # k => dir'[Old(i)] = dir[Old(i)] /\ dir'[Hidden(i)] = dir[Hidden(i)]
      BY <2>0, <3>1, <3>2, Names
    <3>5. LateIsACall'
      BY <2>5 DEF IInv, LateIsACall, WorkerFollows
    <3>6. Kept' /\ Kept
      BY <3>1, <3>3, Names, ActiveRecord DEF Kept, Erased, Before
    <3>7. OnTheWay(journal.current)'
      BY <3>1, <3>2, <3>4, Names, ActiveRecord, ZenonT(60) DEF OnTheWay
    <3>8. OwnNames(journal.current)'
      BY <2>5, <3>1, <3>4, ActiveRecord DEF OwnNames
    <3>9. Sides'
      BY <3>1, <3>6, <3>7, <3>8 DEF Sides, After, NoTxn
    <3>10. OlderRecord'
      BY <3>1 DEF OlderRecord
    <3> QED
      BY <2>3, <2>4, <3>3, <3>4, <3>5, <3>9, <3>10
  <2>6. CASE txn.step = "rollback"
    <3>1. /\ txn.phase = "rollback" /\ From = Hidden(k) /\ To = Old(k) /\ k \in Items
          /\ txn = journal.current
      BY <2>6, StepNames
    <3>2. dir' = [dir EXCEPT ![To] = dir[From], ![From] = Nothing]
      BY <2>2, <2>6 DEF Moved
    <3>3. /\ dir' \in [Name -> Object] /\ NamesAreUnique'
          /\ \A id : id # 0 => (Exists(dir', id) <=> Exists(dir, id))
      BY <2>1, <2>6, <3>2, StepNames, Moving DEF IInv
    <3>4. /\ dir'[Hidden(k)] = Nothing
          /\ \A i \in Items : i # k => dir'[Hidden(i)] = dir[Hidden(i)]
      BY <2>0, <3>1, <3>2, Names
    <3>5. LateIsACall'
      BY <3>4, Names DEF IInv, LateIsACall
    <3>6. Kept'
      BY <3>1, <3>3, Names, ActiveRecord DEF Kept, Erased, Before
    <3>7. Sides'
      BY <3>1, <3>6 DEF Sides, After, OnTheWay, OwnNames, NoTxn
    <3>8. OlderRecord'
      BY <2>6, <3>1 DEF IInv, OlderRecord, OnTheWay, OwnNames
    <3> QED
      BY <2>3, <2>4, <2>6, <3>3, <3>5, <3>7, <3>8
  <2>7. CASE txn.step = "erase"
    <3>1. /\ txn.phase = "deleting" /\ From = Hidden(k) /\ k \in Items
          /\ txn = journal.current
      BY <2>7, StepNames
    <3>2. dir' = [dir EXCEPT ![From] = Nothing] /\ restored' = restored
      BY <2>2, <2>7 DEF Moved
    <3>3. dir' \in [Name -> Object] /\ NamesAreUnique'
      BY <3>2, StepNames, Erasing DEF IInv
    <3>4. /\ dir'[Hidden(k)] = Nothing
          /\ \A i \in Items : dir'[Old(i)] = dir[Old(i)]
          /\ \A i \in Items : i # k => dir'[Hidden(i)] = dir[Hidden(i)]
      BY <2>0, <3>1, <3>2, Names
    <3>5. LateIsACall'
      BY <3>4, Names DEF IInv, LateIsACall
    <3>6. Lost'
      BY <3>1, <3>2, <3>4, ActiveRecord DEF Lost, After
    <3>7. OwnNames(journal.current)'
      BY <3>1, <3>4, Names, ActiveRecord DEF OwnNames
    <3>8. Sides'
      BY <3>1, <3>6, <3>7 DEF Sides, Before, OnTheWay, NoTxn
    <3>9. OlderRecord'
      BY <3>1 DEF IInv, OlderRecord
    <3> QED
      BY <2>3, <2>4, <2>7, <3>3, <3>5, <3>8, <3>9
  <2> QED
    BY <2>5, <2>6, <2>7, StepNames
<1> QED
  BY <1>1, <1>2

(* Steps of the worker that leave the files and the journal alone.         *)
LEMMA ControlKeeps ==
  ASSUME IInv, Quiet, UNCHANGED journal, TypeOK', WorkerFollows',
         journal.current = NoTxn /\ report' = "new" => report = "new"
  PROVE  IInv'
BY DEF IInv, Quiet, Recorded, NamesAreUnique, LateIsACall, Sides, OlderRecord,
   Kept, Lost, Erased, Exists, OnTheWay, OwnNames, Before, After

LEMMA ExecuteKeeps ==
  ASSUME IInv, Execute
  PROVE  IInv'
<1> DEFINE k == txn.index
           Gone(next, c) == Goto(next, c) /\ UNCHANGED <<meddling, taken, strayed>>
<1>1. pc = "execute" /\ UNCHANGED <<meddling, taken, strayed>>
  BY DEF Execute
<1>2. /\ NoCall \in CallType
      /\ \A v \in {"none", "committed", "no_commit", "changed", "not_found"}, o \in Object :
           [NoCall EXCEPT !.verdict = v, !.object = o] \in CallType
      /\ [NoCall EXCEPT !.verdict = "no_commit"] \in CallType
  BY Names DEF NoCall, CallType
<1>3. dir[From] \in Object /\ Verdict \in {"committed", "no_commit", "not_found"}
  BY <1>1, StepNames DEF IInv, TypeOK, Verdict
<1>4. Fault => faults' \in 0..MaxFaults
  BY DeleteAssumption DEF Fault, IInv, TypeOK
<1>5. UNCHANGED faults => faults' \in 0..MaxFaults
  BY DEF IInv, TypeOK
<1>6. txn = journal.current /\ txn # NoTxn /\ txn.step # "none"
  BY <1>1 DEF IInv, WorkerFollows
<1>7. CASE /\ Effect
           /\ Goto("answer", [NoCall EXCEPT !.verdict = Verdict, !.object = dir[From]])
           /\ UNCHANGED <<faults, late>>
  <2>1. /\ dir' \in [Name -> Object] /\ restored' \in SUBSET Items
        /\ NamesAreUnique' /\ LateIsACall' /\ Sides' /\ OlderRecord'
        /\ Verdict = "committed" =>
             /\ dir[From].id = k
             /\ txn.step = "evacuate" => dir'[Hidden(k)].id = k
    BY <1>1, <1>7, EffectKeeps DEF Goto
  <2>2. call' \in CallType
    BY <1>2, <1>3, <1>7 DEF Goto
  <2>3. TypeOK'
    BY <1>1, <1>5, <1>7, <2>1, <2>2 DEF IInv, TypeOK, Goto
  <2>4. call'.verdict = Verdict /\ call'.object = dir[From]
    BY <1>7 DEF Goto, NoCall
  <2>5. WorkerFollows'
    BY <1>1, <1>6, <1>7, <2>1, <2>4 DEF IInv, WorkerFollows, Goto
  <2> QED
    BY <1>7, <2>1, <2>3, <2>5 DEF IInv, Goto, Recorded
<1>8. CASE /\ Fault /\ UNCHANGED <<dir, restored, late>>
           /\ Goto("answer", [NoCall EXCEPT !.verdict = "no_commit"])
  <2>1. TypeOK'
    BY <1>1, <1>2, <1>4, <1>8 DEF IInv, TypeOK, Goto
  <2>2. WorkerFollows'
    BY <1>1, <1>6, <1>8 DEF IInv, WorkerFollows, Goto, NoCall
  <2> QED
    BY <1>1, <1>8, <2>1, <2>2, ControlKeeps DEF Quiet, Goto
<1>9. CASE Fault /\ UNCHANGED <<dir, restored, late>> /\ Goto("reconcile", NoCall)
  <2>1. TypeOK'
    BY <1>1, <1>2, <1>4, <1>9 DEF IInv, TypeOK, Goto
  <2>2. WorkerFollows'
    BY <1>1, <1>6, <1>9 DEF IInv, WorkerFollows, Goto
  <2> QED
    BY <1>1, <1>9, <2>1, <2>2, ControlKeeps DEF Quiet, Goto
<1>10. CASE Fault /\ UNCHANGED late /\ Effect /\ Goto("reconcile", NoCall)
  <2>1. /\ dir' \in [Name -> Object] /\ restored' \in SUBSET Items
        /\ NamesAreUnique' /\ LateIsACall' /\ Sides' /\ OlderRecord'
    BY <1>1, <1>10, EffectKeeps DEF Goto
  <2>2. TypeOK'
    BY <1>1, <1>2, <1>4, <1>10, <2>1 DEF IInv, TypeOK, Goto
  <2>3. WorkerFollows'
    BY <1>1, <1>6, <1>10 DEF IInv, WorkerFollows, Goto
  <2> QED
    BY <1>10, <2>1, <2>2, <2>3 DEF IInv, Goto, Recorded
<1>11. CASE Fault /\ Stuck /\ Goto("reconcile", NoCall)
  <2>1. /\ late' = [step |-> txn.step, of |-> k] /\ UNCHANGED <<dir, restored>>
        /\ k \in Items /\ k \in 0..Count
        /\ txn.step \in {"none", "evacuate", "erase", "rollback"}
    BY <1>1, <1>11, StepNames, DeleteAssumption DEF Stuck, Items
  <2>2. TypeOK'
    BY <1>1, <1>2, <1>4, <1>11, <2>1 DEF IInv, TypeOK, Goto
  <2>3. WorkerFollows'
    BY <1>1, <1>6, <1>11 DEF IInv, WorkerFollows, Goto
  <2>4. txn.step = "evacuate" => dir[Hidden(k)] = Nothing
    BY <1>1, <1>11, StepNames DEF Stuck, Verdict
  <2>5. LateIsACall'
    BY <1>6, <2>1, <2>4, Names DEF LateIsACall
  <2>6. Sides'
    BY <1>1, <1>6, <1>11, <2>1, StepNames DEF IInv, Sides, Kept, Lost, Erased, Exists, Before, After,
       OnTheWay, OwnNames, Goto
  <2>7. OlderRecord'
    BY <1>1, <1>6, <1>11, <2>1, StepNames DEF IInv, OlderRecord, OnTheWay, OwnNames, Goto
  <2>8. NamesAreUnique'
    BY <1>1, <2>1 DEF IInv, NamesAreUnique
  <2> QED
    BY <1>11, <2>2, <2>3, <2>5, <2>6, <2>7, <2>8 DEF IInv, Goto, Recorded
<1> QED
  BY <1>7, <1>8, <1>9, <1>10, <1>11 DEF Execute

LEMMA ReconcileKeeps ==
  ASSUME IInv, Reconcile
  PROVE  IInv'
<1> DEFINE k == txn.index
<1>1. pc = "reconcile" /\ Quiet /\ UNCHANGED journal /\ report' = report /\ pc' = "answer"
  BY DEF Reconcile, Goto
<1>2. faults' \in 0..MaxFaults
  BY DeleteAssumption DEF IInv, TypeOK, Reconcile, Fault
<1>3. /\ txn' = txn /\ txn = journal.current /\ txn # NoTxn /\ txn.step # "none"
      /\ k \in Items
  BY <1>1, StepNames DEF IInv, WorkerFollows, Reconcile, Goto
<1>4. call \in CallType /\ dir[To] \in Object
  BY <1>1, StepNames DEF IInv, TypeOK
<1>5. CASE Goto("answer", [call EXCEPT !.verdict = "none"])
  <2>1. TypeOK'
    BY <1>1, <1>2, <1>3, <1>4, <1>5 DEF IInv, TypeOK, Quiet, Goto, CallType
  <2>2. WorkerFollows'
    BY <1>1, <1>3, <1>4, <1>5 DEF WorkerFollows, Goto, CallType
  <2> QED
    BY <1>1, <2>1, <2>2, ControlKeeps
<1>6. CASE txn.step = "erase" /\ Goto("answer", [call EXCEPT !.verdict = ReconciledDelete])
  <2>1. /\ txn.phase = "deleting" /\ From = Hidden(k) /\ Expected.id = k /\ From \in Name
    BY <1>1, <1>6, StepNames
  <2>2. dir[From].id \in {0, k}
    BY <1>1, <1>3, <1>6, <2>1, ActiveRecord DEF OwnNames
  <2>3. dir[From] = Nothing \/ dir[From].id = Expected.id
    BY <2>1, <2>2 DEF IInv, NamesAreUnique
  <2>4. ReconciledDelete \in {"none", "no_commit", "changed"}
    BY <2>3 DEF ReconciledDelete
  <2>5. call' \in CallType /\ call'.verdict # "committed"
    BY <1>4, <1>6, <2>4 DEF Goto, CallType
  <2>6. TypeOK'
    BY <1>1, <1>2, <1>3, <2>5 DEF IInv, TypeOK, Quiet
  <2>7. WorkerFollows'
    BY <1>1, <1>3, <2>5 DEF WorkerFollows
  <2> QED
    BY <1>1, <2>6, <2>7, ControlKeeps
<1>7. CASE /\ txn.step # "erase"
           /\ Goto("answer", [call EXCEPT !.verdict = ReconciledRename, !.object = dir[To]])
  <2>1. ReconciledRename \in {"committed", "no_commit", "changed", "none"}
    BY DEF ReconciledRename
  <2>2. /\ call' \in CallType /\ call'.verdict = ReconciledRename /\ call'.object = dir[To]
    BY <1>4, <1>7, <2>1 DEF Goto, CallType
  <2>3. ReconciledRename = "committed" => dir[To].id = k
    BY <1>1, StepNames DEF ReconciledRename
  <2>4. ReconciledRename = "committed" /\ txn.step = "evacuate" =>
          dir[Hidden(k)].id = k /\ late.step # "evacuate"
    <3>1. SUFFICES ASSUME ReconciledRename = "committed", txn.step = "evacuate"
                   PROVE  dir[Hidden(k)].id = k /\ late.step # "evacuate"
      OBVIOUS
    <3>2. dir[Hidden(k)].id = k /\ txn.phase = "evacuating"
      BY <1>1, <2>3, <3>1, StepNames
    <3>3. late.step = "evacuate" => late.of = k
      BY <1>1, <3>2, ActiveRecord DEF OwnNames
    <3> QED
      BY <3>2, <3>3 DEF IInv, LateIsACall, NotLate
  <2>5. TypeOK'
    BY <1>1, <1>2, <1>3, <2>2 DEF IInv, TypeOK, Quiet
  <2>6. WorkerFollows'
    BY <1>1, <1>3, <2>2, <2>3, <2>4 DEF WorkerFollows, Quiet
  <2> QED
    BY <1>1, <2>5, <2>6, ControlKeeps
<1> QED
  BY <1>5, <1>6, <1>7 DEF Reconcile

LEMMA LookAgainKeeps ==
  ASSUME IInv, LookAgain
  PROVE  IInv'
<1>1. TypeOK' /\ WorkerFollows'
  BY DEF IInv, TypeOK, WorkerFollows, LookAgain, Goto, Answer, Quiet
<1> QED
  BY <1>1, ControlKeeps DEF LookAgain, Goto, Answer

LEMMA ResumeKeeps ==
  ASSUME IInv, Resume
  PROVE  IInv'
<1>1. NoCall \in CallType /\ [NoCall EXCEPT !.recovering = TRUE] \in CallType
  BY Names DEF NoCall, CallType
<1>2. TypeOK'
  BY <1>1 DEF IInv, TypeOK, Resume, Quiet
<1>3. WorkerFollows'
  BY DEF WorkerFollows, Resume, Quiet
<1> QED
  BY <1>2, <1>3, ControlKeeps DEF Resume

LEMMA InterruptKeeps ==
  ASSUME IInv, Interrupt
  PROVE  IInv'
<1>1. NoCall \in CallType /\ NoTxn \in TransactionType
  BY Names DEF NoCall, CallType, TransactionType
<1>2. faults' \in 0..MaxFaults
  BY DeleteAssumption DEF IInv, TypeOK, Interrupt, Fault
<1>3. TypeOK'
  BY <1>1, <1>2 DEF IInv, TypeOK, Interrupt, Quiet, EndRun
<1>4. WorkerFollows'
  BY DEF WorkerFollows, Interrupt, EndRun
<1> QED
  BY <1>3, <1>4, ControlKeeps DEF Interrupt, EndRun

(* The server answers a stuck call: whose step it was decides the side it  *)
(* can do harm on.                                                         *)
LEMMA LateEffectKeeps ==
  ASSUME IInv, LateEffect
  PROVE  IInv'
<1> DEFINE i == late.of
<1>1. /\ late.step \in {"evacuate", "erase", "rollback"} /\ i \in Items
      /\ late' = NotLate /\ late'.step = "none"
      /\ UNCHANGED <<journal, txn, pc, call, report, faults, meddling, taken>>
      /\ ~(journal.current = NoTxn /\ report = "new")
  BY DEF IInv, TypeOK, LateIsACall, LateEffect, NotLate, Sides
<1>2. dir \in [Name -> Object] /\ NotLate \in [step : {"none", "evacuate", "erase", "rollback"}, of : 0..Count]
  BY DeleteAssumption DEF IInv, TypeOK, NotLate
<1>3. LateIsACall'
  BY <1>1 DEF LateIsACall
<1>4. SUFFICES /\ dir' \in [Name -> Object] /\ restored' \in SUBSET Items /\ strayed' \in SUBSET Items
               /\ NamesAreUnique' /\ WorkerFollows' /\ Sides' /\ OlderRecord'
  BY <1>1, <1>2, <1>3 DEF IInv, TypeOK, Recorded
<1>5. CASE UNCHANGED <<dir, restored, strayed>>
  BY <1>1, <1>5 DEF IInv, TypeOK, NamesAreUnique, WorkerFollows, Sides, OlderRecord,
     Kept, Lost, Erased, Exists, OnTheWay, OwnNames, Before, After
<1>6. CASE late.step = "evacuate" /\ dir[Old(i)] # Nothing /\ dir[Hidden(i)] = Nothing
           /\ dir' = [dir EXCEPT ![Old(i)] = Nothing, ![Hidden(i)] = dir[Old(i)]]
           /\ restored' = restored /\ strayed' \in {strayed, strayed \union {i}}
  <2>1. dir' = [dir EXCEPT ![Hidden(i)] = dir[Old(i)], ![Old(i)] = Nothing]
    BY <1>1, <1>2, <1>6, Names
  <2>2. /\ dir' \in [Name -> Object] /\ NamesAreUnique'
        /\ \A id : id # 0 => (Exists(dir', id) <=> Exists(dir, id))
    BY <1>1, <1>6, <2>1, Names, Moving DEF IInv
  <2>3. /\ dir'[Old(i)] = Nothing
        /\ \A j \in Items : j # i => dir'[Old(j)] = dir[Old(j)] /\ dir'[Hidden(j)] = dir[Hidden(j)]
    BY <1>1, <1>2, <2>1, Names
  <2>4. /\ Kept => Kept'
        /\ Lost => Lost'
        /\ \A t : OnTheWay(t) => OnTheWay(t)'
    BY <1>1, <1>6, <2>2, <2>3, Names DEF Kept, Lost, Erased, OnTheWay
  <2>5. \A t : OwnNames(t) => OwnNames(t)'
    BY <1>1, <1>6, <2>3 DEF OwnNames
  <2>6. WorkerFollows'
    BY <1>1, <1>6 DEF IInv, WorkerFollows
  <2>7. Sides' /\ OlderRecord'
    BY <1>1, <2>4, <2>5 DEF IInv, Sides, OlderRecord
  <2> QED
    BY <1>1, <1>6, <2>2, <2>6, <2>7 DEF IInv, TypeOK
<1>7. CASE late.step = "rollback" /\ dir[Hidden(i)] # Nothing /\ dir[Old(i)] = Nothing
           /\ dir' = [dir EXCEPT ![Hidden(i)] = Nothing, ![Old(i)] = dir[Hidden(i)]]
           /\ restored' = restored \union {i} /\ strayed' = strayed
  <2>1. dir' = [dir EXCEPT ![Old(i)] = dir[Hidden(i)], ![Hidden(i)] = Nothing]
    BY <1>1, <1>2, <1>7, Names
  <2>2. /\ dir' \in [Name -> Object] /\ NamesAreUnique'
        /\ \A id : id # 0 => (Exists(dir', id) <=> Exists(dir, id))
    BY <1>1, <1>7, <2>1, Names, Moving DEF IInv
  <2>3. /\ Kept'
        /\ journal.current.phase \notin
             {"prepared", "evacuating", "permanent_delete_intent", "deleting"}
    BY <1>1, <1>7, <2>2, Names DEF IInv, Sides, Kept, Lost, Erased, Before, After, OnTheWay
  <2>4. WorkerFollows'
    BY <1>1, <1>7, <2>3, StepNames DEF IInv, WorkerFollows
  <2>5. Sides'
    BY <1>1, <2>3 DEF Sides, After, OnTheWay, OwnNames
  <2>6. OlderRecord'
    BY <1>1, <1>7, <2>3 DEF IInv, OlderRecord, OnTheWay, OwnNames
  <2> QED
    BY <1>1, <1>7, <2>2, <2>4, <2>5, <2>6 DEF IInv, TypeOK
<1>8. CASE late.step = "erase" /\ dir' = [dir EXCEPT ![Hidden(i)] = Nothing]
           /\ restored' = restored /\ strayed' = strayed
  <2>1. dir' \in [Name -> Object] /\ NamesAreUnique'
    BY <1>1, <1>8, Names, Erasing DEF IInv
  <2>2. /\ dir'[Hidden(i)] = Nothing
        /\ \A j \in Items : dir'[Old(j)] = dir[Old(j)]
        /\ \A j \in Items : j # i => dir'[Hidden(j)] = dir[Hidden(j)]
    BY <1>1, <1>2, <1>8, Names
  <2>3. /\ Lost'
        /\ journal.current.phase \notin {"prepared", "evacuating", "rollback"}
    BY <1>1, <1>8, <2>2 DEF IInv, Sides, Kept, Lost, Before
  <2>4. WorkerFollows'
    BY <1>1, <1>8, <2>3, StepNames DEF IInv, WorkerFollows
  <2>5. OwnNames(journal.current) => OwnNames(journal.current)'
    BY <1>1, <2>2, Names DEF OwnNames
  <2>6. Sides' /\ OlderRecord'
    BY <1>1, <2>3, <2>5 DEF IInv, Sides, OlderRecord, Before, OnTheWay
  <2> QED
    BY <1>1, <1>8, <2>1, <2>4, <2>6 DEF IInv, TypeOK
<1>9. late.step = "erase" =>
        [dir EXCEPT ![Hidden(i)] = Nothing, ![Old(i)] = @] = [dir EXCEPT ![Hidden(i)] = Nothing]
  BY <1>1, <1>2, Names
<1> QED
  BY <1>1, <1>5, <1>6, <1>7, <1>8, <1>9 DEF LateEffect

-----------------------------------------------------------------------------
(* The end of the operation: the journal is removed, or half of it.        *)

LEMMA RetireKeeps ==
  ASSUME IInv, pc = "loop", txn.phase \in {"deleting", "rollback"}, At(txn, "temporary") = {},
         NEW outcome \in {"success", "rolled_back"}, Retire(outcome)
  PROVE  IInv'
<1> DEFINE new == journal.current
           old == journal.previous
<1>1. /\ txn = new /\ Sound(new) /\ new # NoTxn /\ new.step = "none"
      /\ Recorded(old)
      /\ Before(new.phase) => Kept
      /\ After(new.phase) => Lost
      /\ OnTheWay(new) /\ OwnNames(new)
  BY ActiveRecord DEF IInv, WorkerFollows
<1>2. Quiet /\ Ends /\ report' \in {"success", "rolled_back", "journal_error"}
  BY DEF Retire, EndRun, Ends
<1>3. faults' \in 0..MaxFaults
  BY DeleteAssumption DEF IInv, TypeOK, Retire, Fault
<1>4. /\ NoCall \in CallType /\ NoTxn \in TransactionType /\ NoTxn.phase = "none"
      /\ Recorded(NoTxn)
  BY Names DEF NoCall, CallType, TransactionType, Recorded, NoTxn
<1>5. new.phase = "deleting" => old.phase \in {"none", "deleting"}
  <2>1. SUFFICES ASSUME new.phase = "deleting" PROVE At(new, "deleted") # {}
    BY DEF IInv, OlderRecord
  <2>2. 1 \in Items
    BY DeleteAssumption DEF Items
  <2>3. new.items[1].at \in {"temporary", "deleted"}
    BY <1>1, <2>1, <2>2 DEF Sound, Valid, Allowed
  <2> QED
    BY <1>1, <2>2, <2>3 DEF At
<1>6. new.phase = "rollback" =>
        old.phase \in {"none", "evacuating", "rollback"} /\ OnTheWay(old) /\ OwnNames(old)
  BY DEF IInv, OlderRecord
<1>7. /\ \/ journal' = [current |-> new, previous |-> NoTxn]
         \/ journal' = [current |-> old, previous |-> NoTxn]
         \/ journal' = [current |-> NoTxn, previous |-> NoTxn]
  BY DEF Retire, EmptyJournal
<1>8. TypeOK'
  BY <1>2, <1>3, <1>4, <1>7 DEF IInv, TypeOK, Quiet, Ends
<1>9. /\ Recorded(journal.current)' /\ Recorded(journal.previous)' /\ NamesAreUnique'
      /\ LateIsACall' /\ WorkerFollows'
  BY <1>1, <1>2, <1>4, <1>7 DEF IInv, Recorded, NamesAreUnique, LateIsACall, WorkerFollows, Quiet, Ends
<1>10. Sides'
  <2>1. CASE journal'.current = NoTxn
    BY <1>2, <1>4, <2>1 DEF IInv, Sides, Quiet, Kept, Lost, Erased, Exists, Before, After, OnTheWay, OwnNames
  <2>2. CASE journal'.current = new
    BY <1>1, <1>2, <1>4, <2>2 DEF IInv, Sides, Quiet, Kept, Lost, Erased, Exists, Before, After, OnTheWay, OwnNames
  <2>3. CASE journal'.current = old
    <3>1. OwnNames(old) /\ OnTheWay(old)
      BY <1>1, <1>5, <1>6 DEF OwnNames, OnTheWay
    <3>2. (Before(old.phase) => Kept) /\ (After(old.phase) => Lost)
      BY <1>1, <1>5, <1>6 DEF Before, After
    <3> QED
      BY <1>2, <1>4, <2>3, <3>1, <3>2 DEF IInv, Sides, Quiet, Kept, Lost, Erased, Exists, OnTheWay, OwnNames
  <2> QED
    BY <1>7, <2>1, <2>2, <2>3
<1>11. OlderRecord'
  BY <1>4, <1>7 DEF OlderRecord, OnTheWay, OwnNames
<1> QED
  BY <1>8, <1>9, <1>10, <1>11 DEF IInv

-----------------------------------------------------------------------------
(* Other programs.                                                         *)

LEMMA EditKeeps ==
  ASSUME IInv, NEW n \in Name, Edit(n)
  PROVE  IInv'
<1>1. /\ dir' = [dir EXCEPT ![n].rev = meddling'] /\ taken' = taken /\ dir[n].id \in Items
      /\ meddling' = meddling + 1 /\ meddling \in Nat /\ meddling' \in 0..MaxMeddling
      /\ UNCHANGED <<journal, txn, pc, call, late, report, faults, restored, strayed>>
  BY DeleteAssumption DEF Edit, Meddles, IInv, TypeOK
<1>2. /\ dir' \in [Name -> Object]
      /\ \A m \in Name : dir'[m].id = dir[m].id /\ (m # n => dir'[m] = dir[m])
  BY <1>1 DEF IInv, TypeOK, Object
<1>3. dir'[n].id # 0
  BY <1>1, <1>2, Names
<1>4. TypeOK'
  BY <1>1, <1>2 DEF IInv, TypeOK
<1>5. NamesAreUnique'
  BY <1>1, <1>2, <1>3, DeleteAssumption DEF IInv, NamesAreUnique, TypeOK, Object
<1>6. \A i \in Items : dir'[Old(i)].id = dir[Old(i)].id /\ dir'[Hidden(i)].id = dir[Hidden(i)].id
  BY <1>2, Names
<1>7. LateIsACall' /\ WorkerFollows'
  BY <1>1, <1>6, StepNames DEF IInv, LateIsACall, WorkerFollows
<1>8. \A id : Exists(dir', id) <=> Exists(dir, id)
  BY <1>2 DEF Exists
<1>9. journal.current = NoTxn /\ report = "new" => \A i \in Items : dir'[Hidden(i)] = Nothing
  BY <1>1, <1>2, Names DEF IInv, Sides
<1>10. Sides'
  BY <1>1, <1>6, <1>8, <1>9 DEF IInv, Sides, Kept, Lost, Erased, OnTheWay, OwnNames
<1>11. OlderRecord'
  BY <1>1, <1>6 DEF IInv, OlderRecord, OnTheWay, OwnNames
<1> QED
  BY <1>1, <1>4, <1>5, <1>7, <1>10, <1>11 DEF IInv, Recorded

LEMMA RemoveKeeps ==
  ASSUME IInv, NEW i \in Items, Remove(i)
  PROVE  IInv'
<1>1. /\ dir' = [dir EXCEPT ![Old(i)] = Nothing] /\ dir[Old(i)] # Nothing
      /\ taken' = taken \union {dir[Old(i)].id}
      /\ meddling' = meddling + 1 /\ meddling \in Nat /\ meddling' \in 0..MaxMeddling
      /\ UNCHANGED <<journal, txn, pc, call, late, report, faults, restored, strayed>>
  BY DeleteAssumption DEF Remove, Meddles, IInv, TypeOK
<1>2. /\ dir' \in [Name -> Object]
      /\ dir'[Old(i)] = Nothing /\ \A m \in Name : m # Old(i) => dir'[m] = dir[m]
  BY <1>1, Names DEF IInv, TypeOK
<1>3. dir[Old(i)].id \in 1..(Count + MaxMeddling)
  BY <1>1, Names, DeleteAssumption DEF IInv, TypeOK, NamesAreUnique, Object
<1>4. TypeOK'
  BY <1>1, <1>2, <1>3 DEF IInv, TypeOK
<1>5. NamesAreUnique'
  <2>1. \A m \in Name : dir'[m].id <= Count + meddling' /\ (dir'[m].id = 0 => dir'[m] = Nothing)
    BY <1>1, <1>2, Names, DeleteAssumption DEF IInv, NamesAreUnique, TypeOK, Object
  <2>2. ASSUME NEW n \in Name, NEW m \in Name, dir'[n].id = dir'[m].id, dir'[n].id # 0
        PROVE  n = m
    BY <1>2, <2>2, Names DEF IInv, NamesAreUnique
  <2> QED
    BY <2>1, <2>2 DEF NamesAreUnique
<1>6. /\ \A j \in Items : dir'[Hidden(j)] = dir[Hidden(j)]
      /\ \A j \in Items : dir'[Old(j)].id \in {0, dir[Old(j)].id}
  BY <1>2, Names
<1>7. LateIsACall' /\ WorkerFollows'
  BY <1>1, <1>6, StepNames DEF IInv, LateIsACall, WorkerFollows
<1>8. Erased(dir)' \subseteq Erased(dir)
  BY <1>1, <1>2 DEF Erased, Exists
<1>9. (Kept => Kept') /\ (Lost => Lost')
  BY <1>1, <1>6, <1>8, Names DEF Kept, Lost
<1>10. \A t : OnTheWay(t) /\ OwnNames(t) => OnTheWay(t)' /\ OwnNames(t)'
  BY <1>1, <1>6, Names DEF OnTheWay, OwnNames
<1>11. Sides' /\ OlderRecord'
  BY <1>1, <1>6, <1>9, <1>10 DEF IInv, Sides, OlderRecord
<1> QED
  BY <1>1, <1>4, <1>5, <1>7, <1>11 DEF IInv, Recorded

LEMMA CreateKeeps ==
  ASSUME IInv, NEW i \in Items, Create(i)
  PROVE  IInv'
<1> DEFINE new == Count + meddling'
<1>1. /\ dir' = [dir EXCEPT ![Old(i)] = File(new, 0)] /\ dir[Old(i)] = Nothing
      /\ taken' = taken
      /\ meddling' = meddling + 1 /\ meddling \in Nat /\ meddling' \in 0..MaxMeddling
      /\ UNCHANGED <<journal, txn, pc, call, late, report, faults, restored, strayed>>
  BY DeleteAssumption DEF Create, Meddles, IInv, TypeOK
<1>2. File(new, 0) \in Object /\ File(new, 0).id = new /\ new > Count /\ new \in Nat
  BY <1>1, DeleteAssumption DEF File, Object
<1>3. /\ dir' \in [Name -> Object]
      /\ dir'[Old(i)] = File(new, 0) /\ \A m \in Name : m # Old(i) => dir'[m] = dir[m]
  BY <1>1, <1>2, Names DEF IInv, TypeOK
<1>4. new \notin Items /\ new # 0
  BY <1>2, DeleteAssumption DEF Items
<1>5. TypeOK'
  BY <1>1, <1>3 DEF IInv, TypeOK
<1>6. \A m \in Name : dir[m].id < new
  BY <1>1, DeleteAssumption DEF IInv, NamesAreUnique, TypeOK, Object
<1>7. NamesAreUnique'
  <2>1. \A m \in Name : dir'[m].id <= Count + meddling' /\ (dir'[m].id = 0 => dir'[m] = Nothing)
    BY <1>2, <1>3, <1>4, <1>6, DeleteAssumption DEF IInv, NamesAreUnique, TypeOK, Object
  <2>2. ASSUME NEW n \in Name, NEW m \in Name, dir'[n].id = dir'[m].id, dir'[n].id # 0
        PROVE  n = m
    BY <1>2, <1>3, <1>6, <2>2 DEF IInv, NamesAreUnique, TypeOK, Object
  <2> QED
    BY <2>1, <2>2 DEF NamesAreUnique
<1>8. /\ \A j \in Items : dir'[Hidden(j)] = dir[Hidden(j)]
      /\ \A j \in Items : dir'[Old(j)].id \in {new, dir[Old(j)].id}
      /\ \A id \in Items : Exists(dir, id) => Exists(dir', id)
  <2>1. \A j \in Items : dir'[Hidden(j)] = dir[Hidden(j)] /\ dir'[Old(j)].id \in {new, dir[Old(j)].id}
    BY <1>2, <1>3, Names
  <2>2. \A id \in Items : Exists(dir, id) => Exists(dir', id)
    BY <1>1, <1>3, Names DEF Exists
  <2> QED
    BY <2>1, <2>2
<1>9. LateIsACall' /\ WorkerFollows'
  BY <1>1, <1>8, StepNames DEF IInv, LateIsACall, WorkerFollows
<1>10. (Kept => Kept') /\ (Lost => Lost')
  BY <1>1, <1>4, <1>8 DEF Kept, Lost, Erased
<1>11. \A t : OnTheWay(t) /\ OwnNames(t) => OnTheWay(t)' /\ OwnNames(t)'
  BY <1>1, <1>4, <1>8 DEF OnTheWay, OwnNames
<1>12. Sides' /\ OlderRecord'
  BY <1>1, <1>8, <1>10, <1>11 DEF IInv, Sides, OlderRecord
<1> QED
  BY <1>1, <1>5, <1>7, <1>9, <1>12 DEF IInv, Recorded

-----------------------------------------------------------------------------
(* The theorems.                                                           *)

LEMMA InitHolds ==
  ASSUME Init
  PROVE  IInv
<1>1. /\ dir \in [Name -> Object]
      /\ \A i \in Items : dir[Old(i)] = File(i, 0) /\ dir[Hidden(i)] = Nothing
  BY Names, DeleteAssumption DEF Init, Name, Old, Hidden, Object, File, Items
<1>2. NoCall \in CallType /\ NoTxn \in TransactionType /\ NoTxn.phase = "none" /\ NoTxn.step = "none"
  BY Names DEF NoCall, CallType, TransactionType, NoTxn
<1>3. NotLate \in [step : {"none", "evacuate", "erase", "rollback"}, of : 0..Count]
      /\ NotLate.step = "none"
  BY DeleteAssumption DEF NotLate
<1>4. TypeOK
  BY <1>1, <1>2, <1>3, DeleteAssumption DEF Init, TypeOK, EmptyJournal
<1>5. NamesAreUnique
  <2>1. \A n \in Name :
          \/ n.is = "old" /\ n.of \in Items /\ dir[n].id = n.of
          \/ n.is = "hidden" /\ dir[n] = Nothing
    BY DEF Init, Name, File
  <2>2. \A n, m \in Name : n.is = m.is /\ n.of = m.of => n = m
    BY DEF Name
  <2>3. \A i \in Items : i <= Count + meddling
    BY DeleteAssumption DEF Init, Items
  <2>4. 0 <= Count + meddling
    BY DeleteAssumption DEF Init
  <2>5. \A n \in Name : dir[n].id <= Count + meddling /\ (dir[n].id = 0 => dir[n] = Nothing)
    BY <2>1, <2>3, <2>4, Names
  <2> QED
    BY <2>1, <2>2, <2>5, Names DEF NamesAreUnique
<1>6. Kept
  <2>1. ASSUME NEW i \in Items PROVE Exists(dir, i)
    <3>1. File(i, 0).id = i
      BY DEF File
    <3>2. dir[Old(i)].id = i
      BY <1>1, <3>1
    <3>3. Old(i) \in Name
      BY Names
    <3> QED
      BY <3>2, <3>3 DEF Exists
  <2> QED
    BY <1>3, <2>1 DEF Init, Kept, Erased
<1>7. LateIsACall /\ WorkerFollows
  BY DEF Init, LateIsACall, WorkerFollows
<1>8. journal.current.phase = "none" /\ journal.current = NoTxn
  BY <1>2 DEF Init, EmptyJournal
<1>9. Sides
  BY <1>1, <1>3, <1>6, <1>8 DEF Init, Sides, Before, After, OnTheWay, OwnNames
<1>10. OlderRecord
  BY <1>8 DEF OlderRecord
<1> QED
  BY <1>4, <1>5, <1>7, <1>9, <1>10 DEF IInv, Init, EmptyJournal, Recorded

LEMMA StepKeeps ==
  ASSUME IInv, [Next]_vars
  PROVE  IInv'
<1>1. CASE UNCHANGED vars
  BY <1>1 DEF vars, IInv, TypeOK, Recorded, NamesAreUnique, LateIsACall, WorkerFollows, Sides,
     OlderRecord, Kept, Lost, Erased, Exists, OnTheWay, OwnNames, Before, After
<1>2. CASE Succeed
  BY <1>2, RetireKeeps DEF Succeed, InPhase
<1>3. CASE FinishRollback
  BY <1>3, RetireKeeps DEF FinishRollback, InPhase
<1>4. CASE OtherPrograms
  BY <1>4, EditKeeps, RemoveKeeps, CreateKeeps DEF OtherPrograms
<1>5. CASE Coordinator
  BY <1>2, <1>3, <1>5, BeginEvacuatingKeeps, EvacuateKeeps, IntendKeeps, BeginDeletingKeeps,
     EraseKeeps, RollBackKeeps, RecordSuccessKeeps, LookAgainKeeps, TurnAroundKeeps,
     RepeatEraseKeeps, NotCommittedKeeps, StopAtMissingKeeps, UncertainKeeps DEF Coordinator
<1>6. CASE Helper
  BY <1>6, ExecuteKeeps, ReconcileKeeps DEF Helper
<1> QED
  BY <1>1, <1>4, <1>5, <1>6, LateEffectKeeps, StartKeeps, ResumeKeeps, InterruptKeeps DEF Next

(* The record on disk tells on which side of the decision the files are,   *)
(* whatever crashed, got stuck or was changed by others                    *)
(* (PermanentDeleteCoordinator::continue_transaction).                     *)
THEOREM RecordTellsTheSide == Spec => []IInv
<1>1. Init => IInv
  BY InitHolds
<1>2. IInv /\ [Next]_vars => IInv'
  BY StepKeeps
<1> QED
  BY <1>1, <1>2, PTL DEF Spec

(* No file is erased for good while another one of the operation is in its *)
(* place or was moved back; and no record is ever rejected by the          *)
(* validation of the coordinator that writes it                            *)
(* (valid_permanent_delete_transaction).                                   *)
THEOREM AllHiddenBeforeOneIsErased == Spec => []ErasedOnlyWhenAllWereHidden
<1>1. IInv => ErasedOnlyWhenAllWereHidden
  BY DEF IInv, Sides, Kept, Lost, ErasedOnlyWhenAllWereHidden
<1> QED
  BY <1>1, RecordTellsTheSide, PTL

-----------------------------------------------------------------------------
(* The second invariant: what the record tells of every single file.  It   *)
(* is proved relative to the first one, which says what calls may still be *)
(* under way on which side of the decision.                                *)

(* Files that other programs removed, or that a stuck call hid after it    *)
(* was given up for lost.                                                  *)
Excused(i) == i \in taken \union strayed

Hiding(t, i) == t.step = "evacuate" /\ t.index = i

(* What a record says of a file, up to the decision and after it: where it *)
(* is, and what its hidden name stands for.                                *)
Placed(t, i) ==
  /\ Before(t.phase) /\ t.items[i].at = "source" =>
       \/ Excused(i) \/ dir[Old(i)].id = i
       \/ Hiding(t, i) /\ dir[Hidden(i)].id = i
  /\ Before(t.phase) /\ t.items[i].at = "temporary" =>
       \/ Excused(i) \/ dir[Hidden(i)].id = i
       \/ t.phase = "rollback" /\ dir[Old(i)].id = i
  /\ t.items[i].at = "deleted" => ~Exists(dir, i)

HiddenMeans(t, i) ==
  \/ dir[Hidden(i)] = Nothing
  \/ t.items[i].at = "temporary" /\ dir[Hidden(i)].id = i
  \/ t.phase = "rollback" /\ i \in strayed
  \/ Hiding(t, i) /\ (dir[Hidden(i)].id = i \/ i \in strayed \/ ~Exists(dir, i))

Tells(t) == t # NoTxn => \A i \in Items : Placed(t, i) /\ HiddenMeans(t, i)

(* The older record may come back when the journal is removed by halves.   *)
OlderTells ==
  /\ journal.current # NoTxn /\ journal.current.step = "none" => Tells(journal.previous)
  /\ journal.current.phase = "deleting" => ~Before(journal.previous.phase)

(* What an answer proves of the file it is about.                          *)
InPlace(i) ==
  /\ Excused(i) \/ dir[Old(i)].id = i
  /\ i \in strayed \/ dir[Hidden(i)] = Nothing

AnswerTells ==
  /\ pc = "execute" /\ txn.step = "evacuate" => dir[Hidden(txn.index)] = Nothing
  /\ pc = "answer" =>
       /\ call.verdict \in {"no_commit", "changed", "not_found"} /\ txn.step = "evacuate" =>
            InPlace(txn.index)
       /\ call.verdict = "committed" /\ txn.step = "rollback" => InPlace(txn.index)
       /\ call.verdict = "committed" /\ txn.step = "erase" => ~Exists(dir, txn.index)

(* A stuck erasure finds something only while the files are being erased.  *)
LateErasure ==
  late.step = "erase" /\ dir[Hidden(late.of)] # Nothing => journal.current.phase = "deleting"

Unrecorded ==
  journal.current = NoTxn =>
    /\ \A i \in Items : dir[Hidden(i)] = Nothing \/ i \in strayed
    /\ report = "new" => \A i \in Items : Excused(i) \/ dir[Old(i)].id = i

TakenAreGone == \A id \in taken : id \in 1..(Count + meddling) /\ ~Exists(dir, id)

JInv ==
  /\ Tells(journal.current) /\ OlderTells /\ AnswerTells /\ LateErasure /\ Unrecorded
  /\ TakenAreGone

(* What is written truly keeps the record true; the older record is the    *)
(* one that was true until then.                                           *)
MayFollow(t) ==
  /\ t # NoTxn /\ Tells(t)
  /\ t.phase = "deleting" => ~Before(journal.current.phase)
  /\ journal.current.phase = "deleting" => t.phase = "deleting"

LEMMA WritingTells ==
  ASSUME JInv, NEW t, MayFollow(t), Persisted(t), Quiet,
         \/ pc' \in {"loop", "idle"}
         \/ /\ pc' = "execute" /\ txn' = t
            /\ t.step = "evacuate" => dir[Hidden(t.index)] = Nothing
  PROVE  JInv'
<1>1. Tells(journal.current)' /\ Tells(journal.previous)'
  BY DEF JInv, MayFollow, Tells, Placed, HiddenMeans, Excused, Exists, Persisted, Quiet
<1>2. OlderTells'
  BY <1>1 DEF OlderTells, MayFollow, Persisted
<1>3. AnswerTells'
  BY DEF AnswerTells, Quiet
<1>4. LateErasure'
  BY DEF JInv, LateErasure, MayFollow, Persisted, Quiet
<1>5. Unrecorded'
  BY DEF Unrecorded, MayFollow, Persisted
<1>6. TakenAreGone'
  BY DEF JInv, TakenAreGone, Exists, Quiet
<1> QED
  BY <1>1, <1>2, <1>3, <1>4, <1>5, <1>6 DEF JInv

LEMMA RecordTells ==
  ASSUME JInv, NEW t, Valid(t), MayFollow(t), Quiet, NEW next, Record(t, next),
         \/ next = "loop"
         \/ next = "execute" /\ (t.step = "evacuate" => dir[Hidden(t.index)] = Nothing)
  PROVE  JInv'
<1>1. Persisted(t) /\ txn' = t /\ pc' = next
  BY DEF Record, Writes, Persisted
<1> QED
  BY <1>1, WritingTells

LEMMA RecordAndEndTells ==
  ASSUME JInv, NEW t, Valid(t), MayFollow(t), Quiet, NEW outcome, RecordAndEnd(t, outcome)
  PROVE  JInv'
<1>1. Persisted(t) /\ pc' = "idle"
  BY DEF RecordAndEnd, Writes, Persisted, EndRun
<1> QED
  BY <1>1, WritingTells

(* While a run is active, what its record says is true.                    *)
LEMMA ActiveTells ==
  ASSUME IInv, JInv, pc # "idle"
  PROVE  /\ txn = journal.current /\ txn # NoTxn /\ txn \in Transactions /\ Valid(txn)
         /\ \A i \in Items : Placed(txn, i) /\ HiddenMeans(txn, i)
BY ActiveRecord DEF IInv, JInv, WorkerFollows, Tells, Sound

(* A record that differs from a true one in its step or its phase only.    *)
LEMMA SameItems ==
  ASSUME NEW r \in Transactions, NEW t \in Transactions, t.items = r.items,
         \A i \in Items : Placed(r, i) /\ HiddenMeans(r, i),
         Before(t.phase) => Before(r.phase),
         r.phase = "rollback" => t.phase = "rollback",
         r.step = "evacuate" => t.step = r.step /\ t.index = r.index
  PROVE  t # NoTxn /\ Tells(t)
<1>1. t # NoTxn
  BY DEF Transactions, NoTxn
<1> QED
  BY <1>1 DEF Tells, Placed, HiddenMeans, Hiding

-----------------------------------------------------------------------------
(* The steps that write a record.                                          *)

LEMMA StartTells ==
  ASSUME IInv, JInv, Start
  PROVE  JInv'
<1> DEFINE t == NewTransaction
<1>1. /\ Valid(t) /\ t # NoTxn /\ t.phase = "prepared" /\ t.step = "none"
      /\ \A i \in Items : t.items[i].at = "source"
  BY DeleteAssumption DEF Valid, StepMatchesPhase, Allowed, NewTransaction, NoTxn, Items, File
<1>2. /\ journal.current = NoTxn /\ report = "new" /\ NoTxn.phase = "none"
      /\ \A i \in Items : dir[Hidden(i)] = Nothing /\ (Excused(i) \/ dir[Old(i)].id = i)
  BY DEF IInv, JInv, Start, Sides, Unrecorded, NoTxn
<1>3. Record(t, "loop") /\ Quiet
  BY DEF Start
<1> HIDE DEF t
<1>4. MayFollow(t)
  BY <1>1, <1>2 DEF MayFollow, Tells, Placed, HiddenMeans
<1> QED
  BY <1>1, <1>3, <1>4, RecordTells

LEMMA EnterTells ==
  ASSUME IInv, JInv, IInv', pc = "loop", NEW phase, Enter(phase),
         \/ txn.phase = "prepared" /\ phase = "evacuating"
         \/ txn.phase = "evacuating" /\ phase = "permanent_delete_intent"
         \/ txn.phase = "permanent_delete_intent" /\ phase = "deleting"
  PROVE  JInv'
<1> DEFINE t == [txn EXCEPT !.phase = phase]
<1>1. txn.step = "none"
  BY DEF IInv, WorkerFollows
<1>2. t.phase = phase /\ t.items = txn.items /\ t.step = "none" /\ t \in Transactions
  BY <1>1, ActiveTells DEF Transactions
<1>3. Record(t, "loop") /\ Quiet
  BY DEF Enter
<1> HIDE DEF t
<1>4. t # NoTxn /\ Tells(t)
  BY <1>1, <1>2, ActiveTells, SameItems DEF Before
<1>5. MayFollow(t)
  BY <1>2, <1>4, ActiveTells DEF MayFollow, Before
<1>6. Valid(t)
  BY <1>3 DEF Record, EndRun, IInv, TypeOK
<1> QED
  BY <1>3, <1>5, <1>6, RecordTells

LEMMA BeginTells ==
  ASSUME IInv, JInv, IInv', pc = "loop", NEW step, NEW k \in Items, Begin(step, k),
         \/ step = "evacuate" /\ txn.phase = "evacuating" /\ k \in At(txn, "source")
         \/ step \in {"erase", "rollback"}
  PROVE  JInv'
<1> DEFINE t == [txn EXCEPT !.step = step, !.index = k]
<1>1. txn.step = "none"
  BY DEF IInv, WorkerFollows
<1>2. /\ t.step = step /\ t.index = k /\ t.phase = txn.phase /\ t.items = txn.items
      /\ t \in Transactions
  BY ActiveTells, StepTypes, ZenonT(60) DEF Transactions
<1>3. Record(t, "execute") /\ Quiet
  BY DEF Begin
<1> HIDE DEF t
<1>4. t # NoTxn /\ Tells(t)
  BY <1>1, <1>2, ActiveTells, SameItems
<1>5. MayFollow(t)
  BY <1>2, <1>4, ActiveTells DEF MayFollow, Before
<1>6. step = "evacuate" => dir[Hidden(k)] = Nothing
  <2>1. HiddenMeans(txn, k)
    BY ActiveTells
  <2> QED
    BY <1>1, <2>1 DEF HiddenMeans, Hiding, At
<1>7. Valid(t)
  BY <1>3 DEF Record, EndRun, IInv, TypeOK
<1> QED
  BY <1>2, <1>3, <1>5, <1>6, <1>7, RecordTells

(* A step that is put aside, and an evacuation that is turned around.      *)
LEMMA AsideTells ==
  ASSUME IInv, JInv, pc = "answer"
  PROVE  /\ txn.step # "evacuate" => MayFollow(ClearActive(txn))
         /\ txn.step = "evacuate" /\ call.verdict \in {"no_commit", "changed", "not_found"} =>
              MayFollow([ClearActive(txn) EXCEPT !.phase = "rollback"])
<1>1. ASSUME txn.step # "evacuate"
      PROVE  MayFollow(ClearActive(txn))
  <2> DEFINE t == ClearActive(txn)
  <2>1. t.step = "none" /\ t.phase = txn.phase /\ t.items = txn.items /\ t \in Transactions
    BY ActiveTells, StepTypes DEF ClearActive, Transactions
  <2> HIDE DEF t
  <2>2. t # NoTxn /\ Tells(t)
    BY <1>1, <2>1, ActiveTells, SameItems
  <2>3. MayFollow(t)
    BY <2>1, <2>2, ActiveTells DEF MayFollow, Before
  <2> QED
    BY <2>3 DEF t
<1>2. ASSUME txn.step = "evacuate", call.verdict \in {"no_commit", "changed", "not_found"}
      PROVE  MayFollow([ClearActive(txn) EXCEPT !.phase = "rollback"])
  <2> DEFINE t == [ClearActive(txn) EXCEPT !.phase = "rollback"]
             k == txn.index
  <2>1. t.step = "none" /\ t.phase = "rollback" /\ t.items = txn.items /\ t \in Transactions
    BY ActiveTells, StepTypes, ZenonT(60) DEF ClearActive, Transactions
  <2>2. txn.phase = "evacuating" /\ k \in Items /\ txn.items[k].at = "source"
    BY <1>2, ActiveTells DEF Valid, StepMatchesPhase, At
  <2>3. InPlace(k)
    BY <1>2 DEF JInv, AnswerTells
  <2> HIDE DEF t
  <2>4. t # NoTxn
    BY <2>1 DEF Transactions, NoTxn
  <2>5. ASSUME NEW i \in Items PROVE Placed(t, i) /\ HiddenMeans(t, i)
    <3>1. Placed(txn, i) /\ HiddenMeans(txn, i)
      BY ActiveTells
    <3>2. CASE i = k
      BY <2>1, <2>2, <2>3, <3>2 DEF Placed, HiddenMeans, InPlace
    <3>3. CASE i # k
      BY <2>1, <2>2, <3>1, <3>3 DEF Placed, HiddenMeans, Hiding, Before
    <3> QED
      BY <3>2, <3>3
  <2>6. MayFollow(t)
    BY <2>1, <2>2, <2>4, <2>5, ActiveTells DEF MayFollow, Tells
  <2> QED
    BY <2>6 DEF t
<1> QED
  BY <1>1, <1>2

LEMMA RecordSuccessTells ==
  ASSUME IInv, JInv, IInv', RecordSuccess
  PROVE  JInv'
<1> DEFINE k == txn.index
           t == Applied(txn, call.object)
<1>1. /\ pc = "answer" /\ call.verdict = "committed" /\ Quiet /\ Record(t, "loop")
  BY DEF RecordSuccess, Answer
<1>2. txn.step \in {"evacuate", "erase", "rollback"} /\ k \in Items /\ StepMatchesPhase(txn)
  BY <1>1, ActiveTells DEF IInv, WorkerFollows, Transactions, Valid, StepMatchesPhase, At
<1>3. /\ t.step = "none" /\ t.phase = txn.phase
      /\ \A i \in Items : i # k => t.items[i] = txn.items[i]
      /\ t.items[k].at = CASE txn.step = "evacuate" -> "temporary"
                           [] txn.step = "rollback" -> "source"
                           [] txn.step = "erase" -> "deleted"
  BY <1>1, <1>2, ActiveTells DEF Applied, ClearActive, Transactions
<1>4. Valid(t)
  BY <1>1 DEF Record, EndRun, IInv, TypeOK
<1> HIDE DEF t
<1>5. t # NoTxn
  BY <1>1, <1>3, ActiveTells DEF NoTxn, Transactions
<1>6. Placed(t, k) /\ HiddenMeans(t, k)
  <2>1. CASE txn.step = "evacuate"
    <3>1. dir[Hidden(k)].id = k
      BY <1>1, <2>1 DEF IInv, WorkerFollows
    <3> QED
      BY <1>2, <1>3, <2>1, <3>1 DEF Placed, HiddenMeans
  <2>2. CASE txn.step = "rollback"
    <3>1. InPlace(k) /\ t.phase = "rollback" /\ t.items[k].at = "source"
      BY <1>1, <1>2, <1>3, <2>2 DEF JInv, AnswerTells, StepMatchesPhase
    <3> QED
      BY <3>1 DEF Placed, HiddenMeans, InPlace
  <2>3. CASE txn.step = "erase"
    <3>1. ~Exists(dir, k) /\ t.phase = "deleting" /\ t.items[k].at = "deleted"
      BY <1>1, <1>2, <1>3, <2>3 DEF JInv, AnswerTells, StepMatchesPhase
    <3>2. dir[Hidden(k)].id \in {0, k}
      BY <1>1, <1>2, <2>3, ActiveRecord DEF OwnNames, StepMatchesPhase
    <3>3. dir[Hidden(k)] = Nothing
      BY <1>2, <3>1, <3>2, Names DEF Exists, IInv, NamesAreUnique
    <3> QED
      BY <3>1, <3>3 DEF Placed, HiddenMeans, Before
  <2> QED
    BY <1>2, <2>1, <2>2, <2>3
<1>7. ASSUME NEW i \in Items, i # k PROVE Placed(t, i) /\ HiddenMeans(t, i)
  <2>1. Placed(txn, i) /\ HiddenMeans(txn, i) /\ t.items[i] = txn.items[i]
    BY <1>1, <1>3, <1>7, ActiveTells
  <2> QED
    BY <1>3, <1>7, <2>1 DEF Placed, HiddenMeans, Hiding
<1>8. MayFollow(t)
  BY <1>1, <1>3, <1>5, <1>6, <1>7, ActiveTells DEF MayFollow, Tells, Before
<1> QED
  BY <1>1, <1>4, <1>8, RecordTells

-----------------------------------------------------------------------------
(* The steps that leave the record alone.                                  *)

(* A file that a step does not touch is as true on record as it was.       *)
LEMMA Untouched ==
  ASSUME NEW t, NEW i \in Items, Placed(t, i), HiddenMeans(t, i),
         dir'[Old(i)] = dir[Old(i)], dir'[Hidden(i)] = dir[Hidden(i)],
         Exists(dir', i) => Exists(dir, i),
         taken' = taken, strayed \subseteq strayed'
  PROVE  Placed(t, i)' /\ HiddenMeans(t, i)'
BY DEF Placed, HiddenMeans, Excused

(* Nothing is lost but what other programs remove, and nothing comes back. *)
LEMMA OthersTell ==
  ASSUME JInv, UNCHANGED <<journal, txn, pc, call, report, strayed>>, late' \in {late, NotLate},
         taken \subseteq taken', TakenAreGone',
         \A i \in Items :
           /\ dir'[Hidden(i)] = Nothing <=> dir[Hidden(i)] = Nothing
           /\ dir'[Hidden(i)].id = dir[Hidden(i)].id
           /\ dir[Old(i)].id = i => dir'[Old(i)].id = i \/ i \in taken'
           /\ Exists(dir', i) => Exists(dir, i),
         late.step = "erase" => late.of \in Items,
         txn.step # "none" /\ pc # "idle" => txn.index \in Items
  PROVE  JInv'
<1>1. \A t : Tells(t) => Tells(t)'
  BY DEF Tells, Placed, HiddenMeans, Excused
<1>2. OlderTells' /\ Tells(journal.current)'
  BY <1>1 DEF JInv, OlderTells
<1>3. \A i \in Items : InPlace(i) => InPlace(i)'
  BY DEF InPlace, Excused
<1>4. AnswerTells'
  BY <1>3 DEF JInv, AnswerTells
<1>5. LateErasure'
  BY DEF JInv, LateErasure, NotLate
<1>6. Unrecorded'
  BY DEF JInv, Unrecorded, Excused
<1> QED
  BY <1>2, <1>4, <1>5, <1>6 DEF JInv

(* Steps of the worker that leave the files and the journal alone.         *)
LEMMA ControlTells ==
  ASSUME JInv, Quiet, UNCHANGED journal, AnswerTells',
         journal.current = NoTxn /\ report' = "new" => report = "new"
  PROVE  JInv'
<1>1. \A t : Tells(t) => Tells(t)'
  BY DEF Tells, Placed, HiddenMeans, Excused, Exists, Quiet
<1>2. OlderTells' /\ Tells(journal.current)'
  BY <1>1 DEF JInv, OlderTells
<1>3. LateErasure' /\ Unrecorded' /\ TakenAreGone'
  BY DEF JInv, LateErasure, Unrecorded, TakenAreGone, Excused, Exists, Quiet
<1> QED
  BY <1>2, <1>3 DEF JInv

LEMMA ReconcileTells ==
  ASSUME IInv, JInv, Reconcile
  PROVE  JInv'
<1> DEFINE k == txn.index
<1>1. /\ pc = "reconcile" /\ Quiet /\ UNCHANGED <<journal, txn>> /\ report' = report
      /\ pc' = "answer" /\ call \in CallType
  BY DEF Reconcile, Goto, IInv, TypeOK
<1>2. /\ k \in Items /\ Expected.id = k
      /\ Placed(txn, k) /\ HiddenMeans(txn, k)
  BY <1>1, StepNames, ActiveTells
<1>3. CASE call'.verdict = "none"
  BY <1>1, <1>3, ControlTells DEF AnswerTells
<1>4. CASE txn.step = "erase" /\ call'.verdict = ReconciledDelete
  <2>1. From = Hidden(k) /\ From \in Name /\ dir[From].id \in {0, k}
    BY <1>1, <1>4, StepNames, ActiveRecord DEF OwnNames
  <2>2. dir[From] = Nothing \/ dir[From].id = Expected.id
    BY <1>2, <2>1 DEF IInv, NamesAreUnique
  <2>3. ReconciledDelete # "committed"
    BY <2>2 DEF ReconciledDelete
  <2> QED
    BY <1>1, <1>4, <2>3, ControlTells DEF AnswerTells
<1>5. CASE txn.step = "evacuate" /\ call'.verdict = ReconciledRename
  <2>1. /\ From = Old(k) /\ To = Hidden(k) /\ Old(k) \in Name
        /\ txn.items[k].at = "source" /\ txn.phase = "evacuating"
    BY <1>1, <1>5, StepNames, Names
  <2>2. ASSUME ReconciledRename \in {"no_commit", "changed"} PROVE InPlace(k)'
    <3>1. dir[Hidden(k)].id # k /\ dir[Old(k)].id = k
      BY <1>2, <2>1, <2>2 DEF ReconciledRename
    <3>2. Exists(dir, k)
      BY <2>1, <3>1 DEF Exists
    <3> QED
      BY <1>1, <1>2, <2>1, <3>1, <3>2 DEF HiddenMeans, InPlace, Excused, Quiet
  <2>3. ReconciledRename # "not_found"
    BY DEF ReconciledRename
  <2> QED
    BY <1>1, <1>5, <2>2, <2>3, ControlTells DEF AnswerTells
<1>6. CASE txn.step = "rollback" /\ call'.verdict = ReconciledRename
  <2>1. To = Old(k)
    BY <1>1, <1>6, StepNames
  <2>2. ASSUME ReconciledRename = "committed" PROVE InPlace(k)'
    <3>1. dir[Old(k)].id = k
      BY <1>2, <2>1, <2>2 DEF ReconciledRename
    <3>2. dir[Hidden(k)].id # k
      BY <1>2, <3>1, Names DEF IInv, NamesAreUnique
    <3> QED
      BY <1>1, <1>2, <1>6, <3>1, <3>2 DEF HiddenMeans, Hiding, InPlace, Excused, Quiet
  <2> QED
    BY <1>1, <1>6, <2>2, ControlTells DEF AnswerTells
<1>7. \/ call'.verdict = "none"
      \/ txn.step = "erase" /\ call'.verdict = ReconciledDelete
      \/ txn.step # "erase" /\ call'.verdict = ReconciledRename
  BY <1>1 DEF Reconcile, Goto, CallType
<1> QED
  BY <1>1, <1>3, <1>4, <1>5, <1>6, <1>7, StepNames

LEMMA LookAgainTells ==
  ASSUME JInv, LookAgain
  PROVE  JInv'
BY ControlTells DEF LookAgain, Answer, Goto, AnswerTells

LEMMA ResumeTells ==
  ASSUME JInv, Resume
  PROVE  JInv'
<1>1. pc' \in {"loop", "reconcile"}
  BY DEF Resume
<1> QED
  BY <1>1, ControlTells DEF Resume, AnswerTells

LEMMA InterruptTells ==
  ASSUME JInv, Interrupt
  PROVE  JInv'
BY ControlTells DEF Interrupt, EndRun, AnswerTells

-----------------------------------------------------------------------------
(* The steps that touch the files.                                         *)

LEMMA EffectTells ==
  ASSUME IInv, JInv, IInv', pc = "execute", Effect,
         UNCHANGED <<journal, txn, report, late, meddling, taken, strayed>>,
         AnswerTells'
  PROVE  JInv'
<1> DEFINE k == txn.index
<1>1. CASE Verdict # "committed"
  BY <1>1, ControlTells DEF Effect, Quiet
<1>2. CASE Verdict = "committed"
  <2>1. /\ txn = journal.current /\ k \in Items /\ Placed(txn, k) /\ HiddenMeans(txn, k)
        /\ dir[From] = Expected /\ Expected.id = k
        /\ dir' = Moved /\ (txn.step # "erase" => dir[To] = Nothing)
        /\ journal.current # NoTxn /\ journal.current.step # "none"
    BY <1>2, StepNames, ActiveTells DEF Verdict, Effect, IInv, WorkerFollows
  <2>2. dir \in [Name -> Object] /\ NamesAreUnique
    BY DEF IInv, TypeOK
  <2>3. /\ \A id : id # 0 => (Exists(dir', id) => Exists(dir, id))
        /\ \A i \in Items : i # k =>
             dir'[Old(i)] = dir[Old(i)] /\ dir'[Hidden(i)] = dir[Hidden(i)]
    <3>1. CASE txn.step = "erase"
      <4>1. dir' = [dir EXCEPT ![Hidden(k)] = Nothing]
        BY <2>1, <3>1, StepNames DEF Moved
      <4>2. \A m \in Name : dir'[m] \in {dir[m], Nothing}
        BY <2>2, <4>1
      <4> QED
        BY <2>1, <2>2, <4>1, <4>2, Names DEF Exists
    <3>2. CASE txn.step # "erase"
      <4>1. dir' = [dir EXCEPT ![To] = dir[From], ![From] = Nothing]
        BY <2>1, <3>2 DEF Moved
      <4>2. {From, To} = {Old(k), Hidden(k)} /\ From \in Name /\ To \in Name /\ From # To
        BY StepNames
      <4>3. dir[To] = Nothing /\ TypeOK /\ UNCHANGED meddling
        BY <2>1, <3>2 DEF IInv
      <4>4. \A id : id # 0 => (Exists(dir', id) <=> Exists(dir, id))
        BY <2>2, <4>1, <4>2, <4>3, Moving
      <4>5. \A i \in Items : i # k => {Old(i), Hidden(i)} \subseteq Name \ {From, To}
        BY <2>1, <4>2, Names
      <4>6. \A n \in Name \ {From, To} : dir'[n] = dir[n]
        BY <2>2, <4>1
      <4> QED
        BY <4>4, <4>5, <4>6
    <3> QED
      BY <3>1, <3>2
  <2>4. Placed(txn, k)' /\ HiddenMeans(txn, k)'
    <3>1. CASE txn.step = "evacuate"
      <4>1. dir'[Hidden(k)].id = k /\ txn.items[k].at = "source"
        BY <2>1, <2>2, <3>1, StepNames, Names DEF Moved
      <4> QED
        BY <3>1, <4>1 DEF Placed, HiddenMeans, Hiding
    <3>2. CASE txn.step = "rollback"
      <4>1. /\ dir'[Hidden(k)] = Nothing /\ dir'[Old(k)].id = k
            /\ txn.items[k].at = "temporary" /\ txn.phase = "rollback"
        BY <2>1, <2>2, <3>2, StepNames, ActiveTells, Names
           DEF Moved, Valid, StepMatchesPhase, At
      <4> QED
        BY <4>1 DEF Placed, HiddenMeans
    <3>3. CASE txn.step = "erase"
      <4>1. /\ dir'[Hidden(k)] = Nothing
            /\ txn.items[k].at = "temporary" /\ txn.phase = "deleting"
        BY <2>1, <2>2, <3>3, StepNames, ActiveTells, Names
           DEF Moved, Valid, StepMatchesPhase, At
      <4> QED
        BY <4>1 DEF Placed, HiddenMeans, Before
    <3> QED
      BY <3>1, <3>2, <3>3, StepNames
  <2>5. Tells(journal.current)'
    <3> SUFFICES ASSUME NEW i \in Items, i # k PROVE Placed(txn, i)' /\ HiddenMeans(txn, i)'
      BY <2>1, <2>4 DEF Tells
    <3>1. Placed(txn, i) /\ HiddenMeans(txn, i)
      BY ActiveTells
    <3>2. Exists(dir', i) => Exists(dir, i)
      BY <2>3, Names
    <3> QED
      BY <2>1, <2>3, <3>1, <3>2, Untouched
  <2>6. OlderTells'
    BY <2>1 DEF JInv, OlderTells
  <2>7. LateErasure'
    <3>1. late.step = "erase" => txn.step = "erase"
      BY <2>1, StepNames DEF IInv, Sides, Kept, Before
    <3> QED
      BY <2>1, <3>1, StepNames DEF LateErasure
  <2>8. Unrecorded'
    BY <2>1 DEF Unrecorded
  <2>9. TakenAreGone'
    <3>1. \A id \in taken : id # 0
      BY DeleteAssumption DEF IInv, TypeOK
    <3> QED
      BY <2>3, <3>1 DEF JInv, TakenAreGone
  <2> QED
    BY <2>5, <2>6, <2>7, <2>8, <2>9 DEF JInv
<1> QED
  BY <1>1, <1>2

LEMMA ExecuteTells ==
  ASSUME IInv, JInv, IInv', Execute
  PROVE  JInv'
<1> DEFINE k == txn.index
<1>1. /\ pc = "execute" /\ UNCHANGED <<journal, txn, report, meddling, taken, strayed>>
      /\ txn = journal.current /\ journal.current # NoTxn /\ journal.current.step # "none"
  BY DEF Execute, Goto, IInv, WorkerFollows
<1>2. txn.step = "evacuate" => InPlace(k)
  <2>1. SUFFICES ASSUME txn.step = "evacuate" PROVE InPlace(k)
    OBVIOUS
  <2>2. /\ Placed(txn, k) /\ k \in Items /\ txn.items[k].at = "source"
        /\ txn.phase = "evacuating" /\ dir[Hidden(k)] = Nothing
    BY <1>1, <2>1, StepNames, ActiveTells DEF JInv, AnswerTells
  <2>3. dir[Hidden(k)].id # k
    BY <2>2, Names
  <2> QED
    BY <2>2, <2>3 DEF Placed, Before, InPlace
<1>3. CASE /\ Effect
           /\ Goto("answer", [NoCall EXCEPT !.verdict = Verdict, !.object = dir[From]])
           /\ UNCHANGED late
  <2>1. pc' = "answer" /\ call'.verdict = Verdict /\ Verdict # "changed"
    BY <1>3 DEF Goto, NoCall, Verdict
  <2>2. CASE Verdict # "committed"
    <3>1. UNCHANGED dir
      BY <1>3, <2>2 DEF Effect
    <3>2. AnswerTells'
      BY <1>1, <1>2, <2>1, <2>2, <3>1 DEF AnswerTells, InPlace, Excused
    <3> QED
      BY <1>1, <1>3, <3>2, EffectTells
  <2>3. CASE Verdict = "committed"
    <3>1. /\ dir' = Moved /\ dir \in [Name -> Object] /\ k \in Items
          /\ dir[From] = Expected /\ Expected.id = k
      BY <1>1, <1>3, <2>3, StepNames DEF Verdict, Effect, IInv, TypeOK
    <3>2. txn.step = "rollback" => InPlace(k)'
      <4>1. SUFFICES ASSUME txn.step = "rollback" PROVE InPlace(k)'
        OBVIOUS
      <4>2. dir'[Hidden(k)] = Nothing /\ dir'[Old(k)].id = k
        BY <1>1, <3>1, <4>1, StepNames, Names DEF Moved
      <4> QED
        BY <1>1, <4>2 DEF InPlace, Excused
    <3>3. txn.step = "erase" => ~Exists(dir', k)
      <4>1. SUFFICES ASSUME txn.step = "erase" PROVE ~Exists(dir', k)
        OBVIOUS
      <4>2. dir' = [dir EXCEPT ![Hidden(k)] = Nothing] /\ dir[Hidden(k)].id = k
        BY <1>1, <3>1, <4>1, StepNames DEF Moved
      <4> QED
        BY <3>1, <4>2, Names DEF Exists, IInv, NamesAreUnique
    <3>4. AnswerTells'
      BY <1>1, <2>1, <2>3, <3>2, <3>3 DEF AnswerTells
    <3> QED
      BY <1>1, <1>3, <3>4, EffectTells
  <2> QED
    BY <2>2, <2>3
<1>4. CASE /\ UNCHANGED <<dir, restored, late>>
           /\ Goto("answer", [NoCall EXCEPT !.verdict = "no_commit"])
  <2>1. AnswerTells'
    BY <1>1, <1>2, <1>4 DEF AnswerTells, InPlace, Excused, Goto, NoCall
  <2> QED
    BY <1>1, <1>4, <2>1, ControlTells DEF Quiet
<1>5. CASE UNCHANGED <<dir, restored, late>> /\ Goto("reconcile", NoCall)
  BY <1>1, <1>5, ControlTells DEF Quiet, AnswerTells, Goto
<1>6. CASE UNCHANGED late /\ Effect /\ Goto("reconcile", NoCall)
  BY <1>1, <1>6, EffectTells DEF AnswerTells, Goto
<1>7. CASE Stuck /\ Goto("reconcile", NoCall)
  <2>1. UNCHANGED dir /\ late' = [step |-> txn.step, of |-> k]
    BY <1>7 DEF Stuck
  <2>2. \A t : Tells(t) => Tells(t)'
    BY <1>1, <2>1 DEF Tells, Placed, HiddenMeans, Excused, Exists
  <2>3. LateErasure'
    BY <1>1, <2>1, StepNames DEF LateErasure
  <2>4. AnswerTells' /\ OlderTells' /\ Unrecorded' /\ TakenAreGone'
    BY <1>1, <1>7, <2>1 DEF JInv, AnswerTells, OlderTells, Unrecorded, TakenAreGone, Exists, Goto
  <2>5. Tells(journal.current)'
    BY <1>1, <2>2 DEF JInv
  <2> QED
    BY <2>3, <2>4, <2>5 DEF JInv
<1> QED
  BY <1>3, <1>4, <1>5, <1>6, <1>7 DEF Execute

(* What is gone stays gone when files are only moved or erased.            *)
LEMMA GoneStays ==
  ASSUME TypeOK, JInv, UNCHANGED <<taken, meddling>>,
         \A id : id # 0 /\ Exists(dir', id) => Exists(dir, id)
  PROVE  TakenAreGone' /\ \A id \in Items : Exists(dir', id) => Exists(dir, id)
<1>1. \A id \in taken \union Items : id # 0
  BY Names, DeleteAssumption DEF TypeOK
<1> QED
  BY <1>1 DEF JInv, TakenAreGone

(* A stuck evacuation hides its file, or a stranger's, late: its own step  *)
(* is still on record, or the file counts as strayed.                      *)
LEMMA LateEvacuationTells ==
  ASSUME IInv, JInv, IInv', NEW i \in Items, late = [step |-> "evacuate", of |-> i],
         late' = NotLate, UNCHANGED <<journal, txn, pc, call, report, faults, meddling, taken>>,
         dir[Hidden(i)] = Nothing,
         dir' = [dir EXCEPT ![Old(i)] = Nothing, ![Hidden(i)] = dir[Old(i)]],
         strayed' = IF GivenUp("evacuate", i) THEN strayed \union {i} ELSE strayed
  PROVE  JInv'
<1>1. /\ dir \in [Name -> Object] /\ NamesAreUnique
      /\ dir' = [dir EXCEPT ![Hidden(i)] = dir[Old(i)], ![Old(i)] = Nothing]
  BY Names DEF IInv, TypeOK
<1>2. /\ dir'[Hidden(i)] = dir[Old(i)]
      /\ \A j \in Items : j # i => dir'[Old(j)] = dir[Old(j)] /\ dir'[Hidden(j)] = dir[Hidden(j)]
      /\ \A id \in Items : Exists(dir', id) => Exists(dir, id)
      /\ TakenAreGone'
  <2>1. TypeOK /\ UNCHANGED meddling
    BY DEF IInv
  <2>2. \A id : id # 0 => (Exists(dir', id) <=> Exists(dir, id))
    BY <1>1, <2>1, Names, Moving
  <2>3. /\ dir'[Hidden(i)] = dir[Old(i)]
        /\ \A j \in Items : j # i =>
             dir'[Old(j)] = dir[Old(j)] /\ dir'[Hidden(j)] = dir[Hidden(j)]
    BY <1>1, Names
  <2> QED
    BY <2>1, <2>2, <2>3, GoneStays
<1>3. /\ journal.current.phase \notin {"prepared", "permanent_delete_intent", "deleting"}
      /\ journal.current.phase = "evacuating" => Hiding(journal.current, i)
      /\ report # "new" \/ journal.current # NoTxn
  <2>1. OwnNames(journal.current) /\ (journal.current = NoTxn /\ report = "new" => late = NotLate)
    BY DEF IInv, Sides
  <2>2. /\ journal.current = NoTxn \/ StepMatchesPhase(journal.current)
        /\ late.step = "evacuate" /\ late.of = i /\ NoTxn.phase = "none"
    BY DEF IInv, Recorded, Sound, Valid, NoTxn
  <2>3. ASSUME journal.current.phase \in {"prepared", "evacuating", "permanent_delete_intent", "deleting"}
        PROVE  Hiding(journal.current, i) /\ journal.current.phase = "evacuating"
    BY <2>1, <2>2, <2>3 DEF OwnNames, Hiding, StepMatchesPhase
  <2> QED
    BY <2>1, <2>3 DEF NotLate
<1>4. GivenUp("evacuate", i) => i \in strayed'
  OBVIOUS
<1>5. ASSUME NEW t \in Transactions, Valid(t), Tells(t),
             \/ t.phase = "rollback" /\ i \in strayed'
             \/ t.phase = "evacuating" /\ Hiding(t, i)
      PROVE  Tells(t)'
  <2>1. t # NoTxn /\ \A j \in Items : Placed(t, j) /\ HiddenMeans(t, j)
    BY <1>5 DEF Tells, Transactions, NoTxn
  <2>2. ASSUME NEW j \in Items, j # i PROVE Placed(t, j)' /\ HiddenMeans(t, j)'
    <3>1. strayed \subseteq strayed'
      OBVIOUS
    <3> QED
      BY <1>2, <2>1, <2>2, <3>1, Untouched
  <2>3. t.items[i].at \in {"source", "temporary"}
    BY <1>5 DEF Valid, Allowed
  <2>4. ASSUME i \in strayed' PROVE Placed(t, i)' /\ HiddenMeans(t, i)'
    BY <1>5, <2>3, <2>4 DEF Placed, HiddenMeans, Excused, Before
  <2>5. ASSUME i \notin strayed' PROVE Placed(t, i)' /\ HiddenMeans(t, i)'
    <3>1. t.phase = "evacuating" /\ Hiding(t, i) /\ t.items[i].at = "source" /\ i \notin strayed
      BY <1>5, <2>5 DEF Valid, StepMatchesPhase, At, Hiding
    <3>2. i \in taken \/ dir[Old(i)].id = i
      BY <2>1, <3>1, Names DEF Placed, Excused, Before
    <3>3. i \in taken => ~Exists(dir', i)
      BY <1>2 DEF TakenAreGone
    <3> QED
      BY <1>2, <3>1, <3>2, <3>3 DEF Placed, HiddenMeans, Excused
  <2> QED
    BY <2>1, <2>2, <2>4, <2>5 DEF Tells
<1>6. Tells(journal.current)'
  <2>1. CASE journal.current = NoTxn
    BY <2>1 DEF Tells
  <2>2. CASE journal.current # NoTxn
    <3>1. /\ journal.current \in Transactions /\ Valid(journal.current) /\ Tells(journal.current)
          /\ StepMatchesPhase(journal.current)
      BY <2>2 DEF IInv, JInv, Recorded, Sound, Valid
    <3>2. CASE journal.current.phase = "evacuating"
      BY <1>3, <1>5, <3>1, <3>2
    <3>3. CASE journal.current.phase = "rollback"
      <4>1. i \in strayed'
        BY <1>4, <3>1, <3>3 DEF StepMatchesPhase, GivenUp
      <4> QED
        BY <1>5, <3>1, <3>3, <4>1
    <3> QED
      BY <1>3, <3>1, <3>2, <3>3 DEF Transactions
  <2> QED
    BY <2>1, <2>2
<1>7. OlderTells'
  <2>1. ASSUME journal.current # NoTxn, journal.current.step = "none", journal.previous # NoTxn
        PROVE  Tells(journal.previous)'
    <3>1. journal.current.phase = "rollback" /\ i \in strayed'
      BY <1>3, <1>4, <2>1 DEF IInv, Recorded, Sound, Transactions, Hiding, GivenUp
    <3>2. /\ journal.previous.phase \in {"none", "evacuating", "rollback"}
          /\ OwnNames(journal.previous)
      BY <3>1 DEF IInv, OlderRecord
    <3>3. /\ journal.previous \in Transactions /\ Valid(journal.previous)
          /\ Tells(journal.previous)
      BY <2>1 DEF IInv, JInv, Recorded, Sound, OlderTells
    <3>4. journal.previous.phase = "evacuating" => Hiding(journal.previous, i)
      BY <3>2 DEF OwnNames, Hiding
    <3> QED
      BY <1>5, <3>1, <3>2, <3>3, <3>4 DEF Transactions
  <2> QED
    BY <2>1 DEF JInv, OlderTells, Tells
<1>8. AnswerTells'
  <2>1. ~(pc = "execute" /\ txn.step = "evacuate")
    BY DEF IInv, WorkerFollows
  <2>2. pc = "answer" => i \in strayed' /\ txn.index \in Items
    BY <1>4, StepNames DEF GivenUp
  <2>3. ASSUME NEW j \in Items, i \in strayed', InPlace(j) PROVE InPlace(j)'
    BY <1>2, <2>3 DEF InPlace, Excused
  <2> QED
    BY <1>2, <2>1, <2>2, <2>3 DEF JInv, AnswerTells
<1>9. LateErasure' /\ TakenAreGone'
  BY <1>2 DEF LateErasure, NotLate
<1>10. Unrecorded'
  <2>1. journal.current = NoTxn => i \in strayed'
    BY <1>4 DEF GivenUp, NoTxn
  <2> QED
    BY <1>2, <1>3, <2>1 DEF JInv, Unrecorded
<1> QED
  BY <1>6, <1>7, <1>8, <1>9, <1>10 DEF JInv

(* A stuck rollback finds nobody but an operation that rolls back.         *)
LEMMA LateRollbackTells ==
  ASSUME IInv, JInv, IInv', NEW i \in Items, late = [step |-> "rollback", of |-> i],
         late' = NotLate,
         UNCHANGED <<journal, txn, pc, call, report, faults, meddling, taken, strayed>>,
         dir[Old(i)] = Nothing,
         dir' = [dir EXCEPT ![Hidden(i)] = Nothing, ![Old(i)] = dir[Hidden(i)]]
  PROVE  JInv'
<1>1. /\ dir \in [Name -> Object] /\ NamesAreUnique /\ TypeOK /\ UNCHANGED meddling
      /\ dir' = [dir EXCEPT ![Old(i)] = dir[Hidden(i)], ![Hidden(i)] = Nothing]
  BY Names DEF IInv, TypeOK
<1>2. /\ dir'[Old(i)] = dir[Hidden(i)] /\ dir'[Hidden(i)] = Nothing
      /\ \A j \in Items : j # i => dir'[Old(j)] = dir[Old(j)] /\ dir'[Hidden(j)] = dir[Hidden(j)]
      /\ \A id \in Items : Exists(dir', id) => Exists(dir, id)
      /\ TakenAreGone'
  <2>1. \A id : id # 0 => (Exists(dir', id) <=> Exists(dir, id))
    BY <1>1, Names, Moving
  <2>2. /\ dir'[Old(i)] = dir[Hidden(i)] /\ dir'[Hidden(i)] = Nothing
        /\ \A j \in Items : j # i =>
             dir'[Old(j)] = dir[Old(j)] /\ dir'[Hidden(j)] = dir[Hidden(j)]
    BY <1>1, Names
  <2> QED
    BY <1>1, <2>1, <2>2, GoneStays
<1>3. /\ journal.current.phase \in {"none", "rollback"}
      /\ report # "new" \/ journal.current # NoTxn
  <2>1. ~Lost /\ OnTheWay(journal.current)
    BY DEF IInv, Sides, Lost
  <2>2. journal.current.phase \notin
          {"prepared", "evacuating", "permanent_delete_intent", "deleting"}
    BY <2>1 DEF IInv, Sides, After, OnTheWay
  <2> QED
    BY <2>2, SMTT(30) DEF IInv, Sides, Recorded, Sound, Transactions, NoTxn, NotLate
<1>4. ASSUME NEW t \in Transactions, Valid(t), Tells(t), t.phase = "rollback"
      PROVE  Tells(t)'
  <2>1. t # NoTxn /\ \A j \in Items : Placed(t, j) /\ HiddenMeans(t, j)
    BY <1>4 DEF Tells, Transactions, NoTxn
  <2>2. ASSUME NEW j \in Items, j # i PROVE Placed(t, j)' /\ HiddenMeans(t, j)'
    BY <1>2, <2>1, <2>2, Untouched
  <2>3. t.items[i].at \in {"source", "temporary"} /\ ~Hiding(t, i) /\ dir[Old(i)].id # i
    BY <1>4, Names DEF Valid, Allowed, StepMatchesPhase, Hiding
  <2>4. Placed(t, i)' /\ HiddenMeans(t, i)'
    BY <1>2, <1>4, <2>1, <2>3 DEF Placed, HiddenMeans, Excused, Before
  <2> QED
    BY <2>1, <2>2, <2>4 DEF Tells
<1>5. Tells(journal.current)'
  BY <1>3, <1>4 DEF IInv, JInv, Recorded, Sound, Tells, Transactions, NoTxn
<1>6. OlderTells'
  <2>1. ASSUME journal.current # NoTxn, journal.current.step = "none", journal.previous # NoTxn
        PROVE  Tells(journal.previous)'
    <3>1. journal.current.phase = "rollback"
      BY <1>3, <2>1 DEF IInv, Recorded, Sound, Transactions
    <3>2. /\ journal.previous \in Transactions /\ Valid(journal.previous)
          /\ Tells(journal.previous)
      BY <2>1 DEF IInv, JInv, Recorded, Sound, OlderTells
    <3>3. journal.previous.phase = "rollback"
      BY <3>1, <3>2 DEF IInv, OlderRecord, OnTheWay, Transactions
    <3> QED
      BY <1>4, <3>2, <3>3
  <2> QED
    BY <2>1 DEF JInv, OlderTells, Tells
<1>7. AnswerTells'
  <2>1. pc \in {"execute", "reconcile", "answer"} => txn.step = "rollback" /\ txn.index \in Items
    BY <1>3, StepNames
  <2>2. ASSUME NEW j \in Items, InPlace(j) PROVE InPlace(j)'
    <3>1. i # 0
      BY Names
    <3> QED
      BY <1>2, <2>2, <3>1, Names DEF InPlace, Excused
  <2> QED
    BY <1>2, <2>1, <2>2 DEF JInv, AnswerTells
<1>8. LateErasure' /\ TakenAreGone' /\ Unrecorded'
  BY <1>2, <1>3 DEF JInv, LateErasure, Unrecorded, NotLate
<1> QED
  BY <1>5, <1>6, <1>7, <1>8 DEF JInv

(* A stuck erasure finds something only while the files are being erased.  *)
LEMMA LateErasureTells ==
  ASSUME IInv, JInv, IInv', NEW i \in Items, late = [step |-> "erase", of |-> i],
         late' = NotLate,
         UNCHANGED <<journal, txn, pc, call, report, faults, meddling, taken, strayed>>,
         dir[Hidden(i)] # Nothing, dir' = [dir EXCEPT ![Hidden(i)] = Nothing]
  PROVE  JInv'
<1>1. journal.current.phase = "deleting" /\ ~Before(journal.previous.phase)
      /\ journal.current # NoTxn
  BY DEF JInv, LateErasure, OlderTells, NoTxn
<1>2. /\ dir'[Hidden(i)] = Nothing
      /\ \A j \in Items : j # i => dir'[Old(j)] = dir[Old(j)] /\ dir'[Hidden(j)] = dir[Hidden(j)]
      /\ \A id \in Items : Exists(dir', id) => Exists(dir, id)
      /\ TakenAreGone'
  <2>1. dir \in [Name -> Object] /\ TypeOK /\ Hidden(i) \in Name
    BY Names DEF IInv, TypeOK
  <2>2. \A m \in Name : dir'[m] = IF m = Hidden(i) THEN Nothing ELSE dir[m]
    BY <2>1
  <2>3. \A id : id # 0 /\ Exists(dir', id) => Exists(dir, id)
    BY <2>2, Names DEF Exists
  <2> QED
    BY <2>1, <2>2, <2>3, Names, GoneStays
<1>3. ASSUME NEW t, Tells(t), ~Before(t.phase) PROVE Tells(t)'
  <2>1. ASSUME NEW j \in Items, t # NoTxn, j # i PROVE Placed(t, j)' /\ HiddenMeans(t, j)'
    BY <1>2, <1>3, <2>1, Untouched DEF Tells
  <2>2. ASSUME t # NoTxn PROVE Placed(t, i)' /\ HiddenMeans(t, i)'
    BY <1>2, <1>3, <2>2 DEF Tells, Placed, HiddenMeans
  <2> QED
    BY <2>1, <2>2 DEF Tells
<1>4. Tells(journal.current)' /\ OlderTells'
  BY <1>1, <1>3 DEF JInv, OlderTells, Before
<1>5. AnswerTells'
  <2>1. pc \in {"execute", "reconcile", "answer"} => txn.step = "erase" /\ txn.index \in Items
    BY <1>1, StepNames
  <2> QED
    BY <1>2, <2>1 DEF JInv, AnswerTells
<1>6. LateErasure' /\ TakenAreGone' /\ Unrecorded'
  BY <1>1, <1>2 DEF JInv, LateErasure, Unrecorded, NotLate
<1> QED
  BY <1>4, <1>5, <1>6 DEF JInv

(* A call and a step on record are about an item.                          *)
LEMMA Indices ==
  ASSUME IInv, JInv
  PROVE  /\ late.step = "erase" => late.of \in Items
         /\ txn.step # "none" /\ pc # "idle" => txn.index \in Items
<1>1. late.step = "erase" => late.of \in Items
  BY DEF IInv, LateIsACall, NotLate
<1>2. ASSUME pc # "idle", txn.step # "none" PROVE txn.index \in Items
  <2>1. Valid(txn) /\ txn \in Transactions
    BY <1>2, ActiveTells
  <2> QED
    BY <1>2, <2>1 DEF Valid, StepMatchesPhase, At, Transactions
<1> QED
  BY <1>1, <1>2

LEMMA LateEffectTells ==
  ASSUME IInv, JInv, IInv', LateEffect
  PROVE  JInv'
<1> DEFINE i == late.of
<1>1. /\ late.step \in {"evacuate", "erase", "rollback"} /\ i \in Items
      /\ late = [step |-> late.step, of |-> i] /\ late' = NotLate
      /\ UNCHANGED <<journal, txn, pc, call, report, faults, meddling, taken>>
  BY DEF IInv, TypeOK, LateIsACall, LateEffect, NotLate
<1>2. CASE UNCHANGED <<dir, restored, strayed>>
  <2>1. TakenAreGone'
    BY <1>1, <1>2 DEF JInv, TakenAreGone, Exists
  <2> QED
    BY <1>1, <1>2, <2>1, OthersTell, Indices
<1>3. CASE late.step = "evacuate" /\ dir[Hidden(i)] = Nothing
           /\ dir' = [dir EXCEPT ![Old(i)] = Nothing, ![Hidden(i)] = dir[Old(i)]]
           /\ strayed' = IF GivenUp("evacuate", i) THEN strayed \union {i} ELSE strayed
  BY <1>1, <1>3, LateEvacuationTells
<1>4. CASE late.step = "rollback" /\ dir[Old(i)] = Nothing /\ strayed' = strayed
           /\ dir' = [dir EXCEPT ![Hidden(i)] = Nothing, ![Old(i)] = dir[Hidden(i)]]
  BY <1>1, <1>4, LateRollbackTells
<1>5. CASE late.step = "erase" /\ dir[Hidden(i)] # Nothing /\ strayed' = strayed
           /\ dir' = [dir EXCEPT ![Hidden(i)] = Nothing]
  BY <1>1, <1>5, LateErasureTells
<1>6. late.step = "erase" =>
        [dir EXCEPT ![Hidden(i)] = Nothing, ![Old(i)] = @] = [dir EXCEPT ![Hidden(i)] = Nothing]
  BY <1>1, Names DEF IInv, TypeOK
<1> QED
  BY <1>1, <1>2, <1>3, <1>4, <1>5, <1>6 DEF LateEffect

-----------------------------------------------------------------------------
(* The end of the operation, and other programs.                           *)

LEMMA RetireTells ==
  ASSUME IInv, JInv, pc = "loop", txn.phase \in {"deleting", "rollback"}, At(txn, "temporary") = {},
         NEW outcome \in {"success", "rolled_back"}, Retire(outcome)
  PROVE  JInv'
<1> DEFINE new == journal.current
           old == journal.previous
<1>1. /\ txn = new /\ new # NoTxn /\ new.step = "none" /\ Valid(new) /\ new \in Transactions
      /\ \A i \in Items : Placed(new, i) /\ HiddenMeans(new, i)
  BY ActiveTells DEF IInv, WorkerFollows
<1>2. Quiet /\ pc' = "idle" /\ report' # "new"
  BY DEF Retire, EndRun
<1>3. /\ \/ journal' = [current |-> new, previous |-> NoTxn]
         \/ journal' = [current |-> old, previous |-> NoTxn]
         \/ journal' = [current |-> NoTxn, previous |-> NoTxn]
      /\ NoTxn.phase = "none"
  BY DEF Retire, EmptyJournal, NoTxn
<1>4. \A t : Tells(t) => Tells(t)'
  BY <1>2 DEF Tells, Placed, HiddenMeans, Excused, Exists, Quiet
<1>5. Tells(new) /\ Tells(old) /\ Tells(NoTxn)
  BY <1>1 DEF JInv, OlderTells, Tells
<1>6. Tells(journal.current)' /\ OlderTells'
  BY <1>3, <1>4, <1>5 DEF OlderTells, Before
<1>7. AnswerTells' /\ TakenAreGone'
  BY <1>2 DEF JInv, AnswerTells, TakenAreGone, Quiet, Exists
<1>8. ASSUME new.phase = "deleting", NEW i \in Items PROVE dir[Hidden(i)] = Nothing
  <2>1. new.items[i].at = "deleted" /\ dir[Hidden(i)].id \in {0, i}
    BY <1>1, <1>8, ActiveRecord DEF Valid, Allowed, At, OwnNames
  <2>2. ~Exists(dir, i) /\ Hidden(i) \in Name
    BY <1>1, <2>1, Names DEF Placed
  <2> QED
    BY <2>1, <2>2 DEF Exists, IInv, NamesAreUnique
<1>9. ASSUME new.phase = "rollback", NEW i \in Items
      PROVE  dir[Hidden(i)] = Nothing \/ i \in strayed
  BY <1>1, <1>9 DEF HiddenMeans, Hiding, At
<1>10. Unrecorded'
  BY <1>1, <1>2, <1>8, <1>9 DEF Unrecorded, Quiet
<1>11. LateErasure'
  <2>1. CASE new.phase = "deleting"
    <3>1. late.step = "erase" => late.of \in Items
      BY DEF IInv, LateIsACall, NotLate
    <3> QED
      BY <1>2, <1>8, <2>1, <3>1 DEF LateErasure, Quiet
  <2>2. CASE new.phase = "rollback"
    BY <1>1, <1>2, <2>2, ActiveRecord DEF LateErasure, Quiet, Before, Kept
  <2> QED
    BY <1>1, <2>1, <2>2
<1> QED
  BY <1>6, <1>7, <1>10, <1>11 DEF JInv

LEMMA EditTells ==
  ASSUME IInv, JInv, NEW n \in Name, Edit(n)
  PROVE  JInv'
<1>1. /\ dir' = [dir EXCEPT ![n].rev = meddling'] /\ taken' = taken /\ dir[n].id \in Items
      /\ UNCHANGED <<journal, txn, pc, call, late, report, strayed>>
  BY DEF Edit, Meddles
<1>2. \A m \in Name : dir'[m].id = dir[m].id /\ (dir'[m] = Nothing <=> dir[m] = Nothing)
  BY <1>1, Names DEF IInv, TypeOK, Object
<1>3. \A id : Exists(dir', id) <=> Exists(dir, id)
  BY <1>2 DEF Exists
<1>4. \A i \in Items :
        /\ dir'[Hidden(i)] = Nothing <=> dir[Hidden(i)] = Nothing
        /\ dir'[Hidden(i)].id = dir[Hidden(i)].id
        /\ dir[Old(i)].id = i => dir'[Old(i)].id = i \/ i \in taken'
  BY <1>2, Names
<1>5. TakenAreGone'
  <2>1. meddling \in Nat /\ meddling' = meddling + 1
    BY DeleteAssumption DEF Edit, Meddles, IInv, TypeOK
  <2>2. \A id \in 1..(Count + meddling) : id \in 1..(Count + meddling')
    BY <2>1, DeleteAssumption
  <2> QED
    BY <1>1, <1>3, <2>2 DEF JInv, TakenAreGone
<1> QED
  BY <1>1, <1>3, <1>4, <1>5, Indices, OthersTell

LEMMA RemoveTells ==
  ASSUME IInv, JInv, NEW i \in Items, Remove(i)
  PROVE  JInv'
<1>1. /\ dir' = [dir EXCEPT ![Old(i)] = Nothing] /\ dir[Old(i)] # Nothing
      /\ taken' = taken \union {dir[Old(i)].id}
      /\ UNCHANGED <<journal, txn, pc, call, late, report, strayed>>
  BY DEF Remove, Meddles
<1>2. /\ dir'[Old(i)] = Nothing /\ \A m \in Name : m # Old(i) => dir'[m] = dir[m]
  BY <1>1, Names DEF IInv, TypeOK
<1>3. \A j \in Items :
        /\ dir'[Hidden(j)] = dir[Hidden(j)]
        /\ dir[Old(j)].id = j => dir'[Old(j)].id = j \/ j \in taken'
  BY <1>1, <1>2, Names
<1>4. \A id : id # 0 /\ Exists(dir', id) => Exists(dir, id) /\ id # dir[Old(i)].id
  <2>1. ASSUME NEW id, id # 0, NEW n \in Name, dir'[n].id = id
        PROVE  dir[n].id = id /\ n # Old(i)
    BY <1>2, <2>1, Names
  <2>2. ASSUME NEW id, id # 0, NEW n \in Name, dir'[n].id = id
        PROVE  id # dir[Old(i)].id
    BY <2>1, <2>2, Names DEF IInv, NamesAreUnique
  <2> QED
    BY <2>1, <2>2 DEF Exists
<1>5. TakenAreGone'
  <2>1. /\ meddling \in Nat /\ meddling' = meddling + 1
        /\ dir[Old(i)].id \in 1..(Count + meddling)
    BY <1>1, Names, DeleteAssumption
       DEF Remove, Meddles, IInv, TypeOK, NamesAreUnique, Object
  <2>2. \A id \in taken' : id \in 1..(Count + meddling') /\ id # 0
    BY <1>1, <2>1, DeleteAssumption DEF JInv, TakenAreGone
  <2> QED
    BY <1>1, <1>4, <2>2 DEF JInv, TakenAreGone
<1>6. \A id \in Items : Exists(dir', id) => Exists(dir, id)
  BY <1>4, Names
<1> QED
  BY <1>1, <1>3, <1>5, <1>6, Indices, OthersTell

LEMMA CreateTells ==
  ASSUME IInv, JInv, NEW i \in Items, Create(i)
  PROVE  JInv'
<1>1. /\ dir' = [dir EXCEPT ![Old(i)] = File(Count + meddling', 0)] /\ dir[Old(i)] = Nothing
      /\ taken' = taken /\ meddling \in Nat /\ meddling' = meddling + 1
      /\ UNCHANGED <<journal, txn, pc, call, late, report, strayed>>
  BY DeleteAssumption DEF Create, Meddles, IInv, TypeOK
<1>2. /\ dir'[Old(i)] = File(Count + meddling', 0)
      /\ \A m \in Name : m # Old(i) => dir'[m] = dir[m]
  BY <1>1, Names DEF IInv, TypeOK
<1>3. \A j \in Items :
        /\ dir'[Hidden(j)] = dir[Hidden(j)]
        /\ dir[Old(j)].id = j => dir'[Old(j)].id = j
  BY <1>1, <1>2, Names
<1>4. \A id : id # Count + meddling' /\ Exists(dir', id) => Exists(dir, id)
  <2>1. File(Count + meddling', 0).id = Count + meddling'
    BY DEF File
  <2> QED
    BY <1>2, <2>1 DEF Exists
<1>5. TakenAreGone'
  <2>1. \A id \in 1..(Count + meddling) :
          id # Count + meddling' /\ id \in 1..(Count + meddling')
    BY <1>1, DeleteAssumption
  <2> QED
    BY <1>1, <1>4, <2>1 DEF JInv, TakenAreGone
<1>6. \A id \in Items : Exists(dir', id) => Exists(dir, id)
  <2>1. \A id \in Items : id # Count + meddling'
    BY <1>1, DeleteAssumption DEF Items
  <2> QED
    BY <1>4, <2>1
<1> QED
  BY <1>1, <1>3, <1>5, <1>6, Indices, OthersTell

-----------------------------------------------------------------------------
(* The second invariant, and what follows from it.                         *)

LEMMA InitTells ==
  ASSUME Init
  PROVE  JInv
<1>1. \A i \in Items : dir[Old(i)].id = i /\ dir[Hidden(i)] = Nothing
  BY Names DEF Init, Old, Hidden, File
<1>2. /\ journal.current = NoTxn /\ NoTxn.phase = "none" /\ pc = "idle"
      /\ late.step = "none" /\ taken = {}
  BY DEF Init, EmptyJournal, NoTxn, NotLate
<1> QED
  BY <1>1, <1>2 DEF JInv, Tells, OlderTells, AnswerTells, LateErasure, Unrecorded, TakenAreGone

LEMMA StepTells ==
  ASSUME IInv, JInv, IInv', [Next]_vars
  PROVE  JInv'
<1>1. CASE UNCHANGED vars
  BY <1>1, ControlTells DEF vars, Quiet, JInv, AnswerTells, InPlace, Excused, Exists
<1>2. CASE BeginEvacuating \/ Intend \/ BeginDeleting
  BY <1>2, EnterTells DEF BeginEvacuating, Intend, BeginDeleting, InPhase
<1>3. CASE Evacuate \/ Erase \/ RollBack
  BY <1>3, BeginTells, Extremes DEF Evacuate, Erase, RollBack, InPhase, At
<1>4. CASE Succeed \/ FinishRollback
  BY <1>4, RetireTells DEF Succeed, FinishRollback, InPhase
<1>5. ASSUME pc = "answer" PROVE txn.step # "evacuate" => Valid(ClearActive(txn))
  BY <1>5, PutAside DEF Follows, Sound
<1>6. ASSUME pc = "answer", txn.step = "evacuate"
      PROVE  Valid([ClearActive(txn) EXCEPT !.phase = "rollback"])
  BY <1>6, PutAside DEF Follows, Sound
<1>7. CASE TurnAround
  <2>1. /\ Record([ClearActive(txn) EXCEPT !.phase = "rollback"], "loop") /\ Quiet
        /\ pc = "answer" /\ call.verdict \in {"no_commit", "changed"} /\ txn.step = "evacuate"
    BY <1>7 DEF TurnAround, Answer
  <2> QED
    BY <1>6, <2>1, AsideTells, RecordTells
<1>8. CASE RepeatErase
  <2>1. /\ Record(ClearActive(txn), "loop") /\ Quiet /\ pc = "answer" /\ txn.step # "evacuate"
    BY <1>8 DEF RepeatErase, RepeatsErase, Answer
  <2> QED
    BY <1>5, <2>1, AsideTells, RecordTells
<1>9. CASE NotCommitted
  <2>1. /\ RecordAndEnd(ClearActive(txn), "recovery_required") /\ Quiet
        /\ pc = "answer" /\ txn.step # "evacuate"
    BY <1>9 DEF NotCommitted, Answer
  <2> QED
    BY <1>5, <2>1, AsideTells, RecordAndEndTells
<1>10. CASE StopAtMissing
  <2>1. pc = "answer" /\ call.verdict = "not_found" /\ Quiet
    BY <1>10 DEF StopAtMissing, Answer
  <2>2. CASE txn.step = "evacuate"
    <3>1. RecordAndEnd([ClearActive(txn) EXCEPT !.phase = "rollback"], "interrupted")
      BY <1>10, <2>2 DEF StopAtMissing
    <3> QED
      BY <1>6, <2>1, <2>2, <3>1, AsideTells, RecordAndEndTells
  <2>3. CASE txn.step # "evacuate"
    <3>1. RecordAndEnd(ClearActive(txn), "interrupted")
      BY <1>10, <2>3 DEF StopAtMissing
    <3> QED
      BY <1>5, <2>1, <2>3, <3>1, AsideTells, RecordAndEndTells
  <2> QED
    BY <2>2, <2>3
<1>11. CASE Uncertain
  <2>1. RecordAndEnd(txn, "recovery_required") /\ Quiet /\ pc = "answer"
    BY <1>11 DEF Uncertain, Answer
  <2>2. Valid(txn) /\ MayFollow(txn)
    BY <2>1, ActiveTells DEF MayFollow, Tells, Before
  <2> QED
    BY <2>1, <2>2, RecordAndEndTells
<1>12. CASE OtherPrograms
  BY <1>12, EditTells, RemoveTells, CreateTells DEF OtherPrograms
<1>13. CASE Coordinator
  BY <1>2, <1>3, <1>4, <1>7, <1>8, <1>9, <1>10, <1>11, <1>13, RecordSuccessTells, LookAgainTells
     DEF Coordinator
<1>14. CASE Helper
  BY <1>14, ExecuteTells, ReconcileTells DEF Helper
<1> QED
  BY <1>1, <1>12, <1>13, <1>14, LateEffectTells, StartTells, ResumeTells, InterruptTells DEF Next

(* The record on disk tells of every file where it is, until the file is   *)
(* taken by another program or hidden by a call that was given up, and of  *)
(* every hidden name what it stands for: also the older record that a half *)
(* removed journal brings back                                             *)
(* (PermanentDeleteCoordinator::continue_transaction, apply_success).      *)
THEOREM RecordTellsThePlaces == Spec => [](IInv /\ JInv)
<1>1. Init => JInv
  BY InitTells
<1>2. IInv /\ IInv' /\ JInv /\ [Next]_vars => JInv'
  BY StepTells
<1> QED
  BY <1>1, <1>2, RecordTellsTheSide, PTL DEF Spec

(* A program step that makes a file disappear erases it under its hidden   *)
(* name, in the revision on record; a stuck erasure goes by the name, and  *)
(* finds the selected file there (execute_step, permanent_delete_remote).  *)
LEMMA VanishingIsErasing ==
  ASSUME IInv, JInv, [Next]_vars, NEW n \in Name,
         dir[n] # Nothing, ~Exists(dir', dir[n].id), taken' = taken
  PROVE  LET t == journal.current IN
           \/ /\ t.step = "erase" /\ n = Hidden(t.index)
              /\ dir[n] = t.items[t.index].snapshot
           \/ /\ late = [step |-> "erase", of |-> dir[n].id] /\ late' = NotLate
              /\ n = Hidden(dir[n].id)
              /\ t.phase = "deleting"
<1>1. dir[n].id # 0 /\ dir \in [Name -> Object] /\ TypeOK /\ NamesAreUnique
  BY DEF IInv, NamesAreUnique, TypeOK
<1>2. ASSUME UNCHANGED dir PROVE FALSE
  BY <1>2 DEF Exists
<1>3. ASSUME UNCHANGED meddling, NEW from \in Name, NEW to \in Name, from # to, dir[to] = Nothing,
             dir' = [dir EXCEPT ![to] = dir[from], ![from] = Nothing]
      PROVE  FALSE
  <2>1. \A id : id # 0 => (Exists(dir', id) <=> Exists(dir, id))
    BY <1>1, <1>3, Moving
  <2> QED
    BY <1>1, <2>1 DEF Exists
<1>4. ASSUME NEW m \in Name, dir' = [dir EXCEPT ![m] = Nothing] PROVE n = m
  BY <1>1, <1>4 DEF Exists
<1>5. CASE OtherPrograms
  <2>1. ASSUME NEW m \in Name, Edit(m) PROVE FALSE
    <3>1. dir'[n].id = dir[n].id
      BY <1>1, <2>1 DEF Edit, Object
    <3> QED
      BY <3>1 DEF Exists
  <2>2. ASSUME NEW i \in Items, Create(i) PROVE FALSE
    <3>1. dir'[n] = dir[n]
      BY <1>1, <2>2 DEF Create
    <3> QED
      BY <3>1 DEF Exists
  <2>3. ASSUME NEW i \in Items, Remove(i) PROVE FALSE
    <3>1. dir' = [dir EXCEPT ![Old(i)] = Nothing] /\ dir[Old(i)].id \in taken
      BY <2>3 DEF Remove
    <3>2. ~Exists(dir, dir[Old(i)].id) /\ Old(i) \in Name
      BY <3>1, Names DEF JInv, TakenAreGone
    <3> QED
      BY <3>2 DEF Exists
  <2> QED
    BY <1>5, <2>1, <2>2, <2>3 DEF OtherPrograms
<1>6. CASE Execute
  <2>1. pc = "execute" /\ UNCHANGED meddling /\ Verdict = "committed" /\ dir' = Moved
    BY <1>2, <1>6 DEF Execute, Effect, Stuck
  <2>2. dir[From] = Expected /\ (txn.step # "erase" => dir[To] = Nothing)
    BY <2>1 DEF Verdict
  <2>3. CASE txn.step = "erase"
    <3>1. n = From
      BY <1>4, <2>1, <2>3, StepNames DEF Moved
    <3> QED
      BY <2>1, <2>2, <2>3, <3>1, StepNames DEF Expected
  <2>4. CASE txn.step # "erase"
    <3>1. dir' = [dir EXCEPT ![To] = dir[From], ![From] = Nothing]
      BY <2>1, <2>4 DEF Moved
    <3> QED
      BY <1>3, <2>1, <2>2, <2>4, <3>1, StepNames
  <2> QED
    BY <2>3, <2>4
<1>7. CASE LateEffect
  <2> DEFINE i == late.of
  <2>1. /\ late.step \in {"evacuate", "erase", "rollback"} /\ i \in Items
        /\ late = [step |-> late.step, of |-> i] /\ late' = NotLate
        /\ UNCHANGED meddling
    BY <1>7 DEF IInv, TypeOK, LateIsACall, LateEffect, NotLate
  <2>2. Old(i) \in Name /\ Hidden(i) \in Name /\ Old(i) # Hidden(i)
    BY <2>1, Names
  <2>3. CASE late.step = "evacuate"
    <3>1. dir[Hidden(i)] = Nothing
          /\ dir' = [dir EXCEPT ![Old(i)] = Nothing, ![Hidden(i)] = dir[Old(i)]]
      BY <1>2, <1>7, <2>3 DEF LateEffect
    <3>2. dir' = [dir EXCEPT ![Hidden(i)] = dir[Old(i)], ![Old(i)] = Nothing]
      BY <1>1, <2>2, <3>1
    <3> QED
      BY <1>3, <2>1, <2>2, <3>1, <3>2
  <2>4. CASE late.step = "rollback"
    <3>1. dir[Old(i)] = Nothing
          /\ dir' = [dir EXCEPT ![Hidden(i)] = Nothing, ![Old(i)] = dir[Hidden(i)]]
      BY <1>2, <1>7, <2>4 DEF LateEffect
    <3>2. dir' = [dir EXCEPT ![Old(i)] = dir[Hidden(i)], ![Hidden(i)] = Nothing]
      BY <1>1, <2>2, <3>1
    <3> QED
      BY <1>3, <2>1, <2>2, <3>1, <3>2
  <2>5. CASE late.step = "erase"
    <3>1. dir' = [dir EXCEPT ![Hidden(i)] = Nothing, ![Old(i)] = @]
      BY <1>2, <1>7, <2>5 DEF LateEffect
    <3>2. dir' = [dir EXCEPT ![Hidden(i)] = Nothing]
      BY <1>1, <2>2, <3>1
    <3>3. n = Hidden(i)
      BY <1>4, <2>2, <3>2
    <3>4. journal.current.phase = "deleting" /\ Valid(journal.current)
      BY <2>5, <3>3 DEF JInv, LateErasure, IInv, Recorded, Sound, NoTxn
    <3>5. dir[Hidden(i)].id \in {0, i}
      BY <2>1, <3>4 DEF IInv, Sides, OwnNames, Valid, StepMatchesPhase
    <3> QED
      BY <1>1, <2>1, <2>5, <3>3, <3>4, <3>5
  <2> QED
    BY <2>1, <2>3, <2>4, <2>5
<1> QED
  BY <1>2, <1>5, <1>6, <1>7
     DEF Next, vars, Coordinator, Helper, BeginEvacuating, Evacuate, Intend, BeginDeleting, Erase,
         RollBack, Succeed, FinishRollback, RecordSuccess, LookAgain, TurnAround, RepeatErase,
         NotCommitted, StopAtMissing, Uncertain, Start, Resume, Interrupt, Reconcile, Enter, Begin,
         Retire, Answer, Quiet

THEOREM NoOtherFileVanishes == Spec => OnlyRecordedFilesVanish
<1>1. IInv /\ JInv /\ [Next]_vars =>
        [\A n \in Name :
           dir[n] # Nothing /\ ~Exists(dir', dir[n].id) /\ taken' = taken =>
             LET t == journal.current IN
               \/ /\ t.step = "erase" /\ n = Hidden(t.index)
                  /\ dir[n] = t.items[t.index].snapshot
               \/ /\ late = [step |-> "erase", of |-> dir[n].id] /\ late' = NotLate
                  /\ n = Hidden(dir[n].id)
                  /\ t.phase = "deleting"]_vars
  BY VanishingIsErasing
<1> QED
  BY <1>1, RecordTellsThePlaces, PTL DEF Spec, OnlyRecordedFilesVanish

(* What is hidden is known to the record that a recovery will read.        *)
LEMMA HiddenIsKnown ==
  ASSUME IInv, JInv
  PROVE  HiddenIsRecorded
<1> SUFFICES ASSUME NEW i \in Items, dir[Hidden(i)] # Nothing, i \notin strayed
             PROVE  LET t == journal.current IN
                      /\ t # NoTxn
                      /\ t.items[i].at = "temporary" \/ (t.step = "evacuate" /\ t.index = i)
  BY DEF HiddenIsRecorded
<1>1. journal.current # NoTxn
  BY DEF JInv, Unrecorded
<1>2. HiddenMeans(journal.current, i)
  BY <1>1 DEF JInv, Tells
<1> QED
  BY <1>1, <1>2 DEF HiddenMeans, Hiding

(* Only the two ends of the operation report one of its outcomes.          *)
LEMMA ReportedAtTheEnd ==
  ASSUME [Next]_vars, report' # report
  PROVE  /\ report' = "success" => Succeed
         /\ report' = "rolled_back" => FinishRollback
<1>1. Succeed \/ FinishRollback \/ report' \notin {"success", "rolled_back"}
  BY DEF Next, vars, Coordinator, Helper, OtherPrograms, BeginEvacuating, Evacuate, Intend,
     BeginDeleting, Erase, RollBack, RecordSuccess, LookAgain, TurnAround, RepeatErase,
     NotCommitted, StopAtMissing, Uncertain, Start, Resume, Interrupt, Reconcile, Execute,
     LateEffect, Enter, Begin, Record, RecordAndEnd, EndRun, Goto, Edit, Remove, Create, Meddles
<1> QED
  BY <1>1 DEF Succeed, FinishRollback, Retire, EndRun

LEMMA ReportTells ==
  ASSUME IInv, JInv, [Next]_vars, report' # report
  PROVE  /\ report' = "success" => \A i \in Items : ~Exists(dir, i)
         /\ report' = "rolled_back" =>
              \A i \in Items \ (taken \union strayed) : dir[Old(i)].id = i
<1>1. ASSUME report' = "success", NEW i \in Items PROVE ~Exists(dir, i)
  <2>1. pc = "loop" /\ txn.phase = "deleting" /\ At(txn, "temporary") = {}
    BY <1>1, ReportedAtTheEnd DEF Succeed, InPhase
  <2>2. txn.items[i].at = "deleted" /\ Placed(txn, i)
    BY <2>1, ActiveTells DEF Valid, Allowed, At
  <2> QED
    BY <2>2 DEF Placed
<1>2. ASSUME report' = "rolled_back", NEW i \in Items \ (taken \union strayed)
      PROVE  dir[Old(i)].id = i
  <2>1. pc = "loop" /\ txn.phase = "rollback" /\ At(txn, "temporary") = {}
    BY <1>2, ReportedAtTheEnd DEF FinishRollback, InPhase
  <2>2. txn.items[i].at = "source" /\ Placed(txn, i) /\ txn.step = "none"
    BY <2>1, ActiveTells DEF Valid, Allowed, At, IInv, WorkerFollows
  <2> QED
    BY <2>1, <2>2 DEF Placed, Before, Excused, Hiding
<1> QED
  BY <1>1, <1>2

(* Success is reported when all the files are gone, "rolled back" when all *)
(* are back under their names, but for those that others took or a stuck   *)
(* call hid; and what is hidden until then is on record at every instant,  *)
(* also of a half removed journal                                          *)
(* (PermanentDeleteCoordinator::continue_transaction, remove_journal).     *)
THEOREM TheReportIsTrue == Spec => OutcomeIsTrue
<1>1. IInv /\ JInv => HiddenIsRecorded
  BY HiddenIsKnown
<1>2. IInv /\ JInv /\ [Next]_vars /\ HiddenIsRecorded' =>
        [/\ HiddenIsRecorded'
         /\ report' # report =>
              /\ report' = "success" => \A i \in Items : ~Exists(dir, i)
              /\ report' = "rolled_back" =>
                   \A i \in Items \ (taken \union strayed) : dir[Old(i)].id = i]_vars
  BY ReportTells
<1> QED
  BY <1>1, <1>2, RecordTellsThePlaces, PTL DEF Spec, OutcomeIsTrue
==============================================================================
