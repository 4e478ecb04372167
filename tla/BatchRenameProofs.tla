-------------------------- MODULE BatchRenameProofs --------------------------
(***************************************************************************)
(* Proofs about BatchRename for every number of files, faults and changes  *)
(* by other programs: no file is lost or overwritten, the operation goes   *)
(* one way, and what a run reports is true of the directory.               *)
(*                                                                         *)
(* The inductive invariant says what a record on disk means: every file is *)
(* where the record has it, or where the step on record moves it (Placed). *)
(* Between two steps that holds of both generations, so that either may be *)
(* what a recovery finds.                                                  *)
(***************************************************************************)
EXTENDS BatchRename, FiniteSetTheorems, NaturalsInduction, WellFoundedInduction, TLAPS

Transactions ==
  [phase : {"prepared", "evacuating", "commit_intent", "publishing", "rollback"},
   step : {"none", "evacuate", "publish", "rollback"}, index : 0..Count, items : [Items -> ItemType]]

(* A record is valid, and its snapshots are of the files it was made for.  *)
Sound(t) == t \in Transactions /\ Valid(t) /\ \A i \in Items : t.items[i].snapshot.id = i

Recorded(t) == t = NoTxn \/ Sound(t)

(* A file has one name, strangers' files are new, and a hidden name is its *)
(* own file's.                                                             *)
NamesAreUnique ==
  /\ \A n \in Name : dir[n].id <= Count + meddling /\ (dir[n].id = 0 => dir[n] = Nothing)
  /\ \A n, m \in Name : dir[n].id = dir[m].id /\ dir[n].id # 0 => n = m
  /\ \A i \in Items : dir[Hidden(i)].id \in {0, i}

Has(name, i) == i \in taken \/ dir[name].id = i

(* What a record says of the directory: every file is where the record has *)
(* it, or where its step moves it; and a hidden name that is in use is on  *)
(* record.                                                                 *)
Moving(t, i) == t.step # "none" /\ t.index = i

Placed(t) ==
  t # NoTxn => \A i \in Items :
    /\ Has(NameAt(i, t.items[i].at), i) \/ (Moving(t, i) /\ Has(NameAt(i, Target(t.step)), i))
    /\ dir[Hidden(i)] = Nothing \/ t.items[i].at = "temporary"
       \/ (Moving(t, i) /\ t.step = "evacuate")

(* The step of the record has not been made, and has been made.            *)
Stayed(t) ==
  /\ Has(NameAt(t.index, t.items[t.index].at), t.index)
  /\ t.step = "evacuate" => dir[Hidden(t.index)] = Nothing

Arrived(t) ==
  /\ Has(NameAt(t.index, Target(t.step)), t.index)
  /\ t.step # "evacuate" => dir[Hidden(t.index)] = Nothing

(* The worker's copy is what is on disk, and an answer is about its step.  *)
WorkerFollows ==
  /\ pc = "idle" => txn = NoTxn
  /\ pc # "idle" => txn = journal.current /\ txn # NoTxn
  /\ pc = "loop" => txn.step = "none"
  /\ pc \in {"execute", "reconcile", "answer"} => txn.step # "none"
  /\ pc = "execute" => Stayed(txn)
  /\ pc = "answer" /\ call.verdict = "committed" =>
       call.object.id = txn.index /\ Arrived(txn)
  /\ pc = "answer" /\ call.verdict \in {"no_commit", "not_found"} => Stayed(txn)

(* Where the records of both generations may be once a file went one way.  *)
Way(t, direction) ==
  t.phase \in {"none", CASE direction = "publish" -> "publishing"
                         [] direction = "rollback" -> "rollback"}

GoesOneWay ==
  /\ \/ went = {}
     \/ \E direction \in {"publish", "rollback"} :
          /\ went = {direction}
          /\ Way(journal.current, direction) /\ Way(journal.previous, direction)
  /\ \A direction \in {"publish", "rollback"} :
       journal.current.step = direction => Way(journal.previous, direction)

Untouched ==
  report = "new" /\ journal.current = NoTxn =>
    went = {} /\ \A i \in Items : Has(Old(i), i)

(* The generation before is true of the directory between two steps: it    *)
(* may come back when the journal is removed by halves.                    *)
RecordsAreTrue ==
  /\ Placed(journal.current)
  /\ journal.current.step = "none" => Placed(journal.previous)
  /\ journal.current = NoTxn => \A i \in Items : dir[Hidden(i)] = Nothing

IInv ==
  /\ TypeOK
  /\ Recorded(journal.current) /\ Recorded(journal.previous)
  /\ NamesAreUnique /\ WorkerFollows /\ GoesOneWay /\ Untouched /\ RecordsAreTrue

-----------------------------------------------------------------------------
(* Facts about the operators.                                              *)

Less == {ss \in Nat \X Nat : ss[1] < ss[2]}

LEMMA Least ==
  ASSUME NEW S \in SUBSET Nat, S # {}
  PROVE  \E i \in S : \A j \in S : i <= j
<1>1. OpToRel(<, Nat) = Less
  BY Zenon DEF OpToRel, Less
<1>2. IsWellFoundedOn(Less, Nat)
  BY ONLY NatLessThanWellFounded, <1>1, Zenon
<1>3. PICK i \in S : \A j \in S : ~(<<j, i>> \in Less)
  BY <1>2, WFMin
<1>4. \A j \in S : ~(j < i)
  BY <1>3 DEF Less
<1> QED
  BY <1>4

(* A set of items that is not empty has a first and a last one.            *)
LEMMA Extremes ==
  ASSUME NEW S \in SUBSET Items, S # {}
  PROVE  First(S) \in S /\ Last(S) \in S
<1> USE BatchAssumption DEF Items
<1>1. \E i \in S : \A j \in S : i <= j
  BY Least
<1>2. \E i \in S : \A j \in S : j <= i
  <2> DEFINE T == {Count - i : i \in S}
  <2>1. T \in SUBSET Nat /\ T # {}
    <3>1. \A i \in S : Count - i \in Nat
      OBVIOUS
    <3> QED
      BY <3>1
  <2>2. PICK m \in T : \A n \in T : m <= n
    BY <2>1, Least
  <2>3. PICK i \in S : m = Count - i
    BY <2>2
  <2>4. \A j \in S : Count - i <= Count - j
    BY <2>2, <2>3
  <2> QED
    BY <2>4
<1> QED
  BY <1>1, <1>2 DEF First, Last

(* What the names of a file are, and which of them may coincide.           *)
LEMMA Names ==
  /\ \A i \in Items : i # 0 /\ i \in 0..Count /\ Old(i) \in Name /\ Hidden(i) \in Name
  /\ \A i, j \in Items : Hidden(i) = Hidden(j) => i = j
  /\ \A i, j \in Items : Old(i) = Old(j) => i = j
  /\ Visible \subseteq Name
  /\ \A i \in Items, n \in Visible : n # Hidden(i)
  /\ \A i \in Items : Old(i) \in Visible
  /\ Nothing \in Object /\ Nothing.id = 0
<1>1. \A i \in Items : i # 0 /\ i \in 0..Count
  BY BatchAssumption DEF Items
<1>2. Nothing \in Object /\ Nothing.id = 0
  BY BatchAssumption DEF Nothing, File, Object
<1> QED
  BY <1>1, <1>2 DEF Old, Hidden, Name, Visible

LEMMA PlannedNames ==
  ASSUME TypeOK, NEW i \in Items
  PROVE  /\ new[i] \in Visible /\ new[i] # Old(i)
         /\ \A where \in {"source", "temporary", "destination"} : NameAt(i, where) \in Name
<1>1. new[i] \in Visible /\ new[i] \in {Old(j) : j \in Items \ {i}} \union {Fresh(i)}
  BY DEF TypeOK, Plans
<1>2. new[i] # Old(i)
  BY <1>1 DEF Old, Fresh
<1> QED
  BY <1>1, <1>2, Names DEF NameAt

(* Steps are put on record and set aside within the type.                  *)
LEMMA StepTypes ==
  ASSUME NEW t \in Transactions
  PROVE  /\ \A step \in {"none", "evacuate", "publish", "rollback"}, k \in Items :
              [t EXCEPT !.step = step, !.index = k] \in Transactions
         /\ ClearActive(t) \in Transactions
         /\ [ClearActive(t) EXCEPT !.phase = "rollback"] \in Transactions
<1>1. Items \subseteq 0..Count /\ 0 \in 0..Count
  BY BatchAssumption DEF Items
<1> QED
  BY <1>1 DEF Transactions, ClearActive

-----------------------------------------------------------------------------
(* Writing a record.                                                       *)

(* What a record may be followed by: the conditions under which writing t  *)
(* keeps the invariant.                                                    *)
Follows(t) ==
  /\ Sound(t) /\ Placed(t)
  /\ \A direction \in {"publish", "rollback"} :
       /\ went = {direction} => Way(t, direction)
       /\ t.step = direction => Way(journal.current, direction)

Persisted(t) == journal' = [current |-> t, previous |-> journal.current]

Ends == pc' = "idle" /\ txn' = NoTxn /\ call' = NoCall

LEMMA NoTransaction ==
  /\ NoTxn.step = "none" /\ NoTxn.phase = "none" /\ NoTxn \notin Transactions
  /\ NoTxn \in TransactionType /\ Transactions \subseteq TransactionType
  /\ TransactionType = Transactions \union {NoTxn}
  /\ NoCall \in CallType
BY Names DEF NoTxn, Transactions, TransactionType, NoCall, CallType

(* Every record that is written keeps the invariant, whether the run goes  *)
(* on or ends with it.                                                     *)
LEMMA WritingKeeps ==
  ASSUME IInv, NEW t, Follows(t), Persisted(t), Quiet, faults' \in 0..MaxFaults,
         \/ /\ txn' = t /\ call' = NoCall /\ report' = report
            /\ pc' = IF t.step = "none" THEN "loop" ELSE "execute"
            /\ t.step # "none" => Stayed(t)
         \/ Ends /\ report' \in {"recovery_required", "interrupted"}
  PROVE  IInv'
<1>1. t \in TransactionType /\ t # NoTxn
  BY NoTransaction DEF Follows, Sound
<1>2. TypeOK'
  BY <1>1, NoTransaction DEF IInv, TypeOK, Persisted, Quiet, Ends
<1>3. Recorded(journal.current)' /\ Recorded(journal.previous)'
  BY DEF IInv, Follows, Persisted, Recorded
<1>4. NamesAreUnique'
  BY DEF IInv, NamesAreUnique, Quiet
<1>5. ASSUME NEW u PROVE (Placed(u) => Placed(u)') /\ (Stayed(u) => Stayed(u)')
  BY DEF Placed, Stayed, Has, Moving, NameAt, Target, Quiet
<1>6. WorkerFollows'
  BY <1>1, <1>5 DEF WorkerFollows, Persisted, Ends, NoCall
<1>7. GoesOneWay'
  BY DEF IInv, GoesOneWay, Follows, Persisted, Quiet, Way
<1>8. Untouched' /\ RecordsAreTrue'
  BY <1>1, <1>5 DEF IInv, Untouched, RecordsAreTrue, Follows, Persisted
<1> QED
  BY <1>2, <1>3, <1>4, <1>6, <1>7, <1>8 DEF IInv

(* The same of the two ways in which the program writes a record.          *)
LEMMA RecordKeeps ==
  ASSUME IInv, NEW t, Follows(t), Quiet, UNCHANGED faults,
         NEW next, next = (IF t.step = "none" THEN "loop" ELSE "execute"),
         t.step # "none" => Stayed(t), Record(t, next)
  PROVE  IInv'
<1>1. Valid(t)
  BY DEF Follows, Sound
<1>2. Persisted(t) /\ txn' = t /\ pc' = next /\ call' = NoCall /\ report' = report
  BY <1>1 DEF Record, Writes, Persisted
<1>3. faults' \in 0..MaxFaults
  BY DEF IInv, TypeOK
<1> QED
  BY <1>2, <1>3, WritingKeeps

LEMMA RecordAndEndKeeps ==
  ASSUME IInv, NEW t, Follows(t), Quiet, UNCHANGED faults \/ Fault,
         NEW outcome \in {"recovery_required", "interrupted"}, RecordAndEnd(t, outcome)
  PROVE  IInv'
<1>1. Valid(t)
  BY DEF Follows, Sound
<1>2. Persisted(t) /\ Ends /\ report' = outcome
  BY <1>1 DEF RecordAndEnd, Writes, Persisted, EndRun, Ends
<1>3. faults' \in 0..MaxFaults
  BY BatchAssumption DEF IInv, TypeOK, Fault
<1> QED
  BY <1>2, <1>3, WritingKeeps

(* While a run is active, its transaction is the record on disk, and until *)
(* the first file comes out of hiding either way is open.                  *)
LEMMA ActiveRecord ==
  ASSUME IInv, pc # "idle"
  PROVE  /\ txn = journal.current /\ Sound(txn) /\ Placed(txn)
         /\ txn.phase \in {"prepared", "evacuating", "commit_intent"} => went = {}
         /\ \A direction \in {"publish", "rollback"} : went = {direction} => Way(txn, direction)
BY DEF IInv, WorkerFollows, Recorded, RecordsAreTrue, GoesOneWay, Way

-----------------------------------------------------------------------------
(* The steps that write a record.                                          *)

LEMMA StartKeeps ==
  ASSUME IInv, Start
  PROVE  IInv'
<1> DEFINE t == NewTransaction
<1>1. t.step = "none" /\ t.phase = "prepared" /\ \A i \in Items : t.items[i].at = "source"
  BY DEF NewTransaction
<1>2. Sound(t)
  BY BatchAssumption DEF Sound, Valid, StepMatchesPhase, Allowed, NewTransaction, Transactions,
     Items, Object, File, ItemType
<1>3. went = {} /\ Placed(t)
  <2>1. went = {} /\ \A i \in Items : Has(Old(i), i) /\ dir[Hidden(i)] = Nothing
    BY DEF IInv, Start, Untouched, RecordsAreTrue
  <2> QED
    BY <1>1, <2>1 DEF Placed, NameAt
<1>4. Follows(t)
  BY <1>1, <1>2, <1>3 DEF Follows
<1>5. Record(t, "loop") /\ Quiet /\ UNCHANGED faults
  BY DEF Start
<1> HIDE DEF t
<1> QED
  BY <1>1, <1>4, <1>5, RecordKeeps

(* The next phase is entered with every file where it is.                  *)
LEMMA EnterKeeps ==
  ASSUME IInv, pc = "loop", NEW phase \in {"evacuating", "commit_intent", "publishing"},
         txn.phase \in {"prepared", "evacuating", "commit_intent"}, Enter(phase),
         \A i \in Items : txn.items[i].at \in Allowed(phase)
  PROVE  IInv'
<1> DEFINE t == [txn EXCEPT !.phase = phase]
<1>1. txn.step = "none" /\ Sound(txn) /\ Placed(txn) /\ went = {}
  BY ActiveRecord DEF IInv, WorkerFollows
<1>2. t.phase = phase /\ t.step = "none" /\ t.index = txn.index /\ t.items = txn.items
  BY <1>1 DEF Sound, Transactions
<1>3. t \in Transactions
  BY <1>1 DEF Sound, Transactions
<1>4. Record(t, "loop") /\ Quiet /\ UNCHANGED faults
  BY DEF Enter
<1> HIDE DEF t
<1>5. Sound(t)
  BY <1>1, <1>2, <1>3 DEF Sound, Valid, StepMatchesPhase
<1>6. Placed(t)
  BY <1>1, <1>2, NoTransaction DEF Placed, Moving, Sound
<1>7. Follows(t)
  BY <1>1, <1>2, <1>5, <1>6 DEF Follows
<1> QED
  BY <1>2, <1>4, <1>7, RecordKeeps

LEMMA BeginEvacuatingKeeps ==
  ASSUME IInv, BeginEvacuating
  PROVE  IInv'
<1>1. \A i \in Items : txn.items[i].at \in Allowed("evacuating")
  BY ActiveRecord DEF BeginEvacuating, InPhase, Sound, Valid, Allowed
<1> QED
  BY <1>1, EnterKeeps DEF BeginEvacuating, InPhase

LEMMA IntendCommitKeeps ==
  ASSUME IInv, IntendCommit
  PROVE  IInv'
<1>1. \A i \in Items : txn.items[i].at \in Allowed("commit_intent")
  BY ActiveRecord DEF IntendCommit, InPhase, Sound, Valid, Allowed, At
<1> QED
  BY <1>1, EnterKeeps DEF IntendCommit, InPhase

LEMMA BeginPublishingKeeps ==
  ASSUME IInv, BeginPublishing
  PROVE  IInv'
<1>1. \A i \in Items : txn.items[i].at \in Allowed("publishing")
  BY ActiveRecord DEF BeginPublishing, InPhase, Sound, Valid, Allowed
<1> QED
  BY <1>1, EnterKeeps DEF BeginPublishing, InPhase

(* A step is put on record before it is made: its file has not moved.      *)
LEMMA BeginKeeps ==
  ASSUME IInv, pc = "loop", NEW k \in Items, NEW step \in {"evacuate", "publish", "rollback"},
         Begin(step, k),
         \/ step = "evacuate" /\ txn.phase = "evacuating" /\ txn.items[k].at = "source"
         \/ step = "publish" /\ txn.phase = "publishing" /\ txn.items[k].at = "temporary"
         \/ step = "rollback" /\ txn.phase = "rollback" /\ txn.items[k].at = "temporary"
  PROVE  IInv'
<1> DEFINE t == [txn EXCEPT !.step = step, !.index = k]
<1>1. txn.step = "none" /\ Sound(txn) /\ Placed(txn) /\ txn = journal.current
  BY ActiveRecord DEF IInv, WorkerFollows
<1>2. t.step = step /\ t.index = k /\ t.phase = txn.phase /\ t.items = txn.items
  BY <1>1 DEF Sound, Transactions
<1>3. t \in Transactions
  BY <1>1, StepTypes DEF Sound
<1>4. Record(t, "execute") /\ Quiet /\ UNCHANGED faults
  BY DEF Begin
<1> HIDE DEF t
<1>5. StepMatchesPhase(t)
  BY <1>2 DEF StepMatchesPhase, At
<1>6. Sound(t)
  BY <1>1, <1>2, <1>3, <1>5 DEF Sound, Valid
<1>7. \A i \in Items :
        /\ Has(NameAt(i, txn.items[i].at), i)
        /\ dir[Hidden(i)] = Nothing \/ txn.items[i].at = "temporary"
  BY <1>1, NoTransaction DEF Placed, Moving, Sound
<1>8. Placed(t)
  BY <1>2, <1>7 DEF Placed
<1>9. Stayed(t)
  BY <1>2, <1>7 DEF Stayed
<1>10. Follows(t)
  BY <1>1, <1>2, <1>6, <1>8, ActiveRecord DEF Follows, Way
<1> QED
  BY <1>2, <1>4, <1>9, <1>10, RecordKeeps

LEMMA EvacuateKeeps ==
  ASSUME IInv, Evacuate
  PROVE  IInv'
<1>1. First(At(txn, "source")) \in At(txn, "source")
  BY Extremes DEF Evacuate, At
<1> QED
  BY <1>1, BeginKeeps DEF Evacuate, InPhase, At

LEMMA PublishKeeps ==
  ASSUME IInv, Publish
  PROVE  IInv'
<1>1. First(At(txn, "temporary")) \in At(txn, "temporary")
  BY Extremes DEF Publish, At
<1> QED
  BY <1>1, BeginKeeps DEF Publish, InPhase, At

LEMMA RollBackKeeps ==
  ASSUME IInv, RollBack
  PROVE  IInv'
<1>1. Last(At(txn, "temporary")) \in At(txn, "temporary")
  BY Extremes DEF RollBack, At
<1> QED
  BY <1>1, BeginKeeps DEF RollBack, InPhase, At

-----------------------------------------------------------------------------
(* The answers that are recorded.                                          *)

(* The names that the step on record is about.                             *)
LEMMA StepNames ==
  ASSUME IInv, pc \in {"execute", "reconcile", "answer"}
  PROVE  /\ txn = journal.current /\ Sound(txn) /\ txn.index \in Items
         /\ Expected \in Object /\ Expected.id = txn.index
         /\ From \in Name /\ To \in Name /\ From # To
         /\ \/ /\ txn.step = "evacuate" /\ txn.phase = "evacuating"
               /\ txn.items[txn.index].at = "source"
               /\ To = Hidden(txn.index) /\ From \in Visible
            \/ /\ \/ txn.step = "rollback" /\ txn.phase = "rollback"
                  \/ txn.step = "publish" /\ txn.phase = "publishing"
               /\ txn.items[txn.index].at = "temporary"
               /\ From = Hidden(txn.index) /\ To \in Visible
<1> DEFINE k == txn.index
<1>1. /\ Sound(txn) /\ StepMatchesPhase(txn) /\ txn = journal.current
      /\ txn.step \in {"evacuate", "publish", "rollback"}
  BY ActiveRecord DEF IInv, WorkerFollows, Sound, Transactions, Valid
<1>2. k \in Items
  BY <1>1 DEF StepMatchesPhase, At
<1>3. Expected \in Object /\ Expected.id = k
  BY <1>1, <1>2 DEF Expected, Sound, Transactions, ItemType
<1>4. new[k] \in Visible /\ Old(k) \in Visible /\ Hidden(k) \in Name /\ Visible \subseteq Name
      /\ \A n \in Visible : n # Hidden(k)
  BY <1>2, Names, PlannedNames DEF IInv
<1>5. CASE txn.step = "evacuate"
  <2>1. txn.phase = "evacuating" /\ txn.items[k].at = "source"
    BY <1>1, <1>5 DEF StepMatchesPhase, At
  <2>2. From = Old(k) /\ To = Hidden(k)
    BY <1>5, <2>1 DEF From, To, NameAt, Target
  <2> QED
    BY <1>1, <1>2, <1>3, <1>4, <1>5, <2>1, <2>2
<1>6. CASE txn.step \in {"rollback", "publish"}
  <2>1. /\ txn.items[k].at = "temporary"
        /\ txn.phase = (IF txn.step = "rollback" THEN "rollback" ELSE "publishing")
    BY <1>1, <1>6 DEF StepMatchesPhase, At
  <2>2. From = Hidden(k) /\ To \in {Old(k), new[k]}
    BY <1>6, <2>1 DEF From, To, NameAt, Target
  <2> QED
    BY <1>1, <1>2, <1>3, <1>4, <1>6, <2>1, <2>2
<1> QED
  BY <1>1, <1>5, <1>6

(* Putting aside a step that was not made, and turning an evacuation       *)
(* around.                                                                 *)
LEMMA PutAside ==
  ASSUME IInv, pc = "answer", call.verdict \in {"no_commit", "not_found"}
  PROVE  /\ Follows(ClearActive(txn)) /\ ClearActive(txn).step = "none"
         /\ txn.step = "evacuate" =>
              LET t == [ClearActive(txn) EXCEPT !.phase = "rollback"] IN
                Follows(t) /\ t.step = "none"
<1>1. /\ Sound(txn) /\ Placed(txn) /\ Stayed(txn) /\ txn.index \in Items
      /\ \/ txn.step = "evacuate" /\ txn.phase = "evacuating"
         \/ txn.step # "evacuate" /\ txn.items[txn.index].at = "temporary"
  BY ActiveRecord, StepNames DEF IInv, WorkerFollows
<1>2. \A i \in Items :
        /\ Has(NameAt(i, txn.items[i].at), i)
        /\ dir[Hidden(i)] = Nothing \/ txn.items[i].at = "temporary"
  BY <1>1, NoTransaction DEF Placed, Moving, Stayed, Sound
<1>3. ASSUME NEW t \in Transactions, t.step = "none", t.index = 0, t.items = txn.items,
             \/ t.phase = txn.phase
             \/ t.phase = "rollback" /\ txn.phase = "evacuating"
      PROVE  Follows(t)
  <2>1. Allowed("evacuating") = Allowed("rollback")
    BY DEF Allowed
  <2>2. Sound(t)
    BY <1>1, <1>3, <2>1 DEF Sound, Valid, StepMatchesPhase
  <2>3. Placed(t)
    BY <1>2, <1>3 DEF Placed
  <2> QED
    BY <1>3, <2>2, <2>3, ActiveRecord DEF Follows, Way
<1> DEFINE c == ClearActive(txn)
           r == [ClearActive(txn) EXCEPT !.phase = "rollback"]
<1>4. /\ c \in Transactions /\ c.step = "none" /\ c.index = 0 /\ c.items = txn.items
      /\ c.phase = txn.phase
  BY <1>1, StepTypes DEF ClearActive, Sound, Transactions
<1>5. /\ r \in Transactions /\ r.step = "none" /\ r.index = 0 /\ r.items = txn.items
      /\ r.phase = "rollback"
  BY <1>1, StepTypes, ZenonT(60) DEF ClearActive, Sound, Transactions
<1>6. Follows(c)
  BY <1>3, <1>4
<1>7. txn.step = "evacuate" => Follows(r)
  BY <1>1, <1>3, <1>5
<1> QED
  BY <1>4, <1>5, <1>6, <1>7

LEMMA RecordSuccessKeeps ==
  ASSUME IInv, RecordSuccess
  PROVE  IInv'
<1> DEFINE k == txn.index
           it == [at |-> Target(txn.step), snapshot |-> call.object]
           t == Applied(txn, call.object)
<1>1. /\ pc = "answer" /\ call.verdict = "committed" /\ Quiet /\ UNCHANGED faults
      /\ Record(t, "loop")
  BY DEF RecordSuccess, Answer
<1>2. /\ Sound(txn) /\ Placed(txn) /\ Arrived(txn) /\ k \in Items
      /\ \/ txn.step = "evacuate" /\ txn.phase = "evacuating"
         \/ txn.step = "rollback" /\ txn.phase = "rollback"
         \/ txn.step = "publish" /\ txn.phase = "publishing"
  BY <1>1, ActiveRecord, StepNames DEF IInv, WorkerFollows
<1>3. call.object \in Object /\ call.object.id = k
  BY <1>1 DEF IInv, TypeOK, CallType, WorkerFollows
<1>4. /\ t.step = "none" /\ t.index = 0 /\ t.phase = txn.phase
      /\ \A i \in Items : i # k => t.items[i] = txn.items[i]
      /\ t.items[k] = it
  BY <1>2 DEF Applied, ClearActive, Sound, Transactions
<1>5. it \in ItemType /\ it.snapshot.id = k /\ it.at \in Allowed(txn.phase)
  BY <1>2, <1>3 DEF Target, Allowed, ItemType
<1>6. t \in Transactions
  <2>1. t = [ClearActive(txn) EXCEPT !.items[k] = it]
    BY DEF Applied
  <2> HIDE DEF t, it
  <2>2. ClearActive(txn) \in Transactions
    BY <1>2, StepTypes DEF Sound
  <2> QED
    BY <1>2, <1>5, <2>1, <2>2 DEF Transactions
<1> HIDE DEF t
<1>7. \A i \in Items : t.items[i].snapshot.id = i /\ t.items[i].at \in Allowed(t.phase)
  BY <1>2, <1>4, <1>5 DEF Sound, Valid
<1>8. Sound(t)
  BY <1>4, <1>6, <1>7 DEF Sound, Valid, StepMatchesPhase
<1>9. Placed(t)
  <2>1. SUFFICES ASSUME NEW i \in Items
                 PROVE  /\ Has(NameAt(i, t.items[i].at), i)
                        /\ dir[Hidden(i)] = Nothing \/ t.items[i].at = "temporary"
    BY DEF Placed
  <2>2. CASE i = k
    BY <1>2, <1>4, <2>2 DEF Arrived, Target
  <2>3. CASE i # k
    BY <1>2, <1>4, <2>1, <2>3, NoTransaction DEF Placed, Moving, Sound
  <2> QED
    BY <2>2, <2>3
<1>10. Follows(t)
  BY <1>1, <1>4, <1>8, <1>9, ActiveRecord DEF Follows, Way
<1> QED
  BY <1>1, <1>4, <1>10, RecordKeeps

LEMMA NotCommittedKeeps ==
  ASSUME IInv, NotCommitted
  PROVE  IInv'
<1> DEFINE c == ClearActive(txn)
           r == [ClearActive(txn) EXCEPT !.phase = "rollback"]
<1>1. /\ Follows(c) /\ c.step = "none"
      /\ txn.step = "evacuate" => Follows(r) /\ r.step = "none"
  BY PutAside DEF NotCommitted, Answer
<1>2. /\ Quiet /\ UNCHANGED faults
      /\ \/ Record(c, "loop")
         \/ txn.step = "evacuate" /\ Record(r, "loop")
         \/ RecordAndEnd(c, "recovery_required")
  BY DEF NotCommitted, Answer
<1> HIDE DEF c, r
<1> QED
  BY <1>1, <1>2, RecordKeeps, RecordAndEndKeeps

LEMMA StopAtMissingKeeps ==
  ASSUME IInv, StopAtMissing
  PROVE  IInv'
<1> DEFINE t == IF txn.step = "evacuate" THEN [ClearActive(txn) EXCEPT !.phase = "rollback"]
                ELSE ClearActive(txn)
<1>1. Follows(t)
  BY PutAside DEF StopAtMissing, Answer
<1>2. RecordAndEnd(t, "interrupted") /\ Quiet /\ Fault
  BY DEF StopAtMissing, Answer
<1> HIDE DEF t
<1> QED
  BY <1>1, <1>2, RecordAndEndKeeps

LEMMA UncertainKeeps ==
  ASSUME IInv, Uncertain
  PROVE  IInv'
<1>1. pc = "answer"
  BY DEF Uncertain, Answer
<1>2. Follows(txn)
  BY <1>1, ActiveRecord, StepNames DEF Follows, Way
<1> QED
  BY <1>2, RecordAndEndKeeps DEF Uncertain, Answer

-----------------------------------------------------------------------------
(* The steps that leave the files and the records alone.                   *)

(* What a worker takes up again, is asked or forgets changes nothing that  *)
(* the records say.                                                        *)
LEMMA QuietKeeps ==
  ASSUME IInv, Quiet, UNCHANGED journal, faults' \in 0..MaxFaults,
         txn' \in TransactionType, call' \in CallType,
         pc' \in {"idle", "loop", "execute", "reconcile", "answer"},
         report' \in {report, "recovery_required", "interrupted"}, WorkerFollows'
  PROVE  IInv'
<1>1. TypeOK'
  BY DEF IInv, TypeOK, Quiet
<1>2. ASSUME NEW u PROVE Placed(u) => Placed(u)'
  BY DEF Placed, Has, Moving, NameAt, Target, Quiet
<1>3. RecordsAreTrue'
  BY <1>2 DEF IInv, RecordsAreTrue, Quiet
<1>4. NamesAreUnique' /\ GoesOneWay' /\ Untouched'
  BY DEF IInv, NamesAreUnique, GoesOneWay, Untouched, Has, Quiet
<1> QED
  BY <1>1, <1>3, <1>4 DEF IInv

LEMMA ResumeKeeps ==
  ASSUME IInv, Resume
  PROVE  IInv'
<1>1. /\ txn' = journal.current /\ journal.current # NoTxn /\ Quiet
      /\ UNCHANGED <<journal, report, faults>>
      /\ \/ pc' = "loop" /\ txn'.step = "none" /\ call' = NoCall
         \/ /\ pc' = "reconcile" /\ txn'.step # "none"
            /\ call' = [NoCall EXCEPT !.recovering = TRUE]
  BY DEF Resume
<1>2. call' \in CallType
  BY <1>1, NoTransaction DEF CallType
<1>3. WorkerFollows'
  BY <1>1 DEF WorkerFollows
<1>4. txn' \in TransactionType /\ faults' \in 0..MaxFaults
  BY <1>1 DEF IInv, TypeOK
<1> QED
  BY <1>1, <1>2, <1>3, <1>4, QuietKeeps

LEMMA InterruptKeeps ==
  ASSUME IInv, Interrupt
  PROVE  IInv'
<1>1. /\ pc' = "idle" /\ txn' = NoTxn /\ call' = NoCall /\ report' = "interrupted"
      /\ Quiet /\ UNCHANGED journal
  BY DEF Interrupt, EndRun
<1>2. faults' \in 0..MaxFaults
  BY BatchAssumption DEF Interrupt, Fault, IInv, TypeOK
<1>3. WorkerFollows'
  BY <1>1 DEF WorkerFollows
<1> QED
  BY <1>1, <1>2, <1>3, NoTransaction, QuietKeeps

LEMMA LookAgainKeeps ==
  ASSUME IInv, LookAgain
  PROVE  IInv'
<1>1. /\ pc = "answer" /\ pc' = "reconcile" /\ Quiet
      /\ UNCHANGED <<journal, txn, report, faults, call>>
  BY DEF LookAgain, Answer, Goto
<1>2. WorkerFollows'
  BY <1>1 DEF IInv, WorkerFollows
<1>3. txn' \in TransactionType /\ call' \in CallType /\ faults' \in 0..MaxFaults
  BY <1>1 DEF IInv, TypeOK
<1> QED
  BY <1>1, <1>2, <1>3, QuietKeeps

(* A file that is seen under its target is nowhere else, and one that is   *)
(* seen where it was is not under its target.                              *)
LEMMA SightProves ==
  ASSUME IInv, pc = "reconcile"
  PROVE  /\ Reconciled = "committed" => dir[To].id = txn.index /\ Arrived(txn)
         /\ Reconciled = "no_commit" => Stayed(txn)
         /\ Reconciled \in {"none", "committed", "no_commit"}
<1> DEFINE k == txn.index
<1>1. /\ k \in Items /\ k # 0 /\ Expected.id = k /\ From \in Name /\ To \in Name /\ From # To
      /\ \/ txn.step = "evacuate" /\ To = Hidden(k)
         \/ txn.step # "evacuate" /\ From = Hidden(k)
  BY StepNames, Names
<1>2. dir[Hidden(k)].id \in {0, k} /\ (dir[Hidden(k)].id = 0 => dir[Hidden(k)] = Nothing)
  BY <1>1, Names DEF IInv, NamesAreUnique
<1>3. dir[To].id = k => dir[From].id # k
  BY <1>1 DEF IInv, NamesAreUnique
<1>4. ASSUME Reconciled = "committed" PROVE dir[To].id = k /\ Arrived(txn)
  <2>1. dir[To].id = k
    BY <1>1, <1>4 DEF Reconciled
  <2> QED
    BY <1>1, <1>2, <1>3, <2>1 DEF Arrived, Has, To
<1>5. ASSUME Reconciled = "no_commit" PROVE Stayed(txn)
  <2>1. dir[To].id # k /\ dir[From].id = k
    BY <1>1, <1>5 DEF Reconciled
  <2> QED
    BY <1>1, <1>2, <2>1 DEF Stayed, Has, From
<1>6. Reconciled \in {"none", "committed", "no_commit"}
  BY DEF Reconciled
<1> QED
  BY <1>4, <1>5, <1>6

LEMMA ReconcileKeeps ==
  ASSUME IInv, Reconcile
  PROVE  IInv'
<1>1. /\ pc = "reconcile" /\ pc' = "answer" /\ Quiet /\ UNCHANGED <<journal, txn, report>>
      /\ \/ call' = [call EXCEPT !.verdict = Reconciled, !.object = dir[To]] /\ UNCHANGED faults
         \/ call' = [call EXCEPT !.verdict = "none"] /\ Fault
  BY DEF Reconcile, Goto
<1>2. faults' \in 0..MaxFaults /\ txn' \in TransactionType
  BY <1>1, BatchAssumption DEF Fault, IInv, TypeOK
<1>3. dir[To] \in Object
  BY <1>1, StepNames DEF IInv, TypeOK
<1>4. call' \in CallType
  BY <1>1, <1>3, SightProves DEF IInv, TypeOK, CallType
<1>5. /\ call'.verdict \in {"none", "committed", "no_commit"}
      /\ call'.verdict = "committed" => call'.object.id = txn.index /\ Arrived(txn)
      /\ call'.verdict = "no_commit" => Stayed(txn)
  BY <1>1, SightProves DEF IInv, TypeOK, CallType
<1>6. (Arrived(txn) => Arrived(txn)') /\ (Stayed(txn) => Stayed(txn)')
  BY <1>1 DEF Arrived, Stayed, Has, NameAt, Target, Quiet
<1>7. WorkerFollows'
  BY <1>1, <1>5, <1>6 DEF IInv, WorkerFollows
<1> QED
  BY <1>1, <1>2, <1>4, <1>7, QuietKeeps

(* The journal is removed when nothing is hidden any more: whichever       *)
(* generation is left of it is true.                                       *)
LEMMA RetireKeeps ==
  ASSUME IInv, pc = "loop", At(txn, "temporary") = {},
         NEW outcome \in {"success", "rolled_back"}, Retire(outcome)
  PROVE  IInv'
<1>1. /\ txn = journal.current /\ txn.step = "none" /\ Placed(txn) /\ Sound(txn)
      /\ Placed(journal.previous)
  BY ActiveRecord DEF IInv, WorkerFollows, RecordsAreTrue
<1>2. \A i \in Items : dir[Hidden(i)] = Nothing
  BY <1>1, NoTransaction DEF Placed, Moving, Sound, At
<1>3. /\ pc' = "idle" /\ txn' = NoTxn /\ call' = NoCall /\ Quiet
      /\ report' \in {outcome, "journal_error"}
      /\ journal'.current \in {NoTxn, journal.current, journal.previous}
      /\ journal'.previous = NoTxn
      /\ journal' \in [current : TransactionType, previous : TransactionType]
  BY NoTransaction DEF Retire, EndRun, EmptyJournal, IInv, TypeOK
<1>4. faults' \in 0..MaxFaults
  BY BatchAssumption DEF Retire, Fault, IInv, TypeOK
<1>5. TypeOK'
  BY <1>3, <1>4, NoTransaction DEF IInv, TypeOK, Quiet
<1>6. Recorded(journal.current)' /\ Recorded(journal.previous)'
  BY <1>3 DEF IInv, Recorded
<1>7. NamesAreUnique' /\ WorkerFollows' /\ Untouched'
  BY <1>3 DEF IInv, NamesAreUnique, WorkerFollows, Untouched, Quiet
<1>8. GoesOneWay'
  BY <1>3, NoTransaction DEF IInv, GoesOneWay, Way, Quiet
<1>9. ASSUME NEW u PROVE Placed(u) => Placed(u)'
  BY <1>3 DEF Placed, Has, Moving, NameAt, Target, Quiet
<1>10. Placed(NoTxn)
  BY DEF Placed
<1>11. RecordsAreTrue'
  BY <1>1, <1>2, <1>3, <1>9, <1>10 DEF RecordsAreTrue, Quiet
<1> QED
  BY <1>5, <1>6, <1>7, <1>8, <1>11 DEF IInv

-----------------------------------------------------------------------------
(* The steps that touch the files.                                         *)

(* A rename to a free name: its file is there afterwards, and every other  *)
(* file is where it was.                                                   *)
LEMMA MoveToFreeName ==
  ASSUME dir \in [Name -> Object], NamesAreUnique, UNCHANGED <<meddling, taken>>,
         NEW k \in Items, NEW from \in Name, NEW to \in Name, from # to,
         dir[from].id = k, dir[to] = Nothing,
         \/ to = Hidden(k) /\ from \in Visible
         \/ from = Hidden(k) /\ to \in Visible,
         dir' = [dir EXCEPT ![to] = dir[from], ![from] = Nothing]
  PROVE  /\ dir' \in [Name -> Object] /\ NamesAreUnique'
         /\ dir'[to].id = k /\ dir'[from] = Nothing
         /\ \A n \in Name, i \in Items \ {k} : Has(n, i) => Has(n, i)'
         /\ \A i \in Items \ {k} : dir'[Hidden(i)] = dir[Hidden(i)]
         /\ \A id : id # 0 /\ Holding(dir, id) # {} => Holding(dir', id) # {}
<1>1. /\ dir'[to] = dir[from] /\ dir'[from] = Nothing
      /\ \A n \in Name : n # from /\ n # to => dir'[n] = dir[n]
  OBVIOUS
<1>2. dir' \in [Name -> Object]
  BY Names
<1>3. \A i \in Items \ {k} : dir'[Hidden(i)] = dir[Hidden(i)]
  BY <1>1, Names
<1>4. \A n \in Name, i \in Items \ {k} : dir[n].id = i => dir'[n].id = i
  BY <1>1, Names
<1>5. NamesAreUnique'
  <2>1. ASSUME NEW n \in Name
        PROVE  dir'[n].id <= Count + meddling' /\ (dir'[n].id = 0 => dir'[n] = Nothing)
    <3>1. \A m \in Name : dir[m].id <= Count + meddling /\ (dir[m].id = 0 => dir[m] = Nothing)
      BY DEF NamesAreUnique
    <3>2. dir'[n] \in {dir[m] : m \in Name}
      BY <1>1
    <3> QED
      BY <3>1, <3>2
  <2>2. ASSUME NEW n \in Name, NEW m \in Name, dir'[n].id = dir'[m].id, dir'[n].id # 0
        PROVE  n = m
    <3> DEFINE was(x) == IF x = to THEN from ELSE x
    <3>1. n # from /\ m # from
      BY <1>1, <2>2, Names
    <3>2. dir'[n] = dir[was(n)] /\ dir'[m] = dir[was(m)] /\ was(n) \in Name /\ was(m) \in Name
      BY <1>1, <3>1
    <3>3. was(n) = was(m)
      BY <2>2, <3>2 DEF NamesAreUnique
    <3> QED
      BY <3>1, <3>3
  <2>3. ASSUME NEW i \in Items PROVE dir'[Hidden(i)].id \in {0, i}
    BY <1>1, <1>3, Names DEF NamesAreUnique
  <2> QED
    BY <2>1, <2>2, <2>3 DEF NamesAreUnique
<1>6. ASSUME NEW id, id # 0, Holding(dir, id) # {} PROVE Holding(dir', id) # {}
  <2>1. PICK n \in Name : dir[n].id = id
    BY <1>6 DEF Holding
  <2>2. n # to
    BY <1>6, <2>1, Names
  <2>3. \E m \in Name : dir'[m].id = id
    BY <1>1, <2>1, <2>2
  <2> QED
    BY <2>3 DEF Holding
<1> QED
  BY <1>1, <1>2, <1>3, <1>4, <1>5, <1>6 DEF Has

(* The helper's system call, whether it renames or finds that it must not. *)
LEMMA EffectKeeps ==
  ASSUME IInv, pc = "execute", Effect,
         UNCHANGED <<new, journal, txn, report, meddling, taken>>
  PROVE  /\ dir' \in [Name -> Object] /\ went' \subseteq {"publish", "rollback"}
         /\ NamesAreUnique' /\ GoesOneWay' /\ Untouched' /\ RecordsAreTrue'
         /\ IF RenameVerdict = "committed"
            THEN dir[From].id = txn.index /\ Arrived(txn)'
            ELSE UNCHANGED <<dir, went>> /\ Stayed(txn)'
         /\ \A id : id # 0 /\ Holding(dir, id) # {} => Holding(dir', id) # {}
<1> DEFINE k == txn.index
<1>1. CASE RenameVerdict # "committed"
  <2>1. UNCHANGED <<dir, went>>
    BY <1>1 DEF Effect
  <2>2. Stayed(txn)
    BY DEF IInv, WorkerFollows
  <2>3. (Stayed(txn) => Stayed(txn)') /\ \A u : Placed(u) => Placed(u)'
    BY <2>1, ZenonT(60) DEF Stayed, Placed, Has, Moving, NameAt, Target
  <2>4. RecordsAreTrue'
    BY <2>1, <2>3 DEF IInv, RecordsAreTrue
  <2>5. NamesAreUnique' /\ GoesOneWay' /\ Untouched'
    BY <2>1 DEF IInv, NamesAreUnique, GoesOneWay, Untouched, Has
  <2> QED
    BY <1>1, <2>1, <2>2, <2>3, <2>4, <2>5 DEF IInv, TypeOK
<1>2. CASE RenameVerdict = "committed"
  <2>1. dir[From] = Expected /\ dir[To] = Nothing
    BY <1>2 DEF RenameVerdict
  <2>2. /\ txn = journal.current /\ Sound(txn) /\ k \in Items /\ dir[From].id = k
        /\ From \in Name /\ To \in Name /\ From # To
        /\ \/ /\ txn.step = "evacuate" /\ To = Hidden(k) /\ From \in Visible
              /\ txn.phase = "evacuating"
           \/ /\ txn.items[k].at = "temporary" /\ From = Hidden(k) /\ To \in Visible
              /\ \/ txn.step = "rollback" /\ txn.phase = "rollback"
                 \/ txn.step = "publish" /\ txn.phase = "publishing"
    BY <2>1, StepNames
  <2>3. /\ dir' = [dir EXCEPT ![To] = dir[From], ![From] = Nothing]
        /\ went' = went \union ({txn.step} \ {"evacuate"})
    BY <1>2 DEF Effect, Rename
  <2>4. dir \in [Name -> Object] /\ NamesAreUnique
    BY DEF IInv, TypeOK
  <2>5. /\ dir' \in [Name -> Object] /\ NamesAreUnique'
        /\ dir'[To].id = k /\ dir'[From] = Nothing
        /\ \A n \in Name, i \in Items \ {k} : Has(n, i) => Has(n, i)'
        /\ \A i \in Items \ {k} : dir'[Hidden(i)] = dir[Hidden(i)]
        /\ \A id : id # 0 /\ Holding(dir, id) # {} => Holding(dir', id) # {}
    <3> HIDE DEF k
    <3> QED
      BY <2>1, <2>2, <2>3, <2>4, MoveToFreeName
  <2>6. Has(NameAt(k, Target(txn.step)), k)'
    BY <2>5 DEF Has, To, NameAt
  <2>7. Arrived(txn)'
    BY <2>2, <2>5, <2>6 DEF Arrived
  <2>8. Placed(txn)'
    <3>1. SUFFICES ASSUME NEW i \in Items
                   PROVE  /\ \/ Has(NameAt(i, txn.items[i].at), i)'
                             \/ Moving(txn, i) /\ Has(NameAt(i, Target(txn.step)), i)'
                          /\ \/ dir'[Hidden(i)] = Nothing \/ txn.items[i].at = "temporary"
                             \/ Moving(txn, i) /\ txn.step = "evacuate"
      BY DEF Placed, Moving
    <3>2. CASE i = k
      BY <2>2, <2>6, <3>2 DEF Moving
    <3>3. CASE i # k
      <4>1. /\ Has(NameAt(i, txn.items[i].at), i)
            /\ dir[Hidden(i)] = Nothing \/ txn.items[i].at = "temporary"
        BY <2>2, <3>3, ActiveRecord, NoTransaction DEF Placed, Moving, Sound
      <4>2. NameAt(i, txn.items[i].at) \in Name /\ NameAt(i, txn.items[i].at)' = NameAt(i, txn.items[i].at)
        BY <2>2, PlannedNames DEF IInv, Sound, Transactions, ItemType, NameAt
      <4> QED
        BY <2>5, <3>3, <4>1, <4>2 DEF Has
    <3> QED
      BY <3>2, <3>3
  <2>9. /\ went' \subseteq {"publish", "rollback"}
        /\ txn.step = "evacuate" => went' = went
        /\ txn.step # "evacuate" => went' = {txn.step}
    BY <2>2, <2>3, ActiveRecord DEF IInv, TypeOK, GoesOneWay, Way
  <2>10. GoesOneWay'
    BY <2>2, <2>9 DEF IInv, GoesOneWay, Way
  <2>11. journal.current # NoTxn /\ journal.current.step # "none"
    BY <2>2, NoTransaction DEF Sound
  <2>12. RecordsAreTrue' /\ Untouched'
    BY <2>2, <2>8, <2>11 DEF RecordsAreTrue, Untouched
  <2> QED
    BY <1>2, <2>2, <2>5, <2>7, <2>9, <2>10, <2>12
<1> QED
  BY <1>1, <1>2

LEMMA ExecuteKeeps ==
  ASSUME IInv, Execute
  PROVE  /\ IInv'
         /\ \A id : id # 0 /\ Holding(dir, id) # {} => Holding(dir', id) # {}
<1>1. /\ pc = "execute" /\ UNCHANGED <<new, journal, txn, report, meddling, taken>>
      /\ txn # NoTxn /\ txn = journal.current /\ txn.step # "none" /\ Stayed(txn)
  BY DEF Execute, Goto, IInv, WorkerFollows
<1>2. /\ faults' \in 0..MaxFaults
      /\ Effect \/ UNCHANGED <<dir, went>>
  BY BatchAssumption DEF Execute, Fault, IInv, TypeOK
<1>3. /\ dir' \in [Name -> Object] /\ went' \subseteq {"publish", "rollback"}
      /\ NamesAreUnique' /\ GoesOneWay' /\ Untouched' /\ RecordsAreTrue'
      /\ \A id : id # 0 /\ Holding(dir, id) # {} => Holding(dir', id) # {}
  <2>1. CASE Effect
    BY <1>1, <2>1, EffectKeeps
  <2>2. CASE UNCHANGED <<dir, went>>
    <3>1. \A u : Placed(u) => Placed(u)'
      BY <1>1, <2>2, ZenonT(60) DEF Placed, Has, Moving, NameAt, Target
    <3>2. RecordsAreTrue'
      BY <1>1, <2>2, <3>1 DEF IInv, RecordsAreTrue
    <3>3. NamesAreUnique' /\ GoesOneWay' /\ Untouched'
      BY <1>1, <2>2 DEF IInv, NamesAreUnique, GoesOneWay, Untouched, Has
    <3> QED
      BY <2>2, <3>2, <3>3 DEF IInv, TypeOK
  <2> QED
    BY <1>2, <2>1, <2>2
<1>4. WorkerFollows' /\ call' \in CallType /\ pc' \in {"answer", "reconcile"}
  <2>1. CASE Effect /\ Goto("answer", [NoCall EXCEPT !.verdict = RenameVerdict, !.object = dir[From]])
    <3>1. RenameVerdict \in {"committed", "no_commit", "not_found"} /\ dir[From] \in Object
      BY <1>1, StepNames DEF RenameVerdict, IInv, TypeOK
    <3>2. /\ pc' = "answer" /\ call'.verdict = RenameVerdict /\ call'.object = dir[From]
          /\ call' \in CallType
      BY <2>1, <3>1, NoTransaction DEF Goto, CallType
    <3>3. IF RenameVerdict = "committed"
          THEN dir[From].id = txn.index /\ Arrived(txn)'
          ELSE Stayed(txn)'
      BY <1>1, <2>1, EffectKeeps
    <3> QED
      BY <1>1, <3>1, <3>2, <3>3 DEF WorkerFollows, Arrived, Stayed
  <2>2. CASE UNCHANGED <<dir, went>> /\ Goto("answer", [NoCall EXCEPT !.verdict = "no_commit"])
    <3>1. pc' = "answer" /\ call'.verdict = "no_commit" /\ call' \in CallType
      BY <2>2, NoTransaction DEF Goto, CallType
    <3>2. Stayed(txn)'
      BY <1>1, <2>2 DEF Stayed, Has, NameAt
    <3> QED
      BY <1>1, <3>1, <3>2 DEF WorkerFollows, Stayed
  <2>3. CASE Goto("reconcile", NoCall)
    BY <1>1, <2>3, NoTransaction DEF Goto, WorkerFollows
  <2> QED
    BY <2>1, <2>2, <2>3 DEF Execute
<1>5. TypeOK'
  BY <1>1, <1>2, <1>3, <1>4 DEF IInv, TypeOK
<1> QED
  BY <1>1, <1>3, <1>4, <1>5 DEF IInv, Recorded

(* What other programs may do, or nobody: a file that has left its name    *)
(* was taken, and a hidden name that is free stays free.                   *)
LEMMA AroundKeeps ==
  ASSUME IInv, TypeOK', NamesAreUnique',
         UNCHANGED <<new, journal, txn, pc, call, report, went>>,
         \A n \in Name, i \in Items : Has(n, i) => Has(n, i)',
         \A i \in Items : dir[Hidden(i)] = Nothing => dir'[Hidden(i)] = Nothing
  PROVE  IInv'
<1>1. \A i \in Items : \A where \in {"source", "temporary", "destination"} :
        /\ NameAt(i, where) \in Name /\ NameAt(i, where)' = NameAt(i, where)
        /\ Has(NameAt(i, where), i) => Has(NameAt(i, where), i)'
  BY PlannedNames DEF IInv, NameAt
<1>2. \A u : Target(u.step) \in {"source", "temporary", "destination"}
              \/ u.step \notin {"evacuate", "rollback", "publish"}
  BY DEF Target
<1>3. ASSUME NEW u, Sound(u) PROVE Placed(u) => Placed(u)'
  <2>1. \A i \in Items : u.items[i].at \in {"source", "temporary", "destination"}
    BY <1>3 DEF Sound, Transactions, ItemType
  <2>2. u.step = "none" \/ Target(u.step) \in {"source", "temporary", "destination"}
    BY <1>2, <1>3 DEF Sound, Transactions
  <2> QED
    BY <1>1, <2>1, <2>2 DEF Placed, Moving
<1>4. ASSUME pc \in {"execute", "answer"}
      PROVE  (Stayed(txn) => Stayed(txn)') /\ (Arrived(txn) => Arrived(txn)')
  <2>1. txn.index \in Items /\ txn.step \in {"evacuate", "rollback", "publish"} /\ Sound(txn)
    BY <1>4, StepNames
  <2>2. /\ txn.items[txn.index].at \in {"source", "temporary", "destination"}
        /\ Target(txn.step) \in {"source", "temporary", "destination"}
    BY <2>1, <1>2 DEF Sound, Transactions, ItemType
  <2> QED
    BY <1>1, <2>1, <2>2 DEF Stayed, Arrived
<1>5. WorkerFollows'
  BY <1>4 DEF IInv, WorkerFollows
<1>6. RecordsAreTrue'
  <2>1. Placed(NoTxn)'
    BY DEF Placed
  <2> QED
    BY <1>3, <2>1 DEF IInv, RecordsAreTrue, Recorded
<1>7. Untouched'
  BY Names DEF IInv, Untouched
<1>8. GoesOneWay' /\ Recorded(journal.current)' /\ Recorded(journal.previous)'
  BY DEF IInv, GoesOneWay, Recorded
<1> QED
  BY <1>5, <1>6, <1>7, <1>8 DEF IInv

LEMMA EditKeeps ==
  ASSUME IInv, NEW n \in Name, Edit(n)
  PROVE  /\ IInv'
         /\ \A id : Holding(dir, id) # {} => Holding(dir', id) # {}
<1>1. /\ dir[n].id \in Items /\ dir' = [dir EXCEPT ![n].rev = meddling'] /\ UNCHANGED taken
      /\ meddling' = meddling + 1 /\ meddling \in Nat /\ meddling' \in 0..MaxMeddling
      /\ UNCHANGED <<new, journal, txn, pc, call, report, faults, went>>
  BY BatchAssumption DEF Edit, Meddles, IInv, TypeOK
<1>2. \A m \in Name : dir[m] \in Object
  BY DEF IInv, TypeOK
<1>3. /\ dir' \in [Name -> Object] /\ \A m \in Name : dir'[m].id = dir[m].id
      /\ \A m \in Name : m # n => dir'[m] = dir[m]
  BY <1>1, <1>2 DEF IInv, TypeOK, Object
<1>4. TypeOK'
  BY <1>1, <1>3 DEF IInv, TypeOK
<1>5. NamesAreUnique'
  <2>1. \A m \in Name : dir'[m].id <= Count + meddling' /\ (dir'[m].id = 0 => dir'[m] = Nothing)
    BY <1>1, <1>2, <1>3, Names, BatchAssumption DEF IInv, NamesAreUnique, Object
  <2>2. \A m, l \in Name : dir'[m].id = dir'[l].id /\ dir'[m].id # 0 => m = l
    BY <1>3 DEF IInv, NamesAreUnique
  <2>3. \A i \in Items : dir'[Hidden(i)].id \in {0, i}
    BY <1>3, Names DEF IInv, NamesAreUnique
  <2> QED
    BY <2>1, <2>2, <2>3 DEF NamesAreUnique
<1>6. \A m \in Name, i \in Items : Has(m, i) => Has(m, i)'
  BY <1>1, <1>3 DEF Has
<1>7. \A i \in Items : dir[Hidden(i)] = Nothing => dir'[Hidden(i)] = Nothing
  BY <1>1, <1>3, Names
<1>8. IInv'
  BY <1>1, <1>4, <1>5, <1>6, <1>7, AroundKeeps
<1>9. \A id : Holding(dir', id) = Holding(dir, id)
  BY <1>3 DEF Holding
<1> QED
  BY <1>8, <1>9

LEMMA RemoveKeeps ==
  ASSUME IInv, NEW n \in Visible, Remove(n)
  PROVE  /\ IInv'
         /\ \A id : Holding(dir, id) # {} => id \in taken' \/ Holding(dir', id) # {}
<1>1. /\ dir[n] # Nothing /\ dir' = [dir EXCEPT ![n] = Nothing]
      /\ taken' = taken \union {dir[n].id}
      /\ meddling' = meddling + 1 /\ meddling \in Nat /\ meddling' \in 0..MaxMeddling
      /\ UNCHANGED <<new, journal, txn, pc, call, report, faults, went>>
  BY BatchAssumption DEF Remove, Meddles, IInv, TypeOK
<1>2. n \in Name /\ \A m \in Name : dir[m] \in Object
  BY Names DEF IInv, TypeOK
<1>3. /\ dir' \in [Name -> Object] /\ dir'[n] = Nothing
      /\ \A m \in Name : m # n => dir'[m] = dir[m]
  BY <1>1, <1>2, Names DEF IInv, TypeOK
<1>4. dir[n].id \in 1..(Count + MaxMeddling)
  BY <1>1, <1>2, BatchAssumption DEF Object, IInv, NamesAreUnique
<1>5. TypeOK'
  BY <1>1, <1>3, <1>4 DEF IInv, TypeOK
<1>6. NamesAreUnique'
  <2>1. \A m \in Name : dir'[m].id <= Count + meddling' /\ (dir'[m].id = 0 => dir'[m] = Nothing)
    BY <1>1, <1>2, <1>3, Names, BatchAssumption DEF IInv, NamesAreUnique, Object
  <2>2. \A m, l \in Name : dir'[m].id = dir'[l].id /\ dir'[m].id # 0 => m = l
    BY <1>3, Names DEF IInv, NamesAreUnique
  <2>3. \A i \in Items : dir'[Hidden(i)].id \in {0, i}
    BY <1>3, Names DEF IInv, NamesAreUnique
  <2> QED
    BY <2>1, <2>2, <2>3 DEF NamesAreUnique
<1>7. \A m \in Name, i \in Items : Has(m, i) => Has(m, i)'
  BY <1>1, <1>3 DEF Has
<1>8. \A i \in Items : dir[Hidden(i)] = Nothing => dir'[Hidden(i)] = Nothing
  BY <1>3, Names
<1>9. IInv'
  BY <1>1, <1>5, <1>6, <1>7, <1>8, AroundKeeps
<1>10. ASSUME NEW id, Holding(dir, id) # {} PROVE id \in taken' \/ Holding(dir', id) # {}
  BY <1>1, <1>3, <1>10 DEF Holding
<1> QED
  BY <1>9, <1>10

LEMMA CreateKeeps ==
  ASSUME IInv, NEW n \in Visible, Create(n)
  PROVE  /\ IInv'
         /\ \A id : id # 0 /\ Holding(dir, id) # {} => Holding(dir', id) # {}
<1> DEFINE stranger == Count + meddling'
<1>1. /\ dir[n] = Nothing /\ dir' = [dir EXCEPT ![n] = File(stranger, 0)] /\ UNCHANGED taken
      /\ meddling' = meddling + 1 /\ meddling \in Nat /\ meddling' \in 0..MaxMeddling
      /\ UNCHANGED <<new, journal, txn, pc, call, report, faults, went>>
  BY BatchAssumption DEF Create, Meddles, IInv, TypeOK
<1>2. /\ File(stranger, 0) \in Object /\ File(stranger, 0).id = stranger
      /\ stranger > Count /\ stranger \in Nat /\ stranger # 0
  BY <1>1, BatchAssumption DEF File, Object
<1>3. /\ n \in Name /\ dir' \in [Name -> Object] /\ dir'[n] = File(stranger, 0)
      /\ \A m \in Name : m # n => dir'[m] = dir[m]
  BY <1>1, <1>2, Names DEF IInv, TypeOK
<1>4. TypeOK'
  BY <1>1, <1>3 DEF IInv, TypeOK
<1>5. \A m \in Name : dir[m] \in Object /\ dir[m].id < stranger
  BY <1>1, BatchAssumption DEF IInv, NamesAreUnique, TypeOK, Object
<1>6. NamesAreUnique'
  <2>1. \A m \in Name : dir'[m].id <= Count + meddling' /\ (dir'[m].id = 0 => dir'[m] = Nothing)
    BY <1>2, <1>3, <1>5, BatchAssumption DEF IInv, NamesAreUnique, Object
  <2>2. ASSUME NEW m \in Name, NEW l \in Name, dir'[m].id = dir'[l].id, dir'[m].id # 0
        PROVE  m = l
    BY <1>2, <1>3, <1>5, <2>2 DEF IInv, NamesAreUnique, Object
  <2>3. \A i \in Items : dir'[Hidden(i)].id \in {0, i}
    BY <1>3, Names DEF IInv, NamesAreUnique
  <2> QED
    BY <2>1, <2>2, <2>3 DEF NamesAreUnique
<1>7. \A m \in Name, i \in Items : Has(m, i) => Has(m, i)'
  BY <1>1, <1>3, Names DEF Has
<1>8. \A i \in Items : dir[Hidden(i)] = Nothing => dir'[Hidden(i)] = Nothing
  BY <1>3, Names
<1>9. IInv'
  BY <1>1, <1>4, <1>6, <1>7, <1>8, AroundKeeps
<1>10. ASSUME NEW id, id # 0, Holding(dir, id) # {} PROVE Holding(dir', id) # {}
  BY <1>1, <1>3, <1>10, Names DEF Holding
<1> QED
  BY <1>9, <1>10

-----------------------------------------------------------------------------
(* The theorems.                                                           *)

LEMMA InitHolds ==
  ASSUME Init
  PROVE  IInv
<1>1. /\ dir \in [Name -> Object]
      /\ \A i \in Items : dir[Old(i)].id = i /\ dir[Hidden(i)] = Nothing
  BY Names, BatchAssumption DEF Init, Name, Old, Hidden, Object, File, Items
<1>2. TypeOK
  BY <1>1, NoTransaction, BatchAssumption DEF Init, TypeOK, EmptyJournal
<1>3. NamesAreUnique
  <2>1. \A n \in Name :
          \/ n.is = "old" /\ n.of \in Items /\ dir[n].id = n.of
          \/ n.is # "old" /\ dir[n] = Nothing
    BY DEF Init, Name, File
  <2>2. \A n, m \in Name : n.is = m.is /\ n.of = m.of => n = m
    BY DEF Name
  <2>3. 0 <= Count + meddling /\ \A i \in Items : i <= Count + meddling
    BY BatchAssumption DEF Init, Items
  <2>4. \A n \in Name : dir[n].id <= Count + meddling /\ (dir[n].id = 0 => dir[n] = Nothing)
    BY <2>1, <2>3, Names
  <2> QED
    BY <1>1, <2>1, <2>2, <2>4, Names DEF NamesAreUnique
<1>4. WorkerFollows /\ GoesOneWay /\ Untouched
  BY <1>1, NoTransaction DEF Init, EmptyJournal, WorkerFollows, GoesOneWay, Untouched, Has
<1>5. RecordsAreTrue
  BY <1>1 DEF Init, EmptyJournal, RecordsAreTrue, Placed
<1> QED
  BY <1>2, <1>3, <1>4, <1>5 DEF IInv, Init, EmptyJournal, Recorded

LEMMA StepKeeps ==
  ASSUME IInv, [Next]_vars
  PROVE  IInv'
<1>1. CASE UNCHANGED vars
  BY <1>1, AroundKeeps DEF vars, IInv, TypeOK, NamesAreUnique, Has
<1>2. CASE Succeed
  BY <1>2, RetireKeeps DEF Succeed, InPhase
<1>3. CASE FinishRollback
  BY <1>3, RetireKeeps DEF FinishRollback, InPhase
<1>4. CASE OtherPrograms
  BY <1>4, EditKeeps, RemoveKeeps, CreateKeeps DEF OtherPrograms
<1>5. CASE Coordinator
  BY <1>2, <1>3, <1>5, BeginEvacuatingKeeps, EvacuateKeeps, IntendCommitKeeps,
     BeginPublishingKeeps, PublishKeeps, RollBackKeeps, RecordSuccessKeeps, LookAgainKeeps,
     NotCommittedKeeps, StopAtMissingKeeps, UncertainKeeps DEF Coordinator
<1>6. CASE Helper
  BY <1>6, ExecuteKeeps, ReconcileKeeps DEF Helper
<1> QED
  BY <1>1, <1>4, <1>5, <1>6, StartKeeps, ResumeKeeps, InterruptKeeps DEF Next

(* What a record on disk says of the directory is true, whatever crashed   *)
(* and whatever others changed (BatchRenameCoordinator::persist, and what  *)
(* run_resume believes).                                                   *)
THEOREM RecordTellsThePlaces == Spec => []IInv
<1>1. Init => IInv
  BY InitHolds
<1>2. IInv /\ [Next]_vars => IInv'
  BY StepKeeps
<1> QED
  BY <1>1, <1>2, PTL DEF Spec

(* A batch goes forward or back and never both, and no record is rejected  *)
(* by the validation of the coordinator that writes it                     *)
(* (continue_transaction, valid_batch_transaction).                        *)
THEOREM GoesOneDirection == Spec => []OneDirection
<1>1. IInv => OneDirection
  BY DEF IInv, GoesOneWay, OneDirection
<1> QED
  BY <1>1, RecordTellsThePlaces, PTL

(* The steps on files are the helper's and other programs'.                *)
LEMMA OthersKeepFiles ==
  ASSUME Next, ~Execute, ~OtherPrograms
  PROVE  UNCHANGED dir
<1> USE DEF Quiet
<1>1. ASSUME Coordinator PROVE UNCHANGED dir
  BY <1>1 DEF Coordinator, BeginEvacuating, Evacuate, IntendCommit, BeginPublishing, Publish,
     RollBack, Succeed, FinishRollback, Enter, Begin, Retire, Answer,
     RecordSuccess, LookAgain, NotCommitted, StopAtMissing, Uncertain
<1>2. ASSUME Reconcile \/ Start \/ Resume \/ Interrupt PROVE UNCHANGED dir
  BY <1>2 DEF Reconcile, Start, Resume, Interrupt
<1> QED
  BY <1>1, <1>2 DEF Next, Helper

(* No file of the batch and no stranger's is overwritten or doubled, in    *)
(* swaps and cycles of names neither (rename_no_replace, execute_step).    *)
THEOREM EveryFileKeepsOneName == Spec => NoFileIsLost
<1> DEFINE A == \A id \in 1..(Count + MaxMeddling) :
                  Holding(dir, id) # {} =>
                    id \in taken' \/ Cardinality(Holding(dir', id)) = 1
<1>1. ASSUME IInv, IInv', [Next]_vars PROVE A
  <2>1. SUFFICES ASSUME NEW id \in 1..(Count + MaxMeddling), Holding(dir, id) # {}, id \notin taken'
                 PROVE  Cardinality(Holding(dir', id)) = 1
    OBVIOUS
  <2>2. id # 0
    BY BatchAssumption
  <2>3. Holding(dir', id) # {}
    <3>1. CASE Execute
      BY <1>1, <2>1, <2>2, <3>1, ExecuteKeeps
    <3>2. CASE OtherPrograms
      BY <1>1, <2>1, <2>2, <3>2, EditKeeps, RemoveKeeps, CreateKeeps DEF OtherPrograms
    <3>3. CASE UNCHANGED dir
      BY <2>1, <3>3
    <3> QED
      BY <1>1, <3>1, <3>2, <3>3, OthersKeepFiles DEF vars
  <2>4. PICK n \in Name : dir'[n].id = id
    BY <2>3 DEF Holding
  <2>5. \A m \in Name : dir'[m].id = id => m = n
    BY <1>1, <2>2, <2>4 DEF IInv, NamesAreUnique
  <2>6. Holding(dir', id) = {n}
    BY <2>4, <2>5 DEF Holding
  <2> QED
    BY <2>6, FS_Singleton
<1>2. IInv /\ IInv' /\ [Next]_vars => [A]_vars
  BY <1>1
<1> QED
  BY <1>2, RecordTellsThePlaces, PTL DEF Spec, NoFileIsLost

(* What the two ways of ending a run find in the directory.                *)
LEMMA EndIsTrue ==
  ASSUME IInv, pc = "loop", At(txn, "temporary") = {}, NEW i \in Items \ taken
  PROVE  /\ txn.phase = "publishing" => dir[new[i]].id = i
         /\ txn.phase = "rollback" => dir[Old(i)].id = i
<1>1. txn.step = "none" /\ Sound(txn) /\ Has(NameAt(i, txn.items[i].at), i)
  BY ActiveRecord, NoTransaction DEF IInv, WorkerFollows, Placed, Moving, Sound
<1>2. /\ txn.phase = "publishing" => txn.items[i].at = "destination"
      /\ txn.phase = "rollback" => txn.items[i].at = "source"
  BY <1>1 DEF Sound, Valid, Allowed, At
<1> QED
  BY <1>1, <1>2 DEF Has, NameAt

(* Which reports the other steps make.                                     *)
LEMMA OtherReports ==
  ASSUME IInv, Next, ~Succeed, ~FinishRollback
  PROVE  report' \in {report, "recovery_required", "interrupted", "record_rejected"}
<1> USE DEF Record, RecordAndEnd, EndRun, Goto
<1>1. ASSUME Coordinator
      PROVE  report' \in {report, "recovery_required", "interrupted", "record_rejected"}
  BY <1>1 DEF Coordinator, BeginEvacuating, Evacuate, IntendCommit, BeginPublishing, Publish,
     RollBack, Enter, Begin, RecordSuccess, LookAgain, NotCommitted, StopAtMissing, Uncertain
<1>2. ASSUME Helper \/ Start \/ Resume \/ Interrupt \/ OtherPrograms
      PROVE  report' \in {report, "interrupted", "record_rejected"}
  BY <1>2 DEF Helper, Execute, Reconcile, Start, Resume, Interrupt, OtherPrograms, Edit, Remove,
     Create, Meddles
<1> QED
  BY <1>1, <1>2 DEF Next

(* "success" means that every file has its new name, "rolled back" that    *)
(* every file has its old one; and what is hidden is on record at every    *)
(* instant (continue_transaction, rollback).                               *)
THEOREM ReportsAreTrue == Spec => OutcomeIsTrue
<1> DEFINE Told == report' # report =>
                     \A i \in Items \ taken :
                       /\ report' = "success" => dir[new[i]].id = i
                       /\ report' = "rolled_back" => dir[Old(i)].id = i
<1>1. IInv => HiddenIsRecorded
  BY DEF IInv, RecordsAreTrue, Placed, Moving, HiddenIsRecorded
<1>2. ASSUME IInv, [Next]_vars PROVE Told
  <2>1. CASE Succeed
    <3>1. /\ pc = "loop" /\ txn.phase = "publishing" /\ At(txn, "temporary") = {}
          /\ report' \in {"success", "journal_error"}
      BY <2>1 DEF Succeed, InPhase, Retire, EndRun
    <3> QED
      BY <1>2, <3>1, EndIsTrue
  <2>2. CASE FinishRollback
    <3>1. /\ pc = "loop" /\ txn.phase = "rollback" /\ At(txn, "temporary") = {}
          /\ report' \in {"rolled_back", "journal_error"}
      BY <2>2 DEF FinishRollback, InPhase, Retire, EndRun
    <3> QED
      BY <1>2, <3>1, EndIsTrue
  <2>3. CASE Next /\ ~Succeed /\ ~FinishRollback
    BY <1>2, <2>3, OtherReports
  <2>4. CASE UNCHANGED vars
    BY <2>4 DEF vars
  <2> QED
    BY <1>2, <2>1, <2>2, <2>3, <2>4
<1>3. IInv /\ HiddenIsRecorded' /\ [Next]_vars => [HiddenIsRecorded' /\ Told]_vars
  BY <1>2
<1> QED
  BY <1>1, <1>3, RecordTellsThePlaces, PTL DEF Spec, OutcomeIsTrue
==============================================================================
