------------------------- MODULE FileTransferProofs --------------------------
(***************************************************************************)
(* Proofs about FileTransfer for every number of files, faults and changes *)
(* by other programs: no record is refused but for a file that another     *)
(* program changed, no hidden file outlives its journal, a source goes     *)
(* only when its copy is there, a file is overwritten only as approved,    *)
(* and what a run reports is true.                                         *)
(*                                                                         *)
(* The inductive invariant says what a record means for the files of an    *)
(* item (Told): where its source, its new file and the file that makes     *)
(* room for it are, or where the step on record moves them, unless other   *)
(* programs took them.  Between two steps that holds of both generations   *)
(* of the journal, as either may be what a later run finds.                *)
(***************************************************************************)
EXTENDS FileTransfer, NaturalsInduction, WellFoundedInduction, TLAPS

Transactions ==
  [kind : {"copy", "move"}, phase : {"prepared", "processing", "cleanup", "completed"},
   step : Steps, cancelled : BOOLEAN, items : [Items -> ItemType]]

(* What other programs took of an item's files.                            *)
Lost(gone, i) == {id \in {"src", "dst", "other", "whole"} : <<i, id>> \in gone}

(* An item's files: the hidden names hold only what belongs there, and     *)
(* there is one source.                                                    *)
Filed(f, lost, edits) ==
  /\ f \in [Path -> Object]
  /\ \A p \in Path : f[p].data <= edits /\ (f[p].id = "nothing" => f[p] = Nothing)
  /\ f["staged"].id \in {"nothing", "src"}
  /\ f["temp"].id \in Temporary \union {"nothing"}
  /\ f["backup"].id \in {"nothing", "dst", "other"}
  /\ \A p, q \in Path : f[p].id = "src" /\ f[q].id = "src" => p = q
  /\ "src" \in lost => \A p \in Path : f[p].id # "src"

(* What the record of an item, and the step on record, say of its files.   *)
HiddenTold(f, it, step) ==
  /\ f["staged"] # Nothing => it.at = "staged" \/ step = "stage_source"
  /\ f["temp"] # Nothing =>
       /\ it.token /\ it.dest # "published"
       /\ it.strategy = "copy_stream" \/ it.at = "staged"
       /\ step # "restore_staged_source"
  /\ f["backup"] # Nothing =>
       /\ SameObject(f["backup"], it.auth)
       /\ it.over \in {"evacuated", "evacuated_unexpected"}
          \/ step = "evacuate_overwrite_destination"

Publishes(it, step) == (it.dest = "published" /\ Streamed(it)) \/ step = "publish_temp"

CopyTold(f, lost, it, step) ==
  /\ \A p \in Path \ {"temp"} :
       f[p].id \in Temporary =>
         /\ p = it.to /\ f[p].id = "whole" /\ it.source.data <= f[p].data
         /\ f["temp"] = Nothing /\ Publishes(it, step)
  /\ "whole" \in lost => f["temp"] = Nothing /\ Publishes(it, step)

SourceTold(f, lost, it, step) ==
  /\ it.at = "original" =>
       \/ "src" \in lost
       \/ f["source"].id = "src"
       \/ step = "stage_source" /\ f["staged"].id = "src"
       \/ step = "atomic_move" /\ f[it.to].id = "src"
  /\ it.at = "staged" =>
       \/ f["staged"].id = "src"
       \/ step = "delete_source"
       \/ step = "restore_staged_source" /\ ("src" \in lost \/ f["source"].id = "src")
  /\ it.at = "removed" => \A p \in Path : f[p].id = "src" => p = it.to

Told(f, lost, it, step) ==
  /\ HiddenTold(f, it, step)
  /\ CopyTold(f, lost, it, step)
  /\ SourceTold(f, lost, it, step)
  /\ it.dest = "published" => \E id \in {"src", "whole"} : f[it.to].id = id \/ id \in lost

(* What a record may say of an item.                                       *)
Known(kind, granted, edits, i, it) ==
  /\ it \in ItemType
  /\ OverwriteIsValid(it) /\ LocationIsValid(kind, it) /\ ProofIsValid(it)
  /\ it.source.id = "src" /\ it.source.data <= edits
  /\ it.auth = Nothing \/ (it.auth.id \in {"dst", "other"} /\ <<i, it.auth>> \in granted)
  /\ it.strategy = "move_undecided" => ~it.token
  /\ Streamed(it) /\ it.dest # "absent" => it.temp.id \in Temporary
  /\ Streamed(it) /\ it.dest \in {"content_ready", "published"} =>
       it.temp.id = "whole" /\ it.source.data <= it.temp.data
  /\ it.dest = "published" => it.over \in {"none", "evacuated"}
  /\ it.over \in {"evacuated", "evacuated_unexpected"} => SameObject(it.backup, it.auth)

CleanupSteps == {"none", "cleanup_temp", "restore_staged_source", "restore_overwrite_destination"}

Sound(t, granted, edits) ==
  /\ t \in Transactions /\ Valid(t)
  /\ \A i \in Items : Known(t.kind, granted, edits, i, t.items[i])
  /\ t.phase = "cleanup" => t.step \in CleanupSteps
  /\ t.step = "restore_staged_source" => t.items[Unfinished(t)].dest = "absent"

(* The step of a record is about the item it has open.                     *)
StepOf(t, i) == IF i = Unfinished(t) THEN t.step ELSE "none"

Fits(t, files, gone) ==
  \A i \in Items : Told(files[i], Lost(gone, i), t.items[i], StepOf(t, i))

Hidden == {"staged", "temp", "backup"}

RecordsAreTrue ==
  /\ journal.current # NoTxn =>
       Sound(journal.current, approved, meddling) /\ Fits(journal.current, fs, taken)
  /\ journal.previous # NoTxn =>
       /\ journal.current # NoTxn
       /\ Sound(journal.previous, approved, meddling)
       /\ journal.current.step = "none" => Fits(journal.previous, fs, taken)
  /\ journal.current = NoTxn => \A i \in Items : \A p \in Hidden : fs[i][p] = Nothing

Started ==
  report = "new" /\ pc = "idle" =>
    /\ journal = EmptyJournal /\ taken = {}
    /\ \A i \in Items :
         /\ fs[i]["source"] = File("src", 0)
         /\ fs[i]["destination"] \in {Nothing, File("dst", 0)}
         /\ \A p \in Path \ {"source", "destination"} : fs[i][p] = Nothing

(* The worker's copy is what is on disk, except after a failed write.      *)
WorkerFollows ==
  /\ pc = "idle" => txn = NoTxn
  /\ pc # "idle" =>
       /\ Sound(txn, approved, meddling) /\ Fits(txn, fs, taken)
       /\ txn = journal.current \/ (pc = "streamed" /\ txn.step = "reserve_temp")
       /\ journal.current # NoTxn

OpenTold(it, step) == Told(fs[Current], Lost(taken, Current), it, step)

OpenKnown(it) == Known(txn.kind, approved, meddling, Current, it)

AskIsTrue ==
  /\ txn.phase \in {"prepared", "processing"} /\ txn.step = "none"
  /\ Item.dest # "published"
  /\ \A i \in Asked :
       /\ txn.items[i].auth = Nothing /\ txn.items[i].dest # "published"
       /\ call.asked[i].id \in {"dst", "other"}

(* A renamed file is taken over as it is found, after an edit.              *)
TakenOver(step) == meddling # 0 /\ step \in Adopting

(* An answer is about the step on record, and true of the files.           *)
AnswerIsTrue ==
  /\ call.verdict \in {"changed", "conflict", "no_commit", "cross_device"} =>
       OpenTold(Item, "none")
  /\ call.verdict = "cross_device" => txn.step = "atomic_move"
  /\ call.verdict = "committed" =>
       LET it == Applied(Item, txn.step, call.object) IN
         OpenKnown(it) /\ OpenTold(it, "none") /\ (SnapshotsMatch(it) \/ TakenOver(txn.step))
  /\ call.verdict = "unproven" =>
       /\ txn.step = "evacuate_overwrite_destination"
       /\ LET it == [Item EXCEPT !.backup = call.object, !.over = "evacuated_unexpected"] IN
            OpenKnown(it) /\ OpenTold(it, "none")

CallIsTrue ==
  /\ pc = "initial" => txn.phase = "prepared"
  /\ pc = "ask" => AskIsTrue
  /\ pc \in {"execute", "reconcile", "answer"} => txn.step \in RenameSteps \union DeleteSteps
  /\ pc = "reconcile" => call \in {NoCall, [NoCall EXCEPT !.recovering = TRUE]}
  /\ pc \in {"execute", "confirm"} => OpenTold(Item, "none")
  /\ pc = "answer" => AnswerIsTrue
  /\ pc = "confirm" =>
       /\ txn.phase = "processing" /\ txn.step \in {"atomic_move", "publish_temp"}
       /\ Unapproved(Current)
  /\ pc = "discard" =>
       txn.phase = "cleanup" /\ txn.step = "none" /\ Item.dest = "temp_reserved"
  /\ pc \in {"reserve", "commit"} => txn.step = "reserve_temp"
  /\ pc = "commit" => fs[Current]["temp"] = File("marker", 0)
  /\ pc = "stream" => txn.step = "stream_temp"
  /\ pc = "streamed" =>
       /\ txn.step \in {"reserve_temp", "stream_temp"}
       /\ call.verdict \in {"committed", "no_commit", "none"}
       /\ call.verdict = "committed" =>
            txn.step = "stream_temp" /\ call.object = File("whole", Item.source.data)

FilesAreKnown == \A i \in Items : Filed(fs[i], Lost(taken, i), meddling)

RefusalIsExcused ==
  pc = "idle" /\ report = "record_rejected" => TakenOver(journal.current.step)

IInv ==
  /\ TypeOK /\ FilesAreKnown /\ RecordsAreTrue /\ Started /\ WorkerFollows /\ CallIsTrue
  /\ RefusalIsExcused

(* Only an edit changes a size.                                            *)
SizesAreKnown ==
  meddling = 0 => \A i \in Items : \A p \in Path : fs[i][p].size = "same"

-----------------------------------------------------------------------------
(* Facts about the operators.                                              *)

Less == {ss \in Nat \X Nat : ss[1] < ss[2]}

LEMMA Least ==
  ASSUME NEW S \in SUBSET Nat, S # {}
  PROVE  \E i \in S : \A j \in S : i <= j
<1>1. OpToRel(<, Nat) = Less
  BY Zenon DEF OpToRel, Less
<1>2. IsWellFoundedOn(Less, Nat)
  BY ONLY NatLessThanWellFounded, <1>1, Zenon
<1>3. PICK i \in S : \A j \in S : ~(<<j, i>> \in Less)
  BY <1>2, WFMin
<1>4. \A j \in S : ~(j < i)
  BY <1>3 DEF Less
<1> QED
  BY <1>4

(* An item is at its end.                                                  *)
Ended(kind, it) ==
  /\ it.dest = "published" /\ it.over = "none"
  /\ it.at = IF kind = "copy" THEN "original" ELSE "removed"

LEMMA EndedIsFinal == \A t, i : Final(t, i) <=> Ended(t.kind, t.items[i])
BY DEF Final, SourceFinal, Ended

(* The open item is the first that is not at its end.                      *)
LEMMA OpenIs ==
  ASSUME NEW t
  PROVE  /\ Unfinished(t) = 0 <=> \A i \in Items : Final(t, i)
         /\ Unfinished(t) # 0 =>
              /\ Unfinished(t) \in Items /\ ~Final(t, Unfinished(t))
              /\ \A j \in Items : j < Unfinished(t) => Final(t, j)
<1>0. \A i \in Items : i \in Nat /\ i # 0 /\ \A j \in Items : j < i <=> j \in 1..(i - 1)
  BY TransferAssumption DEF Items
<1>1. CASE \A i \in Items : Final(t, i)
  BY <1>0, <1>1 DEF Unfinished
<1>2. CASE ~\A i \in Items : Final(t, i)
  <2> DEFINE S == {i \in Items : ~Final(t, i)}
  <2>1. PICK i \in S : \A j \in S : i <= j
    <3>1. S \in SUBSET Nat /\ S # {}
      BY <1>0, <1>2
    <3> QED
      BY <3>1, Least
  <2>2. \A j \in 1..(i - 1) : Final(t, j)
    BY <1>0, <2>1, TransferAssumption DEF Items
  <2> DEFINE First == CHOOSE k \in Items : ~Final(t, k) /\ \A j \in 1..(k - 1) : Final(t, j)
  <2>3. First \in Items /\ ~Final(t, First) /\ \A j \in 1..(First - 1) : Final(t, j)
    BY <2>1, <2>2
  <2>4. Unfinished(t) = First
    BY <1>2 DEF Unfinished
  <2> HIDE DEF First
  <2> QED
    BY <1>0, <1>2, <2>3, <2>4
<1> QED
  BY <1>1, <1>2

LEMMA OpenIsThe ==
  ASSUME NEW t, NEW i \in Items, ~Final(t, i), \A j \in Items : j < i => Final(t, j)
  PROVE  Unfinished(t) = i
<1>1. i \in Nat /\ \A j \in Items : j \in Nat
  BY TransferAssumption DEF Items
<1>2. Unfinished(t) # 0
  BY OpenIs
<1>3. Unfinished(t) \in Items /\ ~Final(t, Unfinished(t))
  BY <1>2, OpenIs
<1>4. ~(i < Unfinished(t))
  BY <1>2, OpenIs
<1>5. ~(Unfinished(t) < i)
  BY <1>3
<1>6. \A a, b \in Nat : a < b \/ b < a \/ a = b
  OBVIOUS
<1>7. Unfinished(t) \in Nat
  BY <1>1, <1>3
<1> QED
  BY ONLY <1>1, <1>4, <1>5, <1>6, <1>7, Zenon

LEMMA ObjectIs ==
  /\ Nothing \in Object /\ Nothing.id = "nothing" /\ Nothing.data = 0
  /\ \A id, data :
       File(id, data).id = id /\ File(id, data).data = data /\ File(id, data).size = "same"
  /\ \A id \in {"nothing", "src", "dst", "other", "torn", "marker", "part", "whole"},
        data \in 0..MaxMeddling : File(id, data) \in Object
  /\ \A a \in Object : a.data \in 0..MaxMeddling /\ a.data \in Nat
  /\ \A a \in Object :
       a.id \in {"nothing", "src", "dst", "other", "torn", "marker", "part", "whole"}
  /\ Nothing = File("nothing", 0)
BY TransferAssumption DEF Nothing, File, Object

(* What is the same object, and what cannot be.                            *)
LEMMA SameIs ==
  ASSUME NEW a, NEW b
  PROVE  /\ SameObject(a, b) => SameObject(b, a) /\ a # Nothing /\ b # Nothing
         /\ SameObject(a, b) => (a.id = b.id \/ (a.id \in Temporary /\ b.id \in Temporary))
         /\ SameObject(a, b) /\ a.id = "other" => a = b
         /\ a # Nothing /\ b # Nothing /\ a.id = b.id /\ a.id # "other" => SameObject(a, b)
         /\ a # Nothing => SameObject(a, a)
         /\ a # Nothing /\ b # Nothing /\ a.id \in Temporary /\ b.id \in Temporary => SameObject(a, b)
BY DEF SameObject, Temporary

LEMMA TransactionIs ==
  ASSUME NEW t \in Transactions
  PROVE  /\ t # NoTxn /\ t \in TransactionType
         /\ t.kind \in {"copy", "move"} /\ t.step \in Steps /\ t.cancelled \in BOOLEAN
         /\ t.phase \in {"prepared", "processing", "cleanup", "completed"}
         /\ t.items \in [Items -> ItemType]
BY DEF Transactions, TransactionType, NoTxn

LEMMA TransactionOrNone == TransactionType = Transactions \union {NoTxn}
BY DEF TransactionType, Transactions

-----------------------------------------------------------------------------
(* Records.                                                                *)

(* What a record of the same operation is made of.                         *)
Made(t, u, i, it) ==
  /\ u \in Transactions /\ u.kind = t.kind
  /\ u.items = [t.items EXCEPT ![i] = it]

LEMMA MadeIs ==
  ASSUME NEW t \in Transactions, NEW i \in Items, NEW it, NEW u, Made(t, u, i, it)
  PROVE  u.items[i] = it /\ \A j \in Items : j # i => u.items[j] = t.items[j]
BY TransactionIs DEF Made

LEMMA SoundIs ==
  ASSUME NEW t, NEW granted, NEW edits, Sound(t, granted, edits)
  PROVE  /\ t \in Transactions
         /\ t.cancelled => t.phase = "cleanup"
         /\ t.step # "none" => Unfinished(t) # 0
         /\ t.phase \in {"prepared", "completed"} => t.step = "none"
         /\ t.phase = "prepared" => \A i \in Items : Pristine(t.items[i])
         /\ t.phase = "completed" <=> Unfinished(t) = 0
         /\ \A i \in Items :
              /\ Known(t.kind, granted, edits, i, t.items[i]) /\ SnapshotsMatch(t.items[i])
              /\ t.phase = "cleanup" /\ t.items[i].dest = "published" => Final(t, i)
              /\ Final(t, i) \/ i <= Unfinished(t) \/ Pristine(t.items[i])
              /\ Final(t, i) => Unfinished(t) = 0 \/ i < Unfinished(t)
         /\ Unfinished(t) # 0 =>
              /\ Unfinished(t) \in Items /\ ~Ended(t.kind, t.items[Unfinished(t)])
              /\ t.phase = "cleanup" => t.items[Unfinished(t)].dest # "published"
BY OpenIs, EndedIsFinal DEF Sound, Valid

(* The open item changes and stays open.                                   *)
LEMMA OpenKept ==
  ASSUME NEW t, NEW granted, NEW edits, Sound(t, granted, edits),
         NEW i \in Items, i = Unfinished(t), NEW it, NEW u, Made(t, u, i, it),
         ~Ended(t.kind, it)
  PROVE  Unfinished(u) = i
<1>1. t \in Transactions
  BY DEF Sound
<1>2. \A j \in Items : j # i => u.items[j] = t.items[j]
  BY <1>1, MadeIs
<1>0. u.kind = t.kind
  BY DEF Made
<1>3. ~Final(u, i)
  BY <1>0, <1>1, MadeIs, EndedIsFinal
<1>4. \A j \in Items : j < i => Final(u, j)
  <2>1. \A j \in Items : j < i => Final(t, j) /\ j # i
    BY OpenIs, TransferAssumption DEF Items
  <2> QED
    BY <1>0, <1>2, <2>1, EndedIsFinal
<1> QED
  BY <1>3, <1>4, OpenIsThe

LEMMA OpenKeptSound ==
  ASSUME NEW t, NEW granted, NEW edits, Sound(t, granted, edits),
         NEW i \in Items, i = Unfinished(t), NEW it, NEW u, Made(t, u, i, it),
         ~Ended(t.kind, it), Known(t.kind, granted, edits, i, it), SnapshotsMatch(it),
         u.phase \in {"processing", "cleanup"},
         u.phase = "cleanup" => it.dest # "published" /\ u.step \in CleanupSteps,
         u.cancelled => u.phase = "cleanup",
         u.step = "restore_staged_source" => it.dest = "absent",
         StepIsValid(u)
  PROVE  Sound(u, granted, edits)
<1>1. t \in Transactions /\ u \in Transactions /\ u.kind = t.kind
  BY DEF Sound, Made
<1>2. Unfinished(u) = i /\ u.items[i] = it
  BY <1>1, OpenKept, MadeIs
<1>2a. \A j \in Items : SnapshotsMatch(u.items[j])
  BY <1>1, <1>2, MadeIs, SoundIs
<1>3. \A j \in Items : j # i => u.items[j] = t.items[j] /\ (Final(u, j) <=> Final(t, j))
  BY <1>1, MadeIs, EndedIsFinal
<1>4. ~Final(u, i)
  BY <1>1, <1>2, EndedIsFinal
<1>5. \A j \in Items : Known(u.kind, granted, edits, j, u.items[j])
  BY <1>1, <1>2, <1>3, SoundIs
<1>6. ASSUME NEW j \in Items
      PROVE  /\ u.phase = "cleanup" /\ u.items[j].dest = "published" => Final(u, j)
             /\ Final(u, j) \/ j <= i \/ Pristine(u.items[j])
             /\ Final(u, j) => j < i
  <2>1. CASE j = i
    BY <1>2, <1>4, <2>1, TransferAssumption DEF Items
  <2>2. CASE j # i
    <3>1. Final(t, j) \/ j <= i \/ Pristine(t.items[j])
      BY SoundIs
    <3>2. Final(t, j) => j < i
      BY SoundIs, TransferAssumption DEF Items
    <3>3. t.items[j].dest = "published" => Final(t, j)
      <4>1. j < i => Final(t, j)
        BY OpenIs, TransferAssumption DEF Items
      <4>2. Pristine(t.items[j]) => t.items[j].dest = "absent"
        BY DEF Pristine
      <4> QED
        BY <2>2, <3>1, <4>1, <4>2, TransferAssumption DEF Items
    <3> QED
      BY <1>3, <2>2, <3>1, <3>2, <3>3
  <2> QED
    BY <2>1, <2>2
<1>7. i # 0
  BY TransferAssumption DEF Items
<1>8. Valid(u)
  <2>1. u.phase \notin {"prepared", "completed"}
    OBVIOUS
  <2> QED
    BY <1>2, <1>2a, <1>5, <1>6, <1>7, <2>1 DEF Valid, Known
<1> QED
  BY <1>1, <1>2, <1>5, <1>8 DEF Sound

(* The open item comes to its end, and the next one is open.               *)
LEMMA OpenEnds ==
  ASSUME NEW t, NEW granted, NEW edits, Sound(t, granted, edits), t.phase = "processing",
         NEW i \in Items, i = Unfinished(t), NEW it, NEW u, Made(t, u, i, it),
         Ended(t.kind, it), Known(t.kind, granted, edits, i, it), SnapshotsMatch(it),
         u.step = "none", ~u.cancelled,
         u.phase = IF Unfinished(u) = 0 THEN "completed" ELSE "processing"
  PROVE  Sound(u, granted, edits)
<1>1. t \in Transactions /\ u \in Transactions /\ u.kind = t.kind
  BY DEF Sound, Made
<1>2. u.items[i] = it /\ \A j \in Items : j # i => u.items[j] = t.items[j]
  BY <1>1, MadeIs
<1>2a. \A j \in Items : SnapshotsMatch(u.items[j])
  BY <1>2, SoundIs
<1>3. \A j \in Items : j \in Nat
  BY TransferAssumption DEF Items
<1>4. Final(u, i) /\ \A j \in Items : j # i => (Final(u, j) <=> Final(t, j))
  BY <1>1, <1>2, EndedIsFinal
<1>5. i # 0
  BY TransferAssumption DEF Items
<1>6. \A j \in Items : Known(u.kind, granted, edits, j, u.items[j])
  BY <1>1, <1>2, SoundIs
<1>7. \A j \in Items : j < i => Final(u, j)
  <2>1. \A j \in Items : j < i => Final(t, j) /\ j # i
    BY <1>3, <1>5, OpenIs
  <2> QED
    BY <1>4, <2>1
<1>8. \A j \in Items : i < j => Pristine(u.items[j]) /\ ~Final(u, j)
  <2> SUFFICES ASSUME NEW j \in Items, i < j
               PROVE  Pristine(u.items[j]) /\ ~Final(u, j)
    OBVIOUS
  <2>1. j # i /\ ~(j <= i) /\ ~(j < i)
    BY <1>3
  <2>2. ~Final(t, j)
    BY <1>5, <2>1, SoundIs
  <2> QED
    BY <1>2, <1>4, <2>1, <2>2, SoundIs
<1>9. ASSUME NEW j \in Items
      PROVE  /\ Final(u, j) \/ j <= Unfinished(u) \/ Pristine(u.items[j])
             /\ Final(u, j) => Unfinished(u) = 0 \/ j < Unfinished(u)
  <2>1. Final(u, j) \/ Pristine(u.items[j])
    BY <1>3, <1>4, <1>7, <1>8
  <2>2. ASSUME Final(u, j), Unfinished(u) # 0
        PROVE  j < Unfinished(u)
    <3>1. PICK k \in Items : k = Unfinished(u) /\ ~Final(u, k)
      BY <2>2, OpenIs
    <3>2. i < k
      BY <1>3, <1>4, <1>7, <3>1
    <3>3. j <= i
      BY <1>3, <1>8, <2>2
    <3> QED
      BY <1>3, <3>1, <3>2, <3>3
  <2> QED
    BY <2>1, <2>2
<1>10. Valid(u)
  <2>1. StepIsValid(u)
    BY DEF StepIsValid
  <2>2. u.phase # "cleanup" /\ u.phase # "prepared"
    OBVIOUS
  <2>3. u.phase = "completed" <=> Unfinished(u) = 0
    OBVIOUS
  <2> QED
    BY <1>2a, <1>6, <1>9, <2>1, <2>2, <2>3 DEF Valid, Known
<1> QED
  BY <1>1, <1>6, <1>10 DEF Sound

LEMMA WithItemIs ==
  ASSUME NEW t \in Transactions, NEW i \in Items, NEW it \in ItemType
  PROVE  /\ Made(t, WithItem(t, i, it), i, it)
         /\ WithItem(t, i, it).phase = t.phase /\ WithItem(t, i, it).step = t.step
         /\ WithItem(t, i, it).cancelled = t.cancelled
BY DEF Made, WithItem, Transactions

LEMMA MadeSame ==
  ASSUME NEW t \in Transactions, NEW i \in Items, NEW u \in Transactions,
         u.kind = t.kind, u.items = t.items
  PROVE  Made(t, u, i, t.items[i])
<1>1. t.items = [t.items EXCEPT ![i] = t.items[i]]
  BY TransactionIs
<1> QED
  BY <1>1 DEF Made

LEMMA StepSetIs ==
  ASSUME NEW t \in Transactions, NEW step \in Steps, NEW u, u = [t EXCEPT !.step = step]
  PROVE  /\ u \in Transactions /\ u.kind = t.kind /\ u.items = t.items
         /\ u.phase = t.phase /\ u.cancelled = t.cancelled /\ u.step = step
BY DEF Transactions

LEMMA PhaseSetIs ==
  ASSUME NEW t \in Transactions,
         NEW phase \in {"prepared", "processing", "cleanup", "completed"},
         NEW u, u = [t EXCEPT !.phase = phase]
  PROVE  /\ u \in Transactions /\ u.kind = t.kind /\ u.items = t.items
         /\ u.phase = phase /\ u.cancelled = t.cancelled /\ u.step = t.step
BY DEF Transactions

LEMMA CancelledIs ==
  ASSUME NEW t \in Transactions, NEW u, u = [t EXCEPT !.cancelled = TRUE]
  PROVE  /\ u \in Transactions /\ u.kind = t.kind /\ u.items = t.items
         /\ u.phase = t.phase /\ u.step = t.step
BY DEF Transactions

LEMMA ClearedIs ==
  ASSUME NEW t \in Transactions, NEW u, u = ClearActive(t)
  PROVE  /\ u \in Transactions /\ u.kind = t.kind /\ u.items = t.items
         /\ u.phase = t.phase /\ u.cancelled = t.cancelled /\ u.step = "none"
<1>1. "none" \in Steps
  BY DEF Steps
<1> QED
  BY <1>1, StepSetIs DEF ClearActive

(* A step that is taken back leaves the files as they are told.            *)
LEMMA ToldAtEveryStep ==
  ASSUME NEW f, NEW lost, NEW it, NEW step, Told(f, lost, it, "none"),
         step = "restore_staged_source" => f["temp"] = Nothing
  PROVE  Told(f, lost, it, step)
<1>1. HiddenTold(f, it, step)
  BY DEF Told, HiddenTold
<1>2. CopyTold(f, lost, it, step)
  BY DEF Told, CopyTold, Publishes
<1>3. SourceTold(f, lost, it, step)
  BY DEF Told, SourceTold
<1> QED
  BY <1>1, <1>2, <1>3 DEF Told

(* A record that changes the open item alone says what it said of the rest.*)
LEMMA FitsKept ==
  ASSUME NEW t \in Transactions, NEW i \in Items, i = Unfinished(t), NEW it, NEW u,
         Made(t, u, i, it), Unfinished(u) = i \/ u.step = "none",
         NEW files, NEW gone, Fits(t, files, gone),
         Told(files[i], Lost(gone, i), it, u.step)
  PROVE  Fits(u, files, gone)
<1> SUFFICES ASSUME NEW j \in Items
             PROVE  Told(files[j], Lost(gone, j), u.items[j], StepOf(u, j))
  BY DEF Fits
<1>1. CASE j = i
  BY <1>1, MadeIs DEF StepOf
<1>2. CASE j # i
  <2>1. StepOf(u, j) = "none" /\ StepOf(t, j) = "none"
    BY <1>2 DEF StepOf
  <2> QED
    BY <1>2, <2>1, MadeIs DEF Fits
<1> QED
  BY <1>1, <1>2

LEMMA OpenIsTold ==
  ASSUME NEW t, NEW files, NEW gone, Fits(t, files, gone), Unfinished(t) \in Items
  PROVE  Told(files[Unfinished(t)], Lost(gone, Unfinished(t)), t.items[Unfinished(t)], t.step)
<1> DEFINE i == Unfinished(t)
<1>1. i \in Items
  OBVIOUS
<1> HIDE DEF i
<1>2. Told(files[i], Lost(gone, i), t.items[i], StepOf(t, i))
  BY <1>1 DEF Fits
<1>3. StepOf(t, i) = t.step
  BY DEF StepOf, i
<1>4. Told(files[i], Lost(gone, i), t.items[i], t.step)
  BY <1>2, <1>3
<1> QED
  BY <1>4 DEF i

LEMMA StaysSound ==
  ASSUME NEW t, NEW granted, NEW edits \in Nat, Sound(t, granted, edits),
         NEW more, NEW later \in Nat, granted \subseteq more, edits <= later
  PROVE  Sound(t, more, later)
<1> SUFFICES ASSUME NEW i \in Items
             PROVE  Known(t.kind, more, later, i, t.items[i])
  BY DEF Sound
<1>1. Known(t.kind, granted, edits, i, t.items[i])
  BY DEF Sound
<1>2. t.items[i].source.data \in Nat
  BY <1>1, ObjectIs DEF Known, ItemType
<1>3. t.items[i].source.data <= later
  BY <1>1, <1>2 DEF Known
<1> QED
  BY <1>1, <1>3 DEF Known

-----------------------------------------------------------------------------
(* Writing a record, and ending a run.                                     *)

CallOK(c) ==
  /\ c.recovering \in BOOLEAN /\ c.verdict \in Verdicts /\ c.object \in Object
  /\ DOMAIN c.asked \subseteq Items /\ \A i \in DOMAIN c.asked : c.asked[i] \in Object

Running == {"initial", "ask", "loop", "execute", "reconcile", "answer", "confirm",
            "discard", "reserve", "commit", "stream", "streamed"}

LEMMA NoCallIs ==
  /\ CallOK(NoCall) /\ NoCall.verdict = "none" /\ NoCall.recovering = FALSE
  /\ NoCall.object = Nothing /\ DOMAIN NoCall.asked = {}
<1>1. DOMAIN NoCall.asked = {}
  BY DEF NoCall
<1>2. NoCall.verdict = "none" /\ NoCall.recovering = FALSE /\ NoCall.object = Nothing
  BY DEF NoCall
<1> QED
  BY <1>1, <1>2, ObjectIs DEF CallOK, Verdicts

(* The invariant but for what a step's end must be shown to mean.          *)
Kept ==
  /\ TypeOK /\ FilesAreKnown /\ RecordsAreTrue /\ Started /\ WorkerFollows
  /\ RefusalIsExcused

LEMMA RecordedWith ==
  ASSUME NEW t, Valid(t), NEW next, NEW c, RecordWith(t, next, c)
  PROVE  /\ journal' = [current |-> t, previous |-> journal.current]
         /\ txn' = t /\ pc' = next /\ call' = c /\ report' = report
BY DEF RecordWith

(* The record is true of the files, and so is the one before.              *)
LEMMA WritingIsTrue ==
  ASSUME IInv, NEW t, Sound(t, approved', meddling), Fits(t, fs, taken),
         journal' = [current |-> t, previous |-> journal.current],
         UNCHANGED <<fs, taken, meddling>>,
         approved \subseteq approved' \/ journal = EmptyJournal
  PROVE  /\ RecordsAreTrue'
         /\ journal' \in [current : TransactionType, previous : TransactionType]
<1>1. t \in Transactions /\ t # NoTxn /\ t \in TransactionType
  BY TransactionIs DEF Sound
<1>2. journal.current \in TransactionType
  BY DEF IInv, TypeOK
<1>3. journal'.current = t /\ journal'.previous = journal.current
  OBVIOUS
<1>4. journal' \in [current : TransactionType, previous : TransactionType]
  BY <1>1, <1>2
<1>5. Sound(t, approved', meddling') /\ Fits(t, fs', taken')
  OBVIOUS
<1>6. ASSUME journal.current # NoTxn
      PROVE  Sound(journal.current, approved', meddling') /\ Fits(journal.current, fs', taken')
  <2>1. Sound(journal.current, approved, meddling) /\ Fits(journal.current, fs, taken)
    BY <1>6 DEF IInv, RecordsAreTrue
  <2>2. approved \subseteq approved'
    BY <1>6 DEF EmptyJournal
  <2>3. meddling \in Nat /\ meddling' = meddling
    BY TransferAssumption DEF IInv, TypeOK
  <2>4. meddling <= meddling'
    BY <2>3
  <2> QED
    BY <2>1, <2>2, <2>3, <2>4, StaysSound
<1> QED
  BY <1>1, <1>3, <1>4, <1>5, <1>6 DEF RecordsAreTrue

LEMMA WritingKeeps ==
  ASSUME IInv, NEW t, Sound(t, approved', meddling), Fits(t, fs, taken),
         NEW next \in Running, NEW c, CallOK(c), RecordWith(t, next, c), Quiet,
         approved \subseteq approved' \/ journal = EmptyJournal,
         approved' \subseteq (Items \X Object)
  PROVE  /\ Kept' /\ txn' = t /\ pc' = next /\ call' = c /\ UNCHANGED <<report, fs, taken, meddling>>
<1>1. Valid(t)
  BY DEF Sound
<1>2. /\ journal' = [current |-> t, previous |-> journal.current]
      /\ txn' = t /\ pc' = next /\ call' = c /\ report' = report
  BY <1>1, RecordedWith
<1>3. UNCHANGED <<fs, taken, meddling, far, faults>>
  BY DEF Quiet, environment
<1>4. /\ RecordsAreTrue'
      /\ journal' \in [current : TransactionType, previous : TransactionType]
  BY <1>2, <1>3, WritingIsTrue
<1>5. t \in TransactionType /\ t # NoTxn /\ journal'.current = t
  BY <1>2, TransactionIs DEF Sound
<1>6. TypeOK'
  BY <1>2, <1>3, <1>4, <1>5 DEF IInv, TypeOK, CallOK, Running, Asked
<1>7. FilesAreKnown'
  BY <1>3 DEF IInv, FilesAreKnown
<1>8. pc' # "idle"
  BY <1>2 DEF Running
<1>9. Started' /\ WorkerFollows' /\ RefusalIsExcused'
  BY <1>2, <1>3, <1>5, <1>8 DEF Started, WorkerFollows, RefusalIsExcused
<1> QED
  BY <1>2, <1>3, <1>4, <1>6, <1>7, <1>9 DEF Kept

(* Most records are followed by a turn of the loop.                        *)
LEMMA LoopKeeps ==
  ASSUME IInv, NEW t, Sound(t, approved', meddling), Fits(t, fs, taken),
         Record(t, "loop"), Quiet, approved \subseteq approved',
         approved' \subseteq (Items \X Object)
  PROVE  IInv'
<1>1. Kept' /\ pc' = "loop"
  BY WritingKeeps, NoCallIs DEF Record, Running
<1>2. CallIsTrue'
  BY <1>1 DEF CallIsTrue
<1> QED
  BY <1>1, <1>2 DEF Kept, IInv

LEMMA EndKeeps ==
  ASSUME IInv, NEW outcome \in Outcomes, EndRun(outcome), RecordsAreTrue',
         outcome = "record_rejected" => TakenOver(journal'.current.step),
         journal' \in [current : TransactionType, previous : TransactionType],
         faults' \in 0..MaxFaults, UNCHANGED <<fs, far, meddling, taken, approved>>
  PROVE  IInv'
<1>1. pc' = "idle" /\ txn' = NoTxn /\ call' = NoCall /\ report' = outcome
  BY DEF EndRun
<1>2. outcome # "new"
  BY DEF Outcomes
<1>3. TypeOK'
  BY <1>1, NoCallIs, TransactionOrNone DEF IInv, TypeOK, CallOK, Asked
<1>4. FilesAreKnown' /\ Started' /\ WorkerFollows'
  BY <1>1, <1>2 DEF IInv, FilesAreKnown, Started, WorkerFollows
<1>5. CallIsTrue'
  BY <1>1 DEF CallIsTrue
<1>6. RefusalIsExcused'
  BY <1>1 DEF RefusalIsExcused, TakenOver
<1> QED
  BY <1>3, <1>4, <1>5, <1>6 DEF IInv

LEMMA SameRecords ==
  ASSUME IInv, UNCHANGED <<journal, fs, meddling, taken, approved>>
  PROVE  /\ RecordsAreTrue'
         /\ journal' \in [current : TransactionType, previous : TransactionType]
<1>1. RecordsAreTrue'
  BY DEF IInv, RecordsAreTrue
<1> QED
  BY <1>1 DEF IInv, TypeOK

LEMMA PreserveKeeps ==
  ASSUME IInv, pc # "idle", Preserve, Quiet, UNCHANGED approved
  PROVE  IInv'
<1>1. Sound(txn, approved', meddling) /\ Fits(txn, fs, taken)
  BY DEF IInv, WorkerFollows
<1>2. UNCHANGED <<fs, far, faults, taken, meddling>> /\ approved \subseteq approved'
  BY DEF Quiet, environment
<1>3. journal' = [current |-> txn, previous |-> journal.current] /\ EndRun("recovery_required")
  BY DEF Preserve
<1>4. RecordsAreTrue' /\ journal' \in [current : TransactionType, previous : TransactionType]
  BY <1>1, <1>2, <1>3, WritingIsTrue
<1>5. "recovery_required" \in Outcomes
  BY DEF Outcomes
<1>6. faults' \in 0..MaxFaults
  BY <1>2 DEF IInv, TypeOK
<1> QED
  BY <1>2, <1>3, <1>4, <1>5, <1>6, EndKeeps

(* What the worker has while it runs.                                      *)
LEMMA RunningIs ==
  ASSUME IInv, pc # "idle"
  PROVE  /\ Sound(txn, approved, meddling) /\ Fits(txn, fs, taken)
         /\ txn \in Transactions /\ txn # NoTxn
         /\ approved \subseteq (Items \X Object)
         /\ meddling \in Nat /\ meddling \in 0..MaxMeddling
         /\ Current # 0 =>
              /\ Current \in Items /\ Item \in ItemType
              /\ Known(txn.kind, approved, meddling, Current, Item) /\ SnapshotsMatch(Item)
              /\ ~Ended(txn.kind, Item)
              /\ Filed(fs[Current], Lost(taken, Current), meddling)
              /\ OpenTold(Item, txn.step)
<1>1. Sound(txn, approved, meddling) /\ Fits(txn, fs, taken)
  BY DEF IInv, WorkerFollows
<1>2. txn \in Transactions /\ txn # NoTxn
  BY <1>1, TransactionIs DEF Sound
<1>3. meddling \in Nat /\ meddling \in 0..MaxMeddling /\ approved \subseteq (Items \X Object)
  BY TransferAssumption DEF IInv, TypeOK
<1>4. ASSUME Current # 0
      PROVE  /\ Current \in Items /\ Item \in ItemType
             /\ Known(txn.kind, approved, meddling, Current, Item) /\ SnapshotsMatch(Item)
             /\ ~Ended(txn.kind, Item)
             /\ Filed(fs[Current], Lost(taken, Current), meddling)
             /\ OpenTold(Item, txn.step)
  <2>1. Current \in Items
    BY <1>4, OpenIs DEF Current
  <2>2. Known(txn.kind, approved, meddling, Current, Item) /\ SnapshotsMatch(Item)
    BY <1>1, <2>1, SoundIs DEF Item
  <2>3. ~Ended(txn.kind, Item)
    BY <1>4, EndedIsFinal, OpenIs DEF Current, Item
  <2>4. OpenTold(Item, txn.step)
    BY <1>1, <2>1, OpenIsTold DEF OpenTold, Item, Current
  <2>5. Filed(fs[Current], Lost(taken, Current), meddling)
    BY <2>1 DEF IInv, FilesAreKnown
  <2> QED
    BY <2>1, <2>2, <2>3, <2>4, <2>5 DEF Known
<1> QED
  BY <1>1, <1>2, <1>3, <1>4

(* A record of the open item, as the worker writes it.                     *)
LEMMA OpenRecord ==
  ASSUME IInv, pc # "idle", Current # 0, NEW it, NEW u, Made(txn, u, Current, it),
         OpenKnown(it), OpenTold(it, u.step), ~Ended(txn.kind, it), SnapshotsMatch(it),
         u.phase \in {"processing", "cleanup"},
         u.phase = "cleanup" => it.dest # "published" /\ u.step \in CleanupSteps,
         u.cancelled => u.phase = "cleanup",
         u.step = "restore_staged_source" => it.dest = "absent",
         Unfinished(u) = Current /\ u.items[Current] = it => StepIsValid(u)
  PROVE  /\ Sound(u, approved, meddling) /\ Fits(u, fs, taken)
         /\ Unfinished(u) = Current /\ u.items[Current] = it
<1> DEFINE i == Current
<1>1. i \in Items /\ i = Unfinished(txn) /\ Sound(txn, approved, meddling)
      /\ Fits(txn, fs, taken) /\ txn \in Transactions
  BY RunningIs DEF Current
<1>2. Known(txn.kind, approved, meddling, i, it) /\ Made(txn, u, i, it)
      /\ Told(fs[i], Lost(taken, i), it, u.step)
      /\ (Unfinished(u) = i /\ u.items[i] = it => StepIsValid(u))
  BY DEF OpenKnown, OpenTold
<1> HIDE DEF i
<1>3. Unfinished(u) = i /\ u.items[i] = it
  BY <1>1, <1>2, OpenKept, MadeIs
<1>4. Sound(u, approved, meddling)
  BY <1>1, <1>2, <1>3, OpenKeptSound
<1>5. Fits(u, fs, taken)
  BY <1>1, <1>2, <1>3, FitsKept
<1> QED
  BY <1>3, <1>4, <1>5 DEF i

-----------------------------------------------------------------------------
(* What becomes of an item's record.                                       *)

(* The steps that leave the source, the destination and the new file where *)
(* they are.                                                               *)
Plain(step) ==
  step \notin {"stage_source", "atomic_move", "delete_source", "restore_staged_source",
               "publish_temp", "evacuate_overwrite_destination"}

LEMMA PlainTold ==
  ASSUME NEW f, NEW lost, NEW it, NEW step, Plain(step), Told(f, lost, it, step)
  PROVE  Told(f, lost, it, "none")
<1>1. HiddenTold(f, it, "none")
  BY DEF Told, HiddenTold, Plain
<1>2. CopyTold(f, lost, it, "none")
  BY DEF Told, CopyTold, Publishes, Plain
<1>3. SourceTold(f, lost, it, "none")
  BY DEF Told, SourceTold, Plain
<1> QED
  BY <1>1, <1>2, <1>3 DEF Told

LEMMA ItemIs ==
  ASSUME NEW it \in ItemType
  PROVE  /\ it.strategy \in {"copy_stream", "move_undecided", "move_stream", "move_atomic"}
         /\ it.at \in {"original", "staged", "removed"}
         /\ it.dest \in {"absent", "temp_reserved", "content_ready", "published"}
         /\ it.over \in {"none", "authorized", "evacuated", "evacuated_unexpected"}
         /\ it.token \in BOOLEAN /\ it.to \in {"destination", "copy"} /\ it.to \in Path
         /\ it.source \in Object /\ it.temp \in Object /\ it.proof \in BOOLEAN
         /\ it.auth \in Object /\ it.backup \in Object
BY DEF ItemType, Path

LEMMA PathIs ==
  /\ "source" \in Path /\ "staged" \in Path /\ "temp" \in Path /\ "backup" \in Path
  /\ "destination" \in Path /\ "copy" \in Path
BY DEF Path

(* Where an item may be.                                                   *)
LEMMA KnownIs ==
  ASSUME NEW kind \in {"copy", "move"}, NEW granted, NEW edits, NEW i, NEW it,
         Known(kind, granted, edits, i, it)
  PROVE  /\ it \in ItemType
         /\ it.dest \in {"temp_reserved", "content_ready"} =>
              Streamed(it) /\ it.token /\ (kind = "copy" \/ it.at = "staged")
         /\ it.dest = "absent" => it.at \in {"original", "staged"} /\ it.temp = Nothing /\ ~it.proof
         /\ it.at = "removed" => it.dest = "published"
         /\ kind = "copy" <=> it.strategy = "copy_stream"
         /\ kind = "copy" => it.at = "original"
         /\ it.auth = Nothing <=> it.over = "none"
         /\ it.over \in {"none", "authorized"} => it.backup = Nothing
<1>1. it \in ItemType /\ LocationIsValid(kind, it) /\ ProofIsValid(it) /\ OverwriteIsValid(it)
  BY DEF Known
<1>2. it.auth = Nothing <=> it.over = "none"
  BY <1>1, ItemIs DEF OverwriteIsValid
<1>3. it.over \in {"none", "authorized"} => it.backup = Nothing
  BY <1>1, ItemIs DEF OverwriteIsValid
<1>4. it.dest \in {"temp_reserved", "content_ready"} =>
        Streamed(it) /\ it.token /\ (kind = "copy" \/ it.at = "staged")
  BY <1>1, ItemIs DEF LocationIsValid, ProofIsValid, Streamed
<1>5. it.dest = "absent" => it.at \in {"original", "staged"} /\ it.temp = Nothing /\ ~it.proof
  BY <1>1, ItemIs DEF LocationIsValid, ProofIsValid
<1>6. it.at = "removed" => it.dest = "published"
  BY <1>1, ItemIs DEF LocationIsValid
<1>7. kind = "copy" <=> it.strategy = "copy_stream"
  BY <1>1, ItemIs DEF LocationIsValid
<1>8. kind = "copy" => it.at = "original"
  BY <1>1, ItemIs DEF LocationIsValid
<1> QED
  BY <1>1, <1>2, <1>3, <1>4, <1>5, <1>6, <1>7, <1>8

(* Everything but the temporary file's record is as it was.                *)
Alike(n, it) ==
  /\ n \in ItemType /\ n.strategy = it.strategy /\ n.at = it.at /\ n.over = it.over
  /\ n.to = it.to /\ n.source = it.source /\ n.auth = it.auth /\ n.backup = it.backup

(* What is told of an item does not hang on its temporary file's record,   *)
(* while it is not published.                                              *)
LEMMA AlikeTold ==
  ASSUME NEW f, NEW lost, NEW it, NEW n, Alike(n, it), Told(f, lost, it, "none"),
         it.dest # "published", n.dest # "published",
         f["temp"] # Nothing => n.token
  PROVE  Told(f, lost, n, "none")
<1>1. HiddenTold(f, n, "none")
  BY DEF Told, HiddenTold, Alike
<1>2. CopyTold(f, lost, n, "none")
  BY DEF Told, CopyTold, Publishes, Alike
<1>3. SourceTold(f, lost, n, "none")
  BY DEF Told, SourceTold, Alike
<1> QED
  BY <1>1, <1>2, <1>3 DEF Told

LEMMA AlikeKnown ==
  ASSUME NEW kind \in {"copy", "move"}, NEW granted, NEW edits, NEW i, NEW it,
         Known(kind, granted, edits, i, it), NEW n, Alike(n, it),
         it.dest # "published", n.dest # "published",
         n.dest \in {"temp_reserved", "content_ready"} => kind = "copy" \/ it.at = "staged",
         n.strategy = "move_undecided" => n.dest = "absent" /\ ~n.token,
         n.dest = "absent" => n.temp = Nothing /\ ~n.proof,
         n.dest \in {"temp_reserved", "content_ready"} => n.temp.id \in Temporary /\ n.token,
         n.dest = "temp_reserved" => ~n.proof,
         n.dest = "content_ready" =>
           n.proof /\ n.temp.id = "whole" /\ n.source.data <= n.temp.data
  PROVE  Known(kind, granted, edits, i, n)
<1>1. it \in ItemType /\ n \in ItemType
  BY DEF Known, Alike
<1>2. n.dest \in {"absent", "temp_reserved", "content_ready"}
  BY <1>1, ItemIs
<1>3. OverwriteIsValid(n)
  BY DEF Known, OverwriteIsValid, Alike
<1>4. LocationIsValid(kind, n)
  <2>0. /\ kind = "copy" <=> it.strategy = "copy_stream"
        /\ kind = "copy" => it.at = "original"
    BY KnownIs
  <2>1. n.strategy = "copy_stream" => kind = "copy" /\ n.at = "original"
    BY <2>0 DEF Alike
  <2>2. n.strategy = "move_undecided" => kind = "move" /\ n.at = "original" /\ n.dest = "absent"
    BY <1>1, ItemIs DEF Known, LocationIsValid, Alike
  <2>3. n.strategy # "move_atomic"
    <3>1. it.strategy # "move_atomic"
      <4> SUFFICES ASSUME it.strategy = "move_atomic" PROVE FALSE
        OBVIOUS
      <4>1. LocationIsValid(kind, it)
        BY DEF Known
      <4> QED
        BY <4>1 DEF LocationIsValid
    <3> QED
      BY <3>1 DEF Alike
  <2>4. n.strategy = "move_stream" => kind = "move" /\ n.at \in {"original", "staged"}
    <3>1. it.at \in {"original", "staged", "removed"}
      BY <1>1, ItemIs
    <3>2. it.at # "removed"
      BY KnownIs
    <3> QED
      BY <2>0, <3>1, <3>2 DEF Alike
  <2>5. n.strategy = "move_stream" /\ n.dest \in {"temp_reserved", "content_ready"} => n.at = "staged"
    BY <2>4 DEF Alike
  <2>6. n.strategy \in {"copy_stream", "move_undecided", "move_stream"}
    BY <1>1, <2>3, ItemIs
  <2>7. n.dest # "published"
    BY <1>2
  <2>8. CASE n.strategy = "copy_stream"
    BY <2>1, <2>8 DEF LocationIsValid
  <2>9. CASE n.strategy = "move_undecided"
    BY <2>2, <2>9 DEF LocationIsValid
  <2>10. CASE n.strategy = "move_stream"
    BY <2>4, <2>5, <2>7, <2>10 DEF LocationIsValid
  <2> QED
    BY <2>6, <2>8, <2>9, <2>10
<1>5. ProofIsValid(n)
  <2>1. n.dest # "absent" => n.temp # Nothing
    BY <1>2, ObjectIs DEF Temporary
  <2>2. n.strategy # "move_atomic"
    BY <1>1, ItemIs DEF Known, LocationIsValid, Alike
  <2> QED
    BY <1>2, <2>1, <2>2 DEF ProofIsValid
<1>6. Streamed(n) /\ n.dest # "absent" => n.temp.id \in Temporary
  BY <1>2
<1>7. n.source.id = "src" /\ n.source.data <= edits
  BY DEF Known, Alike
<1>8. n.auth = Nothing \/ (n.auth.id \in {"dst", "other"} /\ <<i, n.auth>> \in granted)
  BY DEF Known, Alike
<1>9. n.over \in {"evacuated", "evacuated_unexpected"} => SameObject(n.backup, n.auth)
  BY DEF Known, Alike
<1> QED
  BY <1>1, <1>2, <1>3, <1>4, <1>5, <1>6, <1>7, <1>8, <1>9 DEF Known

-----------------------------------------------------------------------------
(* Reservations and streams on record.                                     *)

(* The sizes on record hang on a few fields alone.                         *)
LEMMA MatchesLike ==
  ASSUME NEW it, SnapshotsMatch(it), NEW n, n.strategy = it.strategy, n.at = it.at,
         n.dest = it.dest, n.source = it.source, n.temp = it.temp
  PROVE  SnapshotsMatch(n)
BY DEF SnapshotsMatch, Streamed

(* A temporary file on record has the size that was planned.               *)
LEMMA AlikeMatches ==
  ASSUME NEW it, SnapshotsMatch(it), NEW n, Alike(n, it), n.dest # "published",
         n.dest = "content_ready" => n.temp.size = "same"
  PROVE  SnapshotsMatch(n)
BY DEF SnapshotsMatch, Alike

(* The record of the temporary file changes, and nothing else.             *)
LEMMA TemporaryRecord ==
  ASSUME IInv, pc # "idle", Current # 0, txn.phase \in {"processing", "cleanup"},
         Plain(txn.step), Item.dest # "published", NEW n, Alike(n, Item),
         n.dest # "published",
         n.dest \in {"temp_reserved", "content_ready"} =>
           /\ n.temp.id \in Temporary /\ n.token
           /\ txn.kind = "copy" \/ Item.at = "staged",
         n.strategy = "move_undecided" => n.dest = "absent" /\ ~n.token,
         n.dest = "absent" => n.temp = Nothing /\ ~n.proof,
         n.dest = "temp_reserved" => ~n.proof,
         n.dest = "content_ready" =>
           /\ n.proof /\ n.temp.id = "whole" /\ n.source.data <= n.temp.data
           /\ n.temp.size = "same",
         fs[Current]["temp"] # Nothing => n.token,
         NEW u, Made(txn, u, Current, n), u.phase \in {"processing", "cleanup"},
         u.cancelled => u.phase = "cleanup",
         u.phase = "cleanup" => u.step = "none",
         \/ u.step = "none"
         \/ /\ u.step = "reserve_temp" /\ n.dest = "absent" /\ n.token /\ Streamed(n)
            /\ txn.kind = "copy" \/ Item.at = "staged"
         \/ u.step = "stream_temp" /\ n.dest = "temp_reserved" /\ Streamed(n)
  PROVE  /\ Sound(u, approved, meddling) /\ Fits(u, fs, taken)
         /\ Unfinished(u) = Current /\ u.items[Current] = n
<1>1. /\ Known(txn.kind, approved, meddling, Current, Item) /\ OpenTold(Item, txn.step)
      /\ txn.kind \in {"copy", "move"} /\ Current \in Items
  BY RunningIs, TransactionIs
<1>2. OpenKnown(n)
  BY <1>1, AlikeKnown DEF OpenKnown
<1>3. OpenTold(Item, "none")
  BY <1>1, PlainTold DEF OpenTold
<1>4. OpenTold(n, "none")
  BY <1>3, AlikeTold DEF OpenTold
<1>5. OpenTold(n, u.step)
  BY <1>4, ToldAtEveryStep DEF OpenTold
<1>6. ~Ended(txn.kind, n)
  BY DEF Ended
<1>7. u.kind = txn.kind
  BY DEF Made
<1>8. Unfinished(u) = Current /\ u.items[Current] = n => StepIsValid(u)
  <2> SUFFICES ASSUME Unfinished(u) = Current, u.items[Current] = n
               PROVE  StepIsValid(u)
    OBVIOUS
  <2>1. CASE u.step = "none"
    BY <2>1 DEF StepIsValid
  <2>2. CASE u.step = "reserve_temp"
    BY <1>7, <2>2 DEF StepIsValid, Alike
  <2>3. CASE u.step = "stream_temp"
    BY <2>3 DEF StepIsValid
  <2> QED
    BY <2>1, <2>2, <2>3
<1>9. u.phase = "cleanup" => n.dest # "published" /\ u.step \in CleanupSteps
  BY DEF CleanupSteps
<1>10. u.step # "restore_staged_source"
  OBVIOUS
<1>11. SnapshotsMatch(n)
  BY RunningIs, AlikeMatches
<1> QED
  BY <1>2, <1>5, <1>6, <1>8, <1>9, <1>10, <1>11, OpenRecord

(* While a transaction is processed or cleaned up, an item is open.        *)
LEMMA PhaseIs ==
  ASSUME IInv, pc # "idle"
  PROVE  /\ txn.phase \in {"prepared", "processing", "cleanup", "completed"}
         /\ txn.phase = "completed" <=> Current = 0
         /\ txn.step # "none" =>
              /\ txn.phase \in {"processing", "cleanup"} /\ Current # 0
              /\ ~txn.cancelled \/ txn.phase = "cleanup"
         /\ txn.phase = "cleanup" =>
              txn.step \in CleanupSteps /\ Item.dest # "published"
         /\ txn.phase \notin {"cleanup"} => ~txn.cancelled
         /\ txn.phase = "prepared" => Item.dest = "absent" /\ txn.step = "none"
<1>1. Sound(txn, approved, meddling) /\ txn \in Transactions
  BY RunningIs
<1>2. Current = Unfinished(txn) /\ Item = txn.items[Unfinished(txn)]
  BY DEF Current, Item
<1>3. txn.phase = "cleanup" => txn.step \in CleanupSteps
  BY <1>1 DEF Sound
<1>4. ASSUME txn.phase = "cleanup"
      PROVE  Item.dest # "published"
  BY <1>1, <1>2, <1>4, SoundIs
<1>5. ASSUME txn.phase = "prepared"
      PROVE  Item.dest = "absent" /\ txn.step = "none"
  <2>1. Current # 0 /\ Current \in Items
    BY <1>1, <1>2, <1>5, SoundIs
  <2>2. Pristine(Item) /\ txn.step = "none"
    BY <1>1, <1>2, <1>5, <2>1, SoundIs
  <2> QED
    BY <2>2 DEF Pristine
<1> QED
  BY <1>1, <1>2, <1>3, <1>4, <1>5, SoundIs, TransactionIs

LEMMA StepPhase ==
  ASSUME IInv, pc # "idle", txn.step \notin CleanupSteps
  PROVE  txn.phase = "processing" /\ Current # 0 /\ ~txn.cancelled
BY PhaseIs DEF CleanupSteps

LEMMA ProcessingIs ==
  ASSUME IInv, Processing
  PROVE  /\ pc # "idle" /\ txn.phase = "processing" /\ txn.step = "none" /\ Current # 0
         /\ ~txn.cancelled
BY PhaseIs DEF Processing

LEMMA CleaningIs ==
  ASSUME IInv, Cleaning
  PROVE  /\ pc # "idle" /\ txn.phase = "cleanup" /\ txn.step = "none" /\ Current # 0
         /\ Item.dest # "published"
BY PhaseIs DEF Cleaning

LEMMA MadeStep ==
  ASSUME NEW t, NEW v, NEW i, NEW n, Made(t, v, i, n), NEW step \in Steps,
         NEW u, u = [v EXCEPT !.step = step]
  PROVE  /\ Made(t, u, i, n) /\ u.step = step
         /\ u.phase = v.phase /\ u.cancelled = v.cancelled
<1>1. v \in Transactions
  BY DEF Made
<1> QED
  BY <1>1, StepSetIs DEF Made

LEMMA MadeClear ==
  ASSUME NEW t, NEW v, NEW i, NEW n, Made(t, v, i, n), NEW u, u = ClearActive(v)
  PROVE  /\ Made(t, u, i, n) /\ u.step = "none"
         /\ u.phase = v.phase /\ u.cancelled = v.cancelled
<1>1. "none" \in Steps
  BY DEF Steps
<1> QED
  BY <1>1, MadeStep DEF ClearActive

(* What the loop finds to do next for the open item.                       *)
LEMMA NextStepIs ==
  ASSUME IInv, Processing, Item.over # "evacuated_unexpected"
  PROVE  /\ NextStep \in RenameSteps \union DeleteSteps \union {"stream"}
         /\ NextStep = "atomic_move" =>
              Item.strategy = "move_undecided" /\ Item.over \in {"none", "evacuated"}
         /\ NextStep = "stage_source" =>
              Item.strategy = "move_stream" /\ Item.at = "original" /\ Item.dest = "absent"
         /\ NextStep = "publish_temp" =>
              /\ Streamed(Item) /\ Item.dest = "content_ready"
              /\ Item.over \in {"none", "evacuated"}
         /\ NextStep = "delete_source" =>
              Item.strategy = "move_stream" /\ Item.at = "staged" /\ Item.dest = "published"
         /\ NextStep = "evacuate_overwrite_destination" =>
              Item.over = "authorized" /\ Item.dest # "published"
         /\ NextStep = "cleanup_overwrite_destination" =>
              Item.over = "evacuated" /\ Item.dest = "published" /\ SourceFinal(txn, Current)
         /\ NextStep = "stream" =>
              /\ Streamed(Item) /\ Item.dest \in {"absent", "temp_reserved"}
              /\ txn.kind = "copy" \/ Item.at = "staged"
         /\ NextStep \notin {"restore_staged_source", "restore_overwrite_destination",
                             "cleanup_temp", "none"}
<1>1. /\ Current # 0 /\ txn.kind \in {"copy", "move"} /\ Item \in ItemType
      /\ Known(txn.kind, approved, meddling, Current, Item) /\ ~Ended(txn.kind, Item)
  BY ProcessingIs, RunningIs, TransactionIs
<1>2. /\ Item.dest \in {"temp_reserved", "content_ready"} =>
           Streamed(Item) /\ (txn.kind = "copy" \/ Item.at = "staged")
      /\ Item.dest = "absent" => Item.at \in {"original", "staged"}
      /\ Item.at = "removed" => Item.dest = "published"
      /\ txn.kind = "copy" <=> Item.strategy = "copy_stream"
      /\ txn.kind = "copy" => Item.at = "original"
  BY <1>1, KnownIs
<1>3. /\ Item.strategy \in {"copy_stream", "move_undecided", "move_stream", "move_atomic"}
      /\ Item.at \in {"original", "staged", "removed"}
      /\ Item.dest \in {"absent", "temp_reserved", "content_ready", "published"}
      /\ Item.over \in {"none", "authorized", "evacuated"}
  BY <1>1, ItemIs
<1>4. /\ Item.strategy = "move_undecided" => Item.at = "original" /\ Item.dest = "absent"
      /\ Item.strategy = "move_atomic" => Item.at = "removed" /\ Item.dest = "published"
      /\ Item.strategy = "move_stream" /\ Item.dest = "published" =>
           Item.at \in {"staged", "removed"}
      /\ Item.dest = "published" => Item.over \in {"none", "evacuated"}
  BY <1>1, <1>3 DEF Known, LocationIsValid
<1>5. SourceFinal(txn, Current) <=> Item.at = IF txn.kind = "copy" THEN "original" ELSE "removed"
  BY DEF SourceFinal, Item
<1>6. Item.dest = "published" /\ SourceFinal(txn, Current) => Item.over = "evacuated"
  BY <1>1, <1>4, <1>5 DEF Ended
<1>7. CASE Evacuates(Item)
  <2>1. NextStep = "evacuate_overwrite_destination"
    BY <1>2, <1>3, <1>4, <1>7 DEF NextStep, Evacuates, Streamed
  <2> QED
    BY <2>1, <1>4, <1>7 DEF RenameSteps, Evacuates
<1>8. CASE ~Evacuates(Item) /\ Item.strategy = "move_undecided"
  <2>1. NextStep = "atomic_move"
    BY <1>4, <1>8 DEF NextStep
  <2>2. Item.over \in {"none", "evacuated"}
    BY <1>3, <1>8 DEF Evacuates
  <2> QED
    BY <2>1, <2>2, <1>8 DEF RenameSteps
<1>9. CASE ~Evacuates(Item) /\ Item.strategy = "move_stream" /\ Item.at = "original"
  <2>1. Item.dest = "absent"
    BY <1>2, <1>3, <1>4, <1>9
  <2>2. NextStep = "stage_source"
    BY <2>1, <1>2, <1>9 DEF NextStep
  <2> QED
    BY <2>1, <2>2, <1>9 DEF RenameSteps
<1>10. CASE /\ ~Evacuates(Item)
            /\ Item.strategy = "copy_stream" \/ Item.at = "staged"
            /\ Item.dest \in {"absent", "temp_reserved"}
  <2>1. Item.strategy # "move_undecided" /\ ~(Item.strategy = "move_stream" /\ Item.at = "original")
    BY <1>2, <1>4, <1>10
  <2>2. NextStep = "stream"
    BY <2>1, <1>10 DEF NextStep
  <2>3. Streamed(Item)
    BY <1>3, <1>4, <1>10 DEF Streamed
  <2> QED
    BY <1>2, <1>10, <2>2, <2>3
<1>11. CASE ~Evacuates(Item) /\ Item.dest = "content_ready"
  <2>1. Item.over \in {"none", "evacuated"}
    BY <1>3, <1>11 DEF Evacuates
  <2>2. Item.strategy # "move_undecided" /\ ~(Item.strategy = "move_stream" /\ Item.at = "original")
    BY <1>2, <1>4, <1>11
  <2>3. NextStep = "publish_temp"
    BY <2>2, <1>11 DEF NextStep
  <2> QED
    BY <2>1, <2>3, <1>2, <1>11 DEF RenameSteps
<1>12. CASE ~Evacuates(Item) /\ Item.dest = "published" /\ Item.at = "staged"
  <2>1. Item.strategy = "move_stream"
    BY <1>2, <1>3, <1>4, <1>12
  <2>2. ~SourceFinal(txn, Current)
    BY <1>2, <1>5, <1>12
  <2>3. NextStep = "delete_source"
    BY <2>1, <2>2, <1>12 DEF NextStep
  <2> QED
    BY <2>1, <2>3, <1>12 DEF DeleteSteps
<1>13. CASE ~Evacuates(Item) /\ Item.dest = "published" /\ Item.at # "staged"
  <2>1. SourceFinal(txn, Current)
    BY <1>2, <1>3, <1>4, <1>5, <1>13
  <2>2. ~(Item.strategy = "move_stream" /\ Item.at = "original") /\ Item.strategy # "move_undecided"
    BY <1>3, <1>4, <1>13
  <2>3. NextStep = "cleanup_overwrite_destination"
    BY <2>1, <2>2, <1>6, <1>13 DEF NextStep
  <2> QED
    BY <2>1, <2>3, <1>6, <1>13 DEF DeleteSteps
<1> QED
  <2>1. Item.dest = "absent" => Item.strategy \in {"copy_stream", "move_undecided", "move_stream"}
    BY <1>3, <1>4
  <2> QED
    BY <1>2, <1>3, <1>7, <1>8, <1>9, <1>10, <1>11, <1>12, <1>13, <2>1

-----------------------------------------------------------------------------
(* The loop's steps.                                                       *)

(* The item is given up: the step is taken back, and the undoing begins.   *)
LEMMA CleanupKeeps ==
  ASSUME IInv, pc # "idle", Current # 0, NEW v, NEW n, Made(txn, v, Current, n),
         OpenKnown(n), OpenTold(n, "none"), n.dest # "published", SnapshotsMatch(n),
         EnterCleanup(v), Quiet, UNCHANGED approved
  PROVE  IInv'
<1> DEFINE b == ClearActive(v)
<1> DEFINE u == [b EXCEPT !.phase = "cleanup"]
<1>1. Made(txn, u, Current, n) /\ u.step = "none" /\ u.phase = "cleanup"
  <2>1. b = ClearActive(v)
    OBVIOUS
  <2> HIDE DEF b
  <2>2. Made(txn, b, Current, n) /\ b.step = "none"
    BY <2>1, MadeClear
  <2>4. b \in Transactions
    BY <2>2 DEF Made
  <2>3. /\ u \in Transactions /\ u.kind = b.kind /\ u.items = b.items
        /\ u.phase = "cleanup" /\ u.step = b.step
    BY <2>4, PhaseSetIs
  <2> HIDE DEF u
  <2> QED
    BY <2>2, <2>3 DEF Made
<1>2. Record(u, "loop")
  BY DEF EnterCleanup
<1> HIDE DEF u
<1>3. ~Ended(txn.kind, n)
  BY DEF Ended
<1>4. StepIsValid(u)
  BY <1>1 DEF StepIsValid
<1>5. OpenTold(n, u.step)
  BY <1>1
<1>6. Sound(u, approved, meddling) /\ Fits(u, fs, taken)
  BY <1>1, <1>3, <1>4, <1>5, OpenRecord DEF CleanupSteps
<1>7. approved' = approved /\ approved' \subseteq (Items \X Object)
  BY RunningIs
<1> QED
  BY <1>2, <1>6, <1>7, LoopKeeps

LEMMA OpenSame ==
  ASSUME IInv, pc # "idle", Current # 0
  PROVE  Made(txn, txn, Current, Item) /\ OpenKnown(Item) /\ SnapshotsMatch(Item)
<1>1. txn \in Transactions /\ Current \in Items
  BY RunningIs
<1> DEFINE i == Current
<1>2. i \in Items
  BY <1>1
<1> HIDE DEF i
<1>3. Made(txn, txn, i, txn.items[i])
  BY <1>1, <1>2, MadeSame
<1> QED
  BY <1>3, RunningIs DEF i, Item, OpenKnown

LEMMA StepTaken ==
  ASSUME IInv, pc # "idle", Current # 0, txn.step = "none",
         NEW step \in RenameSteps \union DeleteSteps,
         txn.phase \in {"processing", "cleanup"},
         txn.phase = "cleanup" => step \in CleanupSteps,
         step = "restore_staged_source" => Item.dest = "absent" /\ fs[Current]["temp"] = Nothing,
         \A u : u.kind = txn.kind /\ u.phase = txn.phase /\ u.step = step
                /\ Unfinished(u) = Current /\ u.items[Current] = Item => StepIsValid(u),
         BeginStep(step), Quiet, UNCHANGED approved
  PROVE  IInv'
<1> DEFINE u == [txn EXCEPT !.step = step]
<1>1. Made(txn, u, Current, Item) /\ u.step = step /\ u.phase = txn.phase
      /\ u.cancelled = txn.cancelled
  <2>1. step \in Steps
    BY DEF Steps
  <2>2. Made(txn, txn, Current, Item)
    BY OpenSame
  <2>3. u = [txn EXCEPT !.step = step]
    OBVIOUS
  <2> HIDE DEF u
  <2> QED
    BY <2>1, <2>2, <2>3, MadeStep
<1>2. RecordWith(u, "execute", NoCall)
  BY DEF BeginStep, Record
<1> HIDE DEF u
<1>3. u.kind = txn.kind
  BY <1>1 DEF Made
<1>4. Unfinished(u) = Current /\ u.items[Current] = Item => StepIsValid(u)
  BY <1>1, <1>3
<1>5. /\ OpenKnown(Item) /\ ~Ended(txn.kind, Item) /\ SnapshotsMatch(Item)
      /\ u.phase = "cleanup" => Item.dest # "published" /\ u.step \in CleanupSteps
      /\ u.cancelled => u.phase = "cleanup"
  BY <1>1, OpenSame, RunningIs, PhaseIs
<1>6. OpenTold(Item, "none")
  BY RunningIs
<1>7. OpenTold(Item, u.step)
  BY <1>1, <1>6, ToldAtEveryStep DEF OpenTold
<1>8. /\ Sound(u, approved, meddling) /\ Fits(u, fs, taken)
      /\ Unfinished(u) = Current /\ u.items[Current] = Item
  BY <1>1, <1>4, <1>5, <1>7, OpenRecord
<1>9. approved' = approved /\ approved' \subseteq (Items \X Object)
  BY RunningIs
<1>10. Kept' /\ txn' = u /\ pc' = "execute" /\ call' = NoCall /\ UNCHANGED <<fs, taken, meddling>>
  BY <1>2, <1>8, <1>9, WritingKeeps, NoCallIs DEF Running
<1>11. Current' = Current /\ Item' = Item
  BY <1>8, <1>10 DEF Current, Item
<1>12. OpenTold(Item, "none")'
  BY <1>6, <1>10, <1>11 DEF OpenTold
<1>13. CallIsTrue'
  BY <1>1, <1>10, <1>12 DEF CallIsTrue
<1> QED
  BY <1>10, <1>13 DEF Kept, IInv

LEMMA BeginRenameKeeps ==
  ASSUME IInv, BeginRename
  PROVE  IInv'
<1>1. Processing /\ Quiet /\ UNCHANGED approved
  BY DEF BeginRename
<1>2. /\ pc # "idle" /\ txn.phase = "processing" /\ txn.step = "none" /\ Current # 0
      /\ ~txn.cancelled
  BY <1>1, ProcessingIs
<1>3. CASE Item.over = "evacuated_unexpected"
  <2>1. EnterCleanup(txn)
    BY <1>3 DEF BeginRename
  <2>2. OpenTold(Item, "none") /\ Item.dest # "published"
    BY <1>2, <1>3, RunningIs DEF Known
  <2> QED
    BY <1>1, <1>2, <2>1, <2>2, OpenSame, CleanupKeeps
<1>4. CASE Item.over # "evacuated_unexpected"
  <2>1. NextStep \in RenameSteps /\ BeginStep(NextStep)
    BY <1>4 DEF BeginRename
  <2> DEFINE step == NextStep
  <2>2. /\ step = "atomic_move" =>
              Item.strategy = "move_undecided" /\ Item.over \in {"none", "evacuated"}
        /\ step = "stage_source" =>
              Item.strategy = "move_stream" /\ Item.at = "original" /\ Item.dest = "absent"
        /\ step = "publish_temp" =>
              /\ Streamed(Item) /\ Item.dest = "content_ready"
              /\ Item.over \in {"none", "evacuated"}
        /\ step = "evacuate_overwrite_destination" =>
              Item.over = "authorized" /\ Item.dest # "published"
        /\ step \notin {"restore_staged_source", "restore_overwrite_destination"}
    BY <1>1, <1>4, NextStepIs
  <2>3. step \in RenameSteps /\ BeginStep(step)
    BY <2>1
  <2> HIDE DEF step
  <2>4. ASSUME NEW u, u.step = step, Unfinished(u) = Current, u.items[Current] = Item
        PROVE  StepIsValid(u)
    BY <2>2, <2>3, <2>4 DEF StepIsValid, RenameSteps
  <2> QED
    BY <1>1, <1>2, <2>2, <2>3, <2>4, StepTaken
<1> QED
  BY <1>3, <1>4

LEMMA BeginDeleteKeeps ==
  ASSUME IInv, BeginDelete
  PROVE  IInv'
<1>1. Processing /\ Quiet /\ UNCHANGED approved /\ Item.over # "evacuated_unexpected"
  BY DEF BeginDelete
<1>2. /\ pc # "idle" /\ txn.phase = "processing" /\ txn.step = "none" /\ Current # 0
      /\ ~txn.cancelled
  BY <1>1, ProcessingIs
<1>3. CASE Preserve
  BY <1>1, <1>2, <1>3, PreserveKeeps
<1>4. CASE BeginStep(NextStep)
  <2> DEFINE step == NextStep
  <2>2. /\ step = "delete_source" =>
              Item.strategy = "move_stream" /\ Item.at = "staged" /\ Item.dest = "published"
        /\ step = "cleanup_overwrite_destination" =>
              Item.over = "evacuated" /\ Item.dest = "published" /\ SourceFinal(txn, Current)
        /\ step \notin {"cleanup_temp", "restore_staged_source"}
    BY <1>1, NextStepIs
  <2>3. step \in DeleteSteps /\ BeginStep(step)
    BY <1>4 DEF BeginDelete
  <2> HIDE DEF step
  <2>4. ASSUME NEW u, u.kind = txn.kind, u.step = step, Unfinished(u) = Current,
               u.items[Current] = Item
        PROVE  StepIsValid(u)
    <3>1. SourceFinal(u, Unfinished(u)) <=> SourceFinal(txn, Current)
      BY <2>4 DEF SourceFinal, Item
    <3> QED
      BY <2>2, <2>3, <2>4, <3>1 DEF StepIsValid, DeleteSteps
  <2> QED
    BY <1>1, <1>2, <2>2, <2>3, <2>4, StepTaken
<1> QED
  BY <1>3, <1>4 DEF BeginDelete

LEMMA BeginRestoreKeeps ==
  ASSUME IInv, BeginRestore
  PROVE  IInv'
<1>1. Cleaning /\ Quiet /\ UNCHANGED approved /\ NoTemporary /\ (Item.at = "staged" \/ Evacuated)
  BY DEF BeginRestore
<1>2. /\ pc # "idle" /\ txn.phase = "cleanup" /\ txn.step = "none" /\ Current # 0
      /\ Item.dest # "published"
  BY <1>1, CleaningIs
<1>3. txn.kind \in {"copy", "move"} /\ Known(txn.kind, approved, meddling, Current, Item)
      /\ Item \in ItemType
  BY <1>2, RunningIs, TransactionIs
<1>4. Item.dest = "absent"
  BY <1>1, <1>2, <1>3, ItemIs DEF NoTemporary, TemporaryRecorded
<1>7. fs[Current]["temp"] = Nothing
  <2>1. OpenTold(Item, "none")
    BY <1>2, RunningIs
  <2>2. fs[Current]["temp"] # Nothing => Item.token
    BY <2>1 DEF OpenTold, Told, HiddenTold
  <2> QED
    BY <1>1, <1>4, <2>2 DEF NoTemporary, ReservationPending
<1>5. CASE Item.at = "staged"
  <2>1. BeginStep("restore_staged_source")
    BY <1>5 DEF BeginRestore
  <2>2. Item.strategy = "move_stream"
    BY <1>3, <1>5, ItemIs DEF Known, LocationIsValid
  <2>3. ASSUME NEW u, u.phase = txn.phase, u.step = "restore_staged_source",
               Unfinished(u) = Current, u.items[Current] = Item
        PROVE  StepIsValid(u)
    BY <1>2, <1>5, <2>2, <2>3 DEF StepIsValid
  <2>4. "restore_staged_source" \in RenameSteps /\ "restore_staged_source" \in CleanupSteps
    BY DEF RenameSteps, CleanupSteps
  <2> QED
    BY <1>1, <1>2, <1>4, <1>7, <2>1, <2>3, <2>4, StepTaken
<1>6. CASE Item.at # "staged"
  <2>1. BeginStep("restore_overwrite_destination") /\ Evacuated
    BY <1>1, <1>6 DEF BeginRestore
  <2>3. ASSUME NEW u, u.phase = txn.phase, u.step = "restore_overwrite_destination",
               Unfinished(u) = Current, u.items[Current] = Item
        PROVE  StepIsValid(u)
    BY <1>2, <2>1, <2>3 DEF StepIsValid, Evacuated
  <2>4. "restore_overwrite_destination" \in RenameSteps
        /\ "restore_overwrite_destination" \in CleanupSteps
    BY DEF RenameSteps, CleanupSteps
  <2> QED
    BY <1>1, <1>2, <2>1, <2>3, <2>4, StepTaken
<1> QED
  BY <1>5, <1>6

LEMMA DiscardTemporaryKeeps ==
  ASSUME IInv, DiscardTemporary
  PROVE  IInv'
<1>1. pc = "discard" /\ BeginStep("cleanup_temp") /\ Quiet /\ UNCHANGED approved
  BY DEF DiscardTemporary
<1>2. txn.phase = "cleanup" /\ txn.step = "none" /\ Item.dest = "temp_reserved"
  BY <1>1 DEF IInv, CallIsTrue
<1>3. pc # "idle" /\ Current # 0
  BY <1>1, <1>2, PhaseIs
<1>4. Streamed(Item)
  BY <1>2, <1>3, RunningIs, TransactionIs, KnownIs
<1>5. ASSUME NEW u, u.phase = txn.phase, u.step = "cleanup_temp",
             Unfinished(u) = Current, u.items[Current] = Item
      PROVE  StepIsValid(u)
  BY <1>2, <1>4, <1>5 DEF StepIsValid
<1>6. "cleanup_temp" \in DeleteSteps /\ "cleanup_temp" \in CleanupSteps
  BY DEF DeleteSteps, CleanupSteps
<1> QED
  BY <1>1, <1>2, <1>3, <1>5, <1>6, StepTaken

LEMMA WithOpenItem ==
  ASSUME IInv, pc # "idle", Current # 0, NEW n \in ItemType, NEW v, v = WithItem(txn, Current, n)
  PROVE  /\ Made(txn, v, Current, n) /\ v.phase = txn.phase /\ v.step = txn.step
         /\ v.cancelled = txn.cancelled
BY RunningIs, WithItemIs

LEMMA OpenFacts ==
  ASSUME IInv, pc # "idle", Current # 0
  PROVE  /\ Item \in ItemType /\ txn.kind \in {"copy", "move"}
         /\ Filed(fs[Current], Lost(taken, Current), meddling)
         /\ fs[Current] \in [Path -> Object]
         /\ fs[Current]["temp"] \in Object
         /\ fs[Current]["temp"].id \in Temporary \union {"nothing"}
         /\ fs[Current]["temp"] # Nothing => fs[Current]["temp"].id \in Temporary /\ Item.token
                                           /\ (txn.kind = "copy" \/ Item.at = "staged")
         /\ Item.dest \in {"temp_reserved", "content_ready"} =>
              Streamed(Item) /\ Item.token /\ (txn.kind = "copy" \/ Item.at = "staged")
         /\ Item.dest = "absent" =>
              Item.at \in {"original", "staged"} /\ Item.temp = Nothing /\ ~Item.proof
         /\ Item.strategy = "move_undecided" => ~Item.token /\ Item.dest = "absent"
         /\ approved \subseteq (Items \X Object)
<1>1. /\ Item \in ItemType /\ txn.kind \in {"copy", "move"} /\ OpenTold(Item, txn.step)
      /\ Known(txn.kind, approved, meddling, Current, Item)
      /\ Filed(fs[Current], Lost(taken, Current), meddling)
      /\ approved \subseteq (Items \X Object)
  BY RunningIs, TransactionIs
<1>2. /\ fs[Current] \in [Path -> Object] /\ fs[Current]["temp"] \in Object
      /\ fs[Current]["temp"].id \in Temporary \union {"nothing"}
      /\ fs[Current]["temp"] # Nothing => fs[Current]["temp"].id \in Temporary
  BY <1>1, PathIs DEF Filed
<1>3. fs[Current]["temp"] # Nothing => Item.token /\ (txn.kind = "copy" \/ Item.at = "staged")
  <2>1. fs[Current]["temp"] # Nothing =>
          Item.token /\ (Item.strategy = "copy_stream" \/ Item.at = "staged")
    BY <1>1 DEF OpenTold, Told, HiddenTold
  <2> QED
    BY <1>1, <2>1, KnownIs
<1>4. Item.strategy = "move_undecided" => ~Item.token /\ Item.dest = "absent"
  BY <1>1 DEF Known, LocationIsValid
<1> QED
  BY <1>1, <1>2, <1>3, <1>4, KnownIs

LEMMA BeginProcessingKeeps ==
  ASSUME IInv, BeginProcessing
  PROVE  IInv'
<1> DEFINE u == [txn EXCEPT !.phase = "processing"]
<1>1. pc # "idle" /\ txn.phase = "prepared" /\ Record(u, "loop") /\ Quiet /\ UNCHANGED approved
  BY DEF BeginProcessing
<1>2. Current # 0 /\ Item.dest = "absent" /\ txn.step = "none" /\ ~txn.cancelled
  BY <1>1, PhaseIs
<1>3. txn \in Transactions
  BY <1>1, RunningIs
<1>4. /\ u \in Transactions /\ u.kind = txn.kind /\ u.items = txn.items
      /\ u.phase = "processing" /\ u.cancelled = txn.cancelled /\ u.step = txn.step
  BY <1>3, PhaseSetIs
<1> HIDE DEF u
<1>5. Made(txn, u, Current, Item)
  <2>1. Made(txn, txn, Current, Item)
    BY <1>1, <1>2, OpenSame
  <2> QED
    BY <1>4, <2>1 DEF Made
<1>6. StepIsValid(u)
  BY <1>2, <1>4 DEF StepIsValid
<1>7. OpenKnown(Item) /\ OpenTold(Item, u.step) /\ ~Ended(txn.kind, Item)
      /\ SnapshotsMatch(Item)
  BY <1>1, <1>2, <1>4, OpenSame, RunningIs
<1>8. Sound(u, approved, meddling) /\ Fits(u, fs, taken)
  BY <1>1, <1>2, <1>4, <1>5, <1>6, <1>7, OpenRecord
<1> QED
  BY <1>1, <1>8, RunningIs, LoopKeeps

(* A record of a reservation or of a stream, and what follows it.          *)
LEMMA StreamingKeeps ==
  ASSUME IInv, pc # "idle", NEW u, Sound(u, approved, meddling), Fits(u, fs, taken),
         Unfinished(u) = Current,
         NEW next \in Running, Record(u, next), Quiet, UNCHANGED approved,
         \/ next = "loop"
         \/ next = "reserve" /\ u.step = "reserve_temp"
         \/ next = "stream" /\ u.step = "stream_temp"
         \/ /\ next = "discard" /\ u.phase = "cleanup" /\ u.step = "none"
            /\ u.items[Current].dest = "temp_reserved"
  PROVE  IInv'
<1>1. RecordWith(u, next, NoCall)
  BY DEF Record
<1>2. approved' = approved /\ approved' \subseteq (Items \X Object)
  BY RunningIs
<1>3. Kept' /\ txn' = u /\ pc' = next
  BY <1>1, <1>2, WritingKeeps, NoCallIs
<1>4. Item' = u.items[Current]
  BY <1>3 DEF Item, Current
<1>5. CallIsTrue'
  BY <1>3, <1>4 DEF CallIsTrue
<1> QED
  BY <1>3, <1>5 DEF Kept, IInv

LEMMA BeginStreamKeeps ==
  ASSUME IInv, BeginStream
  PROVE  IInv'
<1>1. Processing /\ Quiet /\ UNCHANGED approved /\ Item.over # "evacuated_unexpected"
      /\ NextStep = "stream"
  BY DEF BeginStream
<1>2. /\ pc # "idle" /\ txn.phase = "processing" /\ txn.step = "none" /\ Current # 0
      /\ ~txn.cancelled /\ Plain(txn.step)
  BY <1>1, ProcessingIs DEF Plain
<1>3. /\ Streamed(Item) /\ Item.dest \in {"absent", "temp_reserved"}
      /\ txn.kind = "copy" \/ Item.at = "staged"
  BY <1>1, NextStepIs
<1>4. Item.strategy # "move_undecided"
  BY <1>3 DEF Streamed
<1>5. "reserve_temp" \in Steps /\ "stream_temp" \in Steps
  BY DEF Steps
<1>6. "reserve" \in Running /\ "stream" \in Running
  BY DEF Running
<1>7. CASE Item.dest = "absent"
  <2> DEFINE n == [Item EXCEPT !.token = TRUE]
             v == WithItem(txn, Current, n)
             u == [v EXCEPT !.step = "reserve_temp"]
  <2>1. Alike(n, Item) /\ n.token /\ n.dest = "absent" /\ n.temp = Nothing /\ ~n.proof
    BY <1>2, <1>7, OpenFacts DEF Alike, ItemType
  <2>2. Record(u, "reserve")
    BY <1>7 DEF BeginStream
  <2> HIDE DEF n
  <2>3. n \in ItemType /\ Streamed(n)
    BY <1>3, <2>1 DEF Alike, Streamed
  <2>4. Made(txn, v, Current, n) /\ v.phase = txn.phase /\ v.cancelled = txn.cancelled
    BY <1>2, <2>3, WithOpenItem
  <2> HIDE DEF v
  <2>5. /\ Made(txn, u, Current, n) /\ u.step = "reserve_temp" /\ u.phase = v.phase
        /\ u.cancelled = v.cancelled
    BY <1>5, <2>4, MadeStep
  <2> HIDE DEF u
  <2>6. Sound(u, approved, meddling) /\ Fits(u, fs, taken) /\ Unfinished(u) = Current
    BY <1>2, <1>3, <1>4, <1>7, <2>1, <2>3, <2>4, <2>5, TemporaryRecord DEF Alike
  <2> QED
    BY <1>1, <1>2, <1>6, <2>2, <2>5, <2>6, StreamingKeeps
<1>8. CASE Item.dest # "absent"
  <2> DEFINE u == [txn EXCEPT !.step = "stream_temp"]
  <2>1. Record(u, "stream")
    BY <1>8 DEF BeginStream
  <2>2. Made(txn, txn, Current, Item)
    BY <1>2, OpenSame
  <2>3. /\ Made(txn, u, Current, Item) /\ u.step = "stream_temp" /\ u.phase = txn.phase
        /\ u.cancelled = txn.cancelled
    BY <1>5, <2>2, MadeStep
  <2> HIDE DEF u
  <2>4. Item.dest = "temp_reserved"
    BY <1>3, <1>8
  <2>5. StepIsValid(u) \/ Unfinished(u) # Current \/ u.items[Current] # Item
    BY <1>3, <2>3, <2>4 DEF StepIsValid
  <2>6. OpenTold(Item, u.step)
    BY <1>2, <2>3, RunningIs, ToldAtEveryStep DEF OpenTold
  <2>7. OpenKnown(Item) /\ ~Ended(txn.kind, Item) /\ SnapshotsMatch(Item)
    BY <1>2, OpenSame, RunningIs
  <2>8. Sound(u, approved, meddling) /\ Fits(u, fs, taken) /\ Unfinished(u) = Current
    BY <1>2, <2>3, <2>5, <2>6, <2>7, OpenRecord
  <2> QED
    BY <1>1, <1>2, <1>6, <2>1, <2>3, <2>8, StreamingKeeps
<1> QED
  BY <1>7, <1>8

(* A temporary file is found and put on record, or found gone.             *)
LEMMA FoundTemporary ==
  ASSUME IInv, pc # "idle", Current # 0, txn.phase \in {"processing", "cleanup"},
         Plain(txn.step), Item.dest # "published",
         NEW n, Alike(n, Item),
         \/ /\ n.dest = "temp_reserved" /\ n.temp.id \in Temporary /\ n.token /\ ~n.proof
            /\ Item.token /\ Streamed(Item) /\ (txn.kind = "copy" \/ Item.at = "staged")
         \/ /\ n.dest = "absent" /\ n.temp = Nothing /\ ~n.proof /\ ~n.token
            /\ fs[Current]["temp"] = Nothing,
         NEW u, Made(txn, u, Current, n), u.phase \in {"processing", "cleanup"},
         u.cancelled => u.phase = "cleanup",
         u.phase = "cleanup" => u.step = "none",
         u.step = "none" \/ (u.step = "stream_temp" /\ n.dest = "temp_reserved")
  PROVE  Sound(u, approved, meddling) /\ Fits(u, fs, taken) /\ Unfinished(u) = Current
         /\ u.items[Current] = n
<1>1. n.strategy = "move_undecided" => n.dest = "absent" /\ ~n.token
  BY DEF Alike, Streamed
<1>2. n.dest = "temp_reserved" => Streamed(n)
  BY DEF Alike, Streamed
<1> QED
  BY <1>1, <1>2, TemporaryRecord

LEMMA RecoverReservationKeeps ==
  ASSUME IInv, RecoverReservation
  PROVE  IInv'
<1> DEFINE temp == fs[Current]["temp"]
<1>1. pc # "idle" /\ txn.step = "reserve_temp" /\ Quiet /\ UNCHANGED approved
  BY DEF RecoverReservation
<1>2. txn.phase = "processing" /\ Current # 0 /\ ~txn.cancelled /\ Plain(txn.step)
  BY <1>1, StepPhase DEF CleanupSteps, Plain
<1>3. /\ Item.dest = "absent" /\ Item.token /\ Streamed(Item)
      /\ txn.kind = "copy" \/ Item.at = "staged"
  <2>1. StepIsValid(txn)
    BY <1>1, RunningIs DEF Sound, Valid
  <2> QED
    BY <1>1, <2>1 DEF StepIsValid, Item, Current
<1>4. /\ temp \in Object /\ Item \in ItemType /\ Item.temp = Nothing /\ ~Item.proof
      /\ Item.strategy # "move_undecided"
      /\ Item.at = "staged" \/ txn.kind = "copy"
  BY <1>1, <1>2, <1>3, OpenFacts DEF Streamed
<1>5. CASE temp = Nothing
  <2> DEFINE n == [Item EXCEPT !.token = FALSE]
             v == WithItem(txn, Current, n)
             u == ClearActive(v)
  <2>1. Alike(n, Item) /\ n.token = FALSE /\ n.dest = "absent" /\ n.temp = Nothing /\ ~n.proof
    BY <1>3, <1>4 DEF Alike, ItemType
  <2>2. Record(u, "loop")
    BY <1>5, ObjectIs DEF RecoverReservation
  <2> HIDE DEF n
  <2>3. n \in ItemType
    BY <2>1 DEF Alike
  <2>4. Made(txn, v, Current, n) /\ v.phase = txn.phase /\ v.cancelled = txn.cancelled
    BY <1>1, <1>2, <2>3, WithOpenItem
  <2> HIDE DEF v
  <2>5. /\ Made(txn, u, Current, n) /\ u.step = "none" /\ u.phase = v.phase
        /\ u.cancelled = v.cancelled
    BY <2>4, MadeClear
  <2> HIDE DEF u
  <2>6. Sound(u, approved, meddling) /\ Fits(u, fs, taken) /\ Unfinished(u) = Current
    BY <1>1, <1>2, <1>3, <1>5, <2>1, <2>4, <2>5, FoundTemporary
  <2> QED
    BY <1>1, <1>2, <2>2, <2>5, <2>6, StreamingKeeps DEF Running
<1>6. CASE temp # Nothing /\ temp.id = "marker"
  <2> DEFINE n == [Item EXCEPT !.temp = temp, !.dest = "temp_reserved"]
             v == WithItem(txn, Current, n)
  <2>0. EnterCleanup(v)
    BY <1>6 DEF RecoverReservation
  <2> HIDE DEF temp
  <2>1. Alike(n, Item) /\ n.token = TRUE /\ n.dest = "temp_reserved" /\ n.temp = temp /\ ~n.proof
    BY <1>3, <1>4 DEF Alike, ItemType
  <2> HIDE DEF n
  <2>2. n \in ItemType
    BY <2>1 DEF Alike
  <2>3. Made(txn, v, Current, n) /\ v.step = txn.step
    BY <1>1, <1>2, <2>2, WithOpenItem
  <2> HIDE DEF v
  <2>4. n.temp.id \in Temporary
    BY <1>6, <2>1 DEF Temporary
  <2>5. OpenKnown(n)
    <3>1. Known(txn.kind, approved, meddling, Current, Item) /\ txn.kind \in {"copy", "move"}
      BY <1>1, <1>2, RunningIs, TransactionIs
    <3>2. n.strategy # "move_undecided"
      BY <1>4, <2>1 DEF Alike
    <3> QED
      BY <1>3, <2>1, <2>4, <3>1, <3>2, AlikeKnown DEF OpenKnown
  <2>6. OpenTold(n, "none")
    <3>1. OpenTold(Item, "none")
      BY <1>1, <1>2, RunningIs, PlainTold DEF OpenTold
    <3> QED
      BY <1>3, <2>1, <3>1, AlikeTold DEF OpenTold
  <2>7. SnapshotsMatch(n)
    BY <1>1, <1>2, <2>1, RunningIs, AlikeMatches
  <2> QED
    BY <1>1, <1>2, <2>0, <2>1, <2>3, <2>5, <2>6, <2>7, CleanupKeeps
<1>7. CASE temp # Nothing /\ temp.id # "marker"
  <2>1. Preserve
    BY <1>7 DEF RecoverReservation
  <2> QED
    BY <1>1, <2>1, PreserveKeeps
<1> QED
  BY <1>5, <1>6, <1>7

LEMMA RecoverStreamKeeps ==
  ASSUME IInv, RecoverStream
  PROVE  IInv'
<1> DEFINE temp == fs[Current]["temp"]
<1>1. pc # "idle" /\ txn.step = "stream_temp" /\ Quiet /\ UNCHANGED approved
  BY DEF RecoverStream
<1>2. txn.phase = "processing" /\ Current # 0 /\ ~txn.cancelled /\ Plain(txn.step)
  BY <1>1, StepPhase DEF CleanupSteps, Plain
<1>3. Item.dest = "temp_reserved" /\ Streamed(Item)
  <2>1. StepIsValid(txn)
    BY <1>1, RunningIs DEF Sound, Valid
  <2> QED
    BY <1>1, <2>1 DEF StepIsValid, Item, Current
<1>4. /\ temp \in Object /\ Item \in ItemType /\ Item.token
      /\ txn.kind = "copy" \/ Item.at = "staged"
      /\ temp # Nothing => temp.id \in Temporary
  BY <1>1, <1>2, <1>3, OpenFacts
<1>5. ~Item.proof
  BY <1>1, <1>2, <1>3, RunningIs DEF Known, ProofIsValid
<1>6. CASE temp = Nothing
  <2> DEFINE n == ClearProof(Item)
             v == WithItem(txn, Current, n)
             u == ClearActive(v)
  <2>1. Alike(n, Item) /\ n.token = FALSE /\ n.dest = "absent" /\ n.temp = Nothing /\ n.proof = FALSE
    BY <1>3, <1>4, ObjectIs DEF Alike, ItemType, ClearProof
  <2>2. Record(u, "loop")
    BY <1>6, SameIs DEF RecoverStream
  <2> HIDE DEF n
  <2>3. n \in ItemType
    BY <2>1 DEF Alike
  <2>4. Made(txn, v, Current, n) /\ v.phase = txn.phase /\ v.cancelled = txn.cancelled
    BY <1>1, <1>2, <2>3, WithOpenItem
  <2> HIDE DEF v
  <2>5. /\ Made(txn, u, Current, n) /\ u.step = "none" /\ u.phase = v.phase
        /\ u.cancelled = v.cancelled
    BY <2>4, MadeClear
  <2> HIDE DEF u
  <2>6. Sound(u, approved, meddling) /\ Fits(u, fs, taken) /\ Unfinished(u) = Current
    BY <1>1, <1>2, <1>3, <1>6, <2>1, <2>4, <2>5, FoundTemporary
  <2> QED
    BY <1>1, <1>2, <2>2, <2>5, <2>6, StreamingKeeps DEF Running
<1>7. CASE SameObject(temp, Item.temp)
  <2> DEFINE n == [Item EXCEPT !.temp = temp]
             v == WithItem(txn, Current, n)
  <2>0. Record(v, "stream") /\ temp # Nothing
    BY <1>7, SameIs DEF RecoverStream
  <2> HIDE DEF temp
  <2>1. Alike(n, Item) /\ n.token /\ n.dest = "temp_reserved" /\ n.temp = temp /\ ~n.proof
    BY <1>3, <1>4, <1>5 DEF Alike, ItemType
  <2> HIDE DEF n
  <2>2. n \in ItemType
    BY <2>1 DEF Alike
  <2>3. /\ Made(txn, v, Current, n) /\ v.step = "stream_temp" /\ v.phase = "processing"
        /\ ~v.cancelled
    BY <1>1, <1>2, <2>2, WithOpenItem
  <2> HIDE DEF v
  <2>4. Sound(v, approved, meddling) /\ Fits(v, fs, taken) /\ Unfinished(v) = Current
    BY <1>1, <1>2, <1>3, <1>4, <2>0, <2>1, <2>3, FoundTemporary
  <2> QED
    BY <1>1, <1>2, <2>0, <2>3, <2>4, StreamingKeeps DEF Running
<1>8. CASE temp # Nothing /\ ~SameObject(temp, Item.temp)
  <2>1. Preserve
    BY <1>8 DEF RecoverStream
  <2> QED
    BY <1>1, <2>1, PreserveKeeps
<1> QED
  BY <1>6, <1>7, <1>8

(* A run that stops and leaves the journal as it is.                       *)
LEMMA StopKeeps ==
  ASSUME IInv, NEW outcome \in Outcomes \ {"record_rejected"}, EndRun(outcome),
         UNCHANGED <<journal, approved>>, Quiet
  PROVE  IInv'
<1>1. UNCHANGED <<fs, far, faults, meddling, taken>>
  BY DEF Quiet, environment
<1>2. faults' \in 0..MaxFaults
  BY <1>1 DEF IInv, TypeOK
<1> QED
  BY <1>1, <1>2, SameRecords, EndKeeps

LEMMA CleanupReservationKeeps ==
  ASSUME IInv, CleanupReservation
  PROVE  IInv'
<1> DEFINE temp == fs[Current]["temp"]
<1>1. Cleaning /\ ReservationPending /\ Quiet /\ UNCHANGED approved /\ temp # Nothing
  BY DEF CleanupReservation
<1>2. /\ pc # "idle" /\ txn.phase = "cleanup" /\ txn.step = "none" /\ Current # 0
      /\ Item.dest # "published" /\ Plain(txn.step)
  BY <1>1, CleaningIs DEF Plain
<1>3. Item.dest = "absent" /\ Item.token
  BY <1>1 DEF ReservationPending
<1>4. /\ temp \in Object /\ Item \in ItemType /\ ~Item.proof
      /\ Item.strategy # "move_undecided" /\ temp.id \in Temporary
      /\ txn.kind = "copy" \/ Item.at = "staged"
  BY <1>1, <1>2, <1>3, OpenFacts
<1>5. Streamed(Item)
  BY <1>2, <1>3, <1>4, RunningIs, ItemIs DEF Known, LocationIsValid, Streamed
<1>6. CASE temp.id = "marker"
  <2> DEFINE n == [Item EXCEPT !.temp = temp, !.dest = "temp_reserved"]
             v == WithItem(txn, Current, n)
  <2>0. Record(v, "loop")
    BY <1>6 DEF CleanupReservation
  <2> HIDE DEF temp
  <2>1. Alike(n, Item) /\ n.token = TRUE /\ n.dest = "temp_reserved" /\ n.temp = temp /\ ~n.proof
    BY <1>3, <1>4 DEF Alike, ItemType
  <2> HIDE DEF n
  <2>2. n \in ItemType
    BY <2>1 DEF Alike
  <2>3. Made(txn, v, Current, n) /\ v.step = "none" /\ v.phase = "cleanup"
    BY <1>2, <2>2, WithOpenItem
  <2> HIDE DEF v
  <2>5. Sound(v, approved, meddling) /\ Fits(v, fs, taken) /\ Unfinished(v) = Current
    BY <1>1, <1>2, <1>3, <1>4, <1>5, <2>1, <2>3, FoundTemporary
  <2> QED
    BY <1>1, <1>2, <2>0, <2>3, <2>5, StreamingKeeps DEF Running
<1>7. CASE temp.id # "marker"
  <2>1. EndRun("recovery_required") /\ UNCHANGED journal
    BY <1>7 DEF CleanupReservation
  <2>2. "recovery_required" \in Outcomes \ {"record_rejected"}
    BY DEF Outcomes
  <2> QED
    BY <1>1, <2>1, <2>2, StopKeeps
<1> QED
  BY <1>6, <1>7

LEMMA CleanupTemporaryKeeps ==
  ASSUME IInv, CleanupTemporary
  PROVE  IInv'
<1> DEFINE temp == fs[Current]["temp"]
<1>1. Cleaning /\ TemporaryRecorded /\ Quiet /\ UNCHANGED approved
  BY DEF CleanupTemporary
<1>2. /\ pc # "idle" /\ txn.phase = "cleanup" /\ txn.step = "none" /\ Current # 0
      /\ Item.dest # "published" /\ Plain(txn.step)
  BY <1>1, CleaningIs DEF Plain
<1>3. Item.dest \in {"temp_reserved", "content_ready"}
  BY <1>1 DEF TemporaryRecorded
<1>4. /\ temp \in Object /\ Item \in ItemType /\ Item.token /\ Streamed(Item)
      /\ temp # Nothing => temp.id \in Temporary
      /\ txn.kind = "copy" \/ Item.at = "staged"
  BY <1>2, <1>3, OpenFacts
<1>5. CASE temp = Nothing
  <2> DEFINE n == ClearProof(Item)
             v == WithItem(txn, Current, n)
  <2>1. Alike(n, Item) /\ n.token = FALSE /\ n.dest = "absent" /\ n.temp = Nothing /\ n.proof = FALSE
    BY <1>4, ObjectIs DEF Alike, ItemType, ClearProof
  <2>2. Record(v, "loop")
    BY <1>5, SameIs DEF CleanupTemporary
  <2> HIDE DEF n
  <2>3. n \in ItemType
    BY <2>1 DEF Alike
  <2>4. Made(txn, v, Current, n) /\ v.phase = "cleanup" /\ v.step = "none"
    BY <1>2, <2>3, WithOpenItem
  <2> HIDE DEF v
  <2>6. Sound(v, approved, meddling) /\ Fits(v, fs, taken) /\ Unfinished(v) = Current
    BY <1>2, <1>5, <2>1, <2>4, FoundTemporary
  <2> QED
    BY <1>1, <1>2, <2>2, <2>4, <2>6, StreamingKeeps DEF Running
<1>6. CASE SameObject(temp, Item.temp)
  <2> DEFINE n == [Item EXCEPT !.temp = temp, !.proof = FALSE, !.dest = "temp_reserved"]
             v == WithItem(txn, Current, n)
  <2>0. Record(v, "discard") /\ temp # Nothing
    BY <1>6, SameIs DEF CleanupTemporary
  <2> HIDE DEF temp
  <2>1. /\ Alike(n, Item) /\ n.token = Item.token /\ n.dest = "temp_reserved" /\ n.temp = temp
        /\ n.proof = FALSE
    BY <1>4 DEF Alike, ItemType
  <2> HIDE DEF n
  <2>2. n \in ItemType
    BY <2>1 DEF Alike
  <2>3. Made(txn, v, Current, n) /\ v.step = "none" /\ v.phase = "cleanup"
    BY <1>2, <2>2, WithOpenItem
  <2> HIDE DEF v
  <2>4. /\ Sound(v, approved, meddling) /\ Fits(v, fs, taken) /\ Unfinished(v) = Current
        /\ v.items[Current] = n
    BY <1>2, <1>4, <2>0, <2>1, <2>3, FoundTemporary
  <2> QED
    BY <1>1, <1>2, <2>0, <2>1, <2>3, <2>4, StreamingKeeps DEF Running
<1>7. CASE temp # Nothing /\ ~SameObject(temp, Item.temp)
  <2>1. EndRun("recovery_required") /\ UNCHANGED journal
    BY <1>7 DEF CleanupTemporary
  <2>2. "recovery_required" \in Outcomes \ {"record_rejected"}
    BY DEF Outcomes
  <2> QED
    BY <1>1, <2>1, <2>2, StopKeeps
<1> QED
  BY <1>5, <1>6, <1>7

LEMMA ReservationIsTrue ==
  ASSUME IInv, pc = "commit"
  PROVE  /\ Sound(Reservation, approved, meddling) /\ Fits(Reservation, fs, taken)
         /\ Unfinished(Reservation) = Current /\ Reservation.step = "stream_temp"
         /\ Reservation.items[Current].dest = "temp_reserved"
         /\ Reservation.kind = txn.kind /\ Current # 0
<1> DEFINE temp == fs[Current]["temp"]
           n == [Item EXCEPT !.temp = temp, !.dest = "temp_reserved"]
           v == WithItem(txn, Current, n)
           u == [v EXCEPT !.step = "stream_temp"]
<1>1. pc = "commit" /\ Reservation = u
  BY DEF Reservation
<1>2. txn.step = "reserve_temp" /\ temp = File("marker", 0)
  BY <1>1 DEF IInv, CallIsTrue
<1>3. txn.phase = "processing" /\ Current # 0 /\ ~txn.cancelled /\ Plain(txn.step) /\ pc # "idle"
  BY <1>1, <1>2, StepPhase DEF CleanupSteps, Plain
<1>4. /\ Item.dest = "absent" /\ Item.token /\ Streamed(Item)
      /\ txn.kind = "copy" \/ Item.at = "staged"
  <2>1. StepIsValid(txn)
    BY <1>3, RunningIs DEF Sound, Valid
  <2> QED
    BY <1>2, <2>1 DEF StepIsValid, Item, Current
<1>5. /\ temp \in Object /\ Item \in ItemType /\ ~Item.proof /\ temp.id \in Temporary
  BY <1>2, <1>3, <1>4, OpenFacts, ObjectIs DEF Temporary
<1> HIDE DEF temp
<1>6. Alike(n, Item) /\ n.token = Item.token /\ n.dest = "temp_reserved" /\ n.temp = temp /\ ~n.proof
  BY <1>5 DEF Alike, ItemType
<1> HIDE DEF n
<1>7. n \in ItemType
  BY <1>6 DEF Alike
<1>8. Made(txn, v, Current, n) /\ v.phase = txn.phase /\ v.cancelled = txn.cancelled
  BY <1>3, <1>7, WithOpenItem
<1> HIDE DEF v
<1>9. Made(txn, u, Current, n) /\ u.step = "stream_temp" /\ u.phase = v.phase
      /\ u.cancelled = v.cancelled
  <2>1. "stream_temp" \in Steps
    BY DEF Steps
  <2> QED
    BY <1>8, <2>1, MadeStep
<1> HIDE DEF u
<1>10. Sound(u, approved, meddling) /\ Fits(u, fs, taken) /\ Unfinished(u) = Current
       /\ u.items[Current] = n
  <2>1. pc # "idle" /\ txn.phase \in {"processing", "cleanup"} /\ Item.dest # "published"
    BY <1>3, <1>4
  <2>2. /\ n.dest = "temp_reserved" /\ n.temp.id \in Temporary /\ n.token /\ ~n.proof
        /\ Item.token /\ Streamed(Item) /\ (txn.kind = "copy" \/ Item.at = "staged")
    BY <1>4, <1>5, <1>6
  <2>3. /\ u.phase \in {"processing", "cleanup"} /\ (u.cancelled => u.phase = "cleanup")
        /\ (u.phase = "cleanup" => u.step = "none")
        /\ (u.step = "none" \/ (u.step = "stream_temp" /\ n.dest = "temp_reserved"))
    BY <1>3, <1>8, <1>9, <2>2
  <2>4. Alike(n, Item) /\ Made(txn, u, Current, n) /\ Current # 0 /\ Plain(txn.step)
    BY <1>3, <1>6, <1>9
  <2> QED
    BY <2>1, <2>2, <2>3, <2>4, FoundTemporary
<1> QED
  BY <1>1, <1>3, <1>6, <1>9, <1>10 DEF Made

LEMMA CommitReservationKeeps ==
  ASSUME IInv, CommitReservation
  PROVE  IInv'
<1>1. pc = "commit" /\ Record(Reservation, "stream") /\ Quiet /\ UNCHANGED approved
  BY DEF CommitReservation
<1>2. /\ Sound(Reservation, approved, meddling) /\ Fits(Reservation, fs, taken)
      /\ Unfinished(Reservation) = Current /\ Reservation.step = "stream_temp"
  BY <1>1, ReservationIsTrue
<1> DEFINE u == Reservation
<1>3. /\ Record(u, "stream") /\ Sound(u, approved, meddling) /\ Fits(u, fs, taken)
      /\ Unfinished(u) = Current /\ u.step = "stream_temp"
  BY <1>1, <1>2
<1> HIDE DEF u
<1> QED
  BY <1>1, <1>3, StreamingKeeps DEF Running

LEMMA RecordStreamKeeps ==
  ASSUME IInv, RecordStream
  PROVE  IInv'
<1> DEFINE n == [Item EXCEPT !.temp = call.object, !.proof = TRUE, !.dest = "content_ready"]
           v == WithItem(txn, Current, n)
           u == ClearActive(v)
<1>1. pc = "streamed" /\ Record(u, "loop") /\ Quiet /\ UNCHANGED approved
      /\ call.verdict = "committed"
  BY DEF RecordStream, StreamAnswer
<1>2. txn.step = "stream_temp" /\ call.object = File("whole", Item.source.data)
  BY <1>1 DEF IInv, CallIsTrue
<1>3. txn.phase = "processing" /\ Current # 0 /\ ~txn.cancelled /\ Plain(txn.step) /\ pc # "idle"
  BY <1>1, <1>2, StepPhase DEF CleanupSteps, Plain
<1>4. Item.dest = "temp_reserved" /\ Streamed(Item)
  <2>1. StepIsValid(txn)
    BY <1>3, RunningIs DEF Sound, Valid
  <2> QED
    BY <1>2, <2>1 DEF StepIsValid, Item, Current
<1>5. /\ Item \in ItemType /\ call.object \in Object /\ Item.token
      /\ txn.kind = "copy" \/ Item.at = "staged"
  BY <1>3, <1>4, OpenFacts DEF IInv, TypeOK
<1>6. /\ Alike(n, Item) /\ n.token = Item.token /\ n.dest = "content_ready"
      /\ n.temp = call.object /\ n.proof = TRUE
  BY <1>5 DEF Alike, ItemType
<1> HIDE DEF n
<1>7. n \in ItemType /\ n.strategy # "move_undecided"
  BY <1>4, <1>6 DEF Alike, Streamed
<1>8. Made(txn, v, Current, n) /\ v.phase = txn.phase /\ v.cancelled = txn.cancelled
  BY <1>3, <1>7, WithOpenItem
<1> HIDE DEF v
<1>9. Made(txn, u, Current, n) /\ u.step = "none" /\ u.phase = v.phase
      /\ u.cancelled = v.cancelled
  BY <1>8, MadeClear
<1> HIDE DEF u
<1>10. /\ n.temp.id = "whole" /\ n.source.data <= n.temp.data /\ n.temp.id \in Temporary
       /\ n.temp.size = "same"
  <2>1. n.source = Item.source /\ Item.source \in Object
    BY <1>5, <1>6, ItemIs DEF Alike
  <2>2. Item.source.data \in Nat
    BY <2>1, ObjectIs
  <2> QED
    BY <1>2, <1>6, <2>1, <2>2, ObjectIs DEF Temporary
<1>11. Sound(u, approved, meddling) /\ Fits(u, fs, taken) /\ Unfinished(u) = Current
  <2>1. pc # "idle" /\ txn.phase \in {"processing", "cleanup"} /\ Item.dest # "published"
    BY <1>3, <1>4
  <2>2. /\ n.dest = "content_ready" /\ n.temp.id \in Temporary /\ n.token /\ n.proof
        /\ n.temp.id = "whole" /\ n.source.data <= n.temp.data /\ n.temp.size = "same"
        /\ n.strategy # "move_undecided" /\ (txn.kind = "copy" \/ Item.at = "staged")
    BY <1>5, <1>6, <1>7, <1>10
  <2>3. u.phase = "processing" /\ ~u.cancelled /\ u.step = "none"
    BY <1>3, <1>8, <1>9
  <2>4. Alike(n, Item) /\ Made(txn, u, Current, n) /\ Current # 0 /\ Plain(txn.step)
    BY <1>3, <1>6, <1>9
  <2> QED
    BY <2>1, <2>2, <2>3, <2>4, TemporaryRecord
<1> QED
  BY <1>1, <1>3, <1>9, <1>11, StreamingKeeps DEF Running

LEMMA StepTakenBack ==
  ASSUME IInv, pc # "idle", Current # 0, Plain(txn.step)
  PROVE  OpenTold(Item, "none")
BY RunningIs, PlainTold DEF OpenTold

LEMMA FailStreamKeeps ==
  ASSUME IInv, FailStream
  PROVE  IInv'
<1>1. pc = "streamed" /\ EnterCleanup(txn) /\ Quiet /\ UNCHANGED approved
  BY DEF FailStream, StreamAnswer
<1>2. txn.step \in {"reserve_temp", "stream_temp"}
  BY <1>1 DEF IInv, CallIsTrue
<1>3. txn.phase = "processing" /\ Current # 0 /\ Plain(txn.step) /\ pc # "idle"
  BY <1>1, <1>2, StepPhase DEF CleanupSteps, Plain
<1>4. Item.dest # "published"
  <2>1. StepIsValid(txn)
    BY <1>3, RunningIs DEF Sound, Valid
  <2> QED
    BY <1>2, <2>1 DEF StepIsValid, Item, Current
<1> QED
  BY <1>1, <1>3, <1>4, OpenSame, StepTakenBack, CleanupKeeps

LEMMA PreserveStreamKeeps ==
  ASSUME IInv, PreserveStream
  PROVE  IInv'
BY PreserveKeeps DEF PreserveStream, StreamAnswer

LEMMA GotoKeeps ==
  ASSUME IInv, pc # "idle", txn = journal.current, NEW next \in Running, NEW c, CallOK(c),
         Goto(next, c), UNCHANGED <<journal, approved>>, Quiet
  PROVE  Kept' /\ pc' = next /\ call' = c /\ UNCHANGED <<txn, fs, taken, meddling, approved>>
<1>1. UNCHANGED <<fs, far, faults, meddling, taken, txn, report>> /\ pc' = next /\ call' = c
  BY DEF Quiet, environment, Goto
<1>2. TypeOK'
  BY <1>1 DEF IInv, TypeOK, CallOK, Asked, Running
<1>3. RecordsAreTrue'
  BY <1>1, SameRecords
<1>4. pc' # "idle"
  BY <1>1 DEF Running
<1>5. FilesAreKnown' /\ Started'
  BY <1>1, <1>4 DEF IInv, FilesAreKnown, Started
<1>6. WorkerFollows'
  BY <1>1, <1>4 DEF IInv, WorkerFollows
<1>7. RefusalIsExcused'
  BY <1>4 DEF RefusalIsExcused
<1> QED
  BY <1>1, <1>2, <1>3, <1>5, <1>6, <1>7 DEF Kept

LEMMA RecoverStepKeeps ==
  ASSUME IInv, RecoverStep
  PROVE  IInv'
<1> DEFINE c == [NoCall EXCEPT !.recovering = TRUE]
<1>1. pc = "loop" /\ txn.step \in RenameSteps \union DeleteSteps /\ Goto("reconcile", c)
      /\ Quiet /\ UNCHANGED <<journal, approved>>
  BY DEF RecoverStep
<1>2. c.recovering = TRUE /\ c.verdict = "none" /\ c.object = Nothing /\ c.asked = NoCall.asked
  BY DEF NoCall
<1>2a. c \in {NoCall, [NoCall EXCEPT !.recovering = TRUE]}
  OBVIOUS
<1> HIDE DEF c
<1>3. CallOK(c)
  BY <1>2, NoCallIs DEF CallOK
<1>4. Kept' /\ pc' = "reconcile" /\ txn' = txn /\ call' = c
  BY <1>1, <1>3, GotoKeeps DEF IInv, WorkerFollows, Running
<1>5. CallIsTrue'
  <2>1. call' \in {NoCall, [NoCall EXCEPT !.recovering = TRUE]}
    BY <1>2a, <1>4
  <2> QED
    BY <1>1, <1>4, <2>1 DEF CallIsTrue
<1> QED
  BY <1>4, <1>5 DEF Kept, IInv

-----------------------------------------------------------------------------
(* Questions to the user.                                                  *)

(* Several items change that are not published, between two steps.         *)
LEMMA ManyKept ==
  ASSUME NEW t, NEW granted, NEW edits, Sound(t, granted, edits), t.step = "none",
         NEW u \in Transactions, u.kind = t.kind, u.phase = t.phase, u.step = "none",
         u.cancelled = t.cancelled, NEW more,
         \A i \in Items : Known(t.kind, more, edits, i, u.items[i]),
         \A i \in Items :
           \/ u.items[i] = t.items[i]
           \/ /\ t.items[i].dest # "published" /\ u.items[i].dest # "published"
              /\ Pristine(t.items[i]) => Pristine(u.items[i])
              /\ SnapshotsMatch(u.items[i])
  PROVE  Sound(u, more, edits) /\ Unfinished(u) = Unfinished(t)
<1>1. \A i \in Items : Final(u, i) <=> Final(t, i)
  BY EndedIsFinal DEF Ended
<1>2. Unfinished(u) = Unfinished(t)
  <2>1. CASE \A i \in Items : Final(t, i)
    BY <1>1, <2>1 DEF Unfinished
  <2>2. CASE ~\A i \in Items : Final(t, i)
    <3>1. Unfinished(t) \in Items /\ ~Final(t, Unfinished(t))
          /\ \A j \in Items : j < Unfinished(t) => Final(t, j)
      BY <2>2, OpenIs
    <3> DEFINE i == Unfinished(t)
    <3>2. i \in Items /\ ~Final(u, i) /\ \A j \in Items : j < i => Final(u, j)
      BY <1>1, <3>1
    <3> HIDE DEF i
    <3>3. Unfinished(u) = i
      BY <3>2, OpenIsThe
    <3> QED
      BY <3>3 DEF i
  <2> QED
    BY <2>1, <2>2
<1>3. StepIsValid(u)
  BY DEF StepIsValid
<1>4. ASSUME NEW i \in Items
      PROVE  /\ u.phase = "cleanup" /\ u.items[i].dest = "published" => Final(u, i)
             /\ Final(u, i) \/ i <= Unfinished(u) \/ Pristine(u.items[i])
             /\ Final(u, i) => Unfinished(u) = 0 \/ i < Unfinished(u)
             /\ u.phase = "prepared" => Pristine(u.items[i])
  BY <1>1, <1>2, SoundIs
<1>5. u.phase = "completed" <=> Unfinished(u) = 0
  BY <1>2, SoundIs
<1>6. u.cancelled => u.phase = "cleanup"
  BY SoundIs
<1>6a. \A i \in Items : SnapshotsMatch(u.items[i])
  BY SoundIs
<1>7. Valid(u)
  BY <1>3, <1>4, <1>5, <1>6, <1>6a DEF Valid, Known
<1> QED
  BY <1>2, <1>7 DEF Sound

(* What is in the way of a file that has not been delivered is another's.  *)
LEMMA InTheWay ==
  ASSUME NEW f, NEW lost, NEW edits, Filed(f, lost, edits), NEW it \in ItemType,
         Told(f, lost, it, "none"), it.dest # "published", it.at \in {"original", "staged"},
         f[it.to] # Nothing
  PROVE  f[it.to].id \in {"dst", "other"}
<1> DEFINE p == it.to
<1>1. p \in Path /\ p \in {"destination", "copy"}
  BY ItemIs
<1>2. f[p] \in Object /\ f[p].id # "nothing"
  BY <1>1 DEF Filed
<1>3. f[p].id \notin Temporary
  BY <1>1 DEF Told, CopyTold, Publishes
<1>4. f[p].id # "src"
  <2> SUFFICES ASSUME f[p].id = "src" PROVE FALSE
    OBVIOUS
  <2>1. "src" \notin lost /\ \A q \in Path : f[q].id = "src" => q = p
    BY <1>1 DEF Filed
  <2>2. f["source"].id # "src" /\ f["staged"].id # "src"
    BY <1>1, <2>1, PathIs
  <2> QED
    BY <2>1, <2>2 DEF Told, SourceTold
<1> QED
  BY <1>2, <1>3, <1>4, ObjectIs DEF Temporary

(* The worker waits for the user.                                          *)
LEMMA AskKeeps ==
  ASSUME IInv, pc # "idle", NEW u, Sound(u, approved, meddling), Fits(u, fs, taken),
         u.step = "none", u.phase \in {"prepared", "processing"},
         u.items = txn.items, Unfinished(u) = Current, Current # 0, Item.dest # "published",
         NEW asked \in SUBSET Items, NEW c,
         c = [NoCall EXCEPT !.asked = [i \in asked |-> fs[i][u.items[i].to]]],
         RecordWith(u, "ask", c), Quiet, UNCHANGED approved,
         \A i \in asked :
           /\ u.items[i].auth = Nothing /\ u.items[i].dest # "published"
           /\ fs[i][u.items[i].to].id \in {"dst", "other"}
  PROVE  IInv'
<1> DEFINE answers == [i \in asked |-> fs[i][u.items[i].to]]
<1>0. c.asked = answers /\ c.recovering = FALSE /\ c.verdict = "none" /\ c.object = Nothing
  BY DEF NoCall
<1>1. DOMAIN answers = asked /\ \A i \in asked : answers[i] = fs[i][u.items[i].to]
  OBVIOUS
<1> HIDE DEF answers
<1>2. \A i \in asked : fs[i][u.items[i].to] \in Object
  <2>1. \A i \in Items : u.items[i].to \in Path
    BY ItemIs DEF Sound, Known
  <2> QED
    BY <2>1 DEF IInv, TypeOK
<1>3. CallOK(c)
  <2>1. DOMAIN c.asked \subseteq Items
    BY <1>0, <1>1
  <2>2. \A i \in DOMAIN c.asked : c.asked[i] \in Object
    BY <1>0, <1>1, <1>2
  <2>3. c.recovering \in BOOLEAN /\ c.verdict \in Verdicts /\ c.object \in Object
    BY <1>0, ObjectIs DEF Verdicts
  <2> QED
    BY <2>1, <2>2, <2>3 DEF CallOK
<1>4. Kept' /\ txn' = u /\ pc' = "ask" /\ call' = c
  <2>1. approved' = approved /\ approved' \subseteq (Items \X Object)
    BY RunningIs
  <2> QED
    BY <1>3, <2>1, WritingKeeps DEF Running
<1>5. Asked' = asked
  BY <1>0, <1>1, <1>4 DEF Asked
<1>6. Item' = Item
  BY <1>4 DEF Item, Current
<1>7. AskIsTrue'
  BY <1>0, <1>1, <1>4, <1>5, <1>6 DEF AskIsTrue
<1>8. CallIsTrue'
  BY <1>4, <1>7 DEF CallIsTrue
<1> QED
  BY <1>4, <1>8 DEF Kept, IInv

LEMMA ClearedSame ==
  ASSUME NEW t \in Transactions, t.step = "none"
  PROVE  ClearActive(t) = t
BY DEF Transactions, ClearActive

LEMMA InitialConflictsKeeps ==
  ASSUME IInv, InitialConflicts
  PROVE  IInv'
<1> DEFINE asked == {i \in Items : Unapproved(i) /\ Conflicts(i, "source", txn.items[i].source)}
<1>1. pc = "initial" /\ pc # "idle" /\ Quiet /\ UNCHANGED approved /\ txn.phase = "prepared"
  BY DEF InitialConflicts, IInv, CallIsTrue
<1>2. Current # 0 /\ Item.dest = "absent" /\ txn.step = "none"
  BY <1>1, PhaseIs
<1>3. Sound(txn, approved, meddling) /\ Fits(txn, fs, taken) /\ txn \in Transactions
  BY <1>1, RunningIs
<1>4. CASE Goto("loop", NoCall) /\ UNCHANGED journal
  <2>1. txn = journal.current
    BY <1>1 DEF IInv, WorkerFollows
  <2>2. Kept' /\ pc' = "loop"
    BY <1>1, <1>4, <2>1, GotoKeeps, NoCallIs DEF Running
  <2> QED
    BY <2>2 DEF CallIsTrue, Kept, IInv
<1>5. CASE RecordWith(ClearActive(txn), "ask",
              [NoCall EXCEPT !.asked = [i \in asked |-> fs[i][txn.items[i].to]]])
  <2>1. ClearActive(txn) = txn
    BY <1>2, <1>3, ClearedSame
  <2> DEFINE c == [NoCall EXCEPT !.asked = [i \in asked |-> fs[i][txn.items[i].to]]]
  <2>2. RecordWith(txn, "ask", c)
    BY <1>5, <2>1
  <2>3. ASSUME NEW i \in asked
        PROVE  /\ txn.items[i].auth = Nothing /\ txn.items[i].dest # "published"
               /\ fs[i][txn.items[i].to].id \in {"dst", "other"}
    <3>1. i \in Items /\ txn.items[i].auth = Nothing /\ fs[i][txn.items[i].to] # Nothing
      BY DEF Unapproved, Conflicts
    <3>2. Pristine(txn.items[i])
      BY <1>1, <1>3, <3>1, SoundIs
    <3>3. txn.items[i].at = "original" /\ txn.items[i].dest = "absent"
      BY <3>2 DEF Pristine
    <3>4. Told(fs[i], Lost(taken, i), txn.items[i], "none")
      <4>1. StepOf(txn, i) = "none"
        BY <1>2 DEF StepOf
      <4> QED
        BY <1>3, <3>1, <4>1 DEF Fits
    <3>5. Filed(fs[i], Lost(taken, i), meddling) /\ txn.items[i] \in ItemType
      BY <1>3, <3>1, TransactionIs DEF IInv, FilesAreKnown
    <3> QED
      BY <3>1, <3>3, <3>4, <3>5, InTheWay
  <2>4. asked \in SUBSET Items
    OBVIOUS
  <2>5. Unfinished(txn) = Current
    BY DEF Current
  <2> HIDE DEF asked
  <2>6. c = [NoCall EXCEPT !.asked = [i \in asked |-> fs[i][txn.items[i].to]]]
    OBVIOUS
  <2> HIDE DEF c
  <2> QED
    BY <1>1, <1>2, <1>3, <2>2, <2>3, <2>4, <2>5, <2>6, AskKeeps
<1> QED
  BY <1>4, <1>5 DEF InitialConflicts

LEMMA AskedIs ==
  ASSUME IInv, pc = "ask"
  PROVE  /\ AskIsTrue /\ pc # "idle" /\ Current # 0 /\ ~txn.cancelled
         /\ Sound(txn, approved, meddling) /\ Fits(txn, fs, taken) /\ txn \in Transactions
         /\ Asked \subseteq Items /\ \A i \in Asked : call.asked[i] \in Object
         /\ \A i \in Items : Known(txn.kind, approved, meddling, i, txn.items[i])
                             /\ txn.items[i] \in ItemType /\ SnapshotsMatch(txn.items[i])
                             /\ Told(fs[i], Lost(taken, i), txn.items[i], "none")
<1>1. AskIsTrue /\ pc # "idle"
  BY DEF IInv, CallIsTrue
<1>2. Current # 0 /\ ~txn.cancelled
  BY <1>1, PhaseIs DEF AskIsTrue
<1>3. Sound(txn, approved, meddling) /\ Fits(txn, fs, taken) /\ txn \in Transactions
  BY <1>1, RunningIs
<1>4. Asked \subseteq Items /\ \A i \in Asked : call.asked[i] \in Object
  BY DEF IInv, TypeOK
<1>5. ASSUME NEW i \in Items
      PROVE  Told(fs[i], Lost(taken, i), txn.items[i], "none")
  <2>1. StepOf(txn, i) = "none"
    BY <1>1 DEF StepOf, AskIsTrue
  <2> QED
    BY <1>3, <2>1 DEF Fits
<1> QED
  BY <1>1, <1>2, <1>3, <1>4, <1>5, SoundIs, TransactionIs DEF Sound

(* The answer is recorded for the items that were asked about.             *)
LEMMA DecisionKeeps ==
  ASSUME IInv, pc = "ask", NEW change,
         NEW u, u = [txn EXCEPT !.items = change],
         change \in [Items -> ItemType],
         \A i \in Items \ Asked : change[i] = txn.items[i],
         \A i \in Asked :
           /\ change[i].dest # "published"
           /\ Pristine(txn.items[i]) => Pristine(change[i])
           /\ SnapshotsMatch(change[i])
           /\ Known(txn.kind, approved', meddling, i, change[i])
           /\ Told(fs[i], Lost(taken, i), change[i], "none"),
         approved \subseteq approved', approved' \subseteq (Items \X Object),
         Record(u, "loop"), Quiet
  PROVE  IInv'
<1>1. u \in Transactions /\ u.kind = txn.kind /\ u.phase = txn.phase /\ u.step = txn.step
      /\ u.cancelled = txn.cancelled /\ u.items = change
  BY AskedIs DEF Transactions
<1>2. u.step = "none" /\ txn.step = "none"
  BY <1>1, AskedIs DEF AskIsTrue
<1>3. \A i \in Items : Known(txn.kind, approved', meddling, i, u.items[i])
  <2>1. ASSUME NEW i \in Items \ Asked
        PROVE  Known(txn.kind, approved', meddling, i, u.items[i])
    BY <1>1, <2>1, AskedIs DEF Known
  <2> QED
    BY <1>1, <2>1
<1>4. \A i \in Items :
        \/ u.items[i] = txn.items[i]
        \/ /\ txn.items[i].dest # "published" /\ u.items[i].dest # "published"
           /\ Pristine(txn.items[i]) => Pristine(u.items[i])
           /\ SnapshotsMatch(u.items[i])
  BY <1>1, AskedIs DEF AskIsTrue
<1>5. Sound(txn, approved, meddling)
  BY AskedIs
<1>6. Sound(u, approved', meddling)
  BY <1>1, <1>2, <1>3, <1>4, <1>5, ManyKept
<1>7. Fits(u, fs, taken)
  <2>1. \A i \in Items : Told(fs[i], Lost(taken, i), u.items[i], "none")
    BY <1>1, AskedIs
  <2>2. \A i \in Items : StepOf(u, i) = "none"
    BY <1>2 DEF StepOf
  <2> QED
    BY <2>1, <2>2 DEF Fits
<1> QED
  BY <1>6, <1>7, LoopKeeps

LEMMA DecideOverwriteKeeps ==
  ASSUME IInv, DecideOverwrite
  PROVE  IInv'
<1> DEFINE Authorized(i) == [txn.items[i] EXCEPT !.auth = call.asked[i], !.over = "authorized"]
           change == [i \in Items |-> IF i \in Asked THEN Authorized(i) ELSE txn.items[i]]
           u == [txn EXCEPT !.items = change]
<1>1. pc = "ask" /\ Record(u, "loop") /\ Quiet
      /\ approved' = approved \union {<<i, call.asked[i]>> : i \in Asked}
  BY DEF DecideOverwrite
<1>2. \A i \in Items \ Asked : change[i] = txn.items[i]
  OBVIOUS
<1>3. \A i \in Asked : change[i] = Authorized(i)
  BY <1>1, AskedIs
<1>4. ASSUME NEW i \in Asked
      PROVE  /\ Authorized(i) \in ItemType
             /\ Authorized(i).dest # "published"
             /\ Pristine(txn.items[i]) => Pristine(Authorized(i))
             /\ SnapshotsMatch(Authorized(i))
             /\ Known(txn.kind, approved', meddling, i, Authorized(i))
             /\ Told(fs[i], Lost(taken, i), Authorized(i), "none")
  <2> DEFINE it == txn.items[i]
             n == Authorized(i)
             o == call.asked[i]
  <2>1. /\ it \in ItemType /\ o \in Object /\ it.auth = Nothing /\ it.dest # "published"
        /\ o.id \in {"dst", "other"} /\ Known(txn.kind, approved, meddling, i, it)
        /\ Told(fs[i], Lost(taken, i), it, "none") /\ i \in Items
        /\ txn.kind \in {"copy", "move"}
    BY <1>1, AskedIs, TransactionIs DEF AskIsTrue
  <2>2. <<i, o>> \in approved'
    BY <1>1
  <2> HIDE DEF it, o
  <2>3. /\ n \in ItemType /\ n.auth = o /\ n.over = "authorized" /\ n.strategy = it.strategy
        /\ n.at = it.at /\ n.dest = it.dest /\ n.token = it.token /\ n.to = it.to
        /\ n.source = it.source /\ n.temp = it.temp /\ n.proof = it.proof
        /\ n.backup = it.backup
    <3>1. n = [it EXCEPT !.auth = o, !.over = "authorized"]
      BY DEF it, o
    <3> HIDE DEF n
    <3> QED
      BY <2>1, <3>1 DEF ItemType
  <2> HIDE DEF n
  <2>4. it.over = "none" /\ it.backup = Nothing
    BY <2>1, KnownIs
  <2>5. Pristine(it) => Pristine(n)
    BY <2>3 DEF Pristine
  <2>6. Known(txn.kind, approved', meddling, i, n)
    <3>1. OverwriteIsValid(n)
      <4>1. o # Nothing
        BY <2>1, ObjectIs
      <4> QED
        BY <2>3, <2>4, <4>1 DEF OverwriteIsValid
    <3>2. LocationIsValid(txn.kind, n)
      BY <2>1, <2>3 DEF Known, LocationIsValid
    <3>3. ProofIsValid(n)
      BY <2>1, <2>3 DEF Known, ProofIsValid, Streamed
    <3> QED
      BY <2>1, <2>2, <2>3, <3>1, <3>2, <3>3 DEF Known, Streamed
  <2>7. Told(fs[i], Lost(taken, i), n, "none")
    <3>1. HiddenTold(fs[i], n, "none")
      <4>1. fs[i]["backup"] = Nothing
        BY <2>1, <2>4 DEF Told, HiddenTold
      <4> QED
        BY <2>1, <2>3, <4>1 DEF Told, HiddenTold
    <3>2. CopyTold(fs[i], Lost(taken, i), n, "none")
      BY <2>1, <2>3 DEF Told, CopyTold, Publishes
    <3>3. SourceTold(fs[i], Lost(taken, i), n, "none")
      BY <2>1, <2>3 DEF Told, SourceTold
    <3> QED
      BY <2>1, <2>3, <3>1, <3>2, <3>3 DEF Told
  <2>8. SnapshotsMatch(n)
    <3>1. SnapshotsMatch(it)
      BY <1>1, <2>1, AskedIs DEF it
    <3> QED
      BY <2>3, <3>1, MatchesLike
  <2> QED
    BY <2>1, <2>3, <2>5, <2>6, <2>7, <2>8 DEF n, it
<1>5. change \in [Items -> ItemType]
  <2>1. \A i \in Items : change[i] \in ItemType
    BY <1>1, <1>3, <1>4, AskedIs
  <2> QED
    BY <2>1
<1>6. approved \subseteq approved' /\ approved' \subseteq (Items \X Object)
  <2>1. approved \subseteq (Items \X Object)
    BY <1>1, AskedIs, RunningIs
  <2>2. \A i \in Asked : i \in Items /\ call.asked[i] \in Object
    BY <1>1, AskedIs
  <2>3. \A i \in Asked : <<i, call.asked[i]>> \in Items \X Object
    BY <2>2
  <2>4. {<<i, call.asked[i]>> : i \in Asked} \subseteq (Items \X Object)
    BY <2>3
  <2> QED
    BY ONLY <1>1, <2>1, <2>4
<1>7. \A i \in Asked :
        /\ change[i].dest # "published"
        /\ Pristine(txn.items[i]) => Pristine(change[i])
        /\ SnapshotsMatch(change[i])
        /\ Known(txn.kind, approved', meddling, i, change[i])
        /\ Told(fs[i], Lost(taken, i), change[i], "none")
  BY <1>3, <1>4
<1>8. u = [txn EXCEPT !.items = change]
  OBVIOUS
<1> HIDE DEF change, u
<1> QED
  BY <1>1, <1>2, <1>5, <1>6, <1>7, <1>8, DecisionKeeps

LEMMA DecideCreateCopyKeeps ==
  ASSUME IInv, DecideCreateCopy
  PROVE  IInv'
<1> DEFINE Renamed(i) == [ClearOverwrite(txn.items[i]) EXCEPT !.to = "copy"]
           change == [i \in Items |-> IF i \in Asked THEN Renamed(i) ELSE txn.items[i]]
           u == [txn EXCEPT !.items = change]
<1>1. pc = "ask" /\ Record(u, "loop") /\ Quiet /\ approved' = approved
  BY DEF DecideCreateCopy
<1>2. \A i \in Items \ Asked : change[i] = txn.items[i]
  OBVIOUS
<1>3. \A i \in Asked : change[i] = Renamed(i)
  BY <1>1, AskedIs
<1>4. ASSUME NEW i \in Asked
      PROVE  /\ Renamed(i) \in ItemType
             /\ Renamed(i).dest # "published"
             /\ Pristine(txn.items[i]) => Pristine(Renamed(i))
             /\ SnapshotsMatch(Renamed(i))
             /\ Known(txn.kind, approved', meddling, i, Renamed(i))
             /\ Told(fs[i], Lost(taken, i), Renamed(i), "none")
  <2> DEFINE it == txn.items[i]
             b == ClearOverwrite(it)
             n == [b EXCEPT !.to = "copy"]
  <2>1. /\ it \in ItemType /\ it.auth = Nothing /\ it.dest # "published"
        /\ Known(txn.kind, approved, meddling, i, it)
        /\ Told(fs[i], Lost(taken, i), it, "none") /\ i \in Items
        /\ txn.kind \in {"copy", "move"}
    BY <1>1, AskedIs, TransactionIs DEF AskIsTrue
  <2> HIDE DEF it
  <2>2. it.over = "none" /\ it.backup = Nothing
    BY <2>1, KnownIs
  <2>3. /\ b \in ItemType /\ b.auth = Nothing /\ b.over = "none" /\ b.strategy = it.strategy
        /\ b.at = it.at /\ b.dest = it.dest /\ b.token = it.token
        /\ b.source = it.source /\ b.temp = it.temp /\ b.proof = it.proof
        /\ b.backup = Nothing
    BY <2>1, ObjectIs DEF ItemType, ClearOverwrite
  <2> HIDE DEF b
  <2>4. /\ n \in ItemType /\ n.auth = Nothing /\ n.over = "none" /\ n.strategy = it.strategy
        /\ n.at = it.at /\ n.dest = it.dest /\ n.token = it.token
        /\ n.source = it.source /\ n.temp = it.temp /\ n.proof = it.proof
        /\ n.backup = Nothing
    BY <2>3 DEF ItemType
  <2> HIDE DEF n
  <2>5. Pristine(it) => Pristine(n)
    BY <2>4 DEF Pristine
  <2>6. Known(txn.kind, approved', meddling, i, n)
    <3>1. OverwriteIsValid(n)
      BY <2>4 DEF OverwriteIsValid
    <3>2. LocationIsValid(txn.kind, n)
      BY <2>1, <2>4 DEF Known, LocationIsValid
    <3>3. ProofIsValid(n)
      BY <2>1, <2>4 DEF Known, ProofIsValid, Streamed
    <3> QED
      BY <1>1, <2>1, <2>4, <3>1, <3>2, <3>3 DEF Known, Streamed
  <2>7. Told(fs[i], Lost(taken, i), n, "none")
    <3>0. it.at # "removed"
      BY <2>1, KnownIs
    <3>1. HiddenTold(fs[i], n, "none")
      <4>1. fs[i]["backup"] = Nothing
        BY <2>1, <2>2 DEF Told, HiddenTold
      <4> QED
        BY <2>1, <2>4, <4>1 DEF Told, HiddenTold
    <3>2. CopyTold(fs[i], Lost(taken, i), n, "none")
      BY <2>1, <2>4 DEF Told, CopyTold, Publishes
    <3>3. SourceTold(fs[i], Lost(taken, i), n, "none")
      BY <2>1, <2>4, <3>0 DEF Told, SourceTold
    <3> QED
      BY <2>1, <2>4, <3>1, <3>2, <3>3 DEF Told
  <2>8. Renamed(i) = n
    BY DEF n, b, it
  <2>9. SnapshotsMatch(n)
    <3>1. SnapshotsMatch(it)
      BY <1>1, <2>1, AskedIs DEF it
    <3> QED
      BY <2>4, <3>1, MatchesLike
  <2> QED
    BY <2>1, <2>4, <2>5, <2>6, <2>7, <2>8, <2>9 DEF it
<1>5. change \in [Items -> ItemType]
  <2>1. \A i \in Items : change[i] \in ItemType
    BY <1>1, <1>3, <1>4, AskedIs
  <2> QED
    BY <2>1
<1>6. approved \subseteq approved' /\ approved' \subseteq (Items \X Object)
  BY <1>1, AskedIs, RunningIs
<1>7. \A i \in Asked :
        /\ change[i].dest # "published"
        /\ Pristine(txn.items[i]) => Pristine(change[i])
        /\ SnapshotsMatch(change[i])
        /\ Known(txn.kind, approved', meddling, i, change[i])
        /\ Told(fs[i], Lost(taken, i), change[i], "none")
  BY <1>3, <1>4
<1>8. u = [txn EXCEPT !.items = change]
  OBVIOUS
<1> HIDE DEF change, u
<1> QED
  BY <1>1, <1>2, <1>5, <1>6, <1>7, <1>8, DecisionKeeps

LEMMA DecideCancelKeeps ==
  ASSUME IInv, DecideCancel
  PROVE  IInv'
<1> DEFINE v == [txn EXCEPT !.cancelled = TRUE]
<1>1. pc = "ask" /\ EnterCleanup(v) /\ Quiet /\ UNCHANGED approved
  BY DEF DecideCancel
<1>2. /\ pc # "idle" /\ Current # 0 /\ txn \in Transactions /\ txn.step = "none"
      /\ Item.dest # "published"
  BY <1>1, AskedIs DEF AskIsTrue
<1>3. v \in Transactions /\ v.kind = txn.kind /\ v.items = txn.items
  BY <1>2, CancelledIs
<1> HIDE DEF v
<1>4. Made(txn, v, Current, Item)
  <2>1. Made(txn, txn, Current, Item)
    BY <1>2, OpenSame
  <2> QED
    BY <1>3, <2>1 DEF Made
<1>5. OpenKnown(Item) /\ OpenTold(Item, "none") /\ SnapshotsMatch(Item)
  BY <1>2, OpenSame, RunningIs
<1> QED
  BY <1>1, <1>2, <1>4, <1>5, CleanupKeeps

LEMMA RequestOverwriteKeeps ==
  ASSUME IInv, RequestOverwrite
  PROVE  IInv'
<1> DEFINE r == RenameOf(Item, txn.step)
<1>1. pc = "confirm" /\ pc # "idle" /\ Quiet /\ UNCHANGED approved
  BY DEF RequestOverwrite
<1>2. /\ txn.phase = "processing" /\ txn.step \in {"atomic_move", "publish_temp"}
      /\ Item.auth = Nothing /\ OpenTold(Item, "none")
  BY <1>1 DEF IInv, CallIsTrue, Unapproved, Item
<1>3. Current # 0
  BY <1>1, <1>2, PhaseIs
<1>4. Item.dest # "published" /\ Item \in ItemType /\ Item.at \in {"original", "staged"}
      /\ Current \in Items
  <2>1. StepIsValid(txn)
    BY <1>1, RunningIs DEF Sound, Valid
  <2>2. Item.strategy = "move_undecided" \/ Item.dest = "content_ready"
    BY <1>2, <2>1 DEF StepIsValid, Item, Current
  <2>3. /\ Item \in ItemType /\ Known(txn.kind, approved, meddling, Current, Item)
        /\ txn.kind \in {"copy", "move"} /\ Current \in Items
    BY <1>1, <1>3, RunningIs, TransactionIs
  <2>4. Item.dest # "published"
    BY <2>2, <2>3 DEF Known, LocationIsValid
  <2> QED
    BY <2>3, <2>4, KnownIs, ItemIs
<1>5. CASE EnterCleanup(txn)
  BY <1>1, <1>2, <1>3, <1>4, <1>5, OpenSame, CleanupKeeps
<1>6. CASE /\ Conflicts(Current, r.from, r.expected)
           /\ RecordWith(ClearActive(txn), "ask",
                [NoCall EXCEPT !.asked = [i \in {Current} |-> fs[i][r.to]]])
  <2> DEFINE u == ClearActive(txn)
             asked == {Current}
             c == [NoCall EXCEPT !.asked = [i \in asked |-> fs[i][u.items[i].to]]]
  <2>1. r.to = Item.to
    BY <1>2 DEF RenameOf
  <2>2. txn \in Transactions /\ Sound(txn, approved, meddling) /\ Fits(txn, fs, taken)
        /\ ~txn.cancelled /\ txn.kind \in {"copy", "move"}
    BY <1>1, <1>2, RunningIs, PhaseIs, TransactionIs
  <2>3. /\ u \in Transactions /\ u.kind = txn.kind /\ u.items = txn.items
        /\ u.phase = txn.phase /\ u.cancelled = txn.cancelled /\ u.step = "none"
    BY <2>2, ClearedIs
  <2>4. RecordWith(u, "ask", c)
    <3>1. [i \in asked |-> fs[i][r.to]] = [i \in asked |-> fs[i][u.items[i].to]]
      <4>1. u.items[Current].to = r.to
        BY <2>1, <2>3 DEF Item
      <4> QED
        BY <4>1
    <3> QED
      BY <1>6, <3>1
  <2> HIDE DEF u
  <2>5. /\ Sound(u, approved, meddling) /\ Fits(u, fs, taken)
        /\ Unfinished(u) = Current /\ u.items[Current] = Item
    <3>1. Made(txn, u, Current, Item)
      <4>1. Made(txn, txn, Current, Item)
        BY <1>1, <1>3, OpenSame
      <4> QED
        BY <2>3, <4>1 DEF Made
    <3>2. StepIsValid(u)
      BY <2>3 DEF StepIsValid
    <3>3. /\ OpenKnown(Item) /\ ~Ended(txn.kind, Item) /\ OpenTold(Item, u.step)
          /\ SnapshotsMatch(Item)
      BY <1>1, <1>2, <1>3, <2>3, OpenSame, RunningIs
    <3> QED
      BY <1>1, <1>2, <1>3, <2>2, <2>3, <3>1, <3>2, <3>3, OpenRecord
  <2>6. fs[Current][Item.to] # Nothing
    BY <1>6 DEF Conflicts, Item
  <2>7. fs[Current][Item.to].id \in {"dst", "other"}
    <3>1. Filed(fs[Current], Lost(taken, Current), meddling)
      BY <1>4 DEF IInv, FilesAreKnown
    <3> QED
      BY <1>2, <1>4, <2>6, <3>1, InTheWay DEF OpenTold
  <2>8. \A i \in asked :
          /\ u.items[i].auth = Nothing /\ u.items[i].dest # "published"
          /\ fs[i][u.items[i].to].id \in {"dst", "other"}
    BY <1>2, <1>4, <2>5, <2>7
  <2>9. asked \in SUBSET Items
    BY <1>4
  <2> HIDE DEF asked
  <2>10. c = [NoCall EXCEPT !.asked = [i \in asked |-> fs[i][u.items[i].to]]]
    OBVIOUS
  <2> HIDE DEF c
  <2> QED
    BY <1>1, <1>2, <1>3, <1>4, <2>3, <2>4, <2>5, <2>8, <2>9, <2>10, AskKeeps
<1> QED
  BY <1>5, <1>6 DEF RequestOverwrite

-----------------------------------------------------------------------------
(* Starting, resuming, and finishing.                                      *)

LEMMA StartKeeps ==
  ASSUME IInv, NEW kind \in {"copy", "move"}, NEW preapproved \in SUBSET Items,
         Start(kind, preapproved)
  PROVE  IInv'
<1> DEFINE t == NewTransaction(kind, preapproved)
           N(i) == NewItem(kind, fs[i], i \in preapproved)
<1>1. /\ pc = "idle" /\ report = "new" /\ Record(t, "initial") /\ Quiet
      /\ \A i \in preapproved : fs[i]["destination"] # Nothing
      /\ approved' = {<<i, fs[i]["destination"]>> : i \in preapproved}
  BY DEF Start
<1>2. /\ journal = EmptyJournal /\ taken = {}
      /\ \A i \in Items :
           /\ fs[i]["source"] = File("src", 0)
           /\ fs[i]["destination"] \in {Nothing, File("dst", 0)}
           /\ \A p \in Path \ {"source", "destination"} : fs[i][p] = Nothing
  BY <1>1 DEF IInv, Started
<1>3. fs \in [Items -> [Path -> Object]] /\ meddling \in Nat
  BY TransferAssumption DEF IInv, TypeOK
<1>4. ASSUME NEW i \in Items
      PROVE  /\ N(i) \in ItemType /\ Pristine(N(i)) /\ SnapshotsMatch(N(i))
             /\ Known(kind, approved', meddling, i, N(i))
             /\ Told(fs[i], Lost(taken, i), N(i), "none")
  <2> DEFINE n == N(i)
             f == fs[i]
  <2>1. f["source"] \in Object /\ f["destination"] \in Object /\ f["source"].id = "src"
        /\ f["source"].data = 0
    BY <1>2, <1>3, PathIs, ObjectIs
  <2>2. /\ n.strategy = IF kind = "copy" THEN "copy_stream" ELSE "move_undecided"
        /\ n.at = "original" /\ n.dest = "absent" /\ n.token = FALSE /\ n.to = "destination"
        /\ n.source = f["source"] /\ n.temp = Nothing /\ n.proof = FALSE /\ n.backup = Nothing
        /\ i \in preapproved => n.over = "authorized" /\ n.auth = f["destination"]
        /\ i \notin preapproved => n.over = "none" /\ n.auth = Nothing
    BY DEF NewItem
  <2>3. n \in ItemType
    <3>1. CASE i \in preapproved
      BY <2>1, <3>1, ObjectIs DEF ItemType, NewItem
    <3>2. CASE i \notin preapproved
      BY <2>1, <3>2, ObjectIs DEF ItemType, NewItem
    <3> QED
      BY <3>1, <3>2
  <2> HIDE DEF n
  <2>4. Pristine(n)
    BY <2>2 DEF Pristine
  <2>5. i \in preapproved => n.auth.id = "dst" /\ n.auth # Nothing /\ <<i, n.auth>> \in approved'
    BY <1>1, <1>2, <2>2, ObjectIs
  <2>6. Known(kind, approved', meddling, i, n)
    <3>1. OverwriteIsValid(n)
      BY <2>2, <2>5 DEF OverwriteIsValid
    <3>2. LocationIsValid(kind, n)
      BY <2>2 DEF LocationIsValid
    <3>3. ProofIsValid(n)
      BY <2>2 DEF ProofIsValid
    <3>4. n.source.id = "src" /\ n.source.data <= meddling
      BY <1>3, <2>1, <2>2
    <3>5. n.auth = Nothing \/ (n.auth.id \in {"dst", "other"} /\ <<i, n.auth>> \in approved')
      BY <2>2, <2>5
    <3> QED
      BY <2>2, <2>3, <3>1, <3>2, <3>3, <3>4, <3>5 DEF Known
  <2>7. Told(f, Lost(taken, i), n, "none")
    <3>1. f["staged"] = Nothing /\ f["temp"] = Nothing /\ f["backup"] = Nothing
      BY <1>2, PathIs
    <3>2. \A p \in Path : f[p].id \notin Temporary
      <4> SUFFICES ASSUME NEW p \in Path PROVE f[p].id \notin Temporary
        OBVIOUS
      <4>1. f[p].id \in {"nothing", "src", "dst"}
        BY <1>2, ObjectIs
      <4> QED
        BY <4>1 DEF Temporary
    <3>3. "whole" \notin Lost(taken, i)
      BY <1>2 DEF Lost
    <3>4. HiddenTold(f, n, "none")
      BY <3>1 DEF HiddenTold
    <3>5. CopyTold(f, Lost(taken, i), n, "none")
      BY <3>2, <3>3 DEF CopyTold
    <3>6. SourceTold(f, Lost(taken, i), n, "none")
      BY <2>1, <2>2 DEF SourceTold
    <3> QED
      BY <2>2, <3>4, <3>5, <3>6 DEF Told
  <2>8. SnapshotsMatch(n)
    <3>1. n.source = File("src", 0) /\ n.at = "original" /\ n.strategy # "move_stream"
      BY <1>2, <2>2
    <3> QED
      BY <2>2, <3>1 DEF SnapshotsMatch
  <2> QED
    BY <2>3, <2>4, <2>6, <2>7, <2>8 DEF n
<1>5. /\ t.kind = kind /\ t.phase = "prepared" /\ t.step = "none" /\ t.cancelled = FALSE
      /\ t.items = [i \in Items |-> N(i)]
  BY DEF NewTransaction
<1>6. \A i \in Items : t.items[i] = N(i)
  BY <1>5
<1>7. t \in Transactions
  <2>1. [i \in Items |-> N(i)] \in [Items -> ItemType]
    BY <1>4
  <2> HIDE DEF N
  <2>2. "none" \in Steps
    BY DEF Steps
  <2>3. t = [kind |-> kind, phase |-> "prepared", step |-> "none", cancelled |-> FALSE,
             items |-> [i \in Items |-> N(i)]]
    BY DEF NewTransaction, N
  <2> HIDE DEF t
  <2> DEFINE items == [i \in Items |-> N(i)]
  <2> HIDE DEF items
  <2> QED
    BY <2>1, <2>2, <2>3 DEF Transactions, items
<1> HIDE DEF t, N
<1>8. Items # {} /\ 1 \in Items /\ \A j \in Items : 1 <= j
  BY TransferAssumption DEF Items
<1>9. \A i \in Items : ~Final(t, i)
  BY <1>4, <1>6, EndedIsFinal DEF Ended, Pristine
<1>10. Unfinished(t) \in Items /\ Unfinished(t) # 0
  BY <1>8, <1>9, OpenIs
<1>11. Valid(t)
  <2>1. StepIsValid(t)
    BY <1>5 DEF StepIsValid
  <2>2. \A i \in Items :
          /\ OverwriteIsValid(t.items[i])
          /\ LocationIsValid(t.kind, t.items[i])
          /\ ProofIsValid(t.items[i])
          /\ Pristine(t.items[i]) /\ SnapshotsMatch(t.items[i])
    BY <1>4, <1>5, <1>6 DEF Known
  <2> QED
    BY <1>5, <1>9, <1>10, <2>1, <2>2 DEF Valid
<1>12. Sound(t, approved', meddling)
  <2>1. \A i \in Items : Known(t.kind, approved', meddling, i, t.items[i])
    BY <1>4, <1>5, <1>6
  <2> QED
    BY <1>5, <1>7, <1>11, <2>1 DEF Sound
<1>13. Fits(t, fs, taken)
  <2>1. \A i \in Items : StepOf(t, i) = "none"
    BY <1>5 DEF StepOf
  <2> QED
    BY <1>4, <1>6, <2>1 DEF Fits
<1>14. approved' \subseteq (Items \X Object)
  <2>1. \A i \in preapproved : <<i, fs[i]["destination"]>> \in Items \X Object
    BY <1>3, PathIs
  <2> QED
    BY <1>1, <2>1
<1>15. Kept' /\ txn' = t /\ pc' = "initial"
  <2>1. RecordWith(t, "initial", NoCall)
    BY <1>1 DEF Record
  <2>2. approved \subseteq approved' \/ journal = EmptyJournal
    BY <1>2
  <2> QED
    BY <1>1, <1>12, <1>13, <1>14, <2>1, <2>2, WritingKeeps, NoCallIs DEF Running
<1>16. CallIsTrue'
  BY <1>5, <1>15 DEF CallIsTrue
<1> QED
  BY <1>15, <1>16 DEF Kept, IInv

LEMMA ResumeKeeps ==
  ASSUME IInv, Resume
  PROVE  IInv'
<1>1. /\ journal.current # NoTxn /\ txn' = journal.current /\ call' = NoCall
      /\ pc' = IF txn'.phase = "prepared" THEN "initial" ELSE "loop"
      /\ report' = "running"
      /\ UNCHANGED <<journal, approved, fs, far, meddling, taken, faults>>
  BY DEF Resume, Quiet, environment
<1>2. pc' \in {"initial", "loop"} /\ (pc' = "initial" => txn'.phase = "prepared")
  BY <1>1
<1>3. TypeOK'
  BY <1>1, <1>2, NoCallIs DEF IInv, TypeOK, CallOK, Asked
<1>4. RecordsAreTrue'
  BY <1>1, SameRecords
<1>5. FilesAreKnown' /\ Started'
  BY <1>1, <1>2 DEF IInv, FilesAreKnown, Started
<1>6. Sound(journal.current, approved, meddling) /\ Fits(journal.current, fs, taken)
  BY <1>1 DEF IInv, RecordsAreTrue
<1>7. WorkerFollows'
  BY <1>1, <1>2, <1>6 DEF WorkerFollows
<1>8. CallIsTrue' /\ RefusalIsExcused'
  BY <1>2 DEF CallIsTrue, RefusalIsExcused
<1> QED
  BY <1>3, <1>4, <1>5, <1>7, <1>8 DEF IInv

(* Nothing hidden is left of an item that is done or undone.               *)
LEMMA NothingIsHidden ==
  ASSUME IInv, pc = "loop", txn.phase = "completed" \/ Undone
  PROVE  /\ \A i \in Items : \A p \in Hidden : fs[i][p] = Nothing
         /\ txn.step = "none" /\ txn = journal.current
<1>1. /\ Sound(txn, approved, meddling) /\ Fits(txn, fs, taken) /\ txn = journal.current
      /\ txn.kind \in {"copy", "move"}
  BY RunningIs, TransactionIs DEF IInv, WorkerFollows
<1>2. txn.step = "none"
  BY <1>1, SoundIs DEF Undone, Cleaning
<1>3. ASSUME NEW i \in Items, NEW p \in Hidden
      PROVE  fs[i][p] = Nothing
  <2> DEFINE it == txn.items[i]
  <2>1. Told(fs[i], Lost(taken, i), it, "none") /\ Known(txn.kind, approved, meddling, i, it)
    <3>1. StepOf(txn, i) = "none"
      BY <1>2 DEF StepOf
    <3> QED
      BY <1>1, <3>1, SoundIs DEF Fits
  <2>2. it \in ItemType
    BY <2>1 DEF Known
  <2>3. SUFFICES /\ it.at # "staged" /\ it.over \in {"none", "authorized"}
                 /\ it.dest = "published" \/ ~it.token \/ fs[i]["temp"] = Nothing
    BY <2>1 DEF Told, HiddenTold, Hidden
  <2>4. CASE Final(txn, i)
    BY <2>4 DEF Final, SourceFinal
  <2>5. CASE Pristine(it)
    BY <2>5 DEF Pristine
  <2>6. CASE ~Final(txn, i) /\ ~Pristine(it)
    <3>1. Undone
      BY <1>1, <2>6, SoundIs, OpenIs
    <3>2. Current # 0
      BY <3>1, CleaningIs DEF Undone
    <3>3. i <= Current /\ ~(i < Current)
      BY <1>1, <2>6, <3>2, SoundIs, OpenIs DEF Current
    <3>4. i = Current
      BY <3>3, TransferAssumption, OpenIs DEF Items, Current
    <3>5. it = Item
      BY <3>4 DEF Item
    <3>6. Item.at # "staged" /\ Item.over \in {"none", "authorized"}
      BY <2>2, <3>1, <3>5, ItemIs DEF Undone, Evacuated
    <3>7. Item.dest = "absent"
      BY <2>2, <3>1, <3>5, CleaningIs, ItemIs DEF Undone, NoTemporary, TemporaryRecorded
    <3>8. ~Item.token \/ fs[Current]["temp"] = Nothing
      BY <3>1, <3>7 DEF Undone, NoTemporary, ReservationPending
    <3> QED
      BY <3>4, <3>5, <3>6, <3>8
  <2> QED
    BY <2>4, <2>5, <2>6
<1> QED
  BY <1>1, <1>2, <1>3

LEMMA RetireKeeps ==
  ASSUME IInv, pc = "loop", txn.phase = "completed" \/ Undone,
         NEW outcome \in Outcomes \ {"record_rejected"}, Retire(outcome),
         UNCHANGED <<fs, environment, approved>>
  PROVE  IInv'
<1>1. /\ \A i \in Items : \A p \in Hidden : fs[i][p] = Nothing
      /\ journal.current.step = "none"
  BY NothingIsHidden
<1>2. UNCHANGED <<fs, far, meddling, taken, approved>>
  BY DEF environment
<1>3. journal.current \in TransactionType /\ journal.previous \in TransactionType
      /\ NoTxn \in TransactionType
  BY TransactionOrNone DEF IInv, TypeOK
<1>4. faults' \in 0..MaxFaults
  BY TransferAssumption DEF Retire, Fault, IInv, TypeOK
<1>5. PICK end \in Outcomes \ {"record_rejected"} : EndRun(end)
  BY DEF Retire, Outcomes
<1>6. PICK left \in {journal.current, journal.previous, NoTxn} :
        journal' = [current |-> left, previous |-> NoTxn]
  BY DEF Retire, EmptyJournal
<1>7. left \in TransactionType
  BY <1>3
<1>8. journal' \in [current : TransactionType, previous : TransactionType]
  BY <1>3, <1>6, <1>7
<1>9. left # NoTxn => Sound(left, approved, meddling) /\ Fits(left, fs, taken)
  BY <1>1 DEF IInv, RecordsAreTrue
<1>10. RecordsAreTrue'
  <2>1. journal'.current = left /\ journal'.previous = NoTxn
    BY <1>6
  <2> QED
    BY <1>1, <1>2, <1>9, <2>1 DEF RecordsAreTrue
<1> QED
  BY <1>2, <1>4, <1>5, <1>8, <1>10, EndKeeps

LEMMA FinishKeeps ==
  ASSUME IInv, FinishSuccess \/ FinishCleanup
  PROVE  IInv'
<1>1. CASE FinishSuccess
  <2>1. "success" \in Outcomes \ {"record_rejected"}
    BY DEF Outcomes
  <2> QED
    BY <1>1, <2>1, RetireKeeps DEF FinishSuccess
<1>2. CASE FinishCleanup
  <2>1. pc = "loop" /\ Undone /\ UNCHANGED <<fs, environment, approved>>
    BY <1>2 DEF FinishCleanup, Undone, Cleaning
  <2>2. PICK outcome \in Outcomes \ {"record_rejected"} : Retire(outcome)
    BY <1>2 DEF FinishCleanup, Outcomes
  <2> QED
    BY <2>1, <2>2, RetireKeeps
<1> QED
  BY <1>1, <1>2

-----------------------------------------------------------------------------
(* Answers on record.                                                      *)

LEMMA SameOpen ==
  ASSUME NEW u, NEW v, u.kind = v.kind, u.items = v.items
  PROVE  Unfinished(u) = Unfinished(v)
BY DEF Unfinished, Final, SourceFinal

LEMMA AnswerIs ==
  ASSUME IInv, pc = "answer"
  PROVE  /\ pc # "idle" /\ AnswerIsTrue /\ txn.step \in RenameSteps \union DeleteSteps
         /\ Current # 0 /\ txn.phase \in {"processing", "cleanup"} /\ StepIsValid(txn)
         /\ txn.cancelled => txn.phase = "cleanup"
         /\ txn = journal.current /\ txn \in Transactions
         /\ Item \in ItemType /\ OpenKnown(Item) /\ Made(txn, txn, Current, Item)
         /\ ~Ended(txn.kind, Item) /\ SnapshotsMatch(Item)
<1>1. AnswerIsTrue /\ txn.step \in RenameSteps \union DeleteSteps /\ pc # "idle"
  BY DEF IInv, CallIsTrue
<1>2. txn.step # "none"
  BY <1>1 DEF RenameSteps, DeleteSteps
<1>3. Current # 0 /\ txn.phase \in {"processing", "cleanup"}
      /\ (txn.cancelled => txn.phase = "cleanup")
  BY <1>1, <1>2, PhaseIs
<1>4. StepIsValid(txn) /\ txn \in Transactions
  BY <1>1, RunningIs DEF Sound, Valid
<1>5. txn = journal.current
  BY <1>1 DEF IInv, WorkerFollows
<1> QED
  BY <1>1, <1>3, <1>4, <1>5, OpenSame, RunningIs

LEMMA RepeatStepKeeps ==
  ASSUME IInv, RepeatStep
  PROVE  IInv'
<1> DEFINE u == ClearActive(txn)
<1>1. pc = "answer" /\ Record(u, "loop") /\ Quiet /\ UNCHANGED approved /\ NoCommit
  BY DEF RepeatStep, Answer
<1>2. /\ pc # "idle" /\ Current # 0 /\ txn.phase \in {"processing", "cleanup"}
      /\ OpenKnown(Item) /\ Made(txn, txn, Current, Item) /\ ~Ended(txn.kind, Item)
      /\ (txn.cancelled => txn.phase = "cleanup") /\ SnapshotsMatch(Item)
  BY <1>1, AnswerIs
<1>3. OpenTold(Item, "none")
  BY <1>1, AnswerIs DEF AnswerIsTrue, NoCommit
<1>4. /\ Made(txn, u, Current, Item) /\ u.step = "none" /\ u.phase = txn.phase
      /\ u.cancelled = txn.cancelled
  BY <1>2, MadeClear
<1> HIDE DEF u
<1>5. StepIsValid(u) /\ OpenTold(Item, u.step)
  BY <1>3, <1>4 DEF StepIsValid
<1>6. u.phase = "cleanup" => Item.dest # "published" /\ u.step \in CleanupSteps
  BY <1>2, <1>4, PhaseIs DEF CleanupSteps
<1>7. Sound(u, approved, meddling) /\ Fits(u, fs, taken)
  BY <1>2, <1>4, <1>5, <1>6, OpenRecord
<1> QED
  BY <1>1, <1>2, <1>7, RunningIs, LoopKeeps

LEMMA NotDelivered ==
  ASSUME IInv, pc = "answer", txn.phase # "cleanup" => txn.step \in RenameSteps
  PROVE  Item.dest # "published"
<1>1. CASE txn.phase = "cleanup"
  BY <1>1, AnswerIs, PhaseIs
<1>2. CASE txn.phase # "cleanup"
  <2>1. StepIsValid(txn) /\ txn.step \in RenameSteps /\ OpenKnown(Item)
    BY <1>2, AnswerIs
  <2>2. Item.strategy = "move_undecided" => Item.dest = "absent"
    BY <2>1 DEF OpenKnown, Known, LocationIsValid
  <2> QED
    BY <2>1, <2>2 DEF StepIsValid, RenameSteps, Item, Current
<1> QED
  BY <1>1, <1>2

LEMMA FailStepKeeps ==
  ASSUME IInv, FailStep
  PROVE  IInv'
<1>1. pc = "answer" /\ EnterCleanup(txn) /\ Quiet /\ UNCHANGED approved /\ GivesUp
  BY DEF FailStep, Answer
<1>2. /\ pc # "idle" /\ Current # 0 /\ OpenKnown(Item) /\ Made(txn, txn, Current, Item)
      /\ SnapshotsMatch(Item)
  BY <1>1, AnswerIs
<1>3. OpenTold(Item, "none")
  BY <1>1, AnswerIs DEF AnswerIsTrue, NoCommit, GivesUp
<1>4. Item.dest # "published"
  BY <1>1, NotDelivered DEF GivesUp
<1> QED
  BY <1>1, <1>2, <1>3, <1>4, CleanupKeeps

LEMMA RecordUnexpectedKeeps ==
  ASSUME IInv, RecordUnexpected
  PROVE  IInv'
<1> DEFINE n == [Item EXCEPT !.backup = call.object, !.over = "evacuated_unexpected"]
           v == WithItem(txn, Current, n)
<1>1. pc = "answer" /\ EnterCleanup(v) /\ Quiet /\ UNCHANGED approved
      /\ call.verdict = "unproven"
  BY DEF RecordUnexpected, Answer
<1>2. /\ pc # "idle" /\ Current # 0 /\ Item \in ItemType
      /\ txn.step = "evacuate_overwrite_destination" /\ OpenKnown(n) /\ OpenTold(n, "none")
  BY <1>1, AnswerIs DEF AnswerIsTrue
<1>3. Item.dest # "published"
  BY <1>1, <1>2, NotDelivered DEF RenameSteps
<1>4. call.object \in Object
  BY DEF IInv, TypeOK
<1>5. /\ n \in ItemType /\ n.dest = Item.dest /\ n.at = Item.at /\ n.strategy = Item.strategy
      /\ n.source = Item.source /\ n.temp = Item.temp
  BY <1>2, <1>4 DEF ItemType
<1> HIDE DEF n
<1>6. Made(txn, v, Current, n)
  BY <1>2, <1>5, WithOpenItem
<1> HIDE DEF v
<1>7. SnapshotsMatch(n)
  BY <1>1, <1>5, AnswerIs, MatchesLike
<1> QED
  BY <1>1, <1>2, <1>3, <1>5, <1>6, <1>7, CleanupKeeps

LEMMA RecordCrossDeviceKeeps ==
  ASSUME IInv, RecordCrossDevice
  PROVE  IInv'
<1> DEFINE n == [Item EXCEPT !.strategy = "move_stream"]
           v == WithItem(txn, Current, n)
           u == ClearActive(v)
<1>1. pc = "answer" /\ Record(u, "loop") /\ Quiet /\ UNCHANGED approved
      /\ call.verdict = "cross_device"
  BY DEF RecordCrossDevice, Answer
<1>2. /\ pc # "idle" /\ Current # 0 /\ Item \in ItemType /\ txn.step = "atomic_move"
      /\ OpenKnown(Item) /\ OpenTold(Item, "none") /\ StepIsValid(txn)
      /\ txn.phase \in {"processing", "cleanup"}
      /\ txn.cancelled => txn.phase = "cleanup"
  BY <1>1, AnswerIs DEF AnswerIsTrue
<1>3. Item.strategy = "move_undecided"
  BY <1>2 DEF StepIsValid, Item, Current
<1>4. /\ n \in ItemType /\ n.strategy = "move_stream" /\ n.at = Item.at /\ n.dest = Item.dest
      /\ n.over = Item.over /\ n.token = Item.token /\ n.to = Item.to
      /\ n.source = Item.source /\ n.temp = Item.temp /\ n.proof = Item.proof
      /\ n.auth = Item.auth /\ n.backup = Item.backup
  BY <1>2 DEF ItemType
<1> HIDE DEF n
<1>5. Item.dest = "absent" /\ Item.at = "original" /\ txn.kind = "move"
  BY <1>2, <1>3 DEF OpenKnown, Known, LocationIsValid
<1>6. OpenKnown(n)
  <2>1. OverwriteIsValid(n)
    BY <1>2, <1>4 DEF OpenKnown, Known, OverwriteIsValid
  <2>2. LocationIsValid(txn.kind, n)
    BY <1>4, <1>5 DEF LocationIsValid
  <2>3. ProofIsValid(n)
    BY <1>2, <1>4, <1>5 DEF OpenKnown, Known, ProofIsValid
  <2> QED
    BY <1>2, <1>4, <1>5, <2>1, <2>2, <2>3 DEF OpenKnown, Known
<1>7. OpenTold(n, "none")
  <2> DEFINE f == fs[Current]
             lost == Lost(taken, Current)
  <2>1. HiddenTold(f, n, "none")
    BY <1>2, <1>3, <1>4, <1>5 DEF OpenTold, Told, HiddenTold
  <2>2. CopyTold(f, lost, n, "none")
    BY <1>2, <1>4, <1>5 DEF OpenTold, Told, CopyTold, Publishes
  <2>3. SourceTold(f, lost, n, "none")
    BY <1>2, <1>4, <1>5 DEF OpenTold, Told, SourceTold
  <2> QED
    BY <1>4, <1>5, <2>1, <2>2, <2>3 DEF OpenTold, Told
<1>8. Made(txn, v, Current, n) /\ v.phase = txn.phase /\ v.cancelled = txn.cancelled
  BY <1>2, <1>4, WithOpenItem
<1> HIDE DEF v
<1>9. /\ Made(txn, u, Current, n) /\ u.step = "none" /\ u.phase = v.phase
      /\ u.cancelled = v.cancelled
  BY <1>8, MadeClear
<1> HIDE DEF u
<1>10. StepIsValid(u) /\ OpenTold(n, u.step) /\ ~Ended(txn.kind, n)
       /\ n.dest # "published" /\ "none" \in CleanupSteps
  BY <1>4, <1>5, <1>7, <1>9 DEF StepIsValid, Ended, CleanupSteps
<1>10a. SnapshotsMatch(n)
  <2>1. Item.source = File("src", 0)
    BY <1>1, <1>3, <1>5, AnswerIs DEF SnapshotsMatch
  <2> QED
    BY <1>4, <1>5, <2>1, ObjectIs DEF SnapshotsMatch
<1>11. Sound(u, approved, meddling) /\ Fits(u, fs, taken)
  BY <1>2, <1>6, <1>8, <1>9, <1>10, <1>10a, OpenRecord
<1> QED
  BY <1>1, <1>2, <1>11, RunningIs, LoopKeeps

LEMMA PreserveUncertainKeeps ==
  ASSUME IInv, PreserveUncertain
  PROVE  IInv'
BY PreserveKeeps DEF PreserveUncertain, Answer

LEMMA ConfirmConflictKeeps ==
  ASSUME IInv, ConfirmConflict
  PROVE  IInv'
<1>1. pc = "answer" /\ Goto("confirm", NoCall) /\ Quiet /\ UNCHANGED <<journal, approved>>
      /\ GivesUp /\ MayAsk
  BY DEF ConfirmConflict, Answer
<1>2. /\ pc # "idle" /\ txn = journal.current /\ txn.phase \in {"processing", "cleanup"}
      /\ OpenTold(Item, "none")
  BY <1>1, AnswerIs DEF AnswerIsTrue, MayAsk
<1>3. Kept' /\ pc' = "confirm" /\ UNCHANGED <<txn, fs, taken, meddling, approved>>
  BY <1>1, <1>2, GotoKeeps, NoCallIs DEF Running
<1>4. txn.phase = "processing" /\ txn.step \in {"atomic_move", "publish_temp"}
      /\ Unapproved(Current)
  BY <1>1, <1>2 DEF GivesUp, MayAsk
<1>5. Unapproved(Current)' /\ OpenTold(Item, "none")'
  BY <1>2, <1>3, <1>4 DEF Unapproved, OpenTold, Item, Current
<1>6. CallIsTrue'
  BY <1>3, <1>4, <1>5 DEF CallIsTrue
<1> QED
  BY <1>3, <1>6 DEF Kept, IInv

(* A step that was made is recorded, and the item may be at its end.       *)
LEMMA RecordSuccessKeeps ==
  ASSUME IInv, RecordSuccess
  PROVE  IInv'
<1> DEFINE n == Applied(Item, txn.step, call.object)
           v == WithItem(txn, Current, n)
           b == ClearActive(v)
           phase == IF Unfinished(v) = 0 THEN "completed" ELSE "processing"
           u == IF v.phase = "cleanup" THEN b ELSE [b EXCEPT !.phase = phase]
<1>1. pc = "answer" /\ Record(Settled(v), "loop") /\ Quiet /\ UNCHANGED approved
      /\ call.verdict = "committed"
  BY DEF RecordSuccess, Answer
<1>2. Settled(v) = u
  BY DEF Settled
<1>3. /\ pc # "idle" /\ Current # 0 /\ txn.phase \in {"processing", "cleanup"}
      /\ txn.cancelled => txn.phase = "cleanup"
      /\ OpenKnown(n) /\ OpenTold(n, "none") /\ Item \in ItemType
      /\ SnapshotsMatch(n) \/ TakenOver(txn.step)
  BY <1>1, AnswerIs DEF AnswerIsTrue
<1>4. txn.phase = "cleanup" => n.dest # "published"
  <2> SUFFICES ASSUME txn.phase = "cleanup" PROVE n.dest # "published"
    OBVIOUS
  <2>1. Item.dest # "published" /\ txn.step \in CleanupSteps
        /\ txn.step \in RenameSteps \union DeleteSteps
    BY <1>1, <1>3, PhaseIs, AnswerIs
  <2>2. CASE txn.step = "cleanup_temp"
    BY <1>3, <2>2 DEF Applied, ClearProof, ItemType
  <2>3. CASE txn.step = "restore_staged_source"
    BY <1>3, <2>1, <2>3 DEF Applied, ItemType
  <2>4. CASE txn.step = "restore_overwrite_destination"
    BY <1>3, <2>1, <2>4 DEF Applied, ClearOverwrite, ItemType
  <2> QED
    BY <2>1, <2>2, <2>3, <2>4 DEF CleanupSteps, RenameSteps, DeleteSteps
<1>5. n \in ItemType
  BY <1>3 DEF OpenKnown, Known
<1> HIDE DEF n
<1>6. Made(txn, v, Current, n) /\ v.phase = txn.phase /\ v.cancelled = txn.cancelled
  BY <1>3, <1>5, WithOpenItem
<1> HIDE DEF v
<1>7. /\ Made(txn, b, Current, n) /\ b.step = "none" /\ b.phase = v.phase
      /\ b.cancelled = v.cancelled /\ b \in Transactions
  <2>1. /\ Made(txn, b, Current, n) /\ b.step = "none" /\ b.phase = v.phase
        /\ b.cancelled = v.cancelled
    BY <1>6, MadeClear
  <2> QED
    BY <2>1 DEF Made
<1>8. b.kind = v.kind /\ b.items = v.items
  BY <1>6, <1>7 DEF Made
<1> HIDE DEF b
<1>9. phase \in {"completed", "processing"}
  OBVIOUS
<1>10. /\ u \in Transactions /\ u.kind = b.kind /\ u.items = b.items /\ u.step = "none"
       /\ u.cancelled = v.cancelled
       /\ u.phase = IF v.phase = "cleanup" THEN "cleanup" ELSE phase
  <2>1. CASE v.phase = "cleanup"
    BY <1>7, <2>1
  <2>2. CASE v.phase # "cleanup"
    <3> HIDE DEF phase
    <3> DEFINE w == [b EXCEPT !.phase = phase]
    <3>1. /\ w \in Transactions /\ w.kind = b.kind /\ w.items = b.items
          /\ w.phase = phase /\ w.cancelled = b.cancelled /\ w.step = b.step
      BY <1>7, <1>9, PhaseSetIs
    <3>2. u = w
      BY <2>2
    <3> HIDE DEF u, w
    <3> QED
      BY <1>7, <2>2, <3>1, <3>2
  <2> QED
    BY <2>1, <2>2
<1>11. Record(u, "loop")
  BY <1>1, <1>2
<1> HIDE DEF u
<1>12. Made(txn, u, Current, n)
  BY <1>7, <1>10 DEF Made
<1>13. Unfinished(u) = Unfinished(v)
  BY <1>8, <1>10, SameOpen
<1>14. Sound(txn, approved, meddling) /\ Fits(txn, fs, taken) /\ txn \in Transactions
       /\ Current \in Items /\ Current = Unfinished(txn)
  BY <1>3, RunningIs DEF Current
<1>15. ASSUME SnapshotsMatch(n)
       PROVE  Sound(u, approved, meddling) /\ Fits(u, fs, taken)
  <2>1. CASE Ended(txn.kind, n)
    <3>1. txn.phase = "processing" /\ ~u.cancelled
      BY <1>3, <1>4, <1>6, <1>10, <2>1 DEF Ended
    <3>2. u.phase = IF Unfinished(u) = 0 THEN "completed" ELSE "processing"
      BY <1>6, <1>10, <1>13, <3>1
    <3>3. Sound(u, approved, meddling)
      BY <1>3, <1>10, <1>12, <1>14, <1>15, <2>1, <3>1, <3>2, OpenEnds DEF OpenKnown
    <3>4. Fits(u, fs, taken)
      BY <1>3, <1>10, <1>12, <1>14, FitsKept DEF OpenTold
    <3> QED
      BY <3>3, <3>4
  <2>2. CASE ~Ended(txn.kind, n)
    <3>1. Unfinished(u) = Current
      BY <1>12, <1>14, <2>2, OpenKept
    <3>2. phase = "processing"
      BY <1>3, <1>13, <3>1
    <3>3. u.phase = txn.phase
      BY <1>3, <1>6, <1>10, <3>2
    <3>4. StepIsValid(u) /\ OpenTold(n, u.step) /\ "none" \in CleanupSteps
      BY <1>3, <1>10 DEF StepIsValid, CleanupSteps
    <3>5. u.cancelled => u.phase = "cleanup"
      BY <1>3, <1>6, <1>10, <3>3
    <3>6. u.phase = "cleanup" => n.dest # "published" /\ u.step \in CleanupSteps
      BY <1>4, <1>10, <3>3, <3>4
    <3>7. u.phase \in {"processing", "cleanup"} /\ u.step # "restore_staged_source"
      BY <1>3, <1>10, <3>3
    <3> QED
      BY <1>3, <1>12, <1>15, <2>2, <3>4, <3>5, <3>6, <3>7, OpenRecord
  <2> QED
    BY <2>1, <2>2
<1>16. CASE Valid(u)
  <2>1. SnapshotsMatch(n)
    BY <1>12, <1>14, <1>16, MadeIs DEF Valid
  <2> QED
    BY <1>1, <1>3, <1>11, <1>15, <2>1, RunningIs, LoopKeeps
<1>17. CASE ~Valid(u)
  <2>1. ~SnapshotsMatch(n)
    BY <1>15, <1>17 DEF Sound
  <2>2. TakenOver(txn.step)
    BY <1>3, <2>1
  <2>3. EndRun("record_rejected") /\ UNCHANGED journal
    BY <1>11, <1>17 DEF Record, RecordWith
  <2>4. UNCHANGED <<fs, far, meddling, taken, approved, faults>>
    BY <1>1 DEF Quiet, environment
  <2>5. TakenOver(journal'.current.step)
    BY <1>1, <2>2, <2>3, AnswerIs
  <2>6. RecordsAreTrue' /\ journal' \in [current : TransactionType, previous : TransactionType]
    BY <2>3, <2>4, SameRecords
  <2>7. "record_rejected" \in Outcomes /\ faults' \in 0..MaxFaults
    BY <2>4 DEF Outcomes, IInv, TypeOK
  <2> QED
    BY <2>3, <2>4, <2>5, <2>6, <2>7, EndKeeps
<1> QED
  BY <1>16, <1>17

-----------------------------------------------------------------------------
(* What the steps do to an item's files.                                   *)

Carried(f, g, from, to) ==
  /\ g \in [Path -> Object] /\ g[to] = f[from] /\ g[from] = Nothing
  /\ \A p \in Path : p # from /\ p # to => g[p] = f[p]

LEMMA MoveIs ==
  ASSUME NEW f \in [Path -> Object], NEW from \in Path, NEW to \in Path, from # to
  PROVE  Carried(f, [f EXCEPT ![to] = f[from], ![from] = Nothing], from, to)
BY ObjectIs DEF Carried

LEMMA FiledIs ==
  ASSUME NEW f, NEW lost, NEW edits, Filed(f, lost, edits)
  PROVE  /\ f \in [Path -> Object]
         /\ \A p \in Path : f[p] \in Object /\ f[p].data <= edits
         /\ \A p \in Path : f[p] # Nothing <=> f[p].id # "nothing"
         /\ f["staged"] # Nothing <=> f["staged"].id = "src"
         /\ f["temp"] # Nothing <=> f["temp"].id \in Temporary
         /\ f["backup"] # Nothing <=> f["backup"].id \in {"dst", "other"}
         /\ \A p, q \in Path : f[p].id = "src" /\ f[q].id = "src" => p = q
         /\ \A p \in Path : f[p].id = "src" => "src" \notin lost
BY ObjectIs, PathIs DEF Filed, Temporary

(* A file that is moved to a free name where it belongs.                   *)
LEMMA MoveKeepsFiled ==
  ASSUME NEW f, NEW lost, NEW edits \in Nat, Filed(f, lost, edits),
         NEW from \in Path, NEW to \in Path, from # to,
         NEW g, Carried(f, g, from, to), to # "temp",
         to = "staged" => f[from].id = "src",
         to = "backup" => f[from].id \in {"dst", "other"}
  PROVE  Filed(g, lost, edits)
<1>1. f \in [Path -> Object]
  BY FiledIs
<1>2. /\ g \in [Path -> Object] /\ g[to] = f[from] /\ g[from] = Nothing
      /\ \A p \in Path : p # from /\ p # to => g[p] = f[p]
  BY DEF Carried
<1>3. \A p \in Path : g[p].data <= edits /\ (g[p].id = "nothing" => g[p] = Nothing)
  BY <1>2, FiledIs, ObjectIs
<1>4. /\ g["staged"].id \in {"nothing", "src"}
      /\ g["temp"].id \in Temporary \union {"nothing"}
      /\ g["backup"].id \in {"nothing", "dst", "other"}
  BY <1>2, ObjectIs, PathIs DEF Filed
<1>5. \A p \in Path : g[p].id = "src" => (p # from /\ (p = to => f[from].id = "src")
                                          /\ (p # to => f[p].id = "src"))
  BY <1>2, ObjectIs
<1>6. \A p, q \in Path : g[p].id = "src" /\ g[q].id = "src" => p = q
  BY <1>5, FiledIs
<1>7. "src" \in lost => \A p \in Path : g[p].id # "src"
  BY <1>5, FiledIs
<1> QED
  BY <1>2, <1>3, <1>4, <1>6, <1>7 DEF Filed

(* A hidden file that is removed.                                          *)
Without(f, g, path) ==
  /\ g \in [Path -> Object] /\ g[path] = Nothing
  /\ \A p \in Path : p # path => g[p] = f[p]

LEMMA RemovalIs ==
  ASSUME NEW f \in [Path -> Object], NEW path \in Path
  PROVE  Without(f, [f EXCEPT ![path] = Nothing], path)
BY ObjectIs DEF Without

LEMMA RemovalKeepsFiled ==
  ASSUME NEW f, NEW lost, NEW edits \in Nat, Filed(f, lost, edits), NEW path \in Path,
         NEW g, Without(f, g, path)
  PROVE  Filed(g, lost, edits)
<1>1. f \in [Path -> Object]
  BY FiledIs
<1>2. /\ g \in [Path -> Object] /\ g[path] = Nothing
      /\ \A p \in Path : p # path => g[p] = f[p]
  BY DEF Without
<1>3. \A p \in Path : g[p].data <= edits /\ (g[p].id = "nothing" => g[p] = Nothing)
  BY <1>2, FiledIs, ObjectIs
<1>4. /\ g["staged"].id \in {"nothing", "src"}
      /\ g["temp"].id \in Temporary \union {"nothing"}
      /\ g["backup"].id \in {"nothing", "dst", "other"}
  BY <1>2, ObjectIs, PathIs DEF Filed
<1>5. \A p \in Path : g[p].id = "src" => f[p].id = "src"
  BY <1>2, ObjectIs
<1> QED
  BY <1>2, <1>3, <1>4, <1>5, FiledIs DEF Filed

(* The source is moved to its destination.                                 *)
LEMMA AtomicMoveMade ==
  ASSUME NEW f, NEW lost, NEW edits \in Nat, Filed(f, lost, edits),
         NEW it \in ItemType, it.at = "original", it.dest = "absent",
         Told(f, lost, it, "none"), f["source"].id = "src", f[it.to] = Nothing,
         NEW g, Carried(f, g, "source", it.to)
  PROVE  Filed(g, lost, edits) /\ Told(g, lost, it, "atomic_move")
<1> DEFINE to == it.to
<1>1. to \in {"destination", "copy"} /\ to \in Path /\ to # "source"
  BY ItemIs
<1> HIDE DEF to
<1>2. Carried(f, g, "source", to) /\ f[to] = Nothing
  BY DEF to
<1>3. Filed(g, lost, edits)
  BY <1>1, <1>2, PathIs, MoveKeepsFiled
<1>4. /\ g[to] = f["source"] /\ g["source"] = Nothing
      /\ \A p \in Path : p # "source" /\ p # to => g[p] = f[p]
  BY <1>2 DEF Carried
<1>5. g["staged"] = f["staged"] /\ g["temp"] = f["temp"] /\ g["backup"] = f["backup"]
  BY <1>1, <1>4, PathIs
<1>6. HiddenTold(g, it, "atomic_move")
  BY <1>5 DEF Told, HiddenTold
<1>7. CopyTold(g, lost, it, "atomic_move")
  <2>1. \A p \in Path : g[p].id \in Temporary => p # to /\ p # "source"
    BY <1>4, ObjectIs DEF Temporary
  <2>2. \A p \in Path : g[p].id \in Temporary => f[p].id \in Temporary
    BY <1>4, <2>1
  <2> QED
    BY <1>4, <1>5, <2>1, <2>2 DEF Told, CopyTold, Publishes
<1>8. SourceTold(g, lost, it, "atomic_move")
  BY <1>4 DEF SourceTold, to
<1> QED
  BY <1>3, <1>6, <1>7, <1>8 DEF Told

LEMMA AtomicMoveDone ==
  ASSUME NEW f, NEW lost, NEW edits \in Nat, Filed(f, lost, edits),
         NEW granted, NEW i, NEW it, Known("move", granted, edits, i, it),
         it.strategy = "move_undecided", it.over \in {"none", "evacuated"},
         Told(f, lost, it, "atomic_move"), f[it.to].id = "src",
         NEW n, n = Applied(it, "atomic_move", f[it.to])
  PROVE  Known("move", granted, edits, i, n) /\ Told(f, lost, n, "none")
<1> DEFINE o == f[it.to]
<1>1. /\ it \in ItemType /\ it.at = "original" /\ it.dest = "absent" /\ ~it.proof /\ ~it.token
      /\ it.to \in Path
  BY ItemIs DEF Known, LocationIsValid, ProofIsValid
<1>2. o \in Object /\ o.id = "src"
  BY <1>1, FiledIs
<1> HIDE DEF o
<1>3. /\ n \in ItemType /\ n.strategy = "move_atomic" /\ n.at = "removed"
      /\ n.dest = "published" /\ n.over = it.over /\ n.token = it.token /\ n.to = it.to
      /\ n.source = it.source /\ n.temp = o /\ n.proof = it.proof
      /\ n.auth = it.auth /\ n.backup = it.backup
  <2>1. n = [it EXCEPT !.strategy = "move_atomic", !.at = "removed", !.dest = "published",
                       !.temp = o]
    BY DEF Applied, o
  <2> HIDE DEF Applied
  <2> QED
    BY <1>1, <1>2, <2>1 DEF ItemType
<1>4. o # Nothing /\ it.source.id = "src" /\ it.source # Nothing
  BY <1>2, ObjectIs DEF Known
<1>5. SameObject(it.source, o)
  BY <1>2, <1>4, SameIs
<1>6. Known("move", granted, edits, i, n)
  <2>1. OverwriteIsValid(n)
    BY <1>3 DEF Known, OverwriteIsValid
  <2>2. LocationIsValid("move", n)
    BY <1>3 DEF LocationIsValid
  <2>3. ProofIsValid(n)
    BY <1>1, <1>3, <1>4, <1>5 DEF ProofIsValid, Streamed
  <2> QED
    BY <1>3, <2>1, <2>2, <2>3 DEF Known, Streamed
<1>7. HiddenTold(f, n, "none")
  BY <1>1, <1>3 DEF Told, HiddenTold
<1>8. CopyTold(f, lost, n, "none")
  BY <1>1, <1>3 DEF Told, CopyTold, Publishes
<1>9. SourceTold(f, lost, n, "none")
  BY <1>1, <1>2, <1>3, FiledIs DEF SourceTold, o
<1> QED
  BY <1>2, <1>3, <1>6, <1>7, <1>8, <1>9 DEF Told, o

(* The source is set aside.                                                *)
LEMMA StageMade ==
  ASSUME NEW f, NEW lost, NEW edits \in Nat, Filed(f, lost, edits),
         NEW it \in ItemType, it.at = "original", it.dest = "absent",
         Told(f, lost, it, "none"), f["source"].id = "src", f["staged"] = Nothing,
         NEW g, Carried(f, g, "source", "staged")
  PROVE  Filed(g, lost, edits) /\ Told(g, lost, it, "stage_source")
<1>3. Filed(g, lost, edits)
  BY PathIs, MoveKeepsFiled
<1>4. /\ g["staged"] = f["source"] /\ g["source"] = Nothing
      /\ \A p \in Path : p # "source" /\ p # "staged" => g[p] = f[p]
  BY DEF Carried
<1>5. g["temp"] = f["temp"] /\ g["backup"] = f["backup"]
  BY <1>4, PathIs
<1>6. HiddenTold(g, it, "stage_source")
  BY <1>5 DEF Told, HiddenTold
<1>7. CopyTold(g, lost, it, "stage_source")
  <2>1. \A p \in Path : g[p].id \in Temporary => p # "staged" /\ p # "source"
    BY <1>4, ObjectIs DEF Temporary
  <2>2. \A p \in Path : g[p].id \in Temporary => f[p].id \in Temporary
    BY <1>4, <2>1
  <2> QED
    BY <1>4, <1>5, <2>1, <2>2 DEF Told, CopyTold, Publishes
<1>8. SourceTold(g, lost, it, "stage_source")
  BY <1>4 DEF SourceTold
<1> QED
  BY <1>3, <1>6, <1>7, <1>8 DEF Told

LEMMA StageDone ==
  ASSUME NEW f, NEW lost, NEW edits \in Nat, Filed(f, lost, edits),
         NEW granted, NEW i, NEW it, Known("move", granted, edits, i, it),
         it.strategy = "move_stream", it.at = "original", it.dest = "absent",
         Told(f, lost, it, "stage_source"), f["staged"].id = "src",
         NEW n, n = Applied(it, "stage_source", f["staged"])
  PROVE  Known("move", granted, edits, i, n) /\ Told(f, lost, n, "none")
<1> DEFINE o == f["staged"]
<1>1. it \in ItemType /\ o \in Object /\ o.id = "src" /\ o.data <= edits
  BY FiledIs, PathIs DEF Known
<1> HIDE DEF o
<1>3. /\ n \in ItemType /\ n.strategy = it.strategy /\ n.at = "staged"
      /\ n.dest = it.dest /\ n.over = it.over /\ n.token = it.token /\ n.to = it.to
      /\ n.source = o /\ n.temp = it.temp /\ n.proof = it.proof
      /\ n.auth = it.auth /\ n.backup = it.backup
  <2>1. n = [it EXCEPT !.at = "staged", !.source = o]
    BY DEF Applied, o
  <2> QED
    BY <1>1, <2>1 DEF ItemType
<1>6. Known("move", granted, edits, i, n)
  <2>1. OverwriteIsValid(n)
    BY <1>3 DEF Known, OverwriteIsValid
  <2>2. LocationIsValid("move", n)
    BY <1>3 DEF LocationIsValid
  <2>3. ProofIsValid(n)
    BY <1>3 DEF Known, ProofIsValid
  <2> QED
    BY <1>1, <1>3, <2>1, <2>2, <2>3 DEF Known, Streamed
<1>7. HiddenTold(f, n, "none")
  BY <1>1, <1>3 DEF Told, HiddenTold
<1>8. CopyTold(f, lost, n, "none")
  BY <1>1, <1>3 DEF Told, CopyTold, Publishes
<1>9. SourceTold(f, lost, n, "none")
  BY <1>1, <1>3 DEF SourceTold, o
<1> QED
  BY <1>3, <1>6, <1>7, <1>8, <1>9 DEF Told

(* The whole copy is published.                                            *)
LEMMA PublishMade ==
  ASSUME NEW f, NEW lost, NEW edits \in Nat, Filed(f, lost, edits),
         NEW kind, NEW granted, NEW i, NEW it, Known(kind, granted, edits, i, it),
         Streamed(it), it.dest = "content_ready",
         Told(f, lost, it, "none"), f["temp"] = it.temp, f[it.to] = Nothing,
         NEW g, Carried(f, g, "temp", it.to)
  PROVE  Filed(g, lost, edits) /\ Told(g, lost, it, "publish_temp")
<1> DEFINE to == it.to
<1>1. it \in ItemType /\ it.temp.id = "whole" /\ it.source.data <= it.temp.data
  BY DEF Known
<1>2. to \in {"destination", "copy"} /\ to \in Path /\ to # "temp" /\ to # "staged" /\ to # "backup"
  BY <1>1, ItemIs
<1>3. it.at \in {"original", "staged"}
  BY DEF Known, LocationIsValid, Streamed
<1>4. f[to] = Nothing /\ Carried(f, g, "temp", to)
  BY DEF to
<1> HIDE DEF to
<1>5. Filed(g, lost, edits)
  BY <1>2, <1>4, PathIs, MoveKeepsFiled
<1>6. /\ g[to] = it.temp /\ g["temp"] = Nothing
      /\ \A p \in Path : p # "temp" /\ p # to => g[p] = f[p]
  BY <1>4 DEF Carried
<1>7. g["staged"] = f["staged"] /\ g["backup"] = f["backup"] /\ g["source"] = f["source"]
  BY <1>2, <1>6, PathIs
<1>8. HiddenTold(g, it, "publish_temp")
  BY <1>6, <1>7 DEF Told, HiddenTold
<1>9. CopyTold(g, lost, it, "publish_temp")
  <2>1. \A p \in Path \ {"temp"} : g[p].id \in Temporary => p = to
    BY <1>6 DEF Told, CopyTold, to
  <2>2. it.temp # Nothing
    BY <1>1, ObjectIs
  <2>3. "whole" \notin lost
    BY <2>2 DEF Told, CopyTold
  <2> QED
    BY <1>1, <1>6, <2>1, <2>3 DEF CopyTold, Publishes, to
<1>10. SourceTold(g, lost, it, "publish_temp")
  BY <1>3, <1>7 DEF Told, SourceTold
<1> QED
  BY <1>5, <1>8, <1>9, <1>10 DEF Told

LEMMA PublishDone ==
  ASSUME NEW f, NEW lost, NEW edits \in Nat, Filed(f, lost, edits),
         NEW kind, NEW granted, NEW i, NEW it, Known(kind, granted, edits, i, it),
         Streamed(it), it.dest = "content_ready", it.over \in {"none", "evacuated"},
         Told(f, lost, it, "publish_temp"), f[it.to].id \in Temporary,
         NEW n, n = Applied(it, "publish_temp", f[it.to])
  PROVE  Known(kind, granted, edits, i, n) /\ Told(f, lost, n, "none")
<1> DEFINE o == f[it.to]
<1>1. it \in ItemType /\ it.to \in Path \ {"temp"}
  BY ItemIs, PathIs DEF Known
<1>2. /\ o \in Object /\ o.id = "whole" /\ it.source.data <= o.data
      /\ f["temp"] = Nothing
  BY <1>1, FiledIs DEF Told, CopyTold
<1> HIDE DEF o
<1>3. /\ n \in ItemType /\ n.strategy = it.strategy /\ n.at = it.at
      /\ n.dest = "published" /\ n.over = it.over /\ n.token = it.token /\ n.to = it.to
      /\ n.source = it.source /\ n.temp = o /\ n.proof = it.proof
      /\ n.auth = it.auth /\ n.backup = it.backup
  <2>1. n = [it EXCEPT !.dest = "published", !.temp = o]
    BY DEF Applied, o
  <2> QED
    BY <1>1, <1>2, <2>1 DEF ItemType
<1>4. o # Nothing
  BY <1>2, ObjectIs
<1>5. Known(kind, granted, edits, i, n)
  <2>1. OverwriteIsValid(n)
    BY <1>3 DEF Known, OverwriteIsValid
  <2>2. LocationIsValid(kind, n)
    BY <1>3 DEF Known, LocationIsValid, Streamed
  <2>3. ProofIsValid(n)
    BY <1>3, <1>4 DEF Known, ProofIsValid, Streamed
  <2>4. n.strategy = "move_undecided" => ~n.token
    BY <1>3 DEF Known
  <2> QED
    BY <1>2, <1>3, <2>1, <2>2, <2>3, <2>4 DEF Known, Streamed
<1>6. HiddenTold(f, n, "none")
  BY <1>2, <1>3 DEF Told, HiddenTold
<1>7. CopyTold(f, lost, n, "none")
  BY <1>2, <1>3 DEF Told, CopyTold, Publishes, Streamed
<1>8. SourceTold(f, lost, n, "none")
  BY <1>3 DEF Told, SourceTold
<1>9. \E id \in {"src", "whole"} : f[n.to].id = id \/ id \in lost
  BY <1>2, <1>3 DEF o
<1> QED
  BY <1>5, <1>6, <1>7, <1>8, <1>9 DEF Told

(* The staged source is put back.                                          *)
LEMMA RestoreMade ==
  ASSUME NEW f, NEW lost, NEW edits \in Nat, Filed(f, lost, edits),
         NEW it \in ItemType, it.at = "staged", it.dest = "absent",
         Told(f, lost, it, "restore_staged_source"), f["staged"].id = "src",
         NEW g, Carried(f, g, "staged", "source")
  PROVE  Filed(g, lost, edits) /\ Told(g, lost, it, "restore_staged_source")
<1>1. Filed(g, lost, edits)
  BY PathIs, MoveKeepsFiled
<1>2. /\ g["source"] = f["staged"] /\ g["staged"] = Nothing
      /\ \A p \in Path : p # "staged" /\ p # "source" => g[p] = f[p]
  BY DEF Carried
<1>3. g["temp"] = f["temp"] /\ g["backup"] = f["backup"]
  BY <1>2, PathIs
<1>4. HiddenTold(g, it, "restore_staged_source")
  BY <1>2, <1>3 DEF Told, HiddenTold
<1>5. CopyTold(g, lost, it, "restore_staged_source")
  <2>1. \A p \in Path : g[p].id \in Temporary => p # "staged" /\ p # "source"
    BY <1>2, ObjectIs DEF Temporary
  <2>2. \A p \in Path : g[p].id \in Temporary => g[p] = f[p]
    BY <1>2, <2>1
  <2> QED
    BY <1>3, <2>2 DEF Told, CopyTold, Publishes
<1>6. SourceTold(g, lost, it, "restore_staged_source")
  BY <1>2 DEF SourceTold
<1> QED
  BY <1>1, <1>4, <1>5, <1>6 DEF Told

LEMMA RestoreDone ==
  ASSUME NEW f, NEW lost, NEW edits \in Nat, Filed(f, lost, edits),
         NEW kind, NEW granted, NEW i, NEW it, Known(kind, granted, edits, i, it),
         it.strategy = "move_stream", it.at = "staged", it.dest = "absent",
         Told(f, lost, it, "restore_staged_source"), f["source"].id = "src",
         NEW n, n = Applied(it, "restore_staged_source", f["source"])
  PROVE  Known(kind, granted, edits, i, n) /\ Told(f, lost, n, "none")
<1> DEFINE o == f["source"]
<1>1. it \in ItemType /\ o \in Object /\ o.id = "src" /\ o.data <= edits
  BY FiledIs, PathIs DEF Known
<1> HIDE DEF o
<1>2. /\ n \in ItemType /\ n.strategy = it.strategy /\ n.at = "original"
      /\ n.dest = it.dest /\ n.over = it.over /\ n.token = it.token /\ n.to = it.to
      /\ n.source = o /\ n.temp = it.temp /\ n.proof = it.proof
      /\ n.auth = it.auth /\ n.backup = it.backup
  <2>1. n = [it EXCEPT !.at = "original", !.source = o]
    BY DEF Applied, o
  <2> QED
    BY <1>1, <2>1 DEF ItemType
<1>3. Known(kind, granted, edits, i, n)
  <2>1. OverwriteIsValid(n)
    BY <1>2 DEF Known, OverwriteIsValid
  <2>2. LocationIsValid(kind, n)
    BY <1>2 DEF Known, LocationIsValid
  <2>3. ProofIsValid(n)
    BY <1>2 DEF Known, ProofIsValid
  <2> QED
    BY <1>1, <1>2, <2>1, <2>2, <2>3 DEF Known, Streamed
<1>4. f["staged"] = Nothing /\ f["temp"] = Nothing
  BY <1>1, FiledIs, PathIs DEF Told, HiddenTold, o
<1>5. HiddenTold(f, n, "none")
  BY <1>2, <1>4 DEF Told, HiddenTold
<1>6. CopyTold(f, lost, n, "none")
  BY <1>2 DEF Told, CopyTold, Publishes
<1>7. SourceTold(f, lost, n, "none")
  BY <1>1, <1>2 DEF SourceTold, o
<1> QED
  BY <1>2, <1>3, <1>5, <1>6, <1>7 DEF Told

(* A file that may be overwritten makes room, edited on its way or not.    *)
LEMMA EvacuateMade ==
  ASSUME NEW f, NEW lost, NEW edits \in Nat, Filed(f, lost, edits),
         NEW it \in ItemType, it.auth.id \in {"dst", "other"},
         Told(f, lost, it, "none"), f[it.to] = it.auth, f["backup"] = Nothing,
         NEW later \in Nat, edits <= later,
         NEW g \in [Path -> Object], g[it.to] = Nothing,
         SameObject(g["backup"], it.auth), g["backup"].data <= later,
         \A p \in Path : p # it.to /\ p # "backup" => g[p] = f[p]
  PROVE  Filed(g, lost, later) /\ Told(g, lost, it, "evacuate_overwrite_destination")
<1> DEFINE to == it.to
<1> DEFINE b == g["backup"]
<1>1. to \in {"destination", "copy"} /\ to \in Path
  BY ItemIs
<1>2. f[to] = it.auth /\ g[to] = Nothing /\ \A p \in Path : p # to /\ p # "backup" => g[p] = f[p]
  BY DEF to
<1>3. b \in Object /\ b # Nothing /\ b.id \in {"dst", "other"} /\ b.data <= later
  BY SameIs, PathIs DEF Temporary
<1>4. g["backup"] = b
  BY DEF b
<1> HIDE DEF to, b
<1>5. \A p \in Path : g[p] = f[p] \/ (p = to /\ g[p] = Nothing) \/ (p = "backup" /\ g[p] = b)
  BY <1>2, <1>4
<1>6. g["staged"] = f["staged"] /\ g["temp"] = f["temp"] /\ g["source"] = f["source"]
  BY <1>1, <1>2, PathIs
<1>7. \A p \in Path : g[p].id \in Temporary \union {"src"} => g[p] = f[p] /\ p # to
  BY <1>2, <1>3, <1>5, ObjectIs DEF Temporary
<1>8. Filed(g, lost, later)
  <2>1. \A p \in Path : g[p].data <= later /\ (g[p].id = "nothing" => g[p] = Nothing)
    <3> SUFFICES ASSUME NEW p \in Path
                 PROVE  g[p].data <= later /\ (g[p].id = "nothing" => g[p] = Nothing)
      OBVIOUS
    <3>1. f[p] \in Object /\ f[p].data <= edits /\ (f[p].id = "nothing" => f[p] = Nothing)
      BY FiledIs
    <3>2. f[p].data \in Nat
      BY <3>1, ObjectIs
    <3>3. f[p].data <= later
      BY <3>1, <3>2
    <3> QED
      BY <3>1, <3>3, <1>3, <1>5, ObjectIs
  <2>2. \A p, q \in Path : g[p].id = "src" /\ g[q].id = "src" => p = q
    BY <1>7, FiledIs
  <2>3. "src" \in lost => \A p \in Path : g[p].id # "src"
    BY <1>7, FiledIs
  <2> QED
    BY <1>3, <1>4, <1>6, <2>1, <2>2, <2>3 DEF Filed
<1>9. HiddenTold(g, it, "evacuate_overwrite_destination")
  BY <1>6 DEF Told, HiddenTold
<1>10. CopyTold(g, lost, it, "evacuate_overwrite_destination")
  BY <1>6, <1>7 DEF Told, CopyTold, Publishes
<1>11. SourceTold(g, lost, it, "evacuate_overwrite_destination")
  <2>1. it.at = "removed" => \A p \in Path : g[p].id = "src" => p = it.to
    BY <1>7 DEF Told, SourceTold
  <2> QED
    BY <1>6, <2>1 DEF Told, SourceTold
<1>12. it.dest = "published" => \E id \in {"src", "whole"} : g[it.to].id = id \/ id \in lost
  BY <1>2 DEF Told, to
<1> QED
  BY <1>8, <1>9, <1>10, <1>11, <1>12 DEF Told

EvacuatedAs(it, n, o, over) == n = [it EXCEPT !.backup = o, !.over = over]

LEMMA EvacuateDone ==
  ASSUME NEW f, NEW lost, NEW edits,
         NEW kind, NEW granted, NEW i, NEW it, Known(kind, granted, edits, i, it),
         it.over = "authorized", it.dest # "published",
         Told(f, lost, it, "evacuate_overwrite_destination"),
         NEW o \in Object, SameObject(o, it.auth),
         NEW over \in {"evacuated", "evacuated_unexpected"}, over = "evacuated" => o = it.auth,
         NEW n, EvacuatedAs(it, n, o, over)
  PROVE  Known(kind, granted, edits, i, n) /\ Told(f, lost, n, "none")
<1>1. it \in ItemType
  BY DEF Known
<1>2. /\ n \in ItemType /\ n.strategy = it.strategy /\ n.at = it.at
      /\ n.dest = it.dest /\ n.over = over /\ n.token = it.token /\ n.to = it.to
      /\ n.source = it.source /\ n.temp = it.temp /\ n.proof = it.proof
      /\ n.auth = it.auth /\ n.backup = o
  BY <1>1 DEF ItemType, EvacuatedAs
<1>3. Known(kind, granted, edits, i, n)
  <2>1. OverwriteIsValid(n)
    BY <1>2, SameIs DEF Known, OverwriteIsValid
  <2>2. LocationIsValid(kind, n)
    BY <1>2 DEF Known, LocationIsValid
  <2>3. ProofIsValid(n)
    BY <1>2 DEF Known, ProofIsValid, Streamed
  <2> QED
    BY <1>2, <2>1, <2>2, <2>3 DEF Known, Streamed
<1>4. HiddenTold(f, n, "none")
  BY <1>2 DEF Told, HiddenTold
<1>5. CopyTold(f, lost, n, "none")
  BY <1>2 DEF Told, CopyTold, Publishes, Streamed
<1>6. SourceTold(f, lost, n, "none")
  BY <1>2 DEF Told, SourceTold
<1> QED
  BY <1>2, <1>3, <1>4, <1>5, <1>6 DEF Told

(* It is put back.                                                         *)
LEMMA PutBackMade ==
  ASSUME NEW f, NEW lost, NEW edits \in Nat, Filed(f, lost, edits),
         NEW it \in ItemType, it.dest # "published",
         Told(f, lost, it, "none"), f["backup"] # Nothing, f[it.to] = Nothing,
         NEW g, Carried(f, g, "backup", it.to)
  PROVE  Filed(g, lost, edits) /\ Told(g, lost, it, "restore_overwrite_destination")
<1> DEFINE to == it.to
<1>1. to \in {"destination", "copy"} /\ to \in Path
  BY ItemIs
<1>2. Carried(f, g, "backup", to) /\ f[to] = Nothing
  BY DEF to
<1>3. f["backup"].id \in {"dst", "other"}
  BY FiledIs
<1> HIDE DEF to
<1>4. Filed(g, lost, edits)
  BY <1>1, <1>2, PathIs, MoveKeepsFiled
<1>5. /\ g[to] = f["backup"] /\ g["backup"] = Nothing
      /\ \A p \in Path : p # "backup" /\ p # to => g[p] = f[p]
  BY <1>2 DEF Carried
<1>6. g["staged"] = f["staged"] /\ g["temp"] = f["temp"] /\ g["source"] = f["source"]
  BY <1>1, <1>5, PathIs
<1>7. \A p \in Path : g[p].id \in Temporary \union {"src"} => g[p] = f[p]
  <2> SUFFICES ASSUME NEW p \in Path, g[p].id \in Temporary \union {"src"}
               PROVE  g[p] = f[p]
    OBVIOUS
  <2>1. p # to /\ p # "backup"
    BY <1>3, <1>5, ObjectIs DEF Temporary
  <2> QED
    BY <1>5, <2>1
<1>8. HiddenTold(g, it, "restore_overwrite_destination")
  BY <1>5, <1>6 DEF Told, HiddenTold
<1>9. CopyTold(g, lost, it, "restore_overwrite_destination")
  BY <1>6, <1>7 DEF Told, CopyTold, Publishes
<1>10. SourceTold(g, lost, it, "restore_overwrite_destination")
  <2>1. it.at = "removed" => \A p \in Path : g[p].id = "src" => p = it.to
    BY <1>7 DEF Told, SourceTold
  <2> QED
    BY <1>6, <2>1 DEF Told, SourceTold
<1> QED
  BY <1>4, <1>8, <1>9, <1>10 DEF Told

(* The overwriting is forgotten once the evacuated file is back or gone.   *)
LEMMA OverwriteDone ==
  ASSUME NEW f, NEW lost, NEW edits,
         NEW kind, NEW granted, NEW i, NEW it, Known(kind, granted, edits, i, it),
         NEW step \in {"restore_overwrite_destination", "cleanup_overwrite_destination"},
         Told(f, lost, it, step), f["backup"] = Nothing,
         NEW n, n = ClearOverwrite(it)
  PROVE  Known(kind, granted, edits, i, n) /\ Told(f, lost, n, "none")
<1>1. it \in ItemType /\ Nothing \in Object
  BY ObjectIs DEF Known
<1>2. /\ n \in ItemType /\ n.strategy = it.strategy /\ n.at = it.at
      /\ n.dest = it.dest /\ n.over = "none" /\ n.token = it.token /\ n.to = it.to
      /\ n.source = it.source /\ n.temp = it.temp /\ n.proof = it.proof
      /\ n.auth = Nothing /\ n.backup = Nothing
  BY <1>1 DEF ItemType, ClearOverwrite
<1>3. Known(kind, granted, edits, i, n)
  <2>1. OverwriteIsValid(n)
    BY <1>2 DEF OverwriteIsValid
  <2>2. LocationIsValid(kind, n)
    BY <1>2 DEF Known, LocationIsValid
  <2>3. ProofIsValid(n)
    BY <1>2 DEF Known, ProofIsValid, Streamed
  <2> QED
    BY <1>2, <2>1, <2>2, <2>3 DEF Known, Streamed
<1>4. HiddenTold(f, n, "none")
  BY <1>2 DEF Told, HiddenTold
<1>5. CopyTold(f, lost, n, "none")
  BY <1>2 DEF Told, CopyTold, Publishes, Streamed
<1>6. SourceTold(f, lost, n, "none")
  BY <1>2 DEF Told, SourceTold
<1> QED
  BY <1>2, <1>3, <1>4, <1>5, <1>6 DEF Told

(* What is at the backup is the file that was evacuated to it.             *)
LEMMA BackupIs ==
  ASSUME NEW f, NEW lost, NEW edits \in Nat, Filed(f, lost, edits),
         NEW kind, NEW granted, NEW i, NEW it, Known(kind, granted, edits, i, it),
         it.over \in {"evacuated", "evacuated_unexpected"}, NEW step, Told(f, lost, it, step),
         ~SameObject(f["backup"], it.backup)
  PROVE  f["backup"] = Nothing
<1> SUFFICES ASSUME f["backup"] # Nothing PROVE FALSE
  OBVIOUS
<1>1. SameObject(f["backup"], it.auth) /\ SameObject(it.backup, it.auth)
  BY DEF Told, HiddenTold, Known
<1>2. f["backup"].id \in {"dst", "other"}
  BY FiledIs
<1> QED
  BY <1>1, <1>2 DEF SameObject, Temporary

(* Something hidden is removed.                                            *)
LEMMA DeleteMade ==
  ASSUME NEW f, NEW lost, NEW edits \in Nat, Filed(f, lost, edits),
         NEW it \in ItemType, Told(f, lost, it, "none"),
         NEW path, NEW step,
         \/ path = "temp" /\ step = "cleanup_temp"
         \/ path = "backup" /\ step = "cleanup_overwrite_destination"
         \/ path = "staged" /\ step = "delete_source" /\ it.at = "staged",
         NEW g, Without(f, g, path)
  PROVE  Told(g, lost, it, step)
<1>0. /\ g \in [Path -> Object] /\ g[path] = Nothing
      /\ \A p \in Path : p # path => g[p] = f[p]
  BY DEF Without
<1>1. path \in Path /\ it.to \in Path /\ it.to # path /\ path \in Hidden
  BY ItemIs, PathIs DEF Hidden
<1>2. g[it.to] = f[it.to]
  BY <1>0, <1>1
<1>3. \A p \in Path : g[p].id \in Temporary \union {"src"} => g[p] = f[p]
  BY <1>0, ObjectIs DEF Temporary
<1>4. \A p \in Path : g[p] # Nothing => g[p] = f[p]
  BY <1>0
<1>5. HiddenTold(g, it, step)
  BY <1>4, PathIs DEF Told, HiddenTold
<1>6. CopyTold(g, lost, it, step)
  BY <1>3, <1>4, PathIs DEF Told, CopyTold, Publishes
<1>7. SourceTold(g, lost, it, step)
  <2>1. g["source"] = f["source"] /\ (path # "staged" => g["staged"] = f["staged"])
    BY <1>0, PathIs
  <2>2. it.at = "removed" => \A p \in Path : g[p].id = "src" => p = it.to
    BY <1>3 DEF Told, SourceTold
  <2> QED
    BY <2>1, <2>2 DEF Told, SourceTold
<1> QED
  BY <1>2, <1>5, <1>6, <1>7 DEF Told

LEMMA DiscardDone ==
  ASSUME NEW f, NEW lost, NEW edits,
         NEW kind, NEW granted, NEW i, NEW it, Known(kind, granted, edits, i, it),
         Streamed(it), it.dest \in {"temp_reserved", "content_ready"},
         Told(f, lost, it, "cleanup_temp"), f["temp"] = Nothing,
         NEW n, n = ClearProof(it)
  PROVE  Known(kind, granted, edits, i, n) /\ Told(f, lost, n, "none")
<1>1. it \in ItemType /\ Nothing \in Object
  BY ObjectIs DEF Known
<1>2. /\ n \in ItemType /\ n.strategy = it.strategy /\ n.at = it.at
      /\ n.dest = "absent" /\ n.over = it.over /\ n.token = FALSE /\ n.to = it.to
      /\ n.source = it.source /\ n.temp = Nothing /\ n.proof = FALSE
      /\ n.auth = it.auth /\ n.backup = it.backup
  BY <1>1 DEF ItemType, ClearProof
<1>3. Known(kind, granted, edits, i, n)
  <2>1. OverwriteIsValid(n)
    BY <1>2 DEF Known, OverwriteIsValid
  <2>2. LocationIsValid(kind, n)
    BY <1>2 DEF Known, LocationIsValid, Streamed
  <2>3. ProofIsValid(n)
    BY <1>2 DEF Known, ProofIsValid, Streamed
  <2> QED
    BY <1>2, <2>1, <2>2, <2>3 DEF Known, Streamed
<1>4. HiddenTold(f, n, "none")
  BY <1>2 DEF Told, HiddenTold
<1>5. CopyTold(f, lost, n, "none")
  BY <1>2 DEF Told, CopyTold, Publishes, Streamed
<1>6. SourceTold(f, lost, n, "none")
  BY <1>2 DEF Told, SourceTold
<1> QED
  BY <1>2, <1>3, <1>4, <1>5, <1>6 DEF Told

LEMMA DeleteSourceDone ==
  ASSUME NEW f, NEW lost, NEW edits,
         NEW kind, NEW granted, NEW i, NEW it, Known(kind, granted, edits, i, it),
         it.strategy = "move_stream", it.dest = "published",
         Told(f, lost, it, "delete_source"), \A p \in Path : f[p].id # "src",
         f["staged"] = Nothing,
         NEW n, n = [it EXCEPT !.at = "removed"]
  PROVE  Known(kind, granted, edits, i, n) /\ Told(f, lost, n, "none")
<1>1. it \in ItemType
  BY DEF Known
<1>2. /\ n \in ItemType /\ n.strategy = it.strategy /\ n.at = "removed"
      /\ n.dest = it.dest /\ n.over = it.over /\ n.token = it.token /\ n.to = it.to
      /\ n.source = it.source /\ n.temp = it.temp /\ n.proof = it.proof
      /\ n.auth = it.auth /\ n.backup = it.backup
  BY <1>1 DEF ItemType
<1>3. Known(kind, granted, edits, i, n)
  <2>1. OverwriteIsValid(n)
    BY <1>2 DEF Known, OverwriteIsValid
  <2>2. LocationIsValid(kind, n)
    BY <1>2 DEF Known, LocationIsValid
  <2>3. ProofIsValid(n)
    BY <1>2 DEF Known, ProofIsValid, Streamed
  <2> QED
    BY <1>2, <2>1, <2>2, <2>3 DEF Known, Streamed
<1>4. HiddenTold(f, n, "none")
  BY <1>2 DEF Told, HiddenTold
<1>5. CopyTold(f, lost, n, "none")
  BY <1>2 DEF Told, CopyTold, Publishes, Streamed
<1>6. SourceTold(f, lost, n, "none")
  BY <1>2 DEF SourceTold
<1> QED
  BY <1>2, <1>3, <1>4, <1>5, <1>6 DEF Told

-----------------------------------------------------------------------------
(* A rename or a removal on record, made or not.                           *)

LEMMA StepFacts ==
  ASSUME NEW t, NEW granted, NEW edits, Sound(t, granted, edits), t.step # "none",
         NEW it, it = t.items[Unfinished(t)]
  PROVE  /\ Known(t.kind, granted, edits, Unfinished(t), it) /\ it \in ItemType
         /\ t.step = "atomic_move" =>
              /\ t.kind = "move" /\ it.strategy = "move_undecided" /\ it.at = "original"
              /\ it.dest = "absent" /\ it.over \in {"none", "evacuated"}
         /\ t.step = "stage_source" =>
              /\ t.kind = "move" /\ it.strategy = "move_stream" /\ it.at = "original"
              /\ it.dest = "absent"
         /\ t.step = "publish_temp" =>
              Streamed(it) /\ it.dest = "content_ready" /\ it.over \in {"none", "evacuated"}
         /\ t.step = "delete_source" =>
              it.strategy = "move_stream" /\ it.at = "staged" /\ it.dest = "published"
         /\ t.step = "restore_staged_source" =>
              it.strategy = "move_stream" /\ it.at = "staged" /\ it.dest = "absent"
         /\ t.step = "cleanup_temp" =>
              Streamed(it) /\ it.dest \in {"temp_reserved", "content_ready"}
         /\ t.step = "evacuate_overwrite_destination" =>
              /\ it.over = "authorized" /\ it.dest # "published"
              /\ it.auth.id \in {"dst", "other"}
         /\ t.step = "restore_overwrite_destination" =>
              it.over \in {"evacuated", "evacuated_unexpected"} /\ it.dest # "published"
         /\ t.step = "cleanup_overwrite_destination" => it.over = "evacuated"
<1>1. /\ Unfinished(t) \in Items /\ StepIsValid(t)
      /\ Known(t.kind, granted, edits, Unfinished(t), it)
      /\ t.step = "restore_staged_source" => it.dest = "absent"
  <2>1. Unfinished(t) \in Items /\ Known(t.kind, granted, edits, Unfinished(t), it)
    BY SoundIs
  <2>2. StepIsValid(t)
    BY DEF Sound, Valid
  <2> QED
    BY <2>1, <2>2 DEF Sound
<1>2. it \in ItemType /\ LocationIsValid(t.kind, it) /\ OverwriteIsValid(it)
  BY <1>1 DEF Known
<1>3. t.step = "atomic_move" =>
        /\ t.kind = "move" /\ it.strategy = "move_undecided" /\ it.at = "original"
        /\ it.dest = "absent" /\ it.over \in {"none", "evacuated"}
  BY <1>1, <1>2 DEF StepIsValid, LocationIsValid
<1>4. t.step = "stage_source" =>
        /\ t.kind = "move" /\ it.strategy = "move_stream" /\ it.at = "original"
        /\ it.dest = "absent"
  BY <1>1, <1>2 DEF StepIsValid, LocationIsValid
<1>5. t.step = "publish_temp" =>
        Streamed(it) /\ it.dest = "content_ready" /\ it.over \in {"none", "evacuated"}
  BY <1>1 DEF StepIsValid
<1>6. t.step = "delete_source" =>
        it.strategy = "move_stream" /\ it.at = "staged" /\ it.dest = "published"
  BY <1>1 DEF StepIsValid
<1>7. t.step = "restore_staged_source" =>
        it.strategy = "move_stream" /\ it.at = "staged" /\ it.dest = "absent"
  BY <1>1 DEF StepIsValid
<1>8. t.step = "cleanup_temp" =>
        Streamed(it) /\ it.dest \in {"temp_reserved", "content_ready"}
  BY <1>1 DEF StepIsValid
<1>9. t.step = "evacuate_overwrite_destination" =>
        /\ it.over = "authorized" /\ it.dest # "published"
        /\ it.auth.id \in {"dst", "other"}
  <2>1. t.step = "evacuate_overwrite_destination" =>
          it.over = "authorized" /\ it.dest # "published"
    BY <1>1 DEF StepIsValid
  <2>2. it.over = "authorized" => it.auth # Nothing
    BY <1>2 DEF OverwriteIsValid
  <2>3. it.auth = Nothing \/ it.auth.id \in {"dst", "other"}
    BY <1>1 DEF Known
  <2> QED
    BY <2>1, <2>2, <2>3
<1>10. t.step = "restore_overwrite_destination" =>
         it.over \in {"evacuated", "evacuated_unexpected"} /\ it.dest # "published"
  BY <1>1 DEF StepIsValid
<1>11. t.step = "cleanup_overwrite_destination" => it.over = "evacuated"
  BY <1>1 DEF StepIsValid
<1> QED
  BY <1>1, <1>2, <1>3, <1>4, <1>5, <1>6, <1>7, <1>8, <1>9, <1>10, <1>11

(* The paths of a rename, and the file it expects.                         *)
LEMMA RenameIs ==
  ASSUME NEW it \in ItemType, NEW step \in RenameSteps
  PROVE  LET r == RenameOf(it, step) IN
           /\ r.from \in Path /\ r.to \in Path /\ r.from # r.to
           /\ r.from \in Hidden <=>
                step \in {"publish_temp", "restore_staged_source", "restore_overwrite_destination"}
<1>1. it.to \in {"destination", "copy"}
  BY DEF ItemType
<1> QED
  BY <1>1, PathIs DEF RenameOf, RenameSteps, Hidden

LEMMA RenameMade ==
  ASSUME NEW t, NEW granted, NEW edits \in Nat, Sound(t, granted, edits),
         NEW it, it = t.items[Unfinished(t)], t.step \in RenameSteps,
         NEW f, NEW lost, Filed(f, lost, edits),
         Told(f, lost, it, "none"), Told(f, lost, it, t.step),
         NEW r, r = RenameOf(it, t.step), f[r.from] = r.expected, f[r.to] = Nothing,
         NEW g, Carried(f, g, r.from, r.to),
         NEW n, n = Applied(it, t.step, f[r.from])
  PROVE  /\ Filed(g, lost, edits) /\ Told(g, lost, it, t.step)
         /\ Known(t.kind, granted, edits, Unfinished(t), n) /\ Told(g, lost, n, "none")
<1> DEFINE i == Unfinished(t)
<1>1. Known(t.kind, granted, edits, i, it) /\ it \in ItemType /\ it.source.id = "src"
  BY StepFacts DEF RenameSteps, Known
<1>1a. g[r.to] = f[r.from] /\ g[r.from] = Nothing
  BY DEF Carried
<1> HIDE DEF i
<1>2. CASE t.step = "atomic_move"
  <2>1. /\ t.kind = "move" /\ it.strategy = "move_undecided" /\ it.at = "original"
        /\ it.dest = "absent" /\ it.over \in {"none", "evacuated"}
    BY <1>2, StepFacts
  <2>2. r.from = "source" /\ r.to = it.to /\ r.expected = it.source
    BY <1>2 DEF RenameOf
  <2>3. f["source"].id = "src" /\ f[it.to] = Nothing /\ Carried(f, g, "source", it.to)
    BY <1>1, <2>2
  <2>4. Filed(g, lost, edits) /\ Told(g, lost, it, "atomic_move")
    BY <1>1, <1>2, <2>1, <2>3, AtomicMoveMade
  <2>5. g[it.to] = f["source"] /\ n = Applied(it, "atomic_move", g[it.to])
    BY <1>2, <1>1a, <2>2
  <2>6. g[it.to].id = "src"
    BY <2>3, <2>5
  <2>7. Known("move", granted, edits, i, it)
    BY <1>1, <2>1
  <2>8. Known("move", granted, edits, i, n) /\ Told(g, lost, n, "none")
    BY <2>1, <2>4, <2>5, <2>6, <2>7, AtomicMoveDone
  <2> QED
    BY <1>2, <2>1, <2>4, <2>8 DEF i
<1>3. CASE t.step = "stage_source"
  <2>1. /\ t.kind = "move" /\ it.strategy = "move_stream" /\ it.at = "original"
        /\ it.dest = "absent"
    BY <1>3, StepFacts
  <2>2. r.from = "source" /\ r.to = "staged" /\ r.expected = it.source
    BY <1>3 DEF RenameOf
  <2>3. f["source"].id = "src" /\ f["staged"] = Nothing /\ Carried(f, g, "source", "staged")
    BY <1>1, <2>2
  <2>4. Filed(g, lost, edits) /\ Told(g, lost, it, "stage_source")
    BY <1>1, <1>3, <2>1, <2>3, StageMade
  <2>5. g["staged"] = f["source"] /\ n = Applied(it, "stage_source", g["staged"])
    BY <1>3, <1>1a, <2>2
  <2>6. g["staged"].id = "src" /\ Known("move", granted, edits, i, it)
    BY <1>1, <2>1, <2>3, <2>5
  <2>7. Known("move", granted, edits, i, n) /\ Told(g, lost, n, "none")
    BY <2>1, <2>4, <2>5, <2>6, StageDone
  <2> QED
    BY <1>3, <2>1, <2>4, <2>7 DEF i
<1>4. CASE t.step = "publish_temp"
  <2>1. Streamed(it) /\ it.dest = "content_ready" /\ it.over \in {"none", "evacuated"}
    BY <1>4, StepFacts
  <2>2. r.from = "temp" /\ r.to = it.to /\ r.expected = it.temp
    BY <1>4 DEF RenameOf
  <2>3. f["temp"] = it.temp /\ f[it.to] = Nothing /\ Carried(f, g, "temp", it.to)
    BY <2>2
  <2>4. Filed(g, lost, edits) /\ Told(g, lost, it, "publish_temp")
    BY <1>1, <2>1, <2>3, PublishMade
  <2>5. g[it.to] = it.temp /\ n = Applied(it, "publish_temp", g[it.to])
    BY <1>4, <1>1a, <2>2, <2>3
  <2>6. g[it.to].id \in Temporary
    BY <1>1, <2>1, <2>5 DEF Known, Temporary
  <2>7. Known(t.kind, granted, edits, i, n) /\ Told(g, lost, n, "none")
    BY <1>1, <2>1, <2>4, <2>5, <2>6, PublishDone
  <2> QED
    BY <1>4, <2>4, <2>7 DEF i
<1>5. CASE t.step = "restore_staged_source"
  <2>1. it.strategy = "move_stream" /\ it.at = "staged" /\ it.dest = "absent"
    BY <1>5, StepFacts
  <2>2. r.from = "staged" /\ r.to = "source" /\ r.expected = it.source
    BY <1>5 DEF RenameOf
  <2>3. f["staged"].id = "src" /\ Carried(f, g, "staged", "source")
    BY <1>1, <2>2
  <2>4. Filed(g, lost, edits) /\ Told(g, lost, it, "restore_staged_source")
    BY <1>1, <1>5, <2>1, <2>3, RestoreMade
  <2>5. g["source"] = f["staged"] /\ n = Applied(it, "restore_staged_source", g["source"])
    BY <1>5, <1>1a, <2>2
  <2>6. g["source"].id = "src"
    BY <2>3, <2>5
  <2>7. Known(t.kind, granted, edits, i, n) /\ Told(g, lost, n, "none")
    BY <1>1, <2>1, <2>4, <2>5, <2>6, RestoreDone
  <2> QED
    BY <1>5, <2>4, <2>7 DEF i
<1>6. CASE t.step = "evacuate_overwrite_destination"
  <2>1. it.over = "authorized" /\ it.dest # "published" /\ it.auth.id \in {"dst", "other"}
    BY <1>6, StepFacts
  <2>2. r.from = it.to /\ r.to = "backup" /\ r.expected = it.auth
    BY <1>6 DEF RenameOf
  <2>3. /\ f[it.to] = it.auth /\ f["backup"] = Nothing /\ it.auth \in Object /\ it.auth # Nothing
        /\ SameObject(it.auth, it.auth)
    BY <1>1, <2>1, <2>2, SameIs, ObjectIs DEF ItemType
  <2>4. /\ g \in [Path -> Object] /\ g[it.to] = Nothing /\ g["backup"] = it.auth
        /\ \A p \in Path : p # it.to /\ p # "backup" => g[p] = f[p]
    BY <2>2, <2>3 DEF Carried
  <2>5. it.auth.data <= edits
    BY <1>1, <2>3, ItemIs, FiledIs
  <2>6. SameObject(g["backup"], it.auth) /\ g["backup"].data <= edits
    BY <2>3, <2>4, <2>5
  <2>7. Filed(g, lost, edits) /\ Told(g, lost, it, "evacuate_overwrite_destination")
    BY <1>1, <2>1, <2>3, <2>4, <2>6, EvacuateMade
  <2>8. n = [it EXCEPT !.backup = it.auth, !.over = "evacuated"]
    BY <1>6, <2>2, <2>3 DEF Applied
  <2>9. EvacuatedAs(it, n, it.auth, "evacuated")
    BY <2>8 DEF EvacuatedAs
  <2>10. Known(t.kind, granted, edits, i, n) /\ Told(g, lost, n, "none")
    BY <1>1, <2>1, <2>3, <2>7, <2>9, EvacuateDone
  <2> QED
    BY <1>6, <2>7, <2>10 DEF i
<1>7. CASE t.step = "restore_overwrite_destination"
  <2>1. it.over \in {"evacuated", "evacuated_unexpected"} /\ it.dest # "published"
    BY <1>7, StepFacts
  <2>2. r.from = "backup" /\ r.to = it.to /\ r.expected = it.backup
    BY <1>7 DEF RenameOf
  <2>3. /\ f["backup"] = it.backup /\ f[it.to] = Nothing /\ Carried(f, g, "backup", it.to)
        /\ g["backup"] = Nothing
    BY <1>1a, <2>2
  <2>4. it.backup # Nothing
    BY <1>1, <2>1 DEF Known, SameObject
  <2>5. Filed(g, lost, edits) /\ Told(g, lost, it, "restore_overwrite_destination")
    BY <1>1, <2>1, <2>3, <2>4, PutBackMade
  <2>6. n = ClearOverwrite(it)
    BY <1>7 DEF Applied
  <2>7. Known(t.kind, granted, edits, i, n) /\ Told(g, lost, n, "none")
    BY <1>1, <2>3, <2>5, <2>6, OverwriteDone
  <2> QED
    BY <1>7, <2>5, <2>7 DEF i
<1> QED
  BY <1>2, <1>3, <1>4, <1>5, <1>6, <1>7 DEF RenameSteps

(* A file that is where the rename would take it from was not moved.       *)
LEMMA RenameNotMade ==
  ASSUME NEW t, NEW granted, NEW edits \in Nat, Sound(t, granted, edits),
         NEW it, it = t.items[Unfinished(t)], t.step \in RenameSteps,
         NEW f, NEW lost, Filed(f, lost, edits), Told(f, lost, it, t.step),
         NEW r, r = RenameOf(it, t.step),
         f[r.from] = r.expected \/ SameObject(f[r.from], r.expected),
         ~SameObject(f[r.to], r.expected)
  PROVE  Told(f, lost, it, "none")
<1>1. /\ Known(t.kind, granted, edits, Unfinished(t), it) /\ it \in ItemType
      /\ it.source.id = "src" /\ it.source # Nothing
  BY StepFacts, ObjectIs DEF RenameSteps, Known
<1>2. CASE t.step = "atomic_move"
  <2>1. r.from = "source" /\ r.expected = it.source
    BY <1>2 DEF RenameOf
  <2>2. f["source"].id = "src"
    BY <1>1, <2>1 DEF SameObject, Temporary
  <2> QED
    BY <1>2, <2>2 DEF Told, HiddenTold, CopyTold, SourceTold, Publishes
<1>3. CASE t.step = "stage_source"
  <2>1. r.from = "source" /\ r.expected = it.source
    BY <1>3 DEF RenameOf
  <2>2. f["source"].id = "src"
    BY <1>1, <2>1 DEF SameObject, Temporary
  <2>3. f["staged"] = Nothing
    BY <2>2, FiledIs, PathIs
  <2> QED
    BY <1>3, <2>2, <2>3 DEF Told, HiddenTold, CopyTold, SourceTold, Publishes
<1>4. CASE t.step = "publish_temp"
  <2>1. r.from = "temp" /\ r.expected = it.temp /\ it.dest = "content_ready" /\ Streamed(it)
    BY <1>4, StepFacts DEF RenameOf
  <2>2. it.temp # Nothing
    BY <1>1, <2>1, ObjectIs DEF Known
  <2>3. f["temp"] # Nothing
    BY <2>1, <2>2, SameIs
  <2> QED
    BY <1>4, <2>3 DEF Told, HiddenTold, CopyTold, SourceTold
<1>5. CASE t.step = "restore_staged_source"
  <2>1. r.from = "staged" /\ r.expected = it.source
    BY <1>5 DEF RenameOf
  <2>2. f["staged"].id = "src"
    BY <1>1, <2>1 DEF SameObject, Temporary
  <2> QED
    BY <1>5, <2>2 DEF Told, HiddenTold, CopyTold, SourceTold, Publishes
<1>6. CASE t.step = "evacuate_overwrite_destination"
  <2>1. r.to = "backup" /\ r.expected = it.auth
    BY <1>6 DEF RenameOf
  <2>2. f["backup"] = Nothing
    BY <2>1 DEF Told, HiddenTold
  <2> QED
    BY <1>6, <2>2 DEF Told, HiddenTold, CopyTold, SourceTold, Publishes
<1>7. CASE t.step = "restore_overwrite_destination"
  BY <1>7 DEF Told, HiddenTold, CopyTold, SourceTold, Publishes
<1> QED
  BY <1>2, <1>3, <1>4, <1>5, <1>6, <1>7 DEF RenameSteps

(* A file that is found where the rename takes it was moved.               *)
LEMMA RenameArrived ==
  ASSUME NEW t, NEW granted, NEW edits \in Nat, Sound(t, granted, edits),
         NEW it, it = t.items[Unfinished(t)], t.step \in RenameSteps,
         t.step # "evacuate_overwrite_destination",
         NEW f, NEW lost, Filed(f, lost, edits), Told(f, lost, it, t.step),
         NEW r, r = RenameOf(it, t.step),
         SameObject(f[r.to], r.expected), ~SameObject(f[r.from], r.expected),
         NEW n, n = Applied(it, t.step, f[r.to])
  PROVE  Known(t.kind, granted, edits, Unfinished(t), n) /\ Told(f, lost, n, "none")
<1> DEFINE i == Unfinished(t)
<1>1. /\ Known(t.kind, granted, edits, i, it) /\ it \in ItemType
      /\ it.source.id = "src" /\ it.source # Nothing
  BY StepFacts, ObjectIs DEF RenameSteps, Known
<1> HIDE DEF i
<1>2. CASE t.step = "atomic_move"
  <2>1. /\ t.kind = "move" /\ it.strategy = "move_undecided" /\ it.over \in {"none", "evacuated"}
    BY <1>2, StepFacts
  <2>2. r.to = it.to /\ r.expected = it.source
    BY <1>2 DEF RenameOf
  <2>3. f[it.to].id = "src" /\ n = Applied(it, "atomic_move", f[it.to])
    BY <1>1, <1>2, <2>2 DEF SameObject, Temporary
  <2>4. Known("move", granted, edits, i, it) /\ Told(f, lost, it, "atomic_move")
    BY <1>1, <1>2, <2>1
  <2>5. Known("move", granted, edits, i, n) /\ Told(f, lost, n, "none")
    BY <2>1, <2>3, <2>4, AtomicMoveDone
  <2> QED
    BY <2>1, <2>5 DEF i
<1>3. CASE t.step = "stage_source"
  <2>1. /\ t.kind = "move" /\ it.strategy = "move_stream" /\ it.at = "original"
        /\ it.dest = "absent"
    BY <1>3, StepFacts
  <2>2. r.to = "staged" /\ r.expected = it.source
    BY <1>3 DEF RenameOf
  <2>3. f["staged"].id = "src" /\ n = Applied(it, "stage_source", f["staged"])
    BY <1>1, <1>3, <2>2 DEF SameObject, Temporary
  <2>4. Known("move", granted, edits, i, it) /\ Told(f, lost, it, "stage_source")
    BY <1>1, <1>3, <2>1
  <2>5. Known("move", granted, edits, i, n) /\ Told(f, lost, n, "none")
    BY <2>1, <2>3, <2>4, StageDone
  <2> QED
    BY <2>1, <2>5 DEF i
<1>4. CASE t.step = "publish_temp"
  <2>1. Streamed(it) /\ it.dest = "content_ready" /\ it.over \in {"none", "evacuated"}
    BY <1>4, StepFacts
  <2>2. r.to = it.to /\ r.expected = it.temp
    BY <1>4 DEF RenameOf
  <2>3. it.temp.id = "whole"
    BY <1>1, <2>1 DEF Known
  <2>4. f[it.to].id \in Temporary /\ n = Applied(it, "publish_temp", f[it.to])
    BY <1>4, <2>2, <2>3 DEF SameObject, Temporary
  <2>5. Told(f, lost, it, "publish_temp")
    BY <1>4
  <2>6. Known(t.kind, granted, edits, i, n) /\ Told(f, lost, n, "none")
    BY <1>1, <2>1, <2>4, <2>5, PublishDone
  <2> QED
    BY <2>6 DEF i
<1>5. CASE t.step = "restore_staged_source"
  <2>1. it.strategy = "move_stream" /\ it.at = "staged" /\ it.dest = "absent"
    BY <1>5, StepFacts
  <2>2. r.to = "source" /\ r.expected = it.source
    BY <1>5 DEF RenameOf
  <2>3. f["source"].id = "src" /\ n = Applied(it, "restore_staged_source", f["source"])
    BY <1>1, <1>5, <2>2 DEF SameObject, Temporary
  <2>4. Told(f, lost, it, "restore_staged_source")
    BY <1>5
  <2>5. Known(t.kind, granted, edits, i, n) /\ Told(f, lost, n, "none")
    BY <1>1, <2>1, <2>3, <2>4, RestoreDone
  <2> QED
    BY <2>5 DEF i
<1>6. CASE t.step = "restore_overwrite_destination"
  <2>1. it.over \in {"evacuated", "evacuated_unexpected"}
    BY <1>6, StepFacts
  <2>2. r.from = "backup" /\ r.expected = it.backup
    BY <1>6 DEF RenameOf
  <2>3. f["backup"] = Nothing
    BY <1>1, <2>1, <2>2, BackupIs
  <2>4. n = ClearOverwrite(it)
    BY <1>6 DEF Applied
  <2>5. Known(t.kind, granted, edits, i, n) /\ Told(f, lost, n, "none")
    BY <1>1, <1>6, <2>3, <2>4, OverwriteDone
  <2> QED
    BY <2>5 DEF i
<1> QED
  BY <1>2, <1>3, <1>4, <1>5, <1>6 DEF RenameSteps

(* An evacuation that may have moved a file edited since.                  *)
LEMMA EvacuationSeen ==
  ASSUME NEW t, NEW granted, NEW edits \in Nat, Sound(t, granted, edits),
         NEW it, it = t.items[Unfinished(t)], t.step = "evacuate_overwrite_destination",
         NEW f, NEW lost, Told(f, lost, it, t.step),
         NEW o \in Object, SameObject(o, it.auth)
  PROVE  LET n == [it EXCEPT !.backup = o, !.over = "evacuated_unexpected"] IN
           Known(t.kind, granted, edits, Unfinished(t), n) /\ Told(f, lost, n, "none")
<1> DEFINE i == Unfinished(t)
<1> DEFINE n == [it EXCEPT !.backup = o, !.over = "evacuated_unexpected"]
<1>1. EvacuatedAs(it, n, o, "evacuated_unexpected")
  BY DEF EvacuatedAs
<1>2. /\ it.over = "authorized" /\ it.dest # "published"
      /\ Known(t.kind, granted, edits, i, it)
  BY StepFacts
<1>3. Told(f, lost, it, "evacuate_overwrite_destination")
  OBVIOUS
<1> HIDE DEF i, n
<1>4. Known(t.kind, granted, edits, i, n) /\ Told(f, lost, n, "none")
  BY <1>1, <1>2, <1>3, EvacuateDone
<1> QED
  BY <1>4 DEF i, n

(* The same of a removal.                                                  *)
LEMMA DeleteIs ==
  ASSUME NEW it \in ItemType, NEW step \in DeleteSteps
  PROVE  LET d == DeleteOf(it, step) IN
           /\ d.path \in Hidden
           /\ d.path = "temp" <=> step = "cleanup_temp"
           /\ d.path = "backup" <=> step = "cleanup_overwrite_destination"
           /\ d.path = "staged" <=> step = "delete_source"
           /\ d.expected = (IF step = "delete_source" THEN it.source
                            ELSE IF step = "cleanup_temp" THEN it.temp ELSE it.backup)
BY DEF DeleteOf, DeleteSteps, Hidden

LEMMA DeleteGone ==
  ASSUME NEW t, NEW granted, NEW edits \in Nat, Sound(t, granted, edits),
         NEW it, it = t.items[Unfinished(t)], t.step \in DeleteSteps,
         NEW f, NEW lost, Told(f, lost, it, t.step),
         f[DeleteOf(it, t.step).path] = Nothing,
         t.step = "delete_source" => \A p \in Path : f[p].id # "src",
         NEW n, n = Applied(it, t.step, Nothing)
  PROVE  Known(t.kind, granted, edits, Unfinished(t), n) /\ Told(f, lost, n, "none")
<1> DEFINE i == Unfinished(t)
<1>1. Known(t.kind, granted, edits, i, it) /\ it \in ItemType
  BY StepFacts DEF DeleteSteps
<1> HIDE DEF i
<1>2. CASE t.step = "cleanup_temp"
  <2>1. Streamed(it) /\ it.dest \in {"temp_reserved", "content_ready"}
    BY <1>2, StepFacts
  <2>2. f["temp"] = Nothing /\ n = ClearProof(it) /\ Told(f, lost, it, "cleanup_temp")
    BY <1>2 DEF DeleteOf, Applied
  <2>3. Known(t.kind, granted, edits, i, n) /\ Told(f, lost, n, "none")
    BY <1>1, <2>1, <2>2, DiscardDone
  <2> QED
    BY <2>3 DEF i
<1>3. CASE t.step = "cleanup_overwrite_destination"
  <2>1. f["backup"] = Nothing /\ n = ClearOverwrite(it)
    BY <1>3 DEF DeleteOf, Applied
  <2>2. Known(t.kind, granted, edits, i, n) /\ Told(f, lost, n, "none")
    BY <1>1, <1>3, <2>1, OverwriteDone
  <2> QED
    BY <2>2 DEF i
<1>4. CASE t.step = "delete_source"
  <2>1. it.strategy = "move_stream" /\ it.dest = "published"
    BY <1>4, StepFacts
  <2>2. /\ f["staged"] = Nothing /\ n = [it EXCEPT !.at = "removed"]
        /\ Told(f, lost, it, "delete_source")
    BY <1>4 DEF DeleteOf, Applied
  <2>3. \A p \in Path : f[p].id # "src"
    BY <1>4
  <2>4. Known(t.kind, granted, edits, i, n) /\ Told(f, lost, n, "none")
    BY <1>1, <2>1, <2>2, <2>3, DeleteSourceDone
  <2> QED
    BY <2>4 DEF i
<1> QED
  BY <1>2, <1>3, <1>4 DEF DeleteSteps

LEMMA DeletionMade ==
  ASSUME NEW t, NEW granted, NEW edits \in Nat, Sound(t, granted, edits),
         NEW it, it = t.items[Unfinished(t)], t.step \in DeleteSteps,
         NEW f, NEW lost, Filed(f, lost, edits), Told(f, lost, it, "none"),
         NEW d, d = DeleteOf(it, t.step), f[d.path] = d.expected,
         NEW g, g = [f EXCEPT ![d.path] = Nothing],
         NEW n, n = Applied(it, t.step, Nothing)
  PROVE  /\ Filed(g, lost, edits) /\ Told(g, lost, it, t.step)
         /\ Known(t.kind, granted, edits, Unfinished(t), n) /\ Told(g, lost, n, "none")
<1> DEFINE path == d.path
<1>1. /\ Known(t.kind, granted, edits, Unfinished(t), it) /\ it \in ItemType
      /\ it.source.id = "src"
      /\ t.step = "delete_source" => it.at = "staged"
  BY StepFacts DEF DeleteSteps, Known
<1>2. /\ path \in Path
      /\ \/ path = "temp" /\ t.step = "cleanup_temp"
         \/ path = "backup" /\ t.step = "cleanup_overwrite_destination"
         \/ path = "staged" /\ t.step = "delete_source" /\ it.at = "staged"
  <2>1. path \in Hidden
    BY <1>1, DeleteIs
  <2> QED
    BY <1>1, <2>1, DeleteIs, PathIs DEF DeleteSteps, Hidden
<1>3. g = [f EXCEPT ![path] = Nothing]
  OBVIOUS
<1>3a. t.step = "delete_source" => f[path] = it.source
  BY <1>1, DeleteIs
<1> HIDE DEF path
<1>5. Without(f, g, path)
  <2>1. f \in [Path -> Object]
    BY FiledIs
  <2>2. Without(f, [f EXCEPT ![path] = Nothing], path)
    BY <1>2, <2>1, RemovalIs
  <2> QED
    BY <1>3, <2>2
<1>4. /\ Filed(g, lost, edits) /\ g[path] = Nothing
      /\ \A p \in Path : p # path => g[p] = f[p]
  <2>1. Filed(g, lost, edits)
    BY <1>2, <1>5, RemovalKeepsFiled
  <2>2. g[path] = Nothing /\ \A p \in Path : p # path => g[p] = f[p]
    BY <1>5 DEF Without
  <2> QED
    BY <2>1, <2>2
<1>6. Told(g, lost, it, t.step)
  BY <1>1, <1>2, <1>5, DeleteMade
<1>7. t.step = "delete_source" => \A p \in Path : g[p].id # "src"
  <2> SUFFICES ASSUME t.step = "delete_source", NEW p \in Path, g[p].id = "src"
               PROVE  FALSE
    OBVIOUS
  <2>1. p # path
    BY <1>4, ObjectIs
  <2>2. f[p].id = "src" /\ f[path].id = "src"
    BY <1>1, <1>3a, <1>4, <2>1
  <2> QED
    BY <1>2, <2>1, <2>2, FiledIs
<1>8. g[DeleteOf(it, t.step).path] = Nothing
  BY <1>4 DEF path
<1>9. Known(t.kind, granted, edits, Unfinished(t), n) /\ Told(g, lost, n, "none")
  BY <1>6, <1>7, <1>8, DeleteGone
<1> QED
  BY <1>4, <1>6, <1>9

LEMMA DeletionNotMade ==
  ASSUME NEW t, NEW granted, NEW edits \in Nat, Sound(t, granted, edits),
         NEW it, it = t.items[Unfinished(t)], t.step \in DeleteSteps,
         NEW f, NEW lost, Told(f, lost, it, t.step),
         SameObject(f[DeleteOf(it, t.step).path], DeleteOf(it, t.step).expected)
  PROVE  Told(f, lost, it, "none")
<1>1. it \in ItemType /\ it.source.id = "src"
  <2>1. Known(t.kind, granted, edits, Unfinished(t), it)
    BY StepFacts DEF DeleteSteps
  <2> QED
    BY <2>1 DEF Known
<1>2. CASE t.step = "delete_source"
  <2>0. DeleteOf(it, t.step) = [path |-> "staged", expected |-> it.source]
    BY <1>2 DEF DeleteOf
  <2>1. SameObject(f["staged"], it.source)
    BY <2>0
  <2>2. f["staged"].id = "src"
    BY <1>1, <2>1 DEF SameObject, Temporary
  <2> QED
    BY <1>2, <2>2 DEF Told, HiddenTold, CopyTold, SourceTold, Publishes
<1>3. CASE t.step \in {"cleanup_temp", "cleanup_overwrite_destination"}
  BY <1>3 DEF Told, HiddenTold, CopyTold, SourceTold, Publishes
<1> QED
  BY <1>2, <1>3 DEF DeleteSteps

-----------------------------------------------------------------------------
(* The helper at work.                                                     *)

LEMMA FiledLater ==
  ASSUME NEW f, NEW lost, NEW edits \in Nat, NEW later \in Nat, edits <= later,
         Filed(f, lost, edits)
  PROVE  Filed(f, lost, later)
<1>1. \A p \in Path : f[p].data <= later
  <2> SUFFICES ASSUME NEW p \in Path PROVE f[p].data <= later
    OBVIOUS
  <2>1. f[p].data \in Nat /\ f[p].data <= edits
    BY FiledIs, ObjectIs
  <2> QED
    BY <2>1
<1> QED
  BY <1>1 DEF Filed

LEMMA FitsAround ==
  ASSUME NEW t, NEW files, NEW gone, Fits(t, files, gone), Unfinished(t) \in Items,
         NEW after, \A j \in Items : j # Unfinished(t) => after[j] = files[j],
         Told(after[Unfinished(t)], Lost(gone, Unfinished(t)), t.items[Unfinished(t)], t.step)
  PROVE  Fits(t, after, gone)
<1> SUFFICES ASSUME NEW j \in Items
             PROVE  Told(after[j], Lost(gone, j), t.items[j], StepOf(t, j))
  BY DEF Fits
<1>1. CASE j = Unfinished(t)
  BY <1>1 DEF StepOf
<1>2. CASE j # Unfinished(t)
  <2>1. after[j] = files[j]
    BY <1>2
  <2> QED
    BY <2>1 DEF Fits
<1> QED
  BY <1>1, <1>2

(* What the helper does to the files of the open item.                     *)
LEMMA EffectKeeps ==
  ASSUME IInv, pc # "idle", txn = journal.current, txn.step # "none",
         NEW e, fs' = [fs EXCEPT ![Current] = e],
         Filed(e, Lost(taken, Current), meddling'), OpenKnown(Item),
         Told(e, Lost(taken, Current), Item, txn.step),
         meddling' \in 0..MaxMeddling, meddling <= meddling', faults' \in 0..MaxFaults,
         UNCHANGED <<far, taken, journal, approved, txn, report>>,
         pc' \in Running, CallOK(call')
  PROVE  Kept' /\ fs'[Current] = e /\ Current \in Items
<1>1. /\ Sound(txn, approved, meddling) /\ Fits(txn, fs, taken) /\ meddling \in Nat
      /\ meddling \in 0..MaxMeddling
  BY RunningIs
<1>1a. Current \in Items
  BY <1>1, SoundIs DEF Current
<1>2. meddling' \in Nat
  BY TransferAssumption
<1>3. fs \in [Items -> [Path -> Object]]
  BY DEF IInv, TypeOK
<1>4. fs'[Current] = e /\ \A j \in Items : j # Current => fs'[j] = fs[j]
  BY <1>1a, <1>3
<1>5. e \in [Path -> Object]
  BY <1>2, FiledIs
<1>6. fs' \in [Items -> [Path -> Object]]
  BY <1>1a, <1>3, <1>5
<1>7. TypeOK'
  BY <1>6 DEF IInv, TypeOK, CallOK, Asked, Running
<1>8. FilesAreKnown'
  <2> SUFFICES ASSUME NEW j \in Items PROVE Filed(fs'[j], Lost(taken, j), meddling')
    BY DEF FilesAreKnown
  <2>1. CASE j = Current
    BY <1>4, <2>1
  <2>2. CASE j # Current
    <3>1. Filed(fs[j], Lost(taken, j), meddling) /\ fs'[j] = fs[j]
      BY <1>4, <2>2 DEF IInv, FilesAreKnown
    <3>2. Filed(fs[j], Lost(taken, j), meddling')
      BY <1>1, <1>2, <3>1, FiledLater
    <3> QED
      BY <3>1, <3>2
  <2> QED
    BY <2>1, <2>2
<1>9. Fits(txn, fs', taken)
  <2>1. Told(fs'[Unfinished(txn)], Lost(taken, Unfinished(txn)), txn.items[Unfinished(txn)], txn.step)
    BY <1>4 DEF Current, Item
  <2>2. \A j \in Items : j # Unfinished(txn) => fs'[j] = fs[j]
    BY <1>4 DEF Current
  <2>3. Unfinished(txn) \in Items
    BY <1>1a DEF Current
  <2> QED
    BY <1>1, <2>1, <2>2, <2>3, FitsAround
<1>10. Sound(txn, approved, meddling')
  BY <1>1, <1>2, StaysSound
<1>11. journal.current # NoTxn /\ journal.current.step # "none"
  BY DEF IInv, WorkerFollows
<1>12. journal.previous # NoTxn => Sound(journal.previous, approved, meddling')
  <2>1. journal.previous # NoTxn => Sound(journal.previous, approved, meddling)
    BY DEF IInv, RecordsAreTrue
  <2> QED
    BY <1>1, <1>2, <2>1, StaysSound
<1>13. RecordsAreTrue'
  BY <1>9, <1>10, <1>11, <1>12 DEF RecordsAreTrue
<1>14. pc' # "idle" /\ Started'
  BY DEF Running, Started
<1>15. WorkerFollows' /\ RefusalIsExcused'
  BY <1>9, <1>10, <1>11, <1>14 DEF WorkerFollows, RefusalIsExcused
<1> QED
  BY <1>1a, <1>4, <1>7, <1>8, <1>13, <1>14, <1>15 DEF Kept

(* What a helper finds when it begins, or looks.                           *)
LEMMA AtWork ==
  ASSUME IInv, pc \in {"execute", "reconcile"}
  PROVE  /\ pc # "idle" /\ txn = journal.current /\ txn.step # "none"
         /\ txn.step \in RenameSteps \union DeleteSteps
         /\ Sound(txn, approved, meddling) /\ meddling \in Nat /\ meddling \in 0..MaxMeddling
         /\ Current \in Items /\ Item = txn.items[Current] /\ Item \in ItemType
         /\ OpenKnown(Item) /\ OpenTold(Item, txn.step)
         /\ Filed(fs[Current], Lost(taken, Current), meddling)
         /\ pc = "execute" => OpenTold(Item, "none")
<1>1. pc # "idle" /\ txn = journal.current
  BY DEF IInv, WorkerFollows
<1>2. txn.step \in RenameSteps \union DeleteSteps /\ (pc = "execute" => OpenTold(Item, "none"))
  BY DEF IInv, CallIsTrue
<1>3. txn.step # "none"
  BY <1>2 DEF RenameSteps, DeleteSteps
<1>4. Current # 0
  BY <1>1, <1>3, RunningIs, SoundIs DEF Current
<1> QED
  BY <1>1, <1>2, <1>3, <1>4, RunningIs DEF Item, OpenKnown

(* A step that is applied leaves the sizes on record as planned, if the    *)
(* file it takes over has its own.                                         *)
LEMMA AppliedMatches ==
  ASSUME IInv, pc # "idle", txn.step \in RenameSteps \union DeleteSteps,
         NEW object, txn.step \in Adopting => object.size = "same"
  PROVE  SnapshotsMatch(Applied(Item, txn.step, object))
<1> DEFINE n == Applied(Item, txn.step, object)
           step == txn.step
<1>1. Sound(txn, approved, meddling) /\ step # "none"
  BY RunningIs DEF RenameSteps, DeleteSteps
<1>2. Current # 0 /\ Item = txn.items[Unfinished(txn)]
  BY <1>1, SoundIs DEF Item, Current
<1>3. Item \in ItemType /\ SnapshotsMatch(Item)
  BY <1>2, RunningIs
<1>4. /\ step = "atomic_move" => Item.strategy = "move_undecided" /\ Item.at = "original"
      /\ step = "stage_source" => Item.strategy = "move_stream" /\ Item.dest = "absent"
      /\ step = "publish_temp" => Streamed(Item) /\ Item.dest = "content_ready"
      /\ step = "delete_source" => Item.strategy = "move_stream" /\ Item.at = "staged"
      /\ step = "restore_staged_source" => Item.strategy = "move_stream" /\ Item.dest = "absent"
  BY <1>1, <1>2, StepFacts
<1>5. CASE step = "atomic_move"
  <2>1. n = [Item EXCEPT !.strategy = "move_atomic", !.at = "removed",
                         !.dest = "published", !.temp = object]
    BY <1>5 DEF Applied
  <2> HIDE DEF n
  <2>2. n.strategy = "move_atomic" /\ n.at = "removed" /\ n.source = Item.source
    BY <1>3, <2>1 DEF ItemType
  <2>3. Item.source.size = "same"
    BY <1>3, <1>4, <1>5, ObjectIs DEF SnapshotsMatch
  <2> QED
    BY <2>2, <2>3 DEF SnapshotsMatch, Streamed, n
<1>6. CASE step = "stage_source"
  <2>1. n = [Item EXCEPT !.at = "staged", !.source = object]
    BY <1>6 DEF Applied
  <2> HIDE DEF n
  <2>2. n.at = "staged" /\ n.source = object /\ n.dest = "absent"
    BY <1>3, <1>4, <1>6, <2>1 DEF ItemType
  <2> QED
    BY <1>6, <2>2 DEF SnapshotsMatch, Adopting, n
<1>7. CASE step = "publish_temp"
  <2>1. n = [Item EXCEPT !.dest = "published", !.temp = object]
    BY <1>7 DEF Applied
  <2> HIDE DEF n
  <2>2. /\ n.at = Item.at /\ n.strategy = Item.strategy /\ n.source = Item.source
        /\ n.temp = object
    BY <1>3, <2>1 DEF ItemType
  <2> QED
    BY <1>3, <1>7, <2>2 DEF SnapshotsMatch, Adopting, n
<1>8. CASE step = "restore_staged_source"
  <2>1. n = [Item EXCEPT !.at = "original", !.source = object]
    BY <1>8 DEF Applied
  <2> HIDE DEF n
  <2>2. n.strategy = "move_stream" /\ n.source = object /\ n.dest = "absent"
    BY <1>3, <1>4, <1>8, <2>1 DEF ItemType
  <2> QED
    BY <1>8, <2>2 DEF SnapshotsMatch, Adopting, n
<1>9. CASE step = "delete_source"
  <2>1. n = [Item EXCEPT !.at = "removed"]
    BY <1>9 DEF Applied
  <2> HIDE DEF n
  <2>2. /\ n.strategy = Item.strategy /\ n.at = "removed" /\ n.source = Item.source
        /\ n.dest = Item.dest /\ n.temp = Item.temp
    BY <1>3, <2>1 DEF ItemType
  <2> QED
    BY <1>3, <1>4, <1>9, <2>2 DEF SnapshotsMatch, Streamed, n
<1>10. CASE step = "cleanup_temp"
  <2>1. /\ n.strategy = Item.strategy /\ n.at = Item.at /\ n.source = Item.source
        /\ n.dest = "absent"
    BY <1>3, <1>10 DEF Applied, ClearProof, ItemType
  <2> QED
    BY <1>3, <2>1 DEF SnapshotsMatch
<1>11. CASE step = "evacuate_overwrite_destination"
  <2>1. n = [Item EXCEPT !.backup = object, !.over = "evacuated"]
    BY <1>11 DEF Applied
  <2> HIDE DEF n
  <2>2. /\ n.strategy = Item.strategy /\ n.at = Item.at /\ n.source = Item.source
        /\ n.dest = Item.dest /\ n.temp = Item.temp
    BY <1>3, <2>1 DEF ItemType
  <2> QED
    BY <1>3, <2>2, MatchesLike DEF n
<1>12. CASE step \in {"restore_overwrite_destination", "cleanup_overwrite_destination"}
  <2>1. /\ n.strategy = Item.strategy /\ n.at = Item.at /\ n.source = Item.source
        /\ n.dest = Item.dest /\ n.temp = Item.temp
    BY <1>3, <1>12 DEF Applied, ClearOverwrite, ItemType
  <2> QED
    BY <1>3, <2>1, MatchesLike
<1> QED
  BY <1>5, <1>6, <1>7, <1>8, <1>9, <1>10, <1>11, <1>12 DEF RenameSteps, DeleteSteps

(* What a rename expects to find has the size that was planned.            *)
LEMMA ExpectedMatches ==
  ASSUME IInv, pc # "idle", txn.step \in Adopting
  PROVE  RenameOf(Item, txn.step).expected.size = "same"
<1>1. Sound(txn, approved, meddling) /\ txn.step # "none"
  BY RunningIs DEF Adopting
<1>2. Current # 0 /\ Item = txn.items[Unfinished(txn)]
  BY <1>1, SoundIs DEF Item, Current
<1>3. SnapshotsMatch(Item)
  BY <1>2, RunningIs
<1>4. /\ txn.step \in {"stage_source", "restore_staged_source"} => Item.strategy = "move_stream"
      /\ txn.step = "publish_temp" => Streamed(Item) /\ Item.dest = "content_ready"
  BY <1>1, <1>2, StepFacts
<1>5. RenameOf(Item, txn.step).expected =
        IF txn.step = "publish_temp" THEN Item.temp ELSE Item.source
  BY DEF RenameOf, Adopting
<1> QED
  BY <1>3, <1>4, <1>5 DEF SnapshotsMatch, Adopting

(* What an answer must mean.                                               *)
LEMMA AnswerMeans ==
  ASSUME IInv, NEW e, Kept', fs'[Current] = e, UNCHANGED <<txn, taken, approved>>,
         pc' = "answer", txn.step \in RenameSteps \union DeleteSteps,
         call'.verdict \in {"changed", "conflict", "no_commit", "cross_device"} =>
           Told(e, Lost(taken, Current), Item, "none"),
         call'.verdict = "cross_device" => txn.step = "atomic_move",
         call'.verdict = "committed" =>
           LET it == Applied(Item, txn.step, call'.object) IN
             /\ Known(txn.kind, approved, meddling', Current, it)
             /\ Told(e, Lost(taken, Current), it, "none")
             /\ SnapshotsMatch(it) \/ (meddling' # 0 /\ txn.step \in Adopting),
         call'.verdict = "unproven" =>
           LET it == [Item EXCEPT !.backup = call'.object, !.over = "evacuated_unexpected"] IN
             /\ txn.step = "evacuate_overwrite_destination"
             /\ Known(txn.kind, approved, meddling', Current, it)
             /\ Told(e, Lost(taken, Current), it, "none")
  PROVE  IInv'
<1>1. Current' = Current /\ Item' = Item /\ fs'[Current'] = e
  BY DEF Current, Item
<1>2. Lost(taken', Current') = Lost(taken, Current)
  BY <1>1
<1>3. call'.verdict \in {"changed", "conflict", "no_commit", "cross_device"} =>
        Told(fs'[Current'], Lost(taken', Current'), Item', "none")
  BY <1>1, <1>2
<1>4. call'.verdict = "committed" =>
        LET it == Applied(Item', txn'.step, call'.object) IN
          /\ Known(txn'.kind, approved', meddling', Current', it)
          /\ Told(fs'[Current'], Lost(taken', Current'), it, "none")
          /\ SnapshotsMatch(it) \/ (meddling' # 0 /\ txn'.step \in Adopting)
  BY <1>1, <1>2
<1>5. call'.verdict = "unproven" =>
        LET it == [Item' EXCEPT !.backup = call'.object, !.over = "evacuated_unexpected"] IN
          /\ txn'.step = "evacuate_overwrite_destination"
          /\ Known(txn'.kind, approved', meddling', Current', it)
          /\ Told(fs'[Current'], Lost(taken', Current'), it, "none")
  BY <1>1, <1>2
<1>6. AnswerIsTrue'
  BY <1>3, <1>4, <1>5 DEF AnswerIsTrue, OpenTold, OpenKnown, TakenOver
<1>7. CallIsTrue'
  BY <1>6 DEF CallIsTrue
<1> QED
  BY <1>7 DEF IInv, Kept

LEMMA SameFiles ==
  ASSUME IInv, pc # "idle", UNCHANGED fs
  PROVE  fs' = [fs EXCEPT ![Current] = fs[Current]]
BY DEF IInv, TypeOK

(* A reply is recorded, or lost with or without its effect.                *)
LEMMA RepliesKeep ==
  ASSUME IInv, pc = "execute", NEW verdict \in Verdicts, NEW object \in Object, NEW effect,
         Replies(verdict, object, effect),
         Filed(effect, Lost(taken, Current), meddling),
         Told(effect, Lost(taken, Current), Item, txn.step), verdict # "unproven",
         verdict # "committed" => effect = fs[Current],
         verdict = "cross_device" => txn.step = "atomic_move",
         verdict = "committed" =>
           LET it == Applied(Item, txn.step, object) IN
             OpenKnown(it) /\ Told(effect, Lost(taken, Current), it, "none") /\ SnapshotsMatch(it)
  PROVE  IInv'
<1>1. /\ pc # "idle" /\ txn = journal.current /\ txn.step # "none"
      /\ txn.step \in RenameSteps \union DeleteSteps
      /\ meddling \in Nat /\ meddling \in 0..MaxMeddling
      /\ OpenKnown(Item) /\ OpenTold(Item, txn.step) /\ OpenTold(Item, "none")
      /\ Filed(fs[Current], Lost(taken, Current), meddling)
  BY AtWork
<1>2. UNCHANGED <<far, meddling, taken, journal, approved>>
  BY DEF Replies, environment
<1>3. txn' = txn /\ report' = report /\ meddling <= meddling'
  BY <1>1, <1>2 DEF Replies, Goto
<1>4. faults \in 0..MaxFaults /\ faults \in Nat
  BY TransferAssumption DEF IInv, TypeOK
<1>5. Fault => faults' \in 0..MaxFaults
  BY <1>4, TransferAssumption DEF Fault
<1>6. CASE /\ fs' = [fs EXCEPT ![Current] = effect]
           /\ Goto("answer", [NoCall EXCEPT !.verdict = verdict, !.object = object])
           /\ UNCHANGED faults
  <2> DEFINE c == [NoCall EXCEPT !.verdict = verdict, !.object = object]
  <2>1. pc' = "answer" /\ call' = c /\ fs' = [fs EXCEPT ![Current] = effect]
        /\ faults' \in 0..MaxFaults
    BY <1>4, <1>6 DEF Goto
  <2>2. c.verdict = verdict /\ c.object = object /\ c.recovering = FALSE /\ c.asked = NoCall.asked
    BY DEF NoCall
  <2> HIDE DEF c
  <2>3. CallOK(c)
    BY <2>2, NoCallIs DEF CallOK
  <2>4. CallOK(call') /\ pc' \in Running
    BY <2>1, <2>3 DEF Running
  <2>5. Kept' /\ fs'[Current] = effect
    BY <1>1, <1>2, <1>3, <2>1, <2>4, EffectKeeps
  <2>6. call'.verdict = verdict /\ call'.object = object
    BY <2>1, <2>2
  <2>7. verdict # "committed" => Told(effect, Lost(taken, Current), Item, "none")
    BY <1>1 DEF OpenTold
  <2>8. verdict = "committed" =>
          LET it == Applied(Item, txn.step, object) IN
            /\ Known(txn.kind, approved, meddling', Current, it)
            /\ Told(effect, Lost(taken, Current), it, "none") /\ SnapshotsMatch(it)
    BY <1>2 DEF OpenKnown
  <2> QED
    BY <1>1, <1>2, <1>3, <2>1, <2>5, <2>6, <2>7, <2>8, AnswerMeans
<1>7. CASE /\ Fault /\ UNCHANGED fs
           /\ Goto("answer", [NoCall EXCEPT !.verdict = "no_commit"])
  <2> DEFINE c == [NoCall EXCEPT !.verdict = "no_commit"]
  <2>1. pc' = "answer" /\ call' = c /\ fs' = [fs EXCEPT ![Current] = fs[Current]]
        /\ faults' \in 0..MaxFaults
    BY <1>1, <1>5, <1>7, SameFiles DEF Goto
  <2>2. c.verdict = "no_commit" /\ c.object = Nothing /\ c.recovering = FALSE
        /\ c.asked = NoCall.asked
    BY DEF NoCall
  <2> HIDE DEF c
  <2>3. CallOK(c)
    BY <2>2, NoCallIs, ObjectIs DEF CallOK, Verdicts
  <2>4. CallOK(call') /\ pc' \in Running
    BY <2>1, <2>3 DEF Running
  <2>5. Told(fs[Current], Lost(taken, Current), Item, txn.step)
        /\ Told(fs[Current], Lost(taken, Current), Item, "none")
    BY <1>1 DEF OpenTold
  <2>6. Filed(fs[Current], Lost(taken, Current), meddling')
    BY <1>1, <1>2
  <2>7. Kept' /\ fs'[Current] = fs[Current]
    BY <1>1, <1>2, <1>3, <2>1, <2>4, <2>5, <2>6, EffectKeeps
  <2>8. call'.verdict = "no_commit"
    BY <2>1, <2>2
  <2> QED
    BY <1>1, <1>2, <1>3, <2>1, <2>5, <2>7, <2>8, AnswerMeans
<1>8. CASE /\ Fault
           /\ fs' \in {fs, [fs EXCEPT ![Current] = effect]}
           /\ Goto("reconcile", NoCall)
  <2>1. pc' = "reconcile" /\ call' = NoCall /\ faults' \in 0..MaxFaults
    BY <1>5, <1>8 DEF Goto
  <2>2. CallOK(call') /\ pc' \in Running
    BY <2>1, NoCallIs DEF Running
  <2>3. PICK e \in {fs[Current], effect} : fs' = [fs EXCEPT ![Current] = e]
    BY <1>1, <1>8, SameFiles
  <2>4. Filed(e, Lost(taken, Current), meddling') /\ Told(e, Lost(taken, Current), Item, txn.step)
    BY <1>1, <1>2 DEF OpenTold
  <2>5. Kept'
    BY <1>1, <1>2, <1>3, <2>1, <2>2, <2>3, <2>4, EffectKeeps
  <2>6. CallIsTrue'
    BY <1>1, <1>3, <2>1 DEF CallIsTrue
  <2> QED
    BY <2>5, <2>6 DEF IInv, Kept
<1> QED
  BY <1>6, <1>7, <1>8 DEF Replies

LEMMA ExecuteRenameKeeps ==
  ASSUME IInv, ExecuteRename
  PROVE  IInv'
<1> DEFINE f == fs[Current]
           r == RenameOf(Item, txn.step)
           v == RenameVerdict(f, r)
           e == IF v = "committed" THEN Moved(f, r) ELSE f
<1>1. pc = "execute" /\ txn.step \in RenameSteps /\ Replies(v, f[r.from], e)
  BY DEF ExecuteRename
<1>2. /\ Sound(txn, approved, meddling) /\ meddling \in Nat
      /\ Item \in ItemType /\ Item = txn.items[Unfinished(txn)] /\ OpenKnown(Item)
      /\ Told(f, Lost(taken, Current), Item, txn.step) /\ Told(f, Lost(taken, Current), Item, "none")
      /\ Filed(f, Lost(taken, Current), meddling)
  BY <1>1, AtWork DEF OpenTold, Item, Current
<1>3. r.from \in Path /\ r.to \in Path /\ r.from # r.to
  BY <1>1, <1>2, RenameIs
<1>4. f \in [Path -> Object] /\ f[r.from] \in Object
  BY <1>2, <1>3, FiledIs
<1>5. v \in {"changed", "cross_device", "conflict", "committed"}
  BY DEF RenameVerdict
<1>6. v = "cross_device" => txn.step = "atomic_move"
  BY DEF RenameVerdict
<1>7. v = "committed" => f[r.from] = r.expected /\ f[r.to] = Nothing
  BY DEF RenameVerdict
<1>8. v = "committed" => Carried(f, e, r.from, r.to)
  <2>1. Carried(f, [f EXCEPT ![r.to] = f[r.from], ![r.from] = Nothing], r.from, r.to)
    BY <1>3, <1>4, MoveIs
  <2> QED
    BY <2>1 DEF Moved
<1>9. v # "committed" => e = f
  OBVIOUS
<1>10. r = RenameOf(Item, txn.step) /\ f = fs[Current]
  OBVIOUS
<1> HIDE DEF f, r, v, e
<1>11. v \in Verdicts /\ v # "unproven"
  BY <1>5 DEF Verdicts
<1>12. CASE v = "committed"
  <2> DEFINE n == Applied(Item, txn.step, f[r.from])
  <2>1. n = Applied(Item, txn.step, f[r.from])
    OBVIOUS
  <2> HIDE DEF n
  <2>2. /\ Filed(e, Lost(taken, Current), meddling) /\ Told(e, Lost(taken, Current), Item, txn.step)
        /\ Known(txn.kind, approved, meddling, Unfinished(txn), n)
        /\ Told(e, Lost(taken, Current), n, "none")
    <3>1. Carried(f, e, r.from, r.to) /\ f[r.from] = r.expected /\ f[r.to] = Nothing
      BY <1>7, <1>8, <1>12
    <3>2. r = RenameOf(Item, txn.step) /\ txn.step \in RenameSteps
      BY <1>1, <1>10
    <3> QED
      BY <1>2, <2>1, <3>1, <3>2, RenameMade
  <2>3. OpenKnown(n) /\ Told(e, Lost(taken, Current), n, "none")
    BY <2>2 DEF OpenKnown, Current
  <2>4. SnapshotsMatch(n)
    <3>1. txn.step \in Adopting => f[r.from].size = "same"
      BY <1>1, <1>7, <1>10, <1>12, ExpectedMatches
    <3> QED
      BY <1>1, <2>1, <3>1, AppliedMatches
  <2> QED
    BY <1>1, <1>4, <1>6, <1>11, <1>12, <2>1, <2>2, <2>3, <2>4, RepliesKeep
<1>13. CASE v # "committed"
  BY <1>1, <1>2, <1>4, <1>6, <1>9, <1>10, <1>11, <1>13, RepliesKeep
<1> QED
  BY <1>12, <1>13

LEMMA ExecuteDeleteKeeps ==
  ASSUME IInv, ExecuteDelete
  PROVE  IInv'
<1> DEFINE f == fs[Current]
           d == DeleteOf(Item, txn.step)
           v == DeleteVerdict(f, d)
           e == IF v = "committed" THEN [f EXCEPT ![d.path] = Nothing] ELSE f
<1>1. pc = "execute" /\ txn.step \in DeleteSteps /\ Replies(v, Nothing, e)
  BY DEF ExecuteDelete
<1>2. /\ Sound(txn, approved, meddling) /\ meddling \in Nat
      /\ Item \in ItemType /\ Item = txn.items[Unfinished(txn)] /\ OpenKnown(Item)
      /\ Told(f, Lost(taken, Current), Item, txn.step) /\ Told(f, Lost(taken, Current), Item, "none")
      /\ Filed(f, Lost(taken, Current), meddling)
  BY <1>1, AtWork DEF OpenTold, Item, Current
<1>3. v \in {"committed", "changed"} /\ (v = "committed" => f[d.path] = d.expected)
  BY DEF DeleteVerdict
<1>4. v = "committed" => e = [f EXCEPT ![d.path] = Nothing]
  OBVIOUS
<1>5. v # "committed" => e = f
  OBVIOUS
<1>6. d = DeleteOf(Item, txn.step) /\ f = fs[Current]
  OBVIOUS
<1> HIDE DEF f, d, v, e
<1>7. v \in Verdicts /\ v # "unproven" /\ v # "cross_device" /\ Nothing \in Object
  BY <1>3, ObjectIs DEF Verdicts
<1>8. CASE v = "committed"
  <2> DEFINE n == Applied(Item, txn.step, Nothing)
  <2>1. n = Applied(Item, txn.step, Nothing)
    OBVIOUS
  <2> HIDE DEF n
  <2>2. /\ Filed(e, Lost(taken, Current), meddling) /\ Told(e, Lost(taken, Current), Item, txn.step)
        /\ Known(txn.kind, approved, meddling, Unfinished(txn), n)
        /\ Told(e, Lost(taken, Current), n, "none")
    BY <1>1, <1>2, <1>3, <1>4, <1>6, <1>8, <2>1, DeletionMade
  <2>3. OpenKnown(n) /\ Told(e, Lost(taken, Current), n, "none")
    BY <2>2 DEF OpenKnown, Current
  <2>4. SnapshotsMatch(n)
    <3>1. txn.step \notin Adopting
      BY <1>1 DEF DeleteSteps, Adopting
    <3> QED
      BY <1>1, <2>1, <3>1, AppliedMatches
  <2> QED
    BY <1>1, <1>7, <1>8, <2>1, <2>2, <2>3, <2>4, RepliesKeep
<1>9. CASE v # "committed"
  BY <1>1, <1>2, <1>5, <1>6, <1>7, <1>9, RepliesKeep
<1> QED
  BY <1>8, <1>9

LEMMA EvacuateEditedKeeps ==
  ASSUME IInv, EvacuateEdited
  PROVE  IInv'
<1> DEFINE f == fs[Current]
           r == RenameOf(Item, txn.step)
           b == File(f[r.from].id, meddling')
           e == [Moved(f, r) EXCEPT !["backup"] = b]
           c == [NoCall EXCEPT !.verdict = "unproven", !.object = b]
<1>1. /\ pc = "execute" /\ txn.step = "evacuate_overwrite_destination"
      /\ meddling < MaxMeddling /\ meddling' = meddling + 1
      /\ RenameVerdict(f, r) = "committed" /\ f[r.from].id # "other"
      /\ fs' = [fs EXCEPT ![Current] = e] /\ Goto("answer", c)
      /\ UNCHANGED <<far, taken, journal, approved, faults>>
  BY DEF EvacuateEdited
<1>2. /\ Sound(txn, approved, meddling) /\ meddling \in Nat
      /\ Item \in ItemType /\ Item = txn.items[Unfinished(txn)] /\ OpenKnown(Item)
      /\ Told(f, Lost(taken, Current), Item, "none")
      /\ Filed(f, Lost(taken, Current), meddling)
      /\ pc # "idle" /\ txn = journal.current /\ txn.step # "none"
  BY <1>1, AtWork DEF OpenTold, Item, Current
<1>3. r.from = Item.to /\ r.to = "backup" /\ r.expected = Item.auth
  BY <1>1 DEF RenameOf
<1>4. f[Item.to] = Item.auth /\ f["backup"] = Nothing
  BY <1>1, <1>3 DEF RenameVerdict
<1>5. Item.auth.id \in {"dst", "other"} /\ Item.auth.id # "other" /\ Item.auth \in Object
  <2>1. Item.auth.id \in {"dst", "other"}
    <3>1. txn.step = "evacuate_overwrite_destination"
      BY <1>1
    <3> QED
      BY <1>2, <3>1, StepFacts
  <2>2. f[r.from] = Item.auth
    BY <1>3, <1>4
  <2>3. Item.auth \in Object
    BY <1>2 DEF ItemType
  <2>4. f[r.from].id # "other"
    BY <1>1
  <2> QED
    BY <2>1, <2>2, <2>3, <2>4
<1>6. meddling' \in 0..MaxMeddling /\ meddling' \in Nat /\ meddling <= meddling'
  <2>1. meddling < MaxMeddling /\ meddling' = meddling + 1 /\ meddling \in Nat
    BY <1>1, <1>2
  <2>2. MaxMeddling \in Nat
    BY TransferAssumption
  <2> QED
    BY <2>1, <2>2
<1>7. b \in Object /\ b.id = Item.auth.id /\ b.data = meddling' /\ b # Nothing
  <2>1. b = File(Item.auth.id, meddling') /\ Item.auth.id = "dst"
    BY <1>3, <1>4, <1>5
  <2> HIDE DEF b
  <2>2. b.id = "dst" /\ b.data = meddling' /\ b \in Object
    BY <1>6, <2>1, ObjectIs
  <2>3. Nothing.id # "dst"
    BY ObjectIs
  <2> QED
    BY <2>1, <2>2, <2>3
<1>8. SameObject(b, Item.auth)
  BY <1>5, <1>7, ObjectIs DEF SameObject
<1> DEFINE g == Moved(f, r)
<1>9. e = [g EXCEPT !["backup"] = b]
  OBVIOUS
<1>10. f \in [Path -> Object] /\ Item.to \in Path /\ Item.to # "backup" /\ "backup" \in Path
  BY <1>2, FiledIs, ItemIs, PathIs
<1>10a. Carried(f, g, Item.to, "backup")
  <2>1. Carried(f, [f EXCEPT !["backup"] = f[Item.to], ![Item.to] = Nothing], Item.to, "backup")
    BY <1>10, MoveIs
  <2> QED
    BY <1>3, <2>1 DEF Moved
<1>13. f = fs[Current]
  OBVIOUS
<1> HIDE DEF b, e, r, f, g
<1>11. /\ e \in [Path -> Object] /\ e[Item.to] = Nothing /\ e["backup"] = b
       /\ \A p \in Path : p # Item.to /\ p # "backup" => e[p] = f[p]
  <2>1. /\ g \in [Path -> Object] /\ g[Item.to] = Nothing
        /\ \A p \in Path : p # Item.to /\ p # "backup" => g[p] = f[p]
    BY <1>10a DEF Carried
  <2> QED
    BY <1>7, <1>9, <1>10, <2>1
<1>12. SameObject(e["backup"], Item.auth) /\ e["backup"].data <= meddling'
  BY <1>6, <1>7, <1>8, <1>11
<1>14. /\ Filed(e, Lost(taken, Current), meddling')
       /\ Told(e, Lost(taken, Current), Item, "evacuate_overwrite_destination")
  BY <1>2, <1>4, <1>5, <1>6, <1>11, <1>12, EvacuateMade
<1>15. c.verdict = "unproven" /\ c.object = b /\ c.recovering = FALSE /\ c.asked = NoCall.asked
  BY DEF NoCall
<1> HIDE DEF c
<1>16. CallOK(c)
  BY <1>7, <1>15, NoCallIs DEF CallOK, Verdicts
<1>17. pc' = "answer" /\ call' = c /\ txn' = txn /\ report' = report
  BY <1>1 DEF Goto
<1>18. CallOK(call') /\ pc' \in Running
  BY <1>16, <1>17 DEF Running
<1>19. faults' \in 0..MaxFaults
  BY <1>1 DEF IInv, TypeOK
<1>20. Told(e, Lost(taken, Current), Item, txn.step)
  BY <1>1, <1>14
<1>21. Kept' /\ fs'[Current] = e
  BY <1>1, <1>2, <1>6, <1>14, <1>17, <1>18, <1>19, <1>20, EffectKeeps
<1>22. Sound(txn, approved, meddling')
  BY <1>2, <1>6, StaysSound
<1> DEFINE n == [Item EXCEPT !.backup = b, !.over = "evacuated_unexpected"]
<1>23. Known(txn.kind, approved, meddling', Current, n) /\ Told(e, Lost(taken, Current), n, "none")
  BY <1>1, <1>2, <1>6, <1>7, <1>8, <1>20, <1>22, EvacuationSeen DEF Current
<1>24. call'.verdict = "unproven" /\ call'.object = b
  BY <1>15, <1>17
<1>25. txn.step \in RenameSteps \union DeleteSteps
  BY <1>1 DEF RenameSteps
<1> QED
  BY <1>1, <1>17, <1>21, <1>23, <1>24, <1>25, AnswerMeans

(* What is seen of a rename, or of a removal, is true.                     *)
LEMMA RenameIsSeen ==
  ASSUME IInv, pc = "reconcile", txn.step \in RenameSteps,
         NEW f, f = fs[Current], NEW r, r = RenameOf(Item, txn.step),
         NEW v, v = ReconciledRename(f, r)
  PROVE  /\ v \in {"unproven", "committed", "conflict", "no_commit", "changed", "none"}
         /\ f[r.to] \in Object
         /\ v \in {"conflict", "no_commit", "changed"} => Told(f, Lost(taken, Current), Item, "none")
         /\ v = "committed" =>
              LET it == Applied(Item, txn.step, f[r.to]) IN
                Known(txn.kind, approved, meddling, Current, it)
                /\ Told(f, Lost(taken, Current), it, "none")
         /\ v = "unproven" =>
              LET it == [Item EXCEPT !.backup = f[r.to], !.over = "evacuated_unexpected"] IN
                /\ txn.step = "evacuate_overwrite_destination"
                /\ Known(txn.kind, approved, meddling, Current, it)
                /\ Told(f, Lost(taken, Current), it, "none")
<1>1. /\ Sound(txn, approved, meddling) /\ meddling \in Nat
      /\ Item \in ItemType /\ Item = txn.items[Unfinished(txn)]
      /\ Told(f, Lost(taken, Current), Item, txn.step)
      /\ Filed(f, Lost(taken, Current), meddling)
  BY AtWork DEF OpenTold, Item, Current
<1>2. v \in {"unproven", "committed", "conflict", "no_commit", "changed", "none"}
  BY DEF ReconciledRename
<1>3. f[r.to] \in Object
  BY <1>1, RenameIs, FiledIs
<1>4. v \in {"conflict", "no_commit", "changed"} =>
        /\ f[r.from] = r.expected \/ SameObject(f[r.from], r.expected)
        /\ ~SameObject(f[r.to], r.expected)
  BY DEF ReconciledRename
<1>5. v = "committed" =>
        /\ txn.step # "evacuate_overwrite_destination"
        /\ SameObject(f[r.to], r.expected) /\ ~SameObject(f[r.from], r.expected)
  BY DEF ReconciledRename
<1>6. v = "unproven" =>
        txn.step = "evacuate_overwrite_destination" /\ SameObject(f[r.to], r.expected)
  BY DEF ReconciledRename
<1>7. v \in {"conflict", "no_commit", "changed"} => Told(f, Lost(taken, Current), Item, "none")
  BY <1>1, <1>4, RenameNotMade
<1>8. ASSUME v = "committed"
      PROVE  LET it == Applied(Item, txn.step, f[r.to]) IN
               Known(txn.kind, approved, meddling, Current, it)
               /\ Told(f, Lost(taken, Current), it, "none")
  <2> DEFINE n == Applied(Item, txn.step, f[r.to])
  <2>1. n = Applied(Item, txn.step, f[r.to])
    OBVIOUS
  <2> HIDE DEF n
  <2>2. /\ Known(txn.kind, approved, meddling, Unfinished(txn), n)
        /\ Told(f, Lost(taken, Current), n, "none")
    BY <1>1, <1>5, <1>8, <2>1, RenameArrived
  <2> QED
    BY <2>1, <2>2 DEF Current
<1>9. ASSUME v = "unproven"
      PROVE  LET it == [Item EXCEPT !.backup = f[r.to], !.over = "evacuated_unexpected"] IN
                /\ txn.step = "evacuate_overwrite_destination"
                /\ Known(txn.kind, approved, meddling, Current, it)
                /\ Told(f, Lost(taken, Current), it, "none")
  <2>1. /\ txn.step = "evacuate_overwrite_destination" /\ SameObject(f[r.to], Item.auth)
    BY <1>6, <1>9 DEF RenameOf
  <2> QED
    BY <1>1, <1>3, <2>1, EvacuationSeen DEF Current
<1> QED
  BY <1>2, <1>3, <1>7, <1>8, <1>9

LEMMA DeletionIsSeen ==
  ASSUME IInv, pc = "reconcile", txn.step \in DeleteSteps,
         NEW f, f = fs[Current],
         NEW v, v = ReconciledDelete(f, DeleteOf(Item, txn.step))
  PROVE  /\ v \in {"committed", "no_commit", "none"}
         /\ v = "no_commit" => Told(f, Lost(taken, Current), Item, "none")
         /\ v = "committed" =>
              LET it == Applied(Item, txn.step, Nothing) IN
                Known(txn.kind, approved, meddling, Current, it)
                /\ Told(f, Lost(taken, Current), it, "none")
<1>1. /\ Sound(txn, approved, meddling) /\ meddling \in Nat
      /\ Item \in ItemType /\ Item = txn.items[Unfinished(txn)]
      /\ Told(f, Lost(taken, Current), Item, txn.step)
  BY AtWork DEF OpenTold, Item, Current
<1>2. v \in {"committed", "no_commit", "none"}
  BY DEF ReconciledDelete
<1>3. v = "no_commit" =>
        SameObject(f[DeleteOf(Item, txn.step).path], DeleteOf(Item, txn.step).expected)
  BY DEF ReconciledDelete
<1>4. v = "committed" =>
        txn.step # "delete_source" /\ f[DeleteOf(Item, txn.step).path] = Nothing
  BY DEF ReconciledDelete
<1>5. v = "no_commit" => Told(f, Lost(taken, Current), Item, "none")
  BY <1>1, <1>3, DeletionNotMade
<1>6. ASSUME v = "committed"
      PROVE  LET it == Applied(Item, txn.step, Nothing) IN
               Known(txn.kind, approved, meddling, Current, it)
               /\ Told(f, Lost(taken, Current), it, "none")
  <2> DEFINE n == Applied(Item, txn.step, Nothing)
  <2>1. n = Applied(Item, txn.step, Nothing)
    OBVIOUS
  <2> HIDE DEF n
  <2>2. /\ Known(txn.kind, approved, meddling, Unfinished(txn), n)
        /\ Told(f, Lost(taken, Current), n, "none")
    BY <1>1, <1>4, <1>6, <2>1, DeleteGone
  <2> QED
    BY <2>1, <2>2 DEF Current
<1> QED
  BY <1>2, <1>5, <1>6

LEMMA ReconcileKeeps ==
  ASSUME IInv, SizesAreKnown, Reconcile
  PROVE  IInv'
<1> DEFINE f == fs[Current]
           r == RenameOf(Item, txn.step)
           d == DeleteOf(Item, txn.step)
           renames == txn.step \in RenameSteps
           v == IF renames THEN ReconciledRename(f, r) ELSE ReconciledDelete(f, d)
           o == IF renames THEN f[r.to] ELSE Nothing
           w == IF Usable(v) THEN v ELSE "none"
           c == [call EXCEPT !.verdict = w, !.object = o]
<1>1. pc = "reconcile" /\ Goto("answer", c) /\ Quiet /\ UNCHANGED <<journal, approved>>
  BY DEF Reconcile
<1>2. /\ pc # "idle" /\ txn = journal.current /\ txn.step \in RenameSteps \union DeleteSteps
  BY <1>1, AtWork
<1>3. /\ v \in {"unproven", "committed", "conflict", "no_commit", "changed", "none"}
      /\ o \in Object
      /\ v \in {"conflict", "no_commit", "changed"} => Told(f, Lost(taken, Current), Item, "none")
      /\ v = "committed" =>
           LET it == Applied(Item, txn.step, o) IN
             Known(txn.kind, approved, meddling, Current, it)
             /\ Told(f, Lost(taken, Current), it, "none")
      /\ v = "unproven" =>
           LET it == [Item EXCEPT !.backup = o, !.over = "evacuated_unexpected"] IN
             /\ txn.step = "evacuate_overwrite_destination"
             /\ Known(txn.kind, approved, meddling, Current, it)
             /\ Told(f, Lost(taken, Current), it, "none")
  <2>1. CASE renames
    <3>1. v = ReconciledRename(f, r) /\ o = f[r.to]
      BY <2>1
    <3> HIDE DEF v, o
    <3> QED
      BY <1>1, <2>1, <3>1, RenameIsSeen
  <2>2. CASE ~renames
    <3>1. txn.step \in DeleteSteps /\ v = ReconciledDelete(f, d) /\ o = Nothing
      BY <1>2, <2>2
    <3> HIDE DEF v, o
    <3> QED
      BY <1>1, <3>1, ObjectIs, DeletionIsSeen
  <2> QED
    BY <2>1, <2>2
<1>3a. SnapshotsMatch(Applied(Item, txn.step, o)) \/ (meddling # 0 /\ txn.step \in Adopting)
  <2>1. CASE txn.step \notin Adopting \/ o.size = "same"
    BY <1>2, <2>1, AppliedMatches
  <2>2. CASE txn.step \in Adopting /\ o.size # "same"
    <3>1. txn.step \in RenameSteps
      BY <2>2 DEF RenameSteps, Adopting
    <3>2. o = fs[Current][r.to]
      BY <3>1
    <3>3. Current \in Items /\ r.to \in Path
      BY <1>1, <3>1, AtWork, RenameIs
    <3> QED
      BY <2>2, <3>2, <3>3 DEF SizesAreKnown
  <2> QED
    BY <2>1, <2>2
<1>4. w \in {v, "none"}
  OBVIOUS
<1>5. c.verdict = w /\ c.object = o /\ c.recovering = call.recovering /\ c.asked = call.asked
  <2>1. call \in {NoCall, [NoCall EXCEPT !.recovering = TRUE]}
    BY <1>1 DEF IInv, CallIsTrue
  <2> HIDE DEF w, o
  <2> QED
    BY <2>1 DEF NoCall
<1> HIDE DEF v, o, w, c
<1>6. CallOK(c)
  BY <1>3, <1>4, <1>5 DEF CallOK, IInv, TypeOK, Verdicts, Asked
<1>7. Kept' /\ pc' = "answer" /\ call' = c /\ UNCHANGED <<txn, fs, taken, meddling, approved>>
  BY <1>1, <1>2, <1>6, GotoKeeps DEF Running
<1>8. call'.verdict \in {v, "none"} /\ call'.object = o
  BY <1>4, <1>5, <1>7
<1>9. fs'[Current] = f
  BY <1>7
<1> HIDE DEF f
<1> QED
  BY <1>2, <1>3, <1>3a, <1>7, <1>8, <1>9, AnswerMeans

-----------------------------------------------------------------------------
(* The streaming helper at work.                                           *)

TempSet(f, g, o) == g = [f EXCEPT !["temp"] = o]

LEMMA TempIsSet ==
  ASSUME NEW f, NEW lost, NEW edits \in Nat, Filed(f, lost, edits),
         NEW it \in ItemType, NEW step, Told(f, lost, it, step),
         it.token, it.dest # "published", it.strategy = "copy_stream" \/ it.at = "staged",
         step \notin {"publish_temp", "restore_staged_source"},
         NEW o \in Object, o = Nothing \/ o.id \in Temporary, o.data <= edits,
         NEW g, TempSet(f, g, o)
  PROVE  Filed(g, lost, edits) /\ Told(g, lost, it, step) /\ g["temp"] = o
<1>1. /\ g \in [Path -> Object] /\ g["temp"] = o
      /\ \A p \in Path : p # "temp" => g[p] = f[p]
  BY FiledIs, PathIs DEF TempSet
<1>2. o.id # "src" /\ f["temp"].id # "src" /\ it.to \in Path \ {"temp"}
  BY FiledIs, ObjectIs, PathIs, ItemIs DEF Temporary
<1>3. /\ g["staged"] = f["staged"] /\ g["backup"] = f["backup"] /\ g["source"] = f["source"]
      /\ g[it.to] = f[it.to]
  BY <1>1, <1>2, PathIs
<1>4. \A p \in Path : g[p].id = "src" <=> f[p].id = "src"
  BY <1>1, <1>2
<1>5. Filed(g, lost, edits)
  <2>1. \A p \in Path : g[p].data <= edits /\ (g[p].id = "nothing" => g[p] = Nothing)
    BY <1>1, FiledIs, ObjectIs DEF Temporary
  <2>2. /\ g["staged"].id \in {"nothing", "src"} /\ g["backup"].id \in {"nothing", "dst", "other"}
    BY <1>3 DEF Filed
  <2>3. g["temp"].id \in Temporary \union {"nothing"}
    BY <1>1, ObjectIs
  <2>4. \A p, q \in Path : g[p].id = "src" /\ g[q].id = "src" => p = q
    BY <1>4, FiledIs
  <2>5. "src" \in lost => \A p \in Path : g[p].id # "src"
    BY <1>4, FiledIs
  <2> QED
    BY <1>1, <2>1, <2>2, <2>3, <2>4, <2>5 DEF Filed
<1>6. HiddenTold(g, it, step)
  BY <1>3 DEF Told, HiddenTold
<1>7. CopyTold(g, lost, it, step)
  <2>1. ~Publishes(it, step)
    BY DEF Publishes
  <2> QED
    BY <1>1, <2>1 DEF Told, CopyTold
<1>8. SourceTold(g, lost, it, step)
  BY <1>3, <1>4 DEF Told, SourceTold
<1> QED
  BY <1>1, <1>3, <1>5, <1>6, <1>7, <1>8 DEF Told

LEMMA StreamsAre ==
  ASSUME IInv, pc \in {"reserve", "commit", "stream"}
  PROVE  /\ pc # "idle" /\ txn = journal.current /\ txn.step \in {"reserve_temp", "stream_temp"}
         /\ pc = "stream" => txn.step = "stream_temp"
         /\ pc # "stream" => txn.step = "reserve_temp"
         /\ Current \in Items /\ Item \in ItemType /\ OpenKnown(Item) /\ OpenTold(Item, txn.step)
         /\ Filed(fs[Current], Lost(taken, Current), meddling)
         /\ meddling \in Nat /\ meddling \in 0..MaxMeddling
         /\ Item.token /\ Item.dest # "published" /\ (Item.strategy = "copy_stream" \/ Item.at = "staged")
         /\ Item.source.data \in 0..MaxMeddling /\ Item.source.data <= meddling
<1>1. pc # "idle" /\ txn = journal.current
  BY DEF IInv, WorkerFollows
<1>2. /\ txn.step \in {"reserve_temp", "stream_temp"}
      /\ pc = "stream" => txn.step = "stream_temp"
      /\ pc # "stream" => txn.step = "reserve_temp"
  BY DEF IInv, CallIsTrue
<1>3. /\ Current \in Items /\ Item \in ItemType /\ OpenKnown(Item) /\ OpenTold(Item, txn.step)
      /\ Filed(fs[Current], Lost(taken, Current), meddling) /\ Current # 0
      /\ meddling \in Nat /\ meddling \in 0..MaxMeddling
  <2>1. Current # 0
    BY <1>1, <1>2, RunningIs, SoundIs DEF Current
  <2> QED
    BY <1>1, <2>1, RunningIs DEF OpenKnown
<1>4. StepIsValid(txn)
  BY <1>1, RunningIs DEF Sound, Valid
<1>5. /\ Streamed(Item) /\ Item.dest \in {"absent", "temp_reserved"}
      /\ txn.step = "reserve_temp" => Item.token /\ (txn.kind = "copy" \/ Item.at = "staged")
      /\ txn.step = "stream_temp" => Item.dest = "temp_reserved"
  BY <1>2, <1>4 DEF StepIsValid, Item, Current
<1>6. Item.token /\ (txn.kind = "copy" \/ Item.at = "staged")
  BY <1>1, <1>2, <1>3, <1>5, OpenFacts
<1>7. Item.strategy = "copy_stream" \/ Item.at = "staged"
  BY <1>3, <1>5, <1>6 DEF OpenKnown, Known, LocationIsValid, Streamed
<1>8. Item.source.data \in 0..MaxMeddling /\ Item.source.data <= meddling
  BY <1>3, ObjectIs DEF OpenKnown, Known, ItemType
<1> QED
  BY <1>1, <1>2, <1>3, <1>5, <1>6, <1>7, <1>8

LEMMA SetTempKeeps ==
  ASSUME IInv, pc \in {"reserve", "commit", "stream"},
         NEW o \in Object, o = Nothing \/ o.id \in Temporary, o.data <= meddling, SetTemp(o),
         faults' \in 0..MaxFaults,
         UNCHANGED <<environment, journal, approved, txn, report>>,
         pc' \in Running, CallOK(call')
  PROVE  Kept' /\ Current' = Current /\ fs'[Current]["temp"] = o
<1> DEFINE f == fs[Current]
           g == [f EXCEPT !["temp"] = o]
<1>1. /\ pc # "idle" /\ txn = journal.current /\ txn.step \in {"reserve_temp", "stream_temp"}
      /\ Item \in ItemType /\ OpenKnown(Item) /\ Told(f, Lost(taken, Current), Item, txn.step)
      /\ Filed(f, Lost(taken, Current), meddling)
      /\ meddling \in Nat /\ meddling \in 0..MaxMeddling
      /\ Item.token /\ Item.dest # "published" /\ (Item.strategy = "copy_stream" \/ Item.at = "staged")
  BY StreamsAre DEF OpenTold
<1>2. UNCHANGED <<far, meddling, taken, journal, approved, txn, report>>
  BY DEF environment
<1>3. fs' = [fs EXCEPT ![Current] = g]
  BY DEF SetTemp
<1>4. TempSet(f, g, o)
  BY DEF TempSet
<1> HIDE DEF f, g
<1>5. txn.step \notin {"publish_temp", "restore_staged_source"} /\ txn.step # "none"
  BY <1>1
<1>6. Filed(g, Lost(taken, Current), meddling) /\ Told(g, Lost(taken, Current), Item, txn.step)
      /\ g["temp"] = o
  BY <1>1, <1>4, <1>5, TempIsSet
<1>7. meddling' \in 0..MaxMeddling /\ meddling <= meddling' /\ Filed(g, Lost(taken, Current), meddling')
  BY <1>1, <1>2, <1>6
<1>8. Kept' /\ fs'[Current] = g
  BY <1>1, <1>2, <1>3, <1>5, <1>6, <1>7, EffectKeeps
<1> QED
  BY <1>2, <1>6, <1>8 DEF Current

LEMMA SameTemp ==
  ASSUME IInv, pc \in {"reserve", "commit", "stream"}
  PROVE  /\ UNCHANGED fs => SetTemp(fs[Current]["temp"])
         /\ fs[Current]["temp"] \in Object /\ fs[Current]["temp"].data <= meddling
         /\ fs[Current]["temp"] = Nothing \/ fs[Current]["temp"].id \in Temporary
<1>1. Current \in Items /\ Filed(fs[Current], Lost(taken, Current), meddling) /\ meddling \in Nat
  BY StreamsAre
<1>2. fs \in [Items -> [Path -> Object]] /\ fs[Current] \in [Path -> Object]
  BY <1>1, FiledIs DEF IInv, TypeOK
<1>3. UNCHANGED fs => SetTemp(fs[Current]["temp"])
  BY <1>1, <1>2, PathIs DEF SetTemp
<1> QED
  BY <1>1, <1>3, FiledIs, PathIs

(* A reply of the streaming helper, and what it left.                      *)
LEMMA StreamReplyKeeps ==
  ASSUME IInv, pc \in {"reserve", "commit", "stream"}, NEW verdict \in {"committed", "no_commit", "none"},
         NEW object \in Object, StreamReply(verdict, object),
         NEW o \in Object, o = Nothing \/ o.id \in Temporary, o.data <= meddling, SetTemp(o),
         faults' \in 0..MaxFaults, UNCHANGED journal,
         verdict = "committed" => pc = "stream" /\ object = File("whole", Item.source.data)
  PROVE  IInv'
<1> DEFINE c == [NoCall EXCEPT !.verdict = verdict, !.object = object]
<1>1. pc' = "streamed" /\ call' = c /\ UNCHANGED <<txn, report, environment, approved>>
  BY DEF StreamReply, Goto
<1>2. c.verdict = verdict /\ c.object = object /\ c.recovering = FALSE /\ c.asked = NoCall.asked
  BY DEF NoCall
<1> HIDE DEF c
<1>3. CallOK(c)
  BY <1>2, NoCallIs DEF CallOK, Verdicts
<1>4. CallOK(call') /\ pc' \in Running
  BY <1>1, <1>3 DEF Running
<1>5. Kept' /\ Current' = Current
  BY <1>1, <1>4, SetTempKeeps
<1>6. Item' = Item /\ txn' = txn
  BY <1>1, <1>5 DEF Item
<1>7. txn.step \in {"reserve_temp", "stream_temp"} /\ (pc = "stream" => txn.step = "stream_temp")
  BY StreamsAre
<1>8. CallIsTrue'
  BY <1>1, <1>2, <1>6, <1>7 DEF CallIsTrue
<1> QED
  BY <1>5, <1>8 DEF IInv, Kept

LEMMA ReserveKeeps ==
  ASSUME IInv, Reserve
  PROVE  IInv'
<1> DEFINE o == File("marker", 0)
<1>1. /\ pc = "reserve" /\ SetTemp(o) /\ Goto("commit", NoCall)
      /\ UNCHANGED <<environment, journal, faults, approved>>
  BY DEF Reserve
<1>2. meddling \in Nat /\ txn.step = "reserve_temp"
  BY <1>1, StreamsAre
<1>3. o \in Object /\ o.id \in Temporary /\ o.data <= meddling
  BY <1>2, ObjectIs, TransferAssumption DEF Temporary
<1>4. o = File("marker", 0)
  OBVIOUS
<1> HIDE DEF o
<1>5. pc' = "commit" /\ call' = NoCall /\ UNCHANGED <<txn, report>> /\ pc' \in Running
  BY <1>1 DEF Goto, Running
<1>6. faults' \in 0..MaxFaults
  BY <1>1 DEF IInv, TypeOK
<1>7. Kept' /\ Current' = Current /\ fs'[Current]["temp"] = o
  BY <1>1, <1>3, <1>5, <1>6, NoCallIs, SetTempKeeps
<1>8. fs'[Current']["temp"] = File("marker", 0)
  BY <1>4, <1>7
<1>9. CallIsTrue'
  BY <1>2, <1>5, <1>8 DEF CallIsTrue
<1> QED
  BY <1>7, <1>9 DEF IInv, Kept

LEMMA ReserveRefusedKeeps ==
  ASSUME IInv, ReserveRefused
  PROVE  IInv'
<1>1. pc = "reserve" /\ StreamReply("no_commit", Nothing) /\ UNCHANGED <<fs, journal, faults>>
  BY DEF ReserveRefused
<1> DEFINE o == fs[Current]["temp"]
<1>2. o \in Object /\ (o = Nothing \/ o.id \in Temporary) /\ o.data <= meddling /\ SetTemp(o)
  BY <1>1, SameTemp
<1> HIDE DEF o
<1>3. faults' \in 0..MaxFaults
  BY <1>1 DEF IInv, TypeOK
<1> QED
  BY <1>1, <1>2, <1>3, ObjectIs, StreamReplyKeeps

LEMMA FaultIs == ASSUME IInv, Fault PROVE faults' \in 0..MaxFaults
<1>1. faults \in 0..MaxFaults /\ faults \in Nat /\ MaxFaults \in Nat
  BY TransferAssumption DEF IInv, TypeOK
<1> QED
  BY <1>1 DEF Fault

LEMMA ReserveFailsKeeps ==
  ASSUME IInv, ReserveFails
  PROVE  IInv'
<1>1. pc = "reserve" /\ Fault /\ UNCHANGED journal /\ faults' \in 0..MaxFaults
  BY FaultIs DEF ReserveFails
<1>2. ASSUME NEW verdict \in {"no_commit", "none"}, UNCHANGED fs, StreamReply(verdict, Nothing)
      PROVE  IInv'
  <2> DEFINE o == fs[Current]["temp"]
  <2>1. o \in Object /\ (o = Nothing \/ o.id \in Temporary) /\ o.data <= meddling /\ SetTemp(o)
    BY <1>1, <1>2, SameTemp
  <2> HIDE DEF o
  <2> QED
    BY <1>1, <1>2, <2>1, ObjectIs, StreamReplyKeeps
<1>3. ASSUME NEW left \in {File("torn", 0), File("marker", 0)}, SetTemp(left),
             StreamReply("none", Nothing)
      PROVE  IInv'
  <2>1. left \in Object /\ left.id \in Temporary /\ left.data <= meddling
    BY <1>1, ObjectIs, StreamsAre, TransferAssumption DEF Temporary
  <2> QED
    BY <1>1, <1>3, <2>1, ObjectIs, StreamReplyKeeps
<1> QED
  BY <1>2, <1>3 DEF ReserveFails

LEMMA StreamKeeps ==
  ASSUME IInv, Stream
  PROVE  IInv'
<1> DEFINE whole == File("whole", Item.source.data)
<1>1. pc = "stream" /\ SetTemp(whole) /\ StreamReply("committed", whole) /\ UNCHANGED <<journal, faults>>
  BY DEF Stream
<1>2. Item.source.data \in 0..MaxMeddling /\ Item.source.data <= meddling
  BY <1>1, StreamsAre
<1>3. whole \in Object /\ whole.id \in Temporary /\ whole.data <= meddling
  BY <1>2, ObjectIs DEF Temporary
<1>4. whole = File("whole", Item.source.data)
  OBVIOUS
<1> HIDE DEF whole
<1>5. faults' \in 0..MaxFaults
  BY <1>1 DEF IInv, TypeOK
<1> QED
  BY <1>1, <1>3, <1>4, <1>5, StreamReplyKeeps

LEMMA StreamRefusedKeeps ==
  ASSUME IInv, StreamRefused
  PROVE  IInv'
<1>1. pc = "stream" /\ StreamReply("none", Nothing) /\ UNCHANGED <<journal, faults>>
  BY DEF StreamRefused
<1>2. PICK left \in {fs[Current]["temp"], File("part", 0)} : SetTemp(left)
  BY DEF StreamRefused
<1>3. meddling \in Nat
  BY <1>1, StreamsAre
<1>4. left \in Object /\ (left = Nothing \/ left.id \in Temporary) /\ left.data <= meddling
  <2>1. CASE left = File("part", 0)
    BY <1>3, <2>1, ObjectIs, TransferAssumption DEF Temporary
  <2>2. CASE left = fs[Current]["temp"]
    BY <1>1, <2>2, SameTemp
  <2> QED
    BY <1>2, <2>1, <2>2
<1>5. faults' \in 0..MaxFaults
  BY <1>1 DEF IInv, TypeOK
<1> QED
  BY <1>1, <1>2, <1>4, <1>5, ObjectIs, StreamReplyKeeps

LEMMA StreamFailsKeeps ==
  ASSUME IInv, StreamFails
  PROVE  IInv'
<1>1. pc = "stream" /\ StreamReply("none", Nothing) /\ UNCHANGED journal /\ faults' \in 0..MaxFaults
  BY FaultIs DEF StreamFails
<1>2. PICK left \in {File("part", 0), File("whole", Item.source.data), fs[Current]["temp"], Nothing} :
        SetTemp(left)
  BY DEF StreamFails
<1>3. meddling \in Nat /\ Item.source.data \in 0..MaxMeddling /\ Item.source.data <= meddling
  BY <1>1, StreamsAre
<1>4. left \in Object /\ (left = Nothing \/ left.id \in Temporary) /\ left.data <= meddling
  <2>1. CASE left = File("part", 0)
    BY <1>3, <2>1, ObjectIs, TransferAssumption DEF Temporary
  <2>2. CASE left = File("whole", Item.source.data)
    BY <1>3, <2>2, ObjectIs DEF Temporary
  <2>3. CASE left = fs[Current]["temp"]
    BY <1>1, <2>3, SameTemp
  <2>4. CASE left = Nothing
    BY <1>3, <2>4, ObjectIs
  <2> QED
    BY <1>2, <2>1, <2>2, <2>3, <2>4
<1> QED
  BY <1>1, <1>2, <1>4, ObjectIs, StreamReplyKeeps

(* The journal may hold the reservation although its writer was told no.   *)
LEMMA CommitFailsKeeps ==
  ASSUME IInv, CommitFails
  PROVE  IInv'
<1>1. /\ pc = "commit" /\ Fault /\ faults' \in 0..MaxFaults
      /\ journal' \in {journal, [current |-> Reservation, previous |-> journal.current]}
  BY FaultIs DEF CommitFails
<1>2. PICK left \in {Nothing, fs[Current]["temp"]} : SetTemp(left)
  BY DEF CommitFails
<1>3. PICK verdict \in {"no_commit", "none"} : StreamReply(verdict, Nothing)
  BY DEF CommitFails
<1>4. left \in Object /\ (left = Nothing \/ left.id \in Temporary) /\ left.data <= meddling
  <2>1. CASE left = fs[Current]["temp"]
    BY <1>1, <2>1, SameTemp
  <2>2. CASE left = Nothing
    BY <1>1, <2>2, ObjectIs, StreamsAre
  <2> QED
    BY <1>2, <2>1, <2>2
<1>5. CASE journal' = journal
  BY <1>1, <1>2, <1>3, <1>4, <1>5, ObjectIs, StreamReplyKeeps
<1>6. CASE journal' = [current |-> Reservation, previous |-> journal.current]
  <2> DEFINE u == Reservation
             n == u.items[Current]
             f == fs[Current]
             g == [f EXCEPT !["temp"] = left]
             lost == Lost(taken, Current)
  <2>1. /\ txn = journal.current /\ txn.step = "reserve_temp" /\ Current \in Items
        /\ Item \in ItemType /\ OpenTold(Item, txn.step) /\ Filed(f, lost, meddling)
        /\ meddling \in Nat /\ meddling \in 0..MaxMeddling
        /\ Item.token /\ Item.dest # "published" /\ (Item.strategy = "copy_stream" \/ Item.at = "staged")
        /\ Sound(txn, approved, meddling) /\ Fits(txn, fs, taken) /\ txn \in Transactions
        /\ txn # NoTxn
    BY <1>1, StreamsAre, RunningIs
  <2>2. /\ Sound(u, approved, meddling) /\ Fits(u, fs, taken) /\ Unfinished(u) = Current
        /\ u.step = "stream_temp" /\ u.kind = txn.kind
    BY <1>1, ReservationIsTrue
  <2> HIDE DEF u
  <2>3. /\ u \in Transactions /\ u # NoTxn /\ u \in TransactionType
        /\ Known(u.kind, approved, meddling, Current, n) /\ StepIsValid(u)
    <3>1. u \in Transactions /\ Known(u.kind, approved, meddling, Current, n)
      BY <2>1, <2>2, SoundIs
    <3>2. StepIsValid(u)
      BY <2>2 DEF Sound, Valid
    <3> QED
      BY <3>1, <3>2, TransactionIs
  <2>4. Streamed(n) /\ n.dest = "temp_reserved"
    BY <2>2, <2>3 DEF StepIsValid
  <2>5. n \in ItemType /\ n.token /\ (n.strategy = "copy_stream" \/ n.at = "staged")
    BY <2>3, <2>4 DEF Known, ProofIsValid, LocationIsValid, Streamed
  <2>6. Told(f, lost, n, "stream_temp")
    BY <2>1, <2>2, OpenIsTold
  <2>7. TempSet(f, g, left) /\ fs' = [fs EXCEPT ![Current] = g]
    BY <1>2 DEF TempSet, SetTemp
  <2>8. Told(f, lost, Item, "reserve_temp")
    BY <2>1 DEF OpenTold
  <2> HIDE DEF n, f, g, lost
  <2>9. Told(g, lost, n, "stream_temp") /\ Filed(g, lost, meddling)
    BY <1>4, <2>1, <2>4, <2>5, <2>6, <2>7, TempIsSet
  <2>10. Told(g, lost, Item, "reserve_temp")
    BY <1>4, <2>1, <2>7, <2>8, TempIsSet
  <2>11. /\ fs \in [Items -> [Path -> Object]] /\ g \in [Path -> Object]
         /\ journal.current \in TransactionType
    BY <2>9, FiledIs DEF IInv, TypeOK
  <2>12. /\ fs' \in [Items -> [Path -> Object]] /\ fs'[Current] = g
         /\ \A j \in Items : j # Current => fs'[j] = fs[j]
    BY <2>1, <2>7, <2>11
  <2>13. /\ pc' = "streamed" /\ UNCHANGED <<txn, report, far, meddling, taken, approved>>
         /\ call' = [NoCall EXCEPT !.verdict = verdict, !.object = Nothing]
    BY <1>3 DEF StreamReply, Goto, environment
  <2>14. call'.verdict = verdict /\ CallOK(call')
    BY <2>13, NoCallIs, ObjectIs DEF CallOK, Verdicts, NoCall
  <2>15. journal'.current = u /\ journal'.previous = txn
         /\ journal' \in [current : TransactionType, previous : TransactionType]
    <3>1. journal' = [current |-> u, previous |-> journal.current]
      BY <1>6 DEF u
    <3> QED
      BY <2>1, <2>3, <2>11, <3>1
  <2>16. Fits(u, fs', taken)
    <3>1. Told(fs'[Unfinished(u)], Lost(taken, Unfinished(u)), u.items[Unfinished(u)], u.step)
      BY <2>2, <2>9, <2>12 DEF n, lost
    <3>2. /\ \A j \in Items : j # Unfinished(u) => fs'[j] = fs[j]
          /\ Unfinished(u) \in Items
      BY <2>1, <2>2, <2>12
    <3> QED
      BY <2>2, <3>1, <3>2, FitsAround
  <2>17. Fits(txn, fs', taken)
    <3>1. Told(fs'[Unfinished(txn)], Lost(taken, Unfinished(txn)), txn.items[Unfinished(txn)], txn.step)
      BY <2>1, <2>10, <2>12 DEF Current, Item, lost
    <3>2. /\ \A j \in Items : j # Unfinished(txn) => fs'[j] = fs[j]
          /\ Unfinished(txn) \in Items
      BY <2>1, <2>12 DEF Current
    <3> QED
      BY <2>1, <3>1, <3>2, FitsAround
  <2>18. TypeOK'
    BY <1>1, <2>12, <2>13, <2>14, <2>15 DEF IInv, TypeOK, CallOK, Asked
  <2>19. FilesAreKnown'
    BY <2>9, <2>12, <2>13 DEF IInv, FilesAreKnown, lost
  <2>20. RecordsAreTrue'
    <3>1. Sound(journal'.current, approved', meddling') /\ Fits(journal'.current, fs', taken')
      BY <2>2, <2>13, <2>15, <2>16
    <3>2. Sound(journal'.previous, approved', meddling')
      BY <2>1, <2>13, <2>15
    <3>3. journal'.current # NoTxn /\ journal'.current.step # "none"
      BY <2>2, <2>3, <2>15
    <3> QED
      BY <3>1, <3>2, <3>3 DEF RecordsAreTrue
  <2>21. Started' /\ pc' # "idle"
    BY <2>13 DEF Started
  <2>22. WorkerFollows'
    <3>1. journal'.current # NoTxn
      BY <2>3, <2>15
    <3>2. Sound(txn', approved', meddling') /\ Fits(txn', fs', taken')
      BY <2>1, <2>13, <2>17
    <3>3. pc' = "streamed" /\ txn'.step = "reserve_temp"
      BY <2>1, <2>13
    <3> QED
      BY <3>1, <3>2, <3>3 DEF WorkerFollows
  <2>23. CallIsTrue' /\ RefusalIsExcused'
    BY <2>1, <2>13, <2>14 DEF CallIsTrue, RefusalIsExcused
  <2> QED
    BY <2>18, <2>19, <2>20, <2>21, <2>22, <2>23 DEF IInv
<1> QED
  BY <1>1, <1>5, <1>6

LEMMA InterruptKeeps ==
  ASSUME IInv, Interrupt
  PROVE  IInv'
<1>1. /\ Fault /\ EndRun("interrupted") /\ UNCHANGED <<fs, environment, journal, approved>>
      /\ faults' \in 0..MaxFaults
  BY FaultIs DEF Interrupt
<1>2. UNCHANGED <<fs, far, meddling, taken, approved, journal>>
  BY <1>1 DEF environment
<1>3. /\ RecordsAreTrue'
      /\ journal' \in [current : TransactionType, previous : TransactionType]
  BY <1>2, SameRecords
<1>4. "interrupted" \in Outcomes
  BY DEF Outcomes
<1> QED
  BY <1>1, <1>2, <1>3, <1>4, EndKeeps

-----------------------------------------------------------------------------
(* Other programs.                                                         *)

Around(f, lost, g, after, edits) ==
  \A it \in ItemType : it.source.data <= edits =>
    \A step \in Steps : Told(f, lost, it, step) => Told(g, after, it, step)

LEMMA EditIsAround ==
  ASSUME NEW f, NEW lost, NEW edits \in Nat, Filed(f, lost, edits),
         NEW later \in 0..MaxMeddling, later \in Nat, edits <= later,
         NEW p \in Path, f[p].id \in {"src", "dst", "whole"},
         NEW size \in {"same", "other"},
         NEW g, g = [f EXCEPT ![p] = [id |-> @.id, data |-> later, size |-> size]]
  PROVE  Filed(g, lost, later) /\ Around(f, lost, g, lost, edits)
<1>1. f \in [Path -> Object]
  BY FiledIs
<1>2. /\ g \in [Path -> Object] /\ g[p].id = f[p].id /\ g[p].data = later
      /\ \A q \in Path : q # p => g[q] = f[q]
  <2> DEFINE edited == [id |-> f[p].id, data |-> later, size |-> size]
  <2>1. edited \in Object /\ edited.id = f[p].id /\ edited.data = later
    BY <1>1, ObjectIs DEF Object
  <2>2. g = [f EXCEPT ![p] = edited]
    OBVIOUS
  <2> HIDE DEF edited
  <2> QED
    BY <1>1, <2>1, <2>2
<1>3. \A q \in Path : g[q].id = f[q].id
  BY <1>2
<1>4. \A q \in Path : g[q].data <= later /\ f[q].data <= g[q].data
  <2> SUFFICES ASSUME NEW q \in Path PROVE g[q].data <= later /\ f[q].data <= g[q].data
    OBVIOUS
  <2>1. f[q].data \in Nat /\ f[q].data <= edits
    BY FiledIs, ObjectIs
  <2> QED
    BY <1>2, <2>1
<1>5. \A q \in Path : g[q] = Nothing <=> f[q] = Nothing
  BY <1>2, FiledIs, ObjectIs
<1>6. Filed(g, lost, later)
  <2>1. \A q \in Path : g[q].id = "nothing" => g[q] = Nothing
    BY <1>3, <1>5, FiledIs
  <2>2. /\ g["staged"].id = f["staged"].id /\ g["temp"].id = f["temp"].id
        /\ g["backup"].id = f["backup"].id
    BY <1>3, PathIs
  <2>3. \A q, s \in Path : g[q].id = "src" /\ g[s].id = "src" => q = s
    BY <1>3, FiledIs
  <2>4. "src" \in lost => \A q \in Path : g[q].id # "src"
    BY <1>3, FiledIs
  <2> QED
    BY <1>2, <1>4, <2>1, <2>2, <2>3, <2>4 DEF Filed
<1>7. ASSUME NEW it \in ItemType, it.source.data <= edits, NEW step \in Steps,
             Told(f, lost, it, step)
      PROVE  Told(g, lost, it, step)
  <2>1. it.to \in Path /\ it.source.data \in Nat
    BY ItemIs, ObjectIs, PathIs DEF ItemType
  <2>2. SameObject(f["backup"], it.auth) => SameObject(g["backup"], it.auth)
    <3> SUFFICES ASSUME SameObject(f["backup"], it.auth)
                 PROVE  SameObject(g["backup"], it.auth)
      OBVIOUS
    <3>1. CASE p = "backup"
      <4>1. f["backup"].id = "dst" /\ g["backup"].id = "dst" /\ g["backup"] # Nothing
        BY <3>1, <1>3, <1>5, FiledIs, PathIs, SameIs DEF Filed
      <4>2. it.auth.id = "dst" /\ it.auth # Nothing
        BY <4>1 DEF SameObject, Temporary
      <4> QED
        BY <4>1, <4>2, SameIs
    <3>2. CASE p # "backup"
      BY <3>2, <1>2, PathIs
    <3> QED
      BY <3>1, <3>2
  <2>3. HiddenTold(g, it, step)
    BY <1>5, <1>7, <2>2, PathIs DEF Told, HiddenTold
  <2>4. CopyTold(g, lost, it, step)
    <3>1. "whole" \in lost => g["temp"] = Nothing /\ Publishes(it, step)
      BY <1>5, <1>7, PathIs DEF Told, CopyTold
    <3>2. ASSUME NEW q \in Path \ {"temp"}, g[q].id \in Temporary
          PROVE  /\ q = it.to /\ g[q].id = "whole" /\ it.source.data <= g[q].data
                 /\ g["temp"] = Nothing /\ Publishes(it, step)
      <4>1. /\ q = it.to /\ f[q].id = "whole" /\ it.source.data <= f[q].data
            /\ f["temp"] = Nothing /\ Publishes(it, step)
        BY <1>3, <1>7, <3>2 DEF Told, CopyTold
      <4>2. f[q].data <= g[q].data /\ f[q].data \in Nat /\ g[q].data \in Nat
        BY <1>1, <1>2, <1>4, ObjectIs
      <4>3. it.source.data <= g[q].data
        BY <2>1, <4>1, <4>2
      <4> QED
        BY <1>3, <1>5, <4>1, <4>3, PathIs
    <3> QED
      BY <3>1, <3>2 DEF CopyTold
  <2>5. SourceTold(g, lost, it, step)
    BY <1>3, <1>7, <2>1, PathIs DEF Told, SourceTold
  <2>6. it.dest = "published" => \E id \in {"src", "whole"} : g[it.to].id = id \/ id \in lost
    BY <1>3, <1>7, <2>1 DEF Told
  <2> QED
    BY <2>3, <2>4, <2>5, <2>6 DEF Told
<1> QED
  BY <1>6, <1>7 DEF Around

LEMMA RemoveIsAround ==
  ASSUME NEW f, NEW lost, NEW edits \in Nat, Filed(f, lost, edits),
         NEW later \in Nat, edits <= later,
         NEW p \in Visible, f[p] # Nothing,
         NEW g, Without(f, g, p),
         NEW after, after = lost \union {f[p].id}
  PROVE  Filed(g, after, later) /\ Around(f, lost, g, after, edits)
<1>1. f \in [Path -> Object] /\ p \in Path /\ p # "temp" /\ p # "staged" /\ p # "backup"
  BY FiledIs, PathIs DEF Visible
<1>2. /\ g \in [Path -> Object] /\ g[p] = Nothing
      /\ \A q \in Path : q # p => g[q] = f[q]
  BY DEF Without
<1>3. Filed(g, lost, later)
  BY <1>1, RemovalKeepsFiled, FiledLater
<1>4. \A q \in Path : g[q].id \in Temporary \union {"src"} => q # p /\ g[q] = f[q]
  BY <1>2, ObjectIs DEF Temporary
<1>5. Filed(g, after, later)
  <2>1. f[p].id = "src" => \A q \in Path : g[q].id # "src"
    BY <1>1, <1>4, FiledIs
  <2> QED
    BY <1>3, <2>1 DEF Filed
<1>6. g["staged"] = f["staged"] /\ g["temp"] = f["temp"] /\ g["backup"] = f["backup"]
  BY <1>1, <1>2, PathIs
<1>7. ASSUME NEW it \in ItemType, it.source.data <= edits, NEW step \in Steps,
             Told(f, lost, it, step)
      PROVE  Told(g, after, it, step)
  <2>1. it.to \in Path
    BY ItemIs, PathIs
  <2>2. HiddenTold(g, it, step)
    BY <1>6, <1>7 DEF Told, HiddenTold
  <2>3. CopyTold(g, after, it, step)
    <3>1. "whole" \in after => g["temp"] = Nothing /\ Publishes(it, step)
      <4>1. CASE "whole" \in lost
        BY <1>6, <1>7, <4>1 DEF Told, CopyTold
      <4>2. CASE f[p].id = "whole"
        BY <1>1, <1>6, <1>7, <4>2 DEF Told, CopyTold, Temporary
      <4> QED
        BY <4>1, <4>2
    <3>2. \A q \in Path \ {"temp"} : g[q].id \in Temporary =>
            /\ q = it.to /\ g[q].id = "whole" /\ it.source.data <= g[q].data
            /\ g["temp"] = Nothing /\ Publishes(it, step)
      BY <1>4, <1>6, <1>7 DEF Told, CopyTold
    <3> QED
      BY <3>1, <3>2 DEF CopyTold
  <2>4. \A q \in Path : g[q] = f[q] \/ f[q].id \in after
    BY <1>2
  <2>5. SourceTold(g, after, it, step)
    <3>1. it.at = "removed" => \A q \in Path : g[q].id = "src" => q = it.to
      BY <1>4, <1>7 DEF Told, SourceTold
    <3>2. it.at = "original" =>
            \/ "src" \in after
            \/ g["source"].id = "src"
            \/ step = "stage_source" /\ g["staged"].id = "src"
            \/ step = "atomic_move" /\ g[it.to].id = "src"
      BY <1>6, <1>7, <2>1, <2>4, PathIs DEF Told, SourceTold
    <3>3. it.at = "staged" =>
            \/ g["staged"].id = "src"
            \/ step = "delete_source"
            \/ step = "restore_staged_source" /\ ("src" \in after \/ g["source"].id = "src")
      BY <1>6, <1>7, <2>4, PathIs DEF Told, SourceTold
    <3> QED
      BY <3>1, <3>2, <3>3 DEF SourceTold
  <2>6. it.dest = "published" => \E id \in {"src", "whole"} : g[it.to].id = id \/ id \in after
    BY <1>7, <2>1, <2>4 DEF Told
  <2> QED
    BY <2>2, <2>3, <2>5, <2>6 DEF Told
<1> QED
  BY <1>5, <1>7 DEF Around

LEMMA CreateIsAround ==
  ASSUME NEW f, NEW lost, NEW edits \in Nat, Filed(f, lost, edits),
         NEW later \in 0..MaxMeddling, later \in Nat, edits <= later,
         NEW p \in Visible, f[p] = Nothing,
         NEW g, g = [f EXCEPT ![p] = File("other", later)]
  PROVE  Filed(g, lost, later) /\ Around(f, lost, g, lost, edits)
<1>1. f \in [Path -> Object] /\ p \in Path /\ p # "temp" /\ p # "staged" /\ p # "backup"
  BY FiledIs, PathIs DEF Visible
<1>2. /\ g \in [Path -> Object] /\ g[p].id = "other" /\ g[p].data = later
      /\ \A q \in Path : q # p => g[q] = f[q]
  BY <1>1, ObjectIs
<1>3. g["staged"] = f["staged"] /\ g["temp"] = f["temp"] /\ g["backup"] = f["backup"]
  BY <1>1, <1>2, PathIs
<1>4. \A q \in Path : g[q].id \in Temporary \union {"src"} => q # p /\ g[q] = f[q]
  BY <1>2, ObjectIs DEF Temporary
<1>5. \A q \in Path : f[q].id \in Temporary \union {"src"} => g[q] = f[q]
  BY <1>2, ObjectIs DEF Temporary
<1>6. Filed(g, lost, later)
  <2>1. \A q \in Path : g[q].data <= later /\ (g[q].id = "nothing" => g[q] = Nothing)
    <3> SUFFICES ASSUME NEW q \in Path
                 PROVE  g[q].data <= later /\ (g[q].id = "nothing" => g[q] = Nothing)
      OBVIOUS
    <3>1. f[q].data \in Nat /\ f[q].data <= edits /\ (f[q].id = "nothing" => f[q] = Nothing)
      BY FiledIs, ObjectIs
    <3>2. CASE q = p
      BY <1>2, <3>2
    <3>3. CASE q # p
      BY <1>2, <3>1, <3>3
    <3> QED
      BY <3>2, <3>3
  <2>2. \A q, s \in Path : g[q].id = "src" /\ g[s].id = "src" => q = s
    BY <1>4, FiledIs
  <2>3. "src" \in lost => \A q \in Path : g[q].id # "src"
    BY <1>4, FiledIs
  <2> QED
    BY <1>2, <1>3, <2>1, <2>2, <2>3 DEF Filed
<1>7. ASSUME NEW it \in ItemType, it.source.data <= edits, NEW step \in Steps,
             Told(f, lost, it, step)
      PROVE  Told(g, lost, it, step)
  <2>1. it.to \in Path
    BY ItemIs, PathIs
  <2>2. HiddenTold(g, it, step)
    BY <1>3, <1>7 DEF Told, HiddenTold
  <2>3. CopyTold(g, lost, it, step)
    BY <1>3, <1>4, <1>7 DEF Told, CopyTold
  <2>4. SourceTold(g, lost, it, step)
    <3>1. it.at = "removed" => \A q \in Path : g[q].id = "src" => q = it.to
      BY <1>4, <1>7 DEF Told, SourceTold
    <3> QED
      BY <1>3, <1>5, <1>7, <2>1, <3>1, PathIs DEF Told, SourceTold
  <2>5. it.dest = "published" => \E id \in {"src", "whole"} : g[it.to].id = id \/ id \in lost
    BY <1>5, <1>7, <2>1 DEF Told, Temporary
  <2> QED
    BY <2>2, <2>3, <2>4, <2>5 DEF Told
<1> QED
  BY <1>6, <1>7 DEF Around

LEMMA KnownLater ==
  ASSUME NEW kind, NEW granted, NEW edits \in Nat, NEW later \in Nat, edits <= later,
         NEW i, NEW it, Known(kind, granted, edits, i, it)
  PROVE  Known(kind, granted, later, i, it) /\ it \in ItemType /\ it.source.data <= edits
<1>1. it \in ItemType /\ it.source.data <= edits
  BY DEF Known
<1>2. it.source.data \in Nat
  BY <1>1, ObjectIs DEF ItemType
<1>3. it.source.data <= later
  BY <1>1, <1>2
<1> QED
  BY <1>1, <1>3 DEF Known

LEMMA FitsStays ==
  ASSUME NEW t, NEW granted, NEW edits, Sound(t, granted, edits),
         NEW files, NEW gone, Fits(t, files, gone), NEW later, NEW since,
         \A j \in Items : Around(files[j], Lost(gone, j), later[j], Lost(since, j), edits)
  PROVE  Fits(t, later, since)
<1> SUFFICES ASSUME NEW j \in Items
             PROVE  Told(later[j], Lost(since, j), t.items[j], StepOf(t, j))
  BY DEF Fits
<1>1. t.items[j] \in ItemType /\ t.items[j].source.data <= edits
  BY SoundIs DEF Known
<1>2. StepOf(t, j) \in Steps
  BY SoundIs, TransactionIs DEF StepOf, Steps
<1>3. Told(files[j], Lost(gone, j), t.items[j], StepOf(t, j))
  BY DEF Fits
<1> QED
  BY <1>1, <1>2, <1>3 DEF Around

LEMMA AroundItself == ASSUME NEW f, NEW lost, NEW edits PROVE Around(f, lost, f, lost, edits)
BY DEF Around

(* A change by another program, at one item.                               *)
LEMMA MeddlingKeeps ==
  ASSUME IInv, Meddles, NEW i \in Items, NEW g, fs' = [fs EXCEPT ![i] = g],
         Filed(g, Lost(taken', i), meddling'),
         Around(fs[i], Lost(taken, i), g, Lost(taken', i), meddling),
         g["temp"] = fs[i]["temp"],
         \A j \in Items : j # i => Lost(taken', j) = Lost(taken, j),
         taken' \subseteq (Items \X {"src", "dst", "other", "whole"})
  PROVE  IInv'
<1>1. /\ journal.current # NoTxn /\ meddling < MaxMeddling /\ meddling' = meddling + 1
      /\ UNCHANGED <<far, journal, txn, pc, call, report, faults, approved>>
  BY DEF Meddles
<1>2. meddling \in Nat /\ meddling' \in 0..MaxMeddling /\ meddling' \in Nat /\ meddling <= meddling'
  BY <1>1, TransferAssumption DEF IInv, TypeOK
<1>2a. meddling' # 0
  BY <1>1, <1>2
<1>3. /\ fs \in [Items -> [Path -> Object]] /\ g \in [Path -> Object]
  BY <1>2, FiledIs DEF IInv, TypeOK
<1>4. /\ fs' \in [Items -> [Path -> Object]] /\ fs'[i] = g
      /\ \A j \in Items : j # i => fs'[j] = fs[j]
  BY <1>3
<1>5. \A j \in Items : Around(fs[j], Lost(taken, j), fs'[j], Lost(taken', j), meddling)
  BY <1>4, AroundItself
<1>6. TypeOK'
  BY <1>1, <1>2, <1>4 DEF IInv, TypeOK, Asked
<1>7. FilesAreKnown'
  <2> SUFFICES ASSUME NEW j \in Items PROVE Filed(fs'[j], Lost(taken', j), meddling')
    BY DEF FilesAreKnown
  <2>1. CASE j = i
    BY <1>4, <2>1
  <2>2. CASE j # i
    <3>1. Filed(fs[j], Lost(taken, j), meddling)
      BY DEF IInv, FilesAreKnown
    <3>2. Filed(fs[j], Lost(taken, j), meddling')
      BY <1>2, <3>1, FiledLater
    <3> QED
      BY <1>4, <2>2, <3>2
  <2> QED
    BY <2>1, <2>2
<1>8. ASSUME NEW t, Sound(t, approved, meddling)
      PROVE  /\ Sound(t, approved', meddling')
             /\ Fits(t, fs, taken) => Fits(t, fs', taken')
  <2>1. Sound(t, approved, meddling')
    BY <1>2, <1>8, StaysSound
  <2>2. Fits(t, fs, taken) => Fits(t, fs', taken')
    BY <1>5, <1>8, FitsStays
  <2> QED
    BY <1>1, <2>1, <2>2
<1>9. RecordsAreTrue'
  <2>1. Sound(journal.current, approved', meddling') /\ Fits(journal.current, fs', taken')
    BY <1>1, <1>8 DEF IInv, RecordsAreTrue
  <2>2. journal.previous # NoTxn =>
          /\ Sound(journal.previous, approved', meddling')
          /\ journal.current.step = "none" => Fits(journal.previous, fs', taken')
    BY <1>8 DEF IInv, RecordsAreTrue
  <2> QED
    BY <1>1, <2>1, <2>2 DEF RecordsAreTrue
<1>10. Started'
  <2>1. ~(report = "new" /\ pc = "idle")
    BY <1>1 DEF IInv, Started, EmptyJournal
  <2> QED
    BY <1>1, <2>1 DEF Started
<1>11. WorkerFollows'
  <2>1. pc # "idle" => Sound(txn, approved', meddling') /\ Fits(txn, fs', taken')
    BY <1>8 DEF IInv, WorkerFollows
  <2> QED
    BY <1>1, <2>1 DEF IInv, WorkerFollows
<1>12. Current' = Current /\ Item' = Item /\ Asked' = Asked
  BY <1>1 DEF Current, Item, Asked
<1>13. ASSUME Current \in Items, NEW it \in ItemType, it.source.data <= meddling, NEW step \in Steps,
              OpenTold(it, step)
       PROVE  Told(fs'[Current], Lost(taken', Current), it, step)
  BY <1>5, <1>13 DEF Around, OpenTold
<1>14. pc \in {"execute", "answer", "confirm", "commit"} =>
         Current \in Items /\ Current # 0 /\ pc # "idle"
  <2>1. pc \in {"execute", "answer", "confirm", "commit"} =>
          pc # "idle" /\ txn.step # "none"
    BY DEF IInv, CallIsTrue, RenameSteps, DeleteSteps
  <2>2. ASSUME pc # "idle", txn.step # "none" PROVE Current # 0 /\ Current \in Items
    BY <2>2, RunningIs, SoundIs DEF Current
  <2> QED
    BY <2>1, <2>2
<1>15. "none" \in Steps
  BY DEF Steps
<1>16. pc \in {"execute", "confirm"} => OpenTold(Item, "none")'
  <2> SUFFICES ASSUME pc \in {"execute", "confirm"} PROVE OpenTold(Item, "none")'
    OBVIOUS
  <2>1. OpenTold(Item, "none") /\ Current \in Items
    BY <1>14 DEF IInv, CallIsTrue
  <2>2. OpenKnown(Item) /\ Item \in ItemType /\ Item.source.data <= meddling
    BY <1>14, RunningIs DEF OpenKnown, Known
  <2>3. Told(fs'[Current], Lost(taken', Current), Item, "none")
    BY <1>13, <1>15, <2>1, <2>2
  <2> QED
    BY <1>12, <2>3 DEF OpenTold
<1>17. ASSUME pc = "answer" PROVE AnswerIsTrue'
  <2>1. AnswerIsTrue /\ Current \in Items /\ Current # 0 /\ pc # "idle"
    BY <1>14, <1>17 DEF IInv, CallIsTrue
  <2>2. Item \in ItemType /\ Item.source.data <= meddling
    BY <2>1, RunningIs DEF Known
  <2>3. ASSUME NEW it, OpenKnown(it), OpenTold(it, "none")
        PROVE  /\ Known(txn'.kind, approved', meddling', Current', it)
               /\ Told(fs'[Current'], Lost(taken', Current'), it, "none")
    <3>1. Known(txn.kind, approved, meddling', Current, it)
          /\ it \in ItemType /\ it.source.data <= meddling
      BY <1>2, <2>3, KnownLater DEF OpenKnown
    <3>2. Told(fs'[Current], Lost(taken', Current), it, "none")
      BY <1>13, <1>15, <2>1, <2>3, <3>1
    <3> QED
      BY <1>1, <1>12, <3>1, <3>2
  <2>4. call.verdict \in {"changed", "conflict", "no_commit", "cross_device"} =>
          Told(fs'[Current'], Lost(taken', Current'), Item, "none")
    BY <1>12, <1>13, <1>15, <2>1, <2>2 DEF AnswerIsTrue
  <2>5. call.verdict = "committed" =>
          LET it == Applied(Item, txn.step, call.object) IN
            /\ Known(txn'.kind, approved', meddling', Current', it)
            /\ Told(fs'[Current'], Lost(taken', Current'), it, "none")
            /\ SnapshotsMatch(it) \/ (meddling' # 0 /\ txn'.step \in Adopting)
    BY <1>1, <1>2a, <2>1, <2>3 DEF AnswerIsTrue, TakenOver
  <2>6. call.verdict = "unproven" =>
          /\ txn.step = "evacuate_overwrite_destination"
          /\ LET it == [Item EXCEPT !.backup = call.object, !.over = "evacuated_unexpected"] IN
               /\ Known(txn'.kind, approved', meddling', Current', it)
               /\ Told(fs'[Current'], Lost(taken', Current'), it, "none")
    BY <2>1, <2>3 DEF AnswerIsTrue
  <2>7. call.verdict = "cross_device" => txn.step = "atomic_move"
    BY <2>1 DEF AnswerIsTrue
  <2> QED
    BY <1>1, <1>12, <2>4, <2>5, <2>6, <2>7 DEF AnswerIsTrue, OpenTold, OpenKnown, TakenOver
<1>18. pc = "ask" => AskIsTrue'
  <2>1. pc = "ask" => AskIsTrue
    BY DEF IInv, CallIsTrue
  <2> QED
    BY <1>1, <1>12, <2>1 DEF AskIsTrue
<1>19. pc = "commit" => fs'[Current']["temp"] = File("marker", 0)
  <2>1. pc = "commit" => fs[Current]["temp"] = File("marker", 0) /\ Current \in Items
    BY <1>14 DEF IInv, CallIsTrue
  <2> QED
    BY <1>4, <1>12, <2>1
<1>20. pc = "confirm" => Unapproved(Current)'
  BY <1>1, <1>12 DEF IInv, CallIsTrue, Unapproved
<1>21. CallIsTrue'
  <2>1. /\ pc' = "initial" => txn'.phase = "prepared"
        /\ pc' \in {"execute", "reconcile", "answer"} => txn'.step \in RenameSteps \union DeleteSteps
        /\ pc' = "reconcile" => call' \in {NoCall, [NoCall EXCEPT !.recovering = TRUE]}
    BY <1>1 DEF IInv, CallIsTrue
  <2>2. /\ pc' = "discard" =>
             txn'.phase = "cleanup" /\ txn'.step = "none" /\ Item'.dest = "temp_reserved"
        /\ pc' \in {"reserve", "commit"} => txn'.step = "reserve_temp"
        /\ pc' = "stream" => txn'.step = "stream_temp"
    BY <1>1, <1>12 DEF IInv, CallIsTrue
  <2>3. pc' = "streamed" =>
             /\ txn'.step \in {"reserve_temp", "stream_temp"}
             /\ call'.verdict \in {"committed", "no_commit", "none"}
             /\ call'.verdict = "committed" =>
                  txn'.step = "stream_temp" /\ call'.object = File("whole", Item'.source.data)
    BY <1>1, <1>12 DEF IInv, CallIsTrue
  <2>4. pc' = "confirm" =>
          txn'.phase = "processing" /\ txn'.step \in {"atomic_move", "publish_temp"}
    BY <1>1 DEF IInv, CallIsTrue
  <2> QED
    BY <1>1, <1>16, <1>17, <1>18, <1>19, <1>20, <2>1, <2>2, <2>3, <2>4 DEF CallIsTrue
<1>22. RefusalIsExcused'
  BY <1>1, <1>2a DEF IInv, RefusalIsExcused, TakenOver
<1> QED
  BY <1>6, <1>7, <1>9, <1>10, <1>11, <1>21, <1>22 DEF IInv

LEMMA EditKeeps ==
  ASSUME IInv, NEW i \in Items, NEW p \in Path, Edit(i, p)
  PROVE  IInv'
<1>0. PICK size \in {"same", "other"} :
        fs' = [fs EXCEPT ![i][p] = [id |-> @.id, data |-> meddling', size |-> size]]
  BY DEF Edit
<1> DEFINE f == fs[i]
           g == [f EXCEPT ![p] = [id |-> @.id, data |-> meddling', size |-> size]]
<1>1. /\ Meddles /\ f[p].id \in {"src", "dst", "whole"} /\ p # "temp" /\ taken' = taken
      /\ fs' = [fs EXCEPT ![i] = g]
  BY <1>0 DEF Edit
<1>2. /\ meddling \in Nat /\ meddling' \in 0..MaxMeddling /\ meddling' \in Nat
      /\ meddling <= meddling'
  BY <1>1, TransferAssumption DEF Meddles, IInv, TypeOK
<1>3. Filed(f, Lost(taken, i), meddling) /\ f \in [Path -> Object]
  BY FiledIs DEF IInv, FilesAreKnown
<1>4. g["temp"] = f["temp"]
  BY <1>1, <1>3, PathIs
<1>5. g = [f EXCEPT ![p] = [id |-> @.id, data |-> meddling', size |-> size]] /\ f = fs[i]
  OBVIOUS
<1> HIDE DEF f, g
<1>6. Filed(g, Lost(taken, i), meddling') /\ Around(f, Lost(taken, i), g, Lost(taken, i), meddling)
  <2> DEFINE later == meddling'
  <2>1. later \in 0..MaxMeddling /\ later \in Nat /\ meddling <= later
        /\ g = [f EXCEPT ![p] = [id |-> @.id, data |-> later, size |-> size]]
    BY <1>2, <1>5
  <2> HIDE DEF later
  <2>2. Filed(g, Lost(taken, i), later) /\ Around(f, Lost(taken, i), g, Lost(taken, i), meddling)
    BY <1>1, <1>2, <1>3, <2>1, EditIsAround
  <2> QED
    BY <2>2 DEF later
<1>7. taken' \subseteq (Items \X {"src", "dst", "other", "whole"})
  BY <1>1 DEF IInv, TypeOK
<1>8. Filed(g, Lost(taken', i), meddling')
      /\ Around(fs[i], Lost(taken, i), g, Lost(taken', i), meddling)
      /\ \A j \in Items : j # i => Lost(taken', j) = Lost(taken, j)
  BY <1>1, <1>5, <1>6
<1> QED
  BY <1>1, <1>4, <1>5, <1>7, <1>8, MeddlingKeeps

LEMMA CreateKeeps ==
  ASSUME IInv, NEW i \in Items, NEW p \in Path, Create(i, p)
  PROVE  IInv'
<1> DEFINE f == fs[i]
           g == [f EXCEPT ![p] = File("other", meddling')]
<1>1. /\ Meddles /\ p \in {"source", "destination"} /\ f[p] = Nothing /\ taken' = taken
      /\ fs' = [fs EXCEPT ![i] = g]
  BY DEF Create
<1>2. /\ meddling \in Nat /\ meddling' \in 0..MaxMeddling /\ meddling' \in Nat
      /\ meddling <= meddling'
  BY <1>1, TransferAssumption DEF Meddles, IInv, TypeOK
<1>3. Filed(f, Lost(taken, i), meddling) /\ f \in [Path -> Object]
  BY FiledIs DEF IInv, FilesAreKnown
<1>4. g["temp"] = f["temp"] /\ p \in Visible
  BY <1>1, <1>3, PathIs DEF Visible
<1>5. g = [f EXCEPT ![p] = File("other", meddling')] /\ f = fs[i]
  OBVIOUS
<1> HIDE DEF f, g
<1>6. Filed(g, Lost(taken, i), meddling') /\ Around(f, Lost(taken, i), g, Lost(taken, i), meddling)
  <2> DEFINE later == meddling'
  <2>1. later \in 0..MaxMeddling /\ later \in Nat /\ meddling <= later
        /\ g = [f EXCEPT ![p] = File("other", later)]
    BY <1>2, <1>5
  <2> HIDE DEF later
  <2>2. Filed(g, Lost(taken, i), later) /\ Around(f, Lost(taken, i), g, Lost(taken, i), meddling)
    BY <1>1, <1>2, <1>3, <1>4, <2>1, CreateIsAround
  <2> QED
    BY <2>2 DEF later
<1>7. taken' \subseteq (Items \X {"src", "dst", "other", "whole"})
  BY <1>1 DEF IInv, TypeOK
<1>8. Filed(g, Lost(taken', i), meddling')
      /\ Around(fs[i], Lost(taken, i), g, Lost(taken', i), meddling)
      /\ \A j \in Items : j # i => Lost(taken', j) = Lost(taken, j)
  BY <1>1, <1>5, <1>6
<1> QED
  BY <1>1, <1>4, <1>5, <1>7, <1>8, MeddlingKeeps

(* At the visible paths there are no unfinished files.                     *)
LEMMA VisibleIs ==
  ASSUME IInv, journal.current # NoTxn, NEW i \in Items, NEW p \in Visible, fs[i][p] # Nothing
  PROVE  fs[i][p].id \in {"src", "dst", "other", "whole"}
<1> DEFINE t == journal.current
<1>1. Fits(t, fs, taken)
  BY DEF IInv, RecordsAreTrue
<1>2. CopyTold(fs[i], Lost(taken, i), t.items[i], StepOf(t, i))
  BY <1>1 DEF Fits, Told
<1>3. p \in Path \ {"temp"}
  BY PathIs DEF Visible
<1>4. fs[i][p].id \in Temporary => fs[i][p].id = "whole"
  BY <1>2, <1>3 DEF CopyTold
<1>5. fs[i][p] \in Object /\ fs[i][p].id # "nothing"
  BY <1>3, FiledIs DEF IInv, FilesAreKnown
<1> QED
  BY <1>4, <1>5, ObjectIs DEF Temporary

LEMMA RemoveKeeps ==
  ASSUME IInv, NEW i \in Items, NEW p \in Path, Remove(i, p)
  PROVE  IInv'
<1> DEFINE f == fs[i]
           g == [f EXCEPT ![p] = Nothing]
<1>1. /\ Meddles /\ p \in Visible /\ f[p] # Nothing /\ taken' = taken \union {<<i, f[p].id>>}
      /\ fs' = [fs EXCEPT ![i] = g]
  BY DEF Remove
<1>2. /\ meddling \in Nat /\ meddling' \in Nat /\ meddling <= meddling'
  BY <1>1, TransferAssumption DEF Meddles, IInv, TypeOK
<1>3. Filed(f, Lost(taken, i), meddling) /\ f \in [Path -> Object]
  BY FiledIs DEF IInv, FilesAreKnown
<1>4. f[p].id \in {"src", "dst", "other", "whole"}
  BY <1>1, VisibleIs DEF Meddles
<1>5. g["temp"] = f["temp"] /\ Without(f, g, p)
  BY <1>1, <1>3, PathIs, RemovalIs DEF Visible
<1>6. f = fs[i]
  OBVIOUS
<1> HIDE DEF f, g
<1>7. Lost(taken', i) = Lost(taken, i) \union {f[p].id}
  BY <1>1, <1>4 DEF Lost
<1>8. \A j \in Items : j # i => Lost(taken', j) = Lost(taken, j)
  BY <1>1 DEF Lost
<1>9. taken' \subseteq (Items \X {"src", "dst", "other", "whole"})
  <2>1. taken \subseteq (Items \X {"src", "dst", "other", "whole"})
    BY DEF IInv, TypeOK
  <2> QED
    BY <1>1, <1>4, <2>1
<1>10. /\ Filed(g, Lost(taken', i), meddling')
       /\ Around(f, Lost(taken, i), g, Lost(taken', i), meddling)
  <2> DEFINE later == meddling'
             after == Lost(taken', i)
             lost == Lost(taken, i)
  <2>1. later \in Nat /\ meddling <= later /\ after = lost \union {f[p].id}
        /\ Filed(f, lost, meddling)
    BY <1>2, <1>3, <1>7
  <2> HIDE DEF later, after, lost
  <2>2. Filed(g, after, later) /\ Around(f, lost, g, after, meddling)
    BY <1>1, <1>2, <1>5, <2>1, RemoveIsAround
  <2> QED
    BY <2>2 DEF later, after, lost
<1> QED
  BY <1>1, <1>5, <1>6, <1>8, <1>9, <1>10, MeddlingKeeps

-----------------------------------------------------------------------------
(* The invariant.                                                          *)

LEMMA InitHolds == Init => IInv
<1> SUFFICES ASSUME Init PROVE IInv
  OBVIOUS
<1>1. /\ far \subseteq Items /\ journal = EmptyJournal /\ txn = NoTxn /\ pc = "idle"
      /\ call = NoCall /\ report = "new" /\ faults = 0 /\ meddling = 0
      /\ taken = {} /\ approved = {}
  BY DEF Init
<1>2. PICK present \in SUBSET Items :
        fs = [i \in Items |->
                [p \in Path |-> CASE p = "source" -> File("src", 0)
                                  [] p = "destination" /\ i \in present -> File("dst", 0)
                                  [] OTHER -> Nothing]]
  BY DEF Init
<1>3. /\ File("src", 0) \in Object /\ File("dst", 0) \in Object /\ Nothing \in Object
      /\ File("src", 0).id = "src" /\ File("dst", 0).id = "dst" /\ Nothing.id = "nothing"
      /\ File("src", 0).data = 0 /\ File("dst", 0).data = 0 /\ Nothing.data = 0
  BY ObjectIs, TransferAssumption
<1>4. \A i \in Items :
        /\ fs[i]["source"] = File("src", 0)
        /\ fs[i]["destination"] \in {Nothing, File("dst", 0)}
        /\ \A p \in Path \ {"source", "destination"} : fs[i][p] = Nothing
  BY <1>2 DEF Path
<1>5. fs \in [Items -> [Path -> Object]]
  <2>1. ASSUME NEW i \in Items
        PROVE  [p \in Path |-> CASE p = "source" -> File("src", 0)
                                 [] p = "destination" /\ i \in present -> File("dst", 0)
                                 [] OTHER -> Nothing] \in [Path -> Object]
    BY <1>3
  <2> QED
    BY <1>2, <2>1
<1>6. /\ journal \in [current : TransactionType, previous : TransactionType]
      /\ txn \in TransactionType /\ journal.current = NoTxn /\ journal.previous = NoTxn
  BY <1>1 DEF EmptyJournal, TransactionType
<1>7. TypeOK
  BY <1>1, <1>5, <1>6, NoCallIs, TransferAssumption DEF TypeOK, CallOK, Asked
<1>8. FilesAreKnown
  <2> SUFFICES ASSUME NEW i \in Items PROVE Filed(fs[i], Lost(taken, i), meddling)
    BY DEF FilesAreKnown
  <2>1. \A p \in Path : fs[i][p] \in {Nothing, File("src", 0), File("dst", 0)}
    BY <1>4
  <2>2. \A p \in Path : fs[i][p].id = "src" => p = "source"
    BY <1>3, <1>4
  <2>3. "src" \notin Lost(taken, i)
    BY <1>1 DEF Lost
  <2>4. fs[i] \in [Path -> Object]
    BY <1>5
  <2>5. \A p \in Path : fs[i][p].data <= 0 /\ (fs[i][p].id = "nothing" => fs[i][p] = Nothing)
    BY <1>3, <2>1
  <2>6. fs[i]["staged"] = Nothing /\ fs[i]["temp"] = Nothing /\ fs[i]["backup"] = Nothing
    BY <1>4, PathIs
  <2> QED
    BY <1>1, <1>3, <2>2, <2>3, <2>4, <2>5, <2>6 DEF Filed
<1>9. RecordsAreTrue
  BY <1>4, <1>6, PathIs DEF RecordsAreTrue, Hidden
<1>10. Started
  BY <1>1, <1>4 DEF Started
<1>11. WorkerFollows /\ CallIsTrue /\ RefusalIsExcused
  BY <1>1 DEF WorkerFollows, CallIsTrue, RefusalIsExcused
<1> QED
  BY <1>7, <1>8, <1>9, <1>10, <1>11 DEF IInv

LEMMA CoordinatorKeeps ==
  ASSUME IInv, Coordinator
  PROVE  IInv'
<1>1. CASE InitialConflicts \/ BeginProcessing
  BY <1>1, InitialConflictsKeeps, BeginProcessingKeeps
<1>2. CASE BeginRename \/ BeginDelete \/ BeginStream \/ BeginRestore
  BY <1>2, BeginRenameKeeps, BeginDeleteKeeps, BeginStreamKeeps, BeginRestoreKeeps
<1>3. CASE RecoverStep \/ RecoverReservation \/ RecoverStream
  BY <1>3, RecoverStepKeeps, RecoverReservationKeeps, RecoverStreamKeeps
<1>4. CASE CleanupReservation \/ CleanupTemporary \/ DiscardTemporary
  BY <1>4, CleanupReservationKeeps, CleanupTemporaryKeeps, DiscardTemporaryKeeps
<1>5. CASE FinishSuccess \/ FinishCleanup
  BY <1>5, FinishKeeps
<1>6. CASE RecordSuccess \/ RecordUnexpected \/ RecordCrossDevice \/ RepeatStep
  BY <1>6, RecordSuccessKeeps, RecordUnexpectedKeeps, RecordCrossDeviceKeeps, RepeatStepKeeps
<1>7. CASE ConfirmConflict \/ FailStep \/ PreserveUncertain \/ RequestOverwrite
  BY <1>7, ConfirmConflictKeeps, FailStepKeeps, PreserveUncertainKeeps, RequestOverwriteKeeps
<1>8. CASE CommitReservation \/ CommitFails \/ RecordStream \/ FailStream \/ PreserveStream
  BY <1>8, CommitReservationKeeps, CommitFailsKeeps, RecordStreamKeeps, FailStreamKeeps,
     PreserveStreamKeeps
<1> QED
  BY <1>1, <1>2, <1>3, <1>4, <1>5, <1>6, <1>7, <1>8 DEF Coordinator

LEMMA HelperKeeps ==
  ASSUME IInv, SizesAreKnown, Helper
  PROVE  IInv'
<1>1. CASE ExecuteRename \/ EvacuateEdited \/ ExecuteDelete \/ Reconcile
  BY <1>1, ExecuteRenameKeeps, EvacuateEditedKeeps, ExecuteDeleteKeeps, ReconcileKeeps
<1>2. CASE Reserve \/ ReserveRefused \/ ReserveFails
  BY <1>2, ReserveKeeps, ReserveRefusedKeeps, ReserveFailsKeeps
<1>3. CASE Stream \/ StreamRefused \/ StreamFails
  BY <1>3, StreamKeeps, StreamRefusedKeeps, StreamFailsKeeps
<1> QED
  BY <1>1, <1>2, <1>3 DEF Helper

LEMMA UserKeeps ==
  ASSUME IInv, User
  PROVE  IInv'
<1>1. ASSUME NEW kind \in {"copy", "move"}, NEW preapproved \in SUBSET Items,
             Start(kind, preapproved)
      PROVE  IInv'
  BY <1>1, StartKeeps
<1>2. CASE Resume \/ DecideOverwrite \/ DecideCreateCopy \/ DecideCancel
  BY <1>2, ResumeKeeps, DecideOverwriteKeeps, DecideCreateCopyKeeps, DecideCancelKeeps
<1> QED
  BY <1>1, <1>2 DEF User

LEMMA OtherProgramsKeep ==
  ASSUME IInv, OtherPrograms
  PROVE  IInv'
<1>1. PICK i \in Items, p \in Path : Edit(i, p) \/ Remove(i, p) \/ Create(i, p)
  BY DEF OtherPrograms
<1> QED
  BY <1>1, EditKeeps, RemoveKeeps, CreateKeeps

LEMMA StutterKeeps ==
  ASSUME IInv, UNCHANGED vars
  PROVE  IInv'
<1>1. UNCHANGED <<fs, far, journal, txn, pc, call, report, faults, meddling, taken, approved>>
  BY DEF vars
<1>2. TypeOK'
  BY <1>1 DEF IInv, TypeOK, Asked
<1>3. FilesAreKnown' /\ Started'
  BY <1>1 DEF IInv, FilesAreKnown, Started
<1>4. RecordsAreTrue'
  BY <1>1, SameRecords
<1>5. WorkerFollows'
  BY <1>1 DEF IInv, WorkerFollows
<1>6. Current' = Current /\ Item' = Item /\ Asked' = Asked
  BY <1>1 DEF Current, Item, Asked
<1>7. AskIsTrue' = AskIsTrue
  BY <1>1, <1>6 DEF AskIsTrue
<1>8. AnswerIsTrue' = AnswerIsTrue /\ OpenTold(Item, "none")' = OpenTold(Item, "none")
  BY <1>1, <1>6 DEF AnswerIsTrue, OpenTold, OpenKnown, TakenOver
<1>9. Unapproved(Current)' = Unapproved(Current)
  BY <1>1, <1>6 DEF Unapproved
<1>10. CallIsTrue'
  BY <1>1, <1>6, <1>7, <1>8, <1>9 DEF IInv, CallIsTrue
<1>11. RefusalIsExcused'
  BY <1>1 DEF IInv, RefusalIsExcused, TakenOver
<1> QED
  BY <1>2, <1>3, <1>4, <1>5, <1>10, <1>11 DEF IInv

LEMMA NextKeeps == IInv /\ SizesAreKnown /\ [Next]_vars => IInv'
<1> SUFFICES ASSUME IInv, SizesAreKnown, [Next]_vars PROVE IInv'
  OBVIOUS
<1>1. CASE Coordinator
  BY <1>1, CoordinatorKeeps
<1>2. CASE Helper
  BY <1>2, HelperKeeps
<1>3. CASE User
  BY <1>3, UserKeeps
<1>4. CASE Interrupt
  BY <1>4, InterruptKeeps
<1>5. CASE OtherPrograms
  BY <1>5, OtherProgramsKeep
<1>6. CASE UNCHANGED vars
  BY <1>6, StutterKeeps
<1> QED
  BY <1>1, <1>2, <1>3, <1>4, <1>5, <1>6 DEF Next

(* What the helper did, if anything, it did to the open item.              *)
LEMMA RepliesChange ==
  ASSUME NEW verdict, NEW object, NEW effect, Replies(verdict, object, effect)
  PROVE  fs' = fs \/ fs' = [fs EXCEPT ![Current] = effect]
BY DEF Replies

LEMMA CoordinatorLeavesFiles ==
  ASSUME Coordinator, ~CommitFails
  PROVE  fs' = fs
<1>1. CASE InitialConflicts \/ BeginProcessing
  BY <1>1 DEF InitialConflicts, BeginProcessing, Quiet
<1>2. CASE BeginRename \/ BeginDelete \/ BeginStream \/ BeginRestore
  BY <1>2 DEF BeginRename, BeginDelete, BeginStream, BeginRestore, Quiet
<1>3. CASE RecoverStep \/ RecoverReservation \/ RecoverStream
  BY <1>3 DEF RecoverStep, RecoverReservation, RecoverStream, Quiet
<1>4. CASE CleanupReservation \/ CleanupTemporary \/ DiscardTemporary
  BY <1>4 DEF CleanupReservation, CleanupTemporary, DiscardTemporary, Quiet
<1>5. CASE FinishSuccess \/ FinishCleanup
  BY <1>5 DEF FinishSuccess, FinishCleanup
<1>6. CASE \/ RecordSuccess \/ RecordUnexpected \/ RecordCrossDevice \/ RepeatStep
           \/ ConfirmConflict \/ FailStep \/ PreserveUncertain
  BY <1>6 DEF RecordSuccess, RecordUnexpected, RecordCrossDevice, RepeatStep, ConfirmConflict,
     FailStep, PreserveUncertain, Answer, Quiet
<1>7. CASE RequestOverwrite \/ CommitReservation
  BY <1>7 DEF RequestOverwrite, CommitReservation, Quiet
<1>8. CASE RecordStream \/ FailStream \/ PreserveStream
  BY <1>8 DEF RecordStream, FailStream, PreserveStream, StreamAnswer, Quiet
<1> QED
  BY <1>1, <1>2, <1>3, <1>4, <1>5, <1>6, <1>7, <1>8 DEF Coordinator

LEMMA UserLeavesFiles ==
  ASSUME User
  PROVE  fs' = fs
<1>1. CASE \E kind \in {"copy", "move"}, preapproved \in SUBSET Items : Start(kind, preapproved)
  BY <1>1 DEF Start, Quiet
<1>2. CASE Resume \/ DecideOverwrite \/ DecideCreateCopy \/ DecideCancel
  BY <1>2 DEF Resume, DecideOverwrite, DecideCreateCopy, DecideCancel, Quiet
<1> QED
  BY <1>1, <1>2 DEF User

LEMMA CoordinatorIsNoEdit ==
  ASSUME Coordinator, ~CommitFails
  PROVE  meddling' = meddling
<1>1. CASE InitialConflicts \/ BeginProcessing
  BY <1>1 DEF InitialConflicts, BeginProcessing, Quiet, environment
<1>2. CASE BeginRename \/ BeginDelete \/ BeginStream \/ BeginRestore
  BY <1>2 DEF BeginRename, BeginDelete, BeginStream, BeginRestore, Quiet, environment
<1>3. CASE RecoverStep \/ RecoverReservation \/ RecoverStream
  BY <1>3 DEF RecoverStep, RecoverReservation, RecoverStream, Quiet, environment
<1>4. CASE CleanupReservation \/ CleanupTemporary \/ DiscardTemporary
  BY <1>4 DEF CleanupReservation, CleanupTemporary, DiscardTemporary, Quiet, environment
<1>5. CASE FinishSuccess \/ FinishCleanup
  BY <1>5 DEF FinishSuccess, FinishCleanup, environment
<1>6. CASE \/ RecordSuccess \/ RecordUnexpected \/ RecordCrossDevice \/ RepeatStep
           \/ ConfirmConflict \/ FailStep \/ PreserveUncertain
  BY <1>6 DEF RecordSuccess, RecordUnexpected, RecordCrossDevice, RepeatStep, ConfirmConflict,
     FailStep, PreserveUncertain, Answer, Quiet, environment
<1>7. CASE RequestOverwrite \/ CommitReservation
  BY <1>7 DEF RequestOverwrite, CommitReservation, Quiet, environment
<1>8. CASE RecordStream \/ FailStream \/ PreserveStream
  BY <1>8 DEF RecordStream, FailStream, PreserveStream, StreamAnswer, Quiet, environment
<1> QED
  BY <1>1, <1>2, <1>3, <1>4, <1>5, <1>6, <1>7, <1>8 DEF Coordinator

SameSizes(f) == \A p \in Path : f[p].size = "same"

LEMMA InitSizes == Init => SizesAreKnown
<1>1. File("src", 0).size = "same" /\ File("dst", 0).size = "same" /\ Nothing.size = "same"
  BY ObjectIs
<1>2. ASSUME Init, NEW i \in Items, NEW p \in Path
      PROVE  fs[i][p] \in {File("src", 0), File("dst", 0), Nothing}
  BY <1>2 DEF Init
<1> QED
  BY <1>1, <1>2 DEF SizesAreKnown

(* What the program writes itself has the size it copied.                  *)
LEMMA TempOfSize ==
  ASSUME IInv, SizesAreKnown, meddling = 0, NEW o, o.size = "same", SetTemp(o),
         pc \in {"reserve", "commit", "stream"}
  PROVE  \A i \in Items : SameSizes(fs'[i])
<1>1. Current \in Items /\ fs \in [Items -> [Path -> Object]]
  BY StreamsAre DEF IInv, TypeOK
<1>2. \A i \in Items : SameSizes(fs[i])
  BY DEF SizesAreKnown, SameSizes
<1>3. \A i \in Items : \A p \in Path : fs'[i][p] \in {fs[i][p], o}
  BY <1>1 DEF SetTemp
<1> QED
  BY <1>2, <1>3 DEF SameSizes

LEMMA StreamSizes ==
  ASSUME IInv, SizesAreKnown, meddling = 0,
         CommitFails \/ Reserve \/ ReserveRefused \/ ReserveFails
         \/ Stream \/ StreamRefused \/ StreamFails
  PROVE  \A i \in Items : SameSizes(fs'[i])
<1>1. pc \in {"reserve", "commit", "stream"}
  BY DEF CommitFails, Reserve, ReserveRefused, ReserveFails, Stream, StreamRefused, StreamFails
<1>2. Current \in Items /\ "temp" \in Path
  BY <1>1, StreamsAre, PathIs
<1>3. /\ fs[Current]["temp"].size = "same" /\ Nothing.size = "same"
      /\ \A id, data : File(id, data).size = "same"
  BY <1>2, ObjectIs DEF SizesAreKnown
<1>4. (\E o : SetTemp(o) /\ o.size = "same") \/ fs' = fs
  <2>1. CASE CommitFails
    BY <1>3, <2>1 DEF CommitFails
  <2>2. CASE Reserve
    BY <1>3, <2>2 DEF Reserve
  <2>3. CASE ReserveRefused
    BY <2>3 DEF ReserveRefused
  <2>4. CASE ReserveFails
    BY <1>3, <2>4 DEF ReserveFails
  <2>5. CASE Stream
    BY <1>3, <2>5 DEF Stream
  <2>6. CASE StreamRefused
    BY <1>3, <2>6 DEF StreamRefused
  <2>7. CASE StreamFails
    BY <1>3, <2>7 DEF StreamFails
  <2> QED
    BY <2>1, <2>2, <2>3, <2>4, <2>5, <2>6, <2>7
<1>5. CASE \E o : SetTemp(o) /\ o.size = "same"
  BY <1>1, <1>5, TempOfSize
<1>6. CASE fs' = fs
  BY <1>6 DEF SizesAreKnown, SameSizes
<1> QED
  BY <1>4, <1>5, <1>6

(* A rename carries a file with its size, a removal leaves none.           *)
LEMMA ExecutionSizes ==
  ASSUME IInv, SizesAreKnown, meddling = 0, ExecuteRename \/ ExecuteDelete
  PROVE  \A i \in Items : SameSizes(fs'[i])
<1> DEFINE f == fs[Current]
<1>1. pc = "execute"
  BY DEF ExecuteRename, ExecuteDelete
<1>2. Current \in Items /\ Item \in ItemType
  BY <1>1, AtWork
<1>3. f \in [Path -> Object] /\ SameSizes(f) /\ fs \in [Items -> [Path -> Object]]
  BY <1>2 DEF IInv, TypeOK, SizesAreKnown, SameSizes
<1>4. Nothing.size = "same"
  BY ObjectIs
<1>5. PICK e : SameSizes(e) /\ (fs' = fs \/ fs' = [fs EXCEPT ![Current] = e])
  <2>1. CASE ExecuteRename
    <3> DEFINE r == RenameOf(Item, txn.step)
               v == RenameVerdict(f, r)
               e == IF v = "committed" THEN Moved(f, r) ELSE f
    <3>1. fs' = fs \/ fs' = [fs EXCEPT ![Current] = e]
      BY <2>1, RepliesChange DEF ExecuteRename
    <3>2. r.from \in Path /\ r.to \in Path
      BY <1>2, <2>1, RenameIs DEF ExecuteRename
    <3> HIDE DEF r
    <3>3. \A p \in Path : Moved(f, r)[p] \in {Nothing, f[r.from], f[p]}
      BY <1>3, <3>2 DEF Moved
    <3>4. SameSizes(Moved(f, r))
      BY <1>3, <1>4, <3>2, <3>3 DEF SameSizes
    <3>5. SameSizes(e)
      BY <1>3, <3>4
    <3> QED
      BY <3>1, <3>5
  <2>2. CASE ExecuteDelete
    <3> DEFINE d == DeleteOf(Item, txn.step)
               v == DeleteVerdict(f, d)
               e == IF v = "committed" THEN [f EXCEPT ![d.path] = Nothing] ELSE f
    <3>1. fs' = fs \/ fs' = [fs EXCEPT ![Current] = e]
      BY <2>2, RepliesChange DEF ExecuteDelete
    <3>2. \A p \in Path : e[p] \in {Nothing, f[p]}
      BY <1>3
    <3>3. SameSizes(e)
      BY <1>3, <1>4, <3>2 DEF SameSizes
    <3> QED
      BY <3>1, <3>3
  <2> QED
    BY <2>1, <2>2
<1>6. \A i \in Items : fs'[i] \in {fs[i], e}
  BY <1>3, <1>5
<1> QED
  BY <1>5, <1>6 DEF SizesAreKnown, SameSizes

LEMMA SizesStayKnown == IInv /\ SizesAreKnown /\ [Next]_vars => SizesAreKnown'
<1> SUFFICES ASSUME IInv, SizesAreKnown, [Next]_vars, meddling' = 0
             PROVE  \A i \in Items : SameSizes(fs'[i])
  BY DEF SizesAreKnown, SameSizes
<1>1. meddling \in Nat
  BY TransferAssumption DEF IInv, TypeOK
<1>2. ~EvacuateEdited /\ ~OtherPrograms
  <2>1. meddling + 1 # 0
    BY <1>1
  <2>2. ~Meddles
    BY <2>1 DEF Meddles
  <2> QED
    BY <2>1, <2>2 DEF EvacuateEdited, OtherPrograms, Edit, Remove, Create
<1>3. CASE fs' = fs /\ meddling = 0
  BY <1>3 DEF SizesAreKnown, SameSizes
<1>4. CASE Coordinator
  <2>1. CASE CommitFails
    <3>1. meddling = 0
      BY <2>1 DEF CommitFails, StreamReply, environment
    <3> QED
      BY <2>1, <3>1, StreamSizes
  <2>2. CASE ~CommitFails
    BY <1>3, <1>4, <2>2, CoordinatorLeavesFiles, CoordinatorIsNoEdit
  <2> QED
    BY <2>1, <2>2
<1>5. CASE User
  BY <1>3, <1>5, UserLeavesFiles DEF User, Start, Resume, DecideOverwrite, DecideCreateCopy,
     DecideCancel, Quiet, environment
<1>6. CASE Helper
  <2>1. CASE ExecuteRename \/ ExecuteDelete
    <3>1. meddling = 0
      BY <2>1 DEF ExecuteRename, ExecuteDelete, Replies, environment
    <3> QED
      BY <2>1, <3>1, ExecutionSizes
  <2>2. CASE Reserve \/ ReserveRefused \/ ReserveFails \/ Stream \/ StreamRefused \/ StreamFails
    <3>1. meddling = 0
      BY <2>2 DEF Reserve, ReserveRefused, ReserveFails, Stream, StreamRefused, StreamFails,
         StreamReply, environment
    <3> QED
      BY <2>2, <3>1, StreamSizes
  <2>3. CASE Reconcile
    BY <1>3, <2>3 DEF Reconcile, Quiet, environment
  <2> QED
    BY <1>2, <1>6, <2>1, <2>2, <2>3 DEF Helper
<1>7. CASE Interrupt
  BY <1>3, <1>7 DEF Interrupt, environment
<1>8. CASE UNCHANGED vars
  BY <1>3, <1>8 DEF vars
<1> QED
  BY <1>2, <1>4, <1>5, <1>6, <1>7, <1>8 DEF Next

(* Whatever is interrupted, both generations of the journal tell where the *)
(* files of every item are, and the worker's own copy is the one on disk:  *)
(* recovery never has to guess.  A record is refused only after a change   *)
(* by another program, when the step on record is a rename whose result is *)
(* taken over as it is found (FileTransferCoordinator::resume,             *)
(* valid_file_transfer_transaction, apply_rename_success).                 *)
THEOREM RecordTellsThePlaces == Spec => []IInv
<1>1. Init => IInv /\ SizesAreKnown
  BY InitHolds, InitSizes
<1>2. IInv /\ SizesAreKnown /\ [Next]_vars => IInv' /\ SizesAreKnown'
  BY NextKeeps, SizesStayKnown
<1> QED
  BY <1>1, <1>2, PTL DEF Spec

(* Every variable keeps its type.                                          *)
THEOREM TypesAreKept == Spec => []TypeOK
<1>1. IInv => TypeOK
  BY DEF IInv
<1> QED
  BY <1>1, RecordTellsThePlaces, PTL

(* Hidden files never outlive the journal that knows of them               *)
(* (remove_journal, FinishCleanup's guard); and no run ends on a record    *)
(* that its own validation refuses, but for a file that another program    *)
(* changed before one of the renames that take it over was reconciled.     *)
THEOREM NothingIsForgotten == Spec => []NothingHiddenIsForgotten
<1>1. IInv => NothingHiddenIsForgotten
  BY DEF IInv, RecordsAreTrue, NothingHiddenIsForgotten, Hidden, RefusalIsExcused, TakenOver
<1> QED
  BY <1>1, RecordTellsThePlaces, PTL

-----------------------------------------------------------------------------
(* What a step does to the files that are the user's, or others': a file   *)
(* disappears only when the coordinator's own removal is carried out.      *)

Foreign == {"src", "dst", "other"}

StillThere(f, g) == \A id \in Foreign : Holds(f, id) => Holds(g, id)

(* The streaming helper touches only temporary files.                      *)
LEMMA TempIsNoFile ==
  ASSUME IInv, pc \in {"reserve", "commit", "stream"}, NEW o, SetTemp(o), NEW i \in Items
  PROVE  StillThere(fs[i], fs'[i])
<1>1. /\ Current \in Items /\ fs \in [Items -> [Path -> Object]]
      /\ Filed(fs[Current], Lost(taken, Current), meddling)
  BY StreamsAre DEF IInv, TypeOK
<1>2. \A p \in Path : p # "temp" => fs'[i][p] = fs[i][p]
  BY <1>1 DEF SetTemp
<1>3. i = Current => fs[i]["temp"].id \notin Foreign
  BY <1>1 DEF Filed, Foreign, Temporary
<1>4. i # Current => fs'[i] = fs[i]
  BY <1>1 DEF SetTemp
<1>5. CASE i = Current
  BY <1>2, <1>3, <1>5 DEF StillThere, Holds
<1>6. CASE i # Current
  BY <1>4, <1>6 DEF StillThere
<1> QED
  BY <1>5, <1>6

LEMMA StreamLeavesFiles ==
  ASSUME IInv, CommitFails \/ Reserve \/ ReserveRefused \/ ReserveFails
               \/ Stream \/ StreamRefused \/ StreamFails,
         NEW i \in Items
  PROVE  StillThere(fs[i], fs'[i])
<1>1. pc \in {"reserve", "commit", "stream"}
  BY DEF CommitFails, Reserve, ReserveRefused, ReserveFails, Stream, StreamRefused, StreamFails
<1>2. (\E o : SetTemp(o)) \/ fs' = fs
  <2>1. CASE CommitFails
    BY <2>1 DEF CommitFails
  <2>2. CASE Reserve
    BY <2>2 DEF Reserve
  <2>3. CASE ReserveRefused
    BY <2>3 DEF ReserveRefused
  <2>4. CASE ReserveFails
    BY <2>4 DEF ReserveFails
  <2>5. CASE Stream
    BY <2>5 DEF Stream
  <2>6. CASE StreamRefused
    BY <2>6 DEF StreamRefused
  <2>7. CASE StreamFails
    BY <2>7 DEF StreamFails
  <2> QED
    BY <2>1, <2>2, <2>3, <2>4, <2>5, <2>6, <2>7
<1>3. CASE \E o : SetTemp(o)
  BY <1>1, <1>3, TempIsNoFile
<1>4. CASE fs' = fs
  BY <1>4 DEF StillThere
<1> QED
  BY <1>2, <1>3, <1>4

LEMMA CarriedIsThere ==
  ASSUME NEW f, NEW g, NEW from \in Path, NEW to \in Path, Carried(f, g, from, to),
         f[to] = Nothing
  PROVE  StillThere(f, g)
<1> SUFFICES ASSUME NEW id \in Foreign, NEW p \in Path, f[p].id = id
             PROVE  \E q \in Path : g[q].id = id
  BY DEF StillThere, Holds
<1>1. p # to
  BY ObjectIs DEF Foreign
<1>2. CASE p = from
  BY <1>2 DEF Carried
<1>3. CASE p # from
  BY <1>1, <1>3 DEF Carried
<1> QED
  BY <1>2, <1>3

LEMMA RenameLeavesFiles ==
  ASSUME IInv, ExecuteRename, NEW i \in Items
  PROVE  StillThere(fs[i], fs'[i])
<1> DEFINE f == fs[Current]
           r == RenameOf(Item, txn.step)
           v == RenameVerdict(f, r)
           e == IF v = "committed" THEN Moved(f, r) ELSE f
<1>1. pc = "execute" /\ txn.step \in RenameSteps /\ Replies(v, f[r.from], e)
  BY DEF ExecuteRename
<1>2. Current \in Items /\ Item \in ItemType /\ f \in [Path -> Object]
      /\ fs \in [Items -> [Path -> Object]]
  BY <1>1, AtWork, FiledIs DEF IInv, TypeOK
<1>3. r.from \in Path /\ r.to \in Path /\ r.from # r.to
  BY <1>1, <1>2, RenameIs
<1>4. v = "committed" => f[r.to] = Nothing
  BY DEF RenameVerdict
<1>5. v = "committed" => Carried(f, e, r.from, r.to)
  <2>1. Carried(f, [f EXCEPT ![r.to] = f[r.from], ![r.from] = Nothing], r.from, r.to)
    BY <1>2, <1>3, MoveIs
  <2> QED
    BY <2>1 DEF Moved
<1>6. v # "committed" => e = f
  OBVIOUS
<1>7. fs' = fs \/ fs' = [fs EXCEPT ![Current] = e]
  BY <1>1, RepliesChange
<1> HIDE DEF r, v, e
<1>8. StillThere(f, e)
  <2>1. CASE v = "committed"
    <3>1. Carried(f, e, r.from, r.to) /\ f[r.to] = Nothing
      BY <1>4, <1>5, <2>1
    <3> QED
      BY <1>3, <3>1, CarriedIsThere
  <2>2. CASE v # "committed"
    BY <1>6, <2>2 DEF StillThere
  <2> QED
    BY <2>1, <2>2
<1>9. fs'[i] = fs[i] \/ (i = Current /\ fs'[i] = e)
  BY <1>2, <1>7
<1>10. CASE fs'[i] = fs[i]
  BY <1>10 DEF StillThere
<1>11. CASE i = Current /\ fs'[i] = e
  BY <1>8, <1>11
<1> QED
  BY <1>9, <1>10, <1>11

LEMMA EvacuationLeavesFiles ==
  ASSUME IInv, EvacuateEdited, NEW i \in Items
  PROVE  StillThere(fs[i], fs'[i])
<1> DEFINE f == fs[Current]
           r == RenameOf(Item, txn.step)
           b == File(f[r.from].id, meddling')
           e == [Moved(f, r) EXCEPT !["backup"] = b]
<1>1. /\ pc = "execute" /\ txn.step = "evacuate_overwrite_destination"
      /\ RenameVerdict(f, r) = "committed" /\ fs' = [fs EXCEPT ![Current] = e]
  BY DEF EvacuateEdited
<1>2. Current \in Items /\ Item \in ItemType /\ f \in [Path -> Object]
      /\ fs \in [Items -> [Path -> Object]]
  BY <1>1, AtWork, FiledIs DEF IInv, TypeOK
<1>3. r.from = Item.to /\ r.to = "backup"
  BY <1>1 DEF RenameOf
<1>4. f["backup"] = Nothing /\ Item.to \in Path /\ Item.to # "backup"
  BY <1>1, <1>2, <1>3, ItemIs DEF RenameVerdict
<1>5. e = [[f EXCEPT !["backup"] = f[Item.to], ![Item.to] = Nothing] EXCEPT !["backup"] = b]
  BY <1>3 DEF Moved
<1>6. b.id = f[Item.to].id
  BY <1>3, ObjectIs
<1> HIDE DEF r, b
<1>7. e["backup"] = b /\ \A p \in Path : p # Item.to /\ p # "backup" => e[p] = f[p]
  BY <1>2, <1>4, <1>5, PathIs
<1> HIDE DEF e
<1>8. StillThere(f, e)
  <2> SUFFICES ASSUME NEW id \in Foreign, NEW p \in Path, f[p].id = id
               PROVE  \E q \in Path : e[q].id = id
    BY DEF StillThere, Holds
  <2>1. p # "backup"
    BY <1>4, ObjectIs DEF Foreign
  <2>2. CASE p = Item.to
    <3>1. e["backup"].id = id
      BY <1>6, <1>7, <2>2
    <3> QED
      BY <3>1, PathIs
  <2>3. CASE p # Item.to
    BY <1>7, <2>1, <2>3
  <2> QED
    BY <2>2, <2>3
<1>9. CASE i = Current
  BY <1>1, <1>2, <1>8, <1>9
<1>10. CASE i # Current
  BY <1>1, <1>2, <1>10 DEF StillThere
<1> QED
  BY <1>9, <1>10

(* Other programs make a file disappear only by removing it.               *)
LEMMA OthersLeaveFiles ==
  ASSUME IInv, NEW j \in Items, NEW p \in Path, Edit(j, p) \/ Create(j, p), NEW i \in Items
  PROVE  StillThere(fs[i], fs'[i])
<1>1. fs \in [Items -> [Path -> Object]]
  BY DEF IInv, TypeOK
<1> DEFINE Put(o) == /\ fs' = [fs EXCEPT ![j][p] = o]
                     /\ fs[j][p].id \in Foreign => o.id = fs[j][p].id
<1>2. \E o : Put(o)
  <2>1. CASE Edit(j, p)
    <3>1. PICK size \in {"same", "other"} :
            fs' = [fs EXCEPT ![j][p] = [id |-> @.id, data |-> meddling', size |-> size]]
      BY <2>1 DEF Edit
    <3>2. Put([id |-> fs[j][p].id, data |-> meddling', size |-> size])
      BY <1>1, <3>1
    <3> QED
      BY <3>2
  <2>2. CASE Create(j, p)
    <3>1. fs' = [fs EXCEPT ![j][p] = File("other", meddling')] /\ fs[j][p] = Nothing
      BY <2>2 DEF Create
    <3>2. fs[j][p].id \notin Foreign
      BY <3>1, ObjectIs DEF Foreign
    <3>3. Put(File("other", meddling'))
      BY <3>1, <3>2
    <3> QED
      BY <3>3
  <2> QED
    BY <2>1, <2>2
<1>3. PICK o : Put(o)
  BY <1>2
<1>4. fs'[j][p] = o /\ \A q \in Path : q # p => fs'[j][q] = fs[j][q]
  BY <1>1, <1>3
<1>5. CASE i = j
  <2> SUFFICES ASSUME NEW id \in Foreign, NEW q \in Path, fs[j][q].id = id
               PROVE  \E n \in Path : fs'[j][n].id = id
    BY <1>5 DEF StillThere, Holds
  <2>1. CASE q = p
    BY <1>3, <1>4, <2>1
  <2>2. CASE q # p
    BY <1>4, <2>2
  <2> QED
    BY <2>1, <2>2
<1>6. CASE i # j
  BY <1>1, <1>3, <1>6 DEF StillThere
<1> QED
  BY <1>5, <1>6

LEMMA RemovalIsElsewhere ==
  ASSUME IInv, NEW j \in Items, NEW p \in Path, Remove(j, p), NEW i \in Items, ~TakenNow(i)
  PROVE  StillThere(fs[i], fs'[i])
<1>1. i # j
  BY DEF TakenNow
<1>2. fs \in [Items -> [Path -> Object]]
  BY DEF IInv, TypeOK
<1> QED
  BY <1>1, <1>2 DEF Remove, StillThere

(* The removal that makes a file disappear, and what was there before it.  *)
RemovedByUs(i) ==
  /\ pc = "execute" /\ txn.step \in DeleteSteps /\ i = Current
  /\ LET d == DeleteOf(Item, txn.step) IN
       /\ DeleteVerdict(fs[i], d) = "committed"
       /\ Without(fs[i], fs'[i], d.path)

LEMMA DeletionIsOurs ==
  ASSUME IInv, ExecuteDelete, NEW i \in Items
  PROVE  StillThere(fs[i], fs'[i]) \/ RemovedByUs(i)
<1> DEFINE f == fs[Current]
           d == DeleteOf(Item, txn.step)
           v == DeleteVerdict(f, d)
           e == IF v = "committed" THEN [f EXCEPT ![d.path] = Nothing] ELSE f
<1>1. pc = "execute" /\ txn.step \in DeleteSteps /\ Replies(v, Nothing, e)
  BY DEF ExecuteDelete
<1>2. Current \in Items /\ Item \in ItemType /\ f \in [Path -> Object]
      /\ fs \in [Items -> [Path -> Object]]
  BY <1>1, AtWork, FiledIs DEF IInv, TypeOK
<1>3. d.path \in Path
  BY <1>1, <1>2, DeleteIs, PathIs DEF Hidden
<1>4. v = "committed" => Without(f, e, d.path)
  BY <1>2, <1>3, RemovalIs
<1>5. v # "committed" => e = f
  OBVIOUS
<1>6. fs' = fs \/ fs' = [fs EXCEPT ![Current] = e]
  BY <1>1, RepliesChange
<1> HIDE DEF e
<1>7. fs'[i] = fs[i] \/ (i = Current /\ fs'[i] = e)
  BY <1>2, <1>6
<1>8. CASE fs'[i] = fs[i]
  BY <1>8 DEF StillThere
<1>9. CASE i = Current /\ fs'[i] = e
  <2>1. CASE v = "committed"
    BY <1>1, <1>4, <1>9, <2>1 DEF RemovedByUs
  <2>2. CASE v # "committed"
    BY <1>5, <1>9, <2>2 DEF StillThere
  <2> QED
    BY <2>1, <2>2
<1> QED
  BY <1>7, <1>8, <1>9

LEMMA DisappearingIs ==
  ASSUME IInv, [Next]_vars, NEW i \in Items, ~TakenNow(i)
  PROVE  StillThere(fs[i], fs'[i]) \/ RemovedByUs(i)
<1>1. CASE Coordinator
  <2>1. CASE CommitFails
    BY <2>1, StreamLeavesFiles
  <2>2. CASE ~CommitFails
    BY <1>1, <2>2, CoordinatorLeavesFiles DEF StillThere
  <2> QED
    BY <2>1, <2>2
<1>2. CASE Helper
  <2>1. CASE ExecuteRename
    BY <2>1, RenameLeavesFiles
  <2>2. CASE EvacuateEdited
    BY <2>2, EvacuationLeavesFiles
  <2>3. CASE ExecuteDelete
    BY <2>3, DeletionIsOurs
  <2>4. CASE Reconcile
    BY <2>4 DEF Reconcile, Quiet, StillThere
  <2>5. CASE Reserve \/ ReserveRefused \/ ReserveFails \/ Stream \/ StreamRefused \/ StreamFails
    BY <2>5, StreamLeavesFiles
  <2> QED
    BY <1>2, <2>1, <2>2, <2>3, <2>4, <2>5 DEF Helper
<1>3. CASE User
  BY <1>3, UserLeavesFiles DEF StillThere
<1>4. CASE Interrupt
  BY <1>4 DEF Interrupt, StillThere
<1>5. CASE OtherPrograms
  <2>1. PICK j \in Items, p \in Path : Edit(j, p) \/ Remove(j, p) \/ Create(j, p)
    BY <1>5 DEF OtherPrograms
  <2> QED
    BY <2>1, OthersLeaveFiles, RemovalIsElsewhere
<1>6. CASE UNCHANGED vars
  BY <1>6 DEF vars, StillThere
<1> QED
  BY <1>1, <1>2, <1>3, <1>4, <1>5, <1>6 DEF Next

(* The source goes only at the end of a stream, from its hidden name.      *)
LEMMA SourceRemoval ==
  ASSUME IInv, NEW i \in Items, RemovedByUs(i), Holds(fs[i], "src"), ~Holds(fs'[i], "src")
  PROVE  LET copy == fs[i][txn.items[i].to] IN
           /\ copy.id = "whole"
           /\ \A p \in Path : fs[i][p].id = "src" => copy.data >= fs[i][p].data
<1> DEFINE d == DeleteOf(Item, txn.step)
           f == fs[i]
<1>1. /\ pc = "execute" /\ txn.step \in DeleteSteps /\ i = Current
      /\ DeleteVerdict(f, d) = "committed" /\ Without(f, fs'[i], d.path)
  BY DEF RemovedByUs
<1>2. /\ Sound(txn, approved, meddling) /\ meddling \in Nat /\ Item = txn.items[i]
      /\ Item \in ItemType /\ OpenKnown(Item) /\ Filed(f, Lost(taken, i), meddling)
      /\ Item = txn.items[Unfinished(txn)]
  BY <1>1, AtWork DEF Current
<1>3. d.path \in Path /\ f[d.path].id = "src"
  <2>1. PICK p \in Path : f[p].id = "src"
    BY DEF Holds
  <2>2. p = d.path
    BY <1>1, <2>1 DEF Without, Holds
  <2> QED
    BY <2>1, <2>2
<1>4. d.path = "staged" /\ txn.step = "delete_source" /\ d.expected = Item.source
  <2>1. f["temp"].id # "src" /\ f["backup"].id # "src"
    BY <1>2 DEF Filed, Temporary
  <2>2. d.path \in Hidden /\ (d.path = "staged" <=> txn.step = "delete_source")
    BY <1>1, <1>2, DeleteIs
  <2>3. d.path = "staged" /\ txn.step = "delete_source"
    BY <1>3, <2>1, <2>2 DEF Hidden
  <2> QED
    BY <1>1, <1>2, <2>3, DeleteIs
<1>5. f["staged"] = Item.source /\ f[Item.to] = Item.temp
  BY <1>1, <1>4 DEF DeleteVerdict
<1>6. Item.strategy = "move_stream" /\ Item.dest = "published"
  BY <1>1, <1>2, <1>4, StepFacts
<1>7. Item.temp.id = "whole" /\ Item.source.data <= Item.temp.data
  BY <1>2, <1>6 DEF OpenKnown, Known, Streamed
<1>8. \A p \in Path : f[p].id = "src" => f[p] = Item.source
  BY <1>2, <1>3, <1>4, <1>5, FiledIs
<1>9. Item.source.data \in Nat /\ Item.temp.data \in Nat
  BY <1>2, ItemIs, ObjectIs
<1>10. ASSUME NEW p \in Path, f[p].id = "src"
       PROVE  f[Item.to].data >= f[p].data
  BY <1>5, <1>7, <1>8, <1>9, <1>10
<1> QED
  BY <1>2, <1>5, <1>7, <1>10

(* Another file goes only from where it made room.                         *)
LEMMA OverwrittenRemoval ==
  ASSUME IInv, NEW i \in Items, RemovedByUs(i), NEW id \in {"dst", "other"},
         Holds(fs[i], id), ~Holds(fs'[i], id)
  PROVE  /\ \E p \in Path : fs[i][p].id = id /\ <<i, fs[i][p]>> \in approved
         /\ Delivered(fs, txn, i)
<1> DEFINE d == DeleteOf(Item, txn.step)
           f == fs[i]
<1>1. /\ pc = "execute" /\ txn.step \in DeleteSteps /\ i = Current
      /\ DeleteVerdict(f, d) = "committed" /\ Without(f, fs'[i], d.path)
  BY DEF RemovedByUs
<1>2. /\ Sound(txn, approved, meddling) /\ meddling \in Nat /\ Item = txn.items[i]
      /\ Item \in ItemType /\ OpenKnown(Item) /\ Filed(f, Lost(taken, i), meddling)
      /\ Item = txn.items[Unfinished(txn)] /\ OpenTold(Item, "none")
  BY <1>1, AtWork DEF Current
<1>3. d.path \in Path /\ f[d.path].id = id
  <2>1. PICK p \in Path : f[p].id = id
    BY DEF Holds
  <2>2. p = d.path
    BY <1>1, <2>1 DEF Without, Holds
  <2> QED
    BY <2>1, <2>2
<1>4. d.path = "backup" /\ txn.step = "cleanup_overwrite_destination" /\ d.expected = Item.backup
  <2>1. f["temp"].id \notin {"dst", "other"} /\ f["staged"].id \notin {"dst", "other"}
    BY <1>2 DEF Filed, Temporary
  <2>2. d.path \in Hidden /\ (d.path = "backup" <=> txn.step = "cleanup_overwrite_destination")
    BY <1>1, <1>2, DeleteIs
  <2>3. d.path = "backup" /\ txn.step = "cleanup_overwrite_destination"
    BY <1>3, <2>1, <2>2 DEF Hidden
  <2> QED
    BY <1>1, <1>2, <2>3, DeleteIs
<1>5. f["backup"] = Item.backup
  BY <1>1, <1>4 DEF DeleteVerdict
<1>6. Item.over = "evacuated" /\ Item.dest = "published"
  <2>1. StepIsValid(txn)
    BY <1>2 DEF Sound, Valid
  <2> QED
    BY <1>2, <1>4, <2>1 DEF StepIsValid
<1>7. Item.backup = Item.auth /\ Item.auth # Nothing
  BY <1>2, <1>6 DEF OpenKnown, Known, OverwriteIsValid
<1>8. <<i, Item.auth>> \in approved
  BY <1>1, <1>2, <1>7 DEF OpenKnown, Known
<1>9. \E lost \in {"src", "whole"} : f[Item.to].id = lost \/ lost \in Lost(taken, i)
  BY <1>1, <1>2, <1>6 DEF OpenTold, Told
<1>10. Delivered(fs, txn, i)
  BY <1>2, <1>9 DEF Delivered, Taken, Lost
<1> QED
  BY <1>3, <1>4, <1>5, <1>7, <1>8, <1>10

(* Moving a file never loses it: the source disappears only while a whole  *)
(* copy of this revision, or a later one, is where it was to go            *)
(* (delete_source and its guard, transfer_source_commit).                  *)
THEOREM NoSourceIsLost == Spec => SourceOutlivesItsCopying
<1> DEFINE Step ==
      \A i \in Items :
        Holds(fs[i], "src") /\ ~Holds(fs'[i], "src") /\ ~TakenNow(i) =>
          LET copy == fs[i][txn.items[i].to] IN
            /\ copy.id = "whole"
            /\ \A p \in Path : fs[i][p].id = "src" => copy.data >= fs[i][p].data
<1>1. ASSUME IInv, [Next]_vars PROVE Step
  <2> SUFFICES ASSUME NEW i \in Items,
                      Holds(fs[i], "src"), ~Holds(fs'[i], "src"), ~TakenNow(i)
               PROVE  LET copy == fs[i][txn.items[i].to] IN
                        /\ copy.id = "whole"
                        /\ \A p \in Path : fs[i][p].id = "src" => copy.data >= fs[i][p].data
    OBVIOUS
  <2>1. RemovedByUs(i)
    BY <1>1, DisappearingIs DEF StillThere, Foreign
  <2> QED
    BY <1>1, <2>1, SourceRemoval
<1>2. IInv /\ [Next]_vars => [Step]_vars
  BY <1>1
<1> QED
  BY <1>2, RecordTellsThePlaces, PTL DEF Spec, SourceOutlivesItsCopying

(* A file at the destination disappears only in the revision the user let  *)
(* be overwritten, and after the new one was delivered                     *)
(* (cleanup_overwrite_destination).                                        *)
THEOREM NothingElseIsOverwritten == Spec => OverwrittenOnlyAsApproved
<1> DEFINE Step ==
      \A i \in Items : \A id \in {"dst", "other"} :
        Holds(fs[i], id) /\ ~Holds(fs'[i], id) /\ ~TakenNow(i) =>
          /\ \E p \in Path : fs[i][p].id = id /\ <<i, fs[i][p]>> \in approved
          /\ Delivered(fs, txn, i)
<1>1. ASSUME IInv, [Next]_vars PROVE Step
  <2> SUFFICES ASSUME NEW i \in Items, NEW id \in {"dst", "other"},
                      Holds(fs[i], id), ~Holds(fs'[i], id), ~TakenNow(i)
               PROVE  /\ \E p \in Path : fs[i][p].id = id /\ <<i, fs[i][p]>> \in approved
                      /\ Delivered(fs, txn, i)
    OBVIOUS
  <2>1. RemovedByUs(i)
    BY <1>1, DisappearingIs DEF StillThere, Foreign
  <2> QED
    BY <1>1, <2>1, OverwrittenRemoval
<1>2. IInv /\ [Next]_vars => [Step]_vars
  BY <1>1
<1> QED
  BY <1>2, RecordTellsThePlaces, PTL DEF Spec, OverwrittenOnlyAsApproved

-----------------------------------------------------------------------------
(* What a run reports.                                                     *)

(* Only the two ends of a run report what it did.                          *)
NoClaim ==
  report' \in {report, "running", "record_rejected", "recovery_required", "journal_error",
               "interrupted"}

LEMMA RecordClaimsNothing ==
  ASSUME NEW t, NEW next, NEW c, RecordWith(t, next, c)
  PROVE  NoClaim
BY DEF RecordWith, EndRun, NoClaim

LEMMA WritingClaimsNothing ==
  ASSUME NEW t, NEW next, Record(t, next) \/ EnterCleanup(t) \/ BeginStep(next) \/ Preserve
  PROVE  NoClaim
BY RecordClaimsNothing DEF Record, EnterCleanup, BeginStep, Preserve, EndRun, NoClaim

LEMMA GotoClaimsNothing ==
  ASSUME NEW next, NEW c, Goto(next, c)
  PROVE  NoClaim
BY DEF Goto, NoClaim

LEMMA CoordinatorClaims ==
  ASSUME Coordinator
  PROVE  NoClaim \/ FinishSuccess \/ FinishCleanup
<1>1. CASE InitialConflicts
  BY <1>1, RecordClaimsNothing, GotoClaimsNothing DEF InitialConflicts
<1>2. CASE BeginProcessing
  BY <1>2, WritingClaimsNothing DEF BeginProcessing
<1>3. CASE BeginRename
  BY <1>3, WritingClaimsNothing DEF BeginRename
<1>4. CASE BeginDelete
  BY <1>4, WritingClaimsNothing DEF BeginDelete
<1>5. CASE BeginStream
  BY <1>5, WritingClaimsNothing DEF BeginStream
<1>6. CASE RecoverStep
  BY <1>6, GotoClaimsNothing DEF RecoverStep
<1>7. CASE RecoverReservation
  BY <1>7, WritingClaimsNothing DEF RecoverReservation
<1>8. CASE RecoverStream
  BY <1>8, WritingClaimsNothing DEF RecoverStream
<1>9. CASE CleanupReservation
  BY <1>9, WritingClaimsNothing DEF CleanupReservation, EndRun, NoClaim
<1>10. CASE CleanupTemporary
  BY <1>10, WritingClaimsNothing DEF CleanupTemporary, EndRun, NoClaim
<1>11. CASE DiscardTemporary
  BY <1>11, WritingClaimsNothing DEF DiscardTemporary
<1>12. CASE BeginRestore
  BY <1>12, WritingClaimsNothing DEF BeginRestore
<1>13. CASE RecordSuccess
  BY <1>13, WritingClaimsNothing DEF RecordSuccess
<1>14. CASE RecordUnexpected
  BY <1>14, WritingClaimsNothing DEF RecordUnexpected
<1>15. CASE RecordCrossDevice
  BY <1>15, WritingClaimsNothing DEF RecordCrossDevice
<1>16. CASE RepeatStep
  BY <1>16, WritingClaimsNothing DEF RepeatStep
<1>17. CASE ConfirmConflict
  BY <1>17, GotoClaimsNothing DEF ConfirmConflict
<1>18. CASE FailStep
  BY <1>18, WritingClaimsNothing DEF FailStep
<1>19. CASE PreserveUncertain
  BY <1>19, WritingClaimsNothing DEF PreserveUncertain
<1>20. CASE RequestOverwrite
  BY <1>20, WritingClaimsNothing, RecordClaimsNothing DEF RequestOverwrite
<1>21. CASE CommitReservation
  BY <1>21, WritingClaimsNothing DEF CommitReservation
<1>22. CASE CommitFails
  BY <1>22, GotoClaimsNothing DEF CommitFails, StreamReply
<1>23. CASE RecordStream
  BY <1>23, WritingClaimsNothing DEF RecordStream
<1>24. CASE FailStream
  BY <1>24, WritingClaimsNothing DEF FailStream
<1>25. CASE PreserveStream
  BY <1>25, WritingClaimsNothing DEF PreserveStream
<1>26. CASE FinishSuccess \/ FinishCleanup
  BY <1>26
<1> QED
  BY <1>1, <1>2, <1>3, <1>4, <1>5, <1>6, <1>7, <1>8, <1>9, <1>10, <1>11, <1>12, <1>13, <1>14,
     <1>15, <1>16, <1>17, <1>18, <1>19, <1>20, <1>21, <1>22, <1>23, <1>24, <1>25, <1>26
     DEF Coordinator

LEMMA HelperClaims ==
  ASSUME Helper
  PROVE  NoClaim
<1>1. ASSUME NEW verdict, NEW object, NEW effect, Replies(verdict, object, effect)
      PROVE  NoClaim
  BY <1>1, GotoClaimsNothing DEF Replies
<1>2. ASSUME NEW verdict, NEW object, StreamReply(verdict, object)
      PROVE  NoClaim
  BY <1>2, GotoClaimsNothing DEF StreamReply
<1>3. CASE ExecuteRename
  BY <1>1, <1>3 DEF ExecuteRename
<1>4. CASE ExecuteDelete
  BY <1>1, <1>4 DEF ExecuteDelete
<1>5. CASE EvacuateEdited
  BY <1>5, GotoClaimsNothing DEF EvacuateEdited
<1>6. CASE Reconcile
  BY <1>6, GotoClaimsNothing DEF Reconcile
<1>7. CASE Reserve
  BY <1>7, GotoClaimsNothing DEF Reserve
<1>8. CASE ReserveRefused \/ ReserveFails
  BY <1>2, <1>8 DEF ReserveRefused, ReserveFails
<1>9. CASE Stream \/ StreamRefused \/ StreamFails
  BY <1>2, <1>9 DEF Stream, StreamRefused, StreamFails
<1> QED
  BY <1>3, <1>4, <1>5, <1>6, <1>7, <1>8, <1>9 DEF Helper

LEMMA UserClaims ==
  ASSUME User
  PROVE  NoClaim
<1>1. ASSUME NEW kind, NEW preapproved, Start(kind, preapproved)
      PROVE  NoClaim
  BY <1>1, WritingClaimsNothing DEF Start
<1>2. CASE Resume
  BY <1>2 DEF Resume, NoClaim
<1>3. CASE DecideOverwrite
  BY <1>3, WritingClaimsNothing DEF DecideOverwrite
<1>4. CASE DecideCreateCopy
  BY <1>4, WritingClaimsNothing DEF DecideCreateCopy
<1>5. CASE DecideCancel
  BY <1>5, WritingClaimsNothing DEF DecideCancel
<1> QED
  BY <1>1, <1>2, <1>3, <1>4, <1>5 DEF User

LEMMA ClaimIsAnEnd ==
  ASSUME [Next]_vars
  PROVE  NoClaim \/ FinishSuccess \/ FinishCleanup
<1>1. CASE Coordinator
  BY <1>1, CoordinatorClaims
<1>2. CASE Helper
  BY <1>2, HelperClaims
<1>3. CASE User
  BY <1>3, UserClaims
<1>4. CASE Interrupt
  BY <1>4 DEF Interrupt, EndRun, NoClaim
<1>5. CASE OtherPrograms
  BY <1>5 DEF OtherPrograms, Edit, Remove, Create, Meddles, NoClaim
<1>6. CASE UNCHANGED vars
  BY <1>6 DEF vars, NoClaim
<1> QED
  BY <1>1, <1>2, <1>3, <1>4, <1>5, <1>6 DEF Next

(* Between two steps, every item's record is true of its files as it is.   *)
LEMMA AtAnEnd ==
  ASSUME IInv, pc = "loop", txn.phase = "completed" \/ Undone, NEW i \in Items
  PROVE  /\ Told(fs[i], Lost(taken, i), txn.items[i], "none")
         /\ Known(txn.kind, approved, meddling, i, txn.items[i])
         /\ fs[i]["staged"] = Nothing /\ fs[i]["temp"] = Nothing /\ fs[i]["backup"] = Nothing
         /\ txn.kind \in {"copy", "move"} /\ fs[i] \in [Path -> Object]
<1>1. /\ \A p \in Hidden : fs[i][p] = Nothing
      /\ txn.step = "none"
  BY NothingIsHidden
<1>2. /\ Sound(txn, approved, meddling) /\ Fits(txn, fs, taken)
      /\ txn.kind \in {"copy", "move"}
  BY RunningIs, TransactionIs
<1>3. Told(fs[i], Lost(taken, i), txn.items[i], "none")
  BY <1>1, <1>2 DEF Fits, StepOf
<1>4. fs[i] \in [Path -> Object]
  BY DEF IInv, TypeOK
<1> QED
  BY <1>1, <1>2, <1>3, <1>4, SoundIs DEF Hidden

LEMMA EndedIsComplete ==
  ASSUME IInv, pc = "loop", txn.phase = "completed" \/ Undone, NEW i \in Items, Final(txn, i)
  PROVE  Complete(fs, txn, i)
<1> DEFINE it == txn.items[i]
           f == fs[i]
<1>1. /\ Told(f, Lost(taken, i), it, "none")
      /\ f["staged"] = Nothing /\ f["temp"] = Nothing /\ f["backup"] = Nothing
      /\ txn.kind \in {"copy", "move"}
  BY AtAnEnd
<1>2. it.dest = "published" /\ it.at = IF txn.kind = "copy" THEN "original" ELSE "removed"
  BY DEF Final, SourceFinal
<1>3. Delivered(fs, txn, i)
  BY <1>1, <1>2 DEF Told, Delivered, Taken, Lost
<1>4. txn.kind = "copy" => f["source"].id = "src" \/ Taken(i, "src")
  BY <1>1, <1>2 DEF Told, SourceTold, Taken, Lost
<1>5. txn.kind = "move" => \A p \in Path : f[p].id = "src" => p = it.to
  BY <1>1, <1>2 DEF Told, SourceTold
<1> QED
  BY <1>1, <1>3, <1>4, <1>5 DEF Complete

LEMMA UndoneIsAsBefore ==
  ASSUME IInv, Undone, NEW i \in Items, ~Final(txn, i)
  PROVE  AsBefore(fs, txn, i)
<1> DEFINE it == txn.items[i]
           f == fs[i]
<1>1. pc = "loop" /\ Cleaning
  BY DEF Undone, Cleaning
<1>2. /\ Told(f, Lost(taken, i), it, "none") /\ Known(txn.kind, approved, meddling, i, it)
      /\ f["staged"] = Nothing /\ f["temp"] = Nothing /\ f["backup"] = Nothing
      /\ txn.kind \in {"copy", "move"} /\ f \in [Path -> Object]
  BY <1>1, AtAnEnd
<1>3. Sound(txn, approved, meddling) /\ Current \in Items /\ Item.dest # "published"
  BY <1>1, CleaningIs, RunningIs
<1>4. it.dest # "published" /\ it.at = "original"
  <2>1. CASE i = Current
    <3>1. it.dest # "published" /\ it.at # "staged"
      BY <1>3, <2>1 DEF Undone, Item
    <3> QED
      BY <1>2, <3>1, KnownIs, ItemIs
  <2>2. CASE i # Current
    <3>1. i <= Current => Final(txn, i)
      BY <1>3, <2>2, OpenIs DEF Current, Items
    <3>2. Pristine(it)
      BY <1>3, <3>1, SoundIs DEF Current
    <3> QED
      BY <3>2 DEF Pristine
  <2> QED
    BY <2>1, <2>2
<1>5. f["source"].id = "src" \/ Taken(i, "src")
  BY <1>2, <1>4 DEF Told, SourceTold, Taken, Lost
<1>6. CopyTold(f, Lost(taken, i), it, "none") /\ ~Publishes(it, "none")
  BY <1>2, <1>4 DEF Told, Publishes
<1>7. ~Taken(i, "whole")
  BY <1>6 DEF CopyTold, Taken, Lost
<1>8. ~Holds(f, "whole")
  <2> SUFFICES ASSUME NEW p \in Path, f[p].id = "whole" PROVE FALSE
    BY DEF Holds
  <2>1. p # "temp"
    BY <1>2, ObjectIs
  <2> QED
    BY <1>6, <2>1 DEF CopyTold, Temporary
<1> QED
  BY <1>2, <1>5, <1>7, <1>8 DEF AsBefore

(* A run says of every item what became of it: delivered, or as it was     *)
(* before; success, when all are delivered (FinishSuccess, FinishCleanup). *)
THEOREM ReportsAreTrue == Spec => OutcomeIsTrue
<1> DEFINE Step ==
      report' # report =>
        /\ report' = "success" => \A i \in Items : Complete(fs, txn, i)
        /\ report' \in {"partial_failure", "cancelled"} =>
             \A i \in Items : Complete(fs, txn, i) \/ AsBefore(fs, txn, i)
<1>1. ASSUME IInv, [Next]_vars PROVE Step
  <2> SUFFICES ASSUME report' # report PROVE
        /\ report' = "success" => \A i \in Items : Complete(fs, txn, i)
        /\ report' \in {"partial_failure", "cancelled"} =>
             \A i \in Items : Complete(fs, txn, i) \/ AsBefore(fs, txn, i)
    OBVIOUS
  <2>1. CASE NoClaim
    BY <2>1 DEF NoClaim
  <2>2. CASE FinishSuccess
    <3>1. pc = "loop" /\ txn.phase = "completed" /\ report' \in {"success", "journal_error"}
      BY <2>2 DEF FinishSuccess, Retire, EndRun
    <3>2. \A i \in Items : Final(txn, i)
      BY <1>1, <3>1, PhaseIs, OpenIs DEF Current
    <3> QED
      BY <1>1, <3>1, <3>2, EndedIsComplete
  <2>3. CASE FinishCleanup
    <3>1. /\ Undone /\ pc = "loop"
          /\ report' \in {"cancelled", "partial_failure", "journal_error"}
      BY <2>3 DEF FinishCleanup, Retire, EndRun, Undone, Cleaning
    <3> QED
      BY <1>1, <3>1, EndedIsComplete, UndoneIsAsBefore
  <2> QED
    BY <1>1, <2>1, <2>2, <2>3, ClaimIsAnEnd
<1>2. IInv /\ [Next]_vars => [Step]_vars
  BY <1>1
<1> QED
  BY <1>2, RecordTellsThePlaces, PTL DEF Spec, OutcomeIsTrue
==============================================================================
