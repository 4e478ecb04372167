----------------------------- MODULE TrashProofs -----------------------------
(***************************************************************************)
(* Proofs about Trash for every number of things, requests, faults and     *)
(* changes by other programs: what is in the container is listed or on     *)
(* record at every instant, and what a run reports is true of the disk.    *)
(*                                                                         *)
(* The inductive invariant says what a record means (Fits): where every    *)
(* thing is, what the manifest lists by then, and that nothing is lost.    *)
(* It holds of the record on disk, and of the one before whenever that may *)
(* come back.                                                              *)
(***************************************************************************)
EXTENDS Trash, NaturalsInduction, WellFoundedInduction, TLAPS

Object ==
  [id : 0..(Count + MaxMeddling), rev : 0..MaxMeddling, change : Nat, size : {"same", "other"}]

ItemType == [at : {"source", "stored", "deleted"}, snapshot : Object, cursor : {0, 1}]

Transactions ==
  [phase : Phase, step : {"none", "store", "restore", "purge"}, index : 0..Count,
   target : {"old", "other"}, items : UNION {[D -> ItemType] : D \in SUBSET Items}]

CallType ==
  [recovering : BOOLEAN, verdict : {"none", "committed", "no_commit", "not_found"},
   object : Object]

Types ==
  /\ dir \in [Name -> Object]
  /\ inside \subseteq Folders /\ container \in {"absent", "present", "littered"}
  /\ manifest \in UNION {[D -> Object] : D \in SUBSET Items}
  /\ journal \in [current : Transactions \union {NoTxn}, previous : Transactions \union {NoTxn}]
  /\ pc \in {"idle", "loop", "made", "execute", "reconcile", "answer", "listed", "finished",
             "unlisted", "verified", "nothing", "emptied", "retired"}
  /\ call \in CallType
  /\ report \in {"new", "running", "stored", "cancelled", "rolled_back", "restored", "purged",
                 "unavailable", "recovery_required", "journal_error", "interrupted",
                 "record_rejected"}
  /\ requests \in 0..MaxRequests /\ faults \in 0..MaxFaults /\ meddling \in 0..MaxMeddling

(* A record is valid, and its snapshots are of the things it was made for; *)
(* a move is of all of them, from where they were.                         *)
Sound(t) ==
  /\ t \in Transactions /\ Valid(t)
  /\ \A i \in DOMAIN t.items : t.items[i].snapshot.id = i
  /\ Kind(t) = "move" => DOMAIN t.items = Items /\ t.target = "old"
  /\ Kind(t) # "purge" => \A i \in DOMAIN t.items : t.items[i].cursor = 0

Recorded(t) == t = NoTxn \/ Sound(t)

(* A thing has one name, strangers' are new, and the name of a thing in    *)
(* the container, or its line in the manifest, is its own.  The manifest   *)
(* lists the planned sizes, and so it is on disk until something is edited.*)
ThingsAreKnown ==
  /\ \A n \in Name : dir[n].id <= Count + meddling /\ (dir[n].id = 0 => dir[n] = Nothing)
  /\ \A n, m \in Name : dir[n].id = dir[m].id /\ dir[n].id # 0 => n = m
  /\ \A i \in Items : dir[Stored(i)].id \in {0, i}
  /\ \A i \in DOMAIN manifest : manifest[i].id = i /\ manifest[i].size = "same"
  /\ ~disturbed => \A n \in Name : dir[n].size = "same"

(* What a record says of the container: every thing is in it just when the *)
(* record has it stored, but for the one that its step moves, or purges    *)
(* itself; the file in a folder is purged before.                          *)
Moving(t, i) == t.step # "none" /\ t.index = i /\ ~EntryIsNext(t)

InPlace(t, i) == dir[Stored(i)].id = (IF i \in Located(t, "stored") THEN i ELSE 0)

Placed(t) == \A i \in Items : InPlace(t, i) \/ Moving(t, i)

(* What the phase of a record says of the manifest. *)
Unlisted ==
  {"prepared", "moving", "rollback", "rollback_container_remove_intent",
   "cancel_container_remove_intent", "restore_container_remove_intent", "restored",
   "purge_container_remove_intent", "purged"}

Listed ==
  {"published", "restore_prepared", "restoring", "restore_rollback", "purge_prepared", "purging"}

Changing == {"manifest_intent", "manifest_remove_intent", "purge_manifest_remove_intent"}

ManifestFits(t) ==
  /\ t.phase \in Unlisted => DOMAIN manifest = {}
  /\ t.phase \in Listed => DOMAIN manifest = DOMAIN t.items
  /\ t.phase \in Changing => DOMAIN manifest \in {{}, DOMAIN t.items}
  /\ t.phase = "cancel_remaining_intent" =>
       DOMAIN manifest = {} \/ (t.step = "none" /\ DOMAIN manifest = Located(t, "stored"))

(* Unless it is purged, a thing is somewhere, or other programs removed    *)
(* it; and a move brings none of them elsewhere.                           *)
Safe(i) == i \in taken \/ \E where \in {"old", "other", "stored"} : dir[At(where, i)].id = i

NothingLost(t) ==
  /\ Kind(t) # "purge" => \A i \in Items : Safe(i)
  /\ Kind(t) = "move" => \A i \in Items : dir[At("other", i)].id # i
  /\ t.phase = "purged" => container = "absent"

Fits(t) == Placed(t) /\ ManifestFits(t) /\ NothingLost(t)

(* The record before comes back when the journal is removed by halves,     *)
(* which only happens between two steps, and not while the manifest is     *)
(* published or removed.                                                   *)
Pausing == journal.current.step = "none" /\ journal.current.phase \notin Changing

RecordsFit ==
  /\ journal.current # NoTxn =>
       Fits(journal.current) /\ (Kind(journal.current) # "move" => requests > 0)
  /\ journal.previous # NoTxn =>
       /\ journal.current # NoTxn /\ Kind(journal.previous) = Kind(journal.current)
       /\ Pausing => Fits(journal.previous)

(* Between two operations. *)
AtRest ==
  journal.current = NoTxn =>
    /\ InTrash = DOMAIN manifest
    /\ DOMAIN manifest # {} \/ report = "new" => \A i \in Items : Safe(i)
    /\ report = "new" =>
         DOMAIN manifest = {} /\ \A i \in Items : dir[At("other", i)].id # i

(* The step of the record has been made. *)
Arrived(t) == dir[Stored(t.index)].id = (IF t.step = "store" THEN t.index ELSE 0)

(* What a rename reports is the thing it moved, and its planned size unless *)
(* something was edited.                                                   *)
IsOfStep(object) == object.id = txn.index /\ (object.size = "same" \/ disturbed)

(* The worker's copy is what is on disk, its next step is of the phase it  *)
(* is in, and an answer is about its step.  A record is refused only after *)
(* a change by another program, at a rename.                               *)
Refusing == disturbed /\ journal.current.step \in {"store", "restore"}

WorkerFollows ==
  /\ pc = "idle" => txn = NoTxn /\ (report = "record_rejected" => Refusing)
  /\ pc # "idle" => txn = journal.current /\ txn # NoTxn /\ report = "running"
  /\ pc \in {"execute", "reconcile", "answer"} <=> txn.step # "none"
  /\ pc = "made" => txn.phase = "prepared"
  /\ pc = "listed" => txn.phase = "manifest_intent" /\ DOMAIN manifest = Items
  /\ pc = "finished" =>
       /\ txn.phase \in {"published", "cancel_remaining_intent"}
       /\ DOMAIN manifest = Located(txn, "stored")
  /\ pc = "unlisted" =>
       /\ txn.phase \in {"manifest_remove_intent", "purge_manifest_remove_intent"}
       /\ DOMAIN manifest = {}
  /\ pc = "verified" => journal.previous = txn /\ Cancelling(txn)
  /\ pc = "nothing" => Cancelling(txn) /\ Located(txn, "stored") = {} /\ DOMAIN manifest = {}
  /\ pc = "emptied" => txn.phase = "cancel_container_remove_intent"
  /\ pc = "retired" => Retiring /\ (Kind(txn) = "purge" => container = "absent")
  /\ pc = "execute" => InPlace(txn, txn.index)
  /\ pc = "answer" /\ call.verdict \in {"no_commit", "not_found"} => InPlace(txn, txn.index)
  /\ pc = "answer" /\ call.verdict = "committed" =>
       /\ ~EntryIsNext(txn) => Arrived(txn)
       /\ txn.step # "purge" => IsOfStep(call.object)

IInv ==
  /\ Types
  /\ Recorded(journal.current) /\ Recorded(journal.previous)
  /\ ThingsAreKnown /\ RecordsFit /\ AtRest /\ WorkerFollows /\ OutcomeIsTrue

-----------------------------------------------------------------------------
(* Facts about the operators.                                              *)

Less == {ss \in Nat \X Nat : ss[1] < ss[2]}

LEMMA Least ==
  ASSUME NEW S \in SUBSET Nat, S # {}
  PROVE  \E i \in S : \A j \in S : i <= j
<1>1. OpToRel(<, Nat) = Less
  BY Zenon DEF OpToRel, Less
<1>2. IsWellFoundedOn(Less, Nat)
  BY ONLY NatLessThanWellFounded, <1>1, Zenon
<1>3. PICK i \in S : \A j \in S : ~(<<j, i>> \in Less)
  BY <1>2, WFMin
<1>4. \A j \in S : ~(j < i)
  BY <1>3 DEF Less
<1> QED
  BY <1>4

(* A set of things that is not empty has a first and a last one.           *)
LEMMA Extremes ==
  ASSUME NEW S \in SUBSET Items, S # {}
  PROVE  First(S) \in S /\ Last(S) \in S
<1> USE TrashAssumption DEF Items
<1>1. \E i \in S : \A j \in S : i <= j
  BY Least
<1>2. \E i \in S : \A j \in S : j <= i
  <2> DEFINE T == {Count - i : i \in S}
  <2>1. T \in SUBSET Nat /\ T # {}
    <3>1. \A i \in S : Count - i \in Nat
      OBVIOUS
    <3> QED
      BY <3>1
  <2>2. PICK m \in T : \A n \in T : m <= n
    BY <2>1, Least
  <2>3. PICK i \in S : m = Count - i
    BY <2>2
  <2>4. \A j \in S : Count - i <= Count - j
    BY <2>2, <2>3
  <2> QED
    BY <2>4
<1> QED
  BY <1>1, <1>2 DEF First, Last

LEMMA Names ==
  /\ \A i \in Items : i # 0 /\ i \in 0..Count /\ i \in Nat /\ i <= Count
  /\ \A i \in Items, where \in {"old", "other", "stored"} : At(where, i) \in Name
  /\ \A i, j, v, w : At(v, i) = At(w, j) <=> v = w /\ i = j
  /\ \A i, w : At(w, i).is = w /\ At(w, i).of = i
  /\ \A n \in Name : n.of \in Items /\ n = At(n.is, n.of)
  /\ \A i \in Items : File(i) \in Object /\ File(i).id = i /\ File(i).size = "same"
  /\ Nothing \in Object /\ Nothing.id = 0 /\ Nothing.size = "same" /\ 0 \in 0..Count
<1>1. \A i \in Items : i # 0 /\ i \in 0..Count /\ i \in Nat /\ i <= Count
  BY TrashAssumption DEF Items
<1>2. \A i, j, v, w : At(v, i) = At(w, j) <=> v = w /\ i = j
  <2>1. ASSUME NEW i, NEW j, NEW v, NEW w
        PROVE  At(v, i) = At(w, j) <=> v = w /\ i = j
    <3>1. At(v, i).is = v /\ At(v, i).of = i /\ At(w, j).is = w /\ At(w, j).of = j
      BY DEF At
    <3> QED
      BY <3>1
  <2> QED
    BY <2>1
<1>3. \A i \in Items : File(i) \in Object /\ File(i).id = i /\ File(i).size = "same"
  BY <1>1, TrashAssumption DEF File, Object
<1>4. Nothing \in Object /\ Nothing.id = 0 /\ Nothing.size = "same" /\ 0 \in 0..Count
  BY TrashAssumption DEF Nothing, File, Object
<1>5. \A i, w : At(w, i).is = w /\ At(w, i).of = i
  BY DEF At
<1> QED
  BY <1>1, <1>2, <1>3, <1>4, <1>5 DEF At, Name

LEMMA Kinds ==
  ASSUME NEW t
  PROVE  /\ Kind(t) = "restore" <=> t.phase \in
              {"restore_prepared", "restoring", "restore_rollback", "manifest_remove_intent",
               "restore_container_remove_intent", "restored"}
         /\ Kind(t) = "purge" <=> t.phase \in
              {"purge_prepared", "purging", "purge_manifest_remove_intent",
               "purge_container_remove_intent", "purged"}
         /\ t.phase \in Phase =>
              (Kind(t) = "move" <=> t.phase \in
                 {"prepared", "moving", "rollback", "rollback_container_remove_intent",
                  "cancel_remaining_intent", "cancel_container_remove_intent",
                  "manifest_intent", "published"})
         /\ Kind(t) \in {"move", "restore", "purge"}
         /\ NoTxn \notin Transactions /\ NoCall \in CallType
<1> DEFINE R == {"restore_prepared", "restoring", "restore_rollback", "manifest_remove_intent",
                 "restore_container_remove_intent", "restored"}
           P == {"purge_prepared", "purging", "purge_manifest_remove_intent",
                 "purge_container_remove_intent", "purged"}
<1>1. CASE t.phase \in R
  <2>1. t.phase \notin P
    BY <1>1
  <2>2. Kind(t) = "restore"
    BY <1>1, <2>1 DEF Kind
  <2> QED
    BY <1>1, <2>1, <2>2, Names DEF NoTxn, Transactions, NoCall, CallType, Phase
<1>2. CASE t.phase \in P
  <2>1. t.phase \notin R
    BY <1>2
  <2>2. Kind(t) = "purge"
    BY <1>2, <2>1 DEF Kind
  <2> QED
    BY <1>2, <2>1, <2>2, Names DEF NoTxn, Transactions, NoCall, CallType, Phase
<1>3. CASE t.phase \notin R \union P
  <2>1. Kind(t) = "move"
    BY <1>3 DEF Kind
  <2>2. t.phase \in Phase => t.phase \in
          {"prepared", "moving", "rollback", "rollback_container_remove_intent",
           "cancel_remaining_intent", "cancel_container_remove_intent",
           "manifest_intent", "published"}
    BY <1>3 DEF Phase
  <2> QED
    BY <1>3, <2>1, <2>2, Names DEF NoTxn, Transactions, NoCall, CallType, Phase
<1> QED
  BY <1>1, <1>2, <1>3

(* An empty listing is no manifest. *)
LEMMA EmptyListing ==
  ASSUME NEW f, NEW D \in SUBSET Items, f \in [D -> Object]
  PROVE  f = <<>> <=> DOMAIN f = {}
<1>1. f = <<>> => DOMAIN f = {}
  OBVIOUS
<1>2. D = {} => f = <<>>
  OBVIOUS
<1> QED
  BY <1>1, <1>2

(* The items of a record. *)
LEMMA RecordTypes ==
  ASSUME NEW t \in Transactions
  PROVE  /\ DOMAIN t.items \subseteq Items
         /\ t.items \in [DOMAIN t.items -> ItemType]
         /\ \A where : Located(t, where) \subseteq DOMAIN t.items
         /\ t.phase \in Phase /\ t.target \in {"old", "other"}
<1>1. PICK D \in SUBSET Items : t.items \in [D -> ItemType]
  BY DEF Transactions
<1> QED
  BY <1>1 DEF Transactions, Located

(* Steps are put on record and set aside, and phases entered, within the   *)
(* type and without touching the items.                                    *)
LEMMA Rewritten ==
  ASSUME NEW t \in Transactions, NEW u,
         \/ \E phase \in Phase : u = [t EXCEPT !.phase = phase]
         \/ \E step \in {"store", "restore", "purge"}, k \in Items :
              u = [t EXCEPT !.step = step, !.index = k]
         \/ u = ClearActive(t)
         \/ \E phase \in Phase : u = [ClearActive(t) EXCEPT !.phase = phase]
  PROVE  u \in Transactions /\ u.items = t.items /\ u.target = t.target
<1>1. 0 \in 0..Count /\ \A k \in Items : k \in 0..Count
  BY Names
<1>2. ASSUME NEW phase \in Phase, u = [t EXCEPT !.phase = phase]
      PROVE  u \in Transactions /\ u.items = t.items /\ u.target = t.target
  BY <1>2 DEF Transactions
<1>3. ASSUME NEW step \in {"store", "restore", "purge"}, NEW k \in Items,
             u = [t EXCEPT !.step = step, !.index = k]
      PROVE  u \in Transactions /\ u.items = t.items /\ u.target = t.target
  BY <1>1, <1>3 DEF Transactions
<1>4. ClearActive(t) \in Transactions
      /\ ClearActive(t).items = t.items /\ ClearActive(t).target = t.target
  BY <1>1 DEF Transactions, ClearActive
<1>5. ASSUME NEW phase \in Phase, u = [ClearActive(t) EXCEPT !.phase = phase]
      PROVE  u \in Transactions /\ u.items = t.items /\ u.target = t.target
  BY <1>4, <1>5 DEF Transactions
<1> QED
  BY <1>2, <1>3, <1>4, <1>5

LEMMA RecordIsTransaction ==
  ASSUME NEW t \in Transactions, Valid(t)
  PROVE  IsTransaction(t)
<1>1. \A i \in DOMAIN t.items :
        /\ i \in Items /\ t.items[i].at \in {"source", "stored", "deleted"}
        /\ IsObject(t.items[i].snapshot) /\ t.items[i].cursor \in {0, 1}
  BY RecordTypes DEF ItemType, Object, IsObject
<1>2. t.index \in {0} \union DOMAIN t.items
  BY RecordTypes DEF Valid, StepMatchesPhase, Transactions
<1> QED
  BY <1>1, <1>2 DEF Transactions, IsTransaction

-----------------------------------------------------------------------------
(* What the invariant says.                                                *)

(* The properties of the runs follow from it. *)
LEMMA InvariantSuffices ==
  ASSUME IInv
  PROVE  TrashIsListed /\ OutcomeIsTrue
<1>1. TypeOK
  <2>1. \A n \in Name : IsObject(dir[n])
    BY DEF IInv, Types, Object, IsObject
  <2>2. PICK D \in SUBSET Items : manifest \in [D -> Object]
    BY DEF IInv, Types
  <2>3. DOMAIN manifest \subseteq Items /\ \A i \in DOMAIN manifest : IsObject(manifest[i])
    BY <2>2 DEF Object, IsObject
  <2>4. IsTransaction(journal.current) /\ IsTransaction(journal.previous)
    BY RecordIsTransaction DEF IInv, Recorded, Sound, IsTransaction
  <2>5. IsTransaction(txn)
    BY <2>4 DEF IInv, WorkerFollows, IsTransaction
  <2> QED
    BY <2>1, <2>3, <2>4, <2>5 DEF IInv, Types, TypeOK, CallType
<1>2. ASSUME NEW i \in InTrash
      PROVE  i \in DOMAIN manifest \/ Knows(journal.current, i)
  <2>1. i \in Items /\ dir[Stored(i)].id = i
    BY Names DEF InTrash, IInv, ThingsAreKnown, Stored
  <2>2. CASE journal.current = NoTxn
    BY <2>2 DEF IInv, AtRest
  <2>3. CASE journal.current # NoTxn
    <3>1. InPlace(journal.current, i) \/ Moving(journal.current, i)
      BY <2>1, <2>3 DEF IInv, RecordsFit, Fits, Placed
    <3>2. Sound(journal.current)
      BY <2>3 DEF IInv, Recorded
    <3>3. CASE InPlace(journal.current, i)
      BY <2>1, <3>3, Names DEF InPlace, Knows, Located
    <3>4. CASE Moving(journal.current, i)
      BY <3>2, <3>4 DEF Moving, Knows, Located, Sound, Valid, StepMatchesPhase, Transactions
    <3> QED
      BY <3>1, <3>3, <3>4
  <2> QED
    BY <2>2, <2>3
<1>3. report = "record_rejected" => Refusing
  BY DEF IInv, WorkerFollows
<1> QED
  BY <1>1, <1>2, <1>3 DEF TrashIsListed, IInv, AtRest, Refusing

LEMMA InitHolds ==
  ASSUME Init
  PROVE  IInv
<1> USE TrashAssumption
<1>1. manifest \in [{} -> Object]
  BY DEF Init
<1>2. DOMAIN manifest = {} /\ dir \in [Name -> Object]
  BY <1>1, Names DEF Init
<1>3. \A n \in Name : dir[n] = IF n.is = "old" THEN File(n.of) ELSE Nothing
  BY DEF Init
<1>4. Types
  <2>1. manifest \in UNION {[D -> Object] : D \in SUBSET Items}
    BY <1>1
  <2>2. call \in CallType /\ journal.current = NoTxn /\ journal.previous = NoTxn
        /\ journal \in [current : {NoTxn}, previous : {NoTxn}]
    BY Kinds DEF Init, EmptyJournal
  <2>3. journal \in [current : Transactions \union {NoTxn}, previous : Transactions \union {NoTxn}]
    BY <2>2
  <2>4. requests \in 0..MaxRequests /\ faults \in 0..MaxFaults /\ meddling \in 0..MaxMeddling
    BY DEF Init
  <2> QED
    BY <1>2, <2>1, <2>2, <2>3, <2>4 DEF Init, Types
<1>5. ThingsAreKnown
  BY <1>2, <1>3, Names DEF ThingsAreKnown, Stored, Init
<1>6. InTrash = {} /\ \A i \in Items : dir[Stored(i)] = Nothing
  BY <1>3, Names DEF InTrash, Stored
<1>7. \A i \in Items : Safe(i) /\ dir[At("other", i)].id # i
  <2>1. ASSUME NEW i \in Items
        PROVE  dir[At("old", i)].id = i /\ dir[At("other", i)].id # i
    BY <1>3, Names
  <2> QED
    BY <2>1 DEF Safe
<1>8. journal.current = NoTxn /\ journal.previous = NoTxn /\ txn = NoTxn /\ txn.step = "none"
      /\ pc = "idle" /\ report = "new"
  BY DEF Init, EmptyJournal, NoTxn
<1>9. RecordsFit /\ AtRest /\ WorkerFollows
  BY <1>2, <1>6, <1>7, <1>8 DEF RecordsFit, AtRest, WorkerFollows
<1> QED
  BY <1>4, <1>5, <1>8, <1>9 DEF IInv, Recorded, OutcomeIsTrue

-----------------------------------------------------------------------------
(* Writing a record.                                                       *)

(* A record says the same of the disk as long as the disk is the same.     *)
Still == UNCHANGED <<disk, others>>

LEMMA StillFits ==
  ASSUME NEW u, Still
  PROVE  /\ InPlace(u, u.index) <=> InPlace(u, u.index)'
         /\ Fits(u) <=> Fits(u)'
BY DEF Still, disk, others, Fits, InPlace, Placed, Moving, EntryIsNext, Located,
   ManifestFits, NothingLost, Safe

Persisted(t) == journal' = [current |-> t, previous |-> journal.current]

Ends == pc' = "idle" /\ txn' = NoTxn /\ call' = NoCall

(* The reports of runs that are cut short promise nothing.                 *)
Broken == {"recovery_required", "journal_error", "interrupted"}

(* The run goes on with the record, at a step that fits it.                *)
GoesOn(t) ==
  /\ txn' = t /\ report' = "running"
  /\ call' \in CallType
  /\ pc' \in {"loop", "execute", "reconcile", "verified", "emptied"}
  /\ pc' \in {"execute", "reconcile"} <=> t.step # "none"
  /\ pc' = "execute" => InPlace(t, t.index)
  /\ pc' = "verified" => journal.current = t /\ Cancelling(t)
  /\ pc' = "emptied" => t.phase = "cancel_container_remove_intent"

(* Every record that is valid and fits the disk keeps the invariant,       *)
(* whether the run goes on or ends with it.                                *)
LEMMA WritingKeeps ==
  ASSUME IInv, NEW t, Sound(t), Fits(t), Persisted(t), Still,
         requests' \in 0..MaxRequests, Kind(t) # "move" => requests' > 0,
         journal.current # NoTxn => Kind(journal.current) = Kind(t),
         faults' \in 0..MaxFaults,
         GoesOn(t) \/ (Ends /\ report' \in Broken)
  PROVE  IInv'
<1>1. t \in Transactions /\ t # NoTxn
  BY Kinds DEF Sound
<1>2. Types'
  <2>1. journal' \in [current : Transactions \union {NoTxn}, previous : Transactions \union {NoTxn}]
    BY <1>1 DEF IInv, Types, Persisted
  <2>2. call' \in CallType
    BY Kinds DEF GoesOn, Ends
  <2> QED
    BY <2>1, <2>2 DEF IInv, Types, Still, disk, others, GoesOn, Ends, Broken
<1>3. journal'.current = t /\ journal'.previous = journal.current
  BY DEF Persisted
<1>4. Recorded(journal.current)' /\ Recorded(journal.previous)'
  BY <1>3 DEF IInv, Recorded
<1>5. ThingsAreKnown'
  BY DEF IInv, ThingsAreKnown, Still, disk, others
<1>6. RecordsFit' /\ AtRest'
  BY <1>1, <1>3, StillFits DEF IInv, RecordsFit, AtRest
<1>7. WorkerFollows'
  <2>1. CASE Ends /\ report' \in Broken
    BY <2>1, <1>1 DEF WorkerFollows, Ends, NoTxn, Broken
  <2>2. CASE GoesOn(t)
    <3>1. pc' = "execute" => InPlace(txn, txn.index)'
      BY <2>2, StillFits DEF GoesOn
    <3>2. pc' = "verified" => (journal.previous = txn /\ Cancelling(txn))'
      BY <2>2, <1>3 DEF GoesOn, Cancelling
    <3> QED
      BY <2>2, <3>1, <3>2, <1>1, <1>3 DEF WorkerFollows, GoesOn
  <2> QED
    BY <2>1, <2>2
<1>8. OutcomeIsTrue'
  BY DEF OutcomeIsTrue, GoesOn, Broken
<1> QED
  BY <1>2, <1>4, <1>5, <1>6, <1>7, <1>8 DEF IInv

(* The same of the two ways in which a running worker writes a record.     *)
LEMMA RecordKeeps ==
  ASSUME IInv, pc # "idle", NEW t, Sound(t), Fits(t), Kind(t) = Kind(txn),
         UNCHANGED disk, Quiet, Steady,
         NEW next \in {"loop", "execute", "verified", "emptied"}, Record(t, next),
         next = "execute" <=> t.step # "none",
         next = "execute" => InPlace(t, t.index),
         next = "verified" => txn = t /\ Cancelling(t),
         next = "emptied" => t.phase = "cancel_container_remove_intent"
  PROVE  IInv'
<1>1. Valid(t)
  BY DEF Sound
<1>2. Persisted(t) /\ txn' = t /\ pc' = next /\ call' = NoCall /\ report' = "running"
  BY <1>1 DEF Record, Writes, Persisted
<1>3. txn = journal.current /\ journal.current # NoTxn
  BY DEF IInv, WorkerFollows
<1>4. GoesOn(t)
  BY <1>2, <1>3, Kinds DEF GoesOn
<1>5. Still /\ requests' = requests /\ faults' = faults
  BY DEF Still, Quiet, Steady
<1> QED
  BY <1>2, <1>3, <1>4, <1>5, WritingKeeps DEF IInv, Types, RecordsFit

LEMMA RecordAndEndKeeps ==
  ASSUME IInv, pc # "idle", NEW t, Sound(t), Fits(t), Kind(t) = Kind(txn),
         UNCHANGED disk, Quiet, Steady \/ Fault,
         NEW outcome \in Broken, RecordAndEnd(t, outcome)
  PROVE  IInv'
<1>1. Valid(t)
  BY DEF Sound
<1>2. Persisted(t) /\ Ends /\ report' = outcome
  BY <1>1 DEF RecordAndEnd, Writes, Persisted, EndRun, Ends
<1>3. txn = journal.current /\ journal.current # NoTxn
  BY DEF IInv, WorkerFollows
<1>4. Still /\ requests' = requests /\ faults' \in 0..MaxFaults
  BY TrashAssumption DEF Still, Quiet, Steady, Fault, IInv, Types
<1> QED
  BY <1>2, <1>3, <1>4, WritingKeeps DEF IInv, Types, RecordsFit

(* A run that ends and leaves the record keeps the invariant.              *)
LEMMA EndKeeps ==
  ASSUME IInv, NEW outcome, EndRun(outcome), UNCHANGED <<disk, journal>>, Quiet,
         Steady \/ Fault, journal.current # NoTxn,
         outcome \in Broken \/ (outcome = "record_rejected" /\ Refusing)
  PROVE  IInv'
<1>1. Types'
  BY Kinds, TrashAssumption
  DEF IInv, Types, disk, Quiet, others, Steady, Fault, EndRun, Broken
<1>2. Recorded(journal.current)' /\ Recorded(journal.previous)' /\ journal' = journal
  BY DEF IInv, Recorded
<1>3. ThingsAreKnown'
  BY DEF IInv, ThingsAreKnown, disk, Quiet, others
<1>4. Still /\ requests' = requests
  BY DEF Still, Quiet
<1>5. RecordsFit' /\ AtRest'
  BY <1>2, <1>4, StillFits DEF IInv, RecordsFit, AtRest, Pausing
<1>6. WorkerFollows' /\ OutcomeIsTrue'
  <2>1. Refusing' = Refusing
    BY DEF Refusing, Quiet, others
  <2> QED
    BY <2>1 DEF EndRun, WorkerFollows, NoTxn, OutcomeIsTrue, Broken
<1> QED
  BY <1>1, <1>2, <1>3, <1>5, <1>6 DEF IInv

-----------------------------------------------------------------------------
(* The steps that write a record.                                          *)

(* While a run is active, its transaction is the record on disk.           *)
LEMMA ActiveRecord ==
  ASSUME IInv, pc # "idle"
  PROVE  /\ txn = journal.current /\ txn # NoTxn /\ report = "running"
         /\ Sound(txn) /\ Fits(txn) /\ txn \in Transactions
BY DEF IInv, WorkerFollows, Recorded, RecordsFit, Sound

(* A record of the same items says the same of the container, unless it    *)
(* sets the step aside, which then must not have been made.                *)
LEMMA SameItems ==
  ASSUME NEW u, NEW t \in Transactions, Sound(u), Fits(u),
         t.items = u.items, t.target = u.target, Kind(t) = Kind(u), Valid(t), ManifestFits(t),
         t.phase = "purged" => container = "absent",
         \/ u.step = "none"
         \/ t.step = u.step /\ t.index = u.index
         \/ InPlace(u, u.index)
  PROVE  Sound(t) /\ Fits(t)
<1>1. Sound(t)
  BY DEF Sound
<1>2. \A i : InPlace(t, i) <=> InPlace(u, i)
  BY DEF InPlace, Located
<1>3. Placed(t)
  BY <1>2 DEF Fits, Placed, Moving, EntryIsNext
<1>4. NothingLost(t)
  BY DEF Fits, NothingLost
<1> QED
  BY <1>1, <1>3, <1>4 DEF Fits

LEMMA ValidAgain ==
  ASSUME NEW u, NEW t, Valid(u), t.items = u.items, StepMatchesPhase(t),
         \A i \in DOMAIN u.items : u.items[i].at \in Allowed(t.phase)
  PROVE  Valid(t)
BY DEF Valid

(* The next phase is entered with every thing where it is.                 *)
LEMMA EnterKeeps ==
  ASSUME IInv, pc # "idle", txn.step = "none", NEW phase \in Phase, Enter(phase),
         \A i \in DOMAIN txn.items : txn.items[i].at \in Allowed(phase),
         NEW t, t = [txn EXCEPT !.phase = phase], Kind(t) = Kind(txn), ManifestFits(t),
         phase = "purged" => container = "absent"
  PROVE  IInv'
<1>1. Sound(txn) /\ Fits(txn) /\ txn \in Transactions
  BY ActiveRecord
<1>2. t \in Transactions /\ t.items = txn.items /\ t.target = txn.target
  BY <1>1, Rewritten
<1>3. t.phase = phase /\ t.step = "none" /\ t.index = 0
  BY <1>1 DEF Transactions, Sound, Valid, StepMatchesPhase
<1>4. Valid(t)
  <2>1. StepMatchesPhase(t)
    BY <1>3 DEF StepMatchesPhase
  <2>2. Valid(txn)
    BY <1>1 DEF Sound
  <2> QED
    BY <1>2, <1>3, <2>1, <2>2, ValidAgain
<1>5. Sound(t) /\ Fits(t)
  BY <1>1, <1>2, <1>3, <1>4, SameItems
<1>6. Record(t, "loop") /\ UNCHANGED disk /\ Quiet /\ Steady
  BY DEF Enter
<1> QED
  BY <1>3, <1>5, <1>6, RecordKeeps

(* The phases of the three operations, from one to the next.               *)
LEMMA PhasesKeep ==
  ASSUME IInv, pc # "idle", txn.step = "none", NEW phase, Enter(phase),
         \/ phase = "moving" /\ txn.phase = "prepared"
         \/ phase = "restoring" /\ txn.phase = "restore_prepared"
         \/ phase = "purging" /\ txn.phase = "purge_prepared"
         \/ phase = "manifest_intent" /\ txn.phase = "moving"
         \/ phase = "rollback_container_remove_intent" /\ txn.phase = "rollback"
         \/ phase = "manifest_remove_intent" /\ txn.phase = "restoring"
         \/ phase = "purge_manifest_remove_intent" /\ txn.phase = "purging"
         \/ phase = "published" /\ txn.phase = "manifest_intent" /\ DOMAIN manifest = Items
         \/ /\ phase = "restore_container_remove_intent" /\ txn.phase = "manifest_remove_intent"
            /\ DOMAIN manifest = {}
         \/ /\ phase = "purge_container_remove_intent"
            /\ txn.phase = "purge_manifest_remove_intent" /\ DOMAIN manifest = {}
         \/ phase = "restored" /\ txn.phase = "restore_container_remove_intent"
         \/ phase = "purged" /\ txn.phase = "purge_container_remove_intent"
            /\ container = "absent",
         \A i \in DOMAIN txn.items : txn.items[i].at \in Allowed(phase)
  PROVE  IInv'
<1> DEFINE t == [txn EXCEPT !.phase = phase]
<1>1. Sound(txn) /\ Fits(txn) /\ txn \in Transactions
  BY ActiveRecord
<1>2. phase \in Phase
  BY DEF Phase
<1>3. t.phase = phase /\ t.items = txn.items /\ t.step = "none"
  BY <1>1 DEF Transactions
<1>4. t = [txn EXCEPT !.phase = phase]
  OBVIOUS
<1> HIDE DEF t
<1>5. Kind(t) = Kind(txn) /\ txn.phase \in Phase
  BY <1>1, <1>2, <1>3, Kinds DEF Transactions
<1>6. DOMAIN txn.items = Items \/ txn.phase # "manifest_intent"
  BY <1>1, <1>5, Kinds DEF Sound
<1>7. ManifestFits(t)
  <2>1. ManifestFits(txn)
    BY <1>1 DEF Fits
  <2> QED
    BY <1>3, <1>6, <2>1 DEF ManifestFits, Unlisted, Listed, Changing
<1>8. phase = "purged" => container = "absent"
  OBVIOUS
<1> QED
  BY <1>2, <1>4, <1>5, <1>7, <1>8, EnterKeeps

(* What a loop looks at is what its record says. *)
LEMMA Loops ==
  ASSUME IInv, pc # "idle", pc \notin {"execute", "reconcile", "answer"}
  PROVE  /\ txn.step = "none" /\ txn \in Transactions /\ Valid(txn) /\ Placed(txn)
         /\ Sources \subseteq Items /\ StoredItems \subseteq Items
         /\ \A i \in DOMAIN txn.items : txn.items[i].at \in Allowed(txn.phase)
<1>1. Sound(txn) /\ Fits(txn) /\ txn \in Transactions
  BY ActiveRecord
<1> QED
  BY <1>1, RecordTypes DEF IInv, WorkerFollows, Sound, Valid, Fits, Sources, StoredItems

LEMMA AnnounceKeeps ==
  ASSUME IInv, Announce
  PROVE  IInv'
<1>1. CASE pc = "made" /\ Enter("moving")
  BY <1>1, Loops, PhasesKeep DEF IInv, WorkerFollows, Allowed
<1>2. CASE InPhase("restore_prepared") /\ Enter("restoring")
  BY <1>2, Loops, PhasesKeep DEF InPhase, Allowed
<1>3. CASE InPhase("purge_prepared") /\ Enter("purging")
  BY <1>3, Loops, PhasesKeep DEF InPhase, Allowed
<1> QED
  BY <1>1, <1>2, <1>3 DEF Announce

LEMMA AllMovedKeeps ==
  ASSUME IInv, AllMoved
  PROVE  IInv'
<1>1. pc = "loop"
  BY DEF AllMoved, InPhase
<1>2. txn.step = "none" /\ \A i \in DOMAIN txn.items : txn.items[i].at \in Allowed(txn.phase)
  BY <1>1, Loops
<1>3. \A where : Located(txn, where) = {} => \A i \in DOMAIN txn.items : txn.items[i].at # where
  BY DEF Located
<1>4. CASE InPhase("moving") /\ Sources = {} /\ Enter("manifest_intent")
  BY <1>1, <1>2, <1>3, <1>4, PhasesKeep DEF InPhase, Allowed, Sources
<1>5. CASE InPhase("rollback") /\ StoredItems = {} /\ Enter("rollback_container_remove_intent")
  BY <1>1, <1>2, <1>3, <1>5, PhasesKeep DEF InPhase, Allowed, StoredItems
<1>6. CASE InPhase("restoring") /\ StoredItems = {} /\ Enter("manifest_remove_intent")
  BY <1>1, <1>2, <1>3, <1>6, PhasesKeep DEF InPhase, Allowed, StoredItems
<1>7. CASE InPhase("purging") /\ StoredItems = {} /\ Enter("purge_manifest_remove_intent")
  BY <1>1, <1>2, <1>3, <1>7, PhasesKeep DEF InPhase, Allowed, StoredItems
<1> QED
  BY <1>4, <1>5, <1>6, <1>7 DEF AllMoved

LEMMA RecordPublishedKeeps ==
  ASSUME IInv, RecordPublished
  PROVE  IInv'
BY Loops, PhasesKeep DEF RecordPublished, IInv, WorkerFollows, Allowed

LEMMA RecordUnlistedKeeps ==
  ASSUME IInv, RecordUnlisted
  PROVE  IInv'
<1>1. pc = "unlisted" /\ DOMAIN manifest = {}
      /\ txn.phase \in {"manifest_remove_intent", "purge_manifest_remove_intent"}
  BY DEF RecordUnlisted, IInv, WorkerFollows
<1>2. CASE txn.phase = "manifest_remove_intent"
  <2>1. Enter("restore_container_remove_intent")
    BY <1>2 DEF RecordUnlisted
  <2> QED
    BY <1>1, <1>2, <2>1, Loops, PhasesKeep DEF Allowed
<1>3. CASE txn.phase = "purge_manifest_remove_intent"
  <2>1. Enter("purge_container_remove_intent")
    BY <1>3 DEF RecordUnlisted
  <2> QED
    BY <1>1, <1>3, <2>1, Loops, PhasesKeep DEF Allowed
<1> QED
  BY <1>1, <1>2, <1>3

LEMMA RecordRetiredKeeps ==
  ASSUME IInv, RecordRetired
  PROVE  IInv'
<1>1. pc = "retired" /\ Retiring /\ (Kind(txn) = "purge" => container = "absent")
      /\ Kind(txn) # "move" /\ Enter(IF Kind(txn) = "restore" THEN "restored" ELSE "purged")
  BY DEF RecordRetired, IInv, WorkerFollows
<1>2. CASE Kind(txn) = "restore"
  <2>1. txn.phase = "restore_container_remove_intent"
    BY <1>1, <1>2, Kinds DEF Retiring
  <2>2. Enter("restored")
    BY <1>1, <1>2
  <2> QED
    BY <1>1, <2>1, <2>2, Loops, PhasesKeep DEF Allowed
<1>3. CASE Kind(txn) = "purge"
  <2>1. txn.phase = "purge_container_remove_intent"
    BY <1>1, <1>3, Kinds DEF Retiring
  <2>2. Enter("purged")
    BY <1>1, <1>3
  <2> QED
    BY <1>1, <1>3, <2>1, <2>2, Loops, PhasesKeep DEF Allowed
<1> QED
  BY <1>1, <1>2, <1>3, Kinds

(* What was cancelled before anything was stored. *)
LEMMA RecordNothingKeeps ==
  ASSUME IInv, RecordNothing
  PROVE  IInv'
<1> DEFINE t == [txn EXCEPT !.phase = "cancel_container_remove_intent"]
<1>1. Sound(txn) /\ Fits(txn) /\ txn \in Transactions /\ pc = "nothing"
  BY ActiveRecord DEF RecordNothing
<1>2. Cancelling(txn) /\ Located(txn, "stored") = {} /\ DOMAIN manifest = {}
  BY <1>1 DEF IInv, WorkerFollows
<1>3. txn.step = "none" /\ \A i \in DOMAIN txn.items : txn.items[i].at \in Allowed(txn.phase)
  BY <1>1, Loops
<1>4. t.phase = "cancel_container_remove_intent" /\ t.items = txn.items /\ t.step = "none"
      /\ t.index = 0 /\ t.target = txn.target
  BY <1>1, <1>3 DEF Transactions, Sound, Valid, StepMatchesPhase
<1>5. t \in Transactions
  BY <1>1, Rewritten DEF Phase
<1>6. Record(t, "emptied") /\ UNCHANGED disk /\ Quiet /\ Steady
  BY DEF RecordNothing
<1> HIDE DEF t
<1>7. Kind(t) = Kind(txn)
  BY <1>1, <1>2, <1>4, <1>5, Kinds DEF Cancelling, Transactions
<1>8. Valid(t)
  <2>1. StepMatchesPhase(t)
    BY <1>4 DEF StepMatchesPhase
  <2>2. Valid(txn)
    BY <1>1 DEF Sound
  <2>3. \A i \in DOMAIN txn.items : txn.items[i].at \in Allowed(t.phase)
    BY <1>2, <1>3, <1>4 DEF Cancelling, Allowed, Located
  <2> QED
    BY <1>4, <2>1, <2>2, <2>3, ValidAgain
<1>9. ManifestFits(t)
  BY <1>2, <1>4 DEF ManifestFits, Listed, Changing
<1>10. Sound(t) /\ Fits(t)
  BY <1>1, <1>3, <1>4, <1>5, <1>7, <1>8, <1>9, SameItems
<1> QED
  BY <1>1, <1>4, <1>6, <1>7, <1>10, RecordKeeps

(* A step is put on record before it is made. *)
LEMMA BeginKeeps ==
  ASSUME IInv, pc = "loop", NEW step \in {"store", "restore", "purge"}, NEW i, Begin(step, i),
         \/ step = "store" /\ i \in Sources /\ txn.phase \in {"moving", "restore_rollback"}
         \/ step = "restore" /\ i \in StoredItems /\ txn.phase \in {"rollback", "restoring"}
         \/ step = "purge" /\ i \in StoredItems /\ txn.phase = "purging"
  PROVE  IInv'
<1> DEFINE t == [txn EXCEPT !.step = step, !.index = i]
<1>1. Sound(txn) /\ Fits(txn) /\ txn \in Transactions
  BY ActiveRecord
<1>2. txn.step = "none" /\ i \in Items /\ Placed(txn) /\ Valid(txn)
      /\ \A j \in DOMAIN txn.items : txn.items[j].at \in Allowed(txn.phase)
  BY Loops
<1>3. t.phase = txn.phase /\ t.items = txn.items /\ t.step = step /\ t.index = i
      /\ t.target = txn.target
  BY <1>1 DEF Transactions
<1>4. t \in Transactions
  BY <1>1, <1>2, Rewritten
<1>5. Record(t, "execute") /\ UNCHANGED disk /\ Quiet /\ Steady
  BY DEF Begin
<1> HIDE DEF t
<1>6. Kind(t) = Kind(txn)
  BY <1>3 DEF Kind
<1>7. StepMatchesPhase(t)
  <2>1. \A where : Located(t, where) = Located(txn, where)
    BY <1>3 DEF Located
  <2> QED
    BY <1>3, <2>1 DEF StepMatchesPhase, Sources, StoredItems
<1>8. Valid(t)
  BY <1>2, <1>3, <1>7, ValidAgain
<1>9. ManifestFits(t)
  BY <1>1, <1>3 DEF Fits, ManifestFits, Unlisted, Listed, Changing
<1>10. t.phase # "purged" /\ t.step # "none"
  BY <1>3
<1>11. Sound(t) /\ Fits(t)
  BY <1>1, <1>2, <1>3, <1>4, <1>6, <1>8, <1>9, <1>10, SameItems
<1>12. InPlace(t, t.index)
  <2>1. InPlace(txn, i)
    BY <1>2 DEF Placed, Moving
  <2> QED
    BY <1>3, <2>1 DEF InPlace, Located
<1> QED
  BY <1>5, <1>6, <1>10, <1>11, <1>12, RecordKeeps

LEMMA StepsBegin ==
  ASSUME IInv, StoreNext \/ RestoreNext \/ PurgeNext
  PROVE  IInv'
<1>1. pc = "loop"
  BY DEF StoreNext, RestoreNext, PurgeNext, InPhase
<1>2. /\ Sources # {} => First(Sources) \in Sources /\ Last(Sources) \in Sources
      /\ StoredItems # {} => First(StoredItems) \in StoredItems /\ Last(StoredItems) \in StoredItems
  BY <1>1, Loops, Extremes
<1> QED
  BY <1>1, <1>2, BeginKeeps DEF StoreNext, RestoreNext, PurgeNext, InPhase

-----------------------------------------------------------------------------
(* Starting, resuming, cancelling.                                         *)

LEMMA BeginsWith ==
  ASSUME IInv, Free, NEW t, Sound(t), Fits(t), t.step = "none", Record(t, "loop"),
         Still, Steady, requests' \in 0..MaxRequests, Kind(t) # "move" => requests' > 0
  PROVE  IInv'
<1>1. Valid(t)
  BY DEF Sound
<1>2. Persisted(t) /\ txn' = t /\ pc' = "loop" /\ call' = NoCall /\ report' = "running"
  BY <1>1 DEF Record, Writes, Persisted
<1>3. GoesOn(t)
  BY <1>2, Kinds DEF GoesOn
<1>4. faults' \in 0..MaxFaults /\ journal.current = NoTxn
  BY DEF Steady, IInv, Types, Free
<1> QED
  BY <1>2, <1>3, <1>4, WritingKeeps

LEMMA StartKeeps ==
  ASSUME IInv, Start
  PROVE  IInv'
<1> DEFINE t == NewTransaction
<1>1. t.phase = "prepared" /\ t.step = "none" /\ t.index = 0 /\ t.target = "old"
      /\ t.items = [i \in Items |-> [NewItem EXCEPT !.snapshot = File(i)]]
  BY DEF NewTransaction, NoTxn
<1>2. \A i \in Items : t.items[i].at = "source" /\ t.items[i].cursor = 0
                       /\ t.items[i].snapshot = File(i) /\ t.items[i] \in ItemType
  BY <1>1, Names DEF NewItem, ItemType
<1>3. t.items \in UNION {[D -> ItemType] : D \in SUBSET Items} /\ DOMAIN t.items = Items
  <2>1. t.items \in [Items -> ItemType]
    BY <1>1, <1>2
  <2> QED
    BY <2>1
<1>4. t \in Transactions
  BY <1>1, <1>3, Names DEF Transactions, Phase, NewTransaction, NoTxn
<1>5. Record(t, "loop") /\ Still /\ Steady /\ requests' = requests /\ Free
  BY DEF Start, Quiet, Still
<1> HIDE DEF t
<1>6. Kind(t) = "move"
  BY <1>1, <1>4, Kinds DEF Transactions
<1>7. Valid(t)
  BY <1>1, <1>2, <1>3, Names DEF Valid, StepMatchesPhase, Allowed
<1>8. Sound(t)
  BY <1>1, <1>2, <1>3, <1>4, <1>6, <1>7, Names DEF Sound
<1>9. InTrash = {} /\ DOMAIN manifest = {}
      /\ \A i \in Items : Safe(i) /\ dir[At("other", i)].id # i
  BY DEF IInv, AtRest, Start, Free
<1>10. Placed(t)
  <2>1. \A i \in Items : dir[Stored(i)].id = 0
    BY <1>9, Names DEF InTrash
  <2>2. \A i \in Items : i \notin Located(t, "stored")
    BY <1>2 DEF Located
  <2> QED
    BY <2>1, <2>2 DEF Placed, InPlace
<1>11. Fits(t)
  BY <1>1, <1>6, <1>9, <1>10 DEF Fits, ManifestFits, NothingLost, Listed, Changing
<1> QED
  BY <1>1, <1>5, <1>6, <1>8, <1>11, BeginsWith DEF IInv, Types

LEMMA FromManifestKeeps ==
  ASSUME IInv, Request, NEW phase \in {"restore_prepared", "purge_prepared"},
         NEW target \in {"old", "other"}, Record(FromManifest(phase, target), "loop")
  PROVE  IInv'
<1> DEFINE t == FromManifest(phase, target)
<1>1. PICK D \in SUBSET Items : manifest \in [D -> Object]
  BY DEF IInv, Types
<1>2. t.phase = phase /\ t.step = "none" /\ t.index = 0 /\ t.target = target
      /\ t.items = [i \in DOMAIN manifest |->
                      [at |-> "stored", snapshot |-> manifest[i], cursor |-> 0]]
  BY DEF FromManifest, NoTxn
<1>3. DOMAIN manifest \subseteq Items /\ DOMAIN manifest = DOMAIN t.items
      /\ DOMAIN manifest # {}
  BY <1>1, <1>2, EmptyListing DEF Request
<1>4. \A i \in DOMAIN t.items :
        /\ t.items[i].at = "stored" /\ t.items[i].cursor = 0
        /\ t.items[i].snapshot = manifest[i] /\ t.items[i] \in ItemType
        /\ manifest[i].id = i /\ manifest[i].size = "same"
  BY <1>1, <1>2 DEF ItemType, IInv, ThingsAreKnown
<1>5. t.items \in UNION {[S -> ItemType] : S \in SUBSET Items}
  <2>1. t.items \in [DOMAIN t.items -> ItemType]
    BY <1>2, <1>4
  <2> QED
    BY <1>3, <2>1
<1>6. t \in Transactions
  BY <1>2, <1>5, Names DEF Transactions, Phase, FromManifest, NoTxn
<1>7. Record(t, "loop") /\ Still /\ Steady /\ requests' = requests + 1 /\ Free
      /\ requests < MaxRequests
  BY DEF Request, Still
<1> HIDE DEF t
<1>8. Kind(t) # "move"
  BY <1>2, <1>6, Kinds DEF Transactions
<1>9. Valid(t)
  BY <1>2, <1>4 DEF Valid, StepMatchesPhase, Allowed
<1>10. Sound(t)
  BY <1>4, <1>6, <1>8, <1>9 DEF Sound
<1>11. Located(t, "stored") = DOMAIN manifest
  BY <1>3, <1>4 DEF Located
<1>12. InTrash = DOMAIN manifest /\ \A i \in Items : Safe(i)
  BY <1>3, <1>7 DEF IInv, AtRest, Free
<1>13. Placed(t)
  <2>1. ASSUME NEW i \in Items
        PROVE  dir[Stored(i)].id = IF i \in DOMAIN manifest THEN i ELSE 0
    <3>1. dir[Stored(i)].id \in {0, i} /\ (dir[Stored(i)].id = 0 => dir[Stored(i)] = Nothing)
      BY Names DEF IInv, ThingsAreKnown, Stored
    <3> QED
      BY <1>12, <3>1, Names DEF InTrash
  <2> QED
    BY <1>11, <2>1 DEF Placed, InPlace
<1>14. Fits(t)
  BY <1>2, <1>3, <1>8, <1>12, <1>13 DEF Fits, ManifestFits, NothingLost, Unlisted, Changing
<1>15. requests' \in 0..MaxRequests /\ requests' > 0
  BY <1>7, TrashAssumption DEF IInv, Types
<1> QED
  BY <1>2, <1>7, <1>10, <1>14, <1>15, BeginsWith

LEMMA ResumeKeeps ==
  ASSUME IInv, Resume
  PROVE  IInv'
<1>1. journal.current # NoTxn /\ journal' = journal /\ txn' = journal.current
      /\ report' = "running" /\ Still /\ requests' = requests /\ faults' = faults
  BY DEF Resume, TakeUp, Quiet, Steady, Still
<1>2. call' \in CallType /\ pc' \in {"loop", "reconcile"}
      /\ (pc' = "reconcile" <=> journal.current.step # "none")
  BY Kinds DEF Resume, TakeUp, CallType
<1>3. Types'
  BY <1>1, <1>2 DEF IInv, Types, Still, disk, others
<1>4. Recorded(journal.current)' /\ Recorded(journal.previous)'
  BY <1>1 DEF IInv, Recorded
<1>5. ThingsAreKnown'
  BY <1>1 DEF IInv, ThingsAreKnown, Still, disk, others
<1>6. RecordsFit' /\ AtRest'
  BY <1>1, StillFits DEF IInv, RecordsFit, AtRest, Pausing
<1>7. WorkerFollows' /\ OutcomeIsTrue'
  BY <1>1, <1>2 DEF WorkerFollows, OutcomeIsTrue
<1> QED
  BY <1>3, <1>4, <1>5, <1>6, <1>7 DEF IInv

LEMMA CancelRemainingKeeps ==
  ASSUME IInv, CancelRemaining
  PROVE  IInv'
<1> DEFINE u == journal.current
           t == [u EXCEPT !.phase = "cancel_remaining_intent"]
<1>1. u # NoTxn /\ Kind(u) = "move" /\ ~Cancelling(u) /\ Still /\ requests' = requests
      /\ faults' = faults
      /\ Writes(t) /\ (Valid(t) => TakeUp(t))
  BY DEF CancelRemaining, Quiet, Steady, Still
<1>2. Sound(u) /\ Fits(u) /\ u \in Transactions
  BY <1>1 DEF IInv, Recorded, RecordsFit, Sound
<1>3. t.phase = "cancel_remaining_intent" /\ t.step = u.step /\ t.index = u.index
      /\ t.items = u.items /\ t.target = u.target
  BY <1>2 DEF Transactions
<1>4. t \in Transactions
  BY <1>2, Rewritten DEF Phase
<1>5. DOMAIN u.items = Items /\ Valid(u)
      /\ u.phase \in {"prepared", "moving", "rollback", "rollback_container_remove_intent",
                      "manifest_intent", "published"}
  BY <1>1, <1>2, Kinds DEF Sound, Transactions, Cancelling
<1> HIDE DEF t, u
<1>6. Kind(t) = "move"
  BY <1>3, <1>4, Kinds DEF Transactions
<1>7. \A i \in DOMAIN u.items : u.items[i].at \in {"source", "stored"}
  BY <1>5 DEF Valid, Allowed
<1>8. StepMatchesPhase(t)
  <2>1. \A where : Located(t, where) = Located(u, where)
    BY <1>3 DEF Located
  <2>2. StepMatchesPhase(u)
    BY <1>5 DEF Valid
  <2>3. u.step \in {"none", "store", "restore", "purge"}
    BY <1>2 DEF Transactions
  <2>4. /\ u.step = "none" => u.index = 0
        /\ u.step = "store" => u.index \in Located(u, "source")
        /\ u.step = "restore" => u.index \in Located(u, "stored")
        /\ u.step # "purge"
    BY <1>5, <2>2 DEF StepMatchesPhase
  <2>5. CASE t.step = "none"
    BY <1>3, <2>4, <2>5 DEF StepMatchesPhase
  <2>6. CASE t.step = "store"
    BY <1>3, <2>1, <2>4, <2>6 DEF StepMatchesPhase
  <2>7. CASE t.step = "restore"
    BY <1>3, <2>1, <2>4, <2>7 DEF StepMatchesPhase
  <2> QED
    BY <1>3, <2>3, <2>4, <2>5, <2>6, <2>7
<1>9. Valid(t)
  BY <1>3, <1>5, <1>7, <1>8, ValidAgain DEF Allowed
<1>10. ManifestFits(t)
  <2>1. u.phase \in {"manifest_intent", "published"} =>
          u.step = "none" /\ Located(u, "stored") = Items
    BY <1>2, <1>5 DEF Valid, StepMatchesPhase, Allowed, Located, Transactions
  <2>2. Located(t, "stored") = Located(u, "stored")
    BY <1>3 DEF Located
  <2> QED
    BY <1>2, <1>3, <1>5, <2>1, <2>2 DEF Fits, ManifestFits, Unlisted, Listed, Changing
<1>11. Sound(t) /\ Fits(t)
  BY <1>1, <1>2, <1>3, <1>4, <1>6, <1>9, <1>10, SameItems
<1>12. Persisted(t)
  BY <1>1, <1>9 DEF Writes, Persisted
<1>13. GoesOn(t)
  BY <1>1, <1>9, Kinds DEF TakeUp, GoesOn, CallType
<1> QED
  BY <1>1, <1>6, <1>11, <1>12, <1>13, WritingKeeps DEF IInv, Types, u

(* The plan of a cancelled move is looked over and recorded once more.     *)
LEMMA VerifyPlanKeeps ==
  ASSUME IInv, VerifyPlan
  PROVE  IInv'
<1>1. pc = "loop" /\ Cancelling(txn) /\ UNCHANGED disk /\ Quiet /\ Steady
  BY DEF VerifyPlan
<1>2. Sound(txn) /\ Fits(txn) /\ txn \in Transactions /\ txn = journal.current /\ txn # NoTxn
  BY <1>1, ActiveRecord
<1>3. ClearActive(txn) = txn
  <2>1. txn.step = "none" /\ txn.index = 0
    BY <1>1, <1>2, Loops DEF Valid, StepMatchesPhase
  <2> QED
    BY <1>2, <2>1 DEF ClearActive, Transactions
<1>4. CASE Record(ClearActive(txn), "verified")
  <2>1. Record(txn, "verified")
    BY <1>3, <1>4
  <2>2. txn.step = "none"
    BY <1>1, Loops
  <2> QED
    BY <1>1, <1>2, <2>1, <2>2, RecordKeeps
<1>5. CASE EndRun("recovery_required") /\ UNCHANGED journal
  BY <1>1, <1>2, <1>5, EndKeeps DEF Broken
<1> QED
  BY <1>4, <1>5 DEF VerifyPlan

LEMMA InterruptKeeps ==
  ASSUME IInv, Interrupt
  PROVE  IInv'
BY ActiveRecord, EndKeeps DEF Interrupt, Broken

-----------------------------------------------------------------------------
(* The container and the manifest.                                         *)

(* Only a container that is made, or found, becomes one, and only a move   *)
(* that has just begun makes it.                                           *)
LEMMA ContainerKeeps ==
  ASSUME IInv, pc # "idle", txn.step = "none", UNCHANGED <<dir, inside, manifest>>, Quiet,
         container' \in {"absent", "present", "littered"},
         container' \in {container, "absent"} \/ txn.phase = "prepared",
         NEW next, Proceed(next), Steady \/ Fault,
         \/ next = "made" /\ txn.phase = "prepared"
         \/ next = "retired" /\ Retiring /\ (Kind(txn) = "purge" => container' = "absent")
  PROVE  IInv'
<1>1. txn = journal.current /\ txn # NoTxn /\ report = "running" /\ txn \in Transactions
  BY ActiveRecord
<1>2. journal' = journal /\ txn' = txn /\ report' = report /\ pc' = next /\ call' = NoCall
      /\ requests' = requests /\ faults' \in 0..MaxFaults
  BY TrashAssumption DEF Proceed, Goto, Quiet, Steady, Fault, IInv, Types
<1>3. Types'
  BY <1>2, Kinds DEF IInv, Types, Quiet, others
<1>4. Recorded(journal.current)' /\ Recorded(journal.previous)'
  BY <1>2 DEF IInv, Recorded
<1>5. ThingsAreKnown' /\ AtRest' /\ OutcomeIsTrue'
  BY <1>1, <1>2 DEF IInv, ThingsAreKnown, Quiet, others, AtRest, OutcomeIsTrue
<1>6. \A u : Fits(u) /\ (u.phase = "purged" => container' = "absent") => Fits(u)'
  BY DEF Fits, Placed, InPlace, Moving, EntryIsNext, Located, ManifestFits, NothingLost, Safe, Quiet, others
<1>7. \A u : Kind(u) = Kind(txn) /\ Fits(u) => Fits(u)'
  <2>1. ASSUME NEW u, Kind(u) = Kind(txn), Fits(u)
        PROVE  u.phase = "purged" => container' = "absent"
    <3>1. txn.phase = "prepared" => Kind(txn) # "purge"
      BY Kinds
    <3>2. u.phase = "purged" => Kind(u) = "purge"
      BY Kinds
    <3> QED
      BY <2>1, <3>1, <3>2 DEF Fits, NothingLost
  <2> QED
    BY <1>6, <2>1
<1>8. RecordsFit'
  BY <1>1, <1>2, <1>7 DEF IInv, RecordsFit, Pausing
<1>9. WorkerFollows'
  BY <1>1, <1>2 DEF IInv, WorkerFollows, Retiring
<1> QED
  BY <1>3, <1>4, <1>5, <1>8, <1>9 DEF IInv

(* What is in the container between two steps is what the record has       *)
(* stored.                                                                 *)
LEMMA Contents ==
  ASSUME IInv, pc # "idle", pc \notin {"execute", "reconcile", "answer"}
  PROVE  /\ InTrash = StoredItems
         /\ \A i \in Items : i \notin StoredItems => dir[Stored(i)].id # i
<1>1. Placed(txn) /\ txn.step = "none" /\ StoredItems \subseteq Items
  BY Loops
<1>2. ASSUME NEW i \in Items
      PROVE  dir[Stored(i)].id = IF i \in StoredItems THEN i ELSE 0
  BY <1>1 DEF Placed, InPlace, Moving, StoredItems
<1>3. \A i \in Items : dir[Stored(i)].id = 0 <=> dir[Stored(i)] = Nothing
  BY Names DEF IInv, ThingsAreKnown, Stored
<1> QED
  BY <1>1, <1>2, <1>3, Names DEF InTrash

LEMMA MakeContainerKeeps ==
  ASSUME IInv, MakeContainer
  PROVE  IInv'
<1>1. pc = "loop" /\ txn.phase = "prepared" /\ txn.step = "none"
  BY Loops DEF MakeContainer, InPhase
<1>2. Sound(txn) /\ Fits(txn) /\ txn \in Transactions /\ journal.current = txn /\ txn # NoTxn
  BY <1>1, ActiveRecord
<1>3. UNCHANGED <<dir, inside, manifest>> /\ Quiet
  BY DEF MakeContainer
<1>4. CASE container # "littered" /\ container' = "present" /\ Proceed("made") /\ Steady
  BY <1>1, <1>3, <1>4, ContainerKeeps
<1>5. CASE UNCHANGED container /\ EndRun("recovery_required") /\ UNCHANGED journal
           /\ (Steady \/ Fault)
  BY <1>2, <1>3, <1>5, EndKeeps DEF Broken, disk
<1>6. CASE UNCHANGED container /\ Fault /\ Untouched /\ EndRun("unavailable")
           /\ journal' = EmptyJournal
  <2>1. \A i \in Items : txn.items[i].snapshot.id = i /\ txn.items[i].at = "source"
    BY <1>1, <1>2, Kinds DEF Sound, Valid, Allowed, Transactions
  <2>2. StoredItems = {}
    BY <1>1, <2>1, Loops DEF StoredItems, Located
  <2>3. InTrash = {} /\ DOMAIN manifest = {}
    BY <1>1, <1>2, <2>2, Contents DEF Fits, ManifestFits, Unlisted
  <2>4. \A i \in Items : Here("old", i)
    BY <1>6, <2>1 DEF Untouched, Here
  <2>5. journal'.current = NoTxn /\ journal'.previous = NoTxn
        /\ journal' \in [current : {NoTxn}, previous : {NoTxn}]
    BY <1>6 DEF EmptyJournal
  <2>6. dir' = dir /\ taken' = taken /\ manifest' = manifest /\ InTrash' = InTrash
        /\ requests' = requests /\ faults' \in 0..MaxFaults /\ meddling' = meddling
        /\ disturbed' = disturbed
    BY <1>3, <1>6, TrashAssumption DEF Quiet, others, InTrash, Fault, IInv, Types
  <2>7. journal' \in [current : Transactions \union {NoTxn}, previous : Transactions \union {NoTxn}]
    BY <2>5
  <2>8. pc' = "idle" /\ txn' = NoTxn /\ call' \in CallType /\ report' = "unavailable"
    BY <1>6, Kinds DEF EndRun
  <2>9. Types'
    BY <1>3, <1>6, <2>6, <2>7, <2>8 DEF IInv, Types
  <2>10. ThingsAreKnown'
    BY <2>6 DEF IInv, ThingsAreKnown
  <2>11. RecordsFit' /\ AtRest' /\ Recorded(journal.current)' /\ Recorded(journal.previous)'
    BY <2>3, <2>5, <2>6, <2>8 DEF RecordsFit, AtRest, Recorded
  <2>12. WorkerFollows'
    BY <2>8 DEF WorkerFollows, NoTxn
  <2>13. OutcomeIsTrue'
    <3>1. \A i \in Items : Here("old", i)'
      BY <2>4, <2>6 DEF Here
    <3> QED
      BY <2>3, <2>6, <2>8, <3>1 DEF OutcomeIsTrue
  <2> QED
    BY <2>9, <2>10, <2>11, <2>12, <2>13 DEF IInv
<1> QED
  BY <1>4, <1>5, <1>6 DEF MakeContainer

LEMMA RetireContainerKeeps ==
  ASSUME IInv, RetireContainer
  PROVE  IInv'
<1>1. pc \in {"loop", "emptied"} /\ Retiring
  <2>1. pc = "emptied" => txn.phase = "cancel_container_remove_intent"
    BY DEF IInv, WorkerFollows
  <2> QED
    BY <2>1 DEF RetireContainer, ToRetire, Retiring
<1>2. txn.step = "none" /\ journal.current # NoTxn
  BY <1>1, Loops, ActiveRecord
<1>3. UNCHANGED <<dir, inside, manifest>> /\ Quiet
  BY DEF RetireContainer
<1>4. Tolerant => Kind(txn) # "purge"
  BY Kinds DEF Tolerant
<1>5. CASE container' = "absent" /\ Proceed("retired") /\ Steady
  BY <1>1, <1>2, <1>3, <1>5, ContainerKeeps
<1>6. CASE UNCHANGED container /\ Tolerant /\ Proceed("retired") /\ (Steady \/ Fault)
  BY <1>1, <1>2, <1>3, <1>4, <1>6, ContainerKeeps DEF IInv, Types
<1>7. CASE UNCHANGED container /\ EndRun("recovery_required") /\ UNCHANGED journal
           /\ (Steady \/ Fault)
  BY <1>1, <1>2, <1>3, <1>7, EndKeeps DEF Broken, disk
<1> QED
  BY <1>5, <1>6, <1>7 DEF RetireContainer

(* The manifest changes: only what the records say of it, and what the     *)
(* worker does next, has to be looked at.                                  *)
LEMMA ManifestKeeps ==
  ASSUME IInv, pc # "idle", pc \notin {"execute", "reconcile", "answer"}, NEW listing, NEW next,
         Publish(listing, next), NEW D \in SUBSET Items, listing \in [D -> Object],
         \A i \in D : listing[i].id = i /\ listing[i].size = "same",
         \/ txn.phase \in Changing /\ D \in {{}, DOMAIN txn.items}
         \/ D = DOMAIN manifest
         \/ /\ txn.phase = "cancel_remaining_intent" /\ journal.previous = txn
            /\ D = StoredItems,
         \/ next = "listed" /\ txn.phase = "manifest_intent" /\ D = Items
         \/ next = "finished" /\ txn.phase \in {"published", "cancel_remaining_intent"}
            /\ D = StoredItems
         \/ /\ next = "unlisted" /\ D = {}
            /\ txn.phase \in {"manifest_remove_intent", "purge_manifest_remove_intent"}
         \/ next = "nothing" /\ Cancelling(txn) /\ StoredItems = {} /\ D = {}
  PROVE  IInv'
<1>1. txn = journal.current /\ txn # NoTxn /\ report = "running" /\ txn \in Transactions
      /\ txn.step = "none" /\ Fits(txn)
  BY ActiveRecord, Loops
<1>2. manifest' = listing /\ DOMAIN manifest' = D
  BY DEF Publish
<1>3. journal' = journal /\ txn' = txn /\ report' = report /\ pc' = next /\ call' = NoCall
      /\ requests' = requests /\ faults' = faults /\ dir' = dir /\ container' = container
      /\ inside' = inside /\ taken' = taken /\ meddling' = meddling /\ disturbed' = disturbed
  BY DEF Publish, Proceed, Goto, Quiet, Steady, others
<1>4. Types'
  <2>1. manifest' \in UNION {[S -> Object] : S \in SUBSET Items}
    BY <1>2
  <2> QED
    BY <1>3, <2>1, Kinds DEF IInv, Types
<1>5. Recorded(journal.current)' /\ Recorded(journal.previous)'
  BY <1>3 DEF IInv, Recorded
<1>6. ThingsAreKnown' /\ AtRest' /\ OutcomeIsTrue'
  BY <1>1, <1>2, <1>3 DEF IInv, ThingsAreKnown, AtRest, OutcomeIsTrue
<1>7. \A u : ManifestFits(u)' /\ Fits(u) => Fits(u)'
  BY <1>3 DEF Fits, Placed, InPlace, Moving, EntryIsNext, Located, NothingLost, Safe
<1>8. RecordsFit'
  <2>1. CASE txn.phase \in Changing /\ D \in {{}, DOMAIN txn.items}
    <3>1. ManifestFits(txn)'
      BY <1>2, <1>3, <2>1 DEF ManifestFits, Unlisted, Listed, Changing
    <3> QED
      BY <1>1, <1>3, <1>7, <2>1, <3>1 DEF IInv, RecordsFit, Pausing
  <2>2. CASE D = DOMAIN manifest
    <3>1. \A u : ManifestFits(u) => ManifestFits(u)'
      BY <1>2, <2>2 DEF ManifestFits, Located
    <3>2. \A u : Fits(u) => Fits(u)'
      BY <1>7, <3>1 DEF Fits
    <3> QED
      BY <1>3, <3>2 DEF IInv, RecordsFit, Pausing
  <2>3. CASE txn.phase = "cancel_remaining_intent" /\ journal.previous = txn /\ D = StoredItems
    <3>1. ManifestFits(txn)'
      BY <1>1, <1>2, <1>3, <2>3 DEF ManifestFits, Unlisted, Listed, Changing, StoredItems
    <3> QED
      BY <1>1, <1>3, <1>7, <2>3, <3>1 DEF IInv, RecordsFit, Pausing
  <2> QED
    BY <2>1, <2>2, <2>3
<1>9. WorkerFollows'
  BY <1>1, <1>2, <1>3 DEF IInv, WorkerFollows, StoredItems, Cancelling
<1> QED
  BY <1>4, <1>5, <1>6, <1>8, <1>9 DEF IInv

LEMMA Listings ==
  ASSUME NEW t, Sound(t)
  PROVE  /\ Listing(t) \in [Located(t, "stored") -> Object]
         /\ \A i \in Located(t, "stored") :
              Listing(t)[i].id = i /\ Listing(t)[i].size = "same"
         /\ Located(t, "stored") \in SUBSET Items
<1>1. Located(t, "stored") \subseteq DOMAIN t.items /\ DOMAIN t.items \subseteq Items
      /\ t.items \in [DOMAIN t.items -> ItemType]
  BY RecordTypes DEF Sound
<1>2. \A i \in Located(t, "stored") :
        /\ t.items[i].snapshot \in Object /\ t.items[i].snapshot.id = i
        /\ t.items[i].snapshot.size = "same"
  BY <1>1 DEF ItemType, Sound, Valid
<1> QED
  BY <1>1, <1>2 DEF Listing

LEMMA PublishManifestKeeps ==
  ASSUME IInv, PublishManifest
  PROVE  IInv'
<1>1. pc = "loop" /\ txn.phase \in {"manifest_intent", "published"}
  BY DEF PublishManifest, InPhase
<1>2. Sound(txn) /\ Fits(txn) /\ txn \in Transactions
  BY <1>1, ActiveRecord
<1>3. DOMAIN txn.items = Items /\ StoredItems = Items
  <2>1. DOMAIN txn.items = Items
    BY <1>1, <1>2, Kinds DEF Sound, Transactions
  <2> QED
    BY <1>1, <2>1, Loops DEF Allowed, StoredItems, Located
<1>4. /\ Listing(txn) \in [Items -> Object]
      /\ \A i \in Items : Listing(txn)[i].id = i /\ Listing(txn)[i].size = "same"
  BY <1>2, <1>3, Listings DEF StoredItems
<1>5. CASE txn.phase = "manifest_intent" /\ Publish(Listing(txn), "listed")
  BY <1>1, <1>3, <1>4, <1>5, ManifestKeeps DEF Changing
<1>6. CASE txn.phase = "published" /\ Publish(Listing(txn), "finished")
  <2>1. DOMAIN manifest = Items
    BY <1>2, <1>3, <1>6 DEF Fits, ManifestFits, Listed
  <2> QED
    BY <1>1, <1>3, <1>4, <1>6, <2>1, ManifestKeeps
<1> QED
  BY <1>5, <1>6 DEF PublishManifest, InPhase

LEMMA RemoveManifestKeeps ==
  ASSUME IInv, RemoveManifest
  PROVE  IInv'
<1>1. <<>> \in [{} -> Object] /\ {} \in SUBSET Items
  OBVIOUS
<1>2. pc = "loop" /\ Publish(<<>>, "unlisted")
      /\ txn.phase \in {"manifest_remove_intent", "purge_manifest_remove_intent"}
  BY DEF RemoveManifest
<1> QED
  BY <1>1, <1>2, ManifestKeeps DEF Changing

LEMMA PublishRemainingKeeps ==
  ASSUME IInv, PublishRemaining
  PROVE  IInv'
<1>1. pc = "verified" /\ journal.previous = txn /\ Cancelling(txn)
      /\ Publish(Listing(txn), IF StoredItems = {} THEN "nothing" ELSE "finished")
  BY DEF PublishRemaining, IInv, WorkerFollows
<1>2. Sound(txn) /\ Fits(txn) /\ txn \in Transactions
  BY <1>1, ActiveRecord
<1>3. /\ StoredItems \in SUBSET Items /\ Listing(txn) \in [StoredItems -> Object]
      /\ \A i \in StoredItems : Listing(txn)[i].id = i /\ Listing(txn)[i].size = "same"
  BY <1>2, Listings DEF StoredItems
<1>4. CASE txn.phase = "cancel_remaining_intent"
  <2>1. CASE StoredItems = {}
    BY <1>1, <1>3, <1>4, <2>1, ManifestKeeps
  <2>2. CASE StoredItems # {}
    BY <1>1, <1>3, <1>4, <2>2, ManifestKeeps
  <2> QED
    BY <2>1, <2>2
<1>5. CASE txn.phase = "cancel_container_remove_intent"
  <2>1. StoredItems = {}
    BY <1>1, <1>5, Loops DEF Allowed, StoredItems, Located
  <2>2. DOMAIN manifest = {}
    BY <1>2, <1>5 DEF Fits, ManifestFits, Unlisted
  <2> QED
    BY <1>1, <1>3, <2>1, <2>2, ManifestKeeps
<1> QED
  BY <1>1, <1>4, <1>5 DEF Cancelling

-----------------------------------------------------------------------------
(* The end of a run.                                                       *)

(* What a run may end with.                                                *)
LEMMA Ended ==
  ASSUME IInv, Outcome # "none"
  PROVE  /\ pc # "idle" /\ pc \notin {"execute", "reconcile", "answer"}
         /\ txn.phase \notin Changing
         /\ InTrash = DOMAIN manifest
         /\ \/ Outcome = "stored" /\ txn.phase = "published"
            \/ Outcome = "cancelled" /\ Kind(txn) = "move"
            \/ Outcome = "rolled_back" /\ Kind(txn) = "move" /\ InTrash = {}
            \/ Outcome = "rolled_back" /\ Kind(txn) = "restore"
            \/ Outcome = "restored" /\ Kind(txn) = "restore" /\ InTrash = {}
            \/ Outcome = "purged" /\ txn.phase = "purged" /\ InTrash = {}
<1>1. pc \in {"finished", "retired", "loop"}
  BY DEF Outcome, InPhase
<1>2. Sound(txn) /\ Fits(txn) /\ txn \in Transactions /\ txn.step = "none"
      /\ InTrash = StoredItems
      /\ \A i \in DOMAIN txn.items : txn.items[i].at \in Allowed(txn.phase)
  BY <1>1, ActiveRecord, Loops, Contents
<1>3. ASSUME txn.phase \in {"rollback_container_remove_intent", "cancel_container_remove_intent",
                            "restore_container_remove_intent", "purge_container_remove_intent",
                            "restored", "purged"}
      PROVE  InTrash = {} /\ DOMAIN manifest = {}
  <2>1. \A i \in DOMAIN txn.items : txn.items[i].at # "stored"
    BY <1>2, <1>3 DEF Allowed
  <2> QED
    BY <1>2, <1>3, <2>1 DEF StoredItems, Located, Fits, ManifestFits, Unlisted
<1>4. CASE pc = "finished"
  <2>1. txn.phase \in {"published", "cancel_remaining_intent"} /\ DOMAIN manifest = StoredItems
    BY <1>4 DEF IInv, WorkerFollows, StoredItems
  <2>2. Kind(txn) = "move"
    BY <2>1, Kinds DEF Phase
  <2>3. Outcome = IF Cancelling(txn) THEN "cancelled" ELSE "stored"
    BY <1>4 DEF Outcome, InPhase
  <2> QED
    BY <1>2, <1>4, <2>1, <2>2, <2>3 DEF Cancelling, Changing
<1>5. CASE pc = "retired"
  <2>1. Retiring
    BY <1>5 DEF IInv, WorkerFollows
  <2>2. InTrash = {} /\ DOMAIN manifest = {} /\ txn.phase \notin Changing
    BY <1>3, <2>1 DEF Retiring, Changing
  <2>3. Kind(txn) = "move"
        /\ Outcome = IF Cancelling(txn) THEN "cancelled" ELSE "rolled_back"
    BY <1>5 DEF Outcome, InPhase
  <2> QED
    BY <1>5, <2>2, <2>3
<1>6. CASE pc = "loop"
  <2>1. CASE InPhase("restore_rollback") /\ Sources = {}
    <3>1. Outcome = "rolled_back" /\ txn.phase = "restore_rollback"
      BY <2>1 DEF Outcome, InPhase
    <3>2. Kind(txn) = "restore" /\ txn.phase \notin Changing
      BY <3>1, Kinds DEF Changing
    <3>3. \A i \in DOMAIN txn.items : txn.items[i].at = "stored"
      BY <1>2, <2>1, <3>1 DEF Allowed, Sources, Located
    <3>4. DOMAIN manifest = StoredItems
      BY <1>2, <3>1, <3>3 DEF Fits, ManifestFits, Listed, StoredItems, Located
    <3> QED
      BY <1>2, <1>6, <3>1, <3>2, <3>4
  <2>2. CASE InPhase("restored")
    <3>1. Outcome = "restored" /\ txn.phase = "restored"
      BY <2>2 DEF Outcome, InPhase
    <3>2. Kind(txn) = "restore" /\ txn.phase \notin Changing
      BY <3>1, Kinds DEF Changing
    <3> QED
      BY <1>3, <1>6, <3>1, <3>2
  <2>3. CASE InPhase("purged")
    <3>1. Outcome = "purged" /\ txn.phase = "purged"
      BY <2>3 DEF Outcome, InPhase
    <3> QED
      BY <1>3, <1>6, <3>1 DEF Changing
  <2> QED
    BY <1>6, <2>1, <2>2, <2>3 DEF Outcome
<1> QED
  BY <1>1, <1>4, <1>5, <1>6

(* What is in none of the other places is where it was.                    *)
LEMMA FoundThere ==
  ASSUME NEW i \in Items, Safe(i), dir[Stored(i)].id # i
  PROVE  /\ Here("old", i) \/ Here("other", i)
         /\ dir[At("other", i)].id # i => Here("old", i)
BY DEF Safe, Here, Stored

LEMMA EndedWell ==
  ASSUME IInv, Outcome # "none", UNCHANGED disk, Quiet, report' = Outcome
  PROVE  OutcomeIsTrue'
<1>1. Sound(txn) /\ Fits(txn) /\ txn \in Transactions /\ txn = journal.current /\ txn # NoTxn
  BY Ended, ActiveRecord
<1>2. InTrash = StoredItems /\ InTrash = DOMAIN manifest
      /\ (\A i \in Items : i \notin InTrash => dir[Stored(i)].id # i)
  BY Ended, Contents
<1>3. \A w, i : Here(w, i)' = Here(w, i)
  BY DEF Here, disk, Quiet, others
<1>4. InTrash' = InTrash /\ manifest' = manifest /\ container' = container /\ requests' = requests
  BY DEF InTrash, disk, Quiet
<1>5. InTrash = {} => manifest = <<>>
  <2>1. PICK D \in SUBSET Items : manifest \in [D -> Object]
    BY DEF IInv, Types
  <2> QED
    BY <1>2, <2>1, EmptyListing
<1>6. Kind(txn) = "move" => \A i \in Items : i \notin InTrash => Here("old", i)
  BY <1>1, <1>2, FoundThere DEF Fits, NothingLost
<1>7. Kind(txn) = "restore" /\ InTrash = {} =>
        \A i \in Items : Here("old", i) \/ Here("other", i)
  BY <1>1, <1>2, FoundThere DEF Fits, NothingLost
<1>8. CASE Outcome = "stored" /\ txn.phase = "published"
  <2>1. DOMAIN txn.items = Items
    BY <1>1, <1>8, Kinds DEF Sound, Transactions
  <2>2. StoredItems = Items
    BY <1>8, <2>1, Ended, Loops DEF StoredItems, Located, Allowed
  <2> QED
    BY <1>2, <1>4, <1>8, <2>2 DEF OutcomeIsTrue
<1>9. CASE Outcome = "cancelled" /\ Kind(txn) = "move"
  BY <1>2, <1>3, <1>4, <1>6, <1>9 DEF OutcomeIsTrue
<1>10. CASE Outcome = "rolled_back" /\ Kind(txn) = "move" /\ InTrash = {}
  BY <1>2, <1>3, <1>4, <1>6, <1>10 DEF OutcomeIsTrue
<1>11. CASE Outcome = "rolled_back" /\ Kind(txn) = "restore"
  <2>1. requests > 0
    BY <1>1, <1>11 DEF IInv, RecordsFit
  <2> QED
    BY <1>2, <1>4, <1>11, <2>1 DEF OutcomeIsTrue
<1>12. CASE Outcome = "restored" /\ Kind(txn) = "restore" /\ InTrash = {}
  BY <1>3, <1>4, <1>5, <1>7, <1>12 DEF OutcomeIsTrue
<1>13. CASE Outcome = "purged" /\ txn.phase = "purged" /\ InTrash = {}
  BY <1>1, <1>4, <1>5, <1>13 DEF OutcomeIsTrue, Fits, NothingLost
<1> QED
  BY <1>8, <1>9, <1>10, <1>11, <1>12, <1>13, Ended

LEMMA FinishKeeps ==
  ASSUME IInv, Finish
  PROVE  IInv'
<1>1. Outcome # "none" /\ UNCHANGED disk /\ Quiet /\ faults' \in 0..MaxFaults
      /\ pc' = "idle" /\ txn' = NoTxn /\ call' = NoCall
      /\ \/ journal' = EmptyJournal /\ report' = Outcome
         \/ /\ report' = "journal_error"
            /\ \/ journal' = [current |-> journal.current, previous |-> NoTxn]
               \/ journal' = [current |-> journal.previous, previous |-> NoTxn]
               \/ journal' = EmptyJournal
  BY TrashAssumption DEF Finish, EndRun, Fault, Steady, IInv, Types
<1>2. txn = journal.current /\ txn # NoTxn /\ Sound(txn) /\ Fits(txn) /\ txn.step = "none"
      /\ txn.phase \notin Changing /\ InTrash = DOMAIN manifest
  BY <1>1, Ended, ActiveRecord, Loops
<1>3. journal'.previous = NoTxn
      /\ journal'.current \in {journal.current, journal.previous, NoTxn}
      /\ journal' \in [current : {journal.current, journal.previous, NoTxn}, previous : {NoTxn}]
  BY <1>1 DEF EmptyJournal
<1>4. Still /\ dir' = dir /\ manifest' = manifest /\ inside' = inside /\ container' = container
      /\ taken' = taken /\ meddling' = meddling /\ requests' = requests
      /\ disturbed' = disturbed
  BY <1>1 DEF Still, Quiet, disk, others
<1>5. report' # "new" /\ report' \in
        {"stored", "cancelled", "rolled_back", "restored", "purged", "journal_error"}
  BY <1>1, Ended
<1>6. Types'
  <2>1. journal' \in [current : Transactions \union {NoTxn}, previous : Transactions \union {NoTxn}]
    BY <1>3 DEF IInv, Types
  <2> QED
    BY <1>1, <1>4, <1>5, <2>1, Kinds DEF IInv, Types
<1>7. ThingsAreKnown' /\ Recorded(journal.current)' /\ Recorded(journal.previous)'
  BY <1>3, <1>4 DEF IInv, ThingsAreKnown, Recorded
<1>8. RecordsFit'
  <2>1. journal'.current # NoTxn =>
          Fits(journal'.current) /\ (Kind(journal'.current) # "move" => requests > 0)
    BY <1>2, <1>3 DEF IInv, RecordsFit, Pausing
  <2> QED
    BY <1>3, <1>4, <2>1, StillFits DEF RecordsFit
<1>9. AtRest'
  <2>1. InTrash' = InTrash /\ \A i : Safe(i)' = Safe(i)
    BY <1>4 DEF InTrash, Safe
  <2>2. DOMAIN manifest # {} => \A i \in Items : Safe(i)
    <3>1. txn.phase # "purged" => Kind(txn) # "purge"
      BY <1>1, Ended, Kinds
    <3> QED
      BY <1>1, <1>2, <3>1, Ended DEF Fits, NothingLost
  <2> QED
    BY <1>2, <1>4, <1>5, <2>1, <2>2 DEF AtRest
<1>10. WorkerFollows'
  BY <1>1, <1>5 DEF WorkerFollows, NoTxn
<1>11. OutcomeIsTrue'
  <2>1. CASE report' = Outcome
    BY <1>1, <2>1, EndedWell
  <2>2. CASE report' = "journal_error"
    BY <2>2 DEF OutcomeIsTrue
  <2> QED
    BY <1>1, <2>1, <2>2
<1> QED
  BY <1>6, <1>7, <1>8, <1>9, <1>10, <1>11 DEF IInv

-----------------------------------------------------------------------------
(* The helper.                                                             *)

(* The step on record moves one thing, between names of its own.           *)
LEMMA StepNames ==
  ASSUME IInv, pc \in {"execute", "reconcile", "answer"}
  PROVE  /\ txn.step \in {"store", "restore", "purge"}
         /\ txn.index \in Items /\ txn.index \in DOMAIN txn.items
         /\ Expected.id = txn.index /\ Expected \in Object
         /\ txn.step = "store" =>
              /\ From = At(txn.target, txn.index) /\ To = Stored(txn.index)
              /\ txn.items[txn.index].at = "source"
              /\ txn.phase \in {"moving", "cancel_remaining_intent", "restore_rollback"}
         /\ txn.step # "store" =>
              /\ From = Stored(txn.index) /\ To = At(txn.target, txn.index)
              /\ txn.items[txn.index].at = "stored"
         /\ txn.step = "restore" => txn.phase \in {"rollback", "cancel_remaining_intent", "restoring"}
         /\ txn.step = "purge" => txn.phase = "purging"
         /\ txn.step # "purge" => Kind(txn) # "purge"
         /\ From \in Name /\ To \in Name /\ From # To
         /\ txn.target \in {"old", "other"} /\ (Kind(txn) = "move" => txn.target = "old")
         /\ ~Pausing
<1>1. Sound(txn) /\ txn \in Transactions /\ Valid(txn) /\ txn = journal.current
  BY ActiveRecord DEF Sound
<1>2. txn.step \in {"store", "restore", "purge"}
  BY <1>1 DEF IInv, WorkerFollows, Transactions
<1>3. StepMatchesPhase(txn)
  BY <1>1 DEF Valid
<1>4. /\ txn.step = "store" =>
           /\ txn.phase \in {"moving", "cancel_remaining_intent", "restore_rollback"}
           /\ txn.index \in Located(txn, "source")
      /\ txn.step = "restore" =>
           /\ txn.phase \in {"rollback", "cancel_remaining_intent", "restoring"}
           /\ txn.index \in Located(txn, "stored")
      /\ txn.step = "purge" => txn.phase = "purging" /\ txn.index \in Located(txn, "stored")
  BY <1>3 DEF StepMatchesPhase
<1>5. txn.index \in DOMAIN txn.items /\ txn.index \in Items
      /\ txn.items[txn.index] \in ItemType
      /\ (txn.step = "store" => txn.items[txn.index].at = "source")
      /\ (txn.step # "store" => txn.items[txn.index].at = "stored")
      /\ txn.target \in {"old", "other"}
  <2>1. /\ txn.index \in DOMAIN txn.items
        /\ (txn.step = "store" => txn.items[txn.index].at = "source")
        /\ (txn.step # "store" => txn.items[txn.index].at = "stored")
    BY <1>2, <1>4 DEF Located
  <2>2. DOMAIN txn.items \subseteq Items /\ txn.items \in [DOMAIN txn.items -> ItemType]
        /\ txn.target \in {"old", "other"}
    BY <1>1, RecordTypes
  <2> QED
    BY <2>1, <2>2
<1>6. Expected.id = txn.index /\ Expected \in Object
  BY <1>1, <1>5 DEF Expected, Sound, ItemType
<1>7. txn.step # "purge" => Kind(txn) # "purge"
  BY <1>2, <1>4, Kinds
<1>8. /\ txn.step = "store" => From = At(txn.target, txn.index) /\ To = Stored(txn.index)
      /\ txn.step # "store" => From = Stored(txn.index) /\ To = At(txn.target, txn.index)
  BY <1>5 DEF From, To
<1>9. From \in Name /\ To \in Name /\ From # To
  <2>1. /\ Stored(txn.index) \in Name /\ At(txn.target, txn.index) \in Name
        /\ Stored(txn.index) # At(txn.target, txn.index)
    BY <1>5, Names DEF Stored
  <2> QED
    BY <1>8, <2>1
<1>10. Kind(txn) = "move" => txn.target = "old"
  BY <1>1 DEF Sound
<1>11. ~Pausing
  BY <1>1, <1>2 DEF Pausing
<1> QED
  BY <1>2, <1>4, <1>5, <1>6, <1>7, <1>8, <1>9, <1>10, <1>11

(* A call is answered, or looked at: it changes nothing but the place of   *)
(* the thing that the step moves.                                          *)
LEMMA ActKeeps ==
  ASSUME IInv, pc \in {"execute", "reconcile", "answer"}, NEW next \in {"answer", "reconcile"},
         NEW c \in CallType, Goto(next, c), Steady \/ Fault, Quiet,
         UNCHANGED <<container, manifest>>, inside' \subseteq Folders,
         dir' \in [Name -> Object], ThingsAreKnown',
         \A j \in Items : dir'[Stored(j)].id = dir[Stored(j)].id \/ Moving(txn, j),
         Kind(txn) # "purge" => \A j \in Items : Safe(j)',
         Kind(txn) = "move" => \A j \in Items : dir'[At("other", j)].id = dir[At("other", j)].id,
         next = "answer" /\ c.verdict \in {"no_commit", "not_found"} => InPlace(txn, txn.index)',
         next = "answer" /\ c.verdict = "committed" =>
           (~EntryIsNext(txn) => Arrived(txn)') /\ (txn.step # "purge" => IsOfStep(c.object))
  PROVE  IInv'
<1>1. txn = journal.current /\ txn # NoTxn /\ report = "running" /\ Fits(txn)
  BY ActiveRecord
<1>2. txn.step # "none" /\ ~Pausing
  BY StepNames
<1>3. journal' = journal /\ txn' = txn /\ report' = report /\ pc' = next /\ call' = c
      /\ requests' = requests /\ faults' \in 0..MaxFaults /\ container' = container
      /\ manifest' = manifest /\ taken' = taken /\ meddling' = meddling
      /\ disturbed' = disturbed
  BY TrashAssumption DEF Goto, Quiet, others, Steady, Fault, IInv, Types
<1>4. Types'
  BY <1>3 DEF IInv, Types
<1>5. Recorded(journal.current)' /\ Recorded(journal.previous)'
  BY <1>3 DEF IInv, Recorded
<1>6. Fits(txn)'
  <2>1. Placed(txn)'
    BY <1>1, <1>3 DEF Fits, Placed, InPlace, Moving, EntryIsNext, Located
  <2>2. ManifestFits(txn)'
    BY <1>1, <1>3 DEF Fits, ManifestFits, Located
  <2>3. NothingLost(txn)'
    BY <1>1, <1>3 DEF Fits, NothingLost
  <2> QED
    BY <2>1, <2>2, <2>3 DEF Fits
<1>7. RecordsFit'
  BY <1>1, <1>2, <1>3, <1>6 DEF IInv, RecordsFit, Pausing
<1>8. AtRest' /\ OutcomeIsTrue'
  BY <1>1, <1>3 DEF AtRest, OutcomeIsTrue
<1>9. WorkerFollows'
  BY <1>1, <1>2, <1>3 DEF WorkerFollows, EntryIsNext, IsOfStep
<1> QED
  BY <1>4, <1>5, <1>7, <1>8, <1>9 DEF IInv

(* The same when it changes nothing. *)
LEMMA LookingKeeps ==
  ASSUME IInv, pc \in {"execute", "reconcile", "answer"}, NEW next \in {"answer", "reconcile"},
         NEW c \in CallType, Goto(next, c), Steady \/ Fault, Quiet, UNCHANGED disk,
         next = "answer" /\ c.verdict \in {"no_commit", "not_found"} => InPlace(txn, txn.index),
         next = "answer" /\ c.verdict = "committed" =>
           (~EntryIsNext(txn) => Arrived(txn)) /\ (txn.step # "purge" => IsOfStep(c.object))
  PROVE  IInv'
<1>1. txn' = txn /\ dir' = dir /\ manifest' = manifest /\ container' = container
      /\ inside' = inside /\ taken' = taken /\ meddling' = meddling /\ disturbed' = disturbed
  BY DEF Goto, disk, Quiet, others
<1>2. ThingsAreKnown' /\ inside' \subseteq Folders /\ dir' \in [Name -> Object]
  BY <1>1 DEF IInv, ThingsAreKnown, Types
<1>3. Kind(txn) # "purge" => \A j \in Items : Safe(j)'
  BY <1>1, ActiveRecord DEF Fits, NothingLost, Safe
<1>4. /\ InPlace(txn, txn.index) => InPlace(txn, txn.index)'
      /\ Arrived(txn) => Arrived(txn)'
  BY <1>1 DEF InPlace, Located, Arrived
<1> QED
  BY <1>1, <1>2, <1>3, <1>4, ActKeeps

LEMMA Verdicts ==
  ASSUME IInv, pc = "execute"
  PROVE  /\ Verdict \in {"committed", "not_found", "no_commit"}
         /\ Verdict = "committed" /\ ~EntryIsNext(txn) =>
              /\ dir[From] = Expected \/ dir[From].id = Expected.id
              /\ txn.step = "purge" \/ dir[To] = Nothing
<1> DEFINE Well == Matches(dir[From], Expected) /\ (txn.step = "purge" \/ dir[To] = Nothing)
<1>0. dir[From] = Nothing => ~Well
  BY StepNames, Names DEF Matches
<1>1. CASE EntryIsNext(txn)
  BY <1>1 DEF Verdict
<1>2. CASE ~EntryIsNext(txn) /\ dir[From] = Nothing
  <2>1. Verdict = "not_found"
    BY <1>0, <1>2 DEF Verdict
  <2> QED
    BY <2>1
<1>3. CASE ~EntryIsNext(txn) /\ dir[From] # Nothing
  <2>1. CASE Well
    <3>1. Verdict = "committed"
      BY <1>3, <2>1 DEF Verdict
    <3> QED
      BY <2>1, <3>1 DEF Matches
  <2>2. CASE ~Well
    <3>1. Verdict = "no_commit"
      BY <1>3, <2>2 DEF Verdict
    <3> QED
      BY <3>1
  <2> QED
    BY <2>1, <2>2
<1> QED
  BY <1>1, <1>2, <1>3

(* What the call does if it is made while the thing is in place.           *)
LEMMA Effects ==
  ASSUME IInv, pc = "execute", Effect, UNCHANGED <<manifest, meddling, taken, disturbed>>
  PROVE  /\ dir' \in [Name -> Object] /\ ThingsAreKnown' /\ inside' \subseteq Folders
         /\ \A j \in Items : dir'[Stored(j)].id = dir[Stored(j)].id \/ Moving(txn, j)
         /\ Kind(txn) # "purge" => \A j \in Items : Safe(j)'
         /\ Kind(txn) = "move" =>
              \A j \in Items : dir'[At("other", j)].id = dir[At("other", j)].id
         /\ Verdict # "committed" => dir' = dir
         /\ Verdict = "committed" =>
              /\ ~EntryIsNext(txn) =>
                   dir'[Stored(txn.index)].id = (IF txn.step = "store" THEN txn.index ELSE 0)
              /\ txn.step # "purge" => IsOfStep(Renamed) /\ Renamed \in Object
<1> DEFINE k == txn.index
<1>1. txn.step \in {"store", "restore", "purge"} /\ k \in Items
  BY StepNames
<1>2. dir \in [Name -> Object] /\ ThingsAreKnown /\ inside \subseteq Folders
      /\ (Kind(txn) # "purge" => \A j \in Items : Safe(j))
  BY ActiveRecord DEF IInv, Types, Fits, NothingLost
<1>3. CASE dir' = dir /\ (Verdict # "committed" \/ EntryIsNext(txn)) /\ inside' \subseteq inside
  <2>1. EntryIsNext(txn) => txn.step = "purge"
    BY DEF EntryIsNext
  <2>2. ThingsAreKnown' /\ \A j : Safe(j) => Safe(j)'
    BY <1>2, <1>3 DEF ThingsAreKnown, Safe
  <2> QED
    BY <1>2, <1>3, <2>1, <2>2
<1>4. CASE Verdict = "committed" /\ ~EntryIsNext(txn) /\ txn.step = "purge"
           /\ dir' = [dir EXCEPT ![From] = Nothing] /\ UNCHANGED inside
  <2>1. From = Stored(k) /\ From \in Name /\ Kind(txn) = "purge"
    BY <1>4, StepNames, Kinds
  <2>2. /\ dir'[From] = Nothing /\ dir' \in [Name -> Object]
        /\ \A n \in Name : n # From => dir'[n] = dir[n]
    BY <1>2, <1>4, <2>1, Names
  <2>3. \A n \in Name :
          dir'[n] = dir[n] \/ (dir'[n] = Nothing /\ dir'[n].id = 0 /\ dir'[n].size = "same")
    BY <2>2, Names
  <2>4. ThingsAreKnown'
    <3>1. \A n \in Name : dir'[n].id <= Count + meddling /\ (dir'[n].id = 0 => dir'[n] = Nothing)
      BY <1>2, <2>3, TrashAssumption DEF ThingsAreKnown, IInv, Types
    <3>2. \A n, m \in Name : dir'[n].id = dir'[m].id /\ dir'[n].id # 0 => n = m
      BY <1>2, <2>3 DEF ThingsAreKnown
    <3>3. \A j \in Items : dir'[Stored(j)].id \in {0, j}
      BY <1>2, <2>3, Names DEF ThingsAreKnown, Stored
    <3>4. ~disturbed => \A n \in Name : dir'[n].size = "same"
      BY <1>2, <2>3 DEF ThingsAreKnown
    <3> QED
      BY <1>2, <3>1, <3>2, <3>3, <3>4 DEF ThingsAreKnown
  <2>5. \A j \in Items : j # k => dir'[Stored(j)] = dir[Stored(j)]
    BY <1>1, <2>1, <2>2, Names DEF Stored
  <2>6. \A j \in Items : dir'[Stored(j)].id = dir[Stored(j)].id \/ Moving(txn, j)
    BY <1>1, <1>4, <2>5 DEF Moving
  <2>7. dir'[Stored(k)].id = 0
    BY <2>1, <2>2, Names
  <2> QED
    BY <1>2, <1>4, <2>1, <2>2, <2>4, <2>6, <2>7
<1>5. CASE Verdict = "committed" /\ ~EntryIsNext(txn) /\ txn.step # "purge"
           /\ dir' = [dir EXCEPT ![To] = Renamed, ![From] = Nothing] /\ UNCHANGED inside
  <2>1. /\ From \in Name /\ To \in Name /\ From # To /\ Expected.id = k /\ k # 0
        /\ {From, To} = {Stored(k), At(txn.target, k)} /\ (To = Stored(k) <=> txn.step = "store")
        /\ txn.target \in {"old", "other"} /\ (Kind(txn) = "move" => txn.target = "old")
    BY <1>1, <1>5, StepNames, Names DEF Stored
  <2>2. dir[From].id = k /\ dir[To] = Nothing
    BY <1>5, <2>1, Verdicts
  <2>3. Renamed.id = k /\ Renamed \in Object /\ Renamed.size = dir[From].size
    BY <1>2, <2>1, <2>2 DEF Renamed, Object
  <2>4. /\ dir'[To] = Renamed /\ dir'[From] = Nothing /\ dir' \in [Name -> Object]
        /\ \A n \in Name : n \notin {From, To} => dir'[n] = dir[n]
    BY <1>2, <1>5, <2>1, <2>3, Names
  <2>5. \A j \in Items : \A w : j # k => At(w, j) \notin {From, To}
    BY <1>1, <2>1, Names DEF Stored
  <2>6. \A j \in Items, w \in {"old", "other", "stored"} : j # k => dir'[At(w, j)] = dir[At(w, j)]
    BY <2>4, <2>5, Names
  <2>7. ThingsAreKnown'
    <3>1. \A n \in Name : dir'[n].id <= Count + meddling /\ (dir'[n].id = 0 => dir'[n] = Nothing)
      BY <1>2, <2>1, <2>2, <2>3, <2>4, Names DEF ThingsAreKnown
    <3>2. \A n \in Name : dir'[n].id = k <=> n = To
      BY <1>2, <2>1, <2>2, <2>3, <2>4, Names DEF ThingsAreKnown
    <3>3. \A n, m \in Name : dir'[n].id = dir'[m].id /\ dir'[n].id # 0 => n = m
      BY <1>2, <2>1, <2>4, <3>2, Names DEF ThingsAreKnown
    <3>4. ASSUME NEW j \in Items
          PROVE  dir'[Stored(j)].id \in {0, j}
      <4>1. CASE j = k
        BY <2>1, <2>3, <2>4, <4>1, Names
      <4>2. CASE j # k
        BY <1>2, <2>6, <4>2 DEF ThingsAreKnown, Stored
      <4> QED
        BY <4>1, <4>2
    <3>5. ~disturbed => \A n \in Name : dir'[n].size = "same"
      BY <1>2, <2>1, <2>3, <2>4, Names DEF ThingsAreKnown
    <3> QED
      BY <1>2, <3>1, <3>3, <3>4, <3>5 DEF ThingsAreKnown
  <2>8. ASSUME NEW j \in Items, Safe(j)
        PROVE  Safe(j)'
    <3>1. CASE j = k
      <4>1. To \in {At(w, k) : w \in {"old", "other", "stored"}}
        BY <2>1 DEF Stored
      <4> QED
        BY <2>3, <2>4, <3>1, <4>1 DEF Safe
    <3>2. CASE j # k
      BY <2>6, <2>8, <3>2 DEF Safe
    <3> QED
      BY <3>1, <3>2
  <2>9. Kind(txn) = "move" => \A j \in Items : dir'[At("other", j)] = dir[At("other", j)]
    BY <1>1, <2>1, <2>4, Names, SMTT(40) DEF Stored
  <2>10. \A j \in Items : dir'[Stored(j)].id = dir[Stored(j)].id \/ Moving(txn, j)
    BY <1>1, <1>5, <2>6 DEF Moving, Stored
  <2>11. dir'[Stored(k)].id = IF txn.step = "store" THEN k ELSE 0
    <3>1. CASE txn.step = "store"
      BY <2>1, <2>3, <2>4, <3>1
    <3>2. CASE txn.step # "store"
      BY <2>1, <2>4, <3>2, Names, SMTT(40)
    <3> QED
      BY <3>1, <3>2
  <2>12. IsOfStep(Renamed)
    BY <1>2, <2>1, <2>3 DEF IsOfStep, ThingsAreKnown
  <2> QED
    BY <1>2, <1>5, <2>3, <2>4, <2>7, <2>8, <2>9, <2>10, <2>11, <2>12
<1> QED
  <2>1. CASE Verdict # "committed"
    BY <1>3, <2>1 DEF Effect
  <2>2. CASE Verdict = "committed" /\ EntryIsNext(txn)
    <3>1. txn.step = "purge"
      BY <2>2 DEF EntryIsNext
    <3>2. inside' = inside \ {txn.index} /\ dir' = dir
      BY <2>2, <3>1 DEF Effect
    <3> QED
      BY <1>3, <2>2, <3>2
  <2>3. CASE Verdict = "committed" /\ ~EntryIsNext(txn) /\ txn.step = "purge"
    BY <1>4, <2>3 DEF Effect
  <2>4. CASE Verdict = "committed" /\ ~EntryIsNext(txn) /\ txn.step # "purge"
    BY <1>5, <2>4 DEF Effect
  <2> QED
    BY <2>1, <2>2, <2>3, <2>4

LEMMA ExecuteKeeps ==
  ASSUME IInv, Execute
  PROVE  IInv'
<1>1. pc = "execute" /\ UNCHANGED <<container, manifest>> /\ Quiet
      /\ UNCHANGED <<manifest, meddling, taken, disturbed>>
  BY DEF Execute, Quiet, others
<1>2. InPlace(txn, txn.index)
  BY <1>1 DEF IInv, WorkerFollows
<1>3. CASE Effect /\ Steady
           /\ Goto("answer", [NoCall EXCEPT !.verdict = Verdict, !.object = Renamed])
  <2> DEFINE c == [NoCall EXCEPT !.verdict = Verdict, !.object = Renamed]
  <2>1. Renamed \in Object
    <3>1. From \in Name /\ dir[From] \in Object
      BY <1>1, StepNames DEF IInv, Types
    <3> QED
      BY <3>1 DEF Renamed, Object
  <2>2. c \in CallType /\ c.verdict = Verdict /\ c.object = Renamed
    BY <1>1, <2>1, Verdicts DEF CallType, NoCall
  <2> HIDE DEF c
  <2>3. Verdict \in {"no_commit", "not_found"} => InPlace(txn, txn.index)'
    BY <1>1, <1>2, <1>3, Effects DEF InPlace, Located, Goto
  <2>4. Verdict = "committed" => (~EntryIsNext(txn) => Arrived(txn)')
    BY <1>1, <1>3, Effects DEF Arrived, Goto
  <2>5. Verdict = "committed" => (txn.step # "purge" => IsOfStep(c.object))
    BY <1>1, <1>3, <2>2, Effects
  <2>6. Goto("answer", c)
    BY <1>3 DEF c
  <2> QED
    BY <1>1, <1>3, <2>2, <2>3, <2>4, <2>5, <2>6, Effects, ActKeeps
<1>4. CASE Fault /\ UNCHANGED <<dir, inside>>
           /\ Goto("answer", [NoCall EXCEPT !.verdict = "no_commit"])
  <2> DEFINE c == [NoCall EXCEPT !.verdict = "no_commit"]
  <2>1. c \in CallType /\ c.verdict = "no_commit"
    BY Names DEF CallType, NoCall
  <2>2. Goto("answer", c)
    BY <1>4
  <2> HIDE DEF c
  <2>3. UNCHANGED disk
    BY <1>1, <1>4 DEF disk
  <2> QED
    BY <1>1, <1>2, <1>4, <2>1, <2>2, <2>3, LookingKeeps
<1>5. CASE Fault /\ Effect /\ Goto("reconcile", NoCall)
  BY <1>1, <1>5, Kinds, Effects, ActKeeps
<1>6. CASE Fault /\ UNCHANGED <<dir, inside>> /\ Goto("reconcile", NoCall)
  <2>1. UNCHANGED disk
    BY <1>1, <1>6 DEF disk
  <2> QED
    BY <1>1, <1>6, <2>1, Kinds, LookingKeeps
<1> QED
  BY <1>3, <1>4, <1>5, <1>6 DEF Execute

(* What a look at the names tells of the step.                             *)
LEMMA ReconcileKeeps ==
  ASSUME IInv, Reconcile
  PROVE  IInv'
<1> DEFINE k == txn.index
<1>1. pc = "reconcile" /\ UNCHANGED disk /\ Quiet /\ call \in CallType
  BY DEF Reconcile, IInv, Types
<1>2. /\ txn.step \in {"store", "restore", "purge"} /\ k \in Items /\ k \in DOMAIN txn.items
      /\ Expected.id = k /\ From \in Name /\ To \in Name /\ From # To /\ k # 0
      /\ txn.step = "store" => To = Stored(k) /\ txn.items[k].at = "source"
      /\ txn.step # "store" => From = Stored(k) /\ txn.items[k].at = "stored"
  BY <1>1, StepNames, Names
<1>3. k \in Located(txn, "stored") <=> txn.step # "store"
  BY <1>2 DEF Located
<1>4. /\ \A n \in Name : dir[n].id = 0 <=> dir[n] = Nothing
      /\ \A n, m \in Name : dir[n].id = dir[m].id /\ dir[n].id # 0 => n = m
      /\ dir[Stored(k)].id \in {0, k}
  BY <1>2, Names DEF IInv, ThingsAreKnown
<1>5. CASE Goto("answer", [call EXCEPT !.verdict = "none"]) /\ Fault
  <2> DEFINE c == [call EXCEPT !.verdict = "none"]
  <2>1. c \in CallType /\ c.verdict = "none"
    BY <1>1 DEF CallType
  <2>2. Goto("answer", c)
    BY <1>5
  <2> HIDE DEF c
  <2> QED
    BY <1>1, <1>5, <2>1, <2>2, LookingKeeps
<1>6. CASE txn.step = "purge" /\ Goto("answer", [call EXCEPT !.verdict = ReconciledPurge])
           /\ Steady
  <2> DEFINE c == [call EXCEPT !.verdict = ReconciledPurge]
  <2>1. /\ ReconciledPurge \in {"committed", "no_commit"}
        /\ ~EntryIsNext(txn) =>
             (ReconciledPurge = "committed" <=> dir[Stored(k)] = Nothing)
    BY <1>2, <1>6 DEF ReconciledPurge
  <2>2. c \in CallType /\ c.verdict = ReconciledPurge
    BY <1>1, <2>1 DEF CallType
  <2>3. Goto("answer", c)
    BY <1>6
  <2> HIDE DEF c
  <2>4. ReconciledPurge = "committed" => (~EntryIsNext(txn) => Arrived(txn))
    BY <1>2, <1>6, <2>1, Names DEF Arrived
  <2>5. ReconciledPurge = "no_commit" => InPlace(txn, k)
    <3>1. CASE EntryIsNext(txn)
      BY <1>1, <1>2, <3>1, ActiveRecord DEF Fits, Placed, Moving
    <3>2. CASE ~EntryIsNext(txn)
      <4>1. Stored(k) \in Name
        BY <1>2, Names DEF Stored
      <4> QED
        BY <1>3, <1>4, <1>6, <2>1, <3>2, <4>1 DEF InPlace
    <3> QED
      BY <3>1, <3>2
  <2> QED
    BY <1>1, <1>6, <2>1, <2>2, <2>3, <2>4, <2>5, LookingKeeps
<1>7. CASE txn.step # "purge" /\ Steady
           /\ Goto("answer", [call EXCEPT !.verdict = ReconciledRename, !.object = dir[To]])
  <2> DEFINE c == [call EXCEPT !.verdict = ReconciledRename, !.object = dir[To]]
  <2>1. /\ ReconciledRename \in {"committed", "no_commit", "none"}
        /\ ReconciledRename = "committed" => dir[To].id = k
        /\ ReconciledRename = "no_commit" => dir[To].id # k /\ dir[From].id = k
    <3>1. CASE dir[To].id = k
      BY <1>2, <3>1 DEF ReconciledRename
    <3>2. CASE dir[To].id # k /\ dir[From].id = k
      BY <1>2, <3>2 DEF ReconciledRename
    <3>3. CASE dir[To].id # k /\ dir[From].id # k
      BY <1>2, <3>3 DEF ReconciledRename
    <3> QED
      BY <3>1, <3>2, <3>3
  <2>2. c \in CallType /\ c.verdict = ReconciledRename /\ c.object = dir[To]
    <3>1. dir[To] \in Object
      BY <1>2 DEF IInv, Types
    <3> QED
      BY <1>1, <2>1, <3>1 DEF CallType
  <2>3. Goto("answer", c)
    BY <1>7
  <2> HIDE DEF c
  <2>4. dir[To].id = k => Arrived(txn)
    BY <1>2, <1>4, <1>7, Names DEF Arrived
  <2>5. dir[To].id # k /\ dir[From].id = k => InPlace(txn, k)
    BY <1>2, <1>3, <1>4, <1>7 DEF InPlace
  <2>6. dir[To].id = k => IsOfStep(c.object)
    BY <1>2, <2>2 DEF IsOfStep, IInv, ThingsAreKnown
  <2> QED
    BY <1>1, <1>7, <2>1, <2>2, <2>3, <2>4, <2>5, <2>6, LookingKeeps
<1> QED
  BY <1>5, <1>6, <1>7 DEF Reconcile

-----------------------------------------------------------------------------
(* The answer is recorded.                                                 *)

(* What apply_success makes of a record: nothing but the item of the step  *)
(* is changed.                                                             *)
IsApplied(u, t, object) ==
  /\ u \in Transactions /\ u.step = "none" /\ u.index = 0
  /\ u.phase = t.phase /\ u.target = t.target /\ DOMAIN u.items = DOMAIN t.items
  /\ \A i \in DOMAIN t.items : i # t.index => u.items[i] = t.items[i]
  /\ EntryIsNext(t) => u.items[t.index] = [t.items[t.index] EXCEPT !.cursor = 1]
  /\ ~EntryIsNext(t) =>
       u.items[t.index] =
         IF t.step = "purge" THEN [t.items[t.index] EXCEPT !.at = "deleted", !.cursor = 0]
         ELSE [t.items[t.index] EXCEPT !.at = (IF t.step = "store" THEN "stored" ELSE "source"),
                                       !.snapshot = object]

LEMMA AppliedRecord ==
  ASSUME NEW t \in Transactions, t.index \in DOMAIN t.items,
         t.step \in {"store", "restore", "purge"}, NEW object \in Object,
         NEW u, u = Applied(t, object)
  PROVE  IsApplied(u, t, object)
<1> DEFINE k == t.index
           old == t.items[k]
<1>1. t.items \in [DOMAIN t.items -> ItemType] /\ DOMAIN t.items \subseteq Items
      /\ old \in ItemType
  BY RecordTypes
<1>2. PICK D \in SUBSET Items : t.items \in [D -> ItemType] /\ D = DOMAIN t.items
  BY <1>1
<1>3. ASSUME NEW it \in ItemType, u = [ClearActive(t) EXCEPT !.items[k] = it]
      PROVE  /\ u \in Transactions /\ u.step = "none" /\ u.index = 0
             /\ u.phase = t.phase /\ u.target = t.target /\ DOMAIN u.items = DOMAIN t.items
             /\ \A i \in DOMAIN t.items : i # k => u.items[i] = t.items[i]
             /\ u.items[k] = it
  <2>1. u = [phase |-> t.phase, step |-> "none", index |-> 0, target |-> t.target,
             items |-> [t.items EXCEPT ![k] = it]]
    BY <1>3 DEF ClearActive, Transactions
  <2>2. [t.items EXCEPT ![k] = it] \in [D -> ItemType]
    BY <1>2
  <2>3. u \in Transactions
    BY <2>1, <2>2, Names DEF Transactions
  <2> QED
    BY <1>2, <2>1, <2>3
<1>4. CASE EntryIsNext(t)
  <2>1. t.step = "purge"
    BY <1>4 DEF EntryIsNext
  <2>2. u = [ClearActive(t) EXCEPT !.items[k] = [@ EXCEPT !.cursor = 1]]
    BY <1>4, <2>1 DEF Applied
  <2>3. u = [ClearActive(t) EXCEPT !.items[k] = [old EXCEPT !.cursor = 1]]
    BY <2>2 DEF ClearActive, Transactions
  <2>4. [old EXCEPT !.cursor = 1] \in ItemType
    BY <1>1 DEF ItemType
  <2> QED
    BY <1>3, <1>4, <2>3, <2>4 DEF IsApplied
<1>5. CASE ~EntryIsNext(t) /\ t.step = "purge"
  <2>1. u = [ClearActive(t) EXCEPT !.items[k] = [@ EXCEPT !.at = "deleted", !.cursor = 0]]
    BY <1>5 DEF Applied
  <2>2. u = [ClearActive(t) EXCEPT !.items[k] = [old EXCEPT !.at = "deleted", !.cursor = 0]]
    BY <2>1 DEF ClearActive, Transactions
  <2>3. [old EXCEPT !.at = "deleted", !.cursor = 0] \in ItemType
    BY <1>1 DEF ItemType
  <2> QED
    BY <1>3, <1>5, <2>2, <2>3 DEF IsApplied
<1>6. CASE t.step = "store"
  <2>1. ~EntryIsNext(t)
    BY <1>6 DEF EntryIsNext
  <2>2. u = [ClearActive(t) EXCEPT !.items[k] = [@ EXCEPT !.at = "stored", !.snapshot = object]]
    BY <1>6, <2>1 DEF Applied
  <2>3. u = [ClearActive(t) EXCEPT !.items[k] = [old EXCEPT !.at = "stored", !.snapshot = object]]
    BY <2>2 DEF ClearActive, Transactions
  <2>4. [old EXCEPT !.at = "stored", !.snapshot = object] \in ItemType
    BY <1>1 DEF ItemType
  <2> QED
    BY <1>3, <1>6, <2>1, <2>3, <2>4 DEF IsApplied
<1>7. CASE t.step = "restore"
  <2>1. ~EntryIsNext(t)
    BY <1>7 DEF EntryIsNext
  <2>2. u = [ClearActive(t) EXCEPT !.items[k] = [@ EXCEPT !.at = "source", !.snapshot = object]]
    BY <1>7, <2>1 DEF Applied
  <2>3. u = [ClearActive(t) EXCEPT !.items[k] = [old EXCEPT !.at = "source", !.snapshot = object]]
    BY <2>2 DEF ClearActive, Transactions
  <2>4. [old EXCEPT !.at = "source", !.snapshot = object] \in ItemType
    BY <1>1 DEF ItemType
  <2> QED
    BY <1>3, <1>7, <2>1, <2>3, <2>4 DEF IsApplied
<1> QED
  BY <1>4, <1>5, <1>6, <1>7

LEMMA RecordSuccessKeeps ==
  ASSUME IInv, RecordSuccess
  PROVE  IInv'
<1> DEFINE k == txn.index
           t == Applied(txn, call.object)
<1>1. pc = "answer" /\ call.verdict = "committed" /\ UNCHANGED disk /\ Quiet /\ Steady
      /\ Record(t, "loop")
  BY DEF RecordSuccess, Answer
<1>2. Sound(txn) /\ Fits(txn) /\ txn \in Transactions
  BY <1>1, ActiveRecord
<1>3. /\ txn.step \in {"store", "restore", "purge"} /\ k \in Items /\ k \in DOMAIN txn.items
      /\ call.object \in Object
      /\ txn.step # "purge" => IsOfStep(call.object) /\ call.object.id = k /\ Kind(txn) # "purge"
      /\ ~EntryIsNext(txn) => Arrived(txn)
  BY <1>1, StepNames DEF IInv, Types, CallType, WorkerFollows, IsOfStep
<1>4. txn.items[k] \in ItemType
  BY <1>2, <1>3, RecordTypes
<1>5. t = Applied(txn, call.object)
  OBVIOUS
<1> HIDE DEF t
<1>6. IsApplied(t, txn, call.object)
  BY <1>2, <1>3, <1>5, AppliedRecord
<1>7. /\ t \in Transactions /\ t.step = "none" /\ t.index = 0
      /\ t.phase = txn.phase /\ t.target = txn.target /\ DOMAIN t.items = DOMAIN txn.items
      /\ \A i \in DOMAIN txn.items : i # k => t.items[i] = txn.items[i]
  BY <1>6 DEF IsApplied
<1>8. EntryIsNext(txn) => txn.step = "purge"
  BY DEF EntryIsNext
<1>9. /\ txn.step = "store" => txn.phase \in {"moving", "cancel_remaining_intent", "restore_rollback"}
      /\ txn.step = "restore" => txn.phase \in {"rollback", "cancel_remaining_intent", "restoring"}
      /\ txn.step = "purge" => txn.phase = "purging"
      /\ txn.step # "store" => txn.items[k].at = "stored"
  BY <1>1, StepNames
<1>10. /\ t.items[k].at = (IF txn.step = "store" \/ EntryIsNext(txn) THEN "stored"
                           ELSE IF txn.step = "restore" THEN "source" ELSE "deleted")
       /\ t.items[k].snapshot.id = k
       /\ txn.step # "purge" => t.items[k].cursor = txn.items[k].cursor
       /\ t.items[k].cursor # 0 => t.items[k].at = "stored" \/ txn.step # "purge"
  <2>1. txn.items[k].snapshot.id = k
    BY <1>2, <1>3 DEF Sound
  <2>2. CASE EntryIsNext(txn)
    BY <1>4, <1>6, <1>8, <1>9, <2>1, <2>2 DEF IsApplied, ItemType
  <2>3. CASE ~EntryIsNext(txn) /\ txn.step = "purge"
    BY <1>4, <1>6, <2>1, <2>3 DEF IsApplied, ItemType
  <2>4. CASE ~EntryIsNext(txn) /\ txn.step # "purge"
    BY <1>3, <1>4, <1>6, <2>4 DEF IsApplied, ItemType
  <2> QED
    BY <2>2, <2>3, <2>4
<1>11. Kind(t) = Kind(txn)
  BY <1>7 DEF Kind
<1>12. t.items[k].snapshot = IF txn.step = "purge" THEN txn.items[k].snapshot ELSE call.object
  <2>1. CASE txn.step = "purge"
    BY <1>4, <1>6, <2>1 DEF IsApplied, ItemType
  <2>2. CASE txn.step # "purge"
    BY <1>4, <1>6, <1>8, <2>2 DEF IsApplied, ItemType
  <2> QED
    BY <2>1, <2>2
<1>13. ASSUME txn.step = "purge" \/ call.object.size = "same"
       PROVE  Sound(t)
  <2>1. \A i \in DOMAIN t.items : t.items[i].snapshot.id = i
    BY <1>2, <1>7, <1>10 DEF Sound
  <2>2. Kind(t) # "purge" => \A i \in DOMAIN t.items : t.items[i].cursor = 0
    <3>1. Kind(t) # "purge" => txn.step # "purge"
      BY <1>9, <1>11, Kinds
    <3> QED
      BY <1>2, <1>3, <1>7, <1>10, <1>11, <3>1 DEF Sound
  <2>3. t.items[k].at \in Allowed(t.phase)
    <3>1. CASE txn.step = "store"
      BY <1>7, <1>9, <1>10, <3>1 DEF Allowed
    <3>2. CASE txn.step = "restore"
      BY <1>7, <1>8, <1>9, <1>10, <3>2 DEF Allowed
    <3>3. CASE txn.step = "purge"
      BY <1>7, <1>9, <1>10, <3>3 DEF Allowed
    <3> QED
      BY <1>3, <3>1, <3>2, <3>3
  <2>4. \A i \in DOMAIN t.items :
          t.items[i].at \in Allowed(t.phase) /\ (t.items[i].cursor # 0 => t.items[i].at = "stored")
    <3>1. t.items[k].cursor # 0 => t.items[k].at = "stored"
      BY <1>3, <1>7, <1>10, <1>11, <2>2
    <3> QED
      BY <1>2, <1>7, <2>3, <3>1 DEF Sound, Valid
  <2>5. \A i \in DOMAIN t.items : t.items[i].snapshot.size = "same"
    <3>1. \A i \in DOMAIN txn.items : txn.items[i].snapshot.size = "same"
      BY <1>2 DEF Sound, Valid
    <3> QED
      BY <1>3, <1>7, <1>12, <1>13, <3>1
  <2>6. Valid(t)
    BY <1>7, <2>1, <2>4, <2>5 DEF Valid, StepMatchesPhase
  <2> QED
    BY <1>2, <1>7, <1>11, <2>1, <2>2, <2>6 DEF Sound
<1>14. Placed(t)
  <2>1. SUFFICES ASSUME NEW i \in Items
                 PROVE  InPlace(t, i)
    BY DEF Placed
  <2>2. CASE i # k
    <3>1. InPlace(txn, i)
      BY <1>2, <2>2 DEF Fits, Placed, Moving
    <3>2. i \in Located(t, "stored") <=> i \in Located(txn, "stored")
      BY <1>7, <2>2 DEF Located
    <3> QED
      BY <3>1, <3>2 DEF InPlace
  <2>3. CASE i = k /\ EntryIsNext(txn)
    <3>1. InPlace(txn, k)
      BY <1>2, <1>3, <2>3 DEF Fits, Placed, Moving
    <3>2. k \in Located(t, "stored") /\ k \in Located(txn, "stored")
      BY <1>3, <1>7, <1>8, <1>9, <1>10, <2>3 DEF Located
    <3> QED
      BY <2>3, <3>1, <3>2 DEF InPlace
  <2>4. CASE i = k /\ ~EntryIsNext(txn)
    <3>1. k \in Located(t, "stored") <=> txn.step = "store"
      BY <1>3, <1>7, <1>10, <2>4 DEF Located
    <3> QED
      BY <1>3, <2>4, <3>1 DEF InPlace, Arrived
  <2> QED
    BY <2>2, <2>3, <2>4
<1>15. ManifestFits(t)
  BY <1>2, <1>3, <1>7, <1>9 DEF Fits, ManifestFits, Unlisted, Listed, Changing
<1>16. Fits(t)
  BY <1>2, <1>7, <1>11, <1>14, <1>15 DEF Fits, NothingLost
<1>17. CASE txn.step = "purge" \/ call.object.size = "same"
  BY <1>1, <1>7, <1>11, <1>13, <1>16, <1>17, RecordKeeps
<1>18. CASE txn.step # "purge" /\ call.object.size # "same"
  <2>1. ~Valid(t)
    BY <1>3, <1>7, <1>12, <1>18 DEF Valid
  <2>2. EndRun("record_rejected") /\ UNCHANGED journal
    BY <1>1, <2>1 DEF Record, Writes
  <2>3. Refusing /\ journal.current # NoTxn
    BY <1>1, <1>3, <1>18, ActiveRecord DEF Refusing, IsOfStep
  <2> QED
    BY <1>1, <2>2, <2>3, EndKeeps
<1> QED
  BY <1>17, <1>18

LEMMA LookAgainKeeps ==
  ASSUME IInv, LookAgain
  PROVE  IInv'
<1>1. pc = "answer" /\ UNCHANGED disk /\ Quiet /\ Goto("reconcile", call) /\ Steady
      /\ call \in CallType
  BY DEF LookAgain, Answer, IInv, Types
<1> QED
  BY <1>1, LookingKeeps

(* A step that was not made is set aside, and the operation may turn       *)
(* around.                                                                 *)
LEMMA TurningAround ==
  ASSUME IInv, pc = "answer", call.verdict \in {"no_commit", "not_found"},
         NEW t, t = TurnedAround(txn)
  PROVE  Sound(t) /\ Fits(t) /\ t.step = "none" /\ Kind(t) = Kind(txn)
<1>1. Sound(txn) /\ Fits(txn) /\ txn \in Transactions /\ InPlace(txn, txn.index) /\ Valid(txn)
  BY ActiveRecord DEF IInv, WorkerFollows, Sound
<1>2. /\ txn.step = "store" => txn.phase \in {"moving", "cancel_remaining_intent", "restore_rollback"}
      /\ txn.step = "restore" => txn.phase \in {"rollback", "cancel_remaining_intent", "restoring"}
      /\ txn.step = "purge" => txn.phase = "purging"
      /\ txn.step \in {"store", "restore", "purge"}
  BY StepNames
<1>3. PICK phase \in Phase :
        /\ t = [ClearActive(txn) EXCEPT !.phase = phase]
        /\ \/ phase = txn.phase
           \/ phase = "rollback" /\ txn.phase = "moving"
           \/ phase = "restore_rollback" /\ txn.phase = "restoring"
  <2>1. CASE txn.phase = "moving" /\ txn.step = "store"
    <3>1. t = [ClearActive(txn) EXCEPT !.phase = "rollback"]
      BY <2>1 DEF TurnedAround
    <3> QED
      BY <2>1, <3>1 DEF Phase
  <2>2. CASE txn.phase = "restoring" /\ txn.step = "restore"
    <3>1. t = [ClearActive(txn) EXCEPT !.phase = "restore_rollback"]
      BY <2>2 DEF TurnedAround
    <3> QED
      BY <2>2, <3>1 DEF Phase
  <2>3. CASE ~(txn.phase = "moving" /\ txn.step = "store")
             /\ ~(txn.phase = "restoring" /\ txn.step = "restore")
    <3>1. t = [ClearActive(txn) EXCEPT !.phase = txn.phase]
      BY <2>3 DEF TurnedAround
    <3> QED
      BY <1>1, <3>1 DEF Transactions
  <2> QED
    BY <2>1, <2>2, <2>3
<1>4. t \in Transactions /\ t.items = txn.items /\ t.target = txn.target
  BY <1>1, <1>3, Rewritten
<1>5. t.phase = phase /\ t.step = "none" /\ t.index = 0
  BY <1>1, <1>3 DEF ClearActive, Transactions
<1>6. Kind(t) = Kind(txn)
  <2>1. CASE phase = txn.phase
    BY <1>5, <2>1 DEF Kind
  <2>2. CASE phase # txn.phase
    BY <1>3, <1>4, <1>5, <2>2, Kinds DEF Transactions, Phase
  <2> QED
    BY <2>1, <2>2
<1>7. StepMatchesPhase(t)
  BY <1>5 DEF StepMatchesPhase
<1>8. \A i \in DOMAIN txn.items : txn.items[i].at \in Allowed(t.phase)
  <2>1. \A i \in DOMAIN txn.items : txn.items[i].at \in Allowed(txn.phase)
    BY <1>1 DEF Valid
  <2>2. Allowed(t.phase) = Allowed(txn.phase)
    BY <1>3, <1>5 DEF Allowed
  <2> QED
    BY <2>1, <2>2
<1>9. Valid(t)
  BY <1>1, <1>4, <1>7, <1>8, ValidAgain
<1>10. ManifestFits(t)
  <2>1. ManifestFits(txn)
    BY <1>1 DEF Fits
  <2> QED
    BY <1>2, <1>3, <1>4, <1>5, <2>1 DEF ManifestFits, Unlisted, Listed, Changing
<1>11. t.phase # "purged"
  BY <1>2, <1>3, <1>5
<1> QED
  BY <1>1, <1>4, <1>5, <1>6, <1>9, <1>10, <1>11, SameItems

LEMMA NotCommittedKeeps ==
  ASSUME IInv, NotCommitted
  PROVE  IInv'
<1> DEFINE t == TurnedAround(txn)
<1>1. pc = "answer" /\ call.verdict = "no_commit" /\ UNCHANGED disk /\ Quiet /\ Steady
      /\ (Record(t, "loop") \/ RecordAndEnd(t, "recovery_required"))
  BY DEF NotCommitted, Answer
<1>2. t = TurnedAround(txn)
  OBVIOUS
<1> HIDE DEF t
<1>3. Sound(t) /\ Fits(t) /\ t.step = "none" /\ Kind(t) = Kind(txn)
  BY <1>1, <1>2, TurningAround
<1> QED
  BY <1>1, <1>3, RecordKeeps, RecordAndEndKeeps DEF Broken

LEMMA StopAtMissingKeeps ==
  ASSUME IInv, StopAtMissing
  PROVE  IInv'
<1> DEFINE t == TurnedAround(txn)
<1>1. pc = "answer" /\ call.verdict = "not_found" /\ UNCHANGED disk /\ Quiet /\ Fault
      /\ RecordAndEnd(t, "interrupted")
  BY DEF StopAtMissing, Answer
<1>2. t = TurnedAround(txn)
  OBVIOUS
<1> HIDE DEF t
<1>3. Sound(t) /\ Fits(t) /\ Kind(t) = Kind(txn)
  BY <1>1, <1>2, TurningAround
<1> QED
  BY <1>1, <1>3, RecordAndEndKeeps DEF Broken

LEMMA UncertainKeeps ==
  ASSUME IInv, Uncertain
  PROVE  IInv'
<1>1. pc = "answer" /\ UNCHANGED disk /\ Quiet /\ Steady
      /\ RecordAndEnd(txn, "recovery_required")
  BY DEF Uncertain, Answer
<1>2. Sound(txn) /\ Fits(txn)
  BY <1>1, ActiveRecord
<1> QED
  BY <1>1, <1>2, RecordAndEndKeeps DEF Broken

-----------------------------------------------------------------------------
(* Other programs.                                                         *)

(* They remove, edit and put things, but not in the container, and what    *)
(* they remove is not missed.                                              *)
LEMMA AroundKeeps ==
  ASSUME IInv, UNCHANGED <<inside, manifest, journal, txn, pc, call, report, requests, faults>>,
         meddling' \in 0..MaxMeddling, container' \in {"absent", "present", "littered"},
         dir' \in [Name -> Object], ThingsAreKnown',
         container = "absent" => container' = "absent",
         \A i \in Items : dir'[Stored(i)].id = dir[Stored(i)].id,
         \A i \in Items : dir'[At("other", i)].id = i => dir[At("other", i)].id = i,
         taken \subseteq taken', disturbed => disturbed',
         \A i \in Items, w \in {"old", "other"} :
           dir[At(w, i)].id = i => dir'[At(w, i)].id = i \/ i \in taken'
  PROVE  IInv'
<1>1. Types'
  BY DEF IInv, Types
<1>2. Recorded(journal.current)' /\ Recorded(journal.previous)'
  BY DEF IInv, Recorded
<1>3. \A i \in Items : Safe(i) => Safe(i)'
  <2>1. ASSUME NEW i \in Items, Safe(i)
        PROVE  Safe(i)'
    <3>1. CASE i \in taken
      BY <3>1 DEF Safe
    <3>2. CASE dir[At("stored", i)].id = i
      BY <3>2 DEF Safe, Stored
    <3>3. CASE \E w \in {"old", "other"} : dir[At(w, i)].id = i
      BY <3>3 DEF Safe
    <3> QED
      BY <2>1, <3>1, <3>2, <3>3 DEF Safe
  <2> QED
    BY <2>1
<1>4. \A i \in Items, w \in {"old", "other"} : Here(w, i) => Here(w, i)'
  BY DEF Here
<1>5. InTrash' = InTrash
  <2>1. \A i \in Items : /\ dir[Stored(i)] = Nothing <=> dir[Stored(i)].id = 0
                         /\ dir'[Stored(i)] = Nothing <=> dir'[Stored(i)].id = 0
    BY Names DEF IInv, ThingsAreKnown, Stored
  <2> QED
    BY <2>1 DEF InTrash
<1>6. ASSUME NEW u, Fits(u), u \in Transactions
      PROVE  Fits(u)'
  <2>1. Placed(u)'
    BY <1>6 DEF Fits, Placed, InPlace, Moving, EntryIsNext, Located
  <2>2. ManifestFits(u)'
    BY <1>6 DEF Fits, ManifestFits, Located
  <2>3. NothingLost(u)'
    BY <1>3, <1>6 DEF Fits, NothingLost
  <2> QED
    BY <2>1, <2>2, <2>3 DEF Fits
<1>7. RecordsFit'
  <2>1. journal.current # NoTxn => journal.current \in Transactions
    BY DEF IInv, Recorded, Sound
  <2>2. journal.previous # NoTxn => journal.previous \in Transactions
    BY DEF IInv, Recorded, Sound
  <2> QED
    BY <1>6, <2>1, <2>2 DEF IInv, RecordsFit, Pausing
<1>8. AtRest'
  BY <1>3, <1>5 DEF IInv, AtRest
<1>9. WorkerFollows'
  <2>1. pc \in {"execute", "answer"} => txn.index \in Items
    BY StepNames
  <2>2. pc \in {"execute", "answer"} =>
          /\ InPlace(txn, txn.index) => InPlace(txn, txn.index)'
          /\ Arrived(txn) => Arrived(txn)'
    BY <2>1 DEF InPlace, Located, Arrived
  <2>3. Refusing => Refusing'
    BY DEF Refusing
  <2>4. \A object : IsOfStep(object) => IsOfStep(object)'
    BY DEF IsOfStep
  <2> QED
    BY <2>2, <2>3, <2>4 DEF IInv, WorkerFollows, Retiring, EntryIsNext
<1>10. OutcomeIsTrue'
  <2>1. OutcomeIsTrue /\ report' = report /\ manifest' = manifest /\ requests' = requests
    BY DEF IInv
  <2>2. CASE report = "stored"
    BY <1>5, <2>1, <2>2 DEF OutcomeIsTrue
  <2>3. CASE report = "cancelled"
    BY <1>4, <1>5, <2>1, <2>3 DEF OutcomeIsTrue
  <2>4. CASE report = "unavailable"
    BY <1>4, <1>5, <2>1, <2>4 DEF OutcomeIsTrue
  <2>5. CASE report = "rolled_back"
    BY <1>4, <1>5, <2>1, <2>5 DEF OutcomeIsTrue
  <2>6. CASE report = "restored"
    BY <1>4, <1>5, <2>1, <2>6 DEF OutcomeIsTrue
  <2>7. CASE report = "purged"
    BY <1>5, <2>1, <2>7 DEF OutcomeIsTrue
  <2>8. CASE report \notin {"stored", "cancelled", "unavailable", "rolled_back", "restored",
                            "purged"}
    BY <2>1, <2>8 DEF OutcomeIsTrue
  <2> QED
    BY <2>2, <2>3, <2>4, <2>5, <2>6, <2>7, <2>8
<1> QED
  BY <1>1, <1>2, <1>7, <1>8, <1>9, <1>10 DEF IInv

LEMMA EditKeeps ==
  ASSUME IInv, NEW n \in Name, Edit(n)
  PROVE  IInv'
<1>0. PICK size \in {"same", "other"} :
        dir' = [dir EXCEPT ![n].rev = meddling', ![n].change = @ + 1, ![n].size = size]
  BY DEF Edit
<1>1. /\ dir' = [dir EXCEPT ![n].rev = meddling', ![n].change = @ + 1, ![n].size = size]
      /\ dir[n].id \in Items /\ UNCHANGED <<container, taken>>
      /\ meddling' = meddling + 1 /\ meddling' \in 0..MaxMeddling /\ meddling \in Nat
      /\ UNCHANGED <<inside, manifest, journal, txn, pc, call, report, requests, faults>>
  <2>1. Meddles /\ dir[n].id \in Items /\ UNCHANGED <<container, taken>>
    BY DEF Edit
  <2> QED
    BY <1>0, <2>1, TrashAssumption DEF Meddles, IInv, Types
<1>1a. disturbed'
  BY Zenon DEF Edit
<1>2. \A m \in Name : dir[m] \in Object
  BY DEF IInv, Types
<1>3. /\ \A m \in Name : m # n => dir'[m] = dir[m]
      /\ dir'[n] = [dir[n] EXCEPT !.rev = meddling', !.change = @ + 1, !.size = size]
      /\ DOMAIN dir' = Name
  BY <1>1 DEF IInv, Types
<1>4. dir'[n] \in Object /\ dir'[n].id = dir[n].id /\ dir'[n].id # 0
  BY <1>1, <1>2, <1>3, Names DEF Object
<1>5. dir' \in [Name -> Object] /\ \A m \in Name : dir'[m].id = dir[m].id
  <2>1. \A m \in Name : dir'[m] \in Object
    BY <1>2, <1>3, <1>4
  <2>2. dir' = [m \in Name |-> dir'[m]]
    BY <1>1, <1>3 DEF IInv, Types
  <2> QED
    BY <1>3, <1>4, <2>1, <2>2
<1>6. ThingsAreKnown'
  <2>1. \A m \in Name : dir'[m].id <= Count + meddling' /\ (dir'[m].id = 0 => dir'[m] = Nothing)
    <3>1. \A m \in Name : dir[m].id <= Count + meddling /\ dir[m].id \in Nat
      BY <1>2, TrashAssumption DEF IInv, ThingsAreKnown, Object
    <3>2. \A m \in Name : dir'[m].id <= Count + meddling'
      BY <1>1, <1>5, <3>1, TrashAssumption
    <3>3. \A m \in Name : dir'[m].id = 0 => dir'[m] = Nothing
      BY <1>3, <1>4, <1>5 DEF IInv, ThingsAreKnown
    <3> QED
      BY <3>2, <3>3
  <2>2. \A i \in Items : dir'[Stored(i)].id \in {0, i}
    BY <1>5, Names DEF IInv, ThingsAreKnown, Stored
  <2>3. \A m, o \in Name : dir'[m].id = dir'[o].id /\ dir'[m].id # 0 => m = o
    BY <1>5 DEF IInv, ThingsAreKnown
  <2>4. \A i \in DOMAIN manifest' : manifest'[i].id = i /\ manifest'[i].size = "same"
    BY <1>1 DEF IInv, ThingsAreKnown
  <2> QED
    BY <1>1a, <2>1, <2>2, <2>3, <2>4 DEF ThingsAreKnown
<1>7. \A i \in Items, w \in {"old", "other", "stored"} : dir'[At(w, i)].id = dir[At(w, i)].id
  BY <1>5, Names
<1> QED
  BY <1>1, <1>1a, <1>5, <1>6, <1>7, AroundKeeps DEF Stored, IInv, Types

LEMMA RemoveKeeps ==
  ASSUME IInv, NEW n \in Name, Remove(n)
  PROVE  IInv'
<1>1. /\ dir' = [dir EXCEPT ![n] = Nothing] /\ n.is # "stored"
      /\ taken' = taken \union {dir[n].id} /\ UNCHANGED container
      /\ disturbed' = (disturbed \/ dir[n].id \in Items)
      /\ meddling' = meddling + 1 /\ meddling' \in 0..MaxMeddling /\ meddling \in Nat
      /\ UNCHANGED <<inside, manifest, journal, txn, pc, call, report, requests, faults>>
  BY TrashAssumption DEF Remove, Meddles, IInv, Types
<1>2. \A m \in Name : dir[m] \in Object
  BY DEF IInv, Types
<1>3. /\ \A m \in Name : m # n => dir'[m] = dir[m]
      /\ dir'[n] = Nothing /\ dir'[n].id = 0 /\ dir'[n].size = "same"
      /\ dir' \in [Name -> Object]
  BY <1>1, Names DEF IInv, Types
<1>4. ThingsAreKnown'
  <2>1. \A m \in Name : dir'[m].id <= Count + meddling'
    <3>1. \A m \in Name : dir[m].id <= Count + meddling /\ dir[m].id \in Nat
      BY <1>2, TrashAssumption DEF IInv, ThingsAreKnown, Object
    <3> QED
      BY <1>1, <1>3, <3>1, TrashAssumption
  <2>2. /\ \A m \in Name : dir'[m].id = 0 => dir'[m] = Nothing
        /\ \A m, o \in Name : dir'[m].id = dir'[o].id /\ dir'[m].id # 0 => m = o
    BY <1>3 DEF IInv, ThingsAreKnown
  <2>3. \A i \in Items : dir'[Stored(i)].id \in {0, i}
    BY <1>3, Names DEF IInv, ThingsAreKnown, Stored
  <2>4. ~disturbed' => \A m \in Name : dir'[m].size = "same"
    BY <1>1, <1>3 DEF IInv, ThingsAreKnown
  <2> QED
    BY <1>1, <2>1, <2>2, <2>3, <2>4 DEF IInv, ThingsAreKnown
<1>5. \A i \in Items : Stored(i) \in Name /\ Stored(i) # n
  BY <1>1, Names DEF Stored
<1>6. \A i \in Items, w \in {"old", "other"} :
        /\ dir'[At(w, i)].id = i => dir[At(w, i)].id = i
        /\ dir[At(w, i)].id = i => dir'[At(w, i)].id = i \/ i \in taken'
  <2>1. ASSUME NEW i \in Items, NEW w \in {"old", "other"}
        PROVE  /\ dir'[At(w, i)].id = i => dir[At(w, i)].id = i
               /\ dir[At(w, i)].id = i => dir'[At(w, i)].id = i \/ i \in taken'
    <3>1. CASE At(w, i) = n
      BY <1>1, <1>3, <3>1, Names
    <3>2. CASE At(w, i) # n
      BY <1>3, <3>2, Names
    <3> QED
      BY <3>1, <3>2
  <2> QED
    BY <2>1
<1>7. \A i \in Items : dir'[Stored(i)].id = dir[Stored(i)].id
  BY <1>3, <1>5
<1> QED
  BY <1>1, <1>3, <1>4, <1>6, <1>7, AroundKeeps DEF IInv, Types

LEMMA CreateKeeps ==
  ASSUME IInv, NEW n \in Name, Create(n)
  PROVE  IInv'
<1>1. /\ dir' = [dir EXCEPT ![n] = File(Count + meddling')] /\ n.is # "stored"
      /\ dir[n] = Nothing /\ UNCHANGED <<container, taken, disturbed>>
      /\ meddling' = meddling + 1 /\ meddling' \in 0..MaxMeddling /\ meddling \in Nat
      /\ UNCHANGED <<inside, manifest, journal, txn, pc, call, report, requests, faults>>
  BY TrashAssumption DEF Create, Meddles, IInv, Types
<1>2. \A m \in Name : dir[m] \in Object /\ dir[m].id <= Count + meddling /\ dir[m].id \in Nat
  BY TrashAssumption DEF IInv, Types, ThingsAreKnown, Object
<1>3. LET stranger == File(Count + meddling') IN
        stranger \in Object /\ stranger.id = Count + meddling' /\ stranger.size = "same"
  BY <1>1, TrashAssumption DEF File, Object
<1>4. /\ \A m \in Name : m # n => dir'[m] = dir[m]
      /\ dir'[n].id = Count + meddling' /\ dir'[n].size = "same" /\ dir' \in [Name -> Object]
  BY <1>1, <1>3 DEF IInv, Types
<1>5. Count + meddling' > Count + meddling /\ Count + meddling' > Count
      /\ Count + meddling' \in Nat
  BY <1>1, TrashAssumption
<1>6. ASSUME NEW m \in Name
      PROVE  dir[m].id <= Count + meddling' /\ dir[m].id # Count + meddling'
  <2>1. dir[m].id \in Nat /\ dir[m].id <= Count + meddling
    BY <1>2
  <2>2. Count \in Nat /\ meddling \in Nat /\ meddling' = meddling + 1
    BY <1>1, TrashAssumption
  <2> QED
    BY <2>1, <2>2
<1>7. ThingsAreKnown'
  <2>1. \A m \in Name : dir'[m].id <= Count + meddling' /\ (dir'[m].id = 0 => dir'[m] = Nothing)
    <3>1. dir'[n].id <= Count + meddling' /\ dir'[n].id # 0
      BY <1>4, <1>5, TrashAssumption
    <3>2. \A m \in Name : m # n => dir'[m].id <= Count + meddling'
      BY <1>4, <1>6
    <3> QED
      BY <1>4, <3>1, <3>2 DEF IInv, ThingsAreKnown
  <2>2. \A m \in Name : m # n => dir'[m].id # Count + meddling'
    BY <1>4, <1>6
  <2>3. \A m, o \in Name : dir'[m].id = dir'[o].id /\ dir'[m].id # 0 => m = o
    BY <1>4, <2>2 DEF IInv, ThingsAreKnown
  <2>4. \A i \in Items : dir'[Stored(i)].id \in {0, i}
    BY <1>1, <1>4, Names DEF IInv, ThingsAreKnown, Stored
  <2>5. ~disturbed' => \A m \in Name : dir'[m].size = "same"
    BY <1>1, <1>4 DEF IInv, ThingsAreKnown
  <2> QED
    BY <1>1, <2>1, <2>3, <2>4, <2>5 DEF IInv, ThingsAreKnown
<1>8. \A i \in Items : Stored(i) \in Name /\ Stored(i) # n
  BY <1>1, Names DEF Stored
<1>9. \A i \in Items, w \in {"old", "other"} : dir'[At(w, i)].id = i <=> dir[At(w, i)].id = i
  <2>1. ASSUME NEW i \in Items, NEW w \in {"old", "other"}
        PROVE  dir'[At(w, i)].id = i <=> dir[At(w, i)].id = i
    <3>1. CASE At(w, i) = n
      <4>1. dir[n].id = 0 /\ i # 0 /\ i <= Count /\ i \in Nat
        BY <1>1, Names
      <4>2. dir'[n].id # i
        BY <1>4, <1>5, <4>1, TrashAssumption
      <4> QED
        BY <3>1, <4>1, <4>2
    <3>2. CASE At(w, i) # n
      BY <1>4, <3>2, Names
    <3> QED
      BY <3>1, <3>2
  <2> QED
    BY <2>1
<1>10. \A i \in Items : dir'[Stored(i)].id = dir[Stored(i)].id
  BY <1>4, <1>8
<1> QED
  BY <1>1, <1>4, <1>7, <1>9, <1>10, AroundKeeps DEF IInv, Types

LEMMA LitterKeeps ==
  ASSUME IInv, Litter
  PROVE  IInv'
<1>1. /\ UNCHANGED <<dir, taken, disturbed>> /\ container # "absent"
      /\ container' \in {"absent", "present", "littered"}
      /\ meddling' = meddling + 1 /\ meddling' \in 0..MaxMeddling /\ meddling \in Nat
      /\ UNCHANGED <<inside, manifest, journal, txn, pc, call, report, requests, faults>>
  BY TrashAssumption DEF Litter, Meddles, IInv, Types
<1>2. ThingsAreKnown'
  <2>1. \A m \in Name : dir[m].id \in Nat /\ dir[m].id <= Count + meddling
    BY TrashAssumption DEF IInv, Types, ThingsAreKnown, Object
  <2>2. \A m \in Name : dir[m].id <= Count + meddling'
    BY <1>1, <2>1, TrashAssumption
  <2> QED
    BY <1>1, <2>2 DEF IInv, ThingsAreKnown
<1> QED
  BY <1>1, <1>2, AroundKeeps DEF IInv, Types

-----------------------------------------------------------------------------
(* The theorems.                                                           *)

LEMMA NextKeeps ==
  ASSUME IInv, [Next]_vars
  PROVE  IInv'
<1>1. CASE Coordinator
  BY <1>1, AnnounceKeeps, MakeContainerKeeps, StepsBegin, AllMovedKeeps, RetireContainerKeeps,
     PublishManifestKeeps, RecordPublishedKeeps, RemoveManifestKeeps, RecordUnlistedKeeps,
     RecordRetiredKeeps, FinishKeeps, VerifyPlanKeeps, PublishRemainingKeeps, RecordNothingKeeps,
     RecordSuccessKeeps, LookAgainKeeps, NotCommittedKeeps, StopAtMissingKeeps, UncertainKeeps
  DEF Coordinator
<1>2. CASE Helper
  BY <1>2, ExecuteKeeps, ReconcileKeeps DEF Helper
<1>3. CASE User
  <2>1. CASE Restore
    <3>1. PICK target \in {"old", "other"} :
            Request /\ Record(FromManifest("restore_prepared", target), "loop")
      BY <2>1 DEF Restore
    <3> QED
      BY <3>1, FromManifestKeeps
  <2>2. CASE Purge
    BY <2>2, FromManifestKeeps DEF Purge
  <2> QED
    BY <1>3, <2>1, <2>2, StartKeeps, ResumeKeeps, CancelRemainingKeeps DEF User
<1>4. CASE Interrupt
  BY <1>4, InterruptKeeps
<1>5. CASE OtherPrograms
  BY <1>5, EditKeeps, RemoveKeeps, CreateKeeps, LitterKeeps DEF OtherPrograms
<1>6. CASE UNCHANGED vars
  <2>1. UNCHANGED <<inside, manifest, journal, txn, pc, call, report, requests, faults>>
        /\ UNCHANGED <<dir, container, taken, disturbed, meddling>>
    BY <1>6 DEF vars, disk, others
  <2>2. ThingsAreKnown'
    BY <2>1 DEF IInv, ThingsAreKnown
  <2> QED
    BY <2>1, <2>2, AroundKeeps DEF IInv, Types
<1> QED
  BY <1>1, <1>2, <1>3, <1>4, <1>5, <1>6 DEF Next

(* What the record on disk means is true of the disk at every instant: for *)
(* every number of things, requests, faults and changes by other programs. *)
THEOREM RecordTellsThePlaces == Spec => []IInv
<1>1. Init => IInv
  BY InitHolds
<1>2. IInv /\ [Next]_vars => IInv'
  BY NextKeeps
<1> QED
  BY <1>1, <1>2, PTL DEF Spec

(* What is in the container is in the manifest or on record at every       *)
(* instant, and nothing else is listed when no operation is pending.  A    *)
(* record is refused only after another program changed an item, when the  *)
(* answer to a rename is recorded.                                         *)
THEOREM NothingStoredIsForgotten == Spec => []TrashIsListed
<1>1. IInv => TrashIsListed
  BY InvariantSuffices
<1> QED
  BY <1>1, RecordTellsThePlaces, PTL

(* What a run reports is true of every item when it is reported, and as    *)
(* long as it is shown.                                                    *)
THEOREM ReportsAreTrue == Spec => []OutcomeIsTrue
<1>1. IInv => OutcomeIsTrue
  BY InvariantSuffices
<1> QED
  BY <1>1, RecordTellsThePlaces, PTL
=============================================================================
