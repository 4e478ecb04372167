-------------------------- MODULE FileCommandsProofs --------------------------
(***************************************************************************)
(* Proofs about FileCommands for every selection, every batch and every    *)
(* number of faults: what the user is told is true, what is on disk is on  *)
(* record, and nothing is begun twice.                                     *)
(*                                                                         *)
(* Three parties keep the truth: the helper (its stage, its answer and the *)
(* evidence), the queue (its journal, the journal of a file's transfer,    *)
(* the worker) and the batch (its state in memory and in the settings).    *)
(* The inductive invariant says what each of them may conclude from what   *)
(* it knows, and what it knows of the others.                              *)
(***************************************************************************)
EXTENDS FileCommands, TLAPS

Excepted == confirmed \union overlooked
Discards == {"discard", "discover_discard"}
Busy == {"looking", "working", "withdrawing"}

-----------------------------------------------------------------------------
(* The helper.                                                             *)

(* Folder f was delivered, and its evidence does not tell.                 *)
Silent(f) == f.delivered /\ f.evidence # "manifest"

(* Nothing of folder f has begun. *)
Untried(f) == f.evidence = "none" /\ ~f.delivered

(* There is no manifest that nobody knows of. *)
NoManifest(i, f, unseen) == i \in unseen \/ f.evidence # "manifest"

(* The folder failed, and there is nothing to recover. *)
Failed(i, f, excepted, unseen) ==
  NoManifest(i, f, unseen) /\ (f.delivered => i \in excepted)

(* What the stage of a helper says of its folder. *)
StageTells(i, f, excepted, unseen) ==
  /\ f.stage = "off" <=> f.command = "none"
  /\ f.stage # "off" => f.answer = "none"
  /\ f.stage = "looking" /\ f.command = "fresh" => i \in unseen
  /\ f.stage \in Busy /\ f.command = "fresh" /\ Silent(f) => i \in excepted
  /\ f.stage = "withdrawing" => f.evidence = "husk" /\ ~f.delivered
  /\ f.stage = "reporting" => f.delivered \/ f.command \in Discards
  /\ f.stage = "reporting" /\ f.evidence # "manifest" => i \in excepted

(* What an answer says of it. *)
AnswerTells(i, f, excepted, unseen) ==
  /\ f.answer \in NotFound \union {"ok"} => NoManifest(i, f, unseen)
  /\ f.answer \in {"clean", "missing"} => Failed(i, f, excepted, unseen)

FolderTells ==
  \A i \in Folders :
    /\ StageTells(i, folder[i], Excepted, overlooked)
    /\ AnswerTells(i, folder[i], Excepted, overlooked)

(* What a step of the helper, or its end, makes of folder f.               *)
Serves(i, f, g, excepted, unseen) ==
  /\ g \in Folder
  /\ StageTells(i, g, excepted, unseen) /\ AnswerTells(i, g, excepted, unseen)
  /\ f.delivered => g.delivered
  /\ Silent(g) => i \in excepted \/ f.stage = "acknowledged" \/ Silent(f)
  /\ g.stage # "off" => g.command = f.command
  /\ g.stage = "acknowledged" \/ g.answer = "ok" => f.stage = "acknowledged"
  /\ g.stage \in Busy => f.stage \in Busy
  /\ g.answer = "not_found" =>
       i \in unseen \/ g.evidence = "none" \/ f.command \in {"resume", "discard"}
  /\ g.answer = "other" => f.stage = "looking" \/ Failed(i, g, excepted, unseen)

-----------------------------------------------------------------------------
(* The queue.                                                              *)

Done(i, fs, del) == IF i \in Files THEN i \in del ELSE fs[i].delivered
Unbegun(i, fs, del) == IF i \in Files THEN i \notin del ELSE Untried(fs[i])

(* What plan p means for the items before and after the one it names, and  *)
(* for that one, given the folders, the files delivered, the exceptions    *)
(* and the record of a file's transfer.                                    *)
OthersTell(p, fs, del, unseen) ==
  \A i \in Items :
    /\ i < p.index => Done(i, fs, del) /\ (i \in QueueFolders => NoManifest(i, fs[i], unseen))
    /\ i > p.index => Unbegun(i, fs, del)

ItemTells(p, fs, del, excepted, unseen, c) ==
  LET i == p.index IN
  /\ i = Count + 1 => p.phase = 0
  /\ i \in Items /\ p.phase = 0 => Unbegun(i, fs, del)
  /\ p.phase = 2 => i \in Items /\ Done(i, fs, del)
  /\ i \in QueueFolders /\ p.phase = 1 /\ Silent(fs[i]) => i \in excepted
  /\ i \in QueueFolders /\ p.phase = 3 => Failed(i, fs[i], excepted, unseen)
  /\ i \in Files /\ p.phase \in {1, 3} /\ c = NoChild => i \notin del

Tells(p, fs, del, excepted, unseen, c) ==
  p # NoPlan =>
    /\ p.index > 0
    /\ OthersTell(p, fs, del, unseen) /\ ItemTells(p, fs, del, excepted, unseen, c)

(* The record before, which a removal by halves brings back: that of the   *)
(* same item when it ended the queue, of the last one when all are done.   *)
MayComeBack(q, p) ==
  /\ p = NoPlan => q = NoPlan
  /\ q # NoPlan => q.index > 0
  /\ p.phase = 3 /\ q # NoPlan => q.index = p.index /\ q.phase \in {1, 3}
  /\ p.index = Count + 1 /\ q # NoPlan => q.index = Count /\ q.phase = 2

(* The journal of a file's transfer is that of the item under way, and     *)
(* says what became of it; half removed it lets the transfer go on.        *)
ChildFits(k, p, del) ==
  LET c == k.current IN
  /\ c = NoChild => k.previous = NoChild
  /\ c # NoChild =>
       /\ c.of = p.index /\ c.of \in Files /\ p.phase > 0 /\ c.end # "none"
       /\ k.previous \in {NoChild, [of |-> c.of, end |-> "open"]}
       /\ c.end = "completed" => c.of \in del
       /\ c.end \in {"failed", "cancelled"} => c.of \notin del

RecordsTell ==
  /\ Tells(journal.current, folder, delivered, Excepted, overlooked, child.current)
  /\ MayComeBack(journal.previous, journal.current)
  /\ ChildFits(child, journal.current, delivered)
  /\ journal.current = NoPlan =>
       \A i \in QueueFolders : NoManifest(i, folder[i], overlooked)

PlanFollows ==
  /\ pc \in {"idle", "prepare"} => plan = NoPlan
  /\ pc \notin {"idle", "prepare"} => plan = journal.current /\ plan # NoPlan
  /\ pc # "idle" => report = NoReport
  /\ pc = "prepare" =>
       journal.current = NoPlan /\ \A i \in Items : Unbegun(i, folder, delivered)

FileFollows ==
  /\ pc \in {"file", "child", "hook", "hooked"} => Item \in Files /\ plan.phase > 0
  /\ pc = "file" /\ child.current = NoChild => plan.phase = 1
  /\ pc \in {"child", "hook", "hooked"} => child.current.of = Item
  /\ pc = "child" => child.current.end = "open"
  /\ pc \in {"hook", "hooked"} => child.current.end # "open"
  /\ pc = "hooked" => plan.phase = IF child.current.end = "completed" THEN 2 ELSE 3

EndFollows ==
  /\ pc \in {"terminal", "advance", "retire"} => child.current = NoChild
  /\ pc = "terminal" =>
       /\ plan.phase = 1 /\ Item \in Items
       /\ Item \in QueueFolders => Failed(Item, folder[Item], Excepted, overlooked)
  /\ pc = "advance" =>
       Item \in Items /\ (Item \in QueueFolders => NoManifest(Item, folder[Item], overlooked))
  /\ pc = "retire" => plan.phase = 3 \/ Item = Count + 1

(* A folder may be begun: nothing is there, or all that is there is known. *)
MayBegin(i, f) ==
  i \in overlooked \/ (f.evidence = "none" /\ (f.delivered => i \in confirmed))

TurnFollows ==
  /\ pc \in {"recover", "fresh", "helper"} => Item \in QueueFolders /\ plan.phase \in {1, 2}
  /\ pc = "fresh" => plan.phase = 1 /\ MayBegin(Item, folder[Item])

(* What the worker may conclude from the helper it has started.            *)
Attends(i, f, p, unseen) ==
  /\ f.command \in {"none", "fresh", IF p.manifest THEN "resume" ELSE "discover"}
  /\ f.stage = "acknowledged" \/ f.answer = "ok" => p.phase = 2
  /\ f.stage \in Busy /\ f.command = "fresh" => p.phase = 1
  /\ f.answer = "not_found" /\ ~p.manifest => i \in unseen \/ f.evidence = "none"

HelperFollows ==
  /\ \A i \in QueueFolders : folder[i].stage # "off" => pc = "helper" /\ i = Item
  /\ pc = "helper" => Attends(Item, folder[Item], plan, overlooked)

WorkerFollows == PlanFollows /\ FileFollows /\ EndFollows /\ TurnFollows /\ HelperFollows

-----------------------------------------------------------------------------
(* The batch.                                                              *)

(* What state r of the batch, in memory or in the settings, means for the  *)
(* folders.                                                                *)
StateTells(r, fs, excepted, unseen) ==
  /\ \A i \in Batch : i < r.index => fs[i].delivered
  /\ \A i \in Batch : i # r.index => NoManifest(i, fs[i], unseen)
  /\ r.index # 0 =>
       /\ \A i \in Batch : i > r.index => Untried(fs[i])
       /\ r.known /\ ~r.discarding => fs[r.index].delivered
       /\ Silent(fs[r.index]) => r.known \/ r.index \in excepted

BatchFollows ==
  /\ mem.index # 0 => settings.index = mem.index /\ (mem.known => settings.known)
  /\ window # "idle" => mem.index # 0 /\ pc = "idle"
  /\ window = "dialog" => ~mem.discarding
  /\ told.what # "none" => mem.index = 0 /\ window = "idle" /\ told.of \in Batch

BatchHelperFollows ==
  /\ \A i \in Batch : folder[i].stage # "off" => window = "helper" /\ i = Current
  /\ window = "helper" =>
       LET f == folder[Current] IN
       /\ f.stage # "off" => (f.command \in Discards <=> mem.discarding)
       /\ f.stage = "acknowledged" \/ f.answer = "ok" => mem.known
       /\ f.stage \in Busy /\ f.command = "fresh" => ~mem.known
       /\ f.answer \in {"clean", "other"} => Failed(Current, f, Excepted, overlooked)

ToldIsTrue ==
  /\ told.what = "done" => \A i \in Batch : folder[i].delivered
  /\ told.what = "deleted" => NoManifest(told.of, folder[told.of], overlooked)
  /\ told.what = "failed" => Failed(told.of, folder[told.of], Excepted, overlooked)

QueueTells == RecordsTell /\ WorkerFollows /\ ReportIsTrue

BatchTells ==
  /\ StateTells(mem, folder, Excepted, overlooked)
  /\ StateTells(settings, folder, Excepted, overlooked)
  /\ BatchFollows /\ BatchHelperFollows /\ ToldIsTrue

IInv == CommandsTypeOK /\ FolderTells /\ QueueTells /\ BatchTells

-----------------------------------------------------------------------------

(* The sets of items and folders.                                          *)
LEMMA SetsAre ==
  /\ Count \in Nat \ {0} /\ Selected \in Nat \ {0} /\ MaxFaults \in Nat
  /\ Items \subseteq Nat \ {0} /\ Batch \subseteq Nat \ {0}
  /\ \A i \in Items : i <= Count
  /\ \A i \in Batch : i > Count /\ i \notin Items /\ i \in Folders
  /\ \A i \in Folders : i \in QueueFolders \/ i \in Batch
  /\ \A i \in QueueFolders : i \in Items /\ i \in Folders /\ i \notin Files /\ i \notin Batch
  /\ \A i \in Files : i \in Items /\ i \notin QueueFolders /\ i \notin Folders
  /\ \A i \in Items : i \in Files \/ i \in QueueFolders
  /\ 0 \notin Folders /\ 0 \notin Items
<1>1. /\ Count \in Nat \ {0} /\ Selected \in Nat \ {0} /\ MaxFaults \in Nat
      /\ Folders \subseteq Nat \ {0} /\ Folders \ Items = Batch
  BY QueueAssumption, CommandsAssumption
<1>2. Items \subseteq Nat \ {0} /\ Batch \subseteq Nat \ {0} /\ \A i \in Items : i <= Count
  BY <1>1 DEF Items, Batch
<1>3. \A i \in Batch : i > Count /\ i \notin Items /\ i \in Folders
  BY <1>1 DEF Batch, Items
<1>4. \A i \in Folders : i \in QueueFolders \/ i \in Batch
  BY <1>1 DEF QueueFolders
<1>5. /\ \A i \in QueueFolders : i \in Items /\ i \in Folders /\ i \notin Files /\ i \notin Batch
      /\ \A i \in Files : i \in Items /\ i \notin QueueFolders /\ i \notin Folders
      /\ \A i \in Items : i \in Files \/ i \in QueueFolders
  BY <1>3 DEF QueueFolders, Files
<1> QED
  BY <1>1, <1>2, <1>3, <1>4, <1>5

(* The fields of a folder.                                                 *)
LEMMA FolderIs ==
  ASSUME NEW f \in Folder
  PROVE  /\ f.stage \in {"off", "looking", "working", "withdrawing", "reporting", "acknowledged"}
         /\ f.command \in Commands \union {"none"}
         /\ f.evidence \in {"none", "husk", "manifest"}
         /\ f.delivered \in BOOLEAN /\ f.answer \in Answers
BY DEF Folder

(* One folder changes, the others do not. *)
LEMMA BecomeIs ==
  ASSUME folder \in [Folders -> Folder], NEW i \in Folders, NEW g \in Folder, Become(i, g)
  PROVE  /\ folder' \in [Folders -> Folder] /\ folder'[i] = g
         /\ \A j \in Folders : j # i => folder'[j] = folder[j]
BY DEF Become

(* The helper goes on: stage and evidence change.                          *)
LEMMA GoesServes ==
  ASSUME NEW i, NEW excepted, NEW unseen, NEW f \in Folder, StageTells(i, f, excepted, unseen),
         NEW stage \in {"working", "withdrawing", "reporting", "acknowledged"},
         NEW evidence \in {"none", "husk", "manifest"},
         NEW g, g = Goes(f, stage, evidence), f.stage # "off",
         f.stage \in Busy \/ stage = "acknowledged",
         stage = "acknowledged" => f.stage = "acknowledged",
         f.delivered /\ evidence # "manifest" =>
           i \in excepted \/ f.stage = "acknowledged",
         stage = "withdrawing" => evidence = "husk" /\ ~f.delivered,
         stage = "reporting" => f.delivered \/ f.command \in Discards,
         stage = "reporting" /\ evidence # "manifest" => i \in excepted
  PROVE  Serves(i, f, g, excepted, unseen)
<1>1. /\ g.stage = stage /\ g.evidence = evidence /\ g.command = f.command
      /\ g.delivered = f.delivered /\ g.answer = f.answer /\ g \in Folder
  BY DEF Goes, Folder
<1>2. f.answer = "none" /\ f.command # "none" /\ f.command \in Commands \union {"none"}
  BY FolderIs DEF StageTells
<1> HIDE DEF Goes
<1>3. StageTells(i, g, excepted, unseen)
  BY <1>1, <1>2 DEF StageTells, Busy, Silent
<1>4. AnswerTells(i, g, excepted, unseen)
  BY <1>1, <1>2 DEF AnswerTells, NotFound
<1> QED
  BY <1>1, <1>2, <1>3, <1>4 DEF Serves, Silent, Busy

(* The helper answers and is gone.                                         *)
LEMMA AnswerServes ==
  ASSUME NEW i, NEW excepted, NEW unseen, NEW f \in Folder, StageTells(i, f, excepted, unseen),
         NEW a \in Answers, NEW evidence \in {"none", "husk", "manifest"},
         NEW g, g = Answer(Goes(f, f.stage, evidence), a), f.stage # "off",
         f.delivered /\ evidence # "manifest" =>
           i \in excepted \/ f.stage = "acknowledged" \/ f.evidence # "manifest",
         a \in NotFound \union {"ok"} => i \in unseen \/ evidence # "manifest",
         a \in {"clean", "missing"} =>
           (i \in unseen \/ evidence # "manifest") /\ (f.delivered => i \in excepted),
         a = "ok" => f.stage = "acknowledged",
         a = "not_found" =>
           i \in unseen \/ evidence = "none" \/ f.command \in {"resume", "discard"},
         a = "other" =>
           \/ f.stage = "looking"
           \/ evidence # "manifest" /\ (f.delivered => i \in excepted)
  PROVE  Serves(i, f, g, excepted, unseen)
<1>1. /\ g.stage = "off" /\ g.evidence = evidence /\ g.command = "none"
      /\ g.delivered = f.delivered /\ g.answer = a /\ g \in Folder
  BY DEF Goes, Answer, Folder
<1> HIDE DEF Goes, Answer
<1>3. StageTells(i, g, excepted, unseen)
  BY <1>1 DEF StageTells, Busy
<1>4. AnswerTells(i, g, excepted, unseen)
  BY <1>1 DEF AnswerTells, NoManifest, Failed
<1> QED
  BY <1>1, <1>3, <1>4 DEF Serves, Silent, Busy, Failed, NoManifest

(* An answer leaves the evidence as it is. *)
LEMMA AnswerIs ==
  ASSUME NEW f \in Folder, NEW a
  PROVE  Answer(f, a) = Answer(Goes(f, f.stage, f.evidence), a)
BY DEF Answer, Goes, Folder

(* Whatever the helper does, or whatever becomes of it, it serves.         *)
Served(i, excepted, unseen) ==
  Become(i, folder'[i]) /\ Serves(i, folder[i], folder'[i], excepted, unseen)

(* Whoever makes of folder i what serves has served it. *)
LEMMA ServedBy ==
  ASSUME folder \in [Folders -> Folder], NEW i \in Folders, NEW excepted, NEW unseen,
         NEW g, Become(i, g), Serves(i, folder[i], g, excepted, unseen)
  PROVE  Served(i, excepted, unseen)
<1>1. folder'[i] = g
  BY BecomeIs DEF Serves
<1> QED
  BY <1>1 DEF Served

(* A change of stage or evidence that is justified serves. *)
LEMMA ServedByGoing ==
  ASSUME folder \in [Folders -> Folder], NEW i \in Folders, NEW excepted, NEW unseen,
         NEW f, f = folder[i], StageTells(i, f, excepted, unseen),
         NEW stage \in {"working", "withdrawing", "reporting", "acknowledged"},
         NEW evidence \in {"none", "husk", "manifest"},
         Become(i, Goes(f, stage, evidence)), f.stage # "off",
         f.stage \in Busy \/ stage = "acknowledged",
         stage = "acknowledged" => f.stage = "acknowledged",
         f.delivered /\ evidence # "manifest" => i \in excepted \/ f.stage = "acknowledged",
         stage = "withdrawing" => evidence = "husk" /\ ~f.delivered,
         stage = "reporting" => f.delivered \/ f.command \in Discards,
         stage = "reporting" /\ evidence # "manifest" => i \in excepted
  PROVE  Served(i, excepted, unseen)
<1> DEFINE g == Goes(f, stage, evidence)
<1>1. g = Goes(f, stage, evidence) /\ f \in Folder
  OBVIOUS
<1> HIDE DEF g
<1>2. Serves(i, f, g, excepted, unseen)
  BY <1>1, GoesServes
<1> QED
  BY <1>1, <1>2, ServedBy

(* An answer that is justified serves. *)
LEMMA ServedByAnswer ==
  ASSUME folder \in [Folders -> Folder], NEW i \in Folders, NEW excepted, NEW unseen,
         NEW f, f = folder[i], StageTells(i, f, excepted, unseen),
         NEW a \in Answers, NEW evidence \in {"none", "husk", "manifest"},
         Become(i, Answer(Goes(f, f.stage, evidence), a)), f.stage # "off",
         f.delivered /\ evidence # "manifest" =>
           i \in excepted \/ f.stage = "acknowledged" \/ f.evidence # "manifest",
         a \in NotFound \union {"ok"} => i \in unseen \/ evidence # "manifest",
         a \in {"clean", "missing"} =>
           (i \in unseen \/ evidence # "manifest") /\ (f.delivered => i \in excepted),
         a = "ok" => f.stage = "acknowledged",
         a = "not_found" =>
           i \in unseen \/ evidence = "none" \/ f.command \in {"resume", "discard"},
         a = "other" =>
           \/ f.stage = "looking"
           \/ evidence # "manifest" /\ (f.delivered => i \in excepted)
  PROVE  Served(i, excepted, unseen)
<1> DEFINE g == Answer(Goes(f, f.stage, evidence), a)
<1>1. g = Answer(Goes(f, f.stage, evidence), a) /\ f \in Folder
  OBVIOUS
<1> HIDE DEF g
<1>2. Serves(i, f, g, excepted, unseen)
  BY <1>1, AnswerServes
<1> QED
  BY <1>1, <1>2, ServedBy

(* What the helper does of itself serves. *)
LEMMA HelperServes ==
  ASSUME folder \in [Folders -> Folder], NEW i \in Folders, NEW excepted, NEW unseen,
         StageTells(i, folder[i], excepted, unseen), unseen \subseteq excepted, HelperStep(i)
  PROVE  Served(i, excepted, unseen)
<1> DEFINE f == folder[i]
<1>1. f \in Folder /\ f = folder[i] /\ StageTells(i, f, excepted, unseen)
  OBVIOUS
<1>2. \A a : Answer(f, a) = Answer(Goes(f, f.stage, f.evidence), a)
  BY <1>1, AnswerIs
<1>3. f.evidence \in {"none", "husk", "manifest"} /\ f.command \in Commands \union {"none"}
  BY <1>1, FolderIs
<1> USE DEF Busy
<1>4. CASE FindNothing(i)
  <2>1. f.stage = "looking" /\ f.evidence = "none" /\ Become(i, Answer(f, "not_found"))
    BY <1>4 DEF FindNothing
  <2>2. "not_found" \in Answers
    BY DEF Answers
  <2> QED
    BY <1>1, <1>2, <2>1, <2>2, ServedByAnswer
<1>5. CASE FindHusk(i)
  <2>1. /\ f.stage = "looking" /\ f.command \in Scans \union {"discard"} /\ f.evidence = "husk"
        /\ Become(i, Answer(f, IF f.command \in Scans THEN "kept" ELSE "not_found"))
    BY <1>5 DEF FindHusk
  <2>2. "not_found" \in Answers /\ "kept" \in Answers
    BY DEF Answers
  <2>3. CASE f.command \in Scans
    BY <1>1, <1>2, <2>1, <2>2, <2>3, ServedByAnswer DEF NotFound
  <2>4. CASE f.command \notin Scans
    BY <1>1, <1>2, <2>1, <2>2, <2>4, ServedByAnswer
  <2> QED
    BY <2>3, <2>4
<1>6. CASE FindManifest(i)
  <2>1. f.stage = "looking" /\ f.evidence = "manifest" /\ Become(i, Goes(f, "working", "manifest"))
    BY <1>6 DEF FindManifest
  <2> QED
    BY <1>1, <2>1, ServedByGoing
<1>7. CASE FindControlTaken(i)
  <2>1. f.stage = "looking" /\ f.command = "fresh" /\ Become(i, Answer(f, "clean"))
    BY <1>7 DEF FindControlTaken
  <2>2. "clean" \in Answers
    BY DEF Answers
  <2>3. i \in unseen /\ i \in excepted
    BY <1>1, <2>1 DEF StageTells
  <2> QED
    BY <1>1, <1>2, <1>3, <2>1, <2>2, <2>3, ServedByAnswer
<1>8. CASE MakeControl(i)
  <2>1. f.stage = "working" /\ ~f.delivered /\ Become(i, Goes(f, "working", "husk"))
    BY <1>8 DEF MakeControl
  <2> QED
    BY <1>1, <2>1, ServedByGoing
<1>9. CASE WriteManifest(i)
  <2>1. f.stage = "working" /\ Become(i, Goes(f, "working", "manifest"))
    BY <1>9 DEF WriteManifest
  <2> QED
    BY <1>1, <2>1, ServedByGoing
<1>10. CASE Deliver(i)
  <2> DEFINE g == [f EXCEPT !.delivered = TRUE]
  <2>1. f.stage = "working" /\ f.evidence = "manifest" /\ Become(i, g)
    BY <1>10 DEF Deliver
  <2>2. /\ g \in Folder /\ g.stage = "working" /\ g.evidence = "manifest" /\ g.delivered
        /\ g.command = f.command /\ g.answer = f.answer
    BY <1>1, <2>1 DEF Folder
  <2> HIDE DEF g
  <2>3. f.answer = "none" /\ f.command # "none"
    BY <1>1, <2>1 DEF StageTells
  <2>4. StageTells(i, g, excepted, unseen) /\ AnswerTells(i, g, excepted, unseen)
    BY <2>2, <2>3 DEF StageTells, AnswerTells, Silent, NotFound
  <2>5. Serves(i, f, g, excepted, unseen)
    BY <2>1, <2>2, <2>3, <2>4 DEF Serves, Silent
  <2> QED
    BY <1>1, <2>1, <2>5, ServedBy
<1>11. CASE Report(i)
  <2>1. f.stage = "working" /\ f.delivered /\ Become(i, Goes(f, "reporting", "manifest"))
    BY <1>11 DEF Report
  <2> QED
    BY <1>1, <2>1, ServedByGoing
<1>12. CASE ReportDiscard(i)
  <2>1. f.stage = "working" /\ f.command \in Discards /\ Become(i, Goes(f, "reporting", "manifest"))
    BY <1>12 DEF ReportDiscard, Discards
  <2> QED
    BY <1>1, <2>1, ServedByGoing
<1>13. CASE Retire(i)
  <2>1. f.stage = "acknowledged" /\ Become(i, Goes(f, "acknowledged", "husk"))
    BY <1>13 DEF Retire
  <2> QED
    BY <1>1, <2>1, ServedByGoing
<1>14. CASE FinishRetirement(i)
  <2>1. f.stage = "acknowledged" /\ Become(i, Answer(Goes(f, f.stage, "none"), "ok"))
    BY <1>14 DEF FinishRetirement
  <2>2. "ok" \in Answers
    BY DEF Answers
  <2> QED
    BY <1>1, <2>1, <2>2, ServedByAnswer
<1>15. CASE FinishWithdrawal(i)
  <2>1. f.stage = "withdrawing" /\ Become(i, Goes(f, "working", "none"))
    BY <1>15 DEF FinishWithdrawal
  <2>2. ~f.delivered
    BY <1>1, <2>1 DEF StageTells
  <2> QED
    BY <1>1, <2>1, <2>2, ServedByGoing
<1>16. CASE CleanHusk(i, "none")
  <2>1. /\ f.stage = "looking" /\ f.evidence = "husk"
        /\ Become(i, Answer(Goes(f, f.stage, "none"), "not_found"))
    BY <1>16 DEF CleanHusk
  <2>2. "not_found" \in Answers
    BY DEF Answers
  <2> QED
    BY <1>1, <2>1, <2>2, ServedByAnswer
<1>17. CASE FindDestinationTaken(i)
  <2>1. f.stage = "working" /\ f.evidence = "none" /\ "clean" \in Failures(f) /\ Become(i, Answer(f, "clean"))
    BY <1>17 DEF FindDestinationTaken, Refuse
  <2>2. "clean" \in Answers
    BY DEF Answers
  <2>3. f.delivered => i \in excepted
    BY <1>1, <1>3, <2>1 DEF StageTells, Failures, Recovering, Silent
  <2> QED
    BY <1>1, <1>2, <1>3, <2>1, <2>2, <2>3, ServedByAnswer
<1> QED
  BY <1>4, <1>5, <1>6, <1>7, <1>8, <1>9, <1>10, <1>11, <1>12, <1>13, <1>14, <1>15, <1>16,
     <1>17 DEF HelperStep

(* What hinders the helper serves, too: it claims nothing that is not so. *)
LEMMA FailureServes ==
  ASSUME folder \in [Folders -> Folder], NEW i \in Folders, NEW excepted, NEW unseen,
         StageTells(i, folder[i], excepted, unseen), HelperFails(i),
         folder[i].stage = "working" /\ folder'[i].stage = "reporting" => i \in excepted
  PROVE  Served(i, excepted, unseen)
<1> DEFINE f == folder[i]
<1>1. f \in Folder /\ f = folder[i] /\ StageTells(i, f, excepted, unseen)
  OBVIOUS
<1>2. \A a : Answer(f, a) = Answer(Goes(f, f.stage, f.evidence), a)
  BY <1>1, AnswerIs
<1>3. f.evidence \in {"none", "husk", "manifest"} /\ f.command \in Commands \union {"none"}
  BY <1>1, FolderIs
<1>4. /\ "kept_path" \in Answers /\ "kept_path" \notin NotFound \union {"ok", "clean", "other"}
      /\ "not_found" \in Answers
  BY DEF Answers, NotFound
<1>5. ASSUME f.stage = "working", f.evidence # "manifest", NEW a \in Failures(f)
      PROVE  \/ a = "kept_path"
             \/ a \in {"clean", "other"} /\ (f.delivered => i \in excepted)
  BY <1>1, <1>3, <1>5 DEF StageTells, Failures, Recovering, Silent, Busy
<1> USE DEF Busy
<1>6. CASE CleanHusk(i, "husk")
  <2>1. /\ f.stage = "looking" /\ f.evidence = "husk" /\ f.command = "resume"
        /\ Become(i, Answer(Goes(f, f.stage, "husk"), "not_found"))
    BY <1>6 DEF CleanHusk
  <2> QED
    BY <1>1, <1>4, <2>1, ServedByAnswer
<1>7. ASSUME NEW left \in {"none", "husk"}, NEW a \in Answers, AbandonHusk(i, left, a)
      PROVE  Served(i, excepted, unseen)
  <2>1. /\ f.stage = "working" /\ f.evidence = "husk" /\ a \in Failures(f)
        /\ Become(i, Answer(Goes(f, f.stage, left), a))
    BY <1>7 DEF AbandonHusk
  <2>2. \/ a = "kept_path"
        \/ a \in {"clean", "other"} /\ (f.delivered => i \in excepted)
    BY <1>5, <2>1
  <2>3. CASE a = "kept_path"
    BY <1>1, <1>4, <2>1, <2>3, ServedByAnswer
  <2>4. CASE a \in {"clean", "other"} /\ (f.delivered => i \in excepted)
    <3>1. a \notin NotFound \union {"ok"}
      BY <2>4 DEF NotFound
    <3> QED
      BY <1>1, <2>1, <2>4, <3>1, ServedByAnswer
  <2> QED
    BY <2>2, <2>3, <2>4
<1>8. ASSUME NEW a \in Answers, Refuse(i, a)
      PROVE  Served(i, excepted, unseen)
  <2>1. /\ f.stage = "working" /\ f.evidence = "none" /\ a \in Failures(f)
        /\ Become(i, Answer(Goes(f, f.stage, "none"), a))
    BY <1>2, <1>8 DEF Refuse
  <2>2. \/ a = "kept_path"
        \/ a \in {"clean", "other"} /\ (f.delivered => i \in excepted)
    BY <1>5, <2>1
  <2>3. CASE a = "kept_path"
    BY <1>1, <1>4, <2>1, <2>3, ServedByAnswer
  <2>4. CASE a \in {"clean", "other"} /\ (f.delivered => i \in excepted)
    <3>1. a \notin NotFound \union {"ok"}
      BY <2>4 DEF NotFound
    <3> QED
      BY <1>1, <2>1, <2>4, <3>1, ServedByAnswer
  <2> QED
    BY <2>2, <2>3, <2>4
<1>9. ASSUME NEW left \in {"none", "husk", "manifest"}, ConfirmCopy(i, left)
      PROVE  Served(i, excepted, unseen)
  <2>1. f.stage = "working" /\ f.delivered /\ Become(i, Goes(f, "reporting", left))
    BY <1>9 DEF ConfirmCopy
  <2> DEFINE g == Goes(f, "reporting", left)
  <2>2. g \in Folder /\ g.stage = "reporting"
    BY <1>1 DEF Goes, Folder
  <2> HIDE DEF g
  <2>3. folder'[i] = g
    <3>1. Become(i, g)
      BY <2>1 DEF g
    <3> QED
      BY <2>2, <3>1, BecomeIs
  <2>4. i \in excepted
    BY <1>1, <2>1, <2>2, <2>3
  <2> QED
    BY <1>1, <2>1, <2>4, ServedByGoing
<1>10. CASE Reject(i)
  <2>1. f.stage = "looking" /\ Become(i, Answer(Goes(f, f.stage, f.evidence), "other"))
    BY <1>2, <1>10 DEF Reject
  <2>2. "other" \in Answers /\ "other" \notin NotFound \union {"ok"}
    BY DEF Answers, NotFound
  <2> QED
    BY <1>1, <1>3, <2>1, <2>2, ServedByAnswer
<1>11. CASE Withdraw(i)
  <2>1. f.stage = "working" /\ ~f.delivered /\ Become(i, Goes(f, "withdrawing", "husk"))
    BY <1>11 DEF Withdraw
  <2> QED
    BY <1>1, <2>1, ServedByGoing
<1>12. ASSUME f.stage # "off", Become(i, Answer(f, "kept_path"))
       PROVE  Served(i, excepted, unseen)
  <2>1. Become(i, Answer(Goes(f, f.stage, f.evidence), "kept_path"))
    BY <1>2, <1>12
  <2> QED
    BY <1>1, <1>3, <1>4, <1>12, <2>1, ServedByAnswer
<1>13. CASE GiveUp(i) \/ FailWithdrawal(i) \/ FailRetirement(i)
  BY <1>12, <1>13 DEF GiveUp, FailWithdrawal, FailRetirement
<1> QED
  BY <1>6, <1>7, <1>8, <1>9, <1>10, <1>11, <1>13 DEF HelperFails

(* A helper that is lost leaves what it had begun. *)
LEMMA LossServes ==
  ASSUME folder \in [Folders -> Folder], NEW i \in Folders, NEW excepted, NEW unseen,
         StageTells(i, folder[i], excepted, unseen), NEW a \in {"none", "kept"}, Lose(i, a)
  PROVE  Served(i, excepted, unseen) /\ folder'[i].stage = "off" /\ folder'[i].answer = a
         /\ folder'[i].evidence = folder[i].evidence
<1> DEFINE f == folder[i]
<1>1. f \in Folder /\ f = folder[i] /\ StageTells(i, f, excepted, unseen)
  OBVIOUS
<1>2. f.stage # "off" /\ Become(i, Answer(Goes(f, f.stage, f.evidence), a))
      /\ Become(i, Answer(f, a))
  BY <1>1, AnswerIs DEF Lose
<1>3. f.evidence \in {"none", "husk", "manifest"} /\ a \in Answers
      /\ a \notin NotFound \union {"ok", "clean", "missing", "other"}
  BY <1>1, FolderIs DEF Answers, NotFound
<1>4. Served(i, excepted, unseen)
  BY <1>1, <1>2, <1>3, ServedByAnswer DEF NotFound
<1> DEFINE g == Answer(f, a)
<1>5. g \in Folder /\ g.stage = "off" /\ g.answer = a /\ g.evidence = f.evidence
  BY <1>1, <1>3 DEF Answer, Folder
<1>6. Become(i, g)
  BY <1>2
<1> HIDE DEF g
<1>7. folder'[i] = g
  BY <1>5, <1>6, BecomeIs
<1> QED
  BY <1>1, <1>4, <1>5, <1>7

(* A helper that finds its folders out of reach says what it sees, and     *)
(* the folder is overlooked from then on.                                  *)
LEMMA MissServes ==
  ASSUME folder \in [Folders -> Folder], NEW i \in Folders, NEW excepted, NEW unseen,
         StageTells(i, folder[i], excepted, unseen), unseen \subseteq excepted,
         NEW a \in Answers, OutOfReach(i, a),
         folder[i].evidence # "none" /\ a \in NotFound => i \in unseen
  PROVE  Served(i, excepted, unseen)
<1> DEFINE f == folder[i]
<1>1. f \in Folder /\ f = folder[i] /\ StageTells(i, f, excepted, unseen)
  OBVIOUS
<1>2. Become(i, Answer(Goes(f, f.stage, f.evidence), a))
  BY <1>1, AnswerIs DEF OutOfReach
<1>3. f.evidence \in {"none", "husk", "manifest"} /\ f.command \in Commands \union {"none"}
  BY <1>1, FolderIs
<1>4. f.stage # "off" /\ a \in {"missing", "not_found", "lost", "lost_path", "kept_path"}
  BY DEF OutOfReach
<1>5. a = "missing" /\ f.delivered /\ f.evidence # "manifest" => i \in excepted
  <2> SUFFICES ASSUME a = "missing", f.delivered, f.evidence # "manifest" PROVE i \in excepted
    OBVIOUS
  <2>1. \/ f.stage = "looking" /\ f.command = "fresh"
        \/ f.stage = "working" /\ ~Recovering(f)
    BY DEF OutOfReach
  <2>2. f.command = "fresh"
    BY <1>1, <1>3, <2>1 DEF Recovering, StageTells
  <2> QED
    BY <1>1, <2>1, <2>2 DEF StageTells, Busy, Silent
<1>6. a = "missing" => f.evidence # "manifest" \/ i \in unseen
  <2> SUFFICES ASSUME a = "missing", f.evidence = "manifest" PROVE i \in unseen
    OBVIOUS
  <2> QED
    BY DEF NotFound
<1> QED
  BY <1>1, <1>2, <1>3, <1>4, <1>5, <1>6, ServedByAnswer DEF NotFound

Points ==
  {"idle", "prepare", "next", "file", "child", "hook", "hooked", "recover", "fresh", "helper",
   "terminal", "advance", "retire"}

(* The types of the variables, one by one. *)
LEMMA TypesAre ==
  ASSUME IInv
  PROVE  /\ folder \in [Folders -> Folder] /\ journal \in Generations(Plan)
         /\ journal.current \in Plan /\ journal.previous \in Plan
         /\ plan \in Plan /\ child \in Generations(Child)
         /\ child.current \in Child /\ child.previous \in Child
         /\ delivered \subseteq Files /\ pc \in Points
         /\ report \in [outcome : Outcomes, published : SUBSET Items]
         /\ faults \in 0..MaxFaults /\ away \in BOOLEAN
         /\ confirmed \subseteq Folders /\ overlooked \subseteq Folders
         /\ mem \in BatchRecord /\ settings \in BatchRecord
         /\ window \in {"idle", "dialog", "helper"}
         /\ told \in [what : {"none", "done", "deleted", "failed"}, of : Batch \union {0}]
BY DEF IInv, CommandsTypeOK, TypeOK, Generations, Points

(* And back: what has these types has the type of the specification.       *)
LEMMA TypesMake ==
  ASSUME folder' \in [Folders -> Folder], journal' \in Generations(Plan), plan' \in Plan,
         child' \in Generations(Child), delivered' \subseteq Files, pc' \in Points,
         report' \in [outcome : Outcomes, published : SUBSET Items],
         faults' \in 0..MaxFaults, away' \in BOOLEAN,
         confirmed' \subseteq Folders, overlooked' \subseteq Folders,
         mem' \in BatchRecord, settings' \in BatchRecord,
         window' \in {"idle", "dialog", "helper"},
         told' \in [what : {"none", "done", "deleted", "failed"}, of : Batch \union {0}]
  PROVE  CommandsTypeOK'
BY DEF CommandsTypeOK, TypeOK, Points

(* The plans, and the first and the empty one. *)
LEMMA PlanIs ==
  /\ NoPlan \in Plan /\ NewPlan \in Plan /\ NewPlan # NoPlan
  /\ NoPlan.index = 0 /\ NoPlan.phase = 0 /\ ~NoPlan.manifest /\ ~NoPlan.cancelled
  /\ NewPlan.index = 1 /\ NewPlan.phase = 0 /\ ~NewPlan.manifest /\ ~NewPlan.cancelled
  /\ \A p \in Plan : p.index \in 0..(Count + 1) /\ p.phase \in 0..3
                     /\ p.manifest \in BOOLEAN /\ p.cancelled \in BOOLEAN
<1>1. Count \in Nat \ {0}
  BY SetsAre
<1>2. NoPlan \in Plan /\ NoPlan.index = 0 /\ NoPlan.phase = 0 /\ NoPlan.manifest = FALSE
      /\ NoPlan.cancelled = FALSE
  BY <1>1 DEF NoPlan, Plan
<1>3. NewPlan \in Plan /\ NewPlan.index = 1 /\ NewPlan.phase = 0 /\ NewPlan.manifest = FALSE
      /\ NewPlan.cancelled = FALSE
  <2>1. NewPlan = [NoPlan EXCEPT !.index = 1]
    BY DEF NewPlan
  <2>2. 1 \in 0..(Count + 1)
    BY <1>1
  <2> QED
    BY <1>2, <2>1, <2>2 DEF Plan
<1>4. \A p \in Plan : p.index \in 0..(Count + 1) /\ p.phase \in 0..3
                      /\ p.manifest \in BOOLEAN /\ p.cancelled \in BOOLEAN
  BY DEF Plan
<1> QED
  BY <1>2, <1>3, <1>4

(* The records of a file's transfer. *)
LEMMA ChildIs ==
  /\ NoChild \in Child /\ NoChild.of = 0 /\ NoChild.end = "none"
  /\ \A c \in Child : c.of \in 0..Count
                      /\ c.end \in {"none", "open", "completed", "failed", "cancelled"}
  /\ \A c \in Child : c # NoChild => c.of # 0 \/ c.end # "none"
BY SetsAre DEF NoChild, Child

(* The fields of a generation. *)
LEMMA GenerationsAre ==
  ASSUME NEW S, NEW a \in S, NEW b \in S
  PROVE  /\ [current |-> a, previous |-> b] \in Generations(S)
         /\ [current |-> a, previous |-> b].current = a
         /\ [current |-> a, previous |-> b].previous = b
BY DEF Generations

(* A plan that is written becomes the current generation. *)
LEMMA WrittenIs ==
  ASSUME IInv, NEW p \in Plan
  PROVE  /\ Written(p) \in Generations(Plan)
         /\ Written(p).current = p /\ Written(p).previous = journal.current
BY TypesAre DEF Written, Generations

(* Nothing is begun while the window waits or a helper works.              *)
LEMMA OneAtATime ==
  ASSUME IInv, pc # "idle"
  PROVE  window = "idle"
BY DEF IInv, BatchTells, BatchFollows

(* The part of the batch hangs on its own folders.                         *)
LEMMA BatchStays ==
  ASSUME IInv, UNCHANGED batch, pc' = "idle" \/ window = "idle",
         \A i \in Batch : folder'[i] = folder[i],
         confirmed \subseteq confirmed', overlooked \subseteq overlooked'
  PROVE  BatchTells'
<1>1. /\ mem' = mem /\ settings' = settings /\ window' = window /\ told' = told
  BY DEF batch
<1>2. Excepted \subseteq Excepted'
  BY DEF Excepted
<1>3. /\ mem.index = 0 \/ mem.index \in Batch
      /\ settings.index = 0 \/ settings.index \in Batch
  BY TypesAre DEF BatchRecord
<1>4. \A r : r.index \in Batch \union {0} /\ StateTells(r, folder, Excepted, overlooked) =>
              StateTells(r, folder', Excepted', overlooked')
  BY <1>2 DEF StateTells, NoManifest
<1>5. /\ StateTells(mem, folder, Excepted, overlooked)'
      /\ StateTells(settings, folder, Excepted, overlooked)'
  <2>1. /\ StateTells(mem, folder, Excepted, overlooked)
        /\ StateTells(settings, folder, Excepted, overlooked)
    BY DEF IInv, BatchTells
  <2> QED
    BY <1>1, <1>3, <1>4, <2>1
<1>6. BatchFollows'
  BY <1>1 DEF IInv, BatchTells, BatchFollows
<1>7. BatchHelperFollows'
  <2>1. Current' = Current
    BY <1>1 DEF Current
  <2>2. window = "helper" => Current \in Batch
    BY <1>3 DEF IInv, BatchTells, BatchFollows, Current
  <2> QED
    BY <1>1, <1>2, <2>1, <2>2 DEF IInv, BatchTells, BatchHelperFollows, Failed, NoManifest
<1>8. ToldIsTrue'
  <2>1. told.what # "none" => told.of \in Batch
    BY DEF IInv, BatchTells, BatchFollows
  <2> QED
    BY <1>1, <1>2, <2>1 DEF IInv, BatchTells, ToldIsTrue, NoManifest, Failed
<1> QED
  BY <1>5, <1>6, <1>7, <1>8 DEF BatchTells

(* The part of the queue hangs on its own folders.                         *)
LEMMA TellsStays ==
  ASSUME NEW fs, NEW gs, NEW del, NEW excepted, NEW more, NEW unseen, NEW hidden, NEW c,
         excepted \subseteq more, unseen \subseteq hidden,
         \A i \in QueueFolders : gs[i] = fs[i],
         NEW p, Tells(p, fs, del, excepted, unseen, c)
  PROVE  Tells(p, gs, del, more, hidden, c)
<1>1. CASE p = NoPlan
  BY <1>1 DEF Tells
<1>2. CASE p # NoPlan
  <2>1. p.index > 0 /\ OthersTell(p, fs, del, unseen) /\ ItemTells(p, fs, del, excepted, unseen, c)
    BY <1>2 DEF Tells
  <2>2. \A i \in Items : /\ Done(i, gs, del) = Done(i, fs, del)
                         /\ Unbegun(i, gs, del) = Unbegun(i, fs, del)
    BY SetsAre DEF Done, Unbegun
  <2>3. OthersTell(p, gs, del, hidden)
    BY <2>1, <2>2 DEF OthersTell, NoManifest
  <2>4. ItemTells(p, gs, del, more, hidden, c)
    BY <2>1, <2>2, SetsAre DEF ItemTells, Failed, NoManifest
  <2> QED
    BY <2>1, <2>3, <2>4 DEF Tells
<1> QED
  BY <1>1, <1>2

(* What the queue knows stays true while the batch works. *)
LEMMA QueueStays ==
  ASSUME IInv, UNCHANGED <<journal, plan, child, delivered, pc>>, report' \in {report, NoReport},
         \A i \in QueueFolders : folder'[i] = folder[i],
         confirmed \subseteq confirmed', overlooked \subseteq overlooked'
  PROVE  QueueTells'
<1>1. Excepted \subseteq Excepted'
  BY DEF Excepted
<1>2. \A i \in Items : /\ Done(i, folder', delivered) = Done(i, folder, delivered)
                       /\ Unbegun(i, folder', delivered) = Unbegun(i, folder, delivered)
  BY SetsAre DEF Done, Unbegun
<1>3. RecordsTell'
  <2>1. Tells(journal.current, folder, delivered, Excepted, overlooked, child.current)
    BY DEF IInv, QueueTells, RecordsTell
  <2>2. Tells(journal.current, folder', delivered, Excepted', overlooked', child.current)
    BY <1>1, <2>1, TellsStays
  <2> QED
    BY <1>1, <2>2 DEF IInv, QueueTells, RecordsTell, NoManifest
<1>4. Item' = Item /\ plan' = plan /\ pc' = pc /\ child' = child /\ journal' = journal
  BY DEF Item
<1>5. PlanFollows' /\ FileFollows'
  BY <1>2, <1>4 DEF IInv, QueueTells, WorkerFollows, PlanFollows, FileFollows
<1>6. EndFollows'
  BY <1>1, <1>4 DEF IInv, QueueTells, WorkerFollows, EndFollows, NoManifest, Failed
<1>7. TurnFollows'
  BY <1>4 DEF IInv, QueueTells, WorkerFollows, TurnFollows, MayBegin
<1>8. HelperFollows'
  <2>1. pc = "helper" => Item \in QueueFolders
    BY DEF IInv, QueueTells, WorkerFollows, TurnFollows
  <2> QED
    BY <1>4, <2>1 DEF IInv, QueueTells, WorkerFollows, HelperFollows, Attends
<1>9. ReportIsTrue'
  <2>1. \A i \in Items : Delivered(i)' = Delivered(i)
    BY SetsAre DEF Delivered
  <2>2. report \in [outcome : Outcomes, published : SUBSET Items]
    BY TypesAre
  <2>3. CASE report' = report
    BY <1>1, <2>1, <2>2, <2>3 DEF IInv, QueueTells, ReportIsTrue, Excepted
  <2>4. CASE report' = NoReport
    BY <2>4 DEF ReportIsTrue, NoReport
  <2> QED
    BY <2>3, <2>4
<1> QED
  BY <1>3, <1>5, <1>6, <1>7, <1>8, <1>9 DEF QueueTells, WorkerFollows

(* One helper has done something, the others nothing. *)
LEMMA FoldersTell ==
  ASSUME IInv, NEW i \in Folders, Served(i, Excepted', overlooked'),
         confirmed \subseteq confirmed', overlooked \subseteq overlooked'
  PROVE  /\ FolderTells' /\ folder' \in [Folders -> Folder]
         /\ \A j \in Folders : j # i => folder'[j] = folder[j]
<1>1. folder'[i] \in Folder /\ Become(i, folder'[i])
  BY DEF Served, Serves
<1>2. folder' \in [Folders -> Folder] /\ \A j \in Folders : j # i => folder'[j] = folder[j]
  BY <1>1, TypesAre, BecomeIs
<1>3. Excepted \subseteq Excepted'
  BY DEF Excepted
<1>4. ASSUME NEW j \in Folders
      PROVE  /\ StageTells(j, folder'[j], Excepted', overlooked')
             /\ AnswerTells(j, folder'[j], Excepted', overlooked')
  <2>1. CASE j = i
    BY <2>1 DEF Served, Serves
  <2>2. CASE j # i
    <3>1. folder'[j] = folder[j]
      BY <1>2, <2>2
    <3>2. /\ StageTells(j, folder[j], Excepted, overlooked)
          /\ AnswerTells(j, folder[j], Excepted, overlooked)
      BY DEF IInv, FolderTells
    <3>3. StageTells(j, folder[j], Excepted', overlooked')
      BY <1>3, <3>2 DEF StageTells
    <3>4. AnswerTells(j, folder[j], Excepted', overlooked')
      BY <1>3, <3>2 DEF AnswerTells, NoManifest, Failed
    <3> QED
      BY <3>1, <3>3, <3>4
  <2> QED
    BY <2>1, <2>2
<1> QED
  BY <1>2, <1>4 DEF FolderTells

(* The numbers of the items. *)
LEMMA ItemIs ==
  ASSUME NEW i \in Items
  PROVE  i \in Nat /\ i > 0 /\ i <= Count /\ i # Count + 1 /\ Count \in Nat
         /\ (i \in Files \/ i \in QueueFolders) /\ ~(i \in Files /\ i \in QueueFolders)
<1>1. Count \in Nat /\ i \in 1..Count
  BY SetsAre DEF Items
<1>2. i \in Nat /\ i > 0 /\ i <= Count /\ i # Count + 1
  BY <1>1
<1> QED
  BY <1>1, <1>2 DEF Files, QueueFolders

-----------------------------------------------------------------------------
(* What the invariant says of the queue, part by part.                     *)
LEMMA QueueIs ==
  ASSUME IInv
  PROVE  /\ Tells(journal.current, folder, delivered, Excepted, overlooked, child.current)
         /\ MayComeBack(journal.previous, journal.current)
         /\ ChildFits(child, journal.current, delivered)
         /\ journal.current = NoPlan =>
              \A i \in QueueFolders : NoManifest(i, folder[i], overlooked)
         /\ PlanFollows /\ FileFollows /\ EndFollows /\ TurnFollows /\ HelperFollows
         /\ ReportIsTrue /\ FolderTells
BY DEF IInv, QueueTells, RecordsTell, WorkerFollows

(* The worker at work: its copy of the plan is the one that is saved.      *)
LEMMA AtWork ==
  ASSUME IInv, pc \notin {"idle", "prepare"}
  PROVE  /\ plan = journal.current /\ plan # NoPlan /\ plan \in Plan /\ Item = plan.index
         /\ Item \in 1..(Count + 1) /\ plan.phase \in 0..3 /\ report = NoReport
         /\ Item # Count + 1 => Item \in Items
         /\ Tells(plan, folder, delivered, Excepted, overlooked, child.current)
         /\ OthersTell(plan, folder, delivered, overlooked)
         /\ ItemTells(plan, folder, delivered, Excepted, overlooked, child.current)
         /\ ChildFits(child, plan, delivered) /\ MayComeBack(journal.previous, plan)
         /\ window = "idle"
<1>1. plan = journal.current /\ plan # NoPlan /\ plan \in Plan /\ report = NoReport
  BY QueueIs, TypesAre DEF PlanFollows
<1>2. Item = plan.index /\ plan.index \in 0..(Count + 1) /\ plan.phase \in 0..3
  BY <1>1, PlanIs DEF Item
<1>3. Tells(plan, folder, delivered, Excepted, overlooked, child.current)
  BY <1>1, QueueIs
<1>4. /\ plan.index > 0 /\ OthersTell(plan, folder, delivered, overlooked)
      /\ ItemTells(plan, folder, delivered, Excepted, overlooked, child.current)
  BY <1>1, <1>3 DEF Tells
<1>5. Item # Count + 1 => Item \in Items
  BY <1>2, <1>4, SetsAre DEF Items
<1>6. window = "idle"
  BY OneAtATime
<1>7. ChildFits(child, plan, delivered) /\ MayComeBack(journal.previous, plan)
  BY <1>1, QueueIs
<1>8. Item \in 1..(Count + 1)
  BY <1>2, <1>4, SetsAre
<1> QED
  BY <1>1, <1>2, <1>3, <1>4, <1>5, <1>6, <1>7, <1>8

(* What a plan publishes is there.                                         *)
LEMMA PublishedAreThere ==
  ASSUME NEW p \in Plan, NEW excepted, NEW unseen, NEW c,
         Tells(p, folder, delivered, excepted, unseen, c)
  PROVE  Published(p) \subseteq Items /\ \A i \in Published(p) : Delivered(i)
<1>1. Published(p) \subseteq Items
  BY DEF Published
<1>2. ASSUME NEW i \in Published(p)
      PROVE  Delivered(i)
  <2>1. i \in Items /\ (i < p.index \/ (i = p.index /\ p.phase = 2))
    BY <1>2 DEF Published
  <2>2. p # NoPlan
    BY <2>1, SetsAre, PlanIs
  <2>3. OthersTell(p, folder, delivered, unseen) /\ ItemTells(p, folder, delivered, excepted, unseen, c)
    BY <2>2 DEF Tells
  <2>4. Done(i, folder, delivered)
    BY <2>1, <2>3 DEF OthersTell, ItemTells
  <2> QED
    BY <2>4 DEF Done, Delivered
<1> QED
  BY <1>1, <1>2

(* A step of the worker that leaves everything else alone.                 *)
LEMMA QuietStep ==
  ASSUME IInv, ChildQuiet, UNCHANGED batch, pc' = "idle" \/ window = "idle",
         journal' \in Generations(Plan), plan' \in Plan, pc' \in Points, pc' # "helper",
         report' \in [outcome : Outcomes, published : SUBSET Items], faults' \in 0..MaxFaults,
         pc = "helper" => folder[Item].stage = "off",
         RecordsTell', PlanFollows', FileFollows', EndFollows', TurnFollows', ReportIsTrue'
  PROVE  IInv'
<1>1. /\ folder' = folder /\ child' = child /\ delivered' = delivered
      /\ away' = away /\ confirmed' = confirmed /\ overlooked' = overlooked
  BY DEF ChildQuiet, volume
<1>2. CommandsTypeOK'
  BY <1>1, TypesAre, TypesMake DEF batch
<1>3. FolderTells'
  BY <1>1, QueueIs DEF FolderTells, Excepted
<1>4. HelperFollows'
  BY <1>1, QueueIs DEF HelperFollows
<1>5. BatchTells'
  BY <1>1, BatchStays
<1> QED
  BY <1>2, <1>3, <1>4, <1>5 DEF IInv, QueueTells, WorkerFollows

(* A step of the worker that decides only what is next. *)
LEMMA GotoKeeps ==
  ASSUME IInv, NEW next \in Points \ {"idle", "prepare", "helper"}, Goto(next), ChildQuiet,
         UNCHANGED batch, pc \notin {"idle", "prepare"},
         pc = "helper" => folder[Item].stage = "off",
         FileFollows', EndFollows', TurnFollows'
  PROVE  IInv'
<1>1. /\ pc' = next /\ journal' = journal /\ plan' = plan /\ report' = report /\ faults' = faults
  BY DEF Goto
<1>2. /\ folder' = folder /\ child' = child /\ delivered' = delivered
      /\ confirmed' = confirmed /\ overlooked' = overlooked
  BY DEF ChildQuiet, volume
<1>3. RecordsTell'
  BY <1>1, <1>2 DEF IInv, QueueTells, RecordsTell, Excepted
<1>4. PlanFollows'
  BY <1>1, AtWork DEF PlanFollows
<1>5. ReportIsTrue'
  BY <1>1, <1>2, QueueIs DEF ReportIsTrue, Delivered
<1>6. window = "idle"
  BY OneAtATime
<1> QED
  BY <1>1, <1>3, <1>4, <1>5, <1>6, TypesAre, QuietStep

(* A run ends.                                                             *)
LEMMA EndKeeps ==
  ASSUME IInv, NEW outcome \in Outcomes, NEW p \in Plan, End(outcome, p), ChildQuiet,
         UNCHANGED batch, pc = "helper" => folder[Item].stage = "off",
         journal' \in Generations(Plan), faults' \in 0..MaxFaults, RecordsTell',
         Tells(p, folder, delivered, Excepted, overlooked, child.current),
         outcome = "success" => Published(p) = Items,
         outcome \in {"failed", "cancelled"} =>
           \A i \in Items \ Excepted : Delivered(i) => i \in Published(p)
  PROVE  IInv'
<1>1. /\ pc' = "idle" /\ plan' = NoPlan
      /\ report' = [outcome |-> outcome, published |-> Published(p)]
  BY DEF End
<1>2. /\ folder' = folder /\ delivered' = delivered
      /\ confirmed' = confirmed /\ overlooked' = overlooked
  BY DEF ChildQuiet, volume
<1>3. Published(p) \subseteq Items /\ \A i \in Published(p) : Delivered(i)
  BY PublishedAreThere
<1>4. /\ report' \in [outcome : Outcomes, published : SUBSET Items]
      /\ report'.outcome = outcome /\ report'.published = Published(p)
  BY <1>1, <1>3
<1>5. ReportIsTrue'
  <2>1. \A i \in Items : Delivered(i)' = Delivered(i)
    BY <1>2 DEF Delivered
  <2> QED
    BY <1>2, <1>3, <1>4, <2>1 DEF ReportIsTrue, Excepted
<1>6. PlanFollows' /\ FileFollows' /\ EndFollows' /\ TurnFollows'
  BY <1>1 DEF PlanFollows, FileFollows, EndFollows, TurnFollows
<1> QED
  BY <1>1, <1>4, <1>5, <1>6, PlanIs, QuietStep DEF Points

(* An end that is not certain: the record is still there.                  *)
LEMMA EndsUncertain ==
  ASSUME IInv, NEW outcome \in {"refused", "recovery"}, NEW p \in Plan, End(outcome, p),
         ChildQuiet, UNCHANGED batch, pc = "helper" => folder[Item].stage = "off",
         journal' \in Generations(Plan), faults' \in 0..MaxFaults, RecordsTell',
         Tells(p, folder, delivered, Excepted, overlooked, child.current)
  PROVE  IInv'
<1>1. outcome \in Outcomes /\ outcome \notin {"success", "failed", "cancelled"}
  BY DEF Outcomes
<1> QED
  BY <1>1, EndKeeps

(* A run that throws with its journal as it was.                           *)
LEMMA ThrowKeeps ==
  ASSUME IInv, pc \notin {"idle", "prepare"}, UNCHANGED journal, Throw(plan), ChildQuiet,
         UNCHANGED batch, pc = "helper" => folder[Item].stage = "off", faults' \in 0..MaxFaults
  PROVE  IInv'
<1>1. End("recovery", plan)
  BY AtWork DEF Throw
<1>2. RecordsTell'
  BY DEF IInv, QueueTells, RecordsTell, Excepted, ChildQuiet, volume
<1> QED
  BY <1>1, <1>2, AtWork, TypesAre, EndsUncertain

(* The next generation of the journal is as true as the plan in it.        *)
LEMMA WrittenTells ==
  ASSUME IInv, NEW p \in Plan, journal' = Written(p), p.index > 0, ChildQuiet,
         Tells(p, folder, delivered, Excepted, overlooked, child.current),
         MayComeBack(journal.current, p), ChildFits(child, p, delivered)
  PROVE  RecordsTell' /\ journal' \in Generations(Plan) /\ journal'.current = p /\ p # NoPlan
<1>1. /\ journal' \in Generations(Plan)
      /\ journal'.current = p /\ journal'.previous = journal.current
  BY WrittenIs
<1>2. /\ folder' = folder /\ child' = child /\ delivered' = delivered
      /\ confirmed' = confirmed /\ overlooked' = overlooked
  BY DEF ChildQuiet, volume
<1>3. p # NoPlan
  BY PlanIs
<1>4. Excepted' = Excepted
  BY <1>2 DEF Excepted
<1>5. RecordsTell'
  BY <1>1, <1>2, <1>3, <1>4 DEF RecordsTell
<1> QED
  BY <1>1, <1>3, <1>5

(* The worker saves its plan and goes on, or cannot, and recovery is       *)
(* offered.                                                                *)
LEMMA SaveKeeps ==
  ASSUME IInv, pc \notin {"idle", "prepare"}, NEW p \in Plan, p.index > 0,
         NEW next \in Points \ {"idle", "prepare", "helper"},
         Save(p, next) \/ SaveFails(p), ChildQuiet, UNCHANGED batch,
         pc = "helper" => folder[Item].stage = "off",
         Tells(p, folder, delivered, Excepted, overlooked, child.current),
         MayComeBack(journal.current, p), ChildFits(child, p, delivered),
         Save(p, next) => FileFollows' /\ EndFollows' /\ TurnFollows'
  PROVE  IInv'
<1>1. CASE Save(p, next)
  <2>1. /\ journal' = Written(p) /\ plan' = p /\ pc' = next
        /\ report' = report /\ faults' = faults
    BY <1>1 DEF Save
  <2>2. RecordsTell' /\ journal' \in Generations(Plan) /\ journal'.current = p /\ p # NoPlan
    BY <2>1, WrittenTells
  <2>3. PlanFollows'
    BY <2>1, <2>2, AtWork DEF PlanFollows
  <2>4. ReportIsTrue'
    BY <2>1, QueueIs DEF ReportIsTrue, Delivered, ChildQuiet, volume
  <2>5. window = "idle"
    BY OneAtATime
  <2> QED
    BY <1>1, <2>1, <2>2, <2>3, <2>4, <2>5, TypesAre, QuietStep
<1>2. CASE SaveFails(p)
  <2>1. journal' \in {journal, Written(p)} /\ faults' = faults + 1 /\ faults < MaxFaults /\ Throw(p)
    BY <1>2 DEF SaveFails
  <2>2. RecordsTell' /\ journal' \in Generations(Plan) /\ journal'.current # NoPlan
    <3>1. CASE journal' = journal
      <4>1. RecordsTell'
        BY <3>1 DEF IInv, QueueTells, RecordsTell, Excepted, ChildQuiet, volume
      <4> QED
        BY <3>1, <4>1, AtWork, TypesAre
    <3>2. CASE journal' = Written(p)
      BY <3>2, WrittenTells
    <3> QED
      BY <2>1, <3>1, <3>2
  <2>3. End("recovery", p)
    BY <2>1, <2>2 DEF Throw
  <2>4. faults' \in 0..MaxFaults
    BY <2>1, TypesAre, SetsAre
  <2> QED
    BY <2>2, <2>3, <2>4, EndsUncertain
<1> QED
  BY <1>1, <1>2

-----------------------------------------------------------------------------
(* The steps of the queue, one by one.                                     *)

(* A new selection is accepted, or refused because a record is there. *)
LEMMA StartKeeps ==
  ASSUME IInv, Start, QueueMayRun, UNCHANGED batch
  PROVE  IInv'
<1>1. /\ pc = "idle" /\ ChildQuiet /\ journal' = journal /\ faults' = faults
      /\ folder' = folder /\ child' = child /\ delivered' = delivered
      /\ confirmed' = confirmed /\ overlooked' = overlooked
  BY DEF Start, ChildQuiet, volume
<1>2. RecordsTell'
  BY <1>1 DEF IInv, QueueTells, RecordsTell, Excepted
<1>3. plan = NoPlan
  BY <1>1, QueueIs DEF PlanFollows
<1>4. CASE journal.current = NoPlan /\ child.current = NoChild
  <2>1. /\ \A i \in Items : ~Delivered(i)
        /\ \A i \in QueueFolders : folder[i].evidence = "none"
        /\ pc' = "prepare" /\ report' = NoReport /\ plan' = plan
    BY <1>4 DEF Start
  <2>2. \A i \in Items : Unbegun(i, folder, delivered)
    BY <2>1, SetsAre DEF Unbegun, Untried, Delivered
  <2>3. PlanFollows'
    BY <1>1, <1>3, <1>4, <2>1, <2>2 DEF PlanFollows
  <2>4. FileFollows' /\ EndFollows' /\ TurnFollows'
    BY <2>1 DEF FileFollows, EndFollows, TurnFollows
  <2>5. ReportIsTrue' /\ report' \in [outcome : Outcomes, published : SUBSET Items]
    BY <2>1 DEF ReportIsTrue, NoReport, Outcomes
  <2>6. window = "idle" /\ "prepare" \in Points
    BY DEF QueueMayRun, Points
  <2> QED
    BY <1>1, <1>2, <2>1, <2>3, <2>4, <2>5, <2>6, TypesAre, QuietStep
<1>5. CASE ~(journal.current = NoPlan /\ child.current = NoChild)
  <2>1. End("refused", NoPlan)
    BY <1>5 DEF Start
  <2>2. Tells(NoPlan, folder, delivered, Excepted, overlooked, child.current)
    BY DEF Tells
  <2> QED
    BY <1>1, <1>2, <2>1, <2>2, PlanIs, TypesAre, EndsUncertain
<1> QED
  BY <1>4, <1>5

(* The first plan is written, or cannot be. *)
LEMMA PrepareKeeps ==
  ASSUME IInv, Prepare, UNCHANGED batch
  PROVE  IInv'
<1>1. /\ pc = "prepare" /\ ChildQuiet
      /\ folder' = folder /\ child' = child /\ delivered' = delivered
      /\ confirmed' = confirmed /\ overlooked' = overlooked
  BY DEF Prepare, ChildQuiet, volume
<1>2. /\ journal.current = NoPlan /\ \A i \in Items : Unbegun(i, folder, delivered)
      /\ report = NoReport
  BY <1>1, QueueIs DEF PlanFollows
<1>3. Tells(NewPlan, folder, delivered, Excepted, overlooked, child.current)
  <2>1. \A i \in Items : ~(i < 1)
    BY SetsAre
  <2>2. OthersTell(NewPlan, folder, delivered, overlooked)
    BY <1>2, <2>1, PlanIs DEF OthersTell
  <2>3. ItemTells(NewPlan, folder, delivered, Excepted, overlooked, child.current)
    BY <1>2, PlanIs DEF ItemTells
  <2> QED
    BY <2>2, <2>3, PlanIs DEF Tells
<1>4. MayComeBack(journal.current, NewPlan)
  BY <1>2, PlanIs DEF MayComeBack
<1>5. child.current = NoChild /\ ChildFits(child, NewPlan, delivered)
  <2>1. ChildFits(child, NoPlan, delivered)
    BY <1>2, QueueIs
  <2>2. child.current = NoChild
    BY <2>1, PlanIs DEF ChildFits
  <2> QED
    BY <2>1, <2>2 DEF ChildFits
<1>6. NewPlan \in Plan /\ NewPlan.index > 0
  BY PlanIs
<1>7. window = "idle"
  BY <1>1, OneAtATime
<1>8. CASE Save(NewPlan, "next")
  <2>1. /\ journal' = Written(NewPlan) /\ plan' = NewPlan /\ pc' = "next"
        /\ report' = report /\ faults' = faults
    BY <1>8 DEF Save
  <2>2. RecordsTell' /\ journal' \in Generations(Plan) /\ journal'.current = NewPlan
    BY <1>1, <1>3, <1>4, <1>5, <1>6, <2>1, WrittenTells
  <2>3. PlanFollows' /\ FileFollows' /\ EndFollows' /\ TurnFollows'
    BY <1>2, <2>1, <2>2, PlanIs DEF PlanFollows, FileFollows, EndFollows, TurnFollows
  <2>4. ReportIsTrue'
    BY <1>2, <2>1 DEF ReportIsTrue, NoReport
  <2> QED
    BY <1>1, <1>6, <1>7, <2>1, <2>2, <2>3, <2>4, TypesAre, QuietStep DEF Points
<1>9. CASE SaveFails(NewPlan)
  <2>1. /\ journal' \in {journal, Written(NewPlan)} /\ faults' = faults + 1 /\ faults < MaxFaults
        /\ Throw(NewPlan)
    BY <1>9 DEF SaveFails
  <2>2. faults' \in 0..MaxFaults
    BY <2>1, TypesAre, SetsAre
  <2>3. CASE journal' = journal
    <3>1. RecordsTell'
      BY <1>1, <2>3 DEF IInv, QueueTells, RecordsTell, Excepted
    <3>2. End("failed", NewPlan)
      BY <1>2, <2>1, <2>3 DEF Throw
    <3>3. \A i \in Items : ~Delivered(i)
      BY <1>2 DEF Unbegun, Untried, Delivered
    <3>4. "failed" \in Outcomes /\ "failed" # "success"
      BY DEF Outcomes
    <3> QED
      BY <1>1, <1>3, <1>6, <2>2, <2>3, <3>1, <3>2, <3>3, <3>4, TypesAre, EndKeeps
  <2>4. CASE journal' = Written(NewPlan)
    <3>1. RecordsTell' /\ journal' \in Generations(Plan) /\ journal'.current # NoPlan
      BY <1>1, <1>3, <1>4, <1>5, <1>6, <2>4, WrittenTells
    <3>2. End("recovery", NewPlan)
      BY <2>1, <3>1 DEF Throw
    <3> QED
      BY <1>1, <1>3, <1>6, <2>2, <3>1, <3>2, EndsUncertain
  <2> QED
    BY <2>1, <2>3, <2>4
<1> QED
  BY <1>8, <1>9 DEF Prepare

(* The user cancels, or the selection is refused, before there is a plan. *)
LEMMA PrepareNothingKeeps ==
  ASSUME IInv, PrepareNothing, UNCHANGED batch
  PROVE  IInv'
<1>1. /\ pc = "prepare" /\ ChildQuiet /\ journal' = journal /\ faults' = faults
      /\ folder' = folder /\ child' = child /\ delivered' = delivered
      /\ confirmed' = confirmed /\ overlooked' = overlooked
  BY DEF PrepareNothing, ChildQuiet, volume
<1>2. \A i \in Items : Unbegun(i, folder, delivered)
  BY <1>1, QueueIs DEF PlanFollows
<1>3. \A i \in Items : ~Delivered(i)
  BY <1>2 DEF Unbegun, Untried, Delivered
<1>4. RecordsTell'
  BY <1>1 DEF IInv, QueueTells, RecordsTell, Excepted
<1>5. PICK outcome \in {"cancelled", "failed"} : End(outcome, NoPlan)
  BY DEF PrepareNothing
<1>6. Tells(NoPlan, folder, delivered, Excepted, overlooked, child.current)
  BY DEF Tells
<1>7. outcome \in Outcomes /\ outcome # "success"
  BY DEF Outcomes
<1> QED
  BY <1>1, <1>3, <1>4, <1>5, <1>6, <1>7, PlanIs, TypesAre, EndKeeps

(* The plan is loaded and the worker begins. *)
LEMMA ResumeKeeps ==
  ASSUME IInv, Resume, QueueMayRun, UNCHANGED batch
  PROVE  IInv'
<1>1. /\ pc = "idle" /\ ChildQuiet /\ journal' = journal /\ faults' = faults
      /\ plan' = journal.current /\ plan' # NoPlan /\ pc' = "next" /\ report' = NoReport
      /\ folder' = folder /\ child' = child /\ delivered' = delivered
      /\ confirmed' = confirmed /\ overlooked' = overlooked
  BY DEF Resume, ChildQuiet, volume
<1>2. RecordsTell'
  BY <1>1 DEF IInv, QueueTells, RecordsTell, Excepted
<1>3. PlanFollows' /\ FileFollows' /\ EndFollows' /\ TurnFollows'
  BY <1>1 DEF PlanFollows, FileFollows, EndFollows, TurnFollows
<1>4. ReportIsTrue' /\ report' \in [outcome : Outcomes, published : SUBSET Items]
  BY <1>1 DEF ReportIsTrue, NoReport, Outcomes
<1>5. window = "idle" /\ "next" \in Points
  BY DEF QueueMayRun, Points
<1> QED
  BY <1>1, <1>2, <1>3, <1>4, <1>5, TypesAre, QuietStep

(* A plan for the same item says the same of the others.                   *)
LEMMA OthersKeep ==
  ASSUME NEW p, NEW q, q.index = p.index, NEW fs, NEW del, NEW unseen,
         OthersTell(p, fs, del, unseen)
  PROVE  OthersTell(q, fs, del, unseen)
BY DEF OthersTell

(* The item is about to start, and the plan says so. *)
LEMMA OpenKeeps ==
  ASSUME IInv, Open, UNCHANGED batch
  PROVE  IInv'
<1> DEFINE p == [plan EXCEPT !.phase = 1]
           next == IF Item \in Files THEN "file" ELSE "fresh"
<1>1. pc = "next" /\ Item <= Count /\ plan.phase = 0 /\ ChildQuiet
  BY DEF Open
<1>2. Save(p, next) \/ SaveFails(p)
  BY DEF Open
<1>3. /\ plan \in Plan /\ Item = plan.index /\ Item \in Items /\ plan = journal.current
      /\ OthersTell(plan, folder, delivered, overlooked)
      /\ ItemTells(plan, folder, delivered, Excepted, overlooked, child.current)
      /\ ChildFits(child, plan, delivered) /\ Item # Count + 1 /\ Item > 0
  BY <1>1, AtWork, SetsAre
<1>4. p \in Plan /\ p.index = Item /\ p.phase = 1
  BY <1>3 DEF Plan
<1>5. next \in {"file", "fresh"} /\ (next = "file" => Item \in Files)
      /\ (next = "fresh" => Item \in QueueFolders)
  BY <1>3, SetsAre
<1> HIDE DEF p, next
<1>6. Unbegun(Item, folder, delivered)
  BY <1>1, <1>3 DEF ItemTells
<1>7. Tells(p, folder, delivered, Excepted, overlooked, child.current)
  <2>1. OthersTell(p, folder, delivered, overlooked)
    BY <1>3, <1>4, OthersKeep
  <2>2. ItemTells(p, folder, delivered, Excepted, overlooked, child.current)
    BY <1>3, <1>4, <1>6, SetsAre DEF ItemTells, Unbegun, Untried, Silent
  <2> QED
    BY <1>3, <1>4, <2>1, <2>2 DEF Tells
<1>8. p # NoPlan /\ MayComeBack(journal.current, p)
  BY <1>3, <1>4, PlanIs DEF MayComeBack
<1>9. child.current = NoChild /\ ChildFits(child, p, delivered)
  BY <1>1, <1>3 DEF ChildFits
<1>10. ASSUME Save(p, next) PROVE FileFollows' /\ EndFollows' /\ TurnFollows'
  <2>1. /\ plan' = p /\ pc' = next /\ Item' = Item /\ child' = child
        /\ folder' = folder /\ overlooked' = overlooked /\ confirmed' = confirmed
    BY <1>1, <1>4, <1>10 DEF Save, ChildQuiet, volume, Item
  <2>2. FileFollows' /\ EndFollows'
    BY <1>4, <1>5, <2>1 DEF FileFollows, EndFollows
  <2>3. Item \in QueueFolders => MayBegin(Item, folder[Item])
    BY <1>6, SetsAre DEF Unbegun, Untried, MayBegin
  <2>4. TurnFollows'
    BY <1>4, <1>5, <2>1, <2>3 DEF TurnFollows, MayBegin
  <2> QED
    BY <2>2, <2>4
<1>11. next \in Points \ {"idle", "prepare", "helper"}
  BY <1>5 DEF Points
<1> QED
  BY <1>1, <1>2, <1>3, <1>4, <1>7, <1>8, <1>9, <1>10, <1>11, SaveKeeps

(* An item that an earlier run began is taken up where its records are. *)
LEMMA ReopenKeeps ==
  ASSUME IInv, Reopen, UNCHANGED batch
  PROVE  IInv'
<1>1. /\ pc = "next" /\ Item <= Count /\ plan.phase # 0 /\ ChildQuiet
      /\ folder' = folder /\ child' = child
      /\ confirmed' = confirmed /\ overlooked' = overlooked
  BY DEF Reopen, ChildQuiet, volume
<1>2. /\ Item = plan.index /\ Item \in Items /\ plan.phase \in 0..3 /\ Item # Count + 1
      /\ ChildFits(child, plan, delivered)
      /\ ItemTells(plan, folder, delivered, Excepted, overlooked, child.current)
  BY <1>1, AtWork, SetsAre
<1>3. /\ Item \in Files => Item \notin QueueFolders
      /\ Item \in Files \/ Item \in QueueFolders
  BY <1>2, SetsAre
<1>4. Item \in QueueFolders => child.current = NoChild
  BY <1>2, SetsAre DEF ChildFits
<1>5. PICK next \in {"retire", "advance", "file", "recover"} :
        /\ Goto(next)
        /\ next = "retire" => plan.phase = 3 /\ child.current = NoChild
        /\ next = "advance" => Item \in Files /\ child.current = NoChild
        /\ next = "file" => Item \in Files /\ (child.current = NoChild => plan.phase = 1)
        /\ next = "recover" => Item \in QueueFolders /\ plan.phase \in {1, 2}
  <2>1. CASE Item \in Files /\ plan.phase >= 2 /\ child.current = NoChild
    BY <1>2, <2>1 DEF Reopen
  <2>2. CASE Item \in Files /\ ~(plan.phase >= 2 /\ child.current = NoChild)
    <3>1. Goto("file")
      BY <1>3, <2>2 DEF Reopen
    <3> QED
      BY <1>1, <1>2, <2>2, <3>1
  <2>3. CASE Item \in QueueFolders /\ plan.phase = 3
    <3>1. Goto("retire")
      BY <1>3, <2>3 DEF Reopen
    <3> QED
      BY <1>4, <2>3, <3>1
  <2>4. CASE Item \in QueueFolders /\ plan.phase # 3
    <3>1. Goto("recover")
      BY <1>3, <2>4 DEF Reopen
    <3> QED
      BY <1>1, <1>2, <2>4, <3>1
  <2> QED
    BY <1>3, <2>1, <2>2, <2>3, <2>4
<1>6. /\ plan' = plan /\ pc' = next /\ Item' = Item
  BY <1>5 DEF Goto, Item
<1>7. FileFollows' /\ EndFollows' /\ TurnFollows'
  BY <1>1, <1>2, <1>3, <1>5, <1>6 DEF FileFollows, EndFollows, TurnFollows
<1>8. next \in Points \ {"idle", "prepare", "helper"}
  BY DEF Points
<1> QED
  BY <1>1, <1>5, <1>7, <1>8, GotoKeeps

(* All items are done. *)
LEMMA FinishKeeps ==
  ASSUME IInv, Finish, UNCHANGED batch
  PROVE  IInv'
<1>1. /\ pc = "next" /\ Item = Count + 1 /\ ChildQuiet /\ Goto("retire")
      /\ folder' = folder /\ child' = child
  BY DEF Finish, ChildQuiet, volume
<1>2. child.current = NoChild
  <2>1. ItemTells(plan, folder, delivered, Excepted, overlooked, child.current) /\ Item = plan.index
        /\ ChildFits(child, plan, delivered)
    BY <1>1, AtWork
  <2> QED
    BY <1>1, <2>1 DEF ItemTells, ChildFits
<1>3. plan' = plan /\ pc' = "retire" /\ Item' = Item
  BY <1>1 DEF Goto, Item
<1>4. FileFollows' /\ EndFollows' /\ TurnFollows'
  BY <1>1, <1>2, <1>3 DEF FileFollows, EndFollows, TurnFollows
<1>5. "retire" \in Points \ {"idle", "prepare", "helper"}
  BY DEF Points
<1> QED
  BY <1>1, <1>4, <1>5, GotoKeeps

(* The item is done and the plan names the next. *)
LEMMA AdvanceKeeps ==
  ASSUME IInv, Advance, UNCHANGED batch
  PROVE  IInv'
<1> DEFINE p == [NewPlan EXCEPT !.index = Item + 1]
<1>1. pc = "advance" /\ plan.phase = 2 /\ ChildQuiet
  BY DEF Advance
<1>2. Save(p, "next") \/ SaveFails(p)
  BY DEF Advance
<1>3. /\ plan \in Plan /\ Item = plan.index /\ plan = journal.current
      /\ OthersTell(plan, folder, delivered, overlooked)
      /\ ItemTells(plan, folder, delivered, Excepted, overlooked, child.current)
  BY <1>1, AtWork
<1>4. /\ child.current = NoChild /\ Item \in Items
      /\ Item \in QueueFolders => NoManifest(Item, folder[Item], overlooked)
  BY <1>1, QueueIs DEF EndFollows
<1>5. Item \in 1..Count /\ Item + 1 \in 0..(Count + 1) /\ Count \in Nat /\ Items \subseteq Nat
  BY <1>4, SetsAre DEF Items
<1>6. p \in Plan /\ p.index = Item + 1 /\ p.phase = 0
  <2>1. NewPlan \in Plan /\ NewPlan.phase = 0
    BY PlanIs
  <2> QED
    BY <1>5, <2>1 DEF Plan
<1> HIDE DEF p
<1>7. Tells(p, folder, delivered, Excepted, overlooked, child.current)
  <2>1. Done(Item, folder, delivered)
    BY <1>1, <1>3 DEF ItemTells
  <2>2. ASSUME NEW i \in Items, i < p.index
        PROVE  Done(i, folder, delivered)
               /\ (i \in QueueFolders => NoManifest(i, folder[i], overlooked))
    <3>1. i < plan.index \/ i = Item
      BY <1>3, <1>5, <1>6, <2>2
    <3> QED
      BY <1>3, <1>4, <2>1, <2>2, <3>1 DEF OthersTell
  <2>3. ASSUME NEW i \in Items, i > p.index
        PROVE  Unbegun(i, folder, delivered)
    <3>1. i > plan.index
      BY <1>3, <1>5, <1>6, <2>3
    <3> QED
      BY <1>3, <2>3, <3>1 DEF OthersTell
  <2>4. OthersTell(p, folder, delivered, overlooked)
    BY <2>2, <2>3 DEF OthersTell
  <2>5. p.index \in Items => Unbegun(p.index, folder, delivered)
    <3>1. p.index > plan.index
      BY <1>3, <1>5, <1>6
    <3> QED
      BY <1>3, <3>1 DEF OthersTell
  <2>6. ItemTells(p, folder, delivered, Excepted, overlooked, child.current)
    BY <1>6, <2>5 DEF ItemTells
  <2> QED
    BY <1>5, <1>6, <2>4, <2>6 DEF Tells
<1>8. p.index > 0 /\ p # NoPlan
  BY <1>5, <1>6, PlanIs
<1>9. MayComeBack(journal.current, p)
  BY <1>1, <1>3, <1>5, <1>6, <1>8 DEF MayComeBack
<1>10. ChildFits(child, p, delivered)
  BY <1>1, <1>4, AtWork DEF ChildFits
<1>11. ASSUME Save(p, "next") PROVE FileFollows' /\ EndFollows' /\ TurnFollows'
  BY <1>11 DEF Save, FileFollows, EndFollows, TurnFollows
<1>12. "next" \in Points \ {"idle", "prepare", "helper"}
  BY DEF Points
<1> QED
  BY <1>1, <1>2, <1>6, <1>7, <1>8, <1>9, <1>10, <1>11, <1>12, SaveKeeps

(* The queue ends because nothing of the item has been begun. *)
LEMMA TerminalKeeps ==
  ASSUME IInv, Terminal, UNCHANGED batch
  PROVE  IInv'
<1> DEFINE p == [plan EXCEPT !.phase = 3, !.manifest = FALSE, !.cancelled = FALSE]
<1>1. pc = "terminal" /\ ChildQuiet
  BY DEF Terminal
<1>2. Save(p, "retire") \/ SaveFails(p)
  BY DEF Terminal
<1>3. /\ plan \in Plan /\ Item = plan.index /\ plan = journal.current
      /\ OthersTell(plan, folder, delivered, overlooked)
      /\ ItemTells(plan, folder, delivered, Excepted, overlooked, child.current)
      /\ ChildFits(child, plan, delivered)
  BY <1>1, AtWork
<1>4. /\ child.current = NoChild /\ plan.phase = 1 /\ Item \in Items
      /\ Item \in QueueFolders => Failed(Item, folder[Item], Excepted, overlooked)
  BY <1>1, QueueIs DEF EndFollows
<1>5. p \in Plan /\ p.index = Item /\ p.phase = 3
  <2> DEFINE q == [plan EXCEPT !.phase = 3]
             r == [q EXCEPT !.manifest = FALSE]
  <2>1. q \in Plan /\ q.index = Item /\ q.phase = 3
    BY <1>3 DEF Plan
  <2>2. r \in Plan /\ r.index = Item /\ r.phase = 3 /\ p = [r EXCEPT !.cancelled = FALSE]
    <3>1. p = [r EXCEPT !.cancelled = FALSE]
      OBVIOUS
    <3> HIDE DEF q, p
    <3> QED
      BY <2>1, <3>1 DEF Plan
  <2> HIDE DEF q, r, p
  <2> QED
    BY <2>2 DEF Plan
<1>6. Item > 0 /\ Item # Count + 1
  BY <1>4, SetsAre
<1> HIDE DEF p
<1>7. Tells(p, folder, delivered, Excepted, overlooked, child.current)
  <2>1. OthersTell(p, folder, delivered, overlooked)
    BY <1>3, <1>5, OthersKeep
  <2>2. ItemTells(p, folder, delivered, Excepted, overlooked, child.current)
    BY <1>3, <1>4, <1>5, <1>6 DEF ItemTells
  <2> QED
    BY <1>5, <1>6, <2>1, <2>2 DEF Tells
<1>8. p # NoPlan /\ MayComeBack(journal.current, p)
  BY <1>3, <1>4, <1>5, <1>6, PlanIs DEF MayComeBack
<1>9. ChildFits(child, p, delivered)
  BY <1>3, <1>4 DEF ChildFits
<1>10. ASSUME Save(p, "retire") PROVE FileFollows' /\ EndFollows' /\ TurnFollows'
  <2>1. plan' = p /\ pc' = "retire" /\ child' = child
    BY <1>1, <1>10 DEF Save, ChildQuiet
  <2> QED
    BY <1>4, <1>5, <2>1 DEF FileFollows, EndFollows, TurnFollows
<1>11. "retire" \in Points \ {"idle", "prepare", "helper"}
  BY DEF Points
<1> QED
  BY <1>1, <1>2, <1>5, <1>6, <1>7, <1>8, <1>9, <1>10, <1>11, SaveKeeps

(* Nothing is left once the journal of the queue is removed: all is done,  *)
(* or the item under way failed, and nothing after it has begun.           *)
LEMMA RetiredTells ==
  ASSUME IInv, pc = "retire", ChildQuiet
  PROVE  /\ journal'.current = NoPlan /\ journal'.previous = NoPlan => RecordsTell'
         /\ \A i \in Items \ Excepted : Delivered(i) => i \in Published(plan)
<1>1. /\ folder' = folder /\ child' = child /\ delivered' = delivered
      /\ confirmed' = confirmed /\ overlooked' = overlooked
  BY DEF ChildQuiet, volume
<1>2. /\ plan \in Plan /\ Item = plan.index /\ Item \in 1..(Count + 1)
      /\ Item # Count + 1 => Item \in Items
      /\ Tells(plan, folder, delivered, Excepted, overlooked, child.current)
      /\ OthersTell(plan, folder, delivered, overlooked)
      /\ ItemTells(plan, folder, delivered, Excepted, overlooked, child.current)
      /\ ChildFits(child, plan, delivered)
  BY AtWork
<1>3. child.current = NoChild /\ (plan.phase = 3 \/ Item = Count + 1)
  BY QueueIs DEF EndFollows
<1>4. \A i \in Items : i < Item \/ i = Item \/ i > Item
  <2>1. Item \in Nat
    BY <1>2, SetsAre
  <2> QED
    BY <2>1, ItemIs
<1>6. \A i \in QueueFolders : NoManifest(i, folder[i], overlooked)
  <2> SUFFICES ASSUME NEW i \in QueueFolders PROVE NoManifest(i, folder[i], overlooked)
    OBVIOUS
  <2>1. i \in Items
    BY SetsAre
  <2>2. CASE i < Item
    BY <1>2, <2>1, <2>2 DEF OthersTell
  <2>3. CASE i > Item
    BY <1>2, <2>1, <2>3, SetsAre DEF OthersTell, Unbegun, Untried, NoManifest
  <2>4. CASE i = Item
    <3>1. plan.phase = 3
      BY <1>2, <1>3, <2>1, <2>4, SetsAre
    <3>2. Failed(i, folder[i], Excepted, overlooked)
      BY <1>2, <2>4, <3>1 DEF ItemTells
    <3> QED
      BY <3>2 DEF Failed
  <2> QED
    BY <1>4, <2>1, <2>2, <2>3, <2>4
<1>7. ASSUME journal'.current = NoPlan, journal'.previous = NoPlan
      PROVE  RecordsTell'
  <2>1. Tells(NoPlan, folder, delivered, Excepted, overlooked, child.current)
    BY DEF Tells
  <2>2. MayComeBack(NoPlan, NoPlan)
    BY PlanIs DEF MayComeBack
  <2>3. ChildFits(child, NoPlan, delivered)
    BY <1>2, <1>3 DEF ChildFits
  <2> QED
    BY <1>1, <1>6, <1>7, <2>1, <2>2, <2>3 DEF RecordsTell, Excepted
<1>9. ASSUME NEW i \in Items \ Excepted, Delivered(i)
      PROVE  i \in Published(plan)
  <2>1. Done(i, folder, delivered)
    BY <1>9 DEF Delivered, Done
  <2>2. ~Unbegun(i, folder, delivered)
    BY <2>1 DEF Done, Unbegun, Untried
  <2>3. i < Item \/ i = Item
    BY <1>2, <1>4, <1>9, <2>2 DEF OthersTell
  <2>4. i # Item
    <3> SUFFICES ASSUME i = Item PROVE FALSE
      OBVIOUS
    <3>1. plan.phase = 3
      BY <1>2, <1>3, <1>9, SetsAre
    <3>2. CASE i \in Files
      BY <1>2, <1>3, <2>1, <3>1, <3>2 DEF ItemTells, Done
    <3>3. CASE i \in QueueFolders
      <4>1. folder[i].delivered
        BY <2>1, <3>3, SetsAre DEF Done
      <4> QED
        BY <1>2, <1>9, <3>1, <3>3, <4>1 DEF ItemTells, Failed
    <3> QED
      BY <1>9, <3>2, <3>3, SetsAre
  <2> QED
    BY <1>2, <1>9, <2>3, <2>4 DEF Published
<1> QED
  BY <1>7, <1>9

(* The journal of the queue is removed, and the user is told how it        *)
(* ended.                                                                  *)
LEMMA RetireQueueKeeps ==
  ASSUME IInv, RetireQueue, UNCHANGED batch
  PROVE  IInv'
<1>1. /\ pc = "retire" /\ ChildQuiet /\ journal' = Empty /\ End(Ending, plan) /\ faults' = faults
  BY DEF RetireQueue
<1>2. /\ plan \in Plan /\ Item = plan.index /\ Item \in 1..(Count + 1)
      /\ Tells(plan, folder, delivered, Excepted, overlooked, child.current)
  BY <1>1, AtWork
<1>3. /\ journal' \in Generations(Plan)
      /\ journal'.current = NoPlan /\ journal'.previous = NoPlan
  BY <1>1, PlanIs DEF Empty, Generations
<1>4. /\ RecordsTell'
      /\ \A i \in Items \ Excepted : Delivered(i) => i \in Published(plan)
  BY <1>1, <1>3, RetiredTells
<1>5. Ending = "success" => Published(plan) = Items
  <2>1. Ending = "success" => Item = Count + 1
    BY DEF Ending
  <2>2. Item = Count + 1 => \A i \in Items : i < plan.index
    BY <1>2, SetsAre
  <2> QED
    BY <2>1, <2>2 DEF Published
<1>6. Ending \in Outcomes /\ faults' \in 0..MaxFaults
  BY <1>1, TypesAre DEF Ending, Outcomes
<1> QED
  BY <1>1, <1>2, <1>3, <1>4, <1>5, <1>6, EndKeeps

(* The removal may be half done: the record before comes back, of the same *)
(* item as it was, or of the last one when all are done.                   *)
LEMMA HalfRetired ==
  ASSUME IInv, pc = "retire", ChildQuiet,
         journal' \in {journal, [journal EXCEPT !.current = journal.previous, !.previous = NoPlan]}
  PROVE  /\ journal' \in Generations(Plan)
         /\ journal'.current = NoPlan => journal'.previous = NoPlan
         /\ journal'.current # NoPlan => RecordsTell'
<1>1. /\ plan = journal.current /\ plan \in Plan /\ plan # NoPlan /\ Item = plan.index
      /\ Item \in 1..(Count + 1)
      /\ Tells(plan, folder, delivered, Excepted, overlooked, child.current)
      /\ OthersTell(plan, folder, delivered, overlooked)
      /\ ItemTells(plan, folder, delivered, Excepted, overlooked, child.current)
      /\ ChildFits(child, plan, delivered) /\ MayComeBack(journal.previous, plan)
  BY AtWork
<1>2. child.current = NoChild /\ (plan.phase = 3 \/ Item = Count + 1)
  BY QueueIs DEF EndFollows
<1>3. /\ folder' = folder /\ child' = child /\ delivered' = delivered
      /\ confirmed' = confirmed /\ overlooked' = overlooked
  BY DEF ChildQuiet, volume
<1>4. journal \in Generations(Plan) /\ journal.previous \in Plan
  BY TypesAre
<1>5. CASE journal' = journal
  BY <1>1, <1>3, <1>4, <1>5 DEF IInv, QueueTells, RecordsTell, Excepted
<1>6. CASE journal' = [journal EXCEPT !.current = journal.previous, !.previous = NoPlan]
  <2> DEFINE q == journal.previous
  <2>1. journal' = [current |-> q, previous |-> NoPlan]
    BY <1>4, <1>6 DEF Generations
  <2>2. q \in Plan /\ NoPlan \in Plan
    BY <1>4, PlanIs
  <2>3. journal' \in Generations(Plan) /\ journal'.current = q /\ journal'.previous = NoPlan
    BY <2>1, <2>2, GenerationsAre
  <2>4. MayComeBack(q, plan)
    BY <1>1
  <2> HIDE DEF q
  <2>5. ASSUME q # NoPlan PROVE RecordsTell'
    <3>1. q.index > 0
      BY <2>4, <2>5 DEF MayComeBack
    <3>2. Tells(q, folder, delivered, Excepted, overlooked, child.current)
      <4>1. CASE Item = Count + 1
        <5>1. q.index = Count /\ q.phase = 2
          BY <1>1, <2>4, <2>5, <4>1 DEF MayComeBack
        <5>2. \A i \in Items : i < plan.index /\ ~(i > Count)
          BY <1>1, <4>1, SetsAre
        <5>3. \A i \in Items : /\ Done(i, folder, delivered)
                               /\ i \in QueueFolders => NoManifest(i, folder[i], overlooked)
          BY <1>1, <5>2 DEF OthersTell
        <5>4. OthersTell(q, folder, delivered, overlooked)
          BY <5>1, <5>2, <5>3 DEF OthersTell
        <5>5. Count \in Items /\ Count # Count + 1
          BY SetsAre DEF Items
        <5>6. ItemTells(q, folder, delivered, Excepted, overlooked, child.current)
          BY <5>1, <5>3, <5>5 DEF ItemTells
        <5> QED
          BY <3>1, <5>4, <5>6 DEF Tells
      <4>2. CASE Item # Count + 1
        <5>1. plan.phase = 3 /\ q.index = Item /\ q.phase \in {1, 3}
          BY <1>1, <1>2, <2>4, <2>5, <4>2 DEF MayComeBack
        <5>2. OthersTell(q, folder, delivered, overlooked)
          BY <1>1, <5>1, OthersKeep
        <5>3. ItemTells(q, folder, delivered, Excepted, overlooked, child.current)
          BY <1>1, <1>2, <4>2, <5>1 DEF ItemTells, Failed, Silent
        <5> QED
          BY <3>1, <5>2, <5>3 DEF Tells
      <4> QED
        BY <4>1, <4>2
    <3>3. MayComeBack(NoPlan, q)
      BY <2>5 DEF MayComeBack
    <3>4. ChildFits(child, q, delivered)
      BY <1>1, <1>2 DEF ChildFits
    <3> QED
      BY <1>3, <2>3, <2>5, <3>2, <3>3, <3>4 DEF RecordsTell, Excepted
  <2> QED
    BY <2>3, <2>5
<1> QED
  BY <1>5, <1>6

(* The journal of the queue is not removed, or by halves. *)
LEMMA RetireFailsKeeps ==
  ASSUME IInv, RetireFails, UNCHANGED batch
  PROVE  IInv'
<1> DEFINE half == [journal EXCEPT !.current = journal.previous, !.previous = NoPlan]
<1>1. /\ pc = "retire" /\ ChildQuiet /\ Throw(plan) /\ faults' = faults + 1 /\ faults < MaxFaults
      /\ journal' \in {journal, half} \/ journal' = Empty
  BY DEF RetireFails, Fault
<1> HIDE DEF half
<1>2. /\ plan \in Plan /\ Tells(plan, folder, delivered, Excepted, overlooked, child.current)
      /\ faults' \in 0..MaxFaults
  BY <1>1, AtWork, TypesAre, SetsAre
<1>3. /\ journal' \in Generations(Plan) /\ (journal'.current = NoPlan => journal'.previous = NoPlan)
      /\ journal'.current # NoPlan => RecordsTell'
  <2>1. CASE journal' \in {journal, half}
    BY <1>1, <2>1, HalfRetired DEF half
  <2>2. CASE journal' = Empty
    BY <2>2, PlanIs DEF Empty, Generations
  <2> QED
    BY <1>1, <2>1, <2>2
<1>4. CASE journal'.current # NoPlan
  <2>1. End("recovery", plan)
    BY <1>1, <1>4 DEF Throw
  <2> QED
    BY <1>1, <1>2, <1>3, <1>4, <2>1, EndsUncertain
<1>5. CASE journal'.current = NoPlan
  <2>1. End("failed", plan)
    BY <1>1, <1>5 DEF Throw
  <2>2. RecordsTell' /\ \A i \in Items \ Excepted : Delivered(i) => i \in Published(plan)
    BY <1>1, <1>3, <1>5, RetiredTells
  <2>3. "failed" \in Outcomes /\ "failed" # "success"
    BY DEF Outcomes
  <2> QED
    BY <1>1, <1>2, <1>3, <2>1, <2>2, <2>3, EndKeeps
<1> QED
  BY <1>4, <1>5

(* A record of a file's transfer is there: it is that of the item, and     *)
(* taken up.                                                               *)
LEMMA ResumeChildKeeps ==
  ASSUME IInv, ResumeChild, UNCHANGED batch
  PROVE  IInv'
<1>1. pc = "file" /\ child.current # NoChild /\ ChildQuiet /\ child' = child
  BY DEF ResumeChild, ChildQuiet
<1>2. Item \in Files /\ plan.phase > 0
  BY <1>1, QueueIs DEF FileFollows
<1>3. child.current.of = Item /\ child.current # NoChild /\ child.current.end # "none"
  BY <1>1, AtWork DEF ChildFits
<1>4. Goto(IF child.current.end = "open" THEN "child" ELSE "hook")
  BY <1>3 DEF ResumeChild
<1>5. PICK next \in {"child", "hook"} :
        Goto(next) /\ (next = "child" <=> child.current.end = "open")
  BY <1>4
<1>6. plan' = plan /\ pc' = next /\ Item' = Item
  BY <1>5 DEF Goto, Item
<1>7. FileFollows' /\ EndFollows' /\ TurnFollows'
  BY <1>1, <1>2, <1>3, <1>5, <1>6 DEF FileFollows, EndFollows, TurnFollows
<1>8. next \in Points \ {"idle", "prepare", "helper"}
  BY DEF Points
<1> QED
  BY <1>1, <1>5, <1>7, <1>8, GotoKeeps

(* A parent folder is another one: nothing of the item is begun. *)
LEMMA ParentsReplacedKeeps ==
  ASSUME IInv, ParentsReplaced, UNCHANGED batch
  PROVE  IInv'
<1>1. /\ pc \in {"file", "fresh"} /\ (pc = "file" => child.current = NoChild)
      /\ pc' = "terminal" /\ journal' = journal /\ plan' = plan /\ report' = report
      /\ faults' = faults \/ (faults' = faults + 1 /\ faults < MaxFaults)
      /\ ChildQuiet /\ folder' = folder /\ child' = child /\ delivered' = delivered
      /\ confirmed' = confirmed /\ overlooked' = overlooked
  <2>1. /\ pc \in {"file", "fresh"} /\ (pc = "file" => child.current = NoChild)
        /\ pc' = "terminal" /\ journal' = journal /\ plan' = plan /\ report' = report
        /\ ChildQuiet
    BY DEF ParentsReplaced
  <2>2. faults' = faults \/ (faults' = faults + 1 /\ faults < MaxFaults)
    BY DEF ParentsReplaced, Fault
  <2> QED
    BY <2>1, <2>2 DEF ChildQuiet, volume
<1>2. /\ plan = journal.current /\ plan # NoPlan /\ Item = plan.index /\ window = "idle"
      /\ ChildFits(child, plan, delivered) /\ report = NoReport
  BY <1>1, AtWork
<1>3. Item' = Item
  BY <1>1 DEF Item
<1>4. RecordsTell'
  BY <1>1 DEF IInv, QueueTells, RecordsTell, Excepted
<1>5. PlanFollows'
  BY <1>1, <1>2 DEF PlanFollows
<1>6. ReportIsTrue'
  BY <1>1, QueueIs DEF ReportIsTrue, Delivered
<1>7. FileFollows' /\ TurnFollows'
  BY <1>1 DEF FileFollows, TurnFollows
<1>8. EndFollows'
  <2>1. CASE pc = "file"
    <3>1. Item \in Files /\ plan.phase = 1
      BY <1>1, <2>1, QueueIs DEF FileFollows
    <3> QED
      BY <1>1, <1>3, <2>1, <3>1, SetsAre DEF EndFollows
  <2>2. CASE pc = "fresh"
    <3>1. Item \in QueueFolders /\ plan.phase = 1 /\ MayBegin(Item, folder[Item])
      BY <2>2, QueueIs DEF TurnFollows
    <3>2. child.current = NoChild
      BY <1>2, <3>1, SetsAre DEF ChildFits
    <3>3. Failed(Item, folder[Item], Excepted, overlooked)
      BY <3>1 DEF MayBegin, Failed, NoManifest, Excepted
    <3>4. Item \in Items
      BY <3>1, SetsAre
    <3> QED
      BY <1>1, <1>3, <3>1, <3>2, <3>3, <3>4 DEF EndFollows, Excepted
  <2> QED
    BY <1>1, <2>1, <2>2
<1>9. faults' \in 0..MaxFaults
  BY <1>1, TypesAre, SetsAre
<1>10. "terminal" \in Points
  BY DEF Points
<1> QED
  BY <1>1, <1>2, <1>4, <1>5, <1>6, <1>7, <1>8, <1>9, <1>10, TypesAre, QuietStep

(* The run ends with its records kept. *)
LEMMA ThrowsKeep ==
  ASSUME IInv, CannotStart \/ ChildNeedsRecovery \/ FolderNeedsRecovery, UNCHANGED batch
  PROVE  IInv'
<1>1. CASE CannotStart \/ ChildNeedsRecovery
  <2>1. /\ pc \in {"file", "fresh", "recover", "child"} /\ UNCHANGED journal /\ Throw(plan)
        /\ ChildQuiet /\ faults' = faults + 1 /\ faults < MaxFaults
    BY <1>1 DEF CannotStart, ChildNeedsRecovery, Fault
  <2>2. faults' \in 0..MaxFaults
    BY <2>1, TypesAre, SetsAre
  <2> QED
    BY <2>1, <2>2, ThrowKeeps
<1>2. CASE FolderNeedsRecovery
  <2>1. /\ pc = "helper" /\ folder[Item].stage = "off" /\ UNCHANGED journal /\ Throw(plan)
        /\ ChildQuiet /\ faults' = faults
    BY <1>2 DEF FolderNeedsRecovery, Answered
  <2>2. faults' \in 0..MaxFaults
    BY <2>1, TypesAre
  <2> QED
    BY <2>1, <2>2, ThrowKeeps
<1> QED
  BY <1>1, <1>2

(* The queue takes down the end of a file's transfer. *)
LEMMA AcknowledgeChildKeeps ==
  ASSUME IInv, AcknowledgeChild, UNCHANGED batch
  PROVE  IInv'
<1> DEFINE n == IF child.current.end = "completed" THEN 2 ELSE 3
           q == [plan EXCEPT !.phase = n]
           p == [q EXCEPT !.cancelled = child.current.end = "cancelled"]
<1>1. pc = "hook" /\ ChildQuiet /\ child' = child
  BY DEF AcknowledgeChild, ChildQuiet
<1>2. Save(p, "hooked") \/ SaveFails(p)
  BY DEF AcknowledgeChild
<1>3. /\ plan \in Plan /\ Item = plan.index /\ plan = journal.current
      /\ OthersTell(plan, folder, delivered, overlooked)
      /\ ItemTells(plan, folder, delivered, Excepted, overlooked, child.current)
      /\ ChildFits(child, plan, delivered) /\ plan.phase \in 0..3
  BY <1>1, AtWork
<1>4. /\ Item \in Files /\ plan.phase > 0 /\ child.current.of = Item /\ child.current.end # "open"
  BY <1>1, QueueIs DEF FileFollows
<1>5. Item \in Items /\ Item > 0 /\ Item # Count + 1 /\ Item \notin QueueFolders
  <2>1. Item \in Items
    BY <1>4, SetsAre
  <2> QED
    BY <1>4, <2>1, ItemIs
<1>6. child.current # NoChild /\ child.current.end \in {"completed", "failed", "cancelled"}
  BY <1>3, <1>4, <1>5, TypesAre, ChildIs DEF ChildFits
<1>7. n \in {2, 3}
  OBVIOUS
<1>8. q \in Plan /\ q.index = Item /\ q.phase = n
  <2> HIDE DEF n
  <2> QED
    BY <1>3, <1>7 DEF Plan
<1>9. p \in Plan /\ p.index = Item /\ p.phase = n
  <2> HIDE DEF n, q
  <2> QED
    BY <1>8 DEF Plan
<1>10. n = 2 => child.current.end = "completed"
  OBVIOUS
<1>11. n = 3 => child.current.end \in {"failed", "cancelled"}
  BY <1>6
<1>12. n = IF child.current.end = "completed" THEN 2 ELSE 3
  OBVIOUS
<1> HIDE DEF p, q, n
<1>13. Tells(p, folder, delivered, Excepted, overlooked, child.current)
  <2>1. OthersTell(p, folder, delivered, overlooked)
    BY <1>3, <1>9, OthersKeep
  <2>2. n = 2 => Done(Item, folder, delivered)
    BY <1>3, <1>4, <1>6, <1>10 DEF ChildFits, Done
  <2>3. ItemTells(p, folder, delivered, Excepted, overlooked, child.current)
    BY <1>5, <1>6, <1>7, <1>9, <2>2 DEF ItemTells
  <2> QED
    BY <1>5, <1>9, <2>1, <2>3 DEF Tells
<1>14. n = 3 => plan.phase \in {1, 3}
  <2> SUFFICES ASSUME n = 3, plan.phase = 2 PROVE FALSE
    BY <1>3, <1>4
  <2>1. Item \in delivered
    BY <1>3, <1>4, <1>5 DEF ItemTells, Done
  <2> QED
    BY <1>3, <1>4, <1>6, <1>11, <2>1 DEF ChildFits
<1>15. p # NoPlan /\ MayComeBack(journal.current, p)
  BY <1>3, <1>5, <1>9, <1>14, PlanIs DEF MayComeBack
<1>16. ChildFits(child, p, delivered)
  BY <1>3, <1>7, <1>9 DEF ChildFits
<1>17. ASSUME Save(p, "hooked") PROVE FileFollows' /\ EndFollows' /\ TurnFollows'
  <2>1. plan' = p /\ pc' = "hooked" /\ child' = child /\ Item' = Item
    BY <1>1, <1>9, <1>17 DEF Save, Item
  <2> QED
    BY <1>4, <1>7, <1>9, <1>12, <2>1 DEF FileFollows, EndFollows, TurnFollows
<1>18. "hooked" \in Points \ {"idle", "prepare", "helper"} /\ pc # "helper"
  BY <1>1 DEF Points
<1>19. pc \notin {"idle", "prepare"} /\ p.index > 0
  BY <1>1, <1>5, <1>9
<1> QED
  BY <1>1, <1>2, <1>9, <1>13, <1>15, <1>16, <1>17, <1>18, <1>19, SaveKeeps

(* The queue has an answer from its helper.                                *)
LEMMA AnsweredIs ==
  ASSUME IInv, NEW a, Answered(a)
  PROVE  /\ pc = "helper" /\ Item \in QueueFolders /\ Item \in Items /\ Item \in Folders
         /\ folder[Item].stage = "off" /\ folder[Item].answer = a /\ plan.phase \in {1, 2}
         /\ child.current = NoChild
         /\ Attends(Item, folder[Item], plan, overlooked)
         /\ AnswerTells(Item, folder[Item], Excepted, overlooked)
         /\ ItemTells(plan, folder, delivered, Excepted, overlooked, child.current)
         /\ Item = plan.index
<1>1. pc = "helper" /\ folder[Item].stage = "off" /\ folder[Item].answer = a
  BY DEF Answered
<1>2. Item \in QueueFolders /\ plan.phase \in {1, 2}
  BY <1>1, QueueIs DEF TurnFollows
<1>3. Item \in Items /\ Item \in Folders /\ Item \notin Files
  BY <1>2, SetsAre
<1>4. Attends(Item, folder[Item], plan, overlooked)
  BY <1>1, QueueIs DEF HelperFollows
<1>5. AnswerTells(Item, folder[Item], Excepted, overlooked)
  BY <1>3, QueueIs DEF FolderTells
<1>6. /\ Item = plan.index /\ ChildFits(child, plan, delivered)
      /\ ItemTells(plan, folder, delivered, Excepted, overlooked, child.current)
  BY <1>1, AtWork
<1>7. child.current = NoChild
  BY <1>3, <1>6 DEF ChildFits
<1> QED
  BY <1>1, <1>2, <1>3, <1>4, <1>5, <1>6, <1>7

(* The folder is done: the helper said so, or finds nothing of what was    *)
(* acknowledged.                                                           *)
LEMMA FolderDoneKeeps ==
  ASSUME IInv, FolderDone, UNCHANGED batch
  PROVE  IInv'
<1>1. PICK a \in {"ok", "not_found"} : Answered(a)
  BY DEF FolderDone
<1>2. Goto("advance") /\ ChildQuiet /\ folder' = folder /\ overlooked' = overlooked
      /\ child' = child
  BY DEF FolderDone, ChildQuiet, volume
<1>3. NoManifest(Item, folder[Item], overlooked)
  BY <1>1, AnsweredIs DEF AnswerTells, NotFound
<1>4. pc' = "advance" /\ plan' = plan /\ Item' = Item
  BY <1>2 DEF Goto, Item
<1>5. FileFollows' /\ TurnFollows'
  BY <1>4 DEF FileFollows, TurnFollows
<1>6. EndFollows'
  BY <1>1, <1>2, <1>3, <1>4, AnsweredIs DEF EndFollows
<1>7. "advance" \in Points \ {"idle", "prepare", "helper"}
  BY DEF Points
<1> QED
  BY <1>1, <1>2, <1>5, <1>6, <1>7, AnsweredIs, GotoKeeps

(* Nothing is found of a folder that had not ended: it may be begun        *)
(* afresh.                                                                 *)
LEMMA FolderNeverBeganKeeps ==
  ASSUME IInv, FolderNeverBegan, UNCHANGED batch
  PROVE  IInv'
<1>1. /\ Answered("not_found") /\ plan.phase = 1 /\ ~plan.manifest /\ Goto("fresh") /\ ChildQuiet
      /\ folder' = folder /\ confirmed' = confirmed /\ overlooked' = overlooked
  BY DEF FolderNeverBegan, ChildQuiet, volume
<1>2. MayBegin(Item, folder[Item])
  <2>1. Item \in overlooked \/ folder[Item].evidence = "none"
    BY <1>1, AnsweredIs DEF Attends
  <2>2. Silent(folder[Item]) => Item \in Excepted
    BY <1>1, AnsweredIs DEF ItemTells
  <2> QED
    BY <2>1, <2>2 DEF Silent, MayBegin, Excepted
<1>3. pc' = "fresh" /\ plan' = plan /\ Item' = Item
  BY <1>1 DEF Goto, Item
<1>4. FileFollows' /\ EndFollows'
  BY <1>3 DEF FileFollows, EndFollows
<1>5. TurnFollows'
  BY <1>1, <1>2, <1>3, AnsweredIs DEF TurnFollows, MayBegin
<1>6. "fresh" \in Points \ {"idle", "prepare", "helper"}
  BY DEF Points
<1> QED
  BY <1>1, <1>4, <1>5, <1>6, AnsweredIs, GotoKeeps

(* The folder failed with nothing left behind. *)
LEMMA FolderRefusedKeeps ==
  ASSUME IInv, FolderRefused, UNCHANGED batch
  PROVE  IInv'
<1>1. PICK a \in {"clean", "missing"} : Answered(a)
  BY DEF FolderRefused
<1>2. /\ plan.phase = 1 /\ Goto("terminal") /\ ChildQuiet /\ folder' = folder /\ child' = child
      /\ confirmed' = confirmed /\ overlooked' = overlooked
  BY DEF FolderRefused, ChildQuiet, volume
<1>3. Failed(Item, folder[Item], Excepted, overlooked)
  BY <1>1, AnsweredIs DEF AnswerTells
<1>4. pc' = "terminal" /\ plan' = plan /\ Item' = Item /\ Excepted' = Excepted
  BY <1>2 DEF Goto, Item, Excepted
<1>5. FileFollows' /\ TurnFollows'
  BY <1>4 DEF FileFollows, TurnFollows
<1>6. EndFollows'
  BY <1>1, <1>2, <1>3, <1>4, AnsweredIs DEF EndFollows
<1>7. "terminal" \in Points \ {"idle", "prepare", "helper"}
  BY DEF Points
<1> QED
  BY <1>1, <1>2, <1>5, <1>6, <1>7, AnsweredIs, GotoKeeps

(* The name of the manifest goes into the journal, before recovery is      *)
(* offered.                                                                *)
LEMMA FolderLeavesManifestKeeps ==
  ASSUME IInv, FolderLeavesManifest, UNCHANGED batch
  PROVE  IInv'
<1> DEFINE p == [plan EXCEPT !.manifest = TRUE]
<1>1. PICK a \in Answers : Answered(a)
  BY DEF FolderLeavesManifest, Answers
<1>2. /\ ChildQuiet /\ folder' = folder /\ child' = child /\ delivered' = delivered
      /\ confirmed' = confirmed /\ overlooked' = overlooked
  BY DEF FolderLeavesManifest, ChildQuiet, volume
<1>3. /\ journal' \in {journal, Written(p)} /\ Throw(p)
      /\ faults' = faults \/ (faults' = faults + 1 /\ faults < MaxFaults)
  BY DEF FolderLeavesManifest, SaveFails
<1>4. /\ plan \in Plan /\ Item = plan.index /\ plan = journal.current /\ plan # NoPlan
      /\ OthersTell(plan, folder, delivered, overlooked)
      /\ ItemTells(plan, folder, delivered, Excepted, overlooked, child.current)
      /\ ChildFits(child, plan, delivered)
  BY <1>1, AnsweredIs, AtWork
<1>5. p \in Plan /\ p.index = Item /\ p.phase = plan.phase
  BY <1>4 DEF Plan
<1> HIDE DEF p
<1>6. Item > 0 /\ Item # Count + 1 /\ plan.phase \in {1, 2} /\ child.current = NoChild
  BY <1>1, AnsweredIs, ItemIs
<1>7. Tells(p, folder, delivered, Excepted, overlooked, child.current)
  <2>1. OthersTell(p, folder, delivered, overlooked)
    BY <1>4, <1>5, OthersKeep
  <2>2. ItemTells(p, folder, delivered, Excepted, overlooked, child.current)
    BY <1>4, <1>5 DEF ItemTells
  <2> QED
    BY <1>5, <1>6, <2>1, <2>2 DEF Tells
<1>8. p # NoPlan /\ MayComeBack(journal.current, p)
  BY <1>4, <1>5, <1>6, PlanIs DEF MayComeBack
<1>9. ChildFits(child, p, delivered)
  BY <1>4, <1>6 DEF ChildFits
<1>10. faults' \in 0..MaxFaults
  BY <1>3, TypesAre, SetsAre
<1>11. RecordsTell' /\ journal' \in Generations(Plan) /\ journal'.current # NoPlan
  <2>1. CASE journal' = journal
    <3>1. RecordsTell'
      BY <1>2, <2>1 DEF IInv, QueueTells, RecordsTell, Excepted
    <3> QED
      BY <1>4, <2>1, <3>1, TypesAre
  <2>2. CASE journal' = Written(p)
    BY <1>2, <1>5, <1>6, <1>7, <1>8, <1>9, <2>2, WrittenTells
  <2> QED
    BY <1>3, <2>1, <2>2
<1>12. End("recovery", p)
  BY <1>3, <1>11 DEF Throw
<1> QED
  BY <1>1, <1>2, <1>5, <1>7, <1>10, <1>11, <1>12, AnsweredIs, EndsUncertain

-----------------------------------------------------------------------------
(* The transfer of a file.                                                 *)

(* The record of the item's transfer. *)
LEMMA RecordIs ==
  ASSUME Item \in Files, NEW end \in {"open", "completed", "failed", "cancelled"}
  PROVE  /\ Record(end) \in Child /\ Record(end) # NoChild
         /\ Record(end).of = Item /\ Record(end).end = end
<1>1. Item \in 0..Count /\ Item # 0
  <2>1. Item \in Items
    BY SetsAre
  <2> QED
    BY <2>1, ItemIs
<1>2. Record(end) \in Child /\ Record(end).of = Item /\ Record(end).end = end
  BY <1>1 DEF Record, Child
<1> QED
  BY <1>1, <1>2, ChildIs

(* A step of the child that leaves the folders alone.                      *)
LEMMA ChildStep ==
  ASSUME IInv, UNCHANGED <<folder, volume, journal, faults>>, UNCHANGED <<plan, report>>,
         UNCHANGED batch,
         pc \in {"file", "child", "hooked"}, pc' \in Points \ {"idle", "prepare", "helper"},
         child' \in Generations(Child), delivered' \subseteq Files,
         Tells(plan, folder, delivered', Excepted, overlooked, child'.current),
         ChildFits(child', plan, delivered'),
         FileFollows', EndFollows', TurnFollows'
  PROVE  IInv'
<1>1. /\ folder' = folder /\ journal' = journal /\ plan' = plan /\ report' = report
      /\ faults' = faults /\ away' = away /\ confirmed' = confirmed /\ overlooked' = overlooked
  BY DEF volume
<1>2. /\ plan = journal.current /\ plan # NoPlan /\ window = "idle" /\ report = NoReport
  BY AtWork
<1>3. CommandsTypeOK'
  BY <1>1, TypesAre, TypesMake DEF batch
<1>4. FolderTells'
  BY <1>1, QueueIs DEF FolderTells, Excepted
<1>5. RecordsTell'
  BY <1>1, <1>2, QueueIs DEF RecordsTell, Excepted
<1>6. PlanFollows'
  BY <1>1, <1>2 DEF PlanFollows
<1>7. HelperFollows'
  BY <1>1, QueueIs DEF HelperFollows
<1>8. ReportIsTrue'
  BY <1>1, <1>2 DEF ReportIsTrue, NoReport
<1>9. BatchTells'
  BY <1>1, <1>2, BatchStays
<1> QED
  BY <1>3, <1>4, <1>5, <1>6, <1>7, <1>8, <1>9 DEF IInv, QueueTells, WorkerFollows

(* The file under way.                                                     *)
LEMMA FileIs ==
  ASSUME IInv, pc \in {"file", "child", "hook", "hooked"}
  PROVE  /\ Item \in Files /\ plan.phase \in {1, 2, 3} /\ Item = plan.index /\ plan # NoPlan
         /\ Item \in Items /\ Item > 0 /\ Item # Count + 1 /\ Item \notin QueueFolders
         /\ OthersTell(plan, folder, delivered, overlooked)
         /\ ItemTells(plan, folder, delivered, Excepted, overlooked, child.current)
         /\ ChildFits(child, plan, delivered)
<1>1. Item \in Files /\ plan.phase > 0
  BY QueueIs DEF FileFollows
<1>2. Item \in Items
  BY <1>1, SetsAre
<1>3. Item > 0 /\ Item # Count + 1 /\ Item \notin QueueFolders
  BY <1>1, <1>2, ItemIs
<1>4. /\ plan.phase \in 0..3 /\ Item = plan.index /\ plan # NoPlan
      /\ OthersTell(plan, folder, delivered, overlooked)
      /\ ItemTells(plan, folder, delivered, Excepted, overlooked, child.current)
      /\ ChildFits(child, plan, delivered)
  BY AtWork
<1>5. plan.phase \in {1, 2, 3}
  BY <1>1, <1>4
<1> QED
  BY <1>1, <1>2, <1>3, <1>4, <1>5

(* A file's transfer starts, and the file is not there yet. *)
LEMMA StartChildKeeps ==
  ASSUME IInv, StartChild, UNCHANGED batch
  PROVE  IInv' /\ Item \notin delivered
<1>1. /\ pc = "file" /\ child.current = NoChild /\ child' = [current |-> Record("open"), previous |-> NoChild]
      /\ pc' = "child" /\ plan' = plan /\ Item' = Item /\ delivered' = delivered
      /\ UNCHANGED <<folder, volume, journal, faults>> /\ UNCHANGED <<plan, report>>
  BY DEF StartChild, WriteChild, Goto, Item
<1>2. plan.phase = 1
  BY <1>1, QueueIs DEF FileFollows
<1>3. Record("open") \in Child /\ Record("open") # NoChild /\ Record("open").of = Item
      /\ Record("open").end = "open"
  BY <1>1, FileIs, RecordIs
<1>4. child' \in Generations(Child) /\ child'.current = Record("open") /\ child'.previous = NoChild
  BY <1>1, <1>3, ChildIs, GenerationsAre
<1>5. Tells(plan, folder, delivered', Excepted, overlooked, child'.current)
  <2>1. ItemTells(plan, folder, delivered, Excepted, overlooked, child'.current)
    BY <1>1, <1>3, <1>4, FileIs DEF ItemTells
  <2> QED
    BY <1>1, <2>1, FileIs DEF Tells
<1>6. ChildFits(child', plan, delivered')
  BY <1>1, <1>2, <1>3, <1>4, FileIs DEF ChildFits
<1>7. FileFollows' /\ EndFollows' /\ TurnFollows'
  BY <1>1, <1>2, <1>3, <1>4, FileIs DEF FileFollows, EndFollows, TurnFollows
<1>8. delivered' \subseteq Files /\ "child" \in Points \ {"idle", "prepare", "helper"}
  BY <1>1, TypesAre DEF Points
<1>9. Item \notin delivered
  BY <1>1, <1>2, FileIs DEF ItemTells
<1> QED
  BY <1>1, <1>4, <1>5, <1>6, <1>7, <1>8, <1>9, ChildStep

(* The file arrives at its destination. *)
LEMMA ChildDeliversKeeps ==
  ASSUME IInv, ChildDelivers, UNCHANGED batch
  PROVE  IInv'
<1>1. /\ pc = "child" /\ child' = [current |-> Record("open"), previous |-> child.current]
      /\ pc' = "child" /\ plan' = plan /\ Item' = Item /\ delivered' = delivered \union {Item}
      /\ UNCHANGED <<folder, volume, journal, faults>> /\ UNCHANGED <<plan, report>>
  BY DEF ChildDelivers, WriteChild, Goto, Item
<1>2. child.current \in Child /\ child.current.of = Item /\ child.current.end = "open"
  BY <1>1, QueueIs, TypesAre DEF FileFollows
<1>3. child.current = [of |-> Item, end |-> "open"]
  BY <1>2 DEF Child
<1>4. Record("open") \in Child /\ Record("open") # NoChild /\ Record("open").of = Item
      /\ Record("open").end = "open"
  BY <1>1, FileIs, RecordIs
<1>5. /\ child' \in Generations(Child) /\ child'.current = Record("open")
      /\ child'.previous = child.current
  BY <1>1, <1>2, <1>4, GenerationsAre
<1>6. Tells(plan, folder, delivered', Excepted, overlooked, child'.current)
  <2>1. OthersTell(plan, folder, delivered', overlooked)
    <3>1. \A i \in Items : i > plan.index => i # Item
      BY <1>1, FileIs, ItemIs
    <3> QED
      BY <1>1, <3>1, FileIs DEF OthersTell, Done, Unbegun
  <2>2. ItemTells(plan, folder, delivered', Excepted, overlooked, child'.current)
    BY <1>1, <1>4, <1>5, FileIs DEF ItemTells, Done
  <2> QED
    BY <1>1, <2>1, <2>2, FileIs DEF Tells
<1>7. ChildFits(child', plan, delivered')
  BY <1>1, <1>3, <1>4, <1>5, FileIs DEF ChildFits
<1>8. FileFollows' /\ EndFollows' /\ TurnFollows'
  BY <1>1, <1>4, <1>5, FileIs DEF FileFollows, EndFollows, TurnFollows
<1>9. delivered' \subseteq Files /\ "child" \in Points \ {"idle", "prepare", "helper"}
  BY <1>1, FileIs, TypesAre DEF Points
<1> QED
  BY <1>1, <1>5, <1>6, <1>7, <1>8, <1>9, ChildStep

(* A file's transfer ends, and its record tells how. *)
LEMMA ChildEndsKeeps ==
  ASSUME IInv, ChildEnds, UNCHANGED batch
  PROVE  IInv'
<1>1. PICK end \in (IF Item \in delivered THEN {"completed"} ELSE {"failed", "cancelled"}) :
        child' = [current |-> Record(end), previous |-> child.current]
  BY DEF ChildEnds, WriteChild
<1>2. /\ pc = "child" /\ pc' = "hook" /\ plan' = plan /\ Item' = Item /\ delivered' = delivered
      /\ UNCHANGED <<folder, volume, journal, faults>> /\ UNCHANGED <<plan, report>>
  BY DEF ChildEnds, Goto, Item
<1>3. child.current \in Child /\ child.current.of = Item /\ child.current.end = "open"
  BY <1>2, QueueIs, TypesAre DEF FileFollows
<1>4. child.current = [of |-> Item, end |-> "open"]
  BY <1>3 DEF Child
<1>5. /\ end \in {"completed", "failed", "cancelled"}
      /\ end = "completed" => Item \in delivered
      /\ end \in {"failed", "cancelled"} => Item \notin delivered
  BY <1>1
<1>6. Record(end) \in Child /\ Record(end) # NoChild /\ Record(end).of = Item
      /\ Record(end).end = end
  BY <1>2, <1>5, FileIs, RecordIs
<1>7. /\ child' \in Generations(Child) /\ child'.current = Record(end)
      /\ child'.previous = child.current
  BY <1>1, <1>3, <1>6, GenerationsAre
<1>8. Tells(plan, folder, delivered', Excepted, overlooked, child'.current)
  <2>1. ItemTells(plan, folder, delivered, Excepted, overlooked, child'.current)
    BY <1>2, <1>6, <1>7, FileIs DEF ItemTells
  <2> QED
    BY <1>2, <2>1, FileIs DEF Tells
<1>9. ChildFits(child', plan, delivered')
  BY <1>2, <1>4, <1>5, <1>6, <1>7, FileIs DEF ChildFits
<1>10. FileFollows' /\ EndFollows' /\ TurnFollows'
  BY <1>2, <1>5, <1>6, <1>7, FileIs DEF FileFollows, EndFollows, TurnFollows
<1>11. delivered' \subseteq Files /\ "hook" \in Points \ {"idle", "prepare", "helper"}
  BY <1>2, TypesAre DEF Points
<1> QED
  BY <1>2, <1>7, <1>8, <1>9, <1>10, <1>11, ChildStep

(* The record of the child goes, maybe by halves: the end of a transfer is *)
(* in the journal of the queue by then.                                    *)
LEMMA ChildRetires ==
  ASSUME IInv, pc = "hooked", child' \in {child, HalfRemoved, NoRecords}
  PROVE  /\ child' \in Generations(Child)
         /\ Tells(plan, folder, delivered, Excepted, overlooked, child'.current)
         /\ ChildFits(child', plan, delivered)
<1>1. /\ child.current.of = Item /\ child.current.end # "open"
      /\ plan.phase = IF child.current.end = "completed" THEN 2 ELSE 3
  BY QueueIs DEF FileFollows
<1>2. /\ child \in Generations(Child) /\ child.current \in Child /\ child.previous \in Child
  BY TypesAre
<1>3. child.current # NoChild /\ child.current.end \in {"completed", "failed", "cancelled"}
  <2>1. child.current # NoChild
    BY <1>1, FileIs, ChildIs
  <2> QED
    BY <1>1, <1>2, <2>1, FileIs, ChildIs DEF ChildFits
<1>4. plan.phase = 3 => Item \notin delivered
  BY <1>1, <1>3, FileIs DEF ChildFits
<1>5. plan.phase # 1
  BY <1>1
<1>6. \A c : ItemTells(plan, folder, delivered, Excepted, overlooked, c)
  BY <1>4, <1>5, FileIs DEF ItemTells
<1>7. \A c : Tells(plan, folder, delivered, Excepted, overlooked, c)
  BY <1>6, FileIs DEF Tells
<1>8. CASE child' = child
  BY <1>2, <1>7, <1>8, FileIs
<1>9. CASE child' = NoRecords
  <2>1. child' \in Generations(Child) /\ child'.current = NoChild /\ child'.previous = NoChild
    BY <1>9, ChildIs, GenerationsAre DEF NoRecords
  <2> QED
    BY <1>7, <2>1 DEF ChildFits
<1>10. CASE child' = HalfRemoved
  <2>1. child' = [current |-> child.previous, previous |-> NoChild]
    BY <1>2, <1>10 DEF HalfRemoved, Generations
  <2>2. /\ child' \in Generations(Child) /\ child'.current = child.previous
        /\ child'.previous = NoChild
    BY <1>2, <2>1, ChildIs, GenerationsAre
  <2>3. child.previous \in {NoChild, [of |-> Item, end |-> "open"]}
    BY <1>1, <1>3, FileIs DEF ChildFits
  <2>4. ChildFits(child', plan, delivered)
    BY <2>2, <2>3, FileIs DEF ChildFits
  <2> QED
    BY <1>7, <2>2, <2>4
<1> QED
  BY <1>8, <1>9, <1>10

(* The record of a file's transfer is removed after its end was            *)
(* acknowledged.                                                           *)
LEMMA RetireChildKeeps ==
  ASSUME IInv, RetireChild, UNCHANGED batch
  PROVE  IInv'
<1> DEFINE next == IF plan.phase = 2 THEN "advance" ELSE "retire"
<1>1. /\ pc = "hooked" /\ child' = NoRecords /\ pc' = next /\ plan' = plan /\ Item' = Item
      /\ delivered' = delivered
      /\ UNCHANGED <<folder, volume, journal, faults>> /\ UNCHANGED <<plan, report>>
  BY DEF RetireChild, Goto, Item
<1>2. /\ child' \in Generations(Child)
      /\ Tells(plan, folder, delivered, Excepted, overlooked, child'.current)
      /\ ChildFits(child', plan, delivered)
  BY <1>1, ChildRetires
<1>3. child'.current = NoChild
  BY <1>1 DEF NoRecords
<1>4. plan.phase \in {2, 3}
  BY <1>1, QueueIs DEF FileFollows
<1>5. FileFollows' /\ EndFollows' /\ TurnFollows'
  BY <1>1, <1>3, <1>4, FileIs DEF FileFollows, EndFollows, TurnFollows
<1>6. delivered' \subseteq Files /\ next \in Points \ {"idle", "prepare", "helper"}
  BY <1>1, TypesAre DEF Points
<1> QED
  BY <1>1, <1>2, <1>5, <1>6, ChildStep

(* The record of a file's transfer is not removed, or by halves. *)
LEMMA RetireChildFailsKeeps ==
  ASSUME IInv, RetireChildFails, UNCHANGED batch
  PROVE  IInv'
<1>1. /\ pc = "hooked" /\ child' \in {child, HalfRemoved, NoRecords}
      /\ folder' = folder /\ journal' = journal /\ delivered' = delivered
      /\ away' = away /\ confirmed' = confirmed /\ overlooked' = overlooked
      /\ faults' = faults + 1 /\ faults < MaxFaults
  BY DEF RetireChildFails, Fault, volume
<1>2. /\ child' \in Generations(Child)
      /\ Tells(plan, folder, delivered, Excepted, overlooked, child'.current)
      /\ ChildFits(child', plan, delivered)
  BY <1>1, ChildRetires
<1>3. /\ plan = journal.current /\ plan # NoPlan /\ plan \in Plan /\ window = "idle"
      /\ report = NoReport
  BY <1>1, AtWork
<1>4. faults' \in 0..MaxFaults
  BY <1>1, TypesAre, SetsAre
<1>5. FolderTells'
  BY <1>1, QueueIs DEF FolderTells, Excepted
<1>6. RecordsTell'
  BY <1>1, <1>2, <1>3, QueueIs DEF RecordsTell, Excepted
<1>7. BatchTells'
  BY <1>1, <1>3, BatchStays
<1>8. CASE plan.phase = 3 /\ child'.current = NoChild
  <2>1. pc' = "retire" /\ plan' = plan /\ report' = report /\ Item' = Item
    BY <1>8 DEF RetireChildFails, Item
  <2>2. PlanFollows' /\ FileFollows' /\ EndFollows' /\ TurnFollows'
    BY <1>1, <1>3, <1>8, <2>1 DEF PlanFollows, FileFollows, EndFollows, TurnFollows
  <2>3. HelperFollows'
    BY <1>1, <2>1, QueueIs DEF HelperFollows
  <2>4. ReportIsTrue'
    BY <1>3, <2>1 DEF ReportIsTrue, NoReport
  <2>5. CommandsTypeOK'
    BY <1>1, <1>2, <1>4, <2>1, TypesAre, TypesMake DEF batch, Points
  <2> QED
    BY <1>5, <1>6, <1>7, <2>2, <2>3, <2>4, <2>5 DEF IInv, QueueTells, WorkerFollows
<1>9. CASE ~(plan.phase = 3 /\ child'.current = NoChild)
  <2>1. End("recovery", plan)
    BY <1>1, <1>3, <1>9 DEF RetireChildFails, Throw
  <2>2. /\ pc' = "idle" /\ plan' = NoPlan
        /\ report' = [outcome |-> "recovery", published |-> Published(plan)]
    BY <2>1 DEF End
  <2>3. Published(plan) \subseteq Items /\ \A i \in Published(plan) : Delivered(i)
    BY <1>2, <1>3, PublishedAreThere
  <2>4. /\ report' \in [outcome : Outcomes, published : SUBSET Items]
        /\ report'.outcome = "recovery" /\ report'.published = Published(plan)
    BY <2>2, <2>3 DEF Outcomes
  <2>5. ReportIsTrue'
    BY <1>1, <2>3, <2>4 DEF ReportIsTrue, Delivered
  <2>6. PlanFollows' /\ FileFollows' /\ EndFollows' /\ TurnFollows'
    BY <2>2 DEF PlanFollows, FileFollows, EndFollows, TurnFollows
  <2>7. HelperFollows'
    BY <1>1, <2>2, QueueIs DEF HelperFollows
  <2>8. CommandsTypeOK'
    BY <1>1, <1>2, <1>4, <2>2, <2>4, PlanIs, TypesAre, TypesMake DEF batch, Points
  <2> QED
    BY <1>5, <1>6, <1>7, <2>5, <2>6, <2>7, <2>8 DEF IInv, QueueTells, WorkerFollows
<1> QED
  BY <1>8, <1>9

-----------------------------------------------------------------------------
(* The helper, for the queue and for the batch.                            *)

(* With more exceptions the stages tell no less. *)
LEMMA StageGrows ==
  ASSUME NEW i, NEW f, NEW excepted, NEW more, NEW unseen, NEW hidden,
         excepted \subseteq more, unseen \subseteq hidden, StageTells(i, f, excepted, unseen)
  PROVE  StageTells(i, f, more, hidden)
BY DEF StageTells

(* What the helper of folder i does unhindered serves. *)
LEMMA ProceedServes ==
  ASSUME IInv, NEW i \in Folders, Proceed(i)
  PROVE  /\ Served(i, Excepted', overlooked') /\ UNCHANGED <<faults, volume>>
         /\ confirmed' = confirmed /\ overlooked' = overlooked /\ away' = away
<1>1. /\ HelperStep(i) /\ UNCHANGED <<faults, volume>>
      /\ confirmed' = confirmed /\ overlooked' = overlooked /\ away' = away
  BY DEF Proceed, volume
<1>2. Excepted' = Excepted /\ overlooked \subseteq Excepted
  BY <1>1 DEF Excepted
<1>3. StageTells(i, folder[i], Excepted, overlooked)
  BY QueueIs DEF FolderTells
<1>4. Served(i, Excepted, overlooked)
  BY <1>1, <1>2, <1>3, TypesAre, HelperServes
<1> QED
  BY <1>1, <1>2, <1>4

(* What the helper of folder i makes of folders out of reach serves. *)
LEMMA MissedServes ==
  ASSUME IInv, NEW i \in Folders, Miss(i)
  PROVE  /\ Served(i, Excepted', overlooked')
         /\ overlooked \subseteq overlooked' /\ overlooked' \subseteq Folders
         /\ UNCHANGED <<faults, away, confirmed>>
<1>1. PICK a \in Answers :
        /\ OutOfReach(i, a)
        /\ overlooked' = IF folder[i].evidence # "none" /\ a \in NotFound
                         THEN overlooked \union {i} ELSE overlooked
  BY DEF Miss
<1>2. UNCHANGED <<faults, away, confirmed>>
  BY DEF Miss
<1>3. overlooked \subseteq overlooked' /\ overlooked' \subseteq Folders
  BY <1>1, TypesAre
<1>4. Excepted \subseteq Excepted' /\ overlooked' \subseteq Excepted'
  BY <1>2, <1>3 DEF Excepted
<1>5. StageTells(i, folder[i], Excepted', overlooked')
  <2>1. StageTells(i, folder[i], Excepted, overlooked)
    BY QueueIs DEF FolderTells
  <2> QED
    BY <1>3, <1>4, <2>1, StageGrows
<1>6. folder[i].evidence # "none" /\ a \in NotFound => i \in overlooked'
  BY <1>1
<1> DEFINE excepted == Excepted'
           unseen == overlooked'
<1>7. /\ StageTells(i, folder[i], excepted, unseen) /\ unseen \subseteq excepted
      /\ folder[i].evidence # "none" /\ a \in NotFound => i \in unseen
  BY <1>4, <1>5, <1>6
<1> HIDE DEF excepted, unseen
<1>8. Served(i, excepted, unseen)
  BY <1>1, <1>7, TypesAre, MissServes
<1> QED
  BY <1>2, <1>3, <1>8 DEF excepted, unseen

(* What hinders the helper of folder i serves. *)
LEMMA HinderServes ==
  ASSUME IInv, NEW i \in Folders, Hinder(i), overlooked \subseteq overlooked'
  PROVE  /\ Served(i, Excepted', overlooked')
         /\ confirmed \subseteq confirmed' /\ confirmed' \subseteq Folders
         /\ faults' \in 0..MaxFaults /\ away' = away
<1>1. /\ HelperFails(i) \/ Lose(i, "kept")
      /\ confirmed' = IF folder[i].stage = "working" /\ folder'[i].stage = "reporting"
                      THEN confirmed \union {i} ELSE confirmed
      /\ away' = away /\ faults' = faults + 1 /\ faults < MaxFaults
  BY DEF Hinder, Fault
<1>2. confirmed \subseteq confirmed' /\ confirmed' \subseteq Folders
  BY <1>1, TypesAre
<1>3. faults' \in 0..MaxFaults
  BY <1>1, TypesAre, SetsAre
<1> DEFINE excepted == Excepted'
           unseen == overlooked'
<1>4. Excepted \subseteq excepted /\ overlooked \subseteq unseen
  BY <1>2 DEF Excepted
<1>5. folder[i].stage = "working" /\ folder'[i].stage = "reporting" => i \in excepted
  BY <1>1 DEF Excepted
<1> HIDE DEF excepted, unseen
<1>6. StageTells(i, folder[i], excepted, unseen)
  <2>1. StageTells(i, folder[i], Excepted, overlooked)
    BY QueueIs DEF FolderTells
  <2> QED
    BY <1>4, <2>1, StageGrows
<1>7. Served(i, excepted, unseen)
  <2>1. CASE HelperFails(i)
    BY <1>5, <1>6, <2>1, TypesAre, FailureServes
  <2>2. CASE Lose(i, "kept")
    BY <1>6, <2>2, TypesAre, LossServes
  <2> QED
    BY <1>1, <2>1, <2>2
<1> QED
  BY <1>1, <1>2, <1>3, <1>7 DEF excepted, unseen

(* A helper is started.                                                    *)
LEMMA BeginIs ==
  ASSUME folder \in [Folders -> Folder], NEW i \in Folders, NEW c \in Commands, Begin(i, c)
  PROVE  /\ folder' \in [Folders -> Folder] /\ folder[i].stage = "off"
         /\ \A j \in Folders : j # i => folder'[j] = folder[j]
         /\ folder'[i].stage = IF c = "fresh" /\ folder[i].evidence = "none"
                               THEN "working" ELSE "looking"
         /\ folder'[i].command = c /\ folder'[i].answer = "none"
         /\ folder'[i].evidence = folder[i].evidence
         /\ folder'[i].delivered = folder[i].delivered
<1> DEFINE f == folder[i]
           g == Given(f, c)
<1>1. Become(i, g) /\ f.stage = "off" /\ f \in Folder
  BY DEF Begin
<1>2. /\ g \in Folder
      /\ g.stage = IF c = "fresh" /\ f.evidence = "none" THEN "working" ELSE "looking"
      /\ g.command = c /\ g.answer = "none" /\ g.evidence = f.evidence
      /\ g.delivered = f.delivered
  BY <1>1 DEF Given, Folder, Answers
<1> HIDE DEF g
<1>3. /\ folder' \in [Folders -> Folder] /\ folder'[i] = g
      /\ \A j \in Folders : j # i => folder'[j] = folder[j]
  BY <1>1, <1>2, BecomeIs
<1> QED
  BY <1>1, <1>2, <1>3

(* A helper that is started may conclude nothing but what is so. *)
LEMMA BeginTells ==
  ASSUME IInv, NEW i \in Folders, NEW c \in Commands, Begin(i, c),
         c = "fresh" => MayBegin(i, folder[i]),
         confirmed' = confirmed, overlooked' = overlooked
  PROVE  FolderTells'
<1> DEFINE g == folder'[i]
<1>1. /\ g.stage = IF c = "fresh" /\ folder[i].evidence = "none" THEN "working" ELSE "looking"
      /\ g.command = c /\ g.answer = "none" /\ g.evidence = folder[i].evidence
      /\ g.delivered = folder[i].delivered
      /\ \A j \in Folders : j # i => folder'[j] = folder[j]
  BY TypesAre, BeginIs
<1>2. c # "none"
  BY DEF Commands
<1>3. Excepted' = Excepted
  BY DEF Excepted
<1> HIDE DEF g
<1>4. g.stage = "looking" /\ c = "fresh" => i \in overlooked
  BY <1>1 DEF MayBegin
<1>5. c = "fresh" /\ Silent(g) => i \in Excepted
  BY <1>1 DEF MayBegin, Silent, Excepted
<1>6. StageTells(i, g, Excepted, overlooked)
  BY <1>1, <1>2, <1>4, <1>5 DEF StageTells
<1>7. AnswerTells(i, g, Excepted, overlooked)
  BY <1>1 DEF AnswerTells, NotFound
<1>8. \A j \in Folders : StageTells(j, folder'[j], Excepted, overlooked)
                         /\ AnswerTells(j, folder'[j], Excepted, overlooked)
  BY <1>1, <1>6, <1>7, QueueIs DEF FolderTells, g
<1> QED
  BY <1>3, <1>8 DEF FolderTells

-----------------------------------------------------------------------------
(* The helper of the queue.                                                *)

(* What the worker may conclude from the helper stays true while it        *)
(* works.                                                                  *)
LEMMA ServedAttends ==
  ASSUME NEW i, NEW f, NEW g, NEW p, NEW excepted, NEW unseen, NEW hidden,
         unseen \subseteq hidden, Attends(i, f, p, unseen), Serves(i, f, g, excepted, hidden)
  PROVE  Attends(i, g, p, hidden)
<1>1. g.stage = "off" => g.command = "none"
  BY DEF Serves, StageTells
<1>2. g.command \in {"none", "fresh", IF p.manifest THEN "resume" ELSE "discover"}
  BY <1>1 DEF Serves, Attends
<1>3. g.stage = "acknowledged" \/ g.answer = "ok" => p.phase = 2
  BY DEF Serves, Attends
<1>4. g.stage \in Busy /\ g.command = "fresh" => p.phase = 1
  BY DEF Serves, Attends, Busy
<1>5. g.answer = "not_found" /\ ~p.manifest => i \in hidden \/ g.evidence = "none"
  BY DEF Serves, Attends
<1> QED
  BY <1>2, <1>3, <1>4, <1>5 DEF Attends

(* The folder under way changes, and what the queue has on record of it    *)
(* stays true.                                                             *)
LEMMA TurnTells ==
  ASSUME IInv, pc \in {"recover", "fresh", "helper"},
         \A j \in Folders : j # Item => folder'[j] = folder[j],
         confirmed \subseteq confirmed', overlooked \subseteq overlooked',
         NEW p, p.index = plan.index, p.phase \in {plan.phase, 2}, p.phase \in {1, 2},
         folder[Item].delivered => folder'[Item].delivered,
         p.phase = 2 => folder'[Item].delivered \/ plan.phase = 2,
         Silent(folder'[Item]) =>
           Item \in Excepted' \/ p.phase = 2 \/ Silent(folder[Item])
  PROVE  Tells(p, folder', delivered, Excepted', overlooked', child.current)
<1>1. /\ Item = plan.index /\ Item \in Items /\ Item > 0 /\ Item # Count + 1
      /\ Item \in QueueFolders /\ Item \notin Files
      /\ OthersTell(plan, folder, delivered, overlooked)
      /\ ItemTells(plan, folder, delivered, Excepted, overlooked, child.current)
  <2>1. Item \in QueueFolders
    BY QueueIs DEF TurnFollows
  <2>2. Item \in Items /\ Item \notin Files
    BY <2>1, SetsAre
  <2> QED
    BY <2>1, <2>2, AtWork, ItemIs
<1>2. Excepted \subseteq Excepted'
  BY DEF Excepted
<1>3. \A i \in Items : i # Item => /\ Done(i, folder', delivered) = Done(i, folder, delivered)
                                   /\ Unbegun(i, folder', delivered) = Unbegun(i, folder, delivered)
                                   /\ i \in QueueFolders => folder'[i] = folder[i]
  BY SetsAre DEF Done, Unbegun
<1>4. \A i \in Items : i < Item \/ i > Item => i # Item
  BY <1>1, ItemIs
<1>5. OthersTell(p, folder', delivered, overlooked')
  BY <1>1, <1>3, <1>4 DEF OthersTell, NoManifest
<1>6. ItemTells(p, folder', delivered, Excepted', overlooked', child.current)
  <2>1. p.phase = 2 => Done(Item, folder', delivered)
    BY <1>1 DEF ItemTells, Done
  <2>2. p.phase = 1 /\ Silent(folder'[Item]) => Item \in Excepted'
    <3> SUFFICES ASSUME p.phase = 1, Silent(folder[Item]) PROVE Item \in Excepted
      BY <1>2
    <3>1. plan.phase = 1
      OBVIOUS
    <3> QED
      BY <1>1, <3>1 DEF ItemTells
  <2> QED
    BY <1>1, <2>1, <2>2 DEF ItemTells
<1> QED
  BY <1>1, <1>5, <1>6 DEF Tells

(* A step of the helper that the queue is waiting for.                     *)
LEMMA TurnKeeps ==
  ASSUME IInv, pc \in {"recover", "fresh", "helper"}, pc' = "helper", UNCHANGED batch,
         UNCHANGED <<child, delivered, report>>,
         NEW p \in Plan, p.index = plan.index, p.phase \in {plan.phase, 2}, p.phase \in {1, 2},
         plan' = p, (journal' = journal /\ p = plan) \/ journal' = Written(p),
         FolderTells', folder' \in [Folders -> Folder],
         \A j \in Folders : j # Item => folder'[j] = folder[j],
         confirmed \subseteq confirmed', overlooked \subseteq overlooked',
         confirmed' \subseteq Folders, overlooked' \subseteq Folders,
         faults' \in 0..MaxFaults, away' \in BOOLEAN,
         folder[Item].delivered => folder'[Item].delivered,
         p.phase = 2 => folder'[Item].delivered \/ plan.phase = 2,
         Silent(folder'[Item]) =>
           Item \in Excepted' \/ p.phase = 2 \/ Silent(folder[Item]),
         Attends(Item, folder'[Item], p, overlooked')
  PROVE  IInv'
<1>1. /\ Item \in QueueFolders /\ Item \in Items /\ Item \in Folders /\ Item \notin Batch
      /\ Item > 0 /\ Item # Count + 1
  <2>1. Item \in QueueFolders
    BY QueueIs DEF TurnFollows
  <2>2. Item \in Items /\ Item \in Folders /\ Item \notin Batch
    BY <2>1, SetsAre
  <2> QED
    BY <2>1, <2>2, ItemIs
<1>2. /\ plan = journal.current /\ plan # NoPlan /\ Item = plan.index /\ window = "idle"
      /\ ChildFits(child, plan, delivered) /\ report = NoReport
      /\ MayComeBack(journal.previous, plan)
  BY AtWork
<1>3. child.current = NoChild
  BY <1>1, <1>2, SetsAre DEF ChildFits
<1>4. Item' = Item /\ p # NoPlan
  BY <1>1, <1>2, PlanIs DEF Item
<1>5. /\ journal' \in Generations(Plan) /\ journal'.current = p
      /\ MayComeBack(journal'.previous, p)
  <2>1. CASE journal' = journal /\ p = plan
    BY <1>2, <2>1, TypesAre
  <2>2. CASE journal' = Written(p)
    <3>1. /\ journal' \in Generations(Plan) /\ journal'.current = p
          /\ journal'.previous = plan
      BY <1>2, <2>2, WrittenIs
    <3>2. MayComeBack(plan, p)
      BY <1>1, <1>2, <1>4 DEF MayComeBack
    <3> QED
      BY <3>1, <3>2
  <2> QED
    BY <2>1, <2>2
<1>6. Tells(p, folder', delivered, Excepted', overlooked', child.current)
  BY TurnTells
<1>7. ChildFits(child, p, delivered)
  BY <1>2, <1>3 DEF ChildFits
<1>8. RecordsTell'
  BY <1>4, <1>5, <1>6, <1>7 DEF RecordsTell
<1>9. PlanFollows'
  BY <1>2, <1>4, <1>5 DEF PlanFollows
<1>10. FileFollows' /\ EndFollows' /\ TurnFollows'
  BY <1>1, <1>4 DEF FileFollows, EndFollows, TurnFollows
<1>11. HelperFollows'
  <2>1. ASSUME NEW i \in QueueFolders, folder'[i].stage # "off"
        PROVE  i = Item
    <3>1. i # Item => folder'[i] = folder[i]
      BY SetsAre
    <3> QED
      BY <2>1, <3>1, QueueIs DEF HelperFollows
  <2> QED
    BY <1>4, <2>1 DEF HelperFollows
<1>12. ReportIsTrue'
  BY <1>2 DEF ReportIsTrue, NoReport
<1>13. \A i \in Batch : folder'[i] = folder[i]
  BY <1>1, SetsAre
<1>14. BatchTells'
  BY <1>2, <1>13, BatchStays
<1>15. CommandsTypeOK'
  BY <1>5, TypesAre, TypesMake DEF batch, Points
<1> QED
  BY <1>8, <1>9, <1>10, <1>11, <1>12, <1>14, <1>15 DEF IInv, QueueTells, WorkerFollows

(* The same for a step of the helper itself.                               *)
LEMMA ServedTurnKeeps ==
  ASSUME IInv, pc = "helper", pc' = "helper", UNCHANGED batch, WorkerQuiet,
         Served(Item, Excepted', overlooked'),
         confirmed \subseteq confirmed', overlooked \subseteq overlooked',
         confirmed' \subseteq Folders, overlooked' \subseteq Folders,
         faults' \in 0..MaxFaults, away' \in BOOLEAN
  PROVE  IInv'
<1>1. Item \in QueueFolders /\ plan.phase \in {1, 2}
  BY QueueIs DEF TurnFollows
<1>2. Item \in Folders
  BY <1>1, SetsAre
<1>3. /\ FolderTells' /\ folder' \in [Folders -> Folder]
      /\ \A j \in Folders : j # Item => folder'[j] = folder[j]
  BY <1>2, FoldersTell
<1>4. Serves(Item, folder[Item], folder'[Item], Excepted', overlooked')
  BY DEF Served
<1>5. Attends(Item, folder[Item], plan, overlooked)
  BY QueueIs DEF HelperFollows
<1>6. Attends(Item, folder'[Item], plan, overlooked')
  BY <1>4, <1>5, ServedAttends
<1>7. plan \in Plan
  BY TypesAre
<1>8. folder[Item].delivered => folder'[Item].delivered
  BY <1>4 DEF Serves
<1>9. Silent(folder'[Item]) => Item \in Excepted' \/ plan.phase = 2 \/ Silent(folder[Item])
  BY <1>4, <1>5 DEF Serves, Attends
<1> QED
  BY <1>1, <1>3, <1>6, <1>7, <1>8, <1>9, TurnKeeps DEF WorkerQuiet

(* The helper of the queue works. *)
LEMMA HelperWorksKeeps ==
  ASSUME IInv, HelperWorks, UNCHANGED batch
  PROVE  IInv'
<1>1. /\ pc = "helper" /\ pc' = "helper" /\ WorkerQuiet
      /\ Proceed(Item) \/ Miss(Item)
  BY DEF HelperWorks
<1>2. Item \in Folders
  <2>1. Item \in QueueFolders
    BY <1>1, QueueIs DEF TurnFollows
  <2> QED
    BY <2>1, SetsAre
<1>3. CASE Proceed(Item)
  BY <1>1, <1>2, <1>3, ProceedServes, TypesAre, ServedTurnKeeps
<1>4. CASE Miss(Item)
  BY <1>1, <1>2, <1>4, MissedServes, TypesAre, ServedTurnKeeps
<1> QED
  BY <1>1, <1>3, <1>4

(* The helper of the queue is hindered. *)
LEMMA HelperHinderedKeeps ==
  ASSUME IInv, HelperHindered, UNCHANGED batch
  PROVE  IInv'
<1>1. /\ pc = "helper" /\ pc' = "helper" /\ WorkerQuiet /\ Hinder(Item)
      /\ overlooked' = overlooked
  BY DEF HelperHindered
<1>2. Item \in Folders
  <2>1. Item \in QueueFolders
    BY <1>1, QueueIs DEF TurnFollows
  <2> QED
    BY <2>1, SetsAre
<1> QED
  BY <1>1, <1>2, HinderServes, TypesAre, ServedTurnKeeps

(* A helper is started for the folder under way.                           *)
LEMMA BegunTurnKeeps ==
  ASSUME IInv, pc \in {"recover", "fresh"}, pc' = "helper", UNCHANGED batch, WorkerQuiet,
         UNCHANGED <<faults, volume>>,
         NEW c \in {"fresh", IF plan.manifest THEN "resume" ELSE "discover"},
         c = "fresh" => pc = "fresh", Begin(Item, c)
  PROVE  IInv'
<1>1. Item \in QueueFolders /\ plan.phase \in {1, 2}
  BY QueueIs DEF TurnFollows
<1>2. Item \in Folders /\ c \in Commands
  BY <1>1, SetsAre DEF Commands
<1>3. c = "fresh" => plan.phase = 1 /\ MayBegin(Item, folder[Item])
  BY QueueIs DEF TurnFollows
<1>4. /\ confirmed' = confirmed /\ overlooked' = overlooked /\ away' = away /\ faults' = faults
  BY DEF volume
<1>5. FolderTells'
  BY <1>2, <1>3, <1>4, BeginTells
<1>6. /\ folder' \in [Folders -> Folder]
      /\ \A j \in Folders : j # Item => folder'[j] = folder[j]
      /\ folder'[Item].stage \in {"working", "looking"}
      /\ folder'[Item].command = c /\ folder'[Item].answer = "none"
      /\ folder'[Item].evidence = folder[Item].evidence
      /\ folder'[Item].delivered = folder[Item].delivered
  BY <1>2, TypesAre, BeginIs
<1>7. Attends(Item, folder'[Item], plan, overlooked')
  BY <1>3, <1>6 DEF Attends
<1>8. Silent(folder'[Item]) => Silent(folder[Item])
  BY <1>6 DEF Silent
<1>9. plan.phase = 2 => folder'[Item].delivered \/ plan.phase = 2
  OBVIOUS
<1> QED
  BY <1>1, <1>4, <1>5, <1>6, <1>7, <1>8, <1>9, TypesAre, TurnKeeps DEF WorkerQuiet

(* The queue starts a helper, afresh or to recover. *)
LEMMA StartFolderKeeps ==
  ASSUME IInv, StartFolder \/ RecoverFolder, UNCHANGED batch
  PROVE  IInv'
<1>1. CASE StartFolder
  BY <1>1, BegunTurnKeeps DEF StartFolder
<1>2. CASE RecoverFolder
  <2> DEFINE c == IF plan.manifest THEN "resume" ELSE "discover"
  <2>1. /\ pc = "recover" /\ pc' = "helper" /\ WorkerQuiet /\ UNCHANGED <<faults, volume>>
        /\ Begin(Item, c)
    BY <1>2 DEF RecoverFolder
  <2>2. c # "fresh" /\ c \in {"fresh", IF plan.manifest THEN "resume" ELSE "discover"}
    OBVIOUS
  <2> HIDE DEF c
  <2> QED
    BY <2>1, <2>2, BegunTurnKeeps
<1> QED
  BY <1>1, <1>2

(* The completion is acknowledged, and the helper may retire the evidence. *)
LEMMA AcknowledgeIs ==
  ASSUME IInv, NEW i \in Folders, Acknowledge(i), confirmed' = confirmed, overlooked' = overlooked
  PROVE  /\ FolderTells' /\ folder' \in [Folders -> Folder] /\ folder[i].stage = "reporting"
         /\ \A j \in Folders : j # i => folder'[j] = folder[j]
         /\ folder'[i].stage = "acknowledged" /\ folder'[i].command = folder[i].command
         /\ folder'[i].answer = "none" /\ folder'[i].evidence = folder[i].evidence
         /\ folder'[i].delivered = folder[i].delivered
         /\ folder[i].delivered \/ folder[i].command \in Discards
<1> DEFINE f == folder[i]
           g == Goes(f, "acknowledged", f.evidence)
<1>1. Become(i, g) /\ f.stage = "reporting" /\ f \in Folder
  BY TypesAre DEF Acknowledge
<1>2. StageTells(i, f, Excepted, overlooked)
  BY QueueIs DEF FolderTells
<1>3. f.answer = "none" /\ f.command # "none" /\ (f.delivered \/ f.command \in Discards)
  BY <1>1, <1>2 DEF StageTells
<1>4. /\ g \in Folder /\ g.stage = "acknowledged" /\ g.command = f.command
      /\ g.answer = "none" /\ g.evidence = f.evidence /\ g.delivered = f.delivered
  BY <1>1, <1>3 DEF Goes, Folder
<1> HIDE DEF g
<1>5. /\ folder' \in [Folders -> Folder] /\ folder'[i] = g
      /\ \A j \in Folders : j # i => folder'[j] = folder[j]
  BY <1>1, <1>4, TypesAre, BecomeIs
<1>6. Excepted' = Excepted
  BY DEF Excepted
<1>7. StageTells(i, g, Excepted, overlooked)
  BY <1>3, <1>4 DEF StageTells, Busy
<1>8. AnswerTells(i, g, Excepted, overlooked)
  BY <1>4 DEF AnswerTells, NotFound
<1>9. \A j \in Folders : StageTells(j, folder'[j], Excepted, overlooked)
                         /\ AnswerTells(j, folder'[j], Excepted, overlooked)
  BY <1>5, <1>7, <1>8, QueueIs DEF FolderTells
<1>10. FolderTells'
  BY <1>6, <1>9 DEF FolderTells
<1> QED
  BY <1>1, <1>3, <1>4, <1>5, <1>10

(* The helper is lost: what is on disk stays.                              *)
LEMMA LoseIs ==
  ASSUME IInv, NEW i \in Folders, NEW a \in {"none", "kept"}, Lose(i, a),
         confirmed' = confirmed, overlooked' = overlooked
  PROVE  /\ FolderTells' /\ folder' \in [Folders -> Folder] /\ folder[i].stage # "off"
         /\ \A j \in Folders : j # i => folder'[j] = folder[j]
         /\ folder'[i].stage = "off" /\ folder'[i].answer = a
         /\ folder'[i].evidence = folder[i].evidence
         /\ folder'[i].delivered = folder[i].delivered
<1>1. StageTells(i, folder[i], Excepted, overlooked) /\ folder[i].stage # "off"
  BY QueueIs DEF FolderTells, Lose
<1>2. /\ Served(i, Excepted, overlooked) /\ folder'[i].stage = "off" /\ folder'[i].answer = a
      /\ folder'[i].evidence = folder[i].evidence
  BY <1>1, TypesAre, LossServes
<1>3. Excepted' = Excepted
  BY DEF Excepted
<1>4. Served(i, Excepted', overlooked')
  BY <1>2, <1>3
<1>5. /\ FolderTells' /\ folder' \in [Folders -> Folder]
      /\ \A j \in Folders : j # i => folder'[j] = folder[j]
  BY <1>4, FoldersTell
<1>6. folder'[i].delivered = folder[i].delivered
  <2> DEFINE g == Answer(folder[i], a)
  <2>1. Become(i, g)
    BY DEF Lose
  <2>2. g.delivered = folder[i].delivered /\ g \in Folder
    <3>1. folder[i] \in Folder /\ a \in Answers
      BY TypesAre DEF Answers
    <3> DEFINE f == folder[i]
    <3>2. f \in Folder
      BY <3>1
    <3> HIDE DEF f
    <3>3. Answer(f, a).delivered = f.delivered /\ Answer(f, a) \in Folder
      BY <3>1, <3>2 DEF Answer, Folder
    <3> QED
      BY <3>3 DEF f
  <2> HIDE DEF g
  <2>3. folder'[i] = g
    BY <2>1, <2>2, TypesAre, BecomeIs
  <2> QED
    BY <2>2, <2>3
<1> QED
  BY <1>1, <1>2, <1>5, <1>6

(* The worker has stopped. *)
LEMMA QueueStops ==
  ASSUME IInv, pc' = "idle", plan' = NoPlan, RecordsTell', ReportIsTrue',
         \A i \in QueueFolders : folder'[i].stage = "off"
  PROVE  QueueTells'
<1>1. PlanFollows' /\ FileFollows' /\ EndFollows' /\ TurnFollows'
  BY DEF PlanFollows, FileFollows, EndFollows, TurnFollows
<1>2. HelperFollows'
  BY DEF HelperFollows
<1> QED
  BY <1>1, <1>2 DEF QueueTells, WorkerFollows

(* The folder under way, its helper lost.                                  *)
LEMMA LostTurn ==
  ASSUME IInv, pc = "helper", NEW a \in {"none", "kept"}, Lose(Item, a),
         confirmed' = confirmed, overlooked' = overlooked
  PROVE  /\ FolderTells' /\ folder' \in [Folders -> Folder]
         /\ \A i \in QueueFolders : folder'[i].stage = "off"
         /\ \A i \in Batch : folder'[i] = folder[i]
         /\ \A i \in Items : Done(i, folder', delivered) = Done(i, folder, delivered)
         /\ Tells(plan, folder', delivered, Excepted', overlooked', child.current)
<1>1. Item \in QueueFolders /\ plan.phase \in {1, 2}
  BY QueueIs DEF TurnFollows
<1>2. Item \in Folders /\ Item \notin Batch
  BY <1>1, SetsAre
<1>3. /\ FolderTells' /\ folder' \in [Folders -> Folder]
      /\ \A j \in Folders : j # Item => folder'[j] = folder[j]
      /\ folder'[Item].stage = "off"
      /\ folder'[Item].evidence = folder[Item].evidence
      /\ folder'[Item].delivered = folder[Item].delivered
  BY <1>2, LoseIs
<1>4. \A i \in QueueFolders : folder'[i].stage = "off"
  <2>1. \A i \in QueueFolders : i # Item => folder[i].stage = "off" /\ i \in Folders
    BY SetsAre, QueueIs DEF HelperFollows
  <2> QED
    BY <1>3, <2>1
<1>5. \A i \in Batch : folder'[i] = folder[i]
  BY <1>2, <1>3, SetsAre
<1>6. \A i \in Items : Done(i, folder', delivered) = Done(i, folder, delivered)
  <2>1. \A i \in Items : i \notin Files => i \in Folders
    BY SetsAre
  <2> QED
    BY <1>3, <2>1 DEF Done
<1>7. Silent(folder'[Item]) => Silent(folder[Item])
  BY <1>3 DEF Silent
<1>8. Tells(plan, folder', delivered, Excepted', overlooked', child.current)
  BY <1>1, <1>3, <1>7, TurnTells
<1> QED
  BY <1>3, <1>4, <1>5, <1>6, <1>8

(* The queue takes the completion of a folder down and the helper goes     *)
(* on, or it cannot and the helper is killed.                              *)
LEMMA AcknowledgeFolderKeeps ==
  ASSUME IInv, AcknowledgeFolder, UNCHANGED batch
  PROVE  IInv'
<1> DEFINE p == [plan EXCEPT !.phase = 2]
<1>1. /\ pc = "helper" /\ folder[Item].stage = "reporting"
      /\ child' = child /\ delivered' = delivered
      /\ away' = away /\ confirmed' = confirmed /\ overlooked' = overlooked
  BY DEF AcknowledgeFolder, volume
<1>2. \/ Save(p, "helper") /\ Acknowledge(Item)
      \/ SaveFails(p) /\ Lose(Item, "kept")
  BY DEF AcknowledgeFolder
<1>3. /\ plan = journal.current /\ plan \in Plan /\ plan # NoPlan /\ Item = plan.index
      /\ window = "idle" /\ ChildFits(child, plan, delivered) /\ report = NoReport
      /\ Tells(plan, folder, delivered, Excepted, overlooked, child.current)
  BY <1>1, AtWork
<1>4. p \in Plan /\ p.index = plan.index /\ p.phase = 2
  BY <1>3 DEF Plan
<1> HIDE DEF p
<1>5. Item \in QueueFolders /\ plan.phase \in {1, 2}
  BY <1>1, QueueIs DEF TurnFollows
<1>6. Item \in Folders /\ Item \in Items /\ Item \notin Files
  BY <1>5, SetsAre
<1>7. Attends(Item, folder[Item], plan, overlooked)
  BY <1>1, QueueIs DEF HelperFollows
<1>8. folder[Item].delivered
  <2>1. StageTells(Item, folder[Item], Excepted, overlooked)
    BY <1>6, QueueIs DEF FolderTells
  <2>2. folder[Item].command \notin Discards
    BY <1>7 DEF Attends, Discards
  <2> QED
    BY <1>1, <2>1, <2>2 DEF StageTells
<1>9. CASE Save(p, "helper") /\ Acknowledge(Item)
  <2>1. /\ journal' = Written(p) /\ plan' = p /\ pc' = "helper" /\ report' = report
        /\ faults' = faults
    BY <1>9 DEF Save
  <2>2. /\ FolderTells' /\ folder' \in [Folders -> Folder]
        /\ \A j \in Folders : j # Item => folder'[j] = folder[j]
        /\ folder'[Item].stage = "acknowledged" /\ folder'[Item].command = folder[Item].command
        /\ folder'[Item].answer = "none"
        /\ folder'[Item].delivered = folder[Item].delivered
    BY <1>1, <1>6, <1>9, AcknowledgeIs
  <2>3. p.manifest = plan.manifest
    BY <1>3 DEF p, Plan
  <2>4. Attends(Item, folder'[Item], p, overlooked')
    BY <1>4, <1>7, <2>2, <2>3 DEF Attends, Busy
  <2> QED
    BY <1>1, <1>4, <1>5, <1>8, <2>1, <2>2, <2>4, TypesAre, TurnKeeps
<1>10. CASE SaveFails(p) /\ Lose(Item, "kept")
  <2>1. /\ journal' \in {journal, Written(p)} /\ Throw(p)
        /\ faults' = faults + 1 /\ faults < MaxFaults
    BY <1>10 DEF SaveFails
  <2>2. faults' \in 0..MaxFaults
    BY <2>1, TypesAre, SetsAre
  <2>3. /\ FolderTells' /\ folder' \in [Folders -> Folder]
        /\ \A i \in QueueFolders : folder'[i].stage = "off"
        /\ \A i \in Batch : folder'[i] = folder[i]
        /\ \A i \in Items : Done(i, folder', delivered) = Done(i, folder, delivered)
        /\ Tells(plan, folder', delivered, Excepted', overlooked', child.current)
    BY <1>1, <1>10, LostTurn
  <2>4. p # NoPlan /\ Item > 0 /\ Item # Count + 1
    BY <1>4, <1>6, ItemIs, PlanIs
  <2>5. Tells(p, folder', delivered, Excepted', overlooked', child.current)
    <3>1. Done(Item, folder', delivered)
      BY <1>6, <1>8, <2>3 DEF Done
    <3>2. OthersTell(p, folder', delivered, overlooked')
      <4>1. OthersTell(plan, folder', delivered, overlooked')
        BY <1>3, <2>3 DEF Tells
      <4> QED
        BY <1>4, <4>1, OthersKeep
    <3>3. ItemTells(p, folder', delivered, Excepted', overlooked', child.current)
      BY <1>3, <1>4, <1>6, <2>4, <3>1 DEF ItemTells
    <3> QED
      BY <1>3, <1>4, <2>4, <3>2, <3>3 DEF Tells
  <2>6. child.current = NoChild
    BY <1>3, <1>6 DEF ChildFits
  <2>7. RecordsTell' /\ journal' \in Generations(Plan) /\ journal'.current # NoPlan
    <3>1. CASE journal' = journal
      <4>1. RecordsTell'
        BY <1>1, <1>3, <2>3, <3>1, QueueIs DEF RecordsTell
      <4> QED
        BY <1>3, <3>1, <4>1, TypesAre
    <3>2. CASE journal' = Written(p)
      <4>1. /\ journal' \in Generations(Plan) /\ journal'.current = p
            /\ journal'.previous = plan
        BY <1>3, <1>4, <3>2, WrittenIs
      <4>2. MayComeBack(plan, p)
        BY <1>3, <1>4, <2>4 DEF MayComeBack
      <4>3. ChildFits(child, p, delivered)
        BY <1>3, <2>6 DEF ChildFits
      <4>4. RecordsTell'
        BY <1>1, <2>4, <2>5, <4>1, <4>2, <4>3 DEF RecordsTell
      <4> QED
        BY <2>4, <4>1, <4>4
    <3> QED
      BY <2>1, <3>1, <3>2
  <2>8. /\ pc' = "idle" /\ plan' = NoPlan
        /\ report' = [outcome |-> "recovery", published |-> Published(p)]
    BY <2>1, <2>7 DEF Throw, End
  <2>9. Published(p) \subseteq Items
    BY DEF Published
  <2>10. /\ report' \in [outcome : Outcomes, published : SUBSET Items]
         /\ report'.outcome = "recovery" /\ report'.published = Published(p)
    BY <2>8, <2>9 DEF Outcomes
  <2>11. \A i \in Published(p) : Delivered(i)'
    <3> SUFFICES ASSUME NEW i \in Published(p) PROVE Delivered(i)'
      OBVIOUS
    <3>1. i \in Items /\ (i < p.index \/ i = Item)
      BY <1>3, <1>4 DEF Published
    <3>2. Done(i, folder', delivered)
      BY <1>6, <1>8, <2>3, <2>4, <2>5, <3>1 DEF Tells, OthersTell, Done
    <3> QED
      BY <1>1, <3>2 DEF Done, Delivered
  <2>12. ReportIsTrue'
    BY <2>10, <2>11 DEF ReportIsTrue
  <2>13. QueueTells'
    BY <2>3, <2>7, <2>8, <2>12, QueueStops
  <2>14. BatchTells'
    BY <1>1, <1>3, <2>3, BatchStays
  <2>15. CommandsTypeOK'
    BY <1>1, <2>2, <2>3, <2>7, <2>8, <2>10, PlanIs, TypesAre, TypesMake DEF batch, Points
  <2> QED
    BY <2>3, <2>13, <2>14, <2>15 DEF IInv
<1> QED
  BY <1>2, <1>9, <1>10

-----------------------------------------------------------------------------
(* The batch.                                                              *)

(* What the invariant says of the batch, part by part.                     *)
LEMMA BatchIs ==
  ASSUME IInv
  PROVE  /\ StateTells(mem, folder, Excepted, overlooked)
         /\ StateTells(settings, folder, Excepted, overlooked)
         /\ BatchFollows /\ BatchHelperFollows /\ ToldIsTrue
         /\ mem.index \in Batch \union {0} /\ settings.index \in Batch \union {0}
         /\ {mem.known, mem.discarding, mem.manifest} \subseteq BOOLEAN
         /\ {settings.known, settings.discarding, settings.manifest} \subseteq BOOLEAN
         /\ Current = mem.index
BY TypesAre DEF IInv, BatchTells, BatchRecord, Current

(* A step of the batch leaves the queue alone.                             *)
LEMMA BatchStep ==
  ASSUME IInv, UNCHANGED <<journal, plan, child, delivered, pc>>, report' \in {report, NoReport},
         \A i \in QueueFolders : folder'[i] = folder[i],
         confirmed \subseteq confirmed', overlooked \subseteq overlooked',
         confirmed' \subseteq Folders, overlooked' \subseteq Folders,
         folder' \in [Folders -> Folder], faults' \in 0..MaxFaults, away' \in BOOLEAN,
         mem' \in BatchRecord, settings' \in BatchRecord,
         window' \in {"idle", "dialog", "helper"},
         told' \in [what : {"none", "done", "deleted", "failed"}, of : Batch \union {0}],
         FolderTells', BatchTells'
  PROVE  IInv'
<1>1. QueueTells'
  BY QueueStays
<1>2. NoReport \in [outcome : Outcomes, published : SUBSET Items]
  BY DEF NoReport, Outcomes
<1>3. report' \in [outcome : Outcomes, published : SUBSET Items]
  BY <1>2, TypesAre
<1>4. CommandsTypeOK'
  BY <1>3, TypesAre, TypesMake
<1> QED
  BY <1>1, <1>4 DEF IInv

(* A step that leaves the folders alone. *)
LEMMA FoldersAlone ==
  ASSUME IInv, folder' = folder, confirmed' = confirmed, overlooked' = overlooked
  PROVE  FolderTells' /\ Excepted' = Excepted
BY QueueIs DEF FolderTells, Excepted

(* The folders go out of reach, or come back. *)
LEMMA LeaveKeeps ==
  ASSUME IInv, Leave \/ Return, UNCHANGED batch
  PROVE  IInv'
<1>1. /\ folder' = folder /\ confirmed' = confirmed /\ overlooked' = overlooked
      /\ UNCHANGED <<journal, plan, child, delivered, pc>> /\ report' = report
      /\ away' \in BOOLEAN /\ (faults' = faults \/ (faults' = faults + 1 /\ faults < MaxFaults))
  BY DEF Leave, Return, Fault, queue
<1>2. faults' \in 0..MaxFaults
  BY <1>1, TypesAre, SetsAre
<1>3. FolderTells'
  BY <1>1, FoldersAlone
<1>4. pc' = "idle" \/ window = "idle"
  BY <1>1, OneAtATime
<1>5. BatchTells'
  BY <1>1, <1>4, BatchStays
<1> QED
  BY <1>1, <1>2, <1>3, <1>5, TypesAre, BatchStep DEF batch

(* States of the batch that tell the same.                                 *)
LEMMA StateLike ==
  ASSUME NEW m, NEW r, NEW fs, NEW excepted, NEW unseen, StateTells(m, fs, excepted, unseen),
         r.index = m.index, m.known <=> r.known, m.known /\ m.discarding => r.discarding
  PROVE  StateTells(r, fs, excepted, unseen)
BY DEF StateTells

(* The fields of a state that changes. *)
LEMMA StateIs ==
  /\ NoBatch \in BatchRecord /\ NoBatch.index = 0 /\ NoBatch.manifest = FALSE
  /\ NoBatch.known = FALSE /\ NoBatch.discarding = FALSE
  /\ \A i \in Batch : LET r == [NoBatch EXCEPT !.index = i] IN
       r \in BatchRecord /\ r.index = i /\ r.known = FALSE /\ r.discarding = FALSE
  /\ \A m \in BatchRecord : \A b \in BOOLEAN :
       /\ [m EXCEPT !.discarding = b] \in BatchRecord
       /\ [m EXCEPT !.discarding = b].index = m.index
       /\ [m EXCEPT !.discarding = b].known = m.known
       /\ [m EXCEPT !.discarding = b].discarding = b
BY DEF NoBatch, BatchRecord

(* The window waits, or nothing is asked: no folder of the batch is busy.  *)
LEMMA BatchRests ==
  ASSUME IInv, window # "helper"
  PROVE  \A i \in Batch : folder[i].stage = "off"
BY BatchIs DEF BatchHelperFollows

(* What is on disk stays as it is.                                         *)
LEMMA StateSame ==
  ASSUME NEW fs, NEW gs, NEW excepted, NEW unseen, NEW r, r.index \in Batch \union {0},
         \A i \in Batch : gs[i].evidence = fs[i].evidence /\ gs[i].delivered = fs[i].delivered,
         StateTells(r, fs, excepted, unseen)
  PROVE  StateTells(r, gs, excepted, unseen)
<1>1. \A i \in Batch : /\ Silent(gs[i]) = Silent(fs[i]) /\ Untried(gs[i]) = Untried(fs[i])
                       /\ NoManifest(i, gs[i], unseen) = NoManifest(i, fs[i], unseen)
  BY DEF Silent, Untried, NoManifest
<1>2. 0 \notin Batch
  BY SetsAre
<1> QED
  BY <1>1, <1>2 DEF StateTells

(* A helper is asked to recover what the state names.                      *)
LEMMA RecoveryKeeps ==
  ASSUME IInv, window # "helper", Current # 0, pc = "idle",
         NEW r \in BatchRecord, r.index = Current, r.known = mem.known,
         mem.discarding => r.discarding, SubmitRecovery(r), mem' = r,
         settings' \in BatchRecord, settings'.index = Current, r.known => settings'.known,
         StateTells(settings', folder, Excepted, overlooked),
         UNCHANGED <<queue, volume, told>>, faults' \in 0..MaxFaults, told.what = "none"
  PROVE  IInv'
<1>1. /\ UNCHANGED <<journal, plan, child, delivered, pc>> /\ report' = report
      /\ away' = away /\ confirmed' = confirmed /\ overlooked' = overlooked
      /\ told' = told /\ window' = "helper" /\ Current' = Current
  BY DEF queue, volume, SubmitRecovery, Current
<1>2. Current \in Batch /\ mem.index = Current /\ Current \in Folders
  BY BatchIs, SetsAre
<1> DEFINE c == Command(r)
<1>3. c \in {"discard", "discover_discard", "resume", "discover"}
      /\ (c \in Discards <=> r.discarding)
  <2>1. r.discarding \in BOOLEAN
    BY DEF BatchRecord
  <2> QED
    BY <2>1 DEF Command, Discards
<1>4. c \in Commands /\ c # "fresh"
  BY <1>3 DEF Commands
<1>5. Begin(Current, c)
  BY DEF SubmitRecovery
<1> HIDE DEF c
<1>6. /\ folder' \in [Folders -> Folder]
      /\ \A j \in Folders : j # Current => folder'[j] = folder[j]
      /\ folder'[Current].stage \in {"working", "looking"}
      /\ folder'[Current].command = c /\ folder'[Current].answer = "none"
      /\ folder'[Current].evidence = folder[Current].evidence
      /\ folder'[Current].delivered = folder[Current].delivered
  BY <1>2, <1>4, <1>5, TypesAre, BeginIs
<1>7. FolderTells'
  BY <1>1, <1>2, <1>4, <1>5, BeginTells
<1>8. Excepted' = Excepted
  BY <1>1 DEF Excepted
<1>9. \A i \in Batch : /\ folder'[i].evidence = folder[i].evidence
                       /\ folder'[i].delivered = folder[i].delivered
  BY <1>6, SetsAre
<1>10. StateTells(r, folder, Excepted, overlooked)
  BY BatchIs, StateLike
<1>11. r.index \in Batch \union {0} /\ settings'.index \in Batch \union {0}
  BY <1>2
<1>12. /\ StateTells(r, folder', Excepted, overlooked)
       /\ StateTells(settings', folder', Excepted, overlooked)
  BY <1>9, <1>10, <1>11, StateSame
<1>13. BatchFollows'
  BY <1>1, <1>2 DEF BatchFollows
<1>14. \A i \in Batch : folder'[i].stage # "off" => i = Current
  BY <1>6, BatchRests, SetsAre
<1>15. BatchHelperFollows'
  BY <1>1, <1>3, <1>4, <1>6, <1>14 DEF BatchHelperFollows
<1>16. ToldIsTrue'
  BY <1>1 DEF ToldIsTrue
<1>17. BatchTells'
  BY <1>1, <1>8, <1>12, <1>13, <1>15, <1>16 DEF BatchTells
<1>18. \A i \in QueueFolders : folder'[i] = folder[i]
  BY <1>2, <1>6, SetsAre
<1> QED
  BY <1>1, <1>6, <1>7, <1>17, <1>18, TypesAre, BatchStep

(* The state changes, and no helper is there before or after.              *)
LEMMA RestingKeeps ==
  ASSUME IInv, pc = "idle", folder' = folder, report' \in {report, NoReport},
         UNCHANGED <<journal, plan, child, delivered, pc, volume>>,
         \A i \in Batch : folder[i].stage = "off",
         faults' \in 0..MaxFaults, window' \in {"idle", "dialog"},
         mem' \in BatchRecord, settings' \in BatchRecord,
         told' \in [what : {"none", "done", "deleted", "failed"}, of : Batch \union {0}],
         StateTells(mem', folder, Excepted, overlooked),
         StateTells(settings', folder, Excepted, overlooked),
         BatchFollows', ToldIsTrue'
  PROVE  IInv'
<1>1. /\ away' = away /\ confirmed' = confirmed /\ overlooked' = overlooked
  BY DEF volume
<1>2. FolderTells' /\ Excepted' = Excepted
  BY <1>1, FoldersAlone
<1>3. BatchHelperFollows'
  BY DEF BatchHelperFollows
<1>4. BatchTells'
  BY <1>1, <1>2, <1>3 DEF BatchTells
<1> QED
  BY <1>1, <1>2, <1>4, TypesAre, BatchStep

(* F5 offers what was left of the batch. *)
LEMMA RefreshKeeps ==
  ASSUME IInv, Refresh
  PROVE  IInv'
<1>1. /\ pc = "idle" /\ window = "idle" /\ Current # 0
      /\ UNCHANGED <<queue, volume, faults, settings, mem, told>>
  BY DEF Refresh
<1>2. told.what = "none" /\ settings.index = Current /\ (mem.known => settings.known)
  BY <1>1, BatchIs DEF BatchFollows
<1>3. CASE mem.discarding
  <2>1. SubmitRecovery(mem)
    BY <1>3 DEF Refresh
  <2> QED
    BY <1>1, <1>2, <2>1, BatchIs, TypesAre, RecoveryKeeps
<1>4. CASE ~mem.discarding
  <2>1. window' = "dialog" /\ folder' = folder
    BY <1>4 DEF Refresh
  <2>2. BatchFollows'
    BY <1>1, <1>2, <1>4, <2>1, BatchIs DEF BatchFollows, queue
  <2>3. ToldIsTrue'
    BY <1>1, <1>2 DEF ToldIsTrue
  <2>4. \A i \in Batch : folder[i].stage = "off"
    BY <1>1, BatchRests
  <2>5. UNCHANGED <<journal, plan, child, delivered, pc, volume>> /\ report' = report
        /\ mem' = mem /\ settings' = settings /\ told' = told /\ faults' = faults
    BY <1>1 DEF queue
  <2>6. /\ StateTells(mem', folder, Excepted, overlooked)
        /\ StateTells(settings', folder, Excepted, overlooked)
    BY <2>5, BatchIs
  <2> QED
    BY <1>1, <2>1, <2>2, <2>3, <2>4, <2>5, <2>6, TypesAre, RestingKeeps
<1> QED
  BY <1>3, <1>4

(* The user chooses what becomes of an unfinished folder. *)
LEMMA ChooseKeeps ==
  ASSUME IInv, NEW choice \in Choices, Choose(choice)
  PROVE  IInv'
<1> DEFINE b == choice = "discard"
           r == [mem EXCEPT !.discarding = b]
           s == [r EXCEPT !.discarding = FALSE]
<1>1. /\ window = "dialog" /\ UNCHANGED <<queue, volume, told>>
      /\ \/ choice = "later" /\ window' = "idle" /\ UNCHANGED <<folder, faults, settings, mem>>
         \/ settings' = r /\ faults' = faults /\ mem' = r /\ SubmitRecovery(r)
         \/ /\ PersistFails(r) /\ mem' = s
            /\ window' = "idle" /\ UNCHANGED folder
  BY DEF Choose, Persist
<1>2. mem.index = Current /\ Current # 0 /\ pc = "idle" /\ ~mem.discarding /\ told.what = "none"
      /\ settings.index = Current /\ (mem.known => settings.known)
  BY <1>1, BatchIs DEF BatchFollows
<1>3. b \in BOOLEAN /\ FALSE \in BOOLEAN /\ mem \in BatchRecord
  BY TypesAre
<1>4. r \in BatchRecord /\ r.index = mem.index /\ r.known = mem.known
  BY <1>3 DEF BatchRecord
<1>5. s \in BatchRecord /\ s.index = mem.index /\ s.known = mem.known /\ s.discarding = FALSE
  <2> HIDE DEF r
  <2> QED
    BY <1>4 DEF BatchRecord
<1> HIDE DEF r, s
<1>6. /\ StateTells(r, folder, Excepted, overlooked)
      /\ StateTells(s, folder, Excepted, overlooked)
  BY <1>2, <1>4, <1>5, BatchIs, StateLike
<1>7. \A i \in Batch : folder[i].stage = "off"
  BY <1>1, BatchRests
<1>8. UNCHANGED <<journal, plan, child, delivered, pc, volume>> /\ report' = report /\ told' = told
  BY <1>1 DEF queue
<1>9. ToldIsTrue'
  BY <1>2, <1>8 DEF ToldIsTrue
<1>10. CASE choice = "later" /\ window' = "idle" /\ UNCHANGED <<folder, faults, settings, mem>>
  <2>1. BatchFollows'
    BY <1>2, <1>8, <1>10, BatchIs DEF BatchFollows
  <2>2. /\ StateTells(mem', folder, Excepted, overlooked)
        /\ StateTells(settings', folder, Excepted, overlooked)
    BY <1>10, BatchIs
  <2> QED
    BY <1>2, <1>7, <1>8, <1>9, <1>10, <2>1, <2>2, TypesAre, RestingKeeps
<1>11. CASE settings' = r /\ faults' = faults /\ mem' = r /\ SubmitRecovery(r)
  BY <1>1, <1>2, <1>4, <1>6, <1>11, TypesAre, RecoveryKeeps
<1>12. CASE PersistFails(r) /\ mem' = s /\ window' = "idle" /\ UNCHANGED folder
  <2>1. settings' \in {settings, r} /\ faults' = faults + 1 /\ faults < MaxFaults
    BY <1>12 DEF PersistFails, Fault
  <2>2. faults' \in 0..MaxFaults
    BY <2>1, TypesAre, SetsAre
  <2>3. /\ StateTells(mem', folder, Excepted, overlooked)
        /\ StateTells(settings', folder, Excepted, overlooked)
    BY <1>6, <1>12, <2>1, BatchIs
  <2>4. BatchFollows'
    BY <1>2, <1>4, <1>5, <1>8, <1>12, <2>1 DEF BatchFollows
  <2>5. mem' \in BatchRecord /\ settings' \in BatchRecord
    BY <1>4, <1>5, <1>12, <2>1, TypesAre
  <2> QED
    BY <1>2, <1>7, <1>8, <1>9, <1>12, <2>2, <2>3, <2>4, <2>5, TypesAre, RestingKeeps
<1> QED
  BY <1>1, <1>10, <1>11, <1>12

-----------------------------------------------------------------------------
(* The helper of the batch.                                                *)

(* One that is not hindered does not give up.                              *)
LEMMA WorksOn ==
  ASSUME folder \in [Folders -> Folder], NEW i \in Folders, folder[i].answer = "none",
         HelperStep(i) \/ (\E a \in Answers : OutOfReach(i, a)),
         folder'[i] \in Folder
  PROVE  folder'[i].answer # "other"
<1> DEFINE f == folder[i]
<1>1. ASSUME NEW g, Become(i, g), g.answer # "other"
      PROVE  folder'[i].answer # "other"
  BY <1>1 DEF Become
<1>2. f \in Folder /\ f.answer = "none"
  OBVIOUS
<1>3. ASSUME NEW a, a # "other", NEW stage, NEW evidence
      PROVE  /\ Answer(f, a).answer # "other" /\ Goes(f, stage, evidence).answer # "other"
             /\ Answer(Goes(f, stage, evidence), a).answer # "other"
             /\ [f EXCEPT !.delivered = TRUE].answer # "other"
  BY <1>2, <1>3 DEF Answer, Goes, Folder
<1>4. CASE FindNothing(i) \/ FindHusk(i) \/ FindControlTaken(i) \/ CleanHusk(i, "none")
           \/ FindDestinationTaken(i) \/ FinishRetirement(i)
  BY <1>1, <1>3, <1>4
     DEF FindNothing, FindHusk, FindControlTaken, CleanHusk, FindDestinationTaken, Refuse,
         FinishRetirement
<1>5. CASE FindManifest(i) \/ MakeControl(i) \/ WriteManifest(i) \/ Report(i)
           \/ ReportDiscard(i) \/ Retire(i) \/ FinishWithdrawal(i)
  BY <1>1, <1>3, <1>5
     DEF FindManifest, MakeControl, WriteManifest, Report, ReportDiscard, Retire,
         FinishWithdrawal
<1>6. CASE Deliver(i)
  BY <1>1, <1>3, <1>6 DEF Deliver
<1>7. ASSUME NEW a \in Answers, OutOfReach(i, a)
      PROVE  folder'[i].answer # "other"
  <2>1. Become(i, Answer(f, a)) /\ a # "other"
    BY <1>7 DEF OutOfReach
  <2> QED
    BY <1>1, <1>3, <2>1
<1> QED
  BY <1>4, <1>5, <1>6, <1>7 DEF HelperStep

(* A step of the batch's helper: both states stay true of the folder.      *)
LEMMA ServedBatchKeeps ==
  ASSUME IInv, window = "helper", UNCHANGED <<queue, batch>>,
         Served(Current, Excepted', overlooked'),
         confirmed \subseteq confirmed', overlooked \subseteq overlooked',
         confirmed' \subseteq Folders, overlooked' \subseteq Folders,
         faults' \in 0..MaxFaults, away' \in BOOLEAN,
         folder'[Current].answer = "other" =>
           Failed(Current, folder'[Current], Excepted', overlooked')
  PROVE  IInv'
<1> DEFINE f == folder[Current]
           g == folder'[Current]
<1>1. /\ UNCHANGED <<journal, plan, child, delivered, pc>> /\ report' = report
      /\ mem' = mem /\ settings' = settings /\ window' = window /\ told' = told
      /\ Current' = Current
  BY DEF queue, batch, Current
<1>2. /\ Current # 0 /\ pc = "idle" /\ told.what = "none" /\ mem.index = Current
      /\ settings.index = Current /\ (mem.known => settings.known)
  BY BatchIs DEF BatchFollows
<1>3. Current \in Batch /\ Current \in Folders
  BY <1>2, BatchIs, SetsAre
<1>4. /\ FolderTells' /\ folder' \in [Folders -> Folder]
      /\ \A j \in Folders : j # Current => folder'[j] = folder[j]
  BY <1>3, FoldersTell
<1>5. Serves(Current, f, g, Excepted', overlooked')
  BY DEF Served
<1>6. /\ f.stage # "off" => (f.command \in Discards <=> mem.discarding)
      /\ f.stage = "acknowledged" \/ f.answer = "ok" => mem.known
      /\ f.stage \in Busy /\ f.command = "fresh" => ~mem.known
  BY BatchIs DEF BatchHelperFollows
<1>7. StageTells(Current, f, Excepted, overlooked)
  BY <1>3, QueueIs DEF FolderTells
<1>8. StageTells(Current, g, Excepted', overlooked') /\ AnswerTells(Current, g, Excepted', overlooked')
  BY <1>5 DEF Serves
<1> HIDE DEF f, g
<1>9. g.stage # "off" => g.command = f.command /\ f.stage # "off"
  BY <1>5, <1>7, <1>8 DEF Serves, StageTells
<1>10. /\ g.stage # "off" => (g.command \in Discards <=> mem.discarding)
       /\ g.stage = "acknowledged" \/ g.answer = "ok" => mem.known
       /\ g.stage \in Busy /\ g.command = "fresh" => ~mem.known
  <2>1. g.stage \in Busy => g.stage # "off"
    BY DEF Busy
  <2>2. g.stage \in Busy => f.stage \in Busy
    BY <1>5 DEF Serves
  <2>3. g.stage = "acknowledged" \/ g.answer = "ok" => f.stage = "acknowledged"
    BY <1>5 DEF Serves
  <2> QED
    BY <1>6, <1>9, <2>1, <2>2, <2>3
<1>11. g.answer = "clean" => Failed(Current, g, Excepted', overlooked')
  BY <1>8 DEF AnswerTells
<1>12. \A i \in Batch : i # Current => folder'[i] = folder[i]
  BY <1>4, SetsAre
<1>13. BatchHelperFollows'
  <2>1. \A i \in Batch : folder'[i].stage # "off" => i = Current
    BY <1>12, BatchIs DEF BatchHelperFollows
  <2>2. g = folder'[Current]
    BY DEF g
  <2>3. g.answer = "other" => Failed(Current, g, Excepted', overlooked')
    BY <2>2
  <2>4. folder'[Current'] = g /\ window' = "helper" /\ mem' = mem
    BY <1>1, <2>2
  <2> QED
    BY <1>1, <1>10, <1>11, <2>1, <2>3, <2>4 DEF BatchHelperFollows
<1>14. Excepted \subseteq Excepted'
  BY DEF Excepted
<1>15. ASSUME NEW r, r.index = Current, StateTells(r, folder, Excepted, overlooked),
              mem.known => r.known
       PROVE  StateTells(r, folder', Excepted', overlooked')
  <2>1. f.delivered => g.delivered
    BY <1>5 DEF Serves
  <2>2. Silent(g) => Current \in Excepted' \/ mem.known \/ Silent(f)
    BY <1>5, <1>6 DEF Serves
  <2>3. f = folder[Current] /\ g = folder'[Current]
    BY DEF f, g
  <2>4. /\ \A i \in Batch : i < r.index => folder'[i].delivered
        /\ \A i \in Batch : i # r.index => NoManifest(i, folder'[i], overlooked')
        /\ \A i \in Batch : i > r.index => Untried(folder'[i])
    <3>1. \A i \in Batch : i < Current \/ i > Current => i # Current
      BY <1>3, SetsAre
    <3> QED
      BY <1>2, <1>12, <1>15, <3>1 DEF StateTells, NoManifest
  <2>5. r.known /\ ~r.discarding => folder'[r.index].delivered
    BY <1>2, <1>15, <2>1, <2>3 DEF StateTells
  <2>6. Silent(folder'[r.index]) => r.known \/ r.index \in Excepted'
    BY <1>2, <1>14, <1>15, <2>2, <2>3 DEF StateTells
  <2> QED
    BY <2>4, <2>5, <2>6 DEF StateTells
<1>16. /\ StateTells(mem, folder', Excepted', overlooked')
       /\ StateTells(settings, folder', Excepted', overlooked')
  BY <1>2, <1>15, BatchIs
<1>17. BatchFollows'
  BY <1>1, <1>2, BatchIs DEF BatchFollows
<1>18. ToldIsTrue'
  BY <1>1, <1>2 DEF ToldIsTrue
<1>19. BatchTells'
  BY <1>1, <1>13, <1>16, <1>17, <1>18 DEF BatchTells
<1>20. \A i \in QueueFolders : folder'[i] = folder[i]
  BY <1>3, <1>4, SetsAre
<1> QED
  BY <1>1, <1>4, <1>19, <1>20, TypesAre, BatchStep

(* The helper of the batch works. *)
LEMMA BatchHelperWorksKeeps ==
  ASSUME IInv, BatchHelperWorks
  PROVE  IInv'
<1>1. /\ window = "helper" /\ UNCHANGED <<queue, batch>>
      /\ Proceed(Current) \/ Miss(Current)
  BY DEF BatchHelperWorks
<1>2. Current \in Folders
  BY <1>1, BatchIs, SetsAre DEF BatchFollows
<1>3. /\ Served(Current, Excepted', overlooked')
      /\ confirmed \subseteq confirmed' /\ overlooked \subseteq overlooked'
      /\ confirmed' \subseteq Folders /\ overlooked' \subseteq Folders
      /\ faults' \in 0..MaxFaults /\ away' \in BOOLEAN
  <2>1. CASE Proceed(Current)
    BY <1>2, <2>1, ProceedServes, TypesAre
  <2>2. CASE Miss(Current)
    BY <1>2, <2>2, MissedServes, TypesAre
  <2> QED
    BY <1>1, <2>1, <2>2
<1>4. folder[Current].stage # "off"
  BY <1>1 DEF Proceed, Miss, OutOfReach, HelperStep, FindNothing, FindHusk, FindManifest,
         FindControlTaken, MakeControl, WriteManifest, Deliver, Report, ReportDiscard, Retire,
         FinishRetirement, FinishWithdrawal, CleanHusk, FindDestinationTaken, Refuse
<1>5. folder[Current].answer = "none"
  <2>1. StageTells(Current, folder[Current], Excepted, overlooked)
    BY <1>2, QueueIs DEF FolderTells
  <2> QED
    BY <1>4, <2>1 DEF StageTells
<1>6. HelperStep(Current) \/ (\E a \in Answers : OutOfReach(Current, a))
  BY <1>1 DEF Proceed, Miss
<1>7. folder'[Current].answer # "other"
  BY <1>2, <1>3, <1>5, <1>6, TypesAre, WorksOn DEF Served, Serves
<1> QED
  BY <1>1, <1>3, <1>7, ServedBatchKeeps

(* The helper of the batch is hindered. *)
LEMMA BatchHelperHinderedKeeps ==
  ASSUME IInv, BatchHelperHindered
  PROVE  IInv'
<1>1. /\ window = "helper" /\ UNCHANGED <<queue, batch>> /\ Hinder(Current)
      /\ overlooked' = IF folder[Current].stage = "looking" /\ folder'[Current].answer = "other"
                       THEN overlooked \union {Current} ELSE overlooked
  BY DEF BatchHelperHindered
<1>2. Current \in Folders
  BY <1>1, BatchIs, SetsAre DEF BatchFollows
<1>3. overlooked \subseteq overlooked' /\ overlooked' \subseteq Folders
  BY <1>1, <1>2, TypesAre
<1>4. /\ Served(Current, Excepted', overlooked')
      /\ confirmed \subseteq confirmed' /\ confirmed' \subseteq Folders
      /\ faults' \in 0..MaxFaults /\ away' \in BOOLEAN
  BY <1>1, <1>2, <1>3, HinderServes, TypesAre
<1>5. folder'[Current].answer = "other" =>
        Failed(Current, folder'[Current], Excepted', overlooked')
  <2> SUFFICES ASSUME folder'[Current].answer = "other"
      PROVE  Failed(Current, folder'[Current], Excepted', overlooked')
    OBVIOUS
  <2>1. CASE folder[Current].stage = "looking"
    <3>1. Current \in overlooked' /\ Current \in Excepted'
      BY <1>1, <2>1 DEF Excepted
    <3> QED
      BY <3>1 DEF Failed, NoManifest
  <2>2. CASE folder[Current].stage # "looking"
    BY <1>4, <2>2 DEF Served, Serves
  <2> QED
    BY <2>1, <2>2
<1> QED
  BY <1>1, <1>3, <1>4, <1>5, ServedBatchKeeps

(* The helper that works for the batch, and what is known of its folder.   *)
LEMMA UnderWay ==
  ASSUME IInv, window = "helper"
  PROVE  /\ Current # 0 /\ Current \in Batch /\ Current \in Folders /\ mem.index = Current
         /\ settings.index = Current /\ (mem.known => settings.known)
         /\ pc = "idle" /\ told.what = "none"
         /\ \A i \in Batch : i # Current => folder[i].stage = "off"
         /\ StageTells(Current, folder[Current], Excepted, overlooked)
         /\ AnswerTells(Current, folder[Current], Excepted, overlooked)
<1>1. /\ Current # 0 /\ pc = "idle" /\ told.what = "none" /\ mem.index = Current
      /\ settings.index = Current /\ (mem.known => settings.known)
  BY BatchIs DEF BatchFollows
<1>2. Current \in Batch /\ Current \in Folders
  BY <1>1, BatchIs, SetsAre
<1>3. \A i \in Batch : i # Current => folder[i].stage = "off"
  BY BatchIs DEF BatchHelperFollows
<1>4. /\ StageTells(Current, folder[Current], Excepted, overlooked)
      /\ AnswerTells(Current, folder[Current], Excepted, overlooked)
  BY <1>2, QueueIs DEF FolderTells
<1> QED
  BY <1>1, <1>2, <1>3, <1>4

(* The batch takes the completion of its folder down and the helper goes   *)
(* on, or it cannot and the helper is killed.                              *)
LEMMA AcknowledgeBatchKeeps ==
  ASSUME IInv, AcknowledgeBatch
  PROVE  IInv'
<1> DEFINE r == [mem EXCEPT !.known = TRUE]
<1>1. /\ window = "helper" /\ folder[Current].stage = "reporting"
      /\ UNCHANGED <<queue, volume, window, told>>
      /\ \/ settings' = r /\ faults' = faults /\ mem' = r /\ Acknowledge(Current)
         \/ PersistFails(r) /\ mem' = mem /\ Lose(Current, "kept")
  BY DEF AcknowledgeBatch, Persist
<1>2. /\ UNCHANGED <<journal, plan, child, delivered, pc>> /\ report' = report
      /\ away' = away /\ confirmed' = confirmed /\ overlooked' = overlooked
      /\ window' = window /\ told' = told /\ Excepted' = Excepted
  BY <1>1 DEF queue, volume, Excepted
<1>3. r \in BatchRecord /\ r.index = mem.index /\ r.known = TRUE /\ r.discarding = mem.discarding
  BY TypesAre DEF BatchRecord
<1> HIDE DEF r
<1>4. /\ Current # 0 /\ Current \in Batch /\ Current \in Folders /\ mem.index = Current
      /\ settings.index = Current /\ (mem.known => settings.known)
      /\ pc = "idle" /\ told.what = "none"
      /\ \A i \in Batch : i # Current => folder[i].stage = "off"
  BY <1>1, UnderWay
<1>5. /\ folder[Current].command \in Discards <=> mem.discarding
      /\ folder[Current].delivered \/ folder[Current].command \in Discards
  BY <1>1, UnderWay, BatchIs DEF BatchHelperFollows, StageTells
<1>6. StateTells(r, folder, Excepted, overlooked)
  BY <1>3, <1>4, <1>5, BatchIs DEF StateTells
<1>7. ASSUME \A j \in Folders : j # Current => folder'[j] = folder[j],
             folder'[Current].evidence = folder[Current].evidence,
             folder'[Current].delivered = folder[Current].delivered
      PROVE  /\ \A s : s.index = Current /\ StateTells(s, folder, Excepted, overlooked) =>
                    StateTells(s, folder', Excepted', overlooked')
             /\ \A i \in QueueFolders : folder'[i] = folder[i]
             /\ \A i \in Batch : i # Current => folder'[i].stage = "off"
  <2>1. \A i \in Batch : /\ folder'[i].evidence = folder[i].evidence
                         /\ folder'[i].delivered = folder[i].delivered
    BY <1>7, SetsAre
  <2>2. \A s : s.index = Current /\ StateTells(s, folder, Excepted, overlooked) =>
                 StateTells(s, folder', Excepted, overlooked)
    BY <1>4, <2>1, StateSame
  <2>3. \A i \in QueueFolders : folder'[i] = folder[i]
    BY <1>4, <1>7, SetsAre
  <2>4. \A i \in Batch : i # Current => folder'[i].stage = "off"
    BY <1>4, <1>7, SetsAre
  <2> QED
    BY <1>2, <2>2, <2>3, <2>4
<1>8. CASE settings' = r /\ faults' = faults /\ mem' = r /\ Acknowledge(Current)
  <2>1. /\ FolderTells' /\ folder' \in [Folders -> Folder]
        /\ \A j \in Folders : j # Current => folder'[j] = folder[j]
        /\ folder'[Current].stage = "acknowledged"
        /\ folder'[Current].command = folder[Current].command
        /\ folder'[Current].answer = "none"
        /\ folder'[Current].evidence = folder[Current].evidence
        /\ folder'[Current].delivered = folder[Current].delivered
    BY <1>2, <1>4, <1>8, AcknowledgeIs
  <2>2. /\ StateTells(r, folder', Excepted', overlooked')
        /\ \A i \in QueueFolders : folder'[i] = folder[i]
        /\ \A i \in Batch : i # Current => folder'[i].stage = "off"
    BY <1>3, <1>4, <1>6, <1>7, <2>1
  <2>3. Current' = Current
    BY <1>3, <1>8 DEF Current
  <2>4. BatchFollows'
    BY <1>1, <1>2, <1>3, <1>4, <1>8 DEF BatchFollows
  <2>5. BatchHelperFollows'
    BY <1>1, <1>2, <1>3, <1>5, <1>8, <2>1, <2>2, <2>3 DEF BatchHelperFollows, Busy
  <2>6. BatchTells'
    BY <1>2, <1>4, <1>8, <2>2, <2>4, <2>5 DEF BatchTells, ToldIsTrue
  <2> QED
    BY <1>2, <1>3, <1>8, <2>1, <2>2, <2>6, TypesAre, BatchStep
<1>9. CASE PersistFails(r) /\ mem' = mem /\ Lose(Current, "kept")
  <2>1. settings' \in {settings, r} /\ faults' = faults + 1 /\ faults < MaxFaults
    BY <1>9 DEF PersistFails, Fault
  <2>2. faults' \in 0..MaxFaults
    BY <2>1, TypesAre, SetsAre
  <2>3. /\ FolderTells' /\ folder' \in [Folders -> Folder]
        /\ \A j \in Folders : j # Current => folder'[j] = folder[j]
        /\ folder'[Current].stage = "off" /\ folder'[Current].answer = "kept"
        /\ folder'[Current].evidence = folder[Current].evidence
        /\ folder'[Current].delivered = folder[Current].delivered
    BY <1>2, <1>4, <1>9, LoseIs
  <2>4. /\ StateTells(mem, folder', Excepted', overlooked')
        /\ StateTells(settings', folder', Excepted', overlooked')
        /\ \A i \in QueueFolders : folder'[i] = folder[i]
        /\ \A i \in Batch : i # Current => folder'[i].stage = "off"
    BY <1>3, <1>4, <1>6, <1>7, <2>1, <2>3, BatchIs
  <2>5. Current' = Current
    BY <1>9 DEF Current
  <2>6. BatchFollows'
    BY <1>1, <1>2, <1>3, <1>4, <1>9, <2>1, BatchIs DEF BatchFollows
  <2>7. BatchHelperFollows'
    BY <1>1, <1>2, <1>9, <2>3, <2>4, <2>5 DEF BatchHelperFollows, Busy
  <2>8. BatchTells'
    BY <1>2, <1>4, <1>9, <2>4, <2>6, <2>7 DEF BatchTells, ToldIsTrue
  <2>9. mem' \in BatchRecord /\ settings' \in BatchRecord
    BY <1>3, <1>9, <2>1, TypesAre
  <2> QED
    BY <1>2, <2>2, <2>3, <2>4, <2>8, <2>9, TypesAre, BatchStep
<1> QED
  BY <1>1, <1>8, <1>9

-----------------------------------------------------------------------------
(* The results of the helper.                                              *)

(* What the batch may conclude from a result. *)
LEMMA ResultIs ==
  ASSUME IInv, NEW answers, Result(answers)
  PROVE  /\ window = "helper" /\ folder[Current].answer \in answers
         /\ Current # 0 /\ Current \in Batch /\ Current \in Folders /\ mem.index = Current
         /\ settings.index = Current /\ (mem.known => settings.known)
         /\ pc = "idle" /\ told.what = "none"
         /\ \A i \in Batch : folder[i].stage = "off"
         /\ AnswerTells(Current, folder[Current], Excepted, overlooked)
         /\ folder[Current].answer \in NotFound \union {"ok"} =>
              NoManifest(Current, folder[Current], overlooked)
         /\ folder[Current].answer = "ok" => mem.known
         /\ folder[Current].answer \in {"clean", "other"} =>
              Failed(Current, folder[Current], Excepted, overlooked)
<1>1. window = "helper" /\ folder[Current].stage = "off" /\ folder[Current].answer \in answers
  BY DEF Result
<1>2. /\ Current # 0 /\ Current \in Batch /\ Current \in Folders /\ mem.index = Current
      /\ settings.index = Current /\ (mem.known => settings.known)
      /\ pc = "idle" /\ told.what = "none"
      /\ \A i \in Batch : folder[i].stage = "off"
      /\ AnswerTells(Current, folder[Current], Excepted, overlooked)
  BY <1>1, UnderWay
<1>3. /\ folder[Current].answer = "ok" => mem.known
      /\ folder[Current].answer \in {"clean", "other"} =>
           Failed(Current, folder[Current], Excepted, overlooked)
  BY <1>1, BatchIs DEF BatchHelperFollows
<1>4. folder[Current].answer \in NotFound \union {"ok"} =>
        NoManifest(Current, folder[Current], overlooked)
  BY <1>2 DEF AnswerTells
<1> QED
  BY <1>1, <1>2, <1>3, <1>4

(* A state that names no folder tells that no manifest is left.            *)
LEMMA NothingTells ==
  ASSUME \A i \in Batch : NoManifest(i, folder[i], overlooked)
  PROVE  StateTells(NoBatch, folder, Excepted, overlooked)
<1>1. \A i \in Batch : ~(i < 0)
  <2>1. Batch \subseteq Nat
    BY SetsAre
  <2>2. \A i \in Nat : ~(i < 0)
    OBVIOUS
  <2> QED
    BY <2>1, <2>2
<1> QED
  BY <1>1, StateIs DEF StateTells

(* The batch ends: its state is cleared, and the user told.                *)
LEMMA ClearKeeps ==
  ASSUME IInv, NEW answers, Result(answers), Clear, NEW what \in {"done", "deleted", "failed"},
         Tell(what, Current), UNCHANGED <<folder, queue, volume>>,
         NoManifest(Current, folder[Current], overlooked),
         what = "done" => \A i \in Batch : folder[i].delivered,
         what = "failed" => Failed(Current, folder[Current], Excepted, overlooked)
  PROVE  IInv'
<1>1. /\ window = "helper" /\ Current \in Batch /\ mem.index = Current /\ pc = "idle"
      /\ settings.index = Current /\ \A i \in Batch : folder[i].stage = "off"
  BY ResultIs
<1>2. /\ mem' = NoBatch /\ window' = "idle" /\ settings' \in {settings, NoBatch}
      /\ (faults' = faults \/ (faults' = faults + 1 /\ faults < MaxFaults))
  BY DEF Clear, Persist, PersistFails, Fault
<1>3. faults' \in 0..MaxFaults
  BY <1>2, TypesAre, SetsAre
<1>4. told' = [what |-> what, of |-> Current] /\ told'.what = what /\ told'.of = Current
  BY DEF Tell
<1>5. told' \in [what : {"none", "done", "deleted", "failed"}, of : Batch \union {0}]
  BY <1>1, <1>4
<1>6. \A i \in Batch : NoManifest(i, folder[i], overlooked)
  BY <1>1, BatchIs DEF StateTells
<1>7. StateTells(NoBatch, folder, Excepted, overlooked)
  BY <1>6, NothingTells
<1>8. /\ StateTells(mem', folder, Excepted, overlooked)
      /\ StateTells(settings', folder, Excepted, overlooked)
  BY <1>2, <1>7, BatchIs
<1>9. BatchFollows'
  BY <1>1, <1>2, <1>4, StateIs DEF BatchFollows
<1>10. UNCHANGED <<journal, plan, child, delivered, pc, volume>> /\ report' = report
       /\ folder' = folder /\ overlooked' = overlooked /\ Excepted' = Excepted
  BY DEF queue, volume, Excepted
<1>11. ToldIsTrue'
  BY <1>4, <1>10 DEF ToldIsTrue
<1>12. mem' \in BatchRecord /\ settings' \in BatchRecord
  BY <1>2, StateIs, TypesAre
<1> QED
  BY <1>1, <1>2, <1>3, <1>5, <1>8, <1>9, <1>10, <1>11, <1>12, RestingKeeps

(* What was unfinished is deleted, and the batch ends. *)
LEMMA DiscardDoneKeeps ==
  ASSUME IInv, DiscardDone
  PROVE  IInv'
<1>1. /\ Result({"ok"} \union NotFound) /\ Clear /\ Tell("deleted", Current)
      /\ UNCHANGED <<folder, queue, volume>>
  BY DEF DiscardDone
<1>2. NoManifest(Current, folder[Current], overlooked)
  BY <1>1, ResultIs
<1> QED
  BY <1>1, <1>2, ClearKeeps

(* The folder failed with nothing to recover, and the batch ends. *)
LEMMA DropBatchKeeps ==
  ASSUME IInv, DropBatch
  PROVE  IInv'
<1>1. /\ Result({"clean", "other"}) /\ Clear /\ Tell("failed", Current)
      /\ UNCHANGED <<folder, queue, volume>>
  BY DEF DropBatch
<1>2. Failed(Current, folder[Current], Excepted, overlooked)
  BY <1>1, ResultIs
<1>3. NoManifest(Current, folder[Current], overlooked)
  BY <1>2 DEF Failed
<1> QED
  BY <1>1, <1>2, <1>3, ClearKeeps

(* The batch waits for the user; the manifest may be known now.            *)
LEMMA RememberingKeeps ==
  ASSUME IInv, DiscardFails \/ OfferRecovery
  PROVE  IInv'
<1> DEFINE r == RememberManifest(mem)
<1>1. PICK answers : Result(answers)
  BY DEF DiscardFails, OfferRecovery
<1>2. /\ mem' = r /\ UNCHANGED <<folder, queue, volume, told>>
      /\ Persist(r) \/ PersistFails(r)
      /\ window' = "idle" \/ (window' = "dialog" /\ ~mem.discarding)
  BY DEF DiscardFails, OfferRecovery
<1>3. /\ r \in BatchRecord /\ r.index = mem.index /\ r.known = mem.known
      /\ r.discarding = mem.discarding
  <2> DEFINE b == mem.manifest \/ folder[Current].answer \in {"kept_path", "lost_path"}
  <2>1. b \in BOOLEAN /\ r = [mem EXCEPT !.manifest = b]
    BY DEF RememberManifest
  <2> HIDE DEF b
  <2> QED
    BY <2>1, TypesAre DEF BatchRecord
<1> HIDE DEF r
<1>4. /\ Current # 0 /\ mem.index = Current /\ settings.index = Current
      /\ (mem.known => settings.known) /\ pc = "idle" /\ told.what = "none"
      /\ \A i \in Batch : folder[i].stage = "off"
  BY <1>1, ResultIs
<1>5. /\ settings' \in {settings, r}
      /\ (faults' = faults \/ (faults' = faults + 1 /\ faults < MaxFaults))
  BY <1>2 DEF Persist, PersistFails, Fault
<1>6. faults' \in 0..MaxFaults
  BY <1>5, TypesAre, SetsAre
<1>7. StateTells(r, folder, Excepted, overlooked)
  BY <1>3, BatchIs, StateLike
<1>8. /\ StateTells(mem', folder, Excepted, overlooked)
      /\ StateTells(settings', folder, Excepted, overlooked)
  BY <1>2, <1>5, <1>7, BatchIs
<1>9. UNCHANGED <<journal, plan, child, delivered, pc, volume>> /\ report' = report
      /\ folder' = folder /\ told' = told
  BY <1>2 DEF queue
<1>10. BatchFollows'
  BY <1>2, <1>3, <1>4, <1>5, <1>9 DEF BatchFollows
<1>11. ToldIsTrue'
  BY <1>4, <1>9 DEF ToldIsTrue
<1>12. mem' \in BatchRecord /\ settings' \in BatchRecord /\ window' \in {"idle", "dialog"}
  BY <1>2, <1>3, <1>5, TypesAre
<1> QED
  BY <1>4, <1>6, <1>8, <1>9, <1>10, <1>11, <1>12, TypesAre, RestingKeeps

(* The program is closed and started again: the state in memory is that    *)
(* of the settings.                                                        *)
LEMMA CloseKeeps ==
  ASSUME IInv, Close
  PROVE  IInv'
<1>1. /\ pc = "idle" /\ window = "idle" /\ settings' \in {settings, mem} /\ mem' = settings'
      /\ (faults' = faults \/ (faults' = faults + 1 /\ faults < MaxFaults))
      /\ told' = NoneTold /\ report' = NoReport /\ folder' = folder /\ window' = window
      /\ UNCHANGED <<journal, plan, child, delivered, pc, volume>>
  BY DEF Close, Persist, PersistFails, Fault
<1>2. faults' \in 0..MaxFaults
  BY <1>1, TypesAre, SetsAre
<1>3. \A i \in Batch : folder[i].stage = "off"
  BY <1>1, BatchRests
<1>4. told'.what = "none" /\
      told' \in [what : {"none", "done", "deleted", "failed"}, of : Batch \union {0}]
  BY <1>1 DEF NoneTold
<1>5. BatchFollows' /\ ToldIsTrue'
  BY <1>1, <1>4 DEF BatchFollows, ToldIsTrue
<1>6. /\ StateTells(mem', folder, Excepted, overlooked)
      /\ StateTells(settings', folder, Excepted, overlooked)
  BY <1>1, BatchIs
<1>7. mem' \in BatchRecord /\ settings' \in BatchRecord
  BY <1>1, TypesAre
<1> QED
  BY <1>1, <1>2, <1>3, <1>4, <1>5, <1>6, <1>7, RestingKeeps

-----------------------------------------------------------------------------
(* The next folder of the batch.                                           *)

(* A folder is begun under a new number.                                   *)
LEMMA BeginAnewIs ==
  ASSUME IInv, NEW i \in Batch, BeginAnew(i), folder[i].delivered => i \in Excepted,
         confirmed' = confirmed, overlooked' = overlooked
  PROVE  /\ FolderTells' /\ folder' \in [Folders -> Folder] /\ folder[i].stage = "off"
         /\ \A j \in Folders : j # i => folder'[j] = folder[j]
         /\ folder'[i].stage = "working" /\ folder'[i].command = "fresh"
         /\ folder'[i].answer = "none" /\ folder'[i].evidence = "none"
         /\ folder'[i].delivered = folder[i].delivered
<1> DEFINE f == [folder[i] EXCEPT !.evidence = "none"]
           g == Given(f, "fresh")
<1>1. i \in Folders /\ folder[i] \in Folder
  BY TypesAre, SetsAre
<1>2. Become(i, g) /\ folder[i].stage = "off"
  BY DEF BeginAnew
<1>3. f \in Folder /\ f.evidence = "none" /\ f.delivered = folder[i].delivered
  BY <1>1 DEF Folder
<1>4. /\ g \in Folder /\ g.stage = "working" /\ g.command = "fresh" /\ g.answer = "none"
      /\ g.evidence = "none" /\ g.delivered = f.delivered
  <2> HIDE DEF f
  <2> QED
    BY <1>3 DEF Given, Folder, Answers, Commands
<1> HIDE DEF f, g
<1>5. /\ folder' \in [Folders -> Folder] /\ folder'[i] = g
      /\ \A j \in Folders : j # i => folder'[j] = folder[j]
  BY <1>1, <1>2, <1>4, TypesAre, BecomeIs
<1>6. StageTells(i, g, Excepted, overlooked)
  BY <1>3, <1>4 DEF StageTells, Silent
<1>7. AnswerTells(i, g, Excepted, overlooked)
  BY <1>4 DEF AnswerTells, NotFound
<1>8. \A j \in Folders : StageTells(j, folder'[j], Excepted, overlooked)
                         /\ AnswerTells(j, folder'[j], Excepted, overlooked)
  BY <1>5, <1>6, <1>7, QueueIs DEF FolderTells
<1>9. FolderTells'
  BY <1>8 DEF FolderTells, Excepted
<1> QED
  BY <1>2, <1>3, <1>4, <1>5, <1>9

(* The state of the batch names folder i, and the folder is begun, or the  *)
(* batch is dropped.                                                       *)
LEMMA SubmitKeeps ==
  ASSUME IInv, pc = "idle", NEW i \in Batch, SubmitNext(i), UNCHANGED <<queue, volume>>,
         StateTells([NoBatch EXCEPT !.index = i], folder, Excepted, overlooked),
         NoManifest(i, folder[i], overlooked), folder[i].delivered => i \in Excepted,
         \A j \in Batch : folder[j].stage = "off"
  PROVE  IInv'
<1> DEFINE r == [NoBatch EXCEPT !.index = i]
<1>1. \/ settings' = r /\ faults' = faults /\ mem' = r /\ window' = "helper" /\ BeginAnew(i)
         /\ told' = NoneTold
      \/ CannotSubmit(r)
  BY DEF SubmitNext, Persist
<1>2. r \in BatchRecord /\ r.index = i /\ r.known = FALSE /\ r.discarding = FALSE
  BY StateIs
<1>3. StateTells(r, folder, Excepted, overlooked)
  OBVIOUS
<1> HIDE DEF r
<1>4. UNCHANGED <<journal, plan, child, delivered, pc, volume>> /\ report' = report
      /\ away' = away /\ confirmed' = confirmed /\ overlooked' = overlooked
      /\ Excepted' = Excepted
  BY DEF queue, volume, Excepted
<1>5. i # 0 /\ i \in Folders
  BY SetsAre
<1>6. CASE /\ settings' = r /\ faults' = faults /\ mem' = r /\ window' = "helper"
           /\ BeginAnew(i) /\ told' = NoneTold
  <2>1. /\ FolderTells' /\ folder' \in [Folders -> Folder]
        /\ \A j \in Folders : j # i => folder'[j] = folder[j]
        /\ folder'[i].stage = "working" /\ folder'[i].command = "fresh"
        /\ folder'[i].answer = "none" /\ folder'[i].evidence = "none"
        /\ folder'[i].delivered = folder[i].delivered
    BY <1>4, <1>6, BeginAnewIs
  <2>2. \A j \in Batch : j # i => folder'[j] = folder[j]
    BY <2>1, SetsAre
  <2>3. StateTells(r, folder', Excepted, overlooked)
    <3>1. /\ \A j \in Batch : j < i => folder'[j].delivered
          /\ \A j \in Batch : j # i => NoManifest(j, folder'[j], overlooked)
          /\ \A j \in Batch : j > i => Untried(folder'[j])
      <4>1. \A j \in Batch : j < i \/ j > i => j # i
        <5>1. Batch \subseteq Nat
          BY SetsAre
        <5> QED
          BY <5>1
      <4> QED
        BY <1>2, <1>3, <1>5, <2>2, <4>1 DEF StateTells
    <3>2. Silent(folder'[i]) => i \in Excepted
      BY <2>1 DEF Silent
    <3> QED
      BY <1>2, <3>1, <3>2 DEF StateTells
  <2>4. told'.what = "none"
        /\ told' \in [what : {"none", "done", "deleted", "failed"}, of : Batch \union {0}]
    BY <1>6 DEF NoneTold
  <2>5. Current' = i
    BY <1>2, <1>6 DEF Current
  <2>6. BatchFollows'
    BY <1>2, <1>4, <1>5, <1>6, <2>4 DEF BatchFollows
  <2>7. \A j \in Batch : folder'[j].stage # "off" => j = i
    BY <2>2
  <2>8. BatchHelperFollows'
    BY <1>2, <1>6, <2>1, <2>5, <2>7 DEF BatchHelperFollows, Discards
  <2>9. BatchTells'
    BY <1>4, <1>6, <2>3, <2>4, <2>6, <2>8 DEF BatchTells, ToldIsTrue
  <2>10. \A j \in QueueFolders : folder'[j] = folder[j]
    BY <2>1, SetsAre
  <2> QED
    BY <1>2, <1>4, <1>6, <2>1, <2>4, <2>9, <2>10, TypesAre, BatchStep
<1>7. CASE CannotSubmit(r)
  <2>1. /\ settings' \in {settings, r, NoBatch} /\ mem' = NoBatch /\ window' = "idle"
        /\ told' = [what |-> "failed", of |-> i] /\ folder' = folder
        /\ faults' = faults + 1 /\ faults < MaxFaults
    BY <1>2, <1>7 DEF CannotSubmit, Tell, Fault
  <2>2. faults' \in 0..MaxFaults
    BY <2>1, TypesAre, SetsAre
  <2>3. told'.what = "failed" /\ told'.of = i
        /\ told' \in [what : {"none", "done", "deleted", "failed"}, of : Batch \union {0}]
    BY <2>1
  <2>4. StateTells(NoBatch, folder, Excepted, overlooked)
    <3>1. \A j \in Batch : NoManifest(j, folder[j], overlooked)
      BY <1>2, <1>3 DEF StateTells
    <3> QED
      BY <3>1, NothingTells
  <2>5. /\ StateTells(mem', folder, Excepted, overlooked)
        /\ StateTells(settings', folder, Excepted, overlooked)
    BY <1>3, <2>1, <2>4, BatchIs
  <2>6. BatchFollows'
    BY <2>1, <2>3, StateIs DEF BatchFollows
  <2>7. Failed(i, folder[i], Excepted, overlooked)
    BY DEF Failed
  <2>8. ToldIsTrue'
    BY <1>4, <2>1, <2>3, <2>7 DEF ToldIsTrue
  <2>9. mem' \in BatchRecord /\ settings' \in BatchRecord
    BY <1>2, <2>1, StateIs, TypesAre
  <2> QED
    BY <1>4, <2>1, <2>2, <2>3, <2>5, <2>6, <2>8, <2>9, RestingKeeps
<1> QED
  BY <1>1, <1>6, <1>7

(* Nothing is found of a folder that was not complete: it is begun again. *)
LEMMA RetryFolderKeeps ==
  ASSUME IInv, RetryFolder
  PROVE  IInv' /\ Current \in Batch /\ (folder[Current].delivered => Current \in Excepted)
         /\ NoManifest(Current, folder[Current], overlooked)
<1>1. /\ ~mem.discarding /\ ~mem.known /\ Result(NotFound) /\ SubmitNext(Current)
      /\ UNCHANGED <<queue, volume>>
  BY DEF RetryFolder
<1>2. /\ Current # 0 /\ Current \in Batch /\ mem.index = Current /\ pc = "idle"
      /\ \A i \in Batch : folder[i].stage = "off"
      /\ NoManifest(Current, folder[Current], overlooked)
  BY <1>1, ResultIs
<1>3. folder[Current].delivered => Current \in Excepted
  <2>1. Silent(folder[Current]) => Current \in Excepted
    BY <1>1, <1>2, BatchIs DEF StateTells
  <2> QED
    BY <1>2, <2>1 DEF Silent, NoManifest, Excepted
<1> DEFINE r == [NoBatch EXCEPT !.index = Current]
<1>4. r.index = Current /\ r.known = FALSE /\ r.discarding = FALSE
  BY <1>2, StateIs
<1> HIDE DEF r
<1>5. StateTells(r, folder, Excepted, overlooked)
  BY <1>1, <1>2, <1>4, BatchIs DEF StateTells
<1> QED
  BY <1>1, <1>2, <1>3, <1>5, SubmitKeeps DEF r

(* A folder is done: the next is begun, of which nothing is there, or the  *)
(* batch ends.                                                             *)
LEMMA BatchAdvancesKeeps ==
  ASSUME IInv, BatchAdvances
  PROVE  IInv' /\ Current \in Batch
         /\ (Current + 1 \in Batch => Untried(folder[Current + 1]))
<1>1. ~mem.discarding /\ GoOn
  BY DEF BatchAdvances
<1>2. PICK answers \in {{"ok"}, NotFound} :
        Result(answers) /\ (mem.known \/ answers = {"ok"})
  BY DEF BatchAdvances
<1>3. /\ Current # 0 /\ Current \in Batch /\ mem.index = Current /\ pc = "idle" /\ mem.known
      /\ \A i \in Batch : folder[i].stage = "off"
      /\ NoManifest(Current, folder[Current], overlooked)
  BY <1>2, ResultIs
<1>4. folder[Current].delivered
  BY <1>1, <1>3, BatchIs DEF StateTells
<1>5. /\ \A i \in Batch : i < Current => folder[i].delivered
      /\ \A i \in Batch : i # Current => NoManifest(i, folder[i], overlooked)
      /\ \A i \in Batch : i > Current => Untried(folder[i])
  BY <1>3, BatchIs DEF StateTells
<1>6. UNCHANGED <<queue, volume>>
  BY <1>1 DEF GoOn
<1>7. \A i \in Batch : i < Current \/ i = Current \/ i > Current
  <2>1. Batch \subseteq Nat
    BY SetsAre
  <2> QED
    BY <1>3, <2>1
<1>8. CASE Current + 1 \in Batch
  <2> DEFINE i == Current + 1
  <2>1. SubmitNext(i) /\ i \in Batch
    BY <1>1, <1>8 DEF GoOn
  <2>2. /\ \A j \in Batch : j < i => j < Current \/ j = Current
        /\ \A j \in Batch : j > i => j > Current
        /\ i > Current
    <3>1. Batch \subseteq Nat
      BY SetsAre
    <3> QED
      BY <1>3, <3>1
  <2> HIDE DEF i
  <2>3. Untried(folder[i])
    BY <1>5, <2>1, <2>2
  <2>4. ~Silent(folder[i]) /\ ~folder[i].delivered /\ NoManifest(i, folder[i], overlooked)
    BY <2>3 DEF Untried, Silent, NoManifest
  <2> DEFINE r == [NoBatch EXCEPT !.index = i]
  <2>5. r.index = i /\ r.known = FALSE /\ r.discarding = FALSE
    BY <2>1, StateIs
  <2> HIDE DEF r
  <2>6. \A j \in Batch : j # i => NoManifest(j, folder[j], overlooked)
    BY <1>3, <1>5
  <2>7. StateTells(r, folder, Excepted, overlooked)
    BY <1>4, <1>5, <2>2, <2>4, <2>5, <2>6 DEF StateTells
  <2>8. IInv'
    BY <1>3, <1>6, <2>1, <2>4, <2>7, SubmitKeeps DEF r
  <2> QED
    BY <1>3, <2>3, <2>8 DEF i
<1>9. CASE Current + 1 \notin Batch
  <2>1. Clear /\ Tell("done", Current) /\ UNCHANGED folder
    BY <1>1, <1>9 DEF GoOn
  <2>2. \A i \in Batch : ~(i > Current)
    <3>1. Count \in Nat /\ Selected \in Nat
      BY SetsAre
    <3> QED
      BY <1>3, <1>9, <3>1 DEF Batch
  <2>3. \A i \in Batch : folder[i].delivered
    BY <1>4, <1>5, <1>7, <2>2
  <2>4. IInv'
    BY <1>2, <1>3, <1>6, <2>1, <2>3, ClearKeeps
  <2> QED
    BY <1>3, <1>9, <2>4
<1> QED
  BY <1>8, <1>9

(* The first folder of a batch is begun. *)
LEMMA StartBatchKeeps ==
  ASSUME IInv, StartBatch
  PROVE  IInv'
<1>1. /\ pc = "idle" /\ mem = NoBatch /\ window = "idle"
      /\ \A i \in Batch : ~folder[i].delivered /\ folder[i].evidence = "none"
      /\ SubmitNext(Count + 1) /\ UNCHANGED <<queue, volume>>
  BY DEF StartBatch
<1> DEFINE i == Count + 1
<1>2. /\ i \in Batch /\ \A j \in Batch : ~(j < i)
  <2>1. Count \in Nat /\ Selected \in Nat \ {0}
    BY SetsAre
  <2> QED
    BY <2>1 DEF Batch
<1>3. SubmitNext(i)
  BY <1>1
<1> HIDE DEF i
<1>4. \A j \in Batch : folder[j].stage = "off"
  BY <1>1, BatchRests
<1>5. \A j \in Batch : /\ Untried(folder[j]) /\ ~Silent(folder[j])
                       /\ NoManifest(j, folder[j], overlooked)
  BY <1>1 DEF Untried, Silent, NoManifest
<1> DEFINE r == [NoBatch EXCEPT !.index = i]
<1>6. r.index = i /\ r.known = FALSE /\ r.discarding = FALSE
  BY <1>2, StateIs
<1> HIDE DEF r
<1>7. StateTells(r, folder, Excepted, overlooked)
  BY <1>2, <1>5, <1>6 DEF StateTells
<1> QED
  BY <1>1, <1>2, <1>3, <1>4, <1>5, <1>7, SubmitKeeps DEF r

-----------------------------------------------------------------------------
(* The program is killed and started again.                                *)

(* The batch remembers what the settings tell.                             *)
LEMMA RestartTells ==
  ASSUME IInv, mem' = settings, settings' = settings, window' = "idle", told' = NoneTold,
         confirmed' = confirmed, overlooked' = overlooked,
         \A i \in Batch : /\ folder'[i].evidence = folder[i].evidence
                          /\ folder'[i].delivered = folder[i].delivered
                          /\ folder'[i].stage = "off"
  PROVE  BatchTells'
<1>1. Excepted' = Excepted
  BY DEF Excepted
<1>2. StateTells(settings, folder', Excepted, overlooked)
  BY BatchIs, StateSame
<1>3. told'.what = "none"
  BY DEF NoneTold
<1>4. BatchFollows' /\ ToldIsTrue' /\ BatchHelperFollows'
  BY <1>3 DEF BatchFollows, ToldIsTrue, BatchHelperFollows
<1> QED
  BY <1>1, <1>2, <1>4 DEF BatchTells

(* The queue remembers what its journal tells.                             *)
LEMMA InterruptTells ==
  ASSUME IInv, Interrupt
  PROVE  /\ RecordsTell' /\ FolderTells' /\ folder' \in [Folders -> Folder]
         /\ \A i \in QueueFolders : folder'[i].stage = "off"
         /\ \A i \in Batch : folder'[i] = folder[i]
         /\ journal' \in Generations(Plan) /\ child' \in Generations(Child)
<1>1. /\ pc # "idle" /\ delivered' = delivered
      /\ away' = away /\ confirmed' = confirmed /\ overlooked' = overlooked
      /\ Excepted' = Excepted /\ UNCHANGED <<delivered, volume>>
  BY DEF Interrupt, volume, Excepted
<1>2. CASE pc = "helper" /\ folder[Item].stage # "off"
  <2>1. Lose(Item, "none") /\ journal' = journal /\ child' = child
    BY <1>2 DEF Interrupt
  <2>2. /\ FolderTells' /\ folder' \in [Folders -> Folder]
        /\ \A i \in QueueFolders : folder'[i].stage = "off"
        /\ \A i \in Batch : folder'[i] = folder[i]
        /\ Tells(plan, folder', delivered, Excepted', overlooked', child.current)
    BY <1>1, <1>2, <2>1, LostTurn
  <2>3. plan = journal.current /\ plan # NoPlan
    BY <1>2, AtWork
  <2>4. RecordsTell'
    BY <1>1, <2>1, <2>2, <2>3, QueueIs DEF RecordsTell
  <2> QED
    BY <2>1, <2>2, <2>4, TypesAre
<1>3. CASE ~(pc = "helper" /\ folder[Item].stage # "off")
  <2>1. folder' = folder
    BY <1>3 DEF Interrupt
  <2>2. FolderTells'
    BY <1>1, <2>1, FoldersAlone
  <2>3. \A i \in QueueFolders : folder[i].stage = "off"
    BY <1>3, QueueIs DEF HelperFollows
  <2>4. CASE UNCHANGED <<journal, child>>
    <3>1. RecordsTell'
      BY <1>1, <2>1, <2>4 DEF IInv, QueueTells, RecordsTell
    <3> QED
      BY <2>1, <2>2, <2>3, <2>4, <3>1, TypesAre
  <2>5. CASE /\ pc = "retire" /\ UNCHANGED child
             /\ journal' = [journal EXCEPT !.current = journal.previous, !.previous = NoPlan]
    <3>1. ChildQuiet
      BY <1>1, <2>1, <2>5 DEF ChildQuiet
    <3>2. /\ journal' \in Generations(Plan)
          /\ journal'.current = NoPlan => journal'.previous = NoPlan
          /\ journal'.current # NoPlan => RecordsTell'
      BY <2>5, <3>1, HalfRetired
    <3>3. RecordsTell'
      BY <2>5, <3>1, <3>2, RetiredTells
    <3> QED
      BY <2>1, <2>2, <2>3, <2>5, <3>2, <3>3, TypesAre
  <2>6. CASE pc = "hooked" /\ child' = HalfRemoved /\ UNCHANGED journal
    <3>1. /\ child' \in Generations(Child)
          /\ Tells(plan, folder, delivered, Excepted, overlooked, child'.current)
          /\ ChildFits(child', plan, delivered)
      BY <2>6, ChildRetires
    <3>2. plan = journal.current /\ plan # NoPlan
      BY <2>6, AtWork
    <3>3. RecordsTell'
      BY <1>1, <2>1, <2>6, <3>1, <3>2, QueueIs DEF RecordsTell
    <3> QED
      BY <2>1, <2>2, <2>3, <2>6, <3>1, <3>3, TypesAre
  <2> QED
    BY <2>4, <2>5, <2>6 DEF Interrupt
<1> QED
  BY <1>2, <1>3

(* The program is killed and started again. *)
LEMMA RestartKeeps ==
  ASSUME IInv, Restart
  PROVE  IInv'
<1>1. mem' = settings /\ window' = "idle" /\ told' = NoneTold /\ settings' = settings
  BY DEF Restart
<1>2. told' \in [what : {"none", "done", "deleted", "failed"}, of : Batch \union {0}]
  BY <1>1 DEF NoneTold
<1>3. NoReport \in [outcome : Outcomes, published : SUBSET Items]
  BY DEF NoReport, Outcomes
<1>4. CASE Interrupt
  <2>1. /\ pc # "idle" /\ pc' = "idle" /\ plan' = NoPlan /\ report' = NoReport
        /\ faults' = faults + 1 /\ faults < MaxFaults /\ delivered' = delivered
        /\ away' = away /\ confirmed' = confirmed /\ overlooked' = overlooked
    BY <1>4 DEF Interrupt, Fault, volume
  <2>2. faults' \in 0..MaxFaults
    BY <2>1, TypesAre, SetsAre
  <2>3. /\ RecordsTell' /\ FolderTells' /\ folder' \in [Folders -> Folder]
        /\ \A i \in QueueFolders : folder'[i].stage = "off"
        /\ \A i \in Batch : folder'[i] = folder[i]
        /\ journal' \in Generations(Plan) /\ child' \in Generations(Child)
    BY <1>4, InterruptTells
  <2>4. ReportIsTrue'
    BY <2>1 DEF ReportIsTrue, NoReport
  <2>5. QueueTells'
    BY <2>1, <2>3, <2>4, QueueStops
  <2>6. \A i \in Batch : folder'[i].stage = "off"
    <3>1. window # "helper"
      BY <2>1, OneAtATime
    <3> QED
      BY <2>3, <3>1, BatchRests
  <2>7. BatchTells'
    BY <1>1, <2>1, <2>3, <2>6, RestartTells
  <2>8. CommandsTypeOK'
    BY <1>1, <1>2, <1>3, <2>1, <2>2, <2>3, PlanIs, TypesAre, TypesMake DEF Points
  <2> QED
    BY <2>3, <2>5, <2>7, <2>8 DEF IInv
<1>5. CASE /\ pc = "idle" /\ Fault /\ report' = NoReport
           /\ IF window = "helper" /\ folder[Current].stage # "off"
              THEN Lose(Current, "none") ELSE UNCHANGED folder
           /\ UNCHANGED <<journal, plan, child, delivered, pc, volume>>
  <2>1. /\ faults' = faults + 1 /\ faults < MaxFaults
        /\ away' = away /\ confirmed' = confirmed /\ overlooked' = overlooked
    BY <1>5 DEF Fault, volume
  <2>2. faults' \in 0..MaxFaults
    BY <2>1, TypesAre, SetsAre
  <2>3. /\ FolderTells' /\ folder' \in [Folders -> Folder]
        /\ \A i \in QueueFolders : folder'[i] = folder[i]
        /\ \A i \in Batch : /\ folder'[i].evidence = folder[i].evidence
                            /\ folder'[i].delivered = folder[i].delivered
                            /\ folder'[i].stage = "off"
    <3>1. CASE window = "helper" /\ folder[Current].stage # "off"
      <4>1. Lose(Current, "none")
        BY <1>5, <3>1
      <4>2. /\ Current \in Batch /\ Current \in Folders
            /\ \A i \in Batch : i # Current => folder[i].stage = "off"
        BY <3>1, UnderWay
      <4>3. /\ FolderTells' /\ folder' \in [Folders -> Folder]
            /\ \A j \in Folders : j # Current => folder'[j] = folder[j]
            /\ folder'[Current].stage = "off"
            /\ folder'[Current].evidence = folder[Current].evidence
            /\ folder'[Current].delivered = folder[Current].delivered
        BY <2>1, <4>1, <4>2, LoseIs
      <4>4. \A i \in QueueFolders : folder'[i] = folder[i]
        BY <4>2, <4>3, SetsAre
      <4>5. \A i \in Batch : i # Current => folder'[i] = folder[i]
        BY <4>3, SetsAre
      <4> QED
        BY <4>2, <4>3, <4>4, <4>5
    <3>2. CASE ~(window = "helper" /\ folder[Current].stage # "off")
      <4>1. folder' = folder
        BY <1>5, <3>2
      <4>2. \A i \in Batch : folder[i].stage = "off"
        BY <3>2, BatchIs DEF BatchHelperFollows
      <4> QED
        BY <2>1, <4>1, <4>2, FoldersAlone, TypesAre
    <3> QED
      BY <3>1, <3>2
  <2>4. BatchTells'
    BY <1>1, <2>1, <2>3, RestartTells
  <2> QED
    BY <1>1, <1>2, <1>5, <2>1, <2>2, <2>3, <2>4, TypesAre, BatchStep
<1> QED
  BY <1>4, <1>5 DEF Restart

-----------------------------------------------------------------------------
(* The invariant.                                                          *)

(* The invariant holds before anything is selected. *)
LEMMA InitInvariant == CommandsInit => IInv
<1> SUFFICES ASSUME CommandsInit PROVE IInv
  OBVIOUS
<1>1. /\ folder = [i \in Folders |-> Untouched] /\ journal = [current |-> NoPlan, previous |-> NoPlan]
      /\ plan = NoPlan /\ child = [current |-> NoChild, previous |-> NoChild]
      /\ delivered = {} /\ pc = "idle" /\ report = NoReport /\ faults = 0
      /\ away = FALSE /\ confirmed = {} /\ overlooked = {}
      /\ settings = NoBatch /\ mem = NoBatch /\ window = "idle" /\ told = NoneTold
  BY DEF CommandsInit, Init, FolderInit
<1>2. /\ Untouched \in Folder /\ Untouched.stage = "off" /\ Untouched.command = "none"
      /\ Untouched.evidence = "none" /\ Untouched.delivered = FALSE /\ Untouched.answer = "none"
  BY DEF Untouched, Folder, Answers
<1>3. CommandsTypeOK
  <2>1. folder \in [Folders -> Folder]
    BY <1>1, <1>2
  <2>2. journal \in Generations(Plan) /\ child \in Generations(Child) /\ plan \in Plan
    BY <1>1, PlanIs, ChildIs, GenerationsAre
  <2>3. report \in [outcome : Outcomes, published : SUBSET Items]
    BY <1>1 DEF NoReport, Outcomes
  <2>4. told \in [what : {"none", "done", "deleted", "failed"}, of : Batch \union {0}]
    BY <1>1 DEF NoneTold
  <2>5. faults \in 0..MaxFaults
    BY <1>1, SetsAre
  <2>6. TypeOK
    BY <1>1, <2>1, <2>2, <2>3, <2>5 DEF TypeOK
  <2> QED
    BY <1>1, <2>4, <2>6, StateIs DEF CommandsTypeOK
<1>4. \A i \in Folders : folder[i] = Untouched
  BY <1>1
<1>5. FolderTells
  BY <1>2, <1>4 DEF FolderTells, StageTells, AnswerTells, NotFound, Busy
<1>6. journal.current = NoPlan /\ journal.previous = NoPlan
      /\ child.current = NoChild /\ child.previous = NoChild
  BY <1>1
<1>7. RecordsTell
  <2>1. Tells(journal.current, folder, delivered, Excepted, overlooked, child.current)
    BY <1>6 DEF Tells
  <2>2. MayComeBack(journal.previous, journal.current)
    BY <1>6, PlanIs DEF MayComeBack
  <2>3. ChildFits(child, journal.current, delivered)
    BY <1>6 DEF ChildFits
  <2>4. \A i \in QueueFolders : NoManifest(i, folder[i], overlooked)
    BY <1>2, <1>4, SetsAre DEF NoManifest
  <2> QED
    BY <2>1, <2>2, <2>3, <2>4 DEF RecordsTell
<1>8. PlanFollows /\ FileFollows /\ EndFollows /\ TurnFollows
  BY <1>1 DEF PlanFollows, FileFollows, EndFollows, TurnFollows
<1>9. HelperFollows
  BY <1>1, <1>2, <1>4, SetsAre DEF HelperFollows
<1>10. ReportIsTrue
  BY <1>1 DEF ReportIsTrue, NoReport
<1>11. \A i \in Batch : NoManifest(i, folder[i], overlooked) /\ folder[i].stage = "off"
  BY <1>2, <1>4, SetsAre DEF NoManifest
<1>12. StateTells(mem, folder, Excepted, overlooked)
       /\ StateTells(settings, folder, Excepted, overlooked)
  BY <1>1, <1>11, NothingTells
<1>13. told.what = "none"
  BY <1>1 DEF NoneTold
<1>14. BatchFollows /\ BatchHelperFollows /\ ToldIsTrue
  BY <1>1, <1>11, <1>13, StateIs DEF BatchFollows, BatchHelperFollows, ToldIsTrue
<1> QED
  BY <1>3, <1>5, <1>7, <1>8, <1>9, <1>10, <1>12, <1>14
     DEF IInv, QueueTells, WorkerFollows, BatchTells

-----------------------------------------------------------------------------
(* The invariant of every step.                                            *)

(* A step that changes nothing. *)
LEMMA StandingKeeps ==
  ASSUME IInv, UNCHANGED all
  PROVE  IInv'
<1>1. UNCHANGED <<journal, plan, child, delivered, pc, report, volume, folder, faults>>
      /\ UNCHANGED batch
  BY DEF all, vars, queue
<1>2. /\ mem' = mem /\ settings' = settings /\ window' = window /\ told' = told
      /\ away' = away /\ confirmed' = confirmed /\ overlooked' = overlooked
  BY <1>1 DEF batch, volume
<1>3. FolderTells'
  BY <1>1, <1>2, FoldersAlone
<1>4. BatchTells'
  BY <1>1, <1>2 DEF IInv, BatchTells, StateTells, NoManifest, Excepted, BatchFollows,
     BatchHelperFollows, Current, ToldIsTrue
<1> QED
  BY <1>1, <1>2, <1>3, <1>4, TypesAre, BatchStep

(* The steps of the queue's worker. *)
LEMMA GoKeeps ==
  ASSUME IInv, Go, UNCHANGED batch
  PROVE  IInv'
<1>1. CASE Prepare
  BY <1>1, PrepareKeeps
<1>2. CASE Open
  BY <1>2, OpenKeeps
<1>3. CASE Reopen
  BY <1>3, ReopenKeeps
<1>4. CASE Finish
  BY <1>4, FinishKeeps
<1>5. CASE Advance
  BY <1>5, AdvanceKeeps
<1>6. CASE Terminal
  BY <1>6, TerminalKeeps
<1>7. CASE RetireQueue
  BY <1>7, RetireQueueKeeps
<1>8. CASE ResumeChild
  BY <1>8, ResumeChildKeeps
<1>9. CASE StartChild
  BY <1>9, StartChildKeeps
<1>10. CASE ChildDelivers
  BY <1>10, ChildDeliversKeeps
<1>11. CASE ChildEnds
  BY <1>11, ChildEndsKeeps
<1>12. CASE AcknowledgeChild
  BY <1>12, AcknowledgeChildKeeps
<1>13. CASE RetireChild
  BY <1>13, RetireChildKeeps
<1>14. CASE StartFolder \/ RecoverFolder
  BY <1>14, StartFolderKeeps
<1>15. CASE HelperWorks
  BY <1>15, HelperWorksKeeps
<1>16. CASE AcknowledgeFolder
  BY <1>16, AcknowledgeFolderKeeps
<1>17. CASE FolderDone
  BY <1>17, FolderDoneKeeps
<1>18. CASE FolderNeverBegan
  BY <1>18, FolderNeverBeganKeeps
<1>19. CASE FolderRefused
  BY <1>19, FolderRefusedKeeps
<1>20. CASE FolderNeedsRecovery
  BY <1>20, ThrowsKeep
<1>21. CASE FolderLeavesManifest
  BY <1>21, FolderLeavesManifestKeeps
<1> QED
  BY <1>1, <1>2, <1>3, <1>4, <1>5, <1>6, <1>7, <1>8, <1>9, <1>10, <1>11, <1>12, <1>13, <1>14,
     <1>15, <1>16, <1>17, <1>18, <1>19, <1>20, <1>21 DEF Go

(* What goes wrong for the worker. *)
LEMMA HindranceKeeps ==
  ASSUME IInv, Hindrance, UNCHANGED batch
  PROVE  IInv'
<1>1. CASE PrepareNothing
  BY <1>1, PrepareNothingKeeps
<1>2. CASE RetireFails
  BY <1>2, RetireFailsKeeps
<1>3. CASE ParentsReplaced
  BY <1>3, ParentsReplacedKeeps
<1>4. CASE CannotStart \/ ChildNeedsRecovery
  BY <1>4, ThrowsKeep
<1>5. CASE RetireChildFails
  BY <1>5, RetireChildFailsKeeps
<1>6. CASE HelperHindered
  BY <1>6, HelperHinderedKeeps
<1> QED
  BY <1>1, <1>2, <1>3, <1>4, <1>5, <1>6 DEF Hindrance

(* The steps of the batch. *)
LEMMA BatchWorkKeeps ==
  ASSUME IInv, BatchWork
  PROVE  IInv'
<1>1. CASE Refresh
  BY <1>1, RefreshKeeps
<1>2. CASE BatchHelperWorks
  BY <1>2, BatchHelperWorksKeeps
<1>3. CASE AcknowledgeBatch
  BY <1>3, AcknowledgeBatchKeeps
<1>4. CASE DiscardDone
  BY <1>4, DiscardDoneKeeps
<1>5. CASE DiscardFails \/ OfferRecovery
  BY <1>5, RememberingKeeps
<1>6. CASE BatchAdvances
  BY <1>6, BatchAdvancesKeeps
<1>7. CASE RetryFolder
  BY <1>7, RetryFolderKeeps
<1>8. CASE DropBatch
  BY <1>8, DropBatchKeeps
<1> QED
  BY <1>1, <1>2, <1>3, <1>4, <1>5, <1>6, <1>7, <1>8 DEF BatchWork

(* Every step keeps the invariant. *)
LEMMA NextInvariant == IInv /\ [CommandsNext]_all => IInv'
<1> SUFFICES ASSUME IInv, [CommandsNext]_all PROVE IInv'
  OBVIOUS
<1>1. CASE UNCHANGED all
  BY <1>1, StandingKeeps
<1>2. CASE Resume /\ QueueMayRun /\ UNCHANGED batch
  BY <1>2, ResumeKeeps
<1>3. CASE Go /\ UNCHANGED batch
  BY <1>3, GoKeeps
<1>4. CASE BatchWork
  BY <1>4, BatchWorkKeeps
<1>5. CASE Start /\ QueueMayRun /\ UNCHANGED batch
  BY <1>5, StartKeeps
<1>6. CASE Hindrance /\ UNCHANGED batch
  BY <1>6, HindranceKeeps
<1>7. CASE (Leave \/ Return) /\ UNCHANGED batch
  BY <1>7, LeaveKeeps
<1>8. CASE StartBatch
  BY <1>8, StartBatchKeeps
<1>9. CASE BatchHelperHindered
  BY <1>9, BatchHelperHinderedKeeps
<1>10. CASE Close
  BY <1>10, CloseKeeps
<1>11. CASE Restart
  BY <1>11, RestartKeeps
<1>12. CASE \E choice \in Choices : Choose(choice)
  BY <1>12, ChooseKeeps
<1> QED
  BY <1>1, <1>2, <1>3, <1>4, <1>5, <1>6, <1>7, <1>8, <1>9, <1>10, <1>11, <1>12
     DEF CommandsNext, Work, QueueWork

(* What the three parties know of each other holds at every instant: for   *)
(* every selection, every batch and every number of faults.                *)
THEOREM InvariantHolds == CommandsSpec => []IInv
BY InitInvariant, NextInvariant, PTL DEF CommandsSpec

-----------------------------------------------------------------------------
(* What the user is told.                                                  *)

(* The invariant knows what the user is told. *)
LEMMA OutcomesFollow == IInv => EveryOutcomeIsTrue
<1> SUFFICES ASSUME IInv PROVE EveryOutcomeIsTrue
  OBVIOUS
<1>1. ReportIsTrue /\ ToldIsTrue
  BY QueueIs, BatchIs
<1>2. told.what = "done" => \A i \in Batch : folder[i].delivered
  BY <1>1 DEF ToldIsTrue
<1>3. told.what = "deleted" /\ told.of \notin overlooked => folder[told.of].evidence # "manifest"
  BY <1>1 DEF ToldIsTrue, NoManifest
<1>4. told.what = "failed" /\ told.of \notin confirmed \union overlooked =>
        ~folder[told.of].delivered /\ folder[told.of].evidence # "manifest"
  BY <1>1 DEF ToldIsTrue, Failed, NoManifest, Excepted
<1> QED
  BY <1>1, <1>2, <1>3, <1>4 DEF EveryOutcomeIsTrue

(* What the user is told of the queue and of the batch is true.            *)
THEOREM OutcomesAreTrue == CommandsSpec => []EveryOutcomeIsTrue
BY OutcomesFollow, InvariantHolds, PTL

-----------------------------------------------------------------------------
(* What is on record.                                                      *)

(* The invariant knows what is on record. *)
LEMMA RecordsFollow == IInv => NothingIsForgotten
<1> SUFFICES ASSUME IInv PROVE NothingIsForgotten
  OBVIOUS
<1>1. CommandsTypeOK
  BY DEF IInv
<1>2. QueueForgetsNothing
  <2> SUFFICES ASSUME journal.current = NoPlan
               PROVE  /\ child.current = NoChild
                      /\ \A i \in QueueFolders \ overlooked : folder[i].evidence # "manifest"
    BY DEF QueueForgetsNothing
  <2>1. ~(journal.current.phase > 0)
    BY PlanIs
  <2>2. child.current = NoChild
    BY <2>1, QueueIs DEF ChildFits
  <2> QED
    BY <2>2, QueueIs DEF NoManifest
<1>3. \A i \in Batch \ overlooked : folder[i].evidence = "manifest" => settings.index = i
  BY BatchIs DEF StateTells, NoManifest
<1> QED
  BY <1>1, <1>2, <1>3 DEF NothingIsForgotten

(* Whatever has a manifest on disk has a record, and the journal of a      *)
(* file's transfer never outlives that of the queue.                       *)
THEOREM RecordsAreKept == CommandsSpec => []NothingIsForgotten
BY RecordsFollow, InvariantHolds, PTL

-----------------------------------------------------------------------------
(* Nothing is begun twice.                                                 *)

Tolerated(i) == IF i \in Batch THEN {"none", "husk"} ELSE {"none"}

(* The folders that this step begins may be begun. *)
BeginsRightly ==
  \A i \in Folders :
    folder[i].stage = "off" /\ folder'[i].command = "fresh" => MayBeginWith(i, Tolerated(i))

(* A helper that is off has no command. *)
LEMMA OffHasNone ==
  ASSUME IInv, NEW i \in Folders, folder[i].stage = "off"
  PROVE  folder[i].command # "fresh"
BY QueueIs DEF FolderTells, StageTells

(* Of one folder at most the step changes anything. *)
LEMMA BeginsOne ==
  ASSUME IInv, NEW i \in Folders, \A j \in Folders : j # i => folder'[j] = folder[j],
         folder[i].stage = "off" /\ folder'[i].command = "fresh" => MayBeginWith(i, Tolerated(i))
  PROVE  BeginsRightly
<1> SUFFICES ASSUME NEW j \in Folders, folder[j].stage = "off", folder'[j].command = "fresh"
             PROVE  MayBeginWith(j, Tolerated(j))
  BY DEF BeginsRightly
<1>1. CASE j = i
  BY <1>1
<1>2. CASE j # i
  <2>1. folder'[j] = folder[j]
    BY <1>2
  <2> QED
    BY <2>1, OffHasNone
<1> QED
  BY <1>1, <1>2

(* No folder changes, or the helper of one of them was on. *)
LEMMA BeginsNone ==
  ASSUME IInv, \/ folder' = folder
               \/ \E i \in Folders : /\ folder[i].stage # "off"
                                     /\ \A j \in Folders : j # i => folder'[j] = folder[j]
  PROVE  BeginsRightly
<1>1. CASE folder' = folder
  BY <1>1, OffHasNone DEF BeginsRightly
<1>2. CASE \E i \in Folders : /\ folder[i].stage # "off"
                              /\ \A j \in Folders : j # i => folder'[j] = folder[j]
  BY <1>2, BeginsOne
<1> QED
  BY <1>1, <1>2

(* A helper that works, or is hindered, was on. *)
LEMMA HelperIsOn ==
  ASSUME NEW i \in Folders,
         HelperStep(i) \/ HelperFails(i) \/ (\E a \in Answers : OutOfReach(i, a))
  PROVE  folder[i].stage # "off"
<1>1. CASE HelperStep(i)
  BY <1>1 DEF HelperStep, FindNothing, FindHusk, FindManifest, FindControlTaken, MakeControl,
     WriteManifest, Deliver, Report, ReportDiscard, Retire, FinishRetirement,
     FinishWithdrawal, CleanHusk, FindDestinationTaken, Refuse
<1>2. CASE HelperFails(i)
  BY <1>2 DEF HelperFails, CleanHusk, AbandonHusk, Refuse, ConfirmCopy, Reject, GiveUp,
     Withdraw, FailWithdrawal, FailRetirement
<1>3. CASE \E a \in Answers : OutOfReach(i, a)
  BY <1>3 DEF OutOfReach
<1> QED
  BY <1>1, <1>2, <1>3

(* A helper at work begins no other. *)
LEMMA HelperBeginsNone ==
  ASSUME IInv, NEW i \in Folders, Proceed(i) \/ Miss(i) \/ Hinder(i),
         overlooked \subseteq overlooked'
  PROVE  BeginsRightly
<1>1. folder[i].stage # "off"
  <2>1. CASE Proceed(i)
    BY <2>1, HelperIsOn DEF Proceed
  <2>2. CASE Miss(i)
    BY <2>2, HelperIsOn DEF Miss
  <2>3. CASE Hinder(i)
    BY <2>3, HelperIsOn DEF Hinder, Lose
  <2> QED
    BY <2>1, <2>2, <2>3
<1>2. Served(i, Excepted', overlooked')
  BY ProceedServes, MissedServes, HinderServes
<1>3. \A j \in Folders : j # i => folder'[j] = folder[j]
  <2>1. Become(i, folder'[i]) /\ folder'[i] \in Folder
    BY <1>2 DEF Served, Serves
  <2> QED
    BY <2>1, TypesAre, BecomeIs
<1> QED
  BY <1>1, <1>3, BeginsNone

(* The queue begins a folder afresh when nothing is there. *)
LEMMA FolderBegins ==
  ASSUME IInv, StartFolder \/ RecoverFolder
  PROVE  BeginsRightly
<1>1. Item \in Folders /\ Item \notin Batch
  <2>1. pc \in {"recover", "fresh", "helper"}
    BY DEF StartFolder, RecoverFolder
  <2> QED
    BY <2>1, QueueIs, SetsAre DEF TurnFollows
<1>2. CASE StartFolder
  <2>1. pc = "fresh" /\ Begin(Item, "fresh") /\ "fresh" \in Commands
    BY <1>2 DEF StartFolder, Commands
  <2>2. MayBegin(Item, folder[Item])
    BY <2>1, QueueIs DEF TurnFollows
  <2>3. MayBeginWith(Item, Tolerated(Item))
    BY <1>1, <2>2 DEF MayBegin, MayBeginWith, Tolerated
  <2>4. \A j \in Folders : j # Item => folder'[j] = folder[j]
    BY <1>1, <2>1, TypesAre, BeginIs
  <2> QED
    BY <1>1, <2>3, <2>4, BeginsOne
<1>3. CASE RecoverFolder
  <2>1. PICK c \in {"resume", "discover"} : Begin(Item, c)
    BY <1>3 DEF RecoverFolder
  <2>2. c \in Commands /\ c # "fresh"
    BY DEF Commands
  <2>3. /\ \A j \in Folders : j # Item => folder'[j] = folder[j]
        /\ folder'[Item].command # "fresh"
    BY <1>1, <2>1, <2>2, TypesAre, BeginIs
  <2> QED
    BY <1>1, <2>3, BeginsOne
<1> QED
  BY <1>2, <1>3

(* The batch begins a folder when there is no manifest of it. *)
LEMMA SubmitBegins ==
  ASSUME IInv, NEW i \in Batch, SubmitNext(i), UNCHANGED <<queue, volume>>,
         NoManifest(i, folder[i], overlooked), folder[i].delivered => i \in Excepted
  PROVE  BeginsRightly
<1>1. i \in Folders /\ confirmed' = confirmed /\ overlooked' = overlooked
  BY SetsAre DEF volume
<1>2. CASE BeginAnew(i)
  <2>1. \A j \in Folders : j # i => folder'[j] = folder[j]
    BY <1>1, <1>2, BeginAnewIs
  <2>2. folder[i].evidence \in {"none", "husk", "manifest"}
    BY <1>1, TypesAre, FolderIs
  <2>3. MayBeginWith(i, Tolerated(i))
    BY <2>2 DEF MayBeginWith, Tolerated, NoManifest, Excepted
  <2> QED
    BY <1>1, <2>1, <2>3, BeginsOne
<1>3. CASE folder' = folder
  BY <1>3, BeginsNone
<1> QED
  BY <1>2, <1>3 DEF SubmitNext, CannotSubmit

(* F5 and the user's choice begin no folder afresh. *)
LEMMA RecoveryBegins ==
  ASSUME IInv, NEW r, r.index \in Batch, SubmitRecovery(r)
  PROVE  BeginsRightly
<1>1. r.index \in Folders
  BY SetsAre
<1>2. Command(r) \in Commands /\ Command(r) # "fresh"
  BY DEF Command, Commands
<1>3. /\ \A j \in Folders : j # r.index => folder'[j] = folder[j]
      /\ folder'[r.index].command # "fresh"
  <2>1. Begin(r.index, Command(r))
    BY DEF SubmitRecovery
  <2> HIDE DEF Command
  <2> QED
    BY <1>1, <1>2, <2>1, TypesAre, BeginIs
<1> QED
  BY <1>1, <1>3, BeginsOne

(* The queue begins nothing twice. *)
LEMMA QueueBegins ==
  ASSUME IInv, Go \/ Resume \/ Start \/ Hindrance \/ Leave \/ Return
  PROVE  BeginsRightly
<1>1. CASE UNCHANGED folder
  BY <1>1, BeginsNone
<1>2. CASE StartFolder \/ RecoverFolder
  BY <1>2, FolderBegins
<1>3. ASSUME pc = "helper" PROVE Item \in Folders
  BY <1>3, QueueIs, SetsAre DEF TurnFollows
<1>4. CASE HelperWorks
  <2>1. overlooked \subseteq overlooked'
    BY <1>3, <1>4, MissedServes DEF HelperWorks, Proceed, volume
  <2> QED
    BY <1>3, <1>4, <2>1, HelperBeginsNone DEF HelperWorks
<1>5. CASE HelperHindered
  BY <1>3, <1>5, HelperBeginsNone DEF HelperHindered
<1>6. CASE AcknowledgeFolder
  <2>1. /\ Item \in Folders /\ folder[Item].stage # "off"
        /\ confirmed' = confirmed /\ overlooked' = overlooked
        /\ Acknowledge(Item) \/ Lose(Item, "kept")
    BY <1>3, <1>6 DEF AcknowledgeFolder, volume
  <2>2. \A j \in Folders : j # Item => folder'[j] = folder[j]
    BY <2>1, AcknowledgeIs, LoseIs
  <2> QED
    BY <2>1, <2>2, BeginsNone
<1>7. ChildQuiet => UNCHANGED folder
  BY DEF ChildQuiet
<1>8. CASE Resume \/ Start \/ Leave \/ Return
  <2>1. UNCHANGED folder
    BY <1>7, <1>8 DEF Resume, Start, Leave, Return
  <2> QED
    BY <1>1, <2>1
<1>9. CASE Hindrance /\ ~HelperHindered
  <2>1. UNCHANGED folder
    BY <1>7, <1>9 DEF Hindrance, PrepareNothing, RetireFails, ParentsReplaced, CannotStart,
       ChildNeedsRecovery, RetireChildFails
  <2> QED
    BY <1>1, <2>1
<1>10. CASE Go /\ ~(StartFolder \/ RecoverFolder) /\ ~HelperWorks /\ ~AcknowledgeFolder
  <2>1. UNCHANGED folder
    BY <1>7, <1>10 DEF Go, Prepare, Open, Reopen, Finish, Advance, Terminal, RetireQueue,
       ResumeChild, StartChild, ChildDelivers, ChildEnds, AcknowledgeChild, RetireChild,
       FolderDone, FolderNeverBegan, FolderRefused, FolderNeedsRecovery, FolderLeavesManifest
  <2> QED
    BY <1>1, <2>1
<1> QED
  BY <1>2, <1>4, <1>5, <1>6, <1>8, <1>9, <1>10 DEF Go

(* The batch begins nothing twice. *)
LEMMA BatchBegins ==
  ASSUME IInv, BatchWork \/ StartBatch \/ BatchHelperHindered \/ Close
               \/ (\E choice \in Choices : Choose(choice))
  PROVE  BeginsRightly
<1>1. CASE UNCHANGED folder
  BY <1>1, BeginsNone
<1>2. CASE Refresh
  <2>1. CASE SubmitRecovery(mem)
    BY <1>2, <2>1, BatchIs, RecoveryBegins DEF Refresh
  <2> QED
    BY <1>1, <1>2, <2>1 DEF Refresh
<1>3. CASE \E choice \in Choices : Choose(choice)
  <2>1. PICK choice \in Choices : Choose(choice)
    BY <1>3
  <2> DEFINE r == [mem EXCEPT !.discarding = choice = "discard"]
  <2>2. window = "dialog" /\ (SubmitRecovery(r) \/ UNCHANGED folder)
    BY <2>1 DEF Choose
  <2>3. r.index = mem.index
    BY TypesAre DEF BatchRecord
  <2> HIDE DEF r
  <2>4. r.index \in Batch
    BY <2>2, <2>3, BatchIs DEF BatchFollows
  <2> QED
    BY <1>1, <2>2, <2>4, RecoveryBegins
<1>4. ASSUME window = "helper" PROVE Current \in Batch /\ Current \in Folders
  BY <1>4, UnderWay
<1>5. CASE BatchHelperWorks
  <2>1. overlooked \subseteq overlooked'
    BY <1>4, <1>5, MissedServes DEF BatchHelperWorks, Proceed, volume
  <2> QED
    BY <1>4, <1>5, <2>1, HelperBeginsNone DEF BatchHelperWorks
<1>6. CASE BatchHelperHindered
  <2>1. overlooked \subseteq overlooked'
    BY <1>6 DEF BatchHelperHindered
  <2> QED
    BY <1>4, <1>6, <2>1, HelperBeginsNone DEF BatchHelperHindered
<1>7. CASE AcknowledgeBatch
  <2>1. /\ Current \in Folders /\ folder[Current].stage # "off"
        /\ confirmed' = confirmed /\ overlooked' = overlooked
        /\ Acknowledge(Current) \/ Lose(Current, "kept")
    BY <1>4, <1>7 DEF AcknowledgeBatch, volume
  <2>2. \A j \in Folders : j # Current => folder'[j] = folder[j]
    BY <2>1, AcknowledgeIs, LoseIs
  <2> QED
    BY <2>1, <2>2, BeginsNone
<1>8. CASE RetryFolder
  BY <1>8, RetryFolderKeeps, SubmitBegins DEF RetryFolder
<1>9. CASE BatchAdvances
  <2>1. CASE Current + 1 \in Batch
    <3>1. Untried(folder[Current + 1]) /\ SubmitNext(Current + 1) /\ UNCHANGED <<queue, volume>>
      BY <1>9, <2>1, BatchAdvancesKeeps DEF BatchAdvances, GoOn
    <3> QED
      BY <2>1, <3>1, SubmitBegins DEF Untried, NoManifest
  <2>2. CASE Current + 1 \notin Batch
    BY <1>1, <1>9, <2>2 DEF BatchAdvances, GoOn
  <2> QED
    BY <2>1, <2>2
<1>10. CASE StartBatch
  <2> DEFINE i == Count + 1
  <2>1. i \in Batch
    BY SetsAre DEF Batch
  <2>2. SubmitNext(i) /\ UNCHANGED <<queue, volume>> /\ ~folder[i].delivered
        /\ folder[i].evidence = "none"
    BY <1>10, <2>1 DEF StartBatch
  <2> HIDE DEF i
  <2> QED
    BY <2>1, <2>2, SubmitBegins DEF NoManifest
<1>11. CASE DiscardDone \/ DiscardFails \/ OfferRecovery \/ DropBatch \/ Close
  BY <1>1, <1>11 DEF DiscardDone, DiscardFails, OfferRecovery, DropBatch, Close
<1> QED
  BY <1>2, <1>3, <1>5, <1>6, <1>7, <1>8, <1>9, <1>10, <1>11 DEF BatchWork

(* Nothing is begun while the program is down. *)
LEMMA RestartBegins ==
  ASSUME IInv, Restart
  PROVE  BeginsRightly
<1>1. CASE UNCHANGED folder
  BY <1>1, BeginsNone
<1>2. CASE pc = "helper" /\ Lose(Item, "none") /\ UNCHANGED volume
  <2>1. Item \in Folders /\ confirmed' = confirmed /\ overlooked' = overlooked
    BY <1>2, QueueIs, SetsAre DEF TurnFollows, volume
  <2> QED
    BY <1>2, <2>1, LoseIs, BeginsNone
<1>3. CASE window = "helper" /\ Lose(Current, "none") /\ UNCHANGED volume
  <2>1. Current \in Folders /\ confirmed' = confirmed /\ overlooked' = overlooked
    BY <1>3, UnderWay DEF volume
  <2> QED
    BY <1>3, <2>1, LoseIs, BeginsNone
<1> QED
  BY <1>1, <1>2, <1>3 DEF Restart, Interrupt

(* No transfer that has begun is begun again from the start, neither a     *)
(* file that is there nor a folder whose evidence is: for every selection, *)
(* every batch and every number of crashes and failures.                   *)
THEOREM NothingIsBegunTwice == CommandsSpec => NothingBeginsTwice
<1> DEFINE A == /\ StartChild => Item \notin delivered
                /\ \A i \in Folders :
                     folder[i].stage = "off" /\ folder'[i].command = "fresh" =>
                       MayBeginWith(i, IF i \in Batch THEN {"none", "husk"} ELSE {"none"})
<1>1. IInv /\ [CommandsNext]_all => [A]_all
  <2> SUFFICES ASSUME IInv, CommandsNext PROVE A
    OBVIOUS
  <2>1. ASSUME StartChild PROVE Item \notin delivered
    <3>1. pc = "file" /\ child.current = NoChild
      BY <2>1 DEF StartChild
    <3>2. plan.phase = 1
      BY <3>1, QueueIs DEF FileFollows
    <3> QED
      BY <3>1, <3>2, FileIs DEF ItemTells
  <2>2. BeginsRightly
    BY QueueBegins, BatchBegins, RestartBegins DEF CommandsNext, Work, QueueWork
  <2> QED
    BY <2>1, <2>2 DEF BeginsRightly, Tolerated
<1> HIDE DEF A
<1>2. CommandsSpec => [][A]_all
  BY <1>1, InvariantHolds, PTL DEF CommandsSpec
<1> QED
  BY <1>2 DEF A, NothingBeginsTwice

=============================================================================
