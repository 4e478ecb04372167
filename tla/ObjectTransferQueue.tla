------------------------- MODULE ObjectTransferQueue -------------------------
(***************************************************************************)
(* ObjectTransferQueue (src/ui/qt/object_transfer_queue.cpp): files and    *)
(* folders that the user selected are copied or moved one after the other. *)
(* The queue's journal holds the plan, the item under way and how far the  *)
(* item is (its phase); a file is a transfer of its own with a journal of  *)
(* its own beside the queue's, a folder is left to the helper process of   *)
(* module FolderTransfer, whose evidence lies next to the destination.     *)
(*                                                                         *)
(* What one of the three records says must never outrun the others: the    *)
(* queue acknowledges a child's end in its journal before the child drops  *)
(* its record, and advances only then.  The program may be stopped or      *)
(* killed, a journal may fail or come back half removed, the helper may be *)
(* lost, and the folders may be out of reach for a while, between any two  *)
(* steps.                                                                  *)
(***************************************************************************)
EXTENDS FolderTransfer, FiniteSets

CONSTANTS Count,        \* how many objects the user selected
          MaxFaults     \* bound: crashes, journal errors, lost helpers, failures

ASSUME QueueAssumption ==
  Count \in Nat \ {0} /\ MaxFaults \in Nat /\ Folders \subseteq Nat \ {0}

VARIABLES
  journal,      \* the two generations of the queue's journal
  plan,         \* the worker's copy of the plan
  child,        \* the two generations of the journal of a file's transfer
  delivered,    \* the files that are complete at their destination
  pc,           \* the worker's next step
  report,       \* what the last run told the user
  faults,
  away,         \* the source or the destination of the folders is out of reach
  confirmed,    \* copies of folders whose evidence went before the report (history)
  overlooked    \* folders whose evidence was out of reach or unreadable (history)

volume == <<away, confirmed, overlooked>>
queue == <<journal, plan, child, delivered, pc, report>>
vars == <<folder, queue, faults, volume>>

Items == 1..Count
Files == Items \ Folders
QueueFolders == Items \intersect Folders

NoPlan == [index |-> 0, phase |-> 0, manifest |-> FALSE, cancelled |-> FALSE]
NewPlan == [NoPlan EXCEPT !.index = 1]
Plan == [index : 0..(Count + 1), phase : 0..3, manifest : BOOLEAN, cancelled : BOOLEAN]

NoChild == [of |-> 0, end |-> "none"]
Child == [of : 0..Count, end : {"none", "open", "completed", "failed", "cancelled"}]

NoReport == [outcome |-> "none", published |-> {}]
Outcomes == {"none", "success", "failed", "cancelled", "refused", "recovery"}

Generations(S) == [current : S, previous : S]

TypeOK ==
  /\ folder \in [Folders -> Folder]
  /\ journal \in Generations(Plan) /\ plan \in Plan
  /\ child \in Generations(Child)
  /\ delivered \subseteq Files
  /\ pc \in {"idle", "prepare", "next", "file", "child", "hook", "hooked", "recover",
             "fresh", "helper", "terminal", "advance", "retire"}
  /\ report \in [outcome : Outcomes, published : SUBSET Items]
  /\ faults \in 0..MaxFaults
  /\ away \in BOOLEAN /\ {confirmed, overlooked} \subseteq SUBSET Folders

Init ==
  /\ FolderInit
  /\ journal = [current |-> NoPlan, previous |-> NoPlan] /\ plan = NoPlan
  /\ child = [current |-> NoChild, previous |-> NoChild]
  /\ delivered = {} /\ pc = "idle" /\ report = NoReport /\ faults = 0
  /\ away = FALSE /\ confirmed = {} /\ overlooked = {}

Item == plan.index
Delivered(i) == IF i \in Files THEN i \in delivered ELSE folder[i].delivered

-----------------------------------------------------------------------------
(* Ends of a run and writes to the journal.                                *)

(* published_paths: the items before the index, and an acknowledged one. *)
Published(p) == {i \in Items : i < p.index \/ (i = p.index /\ p.phase = 2)}

End(outcome, p) ==
  /\ pc' = "idle" /\ plan' = NoPlan
  /\ report' = [outcome |-> outcome, published |-> Published(p)]

(* failed(): the run throws; recovery is offered if a journal is there. *)
Throw(p) == End(IF journal'.current = NoPlan THEN "failed" ELSE "recovery", p)

Written(p) == [current |-> p, previous |-> journal.current]

(* save() *)
Save(p, next) ==
  /\ journal' = Written(p) /\ plan' = p
  /\ pc' = next /\ UNCHANGED <<report, faults>>

(* save() throws, whether or not the new generation is in place. *)
SaveFails(p) ==
  /\ faults < MaxFaults /\ faults' = faults + 1
  /\ journal' \in {journal, Written(p)}
  /\ Throw(p)

Fault == faults < MaxFaults /\ faults' = faults + 1

ChildQuiet == UNCHANGED <<folder, child, delivered, volume>>

-----------------------------------------------------------------------------
(* launch, prepare and load.                                               *)

(* A new selection is refused while either record is there.  One selection *)
(* is followed: nothing of it has been delivered before, and nothing near  *)
(* the destination bears the number of the new operation.                  *)
Start ==
  /\ pc = "idle"
  /\ IF journal.current = NoPlan /\ child.current = NoChild
     THEN /\ \A i \in Items : ~Delivered(i)
          /\ \A i \in QueueFolders : folder[i].evidence = "none"
          /\ pc' = "prepare"
          /\ report' = NoReport /\ UNCHANGED plan
     ELSE End("refused", NoPlan)
  /\ UNCHANGED <<journal, faults>> /\ ChildQuiet

(* prepare(): the selection is checked, a question about names that are    *)
(* taken is answered, and the plan is saved.                               *)
Prepare ==
  /\ pc = "prepare"
  /\ Save(NewPlan, "next") \/ SaveFails(NewPlan)
  /\ ChildQuiet

PrepareNothing ==
  /\ pc = "prepare"
  /\ \E outcome \in {"cancelled", "failed"} : End(outcome, NoPlan)
  /\ UNCHANGED <<journal, faults>> /\ ChildQuiet

(* load() *)
Resume ==
  /\ pc = "idle" /\ journal.current # NoPlan
  /\ plan' = journal.current /\ pc' = "next" /\ report' = NoReport
  /\ UNCHANGED <<journal, faults>> /\ ChildQuiet

-----------------------------------------------------------------------------
(* execute(): the loop over the items.                                     *)

(* The first look at an item: it is about to start. *)
Open ==
  /\ pc = "next" /\ Item <= Count /\ plan.phase = 0
  /\ LET p == [plan EXCEPT !.phase = 1]
         next == IF Item \in Files THEN "file" ELSE "fresh"
     IN Save(p, next) \/ SaveFails(p)
  /\ ChildQuiet

Goto(next) == pc' = next /\ UNCHANGED <<journal, plan, report, faults>>

(* MUTANT of Reopen: an acknowledged file is run again without its record. *)
ReopenAcknowledged ==
  /\ pc = "next" /\ Item <= Count /\ plan.phase # 0
  /\ Goto(CASE Item \in Files -> "file"
            [] Item \in QueueFolders /\ plan.phase = 3 -> "retire"
            [] Item \in QueueFolders /\ plan.phase # 3 -> "recover")
  /\ ChildQuiet

(* An item that an earlier run began: what has an acknowledged end and no  *)
(* record of its own is over.                                              *)
Reopen ==
  /\ pc = "next" /\ Item <= Count /\ plan.phase # 0
  /\ Goto(CASE Item \in Files /\ plan.phase >= 2 /\ child.current = NoChild ->
                 (IF plan.phase = 3 THEN "retire" ELSE "advance")
            [] Item \in Files /\ ~(plan.phase >= 2 /\ child.current = NoChild) -> "file"
            [] Item \in QueueFolders /\ plan.phase = 3 -> "retire"
            [] Item \in QueueFolders /\ plan.phase # 3 -> "recover")
  /\ ChildQuiet

Finish ==
  /\ pc = "next" /\ Item = Count + 1
  /\ Goto("retire") /\ ChildQuiet

(* MUTANT of Advance: the phase of the item before is kept.                *)
AdvanceKeepsPhase ==
  /\ pc = "advance" /\ plan.phase = 2
  /\ LET p == [plan EXCEPT !.index = Item + 1] IN Save(p, "next") \/ SaveFails(p)
  /\ ChildQuiet

Advance ==
  /\ pc = "advance" /\ plan.phase = 2
  /\ LET p == [NewPlan EXCEPT !.index = Item + 1] IN Save(p, "next") \/ SaveFails(p)
  /\ ChildQuiet

(* A failure before the child touched anything ends the whole queue. *)
Terminal ==
  /\ pc = "terminal"
  /\ LET p == [plan EXCEPT !.phase = 3, !.manifest = FALSE, !.cancelled = FALSE]
     IN Save(p, "retire") \/ SaveFails(p)
  /\ ChildQuiet

Ending ==
  IF Item = Count + 1 THEN "success" ELSE IF plan.cancelled THEN "cancelled" ELSE "failed"

Empty == [current |-> NoPlan, previous |-> NoPlan]

RetireQueue ==
  /\ pc = "retire"
  /\ journal' = Empty /\ End(Ending, plan)
  /\ UNCHANGED faults /\ ChildQuiet

(* remove() fails, or reports a failure after it removed something. *)
RetireFails ==
  /\ pc = "retire" /\ Fault
  /\ journal' \in {journal, [journal EXCEPT !.current = journal.previous, !.previous = NoPlan], Empty}
  /\ Throw(plan) /\ ChildQuiet

-----------------------------------------------------------------------------
(* run_file(): a transfer of one file with its own journal; what happens   *)
(* in it is FileTransfer's matter, here it is open until it ends.          *)

Record(end) == [of |-> Item, end |-> end]

WriteChild(r) == child' = [current |-> r, previous |-> child.current]

(* bind_file_journal: the record must be that of the item under way. *)
ResumeChild ==
  /\ pc = "file" /\ child.current # NoChild
  /\ IF child.current.of = Item
     THEN Goto(IF child.current.end = "open" THEN "child" ELSE "hook")
     ELSE Throw(plan) /\ UNCHANGED <<journal, faults>>
  /\ ChildQuiet

StartChild ==
  /\ pc = "file" /\ child.current = NoChild
  /\ WriteChild(Record("open")) /\ Goto("child")
  /\ UNCHANGED <<folder, delivered, volume>>

(* verify_directory_parents: a parent folder is another one, or gone. *)
ParentsReplaced ==
  /\ \/ pc = "file" /\ child.current = NoChild /\ Fault
     \/ pc = "fresh" /\ IF away THEN UNCHANGED faults ELSE Fault
  /\ pc' = "terminal"
  /\ UNCHANGED <<journal, plan, report>> /\ ChildQuiet

(* The check itself fails, or the child cannot be started. *)
CannotStart ==
  /\ pc \in {"file", "fresh", "recover"} /\ Fault
  /\ UNCHANGED journal /\ Throw(plan) /\ ChildQuiet

ChildDelivers ==
  /\ pc = "child" /\ Item \notin delivered
  /\ delivered' = delivered \union {Item}
  /\ WriteChild(Record("open")) /\ Goto("child")
  /\ UNCHANGED <<folder, volume>>

ChildEnds ==
  /\ pc = "child"
  /\ \E end \in (IF Item \in delivered THEN {"completed"} ELSE {"failed", "cancelled"}) :
       WriteChild(Record(end))
  /\ Goto("hook")
  /\ UNCHANGED <<folder, delivered, volume>>

(* The child ends with its work in an uncertain state and its record kept. *)
ChildNeedsRecovery ==
  /\ pc = "child" /\ Fault
  /\ UNCHANGED journal /\ Throw(plan) /\ ChildQuiet

(* before_journal_retirement: the queue takes the end down first; if it    *)
(* cannot, the child keeps its record.                                     *)
AcknowledgeChild ==
  /\ pc = "hook"
  /\ LET p == [plan EXCEPT !.phase = IF child.current.end = "completed" THEN 2 ELSE 3,
                           !.cancelled = child.current.end = "cancelled"]
     IN Save(p, "hooked") \/ SaveFails(p)
  /\ ChildQuiet

NoRecords == [current |-> NoChild, previous |-> NoChild]
HalfRemoved == [child EXCEPT !.current = child.previous, !.previous = NoChild]

RetireChild ==
  /\ pc = "hooked"
  /\ child' = NoRecords
  /\ Goto(IF plan.phase = 2 THEN "advance" ELSE "retire")
  /\ UNCHANGED <<folder, delivered, volume>>

RetireChildFails ==
  /\ pc = "hooked" /\ Fault
  /\ child' \in {child, HalfRemoved, NoRecords}
  /\ UNCHANGED journal
  /\ IF plan.phase = 3 /\ child'.current = NoChild
     THEN pc' = "retire" /\ UNCHANGED <<plan, report>>
     ELSE Throw(plan)
  /\ UNCHANGED <<folder, delivered, volume>>

-----------------------------------------------------------------------------
(* run_directory(): the helper and the answers of its service.             *)

WorkerQuiet == UNCHANGED <<journal, plan, child, delivered, report>>

(* verify_directory_parents finds the parents of the plan. *)
StartFolder ==
  /\ pc = "fresh" /\ ~away /\ Begin(Item, "fresh")
  /\ pc' = "helper" /\ WorkerQuiet /\ UNCHANGED <<faults, volume>>

RecoverFolder ==
  /\ pc = "recover" /\ Begin(Item, IF plan.manifest THEN "resume" ELSE "discover")
  /\ pc' = "helper" /\ WorkerQuiet /\ UNCHANGED <<faults, volume>>

(* The helper of folder i: what it does while the folders are in reach,    *)
(* what hinders it, and what it makes of folders that are not.             *)
Proceed(i) == ~away /\ HelperStep(i) /\ UNCHANGED <<faults, volume>>

Hinder(i) ==
  /\ Fault
  /\ (~away /\ HelperFails(i)) \/ Lose(i, "kept")
  /\ confirmed' = IF folder[i].stage = "working" /\ folder'[i].stage = "reporting"
                  THEN confirmed \union {i} ELSE confirmed
  /\ UNCHANGED away

NotFound == {"not_found", "missing", "lost", "lost_path"}

Miss(i) ==
  /\ away
  /\ \E a \in Answers :
       /\ OutOfReach(i, a)
       /\ overlooked' = IF folder[i].evidence # "none" /\ a \in NotFound
                        THEN overlooked \union {i} ELSE overlooked
  /\ UNCHANGED <<faults, away, confirmed>>

HelperWorks ==
  /\ pc = "helper"
  /\ Proceed(Item) \/ Miss(Item)
  /\ WorkerQuiet /\ UNCHANGED pc

HelperHindered ==
  /\ pc = "helper" /\ Hinder(Item)
  /\ WorkerQuiet /\ UNCHANGED <<pc, overlooked>>

(* The helper waits: the completion is saved, and only then acknowledged;  *)
(* if it cannot be saved the helper is killed.                             *)
AcknowledgeFolder ==
  /\ pc = "helper" /\ folder[Item].stage = "reporting"
  /\ LET p == [plan EXCEPT !.phase = 2] IN
     \/ Save(p, "helper") /\ Acknowledge(Item)
     \/ SaveFails(p) /\ Lose(Item, "kept")
  /\ UNCHANGED <<child, delivered, volume>>

Answered(a) == pc = "helper" /\ folder[Item].stage = "off" /\ folder[Item].answer = a

(* MUTANT of FolderDone: an acknowledged folder must answer for itself.    *)
FolderDoneOnlyIfOk == Answered("ok") /\ Goto("advance") /\ ChildQuiet

FolderDone ==
  /\ Answered("ok") \/ (Answered("not_found") /\ plan.phase = 2)
  /\ Goto("advance") /\ ChildQuiet

(* Nothing was found of a transfer that had not ended: it starts afresh. *)
FolderNeverBegan ==
  /\ Answered("not_found") /\ plan.phase = 1 /\ ~plan.manifest
  /\ Goto("fresh") /\ ChildQuiet

(* MUTANT of FolderRefused: any failure ends the queue.                    *)
FolderRefusedAnyhow ==
  /\ Answered("clean") \/ Answered("kept_path")
  /\ Goto("terminal") /\ ChildQuiet

FolderRefused ==
  /\ Answered("clean") \/ Answered("missing")
  /\ plan.phase = 1
  /\ Goto("terminal") /\ ChildQuiet

FolderNeedsRecovery ==
  /\ \/ Answered("other") \/ Answered("kept") \/ Answered("lost")
     \/ Answered("not_found") /\ plan.phase = 1 /\ plan.manifest
  /\ UNCHANGED <<journal, faults>> /\ Throw(plan) /\ ChildQuiet

(* The manifest is remembered for the next run. *)
FolderLeavesManifest ==
  /\ Answered("kept_path") \/ Answered("lost_path")
  /\ LET p == [plan EXCEPT !.manifest = TRUE] IN
     \/ journal' = Written(p) /\ Throw(p) /\ UNCHANGED faults
     \/ SaveFails(p)
  /\ ChildQuiet

-----------------------------------------------------------------------------
(* The program is stopped or killed, and the helper with it; a removal may *)
(* be half done.  stop() waits for the children, which end in the same way *)
(* a little later.                                                         *)

Interrupt ==
  /\ pc # "idle" /\ Fault
  /\ pc' = "idle" /\ plan' = NoPlan /\ report' = NoReport
  /\ \/ UNCHANGED <<journal, child>>
     \/ /\ pc = "retire" /\ UNCHANGED child
        /\ journal' = [journal EXCEPT !.current = journal.previous, !.previous = NoPlan]
     \/ pc = "hooked" /\ child' = HalfRemoved /\ UNCHANGED journal
  /\ IF pc = "helper" /\ folder[Item].stage # "off"
     THEN Lose(Item, "none") ELSE UNCHANGED folder
  /\ UNCHANGED <<delivered, volume>>

(* A volume is unmounted or a folder above renamed, and put back later.    *)
Leave ==
  /\ ~away /\ Fault /\ away' = TRUE
  /\ UNCHANGED <<folder, queue, confirmed, overlooked>>

Return == away /\ away' = FALSE /\ UNCHANGED <<folder, queue, faults, confirmed, overlooked>>

Go ==
  \/ Prepare \/ Open \/ Reopen \/ Finish \/ Advance \/ Terminal \/ RetireQueue
  \/ ResumeChild \/ StartChild \/ ChildDelivers \/ ChildEnds \/ AcknowledgeChild \/ RetireChild
  \/ StartFolder \/ RecoverFolder \/ HelperWorks \/ AcknowledgeFolder \/ FolderDone
  \/ FolderNeverBegan \/ FolderRefused \/ FolderNeedsRecovery \/ FolderLeavesManifest

Hindrance ==
  \/ PrepareNothing \/ RetireFails \/ ParentsReplaced \/ CannotStart \/ ChildNeedsRecovery
  \/ RetireChildFails \/ HelperHindered

-----------------------------------------------------------------------------
(* Properties.                                                             *)

(* What a run reports is true: success when everything is at its           *)
(* destination, an end without recovery when the published items and no    *)
(* others are there, and in any case nothing published that is not.  The   *)
(* exceptions are a copy whose evidence was removed before the queue heard *)
(* of it, which is transferred again with its own result in the way, and a *)
(* folder that was out of reach.                                           *)
ReportIsTrue ==
  /\ \A i \in report.published : Delivered(i)
  /\ report.outcome = "success" => report.published = Items
  /\ report.outcome \in {"failed", "cancelled"} =>
       \A i \in Items \ (confirmed \union overlooked) :
         Delivered(i) <=> i \in report.published

(* When the queue has no record, no child of it has one. *)
QueueForgetsNothing ==
  journal.current = NoPlan =>
    /\ child.current = NoChild
    /\ \A i \in QueueFolders \ overlooked : folder[i].evidence # "manifest"

(* A folder that is begun afresh has not been begun before, or no more is  *)
(* there of it than is tolerated.                                          *)
MayBeginWith(i, tolerated) ==
  \/ i \in overlooked
  \/ folder[i].evidence \in tolerated /\ (folder[i].delivered => i \in confirmed)

(* The evidence and the queue have lost each other: a control directory    *)
(* without a manifest that the scan takes for damage, or the path of a     *)
(* manifest that is gone.  No run recovers from either.                    *)
OutOfTouch ==
  LET p == journal.current IN
  /\ p.index \in QueueFolders /\ p.phase \in {1, 2}
  /\ \/ ~p.manifest /\ folder[p.index].evidence = "husk"
     \/ p.manifest /\ p.phase = 1 /\ folder[p.index].evidence # "manifest"
==============================================================================
