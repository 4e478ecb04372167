----------------------------- MODULE FileCommands -----------------------------
(***************************************************************************)
(* The copying and moving of folders as the interface runs it              *)
(* (src/ui/qt/file_command_transfer_workflow.cpp and _recovery_workflow):  *)
(* a selection of folders only is a batch of the interface's own, kept in  *)
(* the settings; any other selection with folders in it goes to the queue  *)
(* of module ObjectTransferQueue, and its own journal.  Both leave a       *)
(* folder to a helper of module FolderTransfer, both may be stopped or     *)
(* killed at any time, and F5 or the next start offers what was left.      *)
(*                                                                         *)
(* What the settings say must not be less than what is on disk: of a       *)
(* folder that was begun, they know until its evidence is gone, and a      *)
(* completion is in them before the helper removes the evidence.           *)
(***************************************************************************)
EXTENDS ObjectTransferQueue

CONSTANTS Selected      \* how many folders the user selected for the batch

Batch == (Count + 1)..(Count + Selected)

ASSUME CommandsAssumption == Selected \in Nat \ {0} /\ Folders \ Items = Batch

VARIABLES
  settings,     \* directoryTransferStateV1 in the settings file
  mem,          \* the same in memory: the folder under way and what is known of it
  window,       \* "idle", "dialog" (the decision is asked for) or "helper"
  told          \* the last outcome of the batch that the user was told, and of what

batch == <<settings, mem, window, told>>
all == <<vars, batch>>

NoBatch == [index |-> 0, manifest |-> FALSE, known |-> FALSE, discarding |-> FALSE]
BatchRecord == [index : Batch \union {0}, manifest : BOOLEAN, known : BOOLEAN, discarding : BOOLEAN]
NoneTold == [what |-> "none", of |-> 0]

CommandsTypeOK ==
  /\ TypeOK /\ {settings, mem} \subseteq BatchRecord
  /\ window \in {"idle", "dialog", "helper"}
  /\ told \in [what : {"none", "done", "deleted", "failed"}, of : Batch \union {0}]

CommandsInit == Init /\ settings = NoBatch /\ mem = NoBatch /\ window = "idle" /\ told = NoneTold

Current == mem.index

Tell(what, i) == told' = [what |-> what, of |-> i]

(* write_recovery_settings: it may fail with the state written or not. *)
Persist(r) == settings' = r /\ UNCHANGED faults
PersistFails(r) == Fault /\ settings' \in {settings, r}

-----------------------------------------------------------------------------
(* submit_next_directory_transfer and clear_directory_transfer_...         *)

(* The state is cleared in memory whether or not the settings follow. *)
Clear ==
  /\ mem' = NoBatch /\ window' = "idle"
  /\ Persist(NoBatch) \/ (PersistFails(NoBatch) /\ settings' = settings)

(* A folder is begun under a new number, which sees no evidence of another.*)
BeginAnew(i) ==
  /\ folder[i].stage = "off"
  /\ Become(i, Given([folder[i] EXCEPT !.evidence = "none"], "fresh"))

(* The settings cannot be written, or the helper not be started: the batch *)
(* is dropped, and the settings may or may not tell.                       *)
CannotSubmit(r) ==
  /\ Fault
  /\ settings' \in {settings, r, NoBatch} /\ mem' = NoBatch /\ window' = "idle"
  /\ Tell("failed", r.index) /\ UNCHANGED folder

SubmitNext(i) ==
  LET r == [NoBatch EXCEPT !.index = i] IN
  \/ Persist(r) /\ mem' = r /\ window' = "helper" /\ BeginAnew(i) /\ told' = NoneTold
  \/ CannotSubmit(r)

(* start_directory_transfer_paths: no other operation runs or is pending.  *)
(* As for the queue, one selection is followed.                            *)
StartBatch ==
  /\ pc = "idle" /\ journal.current = NoPlan /\ mem = NoBatch /\ window = "idle"
  /\ \A i \in Batch : ~folder[i].delivered /\ folder[i].evidence = "none"
  /\ SubmitNext(Count + 1)
  /\ UNCHANGED <<queue, volume>>

-----------------------------------------------------------------------------
(* refresh_or_recover, offer_directory_transfer_discard and                *)
(* submit_directory_transfer_recovery.                                     *)

Command(r) ==
  IF r.discarding THEN (IF r.manifest THEN "discard" ELSE "discover_discard")
                  ELSE (IF r.manifest THEN "resume" ELSE "discover")

SubmitRecovery(r) == Begin(r.index, Command(r)) /\ window' = "helper"

(* F5: a choice to discard stands, any other is asked for again.           *)
Refresh ==
  /\ pc = "idle" /\ window = "idle" /\ Current # 0
  /\ IF mem.discarding
     THEN SubmitRecovery(mem)
     ELSE window' = "dialog" /\ UNCHANGED folder
  /\ UNCHANGED <<queue, volume, faults, settings, mem, told>>

Choices == {"later", "continue", "discard"}

Choose(choice) ==
  LET r == [mem EXCEPT !.discarding = choice = "discard"] IN
  /\ window = "dialog"
  /\ \/ choice = "later" /\ window' = "idle" /\ UNCHANGED <<folder, faults, settings, mem>>
     \/ /\ choice # "later" /\ Persist(r) /\ mem' = r
        /\ SubmitRecovery(r)
     \/ /\ choice # "later" /\ PersistFails(r) /\ mem' = [r EXCEPT !.discarding = FALSE]
        /\ window' = "idle" /\ UNCHANGED folder
  /\ UNCHANGED <<queue, volume, told>>

-----------------------------------------------------------------------------
(* The helper of the batch.                                                *)

BatchHelperWorks ==
  /\ window = "helper"
  /\ Proceed(Current) \/ Miss(Current)
  /\ UNCHANGED <<queue, batch>>

BatchHelperHindered ==
  /\ window = "helper" /\ Hinder(Current)
  /\ overlooked' = IF folder[Current].stage = "looking" /\ folder'[Current].answer = "other"
                   THEN overlooked \union {Current} ELSE overlooked
  /\ UNCHANGED <<queue, batch>>

(* The completion is written before the helper is told to go on, and the   *)
(* helper is killed if it cannot be; record_directory_transfer_completion  *)
(* follows before the result does.                                         *)
AcknowledgeBatch ==
  LET r == [mem EXCEPT !.known = TRUE] IN
  /\ window = "helper" /\ folder[Current].stage = "reporting"
  /\ \/ Persist(r) /\ mem' = r /\ Acknowledge(Current)
     \/ PersistFails(r) /\ UNCHANGED mem /\ Lose(Current, "kept")
  /\ UNCHANGED <<queue, volume, window, told>>

-----------------------------------------------------------------------------
(* handle_directory_transfer_result, in the order of its tests.            *)

Result(answers) ==
  window = "helper" /\ folder[Current].stage = "off" /\ folder[Current].answer \in answers

DiscardDone ==
  /\ mem.discarding /\ Result({"ok"} \union NotFound)
  /\ Clear /\ Tell("deleted", Current)
  /\ UNCHANGED <<folder, queue, volume>>

RememberManifest(r) ==
  [r EXCEPT !.manifest = @ \/ folder[Current].answer \in {"kept_path", "lost_path"}]

(* The choice stands, for F5 to try again. *)
DiscardFails ==
  LET r == RememberManifest(mem) IN
  /\ mem.discarding /\ Result(Answers \ ({"ok"} \union NotFound))
  /\ mem' = r /\ window' = "idle"
  /\ Persist(r) \/ PersistFails(r)
  /\ UNCHANGED <<folder, queue, volume, told>>

(* advance_directory_transfer_batch_after_success *)
GoOn ==
  /\ IF Current + 1 \in Batch
     THEN SubmitNext(Current + 1)
     ELSE Clear /\ Tell("done", Current) /\ UNCHANGED folder
  /\ UNCHANGED <<queue, volume>>

(* MUTANT of BatchAdvances: what is not found must have been completed.    *)
BatchAdvancesOnceGone ==
  /\ ~mem.discarding /\ Result({"ok"} \union NotFound)
  /\ GoOn

BatchAdvances ==
  /\ ~mem.discarding
  /\ Result({"ok"}) \/ (mem.known /\ Result(NotFound))
  /\ GoOn

(* Nothing is found of a folder that was not complete: it is begun again,  *)
(* whatever manifest was known.                                            *)
RetryFolder ==
  /\ ~mem.discarding /\ ~mem.known /\ Result(NotFound)
  /\ SubmitNext(Current)
  /\ UNCHANGED <<queue, volume>>

OfferRecovery ==
  LET r == RememberManifest(mem) IN
  /\ ~mem.discarding /\ Result({"kept", "kept_path"})
  /\ mem' = r /\ window' = "dialog"
  /\ Persist(r) \/ PersistFails(r)
  /\ UNCHANGED <<folder, queue, volume, told>>

DropBatch ==
  /\ ~mem.discarding /\ Result({"clean", "other"})
  /\ Clear /\ Tell("failed", Current)
  /\ UNCHANGED <<folder, queue, volume>>
-----------------------------------------------------------------------------
(* The program ends.                                                       *)

(* closeEvent saves the state once nothing is under way; the next start    *)
(* loads it. *)
Close ==
  /\ pc = "idle" /\ window = "idle"
  /\ Persist(mem) \/ PersistFails(mem)
  /\ mem' = settings' /\ told' = NoneTold /\ report' = NoReport
  /\ UNCHANGED <<folder, journal, plan, child, delivered, pc, volume, window>>

(* The program is killed, and started again. *)
Restart ==
  /\ \/ Interrupt
     \/ /\ pc = "idle" /\ Fault /\ report' = NoReport
        /\ IF window = "helper" /\ folder[Current].stage # "off"
           THEN Lose(Current, "none") ELSE UNCHANGED folder
        /\ UNCHANGED <<journal, plan, child, delivered, pc, volume>>
  /\ mem' = settings /\ window' = "idle" /\ told' = NoneTold /\ UNCHANGED settings

-----------------------------------------------------------------------------

(* start_object_transfer and refresh_or_recover: a batch that is under way *)
(* or left over comes first.                                               *)
QueueMayRun == mem = NoBatch /\ window = "idle"

BatchWork ==
  \/ Refresh \/ BatchHelperWorks \/ AcknowledgeBatch
  \/ DiscardDone \/ DiscardFails \/ BatchAdvances \/ RetryFolder \/ OfferRecovery \/ DropBatch

QueueWork == ((Resume /\ QueueMayRun) \/ Go) /\ UNCHANGED batch

Work == QueueWork \/ BatchWork

CommandsNext ==
  \/ Work
  \/ Start /\ QueueMayRun /\ UNCHANGED batch
  \/ (Hindrance \/ Leave \/ Return) /\ UNCHANGED batch
  \/ StartBatch \/ BatchHelperHindered \/ Close \/ Restart
  \/ \E choice \in Choices : Choose(choice)

(* The program and its helpers go on while they are alive; the user        *)
(* presses F5 again, and is not for ever evasive when asked to continue.   *)
CommandsSpec ==
  CommandsInit /\ [][CommandsNext]_all /\ WF_all(Work) /\ SF_all(Choose("continue"))

-----------------------------------------------------------------------------
(* Properties.                                                             *)

(* What the user is told of a selection is true, of the queue (ReportIs-   *)
(* True) as of the batch: the folders of a finished batch are at their     *)
(* destination, of a folder whose unfinished data was deleted there is no  *)
(* manifest left, and a folder that failed without a recovery to offer is  *)
(* neither there nor half there.  The exceptions are the two of the queue. *)
EveryOutcomeIsTrue ==
  /\ ReportIsTrue
  /\ told.what = "done" => \A i \in Batch : folder[i].delivered
  /\ told.what = "deleted" /\ told.of \notin overlooked => folder[told.of].evidence # "manifest"
  /\ told.what = "failed" /\ told.of \notin confirmed \union overlooked =>
       ~folder[told.of].delivered /\ folder[told.of].evidence # "manifest"

(* Records are those that can be written, and whatever has a manifest on   *)
(* disk has a record: a manifest that is left alone would hide half a      *)
(* folder for good, a child's record would block every later command.      *)
NothingIsForgotten ==
  /\ CommandsTypeOK /\ QueueForgetsNothing
  /\ \A i \in Batch \ overlooked : folder[i].evidence = "manifest" => settings.index = i

(* A transfer that has begun is not begun again from the start, unless     *)
(* nothing of it is left: no second copy of a delivered file, and no       *)
(* second helper while the evidence of the first is there, but for an      *)
(* empty control directory of the batch that could not be removed.         *)
NothingBeginsTwice ==
  [][/\ StartChild => Item \notin delivered
     /\ \A i \in Folders :
          folder[i].stage = "off" /\ folder'[i].command = "fresh" =>
            MayBeginWith(i, IF i \in Batch THEN {"none", "husk"} ELSE {"none"})]_all

(* The interface looks for a manifest it has not been told of, and its     *)
(* scan takes what is there for damage.                                    *)
BatchOutOfTouch ==
  Current # 0 /\ ~mem.manifest /\ folder[Current].evidence = "husk"

(* Whoever presses F5 and continues again and again comes to the end of    *)
(* the queue and of the batch, unless record and evidence have lost each   *)
(* other or the folders stay out of reach.                                 *)
RecoversUnlessOutOfTouch ==
  []<>(journal.current = NoPlan /\ mem = NoBatch)
    \/ <>[](OutOfTouch \/ BatchOutOfTouch \/ away)

(* "Incomplete data was safely deleted" (file_command_transfer_workflow    *)
(* .cpp:762): then there is none.                                          *)
DeletedIsGone == told.what = "deleted" => folder[told.of].evidence # "manifest"
==============================================================================
