# VO-VE: a verification project

VO-VE is a browser and viewer for graphics files, written in C++20 with Qt 6. It
copies, moves, renames and deletes files in helper processes, under journals that
survive crashes; it lists folders, also slow remote ones, in other helper processes;
and it renders previews in sandboxed workers behind a persistent cache. This
directory holds TLA+ models of the parts whose correctness depends on the order of
events, the TLC runs that check them, and proofs about them.

Paths such as `fileops/durable_journal.cpp` are relative to `src/Source/src/`.

* [The system](#the-system): inventory of the components
* [The modules](#the-modules): how each corresponds to the code
* [The runs](#the-runs): what is checked, bounds, fairness
* [What is proved](#what-is-proved)
* [What the runs found](#what-the-runs-found)
* [Abstractions](#abstractions) and [what is not modelled](#not-modelled)
* [Plan](#plan)

## The system

### File operations (`fileops/`)

| Component | State | Operations | Hard behaviour |
|---|---|---|---|
| Durable journal store (`durable_journal.cpp`) | a file with a checksummed envelope, its previous generation, a temporary file, two removal claims | `write`, `read`, `remove`, `remove_if_payload_matches` | every call is several system calls; any may fail, the process may die and the power fail between two of them; another process reads meanwhile |
| File transfer coordinator (`file_transfer_coordinator.cpp`, `file_transfer_transaction.cpp`) | a transaction of items (strategy, where source, temporary, backup and destination are), one step in progress, the journal | `run_new`, `run_resume`, cancellation, overwrite decisions | each step is recorded, executed by a helper and its outcome recorded; any of the three may be lost; other programs change the files |
| Batch rename coordinator (`batch_rename_coordinator.cpp`) | a transaction of items (source, hidden, destination), phase, step, journal | `run_new`, `run_resume` | swaps and cycles of names; a decision after which there is no way back |
| Permanent delete coordinator (`permanent_delete_coordinator.cpp`) | as batch rename, with erasing as the last step | `run_new`, `run_resume` | an erased file leaves nothing to recognise |
| Operation service and helper (`file_operation_service.cpp`, `file_operation_executor.cpp`, `helper/main.cpp`) | a request in flight, a watchdog | `submit_request`: run the helper, reconcile after a lost answer | timeout, kill, an answer lost with or without its effect |
| Current journal and lease (`current_operation_journal.cpp`, `current_operation_lease.cpp`) | one journal for all coordinators, with a type tag; a lock file | acquire, type check | one operation at a time, across processes |
| Folder transfer (`basic_directory_transfer.cpp`, `directory_transfer_control.cpp`, `helper/main.cpp`) | a control directory with the manifest, two proofs and an ownership marker; the staged copy; the retired source | copy, rename, move by copy and removal; resume, discover, discard | five small files that are written in place and must be told apart when torn; a power failure that undoes some of them |
| Object transfer queue (`ui/qt/object_transfer_queue.cpp`) | a journal of its own over the journal of a file transfer and the manifest of a folder, a phase per item | start, resume, stop | the hand-over between two journals, and between a journal and a helper's evidence |
| Trash (`trash_coordinator.cpp`, `trash_transaction.cpp`) | a transaction, a hidden container with its manifest | move, roll back, cancel the rest, restore, purge | what is in the container is invisible to every view; its manifest is what lists it |
| File commands of the interface (`ui/qt/file_command_*.cpp`) | pending operation, running command; a batch of folders of its own, in the settings | start, recover (F5), continue, discard, close | a pending operation keeps every other command from starting; a completion must be in the settings before the helper removes its evidence |

### Browsing (`platform/`, `catalog/`, `ui/qt/`)

| Component | State | Operations | Hard behaviour |
|---|---|---|---|
| Directory service (`platform/directory_service.cpp`) | the wanted request, a bounded queue of batches, a reserved slot for the last one, one worker and one monitor thread per request | `submit`, `cancel`, `poll` | three threads per request, at most four requests; time limits; a helper that hangs; a queue that is full |
| Catalog session (`catalog/catalog_session.cpp`) | state, generation, retry count, staged entries, whether the model is loading | `open`, `refresh`, `suspend`, `poll` | late batches, failures, retries, partial results; the view must stay consistent |
| Thumbnail scheduler (`preview/thumbnail_scheduler.cpp`) | a bounded priority queue, remembered cancellations | `submit`, `take_next`, `cancel_generation` | three priorities with limits on being passed over; eviction; cancellations that are forgotten |
| Preview helper (`preview/helper/`, `preview/thumbnail_pipeline.cpp`) | the scheduler, one job, the frames on the socket | receive, render, answer | one thread: what it reads and when decides what a cancellation still reaches |
| Preview client (`ui/qt/preview_client.cpp`) | pending, deferred, dispatched and cancelled requests, a window of eight, deadlines, a back-off | request, cancel, keep, time out, restart | replies after cancellation and restart, back-pressure, deadlines that outlive their request |
| Thumbnail cache (`cache/`, `preview/thumbnail_pipeline.cpp`) | artifact files, an SQLite index of rows and aliases, fence files of revoked aliases, a memory cache | lookup, publish, bind, erase, prune, rebuild | a death between file and row; revocation against publication; a damaged index |
| Worker supervisor (`worker/`) | a sandboxed process and its limits | render, kill | operating-system isolation |
| Search (`search/`) | a query and its answers | start, stop | little state of its own |
| Navigation, selection (`ui/qt/`) | histories and sets | pure functions of one thread | none |

### How they interact

The user interface hands a file operation to a worker thread that runs one
coordinator. The coordinator owns the current journal (held by a lease) and sends
requests to the operation service, which starts a helper process per request and
asks a second one to *reconcile* (look what happened) if the first does not answer.
Whatever a run leaves in the journal is what a later run, perhaps of a new process,
starts from. Browsing is separate: the catalog session asks the directory service for
a folder and polls the answer from a timer of the interface thread; file operations
end with a refresh. A selection of folders only is a batch that the interface runs
itself, one directory helper after the other, with its record in the settings. Any other
selection with folders in it goes through the object transfer queue, which runs a file
transfer for a file, with that coordinator's own journal, and a directory helper for a
folder. Previews are a third chain: the view asks the preview
client, which keeps a window of requests at the preview helper; the helper looks into
the cache and renders, in a sandboxed worker, what it does not find there.

### What makes them correct

* Journal: what was acknowledged survives; a reader misses no record.
* Coordinators: no last copy of a file is lost, nothing is overwritten or erased
  that the user did not choose, no hidden file is forgotten by the journal, an
  operation ends all done or all undone and says which, and an interrupted one can be
  recovered.
* Folders and the queue: a folder is copied or moved as a whole or not at all, its
  source goes only after its copy is durable; the queue begins nothing twice, forgets
  no child and reports what happened, and so does a batch of folders.
* Trash: whatever is in the hidden container is listed.
* Previews: client and helper agree on what is outstanding; every request is answered;
  nothing revoked is shown; nothing is stored that no limit counts.
* Browsing: what is shown is one listing, complete when it is called so; failures
  take nothing away; nothing waits for ever.

## The modules

| Module | Models |
|---|---|
| `JournalRegister` | abstract: a register of two generations, and the set of registers a power loss may leave |
| `DurableJournal` | `durable_journal.cpp`, one action per system call; refines `JournalRegister` |
| `DurableJournalProofs` | the TLAPS proofs about `DurableJournal` |
| `FileTransfer` | `file_transfer_coordinator.cpp` with its transaction, the helper's checks, the reconciliation |
| `FileTransferProofs` | the TLAPS proofs about `FileTransfer` |
| `BatchRename` | `batch_rename_coordinator.cpp` and the part of the helper that it uses |
| `BatchRenameProofs` | the TLAPS proofs about `BatchRename` |
| `PermanentDelete` | `permanent_delete_coordinator.cpp` and the part of the helper that it uses |
| `PermanentDeleteProofs` | the TLAPS proofs about `PermanentDelete` |
| `DirectoryService` | `directory_service.cpp` and what its helper may send |
| `CatalogSession` | `catalog_session.cpp`, its sink, and the commands of `catalog_controller.cpp` that call it; composed with `DirectoryService` |
| `CatalogSessionProofs` | the TLAPS proofs about `CatalogSession` over `DirectoryService` |
| `FolderTransfer` | abstract: what a folder transfer promises the queue and the interface, as evidence, answers and the hand-over of completion |
| `ObjectTransferQueue` | `object_transfer_queue.cpp` over a file transfer (its record and its answer) and over `FolderTransfer` |
| `FileCommands` | the batch of folders of `file_command_transfer_workflow.cpp`, its recovery in `file_command_recovery_workflow.cpp`, and how the two share the interface with the queue; composed with `ObjectTransferQueue` |
| `FileCommandsProofs` | the TLAPS proofs about `FileCommands` with the queue in it |
| `DirectoryTransfer` | `basic_directory_transfer.cpp` for one folder; refines `FolderTransfer` |
| `DirectoryTransferProofs` | the TLAPS proofs about `DirectoryTransfer`: its invariants and the refinement |
| `Trash` | `trash_coordinator.cpp`, `trash_transaction.cpp`, and the part of the helper that it uses |
| `TrashProofs` | the TLAPS proofs about `Trash` |
| `ThumbnailScheduler` | `thumbnail_scheduler.cpp`, as operators |
| `PreviewHelper` | `preview/helper/service.cpp`: frames, job, answers; uses `ThumbnailScheduler` |
| `PreviewClient` | `preview_client.cpp`, composed with `PreviewHelper` over two channels |
| `ThumbnailCache` | `thumbnail_pipeline.cpp` with `persistent_thumbnail_cache.cpp`, `artifact_store.cpp`, `sqlite_artifact_index.cpp` |
| `MC...` | TLC instances of these |

**`DurableJournal`.** `live` is the directory as processes see it: what each of the
five files holds. `images` is the set of directories that the disk may show after a
power loss, from the last successful `fsync` of the directory to now. `pc` and `call`
are the program counter and locals of the call in progress. `BeginWrite`,
`StageTemporary`, `RotatePrimary`, `SyncRotation`, `ReplacePrimary` and `SyncWrite`
are the lines of `write()`; `BeginRemove`, `UnlinkNext`, `FinishRemove` those of
`remove()`; `BeginMatched`, `CompareGeneration`, `ClaimGeneration`, `SyncClaim`,
`UnlinkClaim`, `SyncUnlink`, `FinishMatched` those of `remove_if_payload_matches()`.
`BeginRead` and `ReadFile` are another process inside `read()`. `ProcessCrash`,
`PowerLoss` and `Decay` (damage by the medium) may happen anywhere. `acked` is what
the last successful call has promised.

**`FileTransfer`.** `fs` says what each of the six paths of an item holds (source,
staged source, temporary, backup of the overwritten file, destination, and the free
name chosen for a copy); objects have an identity, a revision, and a size that is the
planned one or not (`SnapshotsMatch` is the part of the validation that compares it). `txn` is the
coordinator's transaction, `journal` the two generations on disk, `pc` where the
worker is, `call` the request in flight. `Start` and `Resume` are `run_new` and
`run_resume`; the loop of `continue_transaction` is one action per branch; `Helper`
has the actions of the helper process (rename, delete, reserve and stream a temporary
file, reconcile); the user's answers to a conflict are `Decide...`. `Interrupt` stands
for a stop request, the death of the process and an error of the journal, at any
point. `OtherPrograms` edits, removes and creates files at visible paths. `taken` and
`approved` are history for the properties.

**`BatchRename`, `PermanentDelete`.** `dir` says what each name of the directory
holds: old, new and hidden names. The phases and the steps are those of the
transaction (`prepared`, `evacuating`, `commit_intent`, `publishing`, `rollback`, and
for deletion `permanent_delete_intent`, `deleting`). `BeginEvacuating` ... `Succeed`,
`RollBack`, `FinishRollback` are the branches of `continue_transaction` and
`rollback`; `RecordSuccess`, `LookAgain`, `NotCommitted`, `TurnAround`,
`RepeatErase`, `StopAtMissing`, `Uncertain` are what `execute_step` and
`reconcile_active` do with an answer. A crash inside `remove_journal` leaves either
generation, as `DurableJournal` shows it may. `PermanentDelete` also has `late`: the
system call that a killed helper is still inside. The service waits half a second for a
helper it has killed (`platform/posix/catalog_process.cpp:182`) and then asks another one
what became of the file; `LateEffect` is the file server's answer to the first, by the
names of then. Network folders are the only ones this coordinator is used for, and the
ones where a call can be stuck.

**`FolderTransfer`, `ObjectTransferQueue`.** In `FolderTransfer` a folder is a record of
the stage its helper is in, the command that was given, the evidence on disk (nothing, a
*husk*: a control directory without a complete manifest, or a manifest), whether the
folder has arrived, and the answer. Its actions are what a client can rely on: a helper
that has delivered reports before it retires its evidence, a resumed command that fails
offers recovery. `OutOfReach` is what the helper makes of a folder whose source or
destination is not there: the status `not_found`, which has four meanings that only the
rest of the answer tells apart. `ObjectTransferQueue` has `plan` and `journal` (the queue's transaction
in memory and its two generations on disk), `child` (the generations of a file
transfer's journal), the folders, and `pc`. `Start`, `Resume` and `Open` are `start`,
`resume` and the first look at an item (`Reopen` is a later look); the four phases of an item are those of
`run_file` and `run_directory`; `AcknowledgeChild` and `AcknowledgeFolder` record a
completion in the parent before the child's evidence goes; `RetireQueue` removes the
journal at the end. `Leave` and `Return` take the folders out of reach and back, at any
time (`away`); `overlooked` is the history of the folders whose evidence was there and
was not found, or not read.

**`FileCommands`.** `mem` is what `FileCommandController` knows of the folder under way
(its number in the batch, whether its manifest is known, whether its completion is known,
whether the user chose to discard it), `settings` the same in the settings file, `window`
whether the decision dialog is open or the helper runs. `SubmitNext` is
`submit_next_directory_transfer`, which saves first; `AcknowledgeBatch` the progress
callback, which writes the completion from the service's thread before the helper is told
to go on. `DiscardDone`, `DiscardFails`, `BatchAdvances`, `RetryFolder`, `OfferRecovery`
and `DropBatch` are the branches of `handle_directory_transfer_result`; `Refresh` is F5,
`Choose` the answer to the dialog, `Close` and `Restart` the ends of the program. The
actions of the queue are those of its module, and start only where `QueueMayRun`.

**`DirectoryTransfer`.** `source` and `copy` say where the root is (in its place, retired,
at the destination, staged, gone) and which entries it holds; `disk` is what of that is
sure to survive a power failure; `control`, `proof`, `committed` and the two markers in
the source are `none`, `torn` or `whole`. `pc` walks through
`execute_basic_directory_copy_impl` and what it calls: `Planning`, `Moving` (rename of
the root under a marker), `Copying`, `RemovingSource` (`continue_move_source_cleanup`:
every entry becomes a tombstone and is removed), `Publishing`, `Withdrawing`.
`Deciding` has one action per combination of findings that
`resume_basic_directory_copy_impl` and the discard tell apart. `Interrupt` is the death
of the helper, with whatever file it was writing torn; `PowerLoss` brings `source` and
`copy` of a move back to `disk` or anything between.

**`Trash`.** `dir` says what each place holds (the old name, the container, the name in
another folder); `container` and `manifest` are the hidden directory and the listing in
it. The phases are those of `trash_transaction.cpp`; `Start`, `Restore`, `Purge`,
`Resume` and `CancelRemaining` are the entry points, `StoreNext`, `RestoreNext`,
`PurgeNext`, `PublishManifest`, `RetireContainer` the branches of the coordinator's loop.
An object carries its identity, its revision and the change time that a rename moves on,
because the code compares all three (`platform/posix/file_identity.hpp:59`), and whether
its size is the planned one, because a record with another size is invalid.

**`PreviewHelper`, `PreviewClient`.** `scheduler` and `job` are the helper's, `client` is
one record with the fields of `PreviewClient` under the source's names; `toHelper` and
`toClient` are the socket. `Request`, `CancelGeneration` and `RetainEntries` are the
view's calls; `ReceiveStarted`, `ReceiveAnswer`, `ReceiveBusy` read a frame;
`RequestTimeout`, `BackoffOver`, `IdleStop`, `StartupFails`, `Disconnected` and
`ProcessFinished` are the timers and signals. The helper's actions are the branches of
its `poll` loop.

**`ThumbnailCache`.** `store`, `rows`, `aliases`, `fences` and `memory` are the state of
the store, the index and the process; `todo` is the list of system calls and SQL
statements that the running request still has to make, so that every one of them is a
step, may fail, and may be the last one of the process (`Killed`). `Fetch` is a lookup
of any size, `LookShows`, `Render`, `Commit`, `Index`, `Bind`, `Unfence` and `Fence`,
`Delete`, `Release` the ways through it; `Recover` is the second attempt at a statement
after a corrupt index was deleted and made anew; `List`, `Scan` and `Evict` are a prune:
what is stored is listed once, up to a limit, and each entry of the list is looked up
once.

**`DirectoryService`, `CatalogSession`.** `worker` holds, per request, what its worker
thread is doing and the batch in its hands; `queue` and `terminal` are the bounded
queue and the slot reserved for the end of a listing that timed out. `Submit`,
`Cancel` and `Take` are the calls; `Read`, `Deliver`, `GiveUp`, `Retire`, `TimeOut`
are the threads. `CatalogSession` has the session's variables under the source's
names, `view` for the model behind the file view, and `saved` for the view that is
kept while all subfolders are shown. `PollBatch`, `PollSuccess` and `PollFailure` are
the three ways through `poll()` after a batch was taken.

Operators marked `MUTANT of` are plausible bugs: with one of them in the place of the
definition it names, the property it belongs to must fail.

## The runs

| Run | Instance | States | Checks |
|---|---|---|---|
| `durable_journal` | 2 interchangeable records, 2 failed calls or process deaths, 1 damaged file, any number of power losses | | `TypeOK`; `AcknowledgedOutcomeSurvives`; `ClaimIsExclusive`; `ReaderMissesNoRecord`; `ImplementsRegister` |
| `file_transfer` | 2 files, 2 faults, 1 change by others | 593,776 | `NothingHiddenIsForgotten`; `SourceOutlivesItsCopying`; `OverwrittenOnlyAsApproved`; `OutcomeIsTrue`; `RunEnds` |
| `file_transfer_recovery` | 1 file, 1 fault, nobody else | | `InterruptedIsRecovered`, which fails (see below) |
| `batch_rename` | 3 files, every plan, 2 faults, 2 changes | 1,135,417 | `NoFileIsLost`; `OneDirection`; `OutcomeIsTrue`; `InterruptedIsRecovered` |
| `permanent_delete` | 4 files, 3 faults or stuck calls, 2 changes | 560,877 | `ErasedOnlyWhenAllWereHidden`; `OnlyRecordedFilesVanish`; `OutcomeIsTrue`; `UndecidedIsRecovered` |
| `file_commands` | a queue of a folder, a file and a folder, a batch of 2 folders, 3 faults | 1,249,135 | `EveryOutcomeIsTrue`; `NothingIsForgotten`; `NothingBeginsTwice`; `RecoversUnlessOutOfTouch` |
| `file_commands_discard` | a queue of 1 file, a batch of 1 folder, 2 faults | | `DeletedIsGone`, which fails (see below) |
| `directory_transfer` | a folder of 2 files, 3 faults, 2 edits or names taken | 227,094 | `NothingIsLost`; `AllOrNothing`; `FolderPromise`; `RecoversUnlessDamaged` |
| `trash` | 2 files and a folder, 2 requests for what is stored, 3 faults, 2 changes | 761,349 | `TrashIsListed`; `OutcomeIsTrue`; `RecoversUnlessOutlived` |
| `catalog_session` | 3 commands, 4 requests, 1 retry each, folders of up to 2 batches, 2 workers, a queue of 1 | 392,480 | `ViewIsOneListing`; `FailureTakesNothing`; `ListingsEnd` |
| `preview` | 3 requests of 3 kinds, a window of 2 with 1 place reserved, a queue of 1 or 4, 1 bypass, 2 remembered cancellations, deadlines of 2 ticks, 1 repetition after "busy", 1 fault | 292,805 | `WindowIsExact`; `CancelledJobIsStopped`; `PassedOverAtMost`; `TimeoutIsEarned`; `EveryRequestIsAnswered` |
| `thumbnail_cache` | 2 interchangeable versions of a source, 2 sizes, room for 2 artifacts, lists of at most 3, 3 requests, 2 faults | 2,781,382 | `ShownIsVerified`; `SavedIsAvailable`; `StoreIsCounted` |

What they show, in a sentence each, is in `PROJECT.json`; the properties are stated
in words above their definitions. Some properties have named parts: `TypeOK` is a
conjunct of the first invariant of every module other than `DurableJournal`, and in
`BatchRename` and `PermanentDelete` it says that no record is rejected, because
`record_rejected` is not among the reports it allows; in `FileTransfer` and `Trash`, where
records are rejected, the last conjunct of `NothingHiddenIsForgotten` and `TrashIsListed`
says when, and that the journal then still holds the step;
`HiddenIsRecorded` is part of `OutcomeIsTrue` in `BatchRename` and `PermanentDelete`;
`ListingsEnd` says both that loading ends and that workers retire.

**Why the bounds are enough.** The journal's logic only compares a record with its
predecessor, so two records tell the cases apart; two faults put a failure into the
repair of another one. A transfer treats its items one after the other and they share
only the phase and the cancellation flag: two files with two faults and a foreign
change cover the step machine and the interplay. Three files are the smallest
batch with a cycle of names that is not a swap, and with a file before and one after
the one that fails. Two faults are needed to lose an answer and then crash in the
recovery, or to meet the old generation of a journal twice; the third of a deletion
leaves room for a stuck call beside them. With a file between two folders in its plan the queue meets
every hand-over in either order, and a batch of two has a folder to go on with. Three
faults are a helper lost with its evidence on disk, the folders out of reach when it is
looked for, and one more of anything in the recovery; the run that finds the violation
needs two. The entries of a folder are treated alike, and two
show one removed beside one that is not; the proofs cover any number. Two files and a
folder show a trash in which one kind stands before and after the other. Three commands
are the shortest way into and out of the recursive view; a queue of one and two places
for workers make "full" happen at once (the code has eight and four). The preview's
limits are those of the code in small, each reached by three requests: a window of two
is full, one bypass is used up, two remembered generations are exceeded by a third. Two
versions and two sizes are what a lookup needs to find something stale, too large or too
small; room for two makes the third a reason to evict.
Deadlock is not checked where the model stops because the bounds are used up; it is in
`thumbnail_cache`.

**Fairness.** `FileTransfer`, `BatchRename`, `PermanentDelete`: weak fairness of the
worker and the helper (a thread and a process that run until they end; the watchdog
kills a helper that hangs, which is an answer). Recovery properties add weak fairness
of `Resume`: the recovery workflow (`ui/qt/file_command_recovery_workflow.cpp`) offers
what it finds in the journal until it is taken, and no other file command starts
before. `CatalogSession`: weak fairness of the poll timer (it runs while a listing is
loading or waits to be retried), of each monitor's clock, and of a worker whose helper
was killed. A helper need never send anything. `DirectoryTransfer`,
`Trash`: weak fairness of the worker and the helper, as above; recovery adds fairness of
`Resume`, strong for a folder, whose manifest comes and goes with the commands.
`FileCommands`: weak fairness of the workers, the helpers and the event loop, with F5
among them, because every refresh the user asks for comes to `refresh_or_recover` first;
strong fairness of the answer "continue", as a user who puts it off for ever asks for no
end. That the folders come back is not assumed: staying away is an exception. `PreviewClient`: weak fairness of the client's event loop, which reads
the socket and runs the timers; none of the helper, which may hang for ever.
`ThumbnailCache`: safety only. Faults, stuck calls and other programs are never fair.

**Mutants.** For every property of a passing run `PROJECT.json` names a mutant of the
modelled code that violates it under the run's own configuration: no check is vacuous.

## What is proved

`DurableJournalProofs`, for every set of records and any number of failures, from
`JournalAssumption` alone (the marks for "no file", "damaged" and "unknown" are no
records and differ):

* `TypeCorrect`: `Spec => []TypeOK`
* `OutcomeSurvives`: `Spec => []AcknowledgedOutcomeSurvives`
* `ClaimsStayExclusive`: `Spec => []ClaimIsExclusive`
* `Implementation`: `Spec => ImplementsRegister`, the refinement of `JournalRegister`
* `ReadersMissNothing`: `Spec => []ReaderMissesNoRecord`

The invariants are not inductive. That a write is durable when it answers depends on
what its earlier system calls left behind, so the inductive invariant `IInv` adds:
what the directory looks like before each system call of a write
(`WriteInProgress`), of a removal (`RemoveInProgress`: the files before the current
one are gone, unless an unlink failed) and of a matched removal
(`MatchedInProgress`); that the directory in sight is among those that may survive
(`LiveIsPossible`); that only the medium produces damage (`DamageIsCounted`); and that
nothing is acknowledged while a call runs (`IdleOwner`). One lemma per action shows
that it keeps `IInv`; the lemmas rest on `BecomesKeepsWhole`, `NothingKeepsWhole` and
`FsyncKeepsWhole`, which say what a system call that succeeds, one that fails and a
synchronisation do to the directories that may survive, and on
`FailingKeepsInvariant`, which ends a call at any point. For the refinement each
system call is a step of the register or a stutter (`WriteImplements`,
`RemoveImplements`, `MatchedImplements`, `EnvironmentImplements`), by way of
`Reg(d)`, what a reader of directory `d` would find. A reader without the lock opens the
five files one after the other while the owner moves records between them;
`ReaderFollows` says that a record that was there when it began is still ahead of it,
because every step but a removal moves records only in the direction in which the reader
goes (`OnlyMovesAhead`).

`DirectoryTransferProofs`, for every finite set of entries, the empty one included, and
any number of faults and edits, from `DirectoryAssumption` alone:

* `NoFileIsLost`: `Spec => []NothingIsLost`
* `AllOrNothingHolds`: `Spec => []AllOrNothing`
* `PromiseIsKept`: `Spec => FolderPromise`, the refinement of `FolderTransfer`

The inductive invariant has two more parts than what it shows. `Findings` says what each
finding on disk means, whoever finds it: a source that is gone or being removed
has a complete and durable copy (`RemovalIsDurable`, `GoneMeans`), a marker stands in an
unmoved or a wholly moved root (`MarkerMeans`, `RenameMeans`), a retired source has a
proof (`RetirementMeans`), a published copy is whole (`PublicationMeans`), and what
survives a power failure is never ahead of what processes see (`DiskIsBehind`).
`Reliances` says what the helper may rely on at each of its steps (`Recorded`, `Plans`,
`Moves`, `Copies`, `RemovesSource`, `Publishes`, `Settles`, `RemovesCopy`). There is one
lemma per action; the ones that carry the weight are `PowerLossKeeps` and
`InterruptKeeps`, where every finding must keep its meaning although some of what it
speaks of has come back. The refinement reads the stage of the abstract folder off the
program counter (`StageOf`); each group of concrete actions has a lemma that maps it to
actions of `FolderTransfer` or to a stutter, and `StepMaps` joins them.

`PermanentDeleteProofs`, for every number of files, crashes, lost answers, stuck calls
and changes by other programs, from `DeleteAssumption` alone:

* `RecordTellsTheSide`: `Spec => []IInv`
* `AllHiddenBeforeOneIsErased`: `Spec => []ErasedOnlyWhenAllWereHidden`

A permanent deletion passes a decision: before it every file must be able to come back,
after it none may. The inductive invariant names the two sides (`Kept`: nothing is
erased, and no stuck call will erase; `Lost`: nothing was moved back or stands in its
place, and no stuck call will move it) and ties them to the phase of the record on disk
(`Sides`). Five more parts make that inductive. `OlderRecord` says which generation may
come back when the journal is half removed: an older record of the other side of the
decision would be fatal. `WorkerFollows` says that the coordinator's copy is what is on disk, at
every point where it acts on it. `LateIsACall` and `OwnNames` bound what a call may still
do whose helper was killed: it was made for a file of the operation, and until a file is
moved back a hidden name is its own file's, except the one whose evacuation is on record.
`NamesAreUnique` and `Recorded` are about objects and the validity of both generations.
`WritingKeeps` covers every record that is written, `EffectKeeps` and `LateEffectKeeps`
the steps on files, `RetireKeeps` the removal of the journal; there is one lemma per
action above them.

`OnlyRecordedFilesVanish` and `OutcomeIsTrue` need to know where each single file is:

* `RecordTellsThePlaces`: `Spec => [](IInv /\ JInv)`
* `NoOtherFileVanishes`: `Spec => OnlyRecordedFilesVanish`
* `TheReportIsTrue`: `Spec => OutcomeIsTrue`

`JInv` is inductive relative to `IInv`. `Tells` says what a record means for a file: it is
where the record has it, unless another program changed it (`Placed`), and a hidden name
in use is on record or a stray of a rollback that stopped (`HiddenMeans`). The record
before must tell the same between two steps, as it may come back (`OlderTells`), and a
stuck erasure finds something only while the files are being erased (`LateErasure`).

`BatchRenameProofs`, for every number of files, faults and changes by other programs, and
every plan of new names, cycles included, from `BatchAssumption` alone:

* `RecordTellsThePlaces`: `Spec => []IInv`
* `GoesOneDirection`: `Spec => []OneDirection`
* `EveryFileKeepsOneName`: `Spec => NoFileIsLost`
* `ReportsAreTrue`: `Spec => OutcomeIsTrue`

The heart of `IInv` is `Placed`: every file is at the name that the record has for it, or
where the step on record moves it. Of the record on disk that holds at every instant; of
the one before, between two steps (`RecordsAreTrue`), because a removal of the journal by
halves may bring it back. `WorkerFollows` says that an answer is true of its step:
after "committed" it has been made (`Arrived`), after any other it has not (`Stayed`).
`GoesOneWay` keeps both generations on the side to which the first file went.
`WritingKeeps` covers every record that is written, `MoveToFreeName` and `EffectKeeps` what
the helper does to the files, `RetireKeeps` the removal of the journal, `AroundKeeps` what
other programs do. `TypeOK` alone is not what is shown: the validation of a record that the
coordinator runs on its own (`Valid`) is part of the invariant.

`FileTransferProofs`, for every number of files, faults and changes by other programs,
from `TransferAssumption` alone:

* `RecordTellsThePlaces`: `Spec => []IInv`
* `NothingIsForgotten`: `Spec => []NothingHiddenIsForgotten`
* `NoSourceIsLost`: `Spec => SourceOutlivesItsCopying`
* `NothingElseIsOverwritten`: `Spec => OverwrittenOnlyAsApproved`
* `ReportsAreTrue`: `Spec => OutcomeIsTrue`

An item of a transfer is several files under six names, and three of them are hidden.
`Told` says what a record means for them, in four parts: `HiddenTold` (which hidden names
may be in use), `CopyTold` (there is no new file but the published one), `SourceTold`
(where the source is) and the delivery; each holds as it stands, or as the step on record
changes it, or because another program took the file (`Lost`). `Filed` is what the names
can hold at all: one source, and nothing strange under a hidden name. `Known` is what an
item may say by itself: a source to be removed has a whole copy on record that is no
older, and an overwritten file was approved. `RecordsAreTrue` puts this together for both
generations of the journal, and `WorkerFollows` says that the worker's transaction is the
one on disk; the exception is a reservation whose record failed, of which the worker does
not know what the journal holds (`CommitFails`). `CallIsTrue` is about what is in flight: an
answer is true of the step on record (`AnswerIsTrue`), a question is about files that are
not yet delivered (`AskIsTrue`), and a verdict of the helper that the step was not made
means `Told` without it. That a record is valid is part of `RecordsAreTrue`, so each record
that is written is shown to have the planned sizes or to be refused; `RefusalIsExcused`
says that a refusal is one of those the code makes, which needs `SizesAreKnown`: sizes
change by edits only (`SizesStayKnown`). `OpenRecord` covers every record about the item
that is open, `TemporaryRecord` those about its temporary file, `WritingKeeps` the writing, `RenameMade`,
`DeletionMade` and `TempIsSet` what the helper does, `RenameNotMade`, `RenameArrived` and
`DeleteGone` what a reconciliation may conclude from the names alone, `MeddlingKeeps` what
other programs do. For the action properties, `DisappearingIs` shows that no step but a
removal by the helper, or by another program, makes a file disappear, and `ClaimIsAnEnd`
that only the two ends of a run report what it did. Both action properties leave out the
steps in which another program takes a file of the item (`TakenNow`); stated by the history
`taken` instead, they would be false once others take two strangers' files from one place.

`TrashProofs`, for every number of files and folders, requests, faults and changes by
other programs, from `TrashAssumption` alone:

* `RecordTellsThePlaces`: `Spec => []IInv`
* `NothingStoredIsForgotten`: `Spec => []TrashIsListed`
* `ReportsAreTrue`: `Spec => []OutcomeIsTrue`

The trash keeps three things in step: the names in the hidden container, the manifest,
and the journal. `Fits` says what a record means: a thing is in the container just when
the record has it stored, but for the one under way (`Placed`); what the manifest lists in
this phase (`ManifestFits`); and that nothing that was not purged is lost
(`NothingLost`). It holds of the record on disk always, and of the one before whenever no
step is under way and the manifest is not being changed (`Pausing`), which is when a
removal by halves may bring it back. `AtRest` says the same between two operations, when
there is no record; `WorkerFollows` what each point of the worker knows, of which
`IsOfStep` is that a rename reports the thing it moved, with its planned size unless another
program changed something, and `Refusing` when a record may have been refused.
`ThingsAreKnown` is about the names and the sizes of what is in the directories. `PhasesKeep`
covers the records that change only the phase, `ContainerKeeps` and `ManifestKeeps` the
steps on the container and the manifest, `Effects` and `ActKeeps` those on files,
`AppliedRecord` the record after a step, `TurningAround` the turn to rollback, `Ended` and
`EndedWell` the end, and `AroundKeeps` other programs.

`CatalogSessionProofs`, for every number of requests, retries, commands and workers, every
size of a folder and every length of the queue, from `ServiceAssumption` and
`SessionAssumption` (there is at least one request, worker and place in the queue):

* `BatchesArriveInOrder`: `Spec => []IInv`
* `TheViewIsOneListing`: `Spec => []ViewIsOneListing`
* `AFailureTakesNothing`: `Spec => FailureTakesNothing`

A batch of a listing is in the hands of its worker, in the queue, in the slot that is kept
for a timeout, or has arrived in the view or in what is staged. `Follows(b, n, g, f)` says
that `b` may come after `n` chunks of request `g`; `InOrder` that the queue and the slot
continue what has arrived, with the last batch at the end; `GoesOn` that the worker
continues the queue, and that nothing of it is after a last batch. `AtRest` says that
nothing is on its way to a session that does not listen, so that a late batch of a
cancelled or failed request cannot reach the next. `SendableFollows` shows that whatever
the helper may send keeps the order, `ServiceKeeps` covers the steps of the worker and
the monitor, `BeginKeeps` every new request, `ReceivedIs`, `ViewGrows` and `StagedGrows`
each batch that is taken.

`FileCommandsProofs`, for every number of selected objects, every division of them into
files and folders, every size of the batch and any number of faults, from
`QueueAssumption` and `CommandsAssumption` (there is at least one object and one folder of
the batch, objects are numbered from one, and the folders of the batch come after those of
the queue):

* `InvariantHolds`: `CommandsSpec => []IInv`
* `OutcomesAreTrue`: `CommandsSpec => []EveryOutcomeIsTrue`
* `RecordsAreKept`: `CommandsSpec => []NothingIsForgotten`
* `NothingIsBegunTwice`: `CommandsSpec => NothingBeginsTwice`

None of the three properties is inductive, because each party acts on what another has
told it: the queue reads "not found" and advances, the batch reads a failure and drops its
record. `IInv` says what each may conclude, and has a part for each party. `FolderTells` is
about the helper alone: what its stage and its last answer mean for the evidence on disk
and for the folder, with `Silent` (delivered, and the evidence does not tell) as the state
that needs an acknowledgement or is an exception. `QueueTells` is about the queue:
`Tells` says what a plan means for the items before, at and after its index, and holds of
the journal on disk; `MayComeBack` which plan a removal by halves brings back (one of the
same item if the queue failed, the last item's acknowledged one if it succeeded);
`ChildFits` that the journal of a file's transfer is that of the item under way and true of
the file; `WorkerFollows` what the worker knows at each point, of which `Attends` is what it
may conclude from the helper's command and answer. `BatchTells` is about the batch:
`StateTells` says what its state means for the folders, and holds of the settings as of the
memory, so that either may be what the next start finds; `BatchFollows` that the settings
name whatever folder the memory names, and know a completion when the memory does. A first
attempt failed for a reason: "the folder failed" must mean that no manifest is left, not
only that nothing was delivered, or a batch that drops its record could leave one;
`Failed` says so. `Serves` covers what a helper may make of its folder; `HelperServes`,
`FailureServes`, `MissServes` and `LossServes` show that every step of it does, `TurnKeeps`
and `ServedBatchKeeps` that queue and batch still know enough then. `SaveKeeps` covers
every plan that is written, `HalfRetired` and `ChildRetires` the removals, `EndKeeps` every
end of a run, `SubmitKeeps` every folder that the batch begins, and `RestartKeeps` a kill
at any point. For the action property, `BeginsNone` and `BeginsOne` reduce each step to the
one folder it may begin, of which the invariant says that nothing is there.

Only model-checked: previews (`PreviewHelper`, `PreviewClient`) and the thumbnail cache,
about which no proof has been attempted; `RecoversUnlessOutOfTouch`,
`RecoversUnlessDamaged`, `ListingsEnd` and all other liveness (TLAPS does not prove
properties under fairness). The proofs take the bounds of the models (`MaxFaults`, `MaxMeddling`,
`MaxRequests`, ...) as arbitrary numbers.

## What the runs found

Two runs expect a violation.

* `file_transfer_recovery` is about the sentence of `src/README.md:34` that the program
  offers "recovery of interrupted operations": a streaming helper that is killed after it
  has created its temporary file and before the reservation marker in it is complete
  leaves a file that no later run can tell for its own. `preserve_uncertain` keeps the
  step in the journal (`fileops/file_transfer_coordinator.cpp:1668`), and every recovery
  ends the same way. No file is lost; the pending operation keeps other commands from
  starting.
* `file_commands_discard` is about the message "Incomplete data was safely deleted"
  (`ui/qt/file_command_transfer_workflow.cpp:762`): a discard that ends with `not_found`
  counts as done (`:758`), and that is also the answer when the volume of the destination
  is unmounted or a folder above it was renamed. Nothing was deleted then; the record is
  cleared, and when the volume is back the staged data and the manifest are there with no
  record that leads to them.

The other runs pass, with properties whose exceptions are named definitions; each
exception is something the code does that was first met as a counterexample:

* `Damaged` (`directory_transfer`): a marker or manifest that was being written when
  its helper was killed is refused by resume and by discard, for ever; a power failure
  alone does not cause it.
* `OutOfTouch` (`file_commands`): a helper killed between making its control directory
  and completing the manifest, or between removing the two, leaves a directory that
  every later discovery answers with "directory recovery control is damaged or
  mismatched" (`fileops/helper/main.cpp:314`). And a resumed transfer that fails cleanly
  has retired its manifest and still names it (`basic_directory_transfer.cpp:7054`), so
  that the queue stores a path that leads nowhere. In both cases the queue offers a
  recovery that cannot end. `BatchOutOfTouch` is the first of the two for a batch, which a
  user who discards gets no further with either; the second does not happen to a batch,
  which starts over when its manifest is not found.
* `confirmed` (`file_commands`): a copy whose recovery finds it complete removes its
  manifest before it reports (`basic_directory_transfer.cpp:5807`); if the report is
  lost, the copy starts afresh, meets its own result and is reported as a conflict
  although it was delivered.
* `overlooked` (`file_commands`): what is out of reach is taken for something that is not
  there. A batch submits the folder again under a new number and, once the folders are
  back, copies it beside the half-finished first attempt, whose manifest no record names;
  the queue starts the item afresh or ends it in failure. And a manifest
  that cannot be read when its transfer is resumed (`basic_directory_transfer.cpp:6095`)
  offers no recovery, so that the interface drops the batch and forgets it
  (`file_command_transfer_workflow.cpp:866`), while the queue keeps its record.
* `away` (`file_commands`): as long as the folders stay out of reach, a batch tries again
  without a pause (`file_command_transfer_workflow.cpp:803`).
* `Decided` (`permanent_delete`): a process killed between an erasure and its record, or
  while the journal of a complete deletion is being removed, leaves a step whose file is
  gone. Absence proves nothing to `reconcile_delete`
  (`fileops/file_operation_executor.cpp:575`), by intention, and nothing else ends the
  operation: after the decision no end is promised.
* `Outlived` (`trash`): a restore that is rolled back leaves the manifest with the
  revisions from before (`trash_coordinator.cpp:2717`), while the change time, part of a
  revision, has moved on. Later restores of that object are rolled back again and its
  purge ends in "recovery required" for ever.
* `record_rejected` (`file_transfer`, `trash`): when the answer of a helper is lost, the
  reconciliation goes by the identity of the file (`file_operation_executor.cpp:416`), and
  what it finds under the new name is taken over into the record
  (`file_transfer_coordinator.cpp:680`, `trash_coordinator.cpp:1641`). If another program
  wrote to the file in between and its size is no longer the planned one (or, for a source,
  its time differs by more than two seconds), the coordinator's own validation refuses that
  record (`file_transfer_transaction.cpp:205` and `:460`, `trash_transaction.cpp:269`): the
  run ends in an error of the journal, and so does every recovery, while the pending
  operation keeps other commands from starting. It happens to `stage_source`,
  `publish_temp` and `restore_staged_source` of a transfer (`Adopting`) and to `store` and
  `restore` of the trash, and to nothing else; the journal keeps the step, so the file is
  not forgotten.
* `strayed` (`permanent_delete`): a rename that is stuck at the file server when its
  helper is killed is reconciled as "no commit"; the deletion is rolled back, its journal
  removed, and then the rename takes effect: the file is under a hidden name that no
  journal knows. Nothing else goes wrong with stuck calls, in particular no file is
  erased while another is back in its place.
* `stale` (`preview`): the deadline for progress is neither renewed nor cleared when the
  answer to a cancelled request is the last one outstanding (`preview_client.cpp:860`).
  The next request is sent under a deadline that may have passed, is reported as timed
  out at once, and the helper is restarted. Every other timeout is earned.
* `leaked` (`thumbnail_cache`): artifacts whose helper died between commit and index, or
  whose row went with a rebuilt index, are neither counted against the limit of the
  cache nor removed before the user opens or clears the cache in the settings; the
  recovery flag is read only when the service is constructed (`service.cpp:181`). A scan
  does not find all of them either: it ends at its limit of inspected entries
  (`cache_maintenance.cpp:92`), and when the index is found corrupt in its middle, the
  artifacts it has passed lose their rows behind its back (`cache_maintenance.cpp:100`).
* `lapsed` (`thumbnail_cache`): when both the fence and the DELETE of a revocation fail,
  the revocation lives only in the process.

Smaller observations, all within the properties: the discard of a copy does not look at
the destination; a crash while the queue's journal is removed
(`object_transfer_queue.cpp:722`) exposes an earlier phase, and an item that was
cancelled or had failed runs again; a lost removal of a container, tolerated in a
rollback, leaves an empty hidden directory; an entry that another program puts into a
container blocks its restore and purge; a prune that fails after removing an artifact
leaves its row and its copy in memory, so that a later alias may lead to nothing; the
staging files of a killed preview helper are never swept.

## Abstractions

All file operations:

* A helper's check of a name and the system call that follows are one step. Between
  the two another program may exchange the file; POSIX offers no way to close that
  window, and no property here is about it.
* A revision of a file is a number that every edit changes; changes of the metadata
  alone are not modelled. Other programs never touch hidden names, except that a file
  may be written to through a descriptor opened before it was hidden.
* A helper dies with the program (`PR_SET_PDEATHSIG`, `fileops/helper/main.cpp`), and
  one that is killed has no later effect, except in `PermanentDelete`: there one call at
  a time may be stuck. (A stuck call holds the lock of its directory on most file
  systems, which would delay other calls in it; the model lets them go on.)
* The fields `evidence`, `failure_status` and the texts of errors are left out where
  they only refine a message.
* Journals of older program versions (transfers before version 6, records without a
  type tag) are not modelled.
* File operations are durable when they return, except in `DirectoryTransfer`, where
  `disk` is about nothing else.

`DurableJournal`: the staging directory of a claim is not a file of the model;
directory operations reach the disk in the order in which they were issued; one owner
writes (the lease); the POSIX branches only. A `remove()` repeated after a failed
synchronisation finds nothing and answers success without synchronising: the model
acknowledges nothing then. A `remove()` that is interrupted may bring the older
generation back, and a `remove_if_payload_matches()` that meets a different older
generation exposes it: both are steps of the register, because both are what the code
does.

`FileTransfer`: an edit leaves a file with the size it was planned or copied with, or not;
that the time of a source is within two seconds of its old one counts as part of its size,
as the validation asks for both; the size of a file that is to be overwritten is compared
only with all of its revision; the snapshot of the source as it was planned is a constant;
the destination of one item is never the source of another; the probe
of the first conflicts is one step; the free name for a copy is found; a step that a
recovery finds not committed is repeated by way of the loop's head; the error of a
probe is an `Interrupt`; the leaf mode of folder transfers is left out.

`BatchRename`, `PermanentDelete`: rows that change no name are not part of a plan; a
stop request acts like an interruption, except in `StopAtMissing`; snapshots come from
the listing, so files may have been edited since; a reconciliation adopts the snapshot
it finds. `PermanentDelete` is for network folders, the only place where the program
uses it.

`ObjectTransferQueue`: the questions about taken names are answered before the plan is
written; what happens inside a child is in `FileTransfer` and `DirectoryTransfer`; only
folders are ever out of reach, all of them together, and what a file transfer makes of
that is an error like any other. The queue never discards.

`FileCommands`: one selection for the queue and one for the batch are followed, after
which the user only recovers, closes and starts again; a new number is a control
directory of its own, so a folder that is begun again sees no evidence of its first
attempt; the completion in memory is set together with the one in the settings; the
result of a helper is handled together with the release of the service
(`file_transfer_service.cpp:1007`), so no command comes between; settings that cannot be
read, or were written by an older version, are left out. The message of a failed retry,
"the queue was kept" (`file_command_transfer_workflow.cpp:814`), is told although
`submit_next_directory_transfer` has just dropped it: no property is about it.

`DirectoryTransfer`: the entries of the folder are files, and stand for subfolders too;
a copy that is being made is not undone by a power failure, nor is the removal of an
unfinished one (both are repeated from the start by a recovery); staged files are not
edited by others; a fresh command begins only where no control directory is. Renames that
were not synchronised are undone in any combination.

`Trash`: the life of one container on a local volume. The quota check before a move, the
listing of the trash, the refresh of snapshots after a network volume was mounted anew
and security descriptors are left out; an edit leaves a file with its planned size
(`payload_bytes`) or not, while the snapshot of a folder has none; a folder holds one file;
restore and purge choose an object by its identity.

`PreviewClient`: requests of the settings dialog about the cache and the colour
transform before delivery are left out (that they restart the helper is `Reconfigure`);
every allowance of time is the same `Period`; a connected socket takes all frames;
the handshake is one step; numbers of requests do not wrap around; what a killed helper
still does is invisible. `PreviewHelper`: what a rendering yields is free.

`ThumbnailCache`: one source; one request at a time, as the helper has one thread and
the client one helper; limits by bytes and free space, those of the memory cache, access
times and requests with a password are left out; that a prune comes after every 32nd
rendering is a free choice; a lookup does not meet two failures at once. Power loss is
outside the contract the source states (`artifact_store.cpp:248`); it might bring back an
alias whose fence was durably removed.

`DirectoryService`, `CatalogSession`: `submit` and `cancel` are one step each, because
what a worker can put into the queue between their parts is removed at their end;
entries come in numbered chunks; batches that only carry a progress count are left
out; the kinds of error are "transient" (retried) and "permanent", the error states
one, `unavailable`, from which the state after `suspend()` is kept apart; that an
equal listing is not replaced makes no difference here.

## Not modelled

Each with its reason in `PROJECT.json`. In short: decoders, colour transforms, vendored
libraries and packaging carry data and no protocol; the worker's sandbox is the
operating system's; search, navigation and selection have little state. Above the preview
client only the controller's window and its requests matter to the protocol, which are
inputs of `PreviewClient`. The Windows branches repeat the
steps of the coordinators that are modelled, with other system calls. The journalled leaf
transfers of a folder (`directory_leaf_transfer.cpp`, `directory_transfer_progress*.cpp`)
are compiled and unit-tested, but nothing calls them.

## Plan

Done: the journal with its register and proofs; the coordinators that rely on it, all of
them with proofs of their safety; the queue above them and the batch beside it, with their
proofs; folders, with the proofs and the refinement; previews from the view to the cache; browsing, with
the proof that a view is one listing. Next, in this order:

1. Proofs: `PreviewClient` (`WindowIsExact`) and `ThumbnailCache` (`ShownIsVerified`).
2. `WorkerSupervisor`: the reaper's places, the slot of the animation, deadline against
   answer.
3. `Lease`: the lease and the type tag, two programs at one journal; commands between the
   end of a helper and the delivery of its result.
4. `MatchedRemoval`: a foreign writer between comparison and claim. Then an abstract
   all-or-nothing operation that `BatchRename` and `FileTransfer` implement, and
   navigation history and selection as pure algorithms.
