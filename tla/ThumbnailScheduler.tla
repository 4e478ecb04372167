-------------------------- MODULE ThumbnailScheduler --------------------------
(***************************************************************************)
(* The queue of the preview helper (src/preview/thumbnail_scheduler.cpp):  *)
(* requests wait by priority, none is passed over more often than its      *)
(* limit, a full queue gives up its worst entry for a better one, and the  *)
(* requests of a cancelled generation are not taken any more.              *)
(*                                                                         *)
(* Entries stand in the order of their submission, so the position of an   *)
(* entry is its sequence number.  "ahead" is history: how many entries     *)
(* stood before it when it was submitted.                                  *)
(***************************************************************************)
EXTENDS Naturals, Sequences, SequencesExt

CONSTANTS BypassLimit,       \* kMaximumPriorityBypasses
          FolderBypassLimit, \* kMaximumFolderPriorityBypasses
          MaxRemembered      \* kMaximumRememberedCancelledGenerations

ASSUME SchedulerAssumption ==
  {BypassLimit, FolderBypassLimit, MaxRemembered} \subseteq Nat \ {0}

Selected == 0  \* ThumbnailPriority, best first
Folder == 2
Rest == 4

NewScheduler(capacity) ==
  [capacity |-> capacity, pending |-> <<>>, taken |-> 0, cancelled |-> <<>>]

Jobs(s) == {s.pending[i].job : i \in DOMAIN s.pending}

Limit(entry) == IF entry.rank = Folder THEN FolderBypassLimit ELSE BypassLimit

PassedOver(s, entry) == s.taken - entry.since

-----------------------------------------------------------------------------
(* take_next                                                               *)

Starved(s) ==
  {i \in DOMAIN s.pending : PassedOver(s, s.pending[i]) >= Limit(s.pending[i])}

BestIndices(s) ==
  {i \in DOMAIN s.pending : \A j \in DOMAIN s.pending : s.pending[i].rank <= s.pending[j].rank}

(* MUTANT of NextIndex: priority alone decides. *)
NextByPriority(s) == Min(BestIndices(s))

(* next_index *)
NextIndex(s) == IF Starved(s) # {} THEN Min(Starved(s)) ELSE Min(BestIndices(s))

Taken(s) ==
  [s EXCEPT !.pending = RemoveAt(@, NextIndex(s)), !.taken = @ + 1]

-----------------------------------------------------------------------------
(* submit: what becomes of the scheduler, of the request, and of the entry *)
(* that makes room for it (0 when there is none).                          *)

(* worst_index *)
WorstIndex(s) ==
  Max({i \in DOMAIN s.pending :
          \A j \in DOMAIN s.pending : s.pending[i].rank >= s.pending[j].rank})

Queued(s, request) ==
  [s EXCEPT !.pending =
     Append(@, [job |-> request.job, generation |-> request.generation, rank |-> request.rank,
                since |-> s.taken, ahead |-> Len(@)])]

Outcome(status, evicted, s) == [status |-> status, evicted |-> evicted, scheduler |-> s]

Submit(s, request) ==
  CASE Contains(s.cancelled, request.generation) ->
         Outcome("cancelled_generation", 0, s)
    [] request.job \in Jobs(s) -> Outcome("duplicate_job", 0, s)
    [] Len(s.pending) < s.capacity -> Outcome("queued", 0, Queued(s, request))
    [] s.capacity = 0 -> Outcome("queue_full", 0, s)
    [] request.rank >= s.pending[WorstIndex(s)].rank -> Outcome("queue_full", 0, s)
    [] OTHER ->
         Outcome("queued_after_eviction", s.pending[WorstIndex(s)].job,
                 Queued([s EXCEPT !.pending = RemoveAt(@, WorstIndex(s))], request))

-----------------------------------------------------------------------------
(* cancel_generation                                                       *)

Remembering(cancelled, generation) ==
  IF Contains(cancelled, generation) THEN cancelled
  ELSE IF Len(cancelled) < MaxRemembered THEN Append(cancelled, generation)
  ELSE Append(Tail(cancelled), generation)

OfGeneration(s, generation) ==
  SelectSeq(s.pending, LAMBDA entry : entry.generation = generation)

GenerationCancelled(s, generation) ==
  [s EXCEPT !.cancelled = Remembering(@, generation),
            !.pending = SelectSeq(@, LAMBDA entry : entry.generation # generation)]
===============================================================================
