----------------------------- MODULE PreviewHelper -----------------------------
(***************************************************************************)
(* The preview helper (src/preview/helper/service.cpp): one thread that    *)
(* reads requests and cancellations from its client, queues them in a      *)
(* ThumbnailScheduler and renders one at a time.  While it renders it      *)
(* reads nothing.  Every request gets one answer, whatever becomes of it.  *)
(*                                                                         *)
(* The two directions of the connection are sequences of frames.  What is  *)
(* rendered, and how, is the pipeline's business; here a rendering takes   *)
(* any time, for ever included, and ends in an answer.                     *)
(***************************************************************************)
EXTENDS ThumbnailScheduler

CONSTANTS Capacities  \* kMaximumQueuedRequests: one of these, for a whole behaviour

ASSUME HelperAssumption == Capacities \subseteq Nat

VARIABLES
  alive,     \* a helper process serves the client
  scheduler, \* scheduler_ and pending_requests_, which hold the same requests
  job,       \* the request that is rendered, NoJob between renderings
  toHelper,  \* frames on their way to the helper
  toClient   \* frames on their way to the client

helperVars == <<alive, scheduler, job, toHelper, toClient>>

NoJob == [job |-> 0, generation |-> 0]

HelperInit ==
  /\ alive = FALSE /\ job = NoJob /\ toHelper = <<>> /\ toClient = <<>>
  /\ \E capacity \in Capacities : scheduler = NewScheduler(capacity)

RequestFrame(id, kind) ==
  [type |-> "request", about |-> id, generation |-> kind.generation, rank |-> kind.rank]
CancelFrame(generation) == [type |-> "cancel", about |-> 0, generation |-> generation]
Started(id) == [type |-> "started", about |-> id]
Answer(id) == [type |-> "answer", about |-> id]
Withdrawn(id) == [type |-> "cancelled", about |-> id]
Busy(id) == [type |-> "busy", about |-> id]

-----------------------------------------------------------------------------
(* A process starts, and a process is gone with what it had not read.      *)

HelperStarts ==
  /\ alive' = TRUE /\ job' = NoJob
  /\ scheduler' = NewScheduler(scheduler.capacity)
  /\ toHelper' = <<>> /\ toClient' = <<>>

HelperGone ==
  /\ alive' = FALSE /\ job' = NoJob
  /\ scheduler' = NewScheduler(scheduler.capacity)
  /\ toHelper' = <<>> /\ toClient' = <<>>

-----------------------------------------------------------------------------
(* dispatch_frame: the frames that were read, in their order.              *)

Reads(type) ==
  /\ alive /\ job = NoJob /\ toHelper # <<>> /\ Head(toHelper).type = type
  /\ toHelper' = Tail(toHelper)
  /\ UNCHANGED <<alive, job>>

Refusal(id, status) ==
  <<IF status = "cancelled_generation" THEN Withdrawn(id) ELSE Busy(id)>>

Replies(id, outcome) ==
  CASE outcome.status = "queued" -> <<>>
    [] outcome.status = "queued_after_eviction" -> <<Withdrawn(outcome.evicted)>>
    [] OTHER -> Refusal(id, outcome.status)

ReadRequest ==
  /\ Reads("request")
  /\ \E frame \in {Head(toHelper)} :
     \E outcome \in {Submit(scheduler, [job |-> frame.about, generation |-> frame.generation,
                                        rank |-> frame.rank])} :
       /\ scheduler' = outcome.scheduler
       /\ toClient' = toClient \o Replies(frame.about, outcome)

WithdrawnReplies(generation) ==
  LET withdrawn == OfGeneration(scheduler, generation)
  IN  [i \in DOMAIN withdrawn |-> Withdrawn(withdrawn[i].job)]

ReadCancel ==
  /\ Reads("cancel")
  /\ scheduler' = GenerationCancelled(scheduler, Head(toHelper).generation)
  /\ toClient' = toClient \o WithdrawnReplies(Head(toHelper).generation)

-----------------------------------------------------------------------------
(* process_next: in two steps, the rendering between them.                 *)

StartJob ==
  /\ alive /\ job = NoJob /\ scheduler.pending # <<>>
  /\ \E entry \in {scheduler.pending[NextIndex(scheduler)]} :
       /\ job' = [job |-> entry.job, generation |-> entry.generation]
       /\ toClient' = Append(toClient, Started(entry.job))
  /\ scheduler' = Taken(scheduler)
  /\ UNCHANGED <<alive, toHelper>>

FinishJob ==
  /\ alive /\ job # NoJob
  /\ job' = NoJob
  /\ toClient' = Append(toClient, Answer(job.job))
  /\ UNCHANGED <<alive, scheduler, toHelper>>

HelperNext == ReadRequest \/ ReadCancel \/ StartJob \/ FinishJob
===============================================================================
