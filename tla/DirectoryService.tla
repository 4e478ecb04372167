--------------------------- MODULE DirectoryService ---------------------------
(***************************************************************************)
(* DirectoryService (src/platform/directory_service.cpp): lists a folder   *)
(* in a helper process of its own.  A worker thread per request reads the  *)
(* helper's batches and puts them into a bounded queue; a monitor thread   *)
(* per request ends a listing that makes no progress; the user interface   *)
(* submits, cancels and takes batches out, and never waits.                *)
(*                                                                         *)
(* submit and cancel are one step each: whatever a worker still puts into  *)
(* the queue between their parts, they remove at their end.  Batches that  *)
(* only carry a progress count are left out.                               *)
(***************************************************************************)
EXTENDS Naturals, Sequences, FiniteSets

CONSTANTS MaxRequests,    \* bound: how many requests are ever made
          MaxSize,        \* bound: how many batches of entries a folder yields
          MaxWorkers,     \* kCatalogMaxConcurrentEnumerations
          QueueCapacity   \* kCatalogQueueCapacity

ASSUME ServiceAssumption ==
  /\ MaxRequests \in Nat \ {0} /\ MaxSize \in Nat
  /\ MaxWorkers \in Nat \ {0} /\ QueueCapacity \in Nat \ {0}

VARIABLES
  wanted,    \* active_generation: the request whose batches are wanted
  queue,     \* batches: what the session has not taken yet
  terminal,  \* terminal_batch: the slot kept free for a timeout
  folder,    \* what the latest request asks for, and how much there is
  worker     \* the worker thread of each request

serviceVars == <<wanted, queue, terminal, folder, worker>>

Requests == 1..MaxRequests

(* Entries come in chunks, numbered from 1; chunk 0 is no entries.         *)
Batch ==
  [of : Requests, chunk : 0..MaxSize, final : BOOLEAN,
   error : {"none", "transient", "permanent"}, truncated : BOOLEAN, rootFailed : BOOLEAN]

Chunk(g, n) ==
  [of |-> g, chunk |-> n, final |-> FALSE, error |-> "none",
   truncated |-> FALSE, rootFailed |-> FALSE]

Ends(g, n, kind, cut, root) ==
  [Chunk(g, n) EXCEPT !.final = TRUE, !.error = kind, !.truncated = cut, !.rootFailed = root]

(* A worker: how many chunks it has read, and the batch that it holds.     *)
NoWorker == [stage |-> "none", sent |-> 0, pending |-> <<>>]
NewWorker == [NoWorker EXCEPT !.stage = "reading"]
Done == [NoWorker EXCEPT !.stage = "finishing"]
TimedOut == [NoWorker EXCEPT !.stage = "timed_out"]

(* active_workers *)
Busy == {g \in Requests : worker[g].stage # "none"}

ServiceInit ==
  /\ wanted = 0 /\ queue = <<>> /\ terminal = <<>>
  /\ folder = [recursive |-> FALSE, size |-> 0]
  /\ worker = [g \in Requests |-> NoWorker]

-----------------------------------------------------------------------------
(* What the session calls.                                                 *)

(* submit: workers that are still cleaning up count; without room for      *)
(* another one, or without a thread, the answer is there at once.          *)
Submit(g, all) ==
  /\ wanted' = g /\ terminal' = <<>>
  /\ \E size \in 0..MaxSize : folder' = [recursive |-> all, size |-> size]
  /\ \/ /\ Cardinality(Busy) < MaxWorkers
        /\ worker' = [worker EXCEPT ![g] = NewWorker]
        /\ queue' = <<>>
     \/ /\ queue' = <<Ends(g, 0, "transient", all, all)>>
        /\ UNCHANGED worker

Cancel == wanted' = 0 /\ queue' = <<>> /\ terminal' = <<>> /\ UNCHANGED <<folder, worker>>

(* poll, called until a batch of request g comes: others are dropped.      *)
Incoming == queue \o terminal

Offered(g) == {k \in DOMAIN Incoming : Incoming[k].of = g}

FirstOffered(g) == CHOOSE k \in Offered(g) : \A j \in Offered(g) : k <= j

Take(k) ==
  /\ queue' = SubSeq(queue, k + 1, Len(queue))
  /\ terminal' = IF k > Len(queue) THEN <<>> ELSE terminal
  /\ UNCHANGED <<wanted, folder, worker>>

-----------------------------------------------------------------------------
(* The worker and the monitor of a request.                                *)

(* attempt_is_current *)
Current(g) == wanted = g /\ worker[g].stage \in {"reading", "waiting"}

(* What the helper may send next: a chunk; the end of the folder; its end  *)
(* at the limit of entries; an error, with the entries it still had.  The  *)
(* limits of a recursive listing may be reached before its first entry.    *)
Sendable(g) ==
  LET sent == worker[g].sent
      next == {0} \union (IF sent < folder.size THEN {sent + 1} ELSE {})
      upTo(n) == IF n = 0 THEN sent ELSE n
  IN {Chunk(g, n) : n \in next \ {0}}
       \union {Ends(g, n, "none", FALSE, FALSE) : n \in {m \in next : upTo(m) = folder.size}}
       \union {Ends(g, n, "none", TRUE, FALSE) : n \in {m \in next : folder.recursive \/ upTo(m) > 0}}
       \union {Ends(g, n, kind, folder.recursive, folder.recursive /\ root) :
                 n \in next, kind \in {"transient", "permanent"}, root \in BOOLEAN}

(* run_request, publish_batch up to its wait for room *)
Read(g) ==
  /\ Current(g) /\ worker[g].stage = "reading"
  /\ \E b \in Sendable(g) :
       worker' = [worker EXCEPT ![g].stage = "waiting", ![g].pending = <<b>>,
                                ![g].sent = IF b.chunk = 0 THEN @ ELSE b.chunk]
  /\ UNCHANGED <<wanted, queue, terminal, folder>>

Delivered(g) ==
  [worker EXCEPT ![g] = IF @.pending[1].final THEN Done
                        ELSE [@ EXCEPT !.stage = "reading", !.pending = <<>>]]

(* publish_batch, with room in the queue *)
Deliver(g) ==
  /\ Current(g) /\ worker[g].stage = "waiting"
  /\ Len(queue) < QueueCapacity
  /\ worker' = Delivered(g)
  /\ queue' = queue \o worker[g].pending
  /\ UNCHANGED <<wanted, terminal, folder>>

(* Cancelled or timed out: the helper is killed, nothing more is queued. *)
GiveUp(g) ==
  /\ worker[g].stage \in {"reading", "waiting", "timed_out"} /\ ~Current(g)
  /\ worker' = [worker EXCEPT ![g] = Done]
  /\ UNCHANGED <<wanted, queue, terminal, folder>>

(* finish_worker *)
Retire(g) ==
  /\ worker[g].stage = "finishing"
  /\ worker' = [worker EXCEPT ![g] = NoWorker]
  /\ UNCHANGED <<wanted, queue, terminal, folder>>

(* publish_timeout: the entries that wait for room go with the last batch. *)
TimeoutBatch(g) ==
  LET held == worker[g].pending
  IN Ends(g, IF held = <<>> THEN 0 ELSE held[1].chunk, "transient", folder.recursive, FALSE)

(* MUTANT of TimeOut: no slot is kept free for the last batch. *)
TimeOutWithoutSlot(g) ==
  /\ Current(g)
  /\ worker' = [worker EXCEPT ![g] = TimedOut]
  /\ queue' = IF Len(queue) < QueueCapacity THEN Append(queue, TimeoutBatch(g)) ELSE queue
  /\ UNCHANGED <<wanted, terminal, folder>>

(* monitor_attempt: no batch got into the queue for the inactivity timeout *)
(* (a full queue counts as inactivity), or the total time is over.         *)
TimeOut(g) ==
  /\ Current(g)
  /\ worker' = [worker EXCEPT ![g] = TimedOut]
  /\ terminal' = <<TimeoutBatch(g)>>
  /\ UNCHANGED <<wanted, queue, folder>>

Service(g) == Read(g) \/ Deliver(g) \/ GiveUp(g) \/ Retire(g) \/ TimeOut(g)

(* The monitor has a clock; a killed helper lets go of its worker.  A      *)
(* helper need never send anything.                                        *)
ServiceFairness ==
  \A g \in Requests :
    WF_serviceVars(TimeOut(g)) /\ WF_serviceVars(GiveUp(g)) /\ WF_serviceVars(Retire(g))

-----------------------------------------------------------------------------
WorkerType ==
  [stage : {"none", "reading", "waiting", "timed_out", "finishing"}, sent : 0..MaxSize,
   pending : {<<>>} \union {<<b>> : b \in Batch}]

ServiceTypeOK ==
  /\ wanted \in 0..MaxRequests
  /\ Len(queue) <= QueueCapacity /\ \A k \in DOMAIN queue : queue[k] \in Batch
  /\ Len(terminal) <= 1 /\ \A k \in DOMAIN terminal : terminal[k] \in Batch
  /\ folder \in [recursive : BOOLEAN, size : 0..MaxSize]
  /\ worker \in [Requests -> WorkerType]
==============================================================================
