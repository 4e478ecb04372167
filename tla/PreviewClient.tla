----------------------------- MODULE PreviewClient -----------------------------
(***************************************************************************)
(* The user interface's side of the previews (src/ui/qt/preview_client.cpp)*)
(* over PreviewHelper: requests of several generations (the file view, the *)
(* viewing pane, the folder mosaics) share one helper process.  Only a few *)
(* of them are sent ahead of their turn, so that the rest can still be     *)
(* withdrawn; a generation is cancelled as a whole; a helper that is lost, *)
(* hangs or renders what nobody wants any more is killed and replaced, and *)
(* what was asked of it is asked again.                                    *)
(*                                                                         *)
(* Each handler of the event loop is one action; its parts are operators   *)
(* from a client record to a client record, named for the functions.       *)
(*                                                                         *)
(* Time is counted in ticks.  Every allowance of the code is Period here:  *)
(* the 12 s without a sign of the helper, and the 12, 35 or 135 s of a     *)
(* rendering.  "quiet" is history: the ticks the helper had work and gave  *)
(* no sign.  "stale" is history too: the deadline in force was left over    *)
(* when the last request it could be about was answered.                   *)
(***************************************************************************)
EXTENDS PreviewHelper

CONSTANTS Kinds,        \* the kinds of requests: generation, rank, extended
          Window,       \* kMaximumDispatchedRequests
          Reserve,      \* kSelectedDispatchReserve
          MaxAttempts,  \* kMaximumBackpressureAttempts
          Period,       \* requestTimeoutMs_, in ticks
          MaxRequests,  \* bound: requests
          MaxFaults     \* bound: deaths of the helper, changes of its settings

ASSUME ClientAssumption ==
  /\ {Window, Period} \subseteq Nat \ {0}
  /\ {Reserve, MaxAttempts, MaxRequests, MaxFaults} \subseteq Nat

VARIABLES
  client,  \* the members of PreviewClient
  made,    \* how many requests were made: nextRequestId_ - 1
  ended,   \* the generations that were cancelled; they are not used again
  faults   \* how many faults there were

vars == <<helperVars, client, made, ended, faults>>

NoDeadline == Period + 1

Idle ==
  [link |-> "off", restarting |-> FALSE, pending |-> <<>>, cancelled |-> {}, active |-> 0,
   outbox |-> <<>>, progress |-> NoDeadline, quiet |-> 0, stale |-> FALSE]

Init ==
  /\ HelperInit
  /\ client = Idle /\ made = 0 /\ ended = {} /\ faults = 0

-----------------------------------------------------------------------------
(* What the client has asked of the helper.                                *)

NewPending(kind) ==
  [kind |-> kind, dispatched |-> FALSE, active |-> FALSE, attempts |-> 0, resting |-> FALSE,
   deadline |-> NoDeadline]

Without(pending, ids) == [id \in DOMAIN pending \ ids |-> pending[id]]

Dispatched(c) == {id \in DOMAIN c.pending : c.pending[id].dispatched}

Outstanding(c) == Dispatched(c) \cup c.cancelled

(* dispatched_request_count *)
Count(c) == Cardinality(Outstanding(c))

(* The requests that may go, best first: as many as the window takes, and  *)
(* a selected one on top of it.                                            *)
Sendable(c) ==
  LET Rank(id) == c.pending[id].kind.rank
      Before(a, b) == Rank(a) < Rank(b) \/ (Rank(a) = Rank(b) /\ a < b)
      waiting == SetToSortSeq({id \in DOMAIN c.pending : /\ ~c.pending[id].dispatched
                                                         /\ ~c.pending[id].resting}, Before)
      Fits(k) == \/ Count(c) + k - 1 < Window
                 \/ Count(c) + k - 1 < Window + Reserve /\ Rank(waiting[k]) = Selected
  IN  SubSeq(waiting, 1, Cardinality({k \in DOMAIN waiting : Fits(k)}))

Sent(c, ids) ==
  [c EXCEPT !.outbox = @ \o [k \in DOMAIN ids |-> RequestFrame(ids[k], c.pending[ids[k]].kind)],
            !.pending = [id \in DOMAIN @ |-> [@[id] EXCEPT !.dispatched = @ \/ Contains(ids, id)]],
            !.quiet = IF Count(c) = 0 /\ ids # <<>> THEN 0 ELSE @]

Renewed(c) == [c EXCEPT !.progress = Period, !.quiet = 0, !.stale = FALSE]
Unlimited(c) == [c EXCEPT !.progress = NoDeadline, !.quiet = 0, !.stale = FALSE]

(* dispatch_deferred_requests *)
DispatchDeferred(c) ==
  LET sent == Sent(c, Sendable(c))
  IN  IF sent.link = "up" /\ sent.active = 0 /\ Count(sent) # 0 /\ sent.progress = NoDeadline
      THEN Renewed(sent) ELSE sent

(* What every sign of the helper does to the deadline. *)
RenewedIfBusy(c) == IF Count(c) # 0 THEN Renewed(c) ELSE Unlimited(c)

(* The client becomes c; a connected one writes its frames to the socket,  *)
(* which takes them all.                                                   *)
Becomes(c) ==
  IF c.link = "up"
  THEN client' = [c EXCEPT !.outbox = <<>>] /\ toHelper' = toHelper \o c.outbox
  ELSE client' = c /\ UNCHANGED toHelper
-----------------------------------------------------------------------------
(* Losing the helper, and replacing it.                                    *)

(* fail_pending *)
FailPending(c) ==
  [Unlimited(c) EXCEPT !.pending = <<>>, !.cancelled = {}, !.outbox = <<>>, !.active = 0]

(* The connection is lost: what is left of the process is killed. *)
LoseHelper ==
  /\ client' = [FailPending(client) EXCEPT !.link = "dying"]
  /\ HelperGone

(* An enlarged rendering is not tried a second time, except where the      *)
(* restart is about another request.                                       *)
Lapsed(c, preserve) ==
  IF preserve THEN {} ELSE {id \in Dispatched(c) : c.pending[id].kind.extended}

AskedAgain(c, id, preserve) ==
  LET entry == c.pending[id]
  IN  [entry EXCEPT !.dispatched = FALSE, !.active = FALSE, !.resting = FALSE,
                    !.deadline = IF preserve /\ entry.kind.extended /\ entry.active
                                   /\ id = c.active
                                 THEN @ ELSE NoDeadline]

(* MUTANT of Restarted: the deadline outlives the helper it was set for. *)
RestartedInTime(c, preserve) ==
  [c EXCEPT
     !.link = "dying", !.restarting = TRUE, !.active = 0, !.outbox = <<>>, !.cancelled = {},
     !.pending = [id \in DOMAIN @ \ Lapsed(c, preserve) |-> AskedAgain(c, id, preserve)]]

(* restart_helper: the process is killed; finished is still to come. *)
Restarted(c, preserve) ==
  [Unlimited(c) EXCEPT
     !.link = "dying", !.restarting = TRUE, !.active = 0, !.outbox = <<>>, !.cancelled = {},
     !.pending = [id \in DOMAIN @ \ Lapsed(c, preserve) |-> AskedAgain(c, id, preserve)]]

(* restart_helper, by a handler that left c: nothing more happens when a   *)
(* restart is under way.                                                   *)
RestartHelper(c, preserve) ==
  IF c.restarting THEN client' = c /\ UNCHANGED helperVars
  ELSE client' = Restarted(c, preserve) /\ HelperGone

(* finish_restart, rebuild_request_queue, ensure_started *)
FinishRestart(c) ==
  IF DOMAIN c.pending = {}
  THEN [c EXCEPT !.restarting = FALSE, !.link = "off"]
  ELSE DispatchDeferred(
         [c EXCEPT !.restarting = FALSE, !.link = "starting", !.outbox = <<>>,
                   !.pending = [id \in DOMAIN @ |-> [@[id] EXCEPT !.dispatched = FALSE,
                                                    !.active = FALSE, !.resting = FALSE]]])

-----------------------------------------------------------------------------
(* The callers.                                                            *)

(* request_preview: one enlarged request at a time. *)
Request(kind) ==
  /\ made < MaxRequests /\ made' = made + 1
  /\ kind.generation \notin ended
  /\ kind.extended => \A id \in DOMAIN client.pending : ~client.pending[id].kind.extended
  /\ \E c \in {DispatchDeferred([client EXCEPT !.pending = @ @@ made' :> NewPending(kind)])} :
       IF client.link = "off"
       THEN client' = [c EXCEPT !.link = "starting"] /\ HelperStarts
       ELSE Becomes(c) /\ UNCHANGED <<alive, scheduler, job, toClient>>
  /\ UNCHANGED <<ended, faults>>

OfThe(c, generation) == {id \in DOMAIN c.pending : c.pending[id].kind.generation = generation}

Unsent(c) == {frame.about : frame \in {f \in ToSet(c.outbox) : f.type = "request"}}

Purged(outbox, ids) ==
  SelectSeq(outbox, LAMBDA frame : ~(frame.type = "request" /\ frame.about \in ids))

(* MUTANT of Forgotten: a withdrawn request no longer counts. *)
ForgottenAtOnce(c, generation) ==
  [c EXCEPT !.pending = Without(@, OfThe(c, generation)),
            !.outbox = Append(Purged(@, OfThe(c, generation)), CancelFrame(generation))]

(* Requests that were sent stay counted until the helper answers them. *)
Forgotten(c, generation) ==
  [c EXCEPT !.pending = Without(@, OfThe(c, generation)),
            !.cancelled = @ \cup ((OfThe(c, generation) \cap Dispatched(c)) \ Unsent(c)),
            !.outbox = Append(Purged(@, OfThe(c, generation)), CancelFrame(generation))]

(* MUTANT of MustRestart: the one that is rendered is left to finish. *)
MustRestartUnlessActive(c, rest, generation) ==
  /\ OfThe(c, generation) \cap Dispatched(c) # {}
  /\ c.active = 0 /\ Dispatched(rest) = {}

(* The helper renders a request of the generation, or may be about to.     *)
MustRestart(c, rest, generation) ==
  /\ OfThe(c, generation) \cap Dispatched(c) # {}
  /\ c.active \in OfThe(c, generation) \/ (c.active = 0 /\ Dispatched(rest) = {})

(* cancel_generation, where there is something to cancel *)
CancelGeneration(generation) ==
  /\ generation \notin ended /\ ended' = ended \cup {generation}
  /\ OfThe(client, generation) # {}
  /\ \E rest \in {Forgotten(client, generation)} :
       IF MustRestart(client, rest, generation) /\ client.link # "off"
       THEN RestartHelper(rest, TRUE)
       ELSE Becomes(rest) /\ UNCHANGED <<alive, scheduler, job, toClient>>
  /\ UNCHANGED <<made, faults>>

(* retain_generation_entries: of what was not sent, some is not visible    *)
(* any more.                                                               *)
RetainEntries(generation) ==
  /\ \E gone \in SUBSET (OfThe(client, generation) \ Dispatched(client)) :
       gone # {} /\ client' = [client EXCEPT !.pending = Without(@, gone)]
  /\ UNCHANGED <<helperVars, made, ended, faults>>

-----------------------------------------------------------------------------
(* The helper's frames (dispatch_frame).                                   *)

NothingAsked == UNCHANGED <<made, ended, faults>>

(* The handshake, as one step. *)
Authenticate ==
  /\ client.link = "starting" /\ alive
  /\ \E c \in {DispatchDeferred([client EXCEPT !.link = "up"])} :
       Becomes(IF Count(c) # 0 THEN Renewed(c) ELSE c)
  /\ UNCHANGED <<alive, scheduler, job, toClient>> /\ NothingAsked

Receives(types) ==
  /\ client.link = "up" /\ toClient # <<>> /\ Head(toClient).type \in types
  /\ NothingAsked

Read == toClient' = Tail(toClient) /\ UNCHANGED <<alive, scheduler, job>>

(* A frame about a request the client does not know. *)
Ignored == client' = client /\ Read /\ UNCHANGED toHelper

NowActive(c, id) ==
  Unlimited([c EXCEPT !.active = id,
                      !.pending[id] = [@ EXCEPT !.active = TRUE,
                                                !.deadline = IF @ = NoDeadline THEN Period ELSE @]])

(* job_started; of a withdrawn request it is not waited for. *)
ReceiveStarted ==
  /\ Receives({"started"})
  /\ \E id \in {Head(toClient).about} :
       CASE id \in client.cancelled -> RestartHelper(client, TRUE)
         [] id \notin client.cancelled \cup DOMAIN client.pending -> Ignored
         [] id \in DOMAIN client.pending /\ client.active \notin {0, id} -> LoseHelper
         [] OTHER ->
              /\ client' = NowActive(client, id)
              /\ Read /\ UNCHANGED toHelper

Inactive(c, id) == [c EXCEPT !.active = IF @ = id THEN 0 ELSE @]

(* MUTANT of RoomFor: nothing is sent in its place. *)
RoomForNobody(c) == c

RoomFor(c) ==
  DispatchDeferred([c EXCEPT !.stale = @ \/ (Count(c) = 0 /\ c.progress # NoDeadline)])

(* The answer to a withdrawn request makes room; it is no sign of life,    *)
(* and the deadline stays in force.                                        *)
RoomMade(id) ==
  /\ \E c \in {RoomFor([client EXCEPT !.cancelled = @ \ {id}])} : Becomes(c)
  /\ Read

Completed(id) ==
  RenewedIfBusy(DispatchDeferred(Inactive([client EXCEPT !.pending = Without(@, {id})], id)))

(* preview_response; a helper that withdrew a request for want of room     *)
(* answers it as well.                                                     *)
ReceiveAnswer ==
  /\ Receives({"answer", "cancelled"})
  /\ \E id \in {Head(toClient).about} :
       CASE id \in client.cancelled -> RoomMade(id)
         [] id \notin client.cancelled \cup DOMAIN client.pending -> Ignored
         [] OTHER -> Read /\ \E c \in {Completed(id)} : Becomes(c)

Rested(id) ==
  [Inactive(client, id) EXCEPT
     !.pending[id] = [@ EXCEPT !.dispatched = FALSE, !.active = FALSE, !.resting = TRUE,
                               !.deadline = NoDeadline, !.attempts = @ + 1]]

(* queue_busy: the request rests and is sent again, up to MaxAttempts      *)
(* times.                                                                  *)
ReceiveBusy ==
  /\ Receives({"busy"})
  /\ \E id \in {Head(toClient).about} :
       CASE id \in client.cancelled -> RoomMade(id)
         [] id \notin client.cancelled \cup DOMAIN client.pending -> Ignored
         [] OTHER ->
              /\ \E c \in {IF client.pending[id].attempts < MaxAttempts THEN Rested(id)
                           ELSE Inactive([client EXCEPT !.pending = Without(@, {id})], id)} :
                  Becomes(DispatchDeferred(RenewedIfBusy(c)))
              /\ Read

(* retry_backpressured_requests *)
BackoffOver ==
  /\ \E id \in DOMAIN client.pending :
       /\ client.pending[id].resting /\ ~client.restarting
       /\ Becomes(DispatchDeferred([client EXCEPT !.pending[id].resting = FALSE]))
  /\ UNCHANGED <<alive, scheduler, job, toClient>> /\ NothingAsked

-----------------------------------------------------------------------------
(* Time.                                                                   *)

Less(n) == IF n \in 1..Period THEN n - 1 ELSE n

Deadline(c) == IF c.active \in DOMAIN c.pending THEN c.pending[c.active].deadline ELSE c.progress

Tick ==
  /\ Count(client) # 0 /\ Deadline(client) \in 1..Period
  /\ client' = [client EXCEPT
                  !.progress = Less(@), !.quiet = IF @ < Period THEN @ + 1 ELSE @,
                  !.pending = [id \in DOMAIN @ |-> [@[id] EXCEPT !.deadline = Less(@)]]]
  /\ UNCHANGED helperVars /\ NothingAsked

(* Nothing is sent, and a deadline runs all the same. *)
IdleTick ==
  /\ Count(client) = 0 /\ client.progress \in 1..Period
  /\ client' = [client EXCEPT !.progress = Less(@)]
  /\ UNCHANGED helperVars /\ NothingAsked

(* The one that is rendered, or else the lowest that was sent, is blamed. *)
Blamed(c) ==
  IF c.active \in DOMAIN c.pending THEN {c.active}
  ELSE {id \in Dispatched(c) : \A other \in Dispatched(c) : id <= other}

(* handle_request_timeout *)
RequestTimeout ==
  /\ Count(client) # 0 /\ Deadline(client) = 0
  /\ \E blamed \in {Blamed(client)} :
       RestartHelper([client EXCEPT !.pending = Without(@, blamed)], FALSE)
  /\ NothingAsked

-----------------------------------------------------------------------------
(* The process.                                                            *)

(* fail_startup, by its timer or because the program does not start *)
StartupFails ==
  /\ client.link = "starting"
  /\ client' = [FailPending(client) EXCEPT !.link = "dying", !.restarting = TRUE]
  /\ HelperGone /\ NothingAsked

HelperDies ==
  /\ faults < MaxFaults /\ faults' = faults + 1
  /\ alive
  /\ alive' = FALSE /\ job' = NoJob /\ toHelper' = <<>>
  /\ scheduler' = NewScheduler(scheduler.capacity)
  /\ UNCHANGED <<toClient, client, made, ended>>

(* The socket tells of the death first; what is left in it may be read     *)
(* before, or not.                                                         *)
Disconnected ==
  /\ client.link = "up" /\ ~alive
  /\ LoseHelper /\ NothingAsked

(* The process tells of its death.  One that dies before the handshake     *)
(* goes through fail_startup, to the same end.                             *)
ProcessFinished ==
  /\ client.link # "off" /\ ~alive
  /\ IF ~client.restarting
     THEN client' = [FailPending(client) EXCEPT !.link = "off"] /\ HelperGone
     ELSE \E c \in {FinishRestart(client)} :
            client' = c /\ IF c.link = "starting" THEN HelperStarts ELSE UNCHANGED helperVars
  /\ NothingAsked

(* set_cache_maximum_bytes, finish_external_component_refresh *)
Reconfigure ==
  /\ faults < MaxFaults /\ faults' = faults + 1
  /\ client.link # "off" /\ ~client.restarting
  /\ RestartHelper(client, FALSE)
  /\ UNCHANGED <<made, ended>>

(* The idle timer: stop *)
IdleStop ==
  /\ client.link \in {"starting", "up"}
  /\ DOMAIN client.pending = {} /\ client.cancelled = {} /\ client.outbox = <<>>
  /\ client' = [Unlimited(client) EXCEPT !.link = "off", !.active = 0]
  /\ HelperGone /\ NothingAsked

-----------------------------------------------------------------------------
Generations == {kind.generation : kind \in Kinds}

(* What the event loop has to do by itself. *)
EventLoop ==
  \/ Tick \/ StartupFails \/ Disconnected \/ RequestTimeout \/ ProcessFinished
  \/ ReceiveStarted \/ ReceiveBusy \/ ReceiveAnswer \/ BackoffOver

Next ==
  \/ \E kind \in Kinds : Request(kind)
  \/ \E generation \in Generations : CancelGeneration(generation) \/ RetainEntries(generation)
  \/ EventLoop
  \/ Authenticate \/ IdleTick \/ IdleStop \/ HelperDies \/ Reconfigure
  \/ HelperNext /\ UNCHANGED <<client, made, ended, faults>>

(* The event loop turns and its timers run; nothing is asked of the        *)
(* helper, which may hang at any point.                                    *)
Spec == Init /\ [][Next]_vars /\ WF_vars(EventLoop)

-----------------------------------------------------------------------------
(* Properties.                                                             *)

TypeOK ==
  /\ client.link \in {"off", "starting", "up", "dying"}
  /\ client.restarting => client.link = "dying"
  /\ client.progress \in 0..NoDeadline /\ client.quiet \in 0..Period
  /\ client.active # 0 => client.link = "up" /\ client.active \in Dispatched(client)
  /\ client.link \in {"off", "dying"} => client.cancelled = {}
Requested(frames) == SelectSeq(frames, LAMBDA frame : frame.type = "request")
Replied(frames) == SelectSeq(frames, LAMBDA frame : frame.type # "started")
About(frames) == [i \in DOMAIN frames |-> frames[i].about]

(* Where the requests are that the helper was given. *)
Held ==
  About(Requested(toHelper))
    \o [i \in DOMAIN scheduler.pending |-> scheduler.pending[i].job]
    \o (IF job = NoJob THEN <<>> ELSE <<job.job>>)
    \o About(Replied(toClient))

(* dispatched_request_count is the truth: each request that the client     *)
(* counts is at one place of the connection or the helper and nowhere      *)
(* twice, withdrawn ones included, so the window neither leaks nor         *)
(* overflows, through cancellations, refusals and restarts.                *)
WindowIsExact ==
  /\ TypeOK
  /\ Count(client) <= Window + Reserve
  /\ client.link = "up" => /\ IsInjective(Held) /\ ToSet(Held) \subseteq Outstanding(client)
                           /\ alive => ToSet(Held) = Outstanding(client)
  /\ client.link = "starting" => Dispatched(client) = Unsent(client)

(* Nobody waits for the rendering of what was cancelled: a job of a        *)
(* cancelled generation is rendered only until the client hears that it    *)
(* was started; and once the helper has read the cancellation it holds     *)
(* nothing of the generation that it could start.                          *)
CancelledJobIsStopped ==
  /\ (client.link = "up" /\ alive /\ job # NoJob /\ job.generation \in ended)
       => Contains(toClient, Started(job.job))
  /\ \A generation \in ToSet(scheduler.cancelled) :
       /\ OfGeneration(scheduler, generation) = <<>>
       /\ \A i \in DOMAIN toHelper :
            toHelper[i].type = "request" => toHelper[i].generation # generation

(* A request that the helper has queued is passed over at most as often as *)
(* its limit says, and by those that stood before it.                      *)
PassedOverAtMost ==
  \A i \in DOMAIN scheduler.pending :
    LET entry == scheduler.pending[i]
    IN  PassedOver(scheduler, entry) <= Limit(entry) + (entry.ahead - (i - 1))

(* A request that is reported as timed out had its time, or the helper,    *)
(* with work to do, gave no sign for as long; unless the deadline is one   *)
(* that the answer to a withdrawn request has left in force.               *)
TimeoutIsEarned ==
  [][RequestTimeout /\ Blamed(client) # {} => client.quiet = Period \/ client.stale]_vars

(* Every request is answered or withdrawn, whatever the helper does or     *)
(* leaves undone.                                                          *)
EveryRequestIsAnswered ==
  \A id \in 1..MaxRequests : id \in DOMAIN client.pending ~> id \notin DOMAIN client.pending
================================================================================
