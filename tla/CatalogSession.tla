---------------------------- MODULE CatalogSession ----------------------------
(***************************************************************************)
(* CatalogSession (src/catalog/catalog_session.cpp) over DirectoryService: *)
(* what the file view shows while folders are opened, refreshed and left,  *)
(* listings fail and are retried, and batches of older listings are still  *)
(* on their way.                                                           *)
(*                                                                         *)
(* An opened folder is shown batch by batch.  A refreshed one is staged    *)
(* and shown when it is complete, so that a failure leaves what was there; *)
(* a recursive one replaces the view with its first files.                 *)
(***************************************************************************)
EXTENDS DirectoryService

CONSTANTS MaxCommands,  \* bound: how many commands the user gives
          MaxRetries    \* the length of retryDelays

ASSUME SessionAssumption == MaxCommands \in Nat /\ MaxRetries \in Nat

VARIABLES
  state,     \* state_
  requests,  \* nextGeneration_
  active,    \* activeGeneration_
  recursive, \* recursive_
  retries,   \* retryIndex_
  staging,   \* stageUntilSuccess_
  staged,    \* stagedEntries_
  sinkOpen,  \* sinkOpen_
  truncated, \* truncated_
  view,      \* the model behind the file view (the sink)
  saved,     \* the view of the folder, kept while all subfolders are shown
  commands

sessionVars ==
  <<state, requests, active, recursive, retries, staging, staged, sinkOpen, truncated,
    view, saved, commands>>

vars == <<serviceVars, sessionVars>>

-----------------------------------------------------------------------------
(* The sink (directory_list_model.cpp, directory_model.cpp).  A batch that *)
(* comes while the model is not loading is a fatal error of the program.   *)

EmptyView == [shown |-> <<>>, loading |-> FALSE, refused |-> FALSE]

Began(v) == [v EXCEPT !.shown = <<>>, !.loading = TRUE]
Closed(v) == [v EXCEPT !.loading = FALSE]

Appended(v, entries) ==
  IF entries = <<>> THEN v
  ELSE [v EXCEPT !.shown = @ \o entries, !.refused = @ \/ ~v.loading]

Replaced(v, entries) == [v EXCEPT !.shown = entries, !.loading = FALSE]

(* finish_sink_if_open and abort_sink_if_open: what is shown stays. *)
SinkClosed == IF sinkOpen THEN Closed(view) ELSE view

-----------------------------------------------------------------------------
(* Requests.                                                               *)

(* MUTANT of BeginRequest: what was staged for the last request stays. *)
BeginRequestKeeping(preserve, all) ==
  /\ requests' = requests + 1 /\ active' = requests'
  /\ staging' = preserve /\ UNCHANGED staged
  /\ state' = "loading"
  /\ recursive' = all
  /\ Submit(requests', all)

(* begin_request *)
BeginRequest(preserve, all) ==
  /\ requests' = requests + 1 /\ active' = requests'
  /\ staging' = preserve /\ staged' = <<>>
  /\ state' = "loading"
  /\ recursive' = all
  /\ Submit(requests', all)

Init ==
  /\ ServiceInit
  /\ state = "unavailable" /\ requests = 0 /\ active = 0
  /\ recursive = FALSE /\ retries = 0 /\ staging = FALSE /\ staged = <<>>
  /\ sinkOpen = FALSE /\ truncated = FALSE
  /\ view = EmptyView /\ saved = <<>> /\ commands = 0

(* The bounds leave room for every attempt of the request that may follow. *)
Command ==
  /\ commands < MaxCommands /\ requests + MaxRetries < MaxRequests
  /\ commands' = commands + 1

(* open with an empty view, and with the view that is there *)
Open(all) ==
  /\ view' = Began(SinkClosed) /\ sinkOpen' = TRUE
  /\ retries' = 0 /\ truncated' = FALSE
  /\ BeginRequest(FALSE, all)

Reopen(v, all) ==
  /\ view' = v /\ sinkOpen' = FALSE
  /\ retries' = 0 /\ truncated' = FALSE
  /\ BeginRequest(TRUE, all)

(* CatalogController::open_directory *)
OpenFolder == Command /\ Open(FALSE) /\ saved' = <<>>

(* refresh, by the user or by the folder monitor *)
Refresh ==
  /\ Command /\ requests > 0
  /\ Reopen(SinkClosed, recursive)
  /\ UNCHANGED saved

(* suspend: an automatic refresh gives way, or another view takes over. *)
Suspend ==
  /\ Command /\ requests > 0
  /\ IF active # 0 THEN Cancel ELSE UNCHANGED serviceVars
  /\ active' = 0 /\ state' = "suspended"
  /\ view' = SinkClosed /\ sinkOpen' = FALSE
  /\ staging' = FALSE /\ staged' = <<>> /\ retries' = 0 /\ truncated' = FALSE
  /\ UNCHANGED <<requests, recursive, saved>>

(* set_recursive: suspend, take_view, open *)
ShowSubfolders ==
  /\ Command /\ ~recursive /\ state \in {"ready", "suspended"}
  /\ saved' = view.shown
  /\ Open(TRUE)

(* leave_recursive: suspend, restore_view, open with the view preserved *)
LeaveSubfolders ==
  /\ Command /\ recursive
  /\ Reopen([EmptyView EXCEPT !.shown = saved, !.refused = view.refused], FALSE)
  /\ saved' = <<>>

(* poll, when the time for another attempt has come *)
Retry ==
  /\ state = "waiting_retry"
  /\ BeginRequest(TRUE, recursive)
  /\ UNCHANGED <<retries, sinkOpen, truncated, view, saved, commands>>

-----------------------------------------------------------------------------
(* poll: a batch of the active request is taken.                           *)

Entries(b) == IF b.chunk = 0 THEN <<>> ELSE <<[of |-> b.of, chunk |-> b.chunk]>>

(* The first files of a recursive listing end the staging. *)
Restarts(b) == recursive /\ staging /\ b.chunk # 0

Stages(b) == staging /\ ~Restarts(b)

ViewWith(b) ==
  IF Stages(b) THEN view
  ELSE Appended(IF Restarts(b) THEN Began(view) ELSE view, Entries(b))

StagedWith(b) == IF Stages(b) THEN staged \o Entries(b) ELSE staged

OpenWith(b) == sinkOpen \/ Restarts(b)

TruncatedWith(b) == truncated \/ b.truncated \/ (recursive /\ b.error # "none")

Receives(b) ==
  /\ state = "loading" /\ Offered(active) # {}
  /\ b = Incoming[FirstOffered(active)]
  /\ Take(FirstOffered(active))
  /\ truncated' = TruncatedWith(b)
  /\ UNCHANGED <<requests, active, recursive, saved, commands>>

Received == {Incoming[k] : k \in Offered(active)}

PollBatch ==
  \E b \in Received :
    /\ Receives(b) /\ ~b.final
    /\ view' = ViewWith(b) /\ staged' = StagedWith(b)
    /\ staging' = Stages(b) /\ sinkOpen' = OpenWith(b)
    /\ UNCHANGED <<state, retries>>

(* Errors below the root are partial success of a recursive listing. *)
Succeeds(b) == b.error = "none" \/ (recursive /\ ~b.rootFailed)

(* An incomplete empty refresh is no evidence that the files disappeared. *)
Replaces(b) == Stages(b) /\ (~recursive \/ ~TruncatedWith(b))

PollSuccess ==
  \E b \in Received :
    /\ Receives(b) /\ b.final /\ Succeeds(b)
    /\ view' = CASE Replaces(b) -> Replaced(view, StagedWith(b))
                 [] Stages(b) /\ ~Replaces(b) -> view
                 [] ~Stages(b) -> Closed(ViewWith(b))
    /\ staged' = IF Replaces(b) THEN <<>> ELSE StagedWith(b)
    /\ staging' = FALSE /\ sinkOpen' = FALSE
    /\ state' = "ready"
    /\ UNCHANGED retries

(* should_retry *)
MayRetry(b) == ~recursive /\ b.error = "transient" /\ retries < MaxRetries

(* MUTANT of LeftByFailure: a failed refresh shows what it has so far.     *)
LeftReplaced(b) == IF Stages(b) THEN Replaced(view, StagedWith(b)) ELSE Closed(ViewWith(b))

(* abort: what was staged is dropped *)
LeftByFailure(b) == IF Stages(b) THEN view ELSE Closed(ViewWith(b))

PollFailure ==
  \E b \in Received :
    /\ Receives(b) /\ b.final /\ ~Succeeds(b)
    /\ view' = LeftByFailure(b)
    /\ staged' = IF Stages(b) THEN <<>> ELSE staged
    /\ staging' = Stages(b) /\ sinkOpen' = FALSE
    /\ IF MayRetry(b) THEN state' = "waiting_retry" /\ retries' = retries + 1
       ELSE state' = "unavailable" /\ UNCHANGED retries

Poll == PollBatch \/ PollSuccess \/ PollFailure

User == OpenFolder \/ Refresh \/ Suspend \/ ShowSubfolders \/ LeaveSubfolders

Next ==
  \/ User \/ Poll \/ Retry
  \/ \E g \in Requests : Service(g) /\ UNCHANGED sessionVars

(* The poll timer runs while a listing is loading or waits to be retried.  *)
Spec ==
  /\ Init /\ [][Next]_vars
  /\ WF_vars(Poll) /\ WF_vars(Retry) /\ ServiceFairness

-----------------------------------------------------------------------------
(* Properties *)

Shown(g, n) == [k \in 1..n |-> [of |-> g, chunk |-> k]]

Listing == {Shown(g, n) : g \in Requests, n \in 0..MaxSize}

(* Every variable has its type. *)
TypeOK ==
  /\ ServiceTypeOK
  /\ state \in {"loading", "waiting_retry", "ready", "unavailable", "suspended"}
  /\ requests \in 0..MaxRequests /\ active \in 0..MaxRequests
  /\ recursive \in BOOLEAN /\ retries \in 0..MaxRetries
  /\ staging \in BOOLEAN /\ staged \in Listing
  /\ sinkOpen \in BOOLEAN /\ truncated \in BOOLEAN
  /\ DOMAIN view = {"shown", "loading", "refused"} /\ saved \in Listing
  /\ commands \in 0..MaxCommands

(* The view shows one listing, from its beginning and without a gap, never *)
(* the files of two requests, whatever was cancelled, timed out or retried *)
(* meanwhile; the model never refuses a batch, which would end the program *)
(* (CatalogSession::poll, DirectoryListModel::append_catalog); and a       *)
(* session that is ready and does not say that it was cut short shows all  *)
(* that the folder had: no batch was lost on its way through the queue     *)
(* (publish_batch, publish_timeout).                                       *)
ViewIsOneListing ==
  /\ TypeOK
  /\ view.shown \in Listing /\ ~view.refused
  /\ state = "ready" /\ ~truncated => view.shown = Shown(active, folder.size)

(* A listing that fails takes nothing from the view: unless the user opens *)
(* a folder, files leave the view only for a listing that succeeded, or    *)
(* for the first files of a recursive one; and the view becomes empty only *)
(* when the folder is known to be.                                         *)
FailureTakesNothing ==
  [][commands' = commands /\ (\E k \in DOMAIN view.shown :
                                k \notin DOMAIN view'.shown \/ view'.shown[k] # view.shown[k]) =>
       \/ state' = "ready" /\ (view'.shown = <<>> => ~truncated')
       \/ recursive /\ view'.shown # <<>>]_vars

(* A listing that is loading or waits to be retried comes to an end, also  *)
(* when the helper hangs, the queue is full, or no worker can be started;  *)
(* and every worker retires, whatever it was waiting for when its request  *)
(* was cancelled, so that one of the few places is free again.             *)
ListingsEnd ==
  /\ state \in {"loading", "waiting_retry"} ~> state \in {"ready", "unavailable", "suspended"}
  /\ \A g \in Requests : g \in Busy ~> g \notin Busy
==============================================================================
