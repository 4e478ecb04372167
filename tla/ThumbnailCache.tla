---------------------------- MODULE ThumbnailCache ----------------------------
(***************************************************************************)
(* The cache of rendered previews, as the pipeline of the preview helper   *)
(* uses it (src/preview/thumbnail_pipeline.cpp over src/cache): artifacts  *)
(* in files, an index of them in SQLite, aliases ("locators") under which  *)
(* an artifact may be shown while its source cannot be reached, fences     *)
(* that revoke an alias, and a copy of what was used in memory.            *)
(*                                                                         *)
(* One source file is considered: it has been replaced a few times         *)
(* (Versions), and is rendered in a few sizes (Edges, ascending).  A key   *)
(* is a version at a size and stands for the artifact's digest; an alias   *)
(* is a size.  The helper serves one request at a time.  "todo" is what    *)
(* the request has still to do: one system call or SQL statement per step, *)
(* and the helper may be killed before each of them.  Which step follows,  *)
(* when one fails, is the step's business.                                 *)
(*                                                                         *)
(* Every statement and system call may fail.  An index that is found       *)
(* corrupt is deleted and made anew on the way.                            *)
(*                                                                         *)
(* "verified", "unkept", "lapsed", "saved" and "leaked" are history.       *)
(***************************************************************************)
EXTENDS Naturals, FiniteSets, Sequences, SequencesExt, TLC

CONSTANTS Versions,    \* of the source, as a resolver finds it
          LargestEdge, \* the number of sizes: kThumbnailCanonicalEdge, doubled up to the largest
          MaxEntries,  \* DiskCacheLimits::maximum_entries
          MaxListed,   \* DiskCacheLimits::maximum_orphan_scan_entries
          MaxRequests, \* bound: requests of the user interface
          MaxFaults    \* bound: failed statements and calls, damaged artifacts and indexes

ASSUME CacheAssumption ==
  /\ 0 \notin Versions /\ LargestEdge \in Nat \ {0}
  /\ {MaxEntries, MaxListed, MaxRequests, MaxFaults} \subseteq Nat

VARIABLES
  store,    \* the artifact of a key: none, good, or bad (damaged)
  rows,     \* the keys in the table of artifacts
  aliases,  \* the key an alias leads to, NoKey if it has no row
  fences,   \* the aliases with a file in .revoked-locators
  alive,    \* a helper runs
  ready,    \* its index is open
  memory,   \* the keys in memory_
  disabled, \* offline_lookup_disabled_
  todo,     \* what the request has still to do
  shown,    \* the key that a request was answered with although the source was out of reach
  requests, \* how many requests there were
  faults,   \* how many faults there were
  verified, \* by alias: the versions the source was last found to have, while they were bound
  unkept,   \* the aliases whose revocation only this helper knows of
  lapsed,   \* those whose revocation only a helper knew of that is gone
  saved,    \* the aliases that were bound, where nothing has gone wrong since
  leaked    \* the keys whose artifact a fault or a death has left without a row, and that
            \* no scan has listed since

files == <<store, fences>>
index == <<rows, aliases, ready>>
process == <<alive, memory, disabled, requests>>
history == <<verified, unkept, lapsed, saved, leaked>>
vars == <<files, index, process, todo, shown, faults, history>>

Edges == 1..LargestEdge
NoKey == [version |-> 0, edge |-> 0]
Key(version, edge) == [version |-> version, edge |-> edge]
Keys == {Key(version, edge) : version \in Versions, edge \in Edges}

Stored == {key \in Keys : store[key] # "none"}

Init ==
  /\ store = [key \in Keys |-> "none"] /\ rows = {} /\ aliases = [edge \in Edges |-> NoKey]
  /\ fences = {} /\ alive = FALSE /\ ready = FALSE /\ memory = {} /\ disabled = FALSE
  /\ todo = <<>> /\ shown = NoKey /\ requests = 0 /\ faults = 0
  /\ verified = [edge \in Edges |-> {}] /\ unkept = {} /\ lapsed = {} /\ saved = {} /\ leaked = {}

-----------------------------------------------------------------------------
(* Steps.                                                                  *)

Step(do, key) == [do |-> do, key |-> key]
AliasStep(do, edge) == [do |-> do, key |-> Key(0, edge)]

(* publish and bind_locator *)

\* MUTANT of Binding: the fence is removed before the alias is written.
UnfencedFirst(key) == <<Step("unfence", key), Step("bind", key)>>

Binding(key) == <<Step("bind", key), Step("unfence", key)>>
Publication(key) == <<Step("commit", key), Step("index", key)>> \o Binding(key)

(* revoke_locator_tiers: erase_locator for every size *)

\* MUTANT of Revocation: no fence, the DELETE is relied upon.
Deletion ==
  [edge \in Edges |-> [do |-> "delete", key |-> Key(0, edge), fenced |-> TRUE]]

Revocation == [edge \in Edges |-> AliasStep("fence", edge)]

(* prune_disk_cache *)
Pruning(scan, limit) ==
  <<[do |-> IF scan THEN "list" ELSE "evict", limit |-> limit, removed |-> FALSE]>>

(* What a scan has listed and has still to compare with the index. *)
Listed == UNION {todo[i].listed : i \in {j \in DOMAIN todo : todo[j].do = "scan"}}

Milestones == {"tiers", "deliver", "evict"}

(* A failure to save ends the saving, not the request. *)
AfterRevocation ==
  Revocation \o SelectSeq(Tail(todo), LAMBDA step : step.do \in Milestones)

Doing(do) == alive /\ todo # <<>> /\ Head(todo).do = do
Instead(steps) == todo' = steps \o Tail(todo)
Done == Instead(<<>>)

(* A statement of SQL, or a call of the file system, works or fails.  What *)
(* was saved may be lost with any fault.                                   *)
Works == UNCHANGED <<faults, saved>>
Fault == faults < MaxFaults /\ faults' = faults + 1 /\ saved' = {}
SqlWorks == ready /\ Works
SqlFails == IF ready THEN Fault ELSE Works

-----------------------------------------------------------------------------
(* The process and its index.                                              *)

(* An index that cannot be opened keeps the helper from starting.          *)
Fresh == alive' = TRUE /\ ready' = TRUE /\ UNCHANGED <<files, memory, disabled, requests, shown>>

(* recover_locked: everything in the index is gone.  What a scan has not    *)
(* come to yet will be compared with the new one.                          *)
EmptyIndex ==
  /\ rows' = {} /\ aliases' = [edge \in Edges |-> NoKey]
  /\ leaked' = Stored \ Listed
  /\ UNCHANGED <<verified, unkept, lapsed>>

(* The helper starts with a prune of the cache. *)
Start ==
  /\ ~alive /\ Works
  /\ Fresh /\ todo' = Pruning(FALSE, MaxEntries)
  /\ UNCHANGED <<rows, aliases, verified, unkept, lapsed, leaked>>

(* An index that is found corrupt when it is opened is made anew, and the  *)
(* artifacts are compared with it.                                         *)
StartAnew ==
  /\ ~alive /\ Fault
  /\ Fresh /\ todo' = Pruning(TRUE, MaxEntries)
  /\ EmptyIndex

Statements == {"look", "find", "reindex", "index", "bind", "delete", "drop row", "drop alias",
               "scan", "evict", "evicted"}
InStatement == alive /\ ready /\ todo # <<>> /\ Head(todo).do \in Statements

(* It is found corrupt by a statement, which then runs on the new one.     *)
Recover ==
  /\ InStatement /\ Fault
  /\ EmptyIndex
  /\ UNCHANGED <<files, ready, process, todo, shown>>

(* It cannot be made anew, and is or is not gone: no statement works until *)
(* the helper is replaced.                                                 *)
LoseIndex ==
  /\ InStatement /\ Fault
  /\ ready' = FALSE
  /\ EmptyIndex \/ UNCHANGED <<rows, aliases, verified, unkept, lapsed, leaked>>
  /\ UNCHANGED <<files, process, todo, shown>>

(* An artifact is damaged. *)
Decay ==
  /\ Fault
  /\ \E key \in {k \in Keys : store[k] = "good"} : store' = [store EXCEPT ![key] = "bad"]
  /\ UNCHANGED <<fences, index, process, todo, shown, verified, unkept, lapsed, leaked>>

(* What was committed and is not in the index yet. *)
Unindexed == {todo[i].key : i \in {j \in DOMAIN todo : todo[j].do \in {"index", "uncommit"}}}

(* The helper is killed, by the client whenever it likes, or stops. *)
Killed ==
  /\ alive /\ alive' = FALSE
  /\ todo' = <<>> /\ memory' = {} /\ disabled' = FALSE /\ ready' = FALSE /\ shown' = NoKey
  /\ leaked' = leaked \cup (((Unindexed \cup Listed) \cap Stored) \ rows)
  /\ lapsed' = lapsed \cup unkept /\ unkept' = {}
  /\ UNCHANGED <<files, rows, aliases, requests, faults, verified, saved>>

-----------------------------------------------------------------------------
(* fetch: what the resolver of the source says.                            *)

Fetch(steps) ==
  /\ alive /\ todo = <<>> /\ requests < MaxRequests
  /\ requests' = requests + 1 /\ todo' = steps /\ shown' = NoKey
  /\ UNCHANGED <<files, index, alive, memory, disabled, faults, history>>

Looks(edges) == [i \in DOMAIN edges |-> AliasStep("look", edges[i])]
Larger(edge) == [i \in 1..(LargestEdge - edge) |-> edge + i]
Smaller(edge) == [i \in 1..(edge - 1) |-> edge - i]

(* It is out of reach: materialize_offline. *)
Offline == \E edge \in Edges : Fetch(Looks(<<edge>> \o Larger(edge) \o Smaller(edge)))

(* It has changed, is gone, or must not be read: revokes_offline_locator.  *)
Gone == Fetch(Revocation)

(* It was found.  With extended limits the smaller sizes are made as well. *)
Found ==
  \E version \in Versions, edge \in Edges, extended \in BOOLEAN :
    \E key \in {Key(version, edge)} :
      Fetch(<<Step("find", key)>> \o (IF extended /\ edge > 1 THEN <<Step("tiers", key)>> ELSE <<>>)
              \o <<Step("deliver", key)>>)

(* The user opens the settings, or clears the cache there.                 *)
Maintain == \E limit \in {0, MaxEntries} : Fetch(Pruning(TRUE, limit))

-----------------------------------------------------------------------------
(* lookup_locator, for one size after another.                             *)

(* The alias is revoked, leads nowhere, or cannot be read. *)
LookPast ==
  /\ Doing("look")
  /\ \E edge \in {Head(todo).key.edge} :
       \/ (disabled \/ edge \in fences) /\ Works
       \/ ~disabled /\ edge \notin fences /\ (SqlFails \/ (SqlWorks /\ aliases[edge] = NoKey))
  /\ Done
  /\ UNCHANGED <<files, index, process, shown, verified, unkept, lapsed, leaked>>

(* It leads to "key". *)
Led(key) ==
  /\ Doing("look") /\ ~disabled /\ Head(todo).key.edge \notin fences /\ ready
  /\ key = aliases[Head(todo).key.edge] /\ key # NoKey

(* There is no row for the artifact, or it cannot be read. *)
LookUnindexed ==
  /\ \E key \in Keys : Led(key) /\ (SqlFails \/ (SqlWorks /\ key \notin rows))
  /\ Instead(<<AliasStep("drop alias", Head(todo).key.edge)>>)
  /\ UNCHANGED <<files, index, process, shown, verified, unkept, lapsed, leaked>>

LookShows ==
  /\ \E key \in rows :
       /\ Led(key) /\ Works
       /\ key \in memory \/ store[key] = "good"
       /\ memory' = memory \cup {key} /\ shown' = key
  /\ todo' = <<>>
  /\ UNCHANGED <<files, index, alive, disabled, requests, verified, unkept, lapsed, leaked>>

(* The artifact is missing, or is removed because it is damaged; or it     *)
(* cannot be read, which ends the search.                                  *)
LookMisses ==
  \E key \in rows \ memory : \E steps \in {<<Step("drop row", key),
                                             AliasStep("drop alias", key.edge)>>} :
    /\ Led(key)
    /\ \/ /\ store[key] # "good" /\ Works
          /\ store' = [store EXCEPT ![key] = "none"] /\ leaked' = leaked \ {key}
          /\ Instead(steps)
       \/ /\ store[key] # "none" /\ Fault
          /\ leaked' = leaked \cup {key}
          /\ todo' = steps /\ UNCHANGED store
    /\ UNCHANGED <<fences, index, process, shown, verified, unkept, lapsed>>

-----------------------------------------------------------------------------
(* lookup.                                                                 *)

(* What was used before is in memory, and is bound if there is a row. *)
FindResident ==
  /\ Doing("find")
  /\ \E key \in {Head(todo).key} \cap memory :
       \/ key \in rows /\ SqlWorks /\ Instead(Binding(key)) /\ UNCHANGED <<store, memory, leaked>>
       \/ /\ (key \notin rows /\ SqlWorks) \/ SqlFails
          /\ \/ /\ store[key] = "good"
                /\ Instead(<<Step("reindex", key)>>) /\ UNCHANGED <<store, memory, leaked>>
             \/ /\ store[key] # "good"
                /\ Instead(<<Step("render", key)>>)
                /\ memory' = memory \ {key}
                /\ store' = [store EXCEPT ![key] = "none"] /\ leaked' = leaked \ {key}
  /\ UNCHANGED <<fences, index, alive, disabled, requests, shown, verified, unkept, lapsed>>

FindStored ==
  /\ Doing("find")
  /\ \E key \in {Head(todo).key} \ memory :
       /\ store[key] = "good"
       /\ \/ /\ key \in rows /\ SqlWorks
             /\ memory' = memory \cup {key} /\ Instead(Binding(key))
          \/ /\ (key \notin rows /\ SqlWorks) \/ SqlFails
             /\ Instead(<<Step("reindex", key)>>) /\ UNCHANGED memory
  /\ UNCHANGED <<files, index, alive, disabled, requests, shown, verified, unkept, lapsed, leaked>>

(* It is missing, or is removed because it is damaged. *)
FindMissing ==
  /\ Doing("find")
  /\ \E key \in {Head(todo).key} \ memory :
       /\ store[key] # "good"
       /\ \/ key \in rows /\ SqlWorks /\ Instead(<<Step("drop row", key), Step("render", key)>>)
          \/ ((key \notin rows /\ SqlWorks) \/ SqlFails) /\ Instead(<<Step("render", key)>>)
       /\ store' = [store EXCEPT ![key] = "none"] /\ leaked' = leaked \ {key}
  /\ UNCHANGED <<fences, index, process, shown, verified, unkept, lapsed>>

(* It cannot be read, or not removed. *)
FindUnreadable ==
  /\ Doing("find") /\ Fault
  /\ \E key \in {Head(todo).key} :
       /\ store[key] # "none" /\ (key \in memory => key \notin rows)
       /\ memory' = memory \ {key} /\ Instead(<<Step("render", key)>>)
  /\ UNCHANGED <<files, index, alive, disabled, requests, shown, verified, unkept, lapsed, leaked>>

(* The row of an artifact that was found without one. *)
Reindex ==
  /\ Doing("reindex")
  /\ \E key \in {Head(todo).key} :
       \/ /\ SqlWorks
          /\ rows' = rows \cup {key} /\ memory' = memory \cup {key} /\ leaked' = leaked \ {key}
          /\ Instead(Binding(key))
       \/ SqlFails /\ todo' = AfterRevocation /\ UNCHANGED <<rows, memory, leaked>>
  /\ UNCHANGED <<files, aliases, ready, alive, disabled, requests, shown, verified, unkept, lapsed>>

-----------------------------------------------------------------------------
(* render_and_publish and bind_locator.                                    *)

(* The renderer delivers, and now and then the cache is pruned afterwards;  *)
(* it finds that the source has changed after all; or it fails.            *)
Render ==
  /\ Doing("render") /\ Works
  /\ \E key \in {Head(todo).key} :
       \/ \E prune \in {<<>>, Pruning(FALSE, MaxEntries)} : todo' = Publication(key) \o Tail(todo) \o prune
       \/ todo' \in {Revocation, <<>>}
  /\ UNCHANGED <<files, index, process, shown, verified, unkept, lapsed, leaked>>

(* begin_write, write and commit: the artifact is moved into place. *)
Commit ==
  /\ Doing("commit")
  /\ \E key \in {Head(todo).key} :
       \/ Works /\ store' = [store EXCEPT ![key] = "good"] /\ Done
       \/ Fault /\ UNCHANGED store /\ todo' = AfterRevocation
  /\ UNCHANGED <<fences, index, process, shown, verified, unkept, lapsed, leaked>>

Index ==
  /\ Doing("index")
  /\ \E key \in {Head(todo).key} :
       \/ /\ SqlWorks
          /\ rows' = rows \cup {key} /\ memory' = memory \cup {key} /\ leaked' = leaked \ {key}
          /\ Done
       \/ SqlFails /\ Instead(<<Step("uncommit", key)>>) /\ UNCHANGED <<rows, memory, leaked>>
  /\ UNCHANGED <<files, aliases, ready, alive, disabled, requests, shown, verified, unkept, lapsed>>

\* MUTANT of Uncommit: the artifact stays.
KeepUnindexed ==
  /\ Doing("uncommit") /\ Works /\ todo' = AfterRevocation
  /\ UNCHANGED <<files, index, process, shown, verified, unkept, lapsed, leaked>>

(* An artifact that got no row is removed again. *)
Uncommit ==
  /\ Doing("uncommit")
  /\ \E key \in {Head(todo).key} :
       \/ Works /\ store' = [store EXCEPT ![key] = "none"] /\ leaked' = leaked \ {key}
       \/ Fault /\ leaked' = leaked \cup {key} /\ UNCHANGED store
  /\ todo' = AfterRevocation
  /\ UNCHANGED <<fences, index, process, shown, verified, unkept, lapsed>>

(* The alias is written if its artifact has a row ... *)
Bind ==
  /\ Doing("bind")
  /\ \E key \in {Head(todo).key} :
       \/ /\ ready /\ key \in rows /\ UNCHANGED faults
          /\ saved' = {edge \in saved : edge # key.edge \/ store[key] = "good"}
          /\ aliases' = [aliases EXCEPT ![key.edge] = key]
          /\ verified' = [verified EXCEPT ![key.edge] = @ \cup {key.version}]
          /\ Done
       \/ /\ SqlFails \/ (SqlWorks /\ key \notin rows)
          /\ todo' = AfterRevocation /\ UNCHANGED <<aliases, verified>>
  /\ UNCHANGED <<files, rows, ready, process, shown, unkept, lapsed, leaked>>

(* ... and only then is its fence removed. *)
Unfence ==
  /\ Doing("unfence")
  /\ \E key \in {Head(todo).key}, edge \in {Head(todo).key.edge} :
       \/ /\ UNCHANGED faults
          /\ fences' = fences \ {edge}
          /\ saved' = (IF store[key] = "good" THEN saved \cup {edge} ELSE saved)
          /\ verified' = [verified EXCEPT ![edge] = {key.version}]
          /\ unkept' = unkept \ {edge} /\ lapsed' = lapsed \ {edge}
          /\ Done
       \/ /\ Fault
          /\ fences' \in {fences, fences \ {edge}}
          /\ todo' = AfterRevocation /\ UNCHANGED <<verified, unkept, lapsed>>
  /\ UNCHANGED <<store, index, process, shown, leaked>>

(* The smaller sizes, which cannot always be computed. *)
Tiers ==
  /\ Doing("tiers")
  /\ \E key \in {Head(todo).key} :
       \/ /\ Works
          /\ Instead(FlattenSeq([edge \in 1..(key.edge - 1) |-> Publication(Key(key.version, edge))]))
       \/ Fault /\ todo' = AfterRevocation
  /\ UNCHANGED <<files, index, process, shown, verified, unkept, lapsed, leaked>>

(* The request is answered: this is what the source looks like now. *)
Deliver ==
  /\ Doing("deliver") /\ Works
  /\ \E key \in {Head(todo).key} :
       verified' = [verified EXCEPT ![key.edge] = @ \cap {key.version}]
  /\ Done
  /\ UNCHANGED <<files, index, process, shown, unkept, lapsed, leaked>>

-----------------------------------------------------------------------------
(* erase_locator: a fence, the row of the alias, and the fence again.      *)

Revoked(edge) == verified' = [verified EXCEPT ![edge] = {}]

Fence ==
  /\ Doing("fence")
  /\ \E edge \in {Head(todo).key.edge}, fenced \in BOOLEAN :
       /\ IF fenced THEN UNCHANGED faults /\ saved' = saved \ {edge} ELSE Fault
       /\ fences' \in {fences \cup {edge}} \cup (IF fenced THEN {} ELSE {fences})
       /\ Instead(<<[do |-> "delete", key |-> Head(todo).key, fenced |-> fenced]>>)
  /\ UNCHANGED <<store, index, process, shown, verified, unkept, lapsed, leaked>>

Delete ==
  /\ Doing("delete")
  /\ \E edge \in {Head(todo).key.edge}, fenced \in {Head(todo).fenced} :
       \/ /\ SqlWorks
          /\ aliases' = [aliases EXCEPT ![edge] = NoKey]
          /\ unkept' = unkept \ {edge} /\ lapsed' = lapsed \ {edge}
          /\ Instead(<<AliasStep("release", edge)>>) /\ UNCHANGED <<disabled, verified>>
       \/ /\ SqlFails
          /\ disabled' = (disabled \/ ~fenced)
          /\ unkept' = unkept \cup ({edge} \ fences)
          /\ Revoked(edge)
          /\ Done /\ UNCHANGED <<aliases, lapsed>>
  /\ UNCHANGED <<files, rows, ready, alive, memory, requests, shown, leaked>>

Release ==
  /\ Doing("release")
  /\ \E edge \in {Head(todo).key.edge} :
       /\ \/ Works /\ fences' = fences \ {edge}
          \/ Fault /\ UNCHANGED fences
       /\ Revoked(edge)
  /\ Done
  /\ UNCHANGED <<store, index, process, shown, unkept, lapsed, leaked>>

(* erase: the row of an artifact, and every alias that leads to it. *)
WithoutRow(key) ==
  /\ rows' = rows \ {key}
  /\ aliases' = [edge \in Edges |-> IF aliases[edge] = key THEN NoKey ELSE aliases[edge]]

DropRow ==
  /\ Doing("drop row")
  /\ \/ SqlWorks /\ WithoutRow(Head(todo).key)
     \/ SqlFails /\ UNCHANGED <<rows, aliases>>
  /\ Done
  /\ UNCHANGED <<files, ready, process, shown, verified, unkept, lapsed, leaked>>

DropAlias ==
  /\ Doing("drop alias")
  /\ \/ SqlWorks /\ aliases' = [aliases EXCEPT ![Head(todo).key.edge] = NoKey]
     \/ SqlFails /\ UNCHANGED aliases
  /\ Done
  /\ UNCHANGED <<files, rows, ready, process, shown, verified, unkept, lapsed, leaked>>

-----------------------------------------------------------------------------
(* prune_disk_cache.                                                       *)

(* It ends, in success or not; memory is emptied if anything was removed. *)
Pruned ==
  /\ memory' = (IF Head(todo).removed THEN {} ELSE memory)
  /\ Done

(* scan_digest_artifacts: what is stored is listed, once.  Other entries of *)
(* the tree are inspected as well; the limit may be reached before its end *)
(* and what has not been seen by then is left out.                         *)
List ==
  /\ Doing("list")
  /\ \/ \E listed \in SUBSET Stored :
          /\ Cardinality(listed) <= MaxListed /\ ready /\ Works
          /\ Instead(<<[do |-> "scan", limit |-> Head(todo).limit, removed |-> FALSE,
                        listed |-> listed]>>)
          /\ leaked' = leaked \ listed
     \/ SqlFails /\ Done /\ UNCHANGED leaked
  /\ UNCHANGED <<files, index, process, shown, verified, unkept, lapsed>>

(* Each that was listed is looked up once, in the index as it is then, and *)
(* removed if it has no row.  The first failure ends the scan.             *)
Scan ==
  /\ Doing("scan")
  /\ \/ \E key \in Head(todo).listed :
          /\ SqlWorks
          /\ Instead(<<[Head(todo) EXCEPT !.listed = @ \ {key},
                                         !.removed = @ \/ key \notin rows]>>)
          /\ store' = [store EXCEPT ![key] = IF key \in rows THEN @ ELSE "none"]
          /\ leaked' = leaked \ {key} /\ UNCHANGED memory
     \/ /\ Head(todo).listed = {} /\ Works
        /\ Instead(<<[do |-> "evict", limit |-> Head(todo).limit, removed |-> Head(todo).removed]>>)
        /\ UNCHANGED <<store, memory, leaked>>
     \/ /\ SqlFails /\ Pruned
        /\ leaked' = leaked \cup (Listed \ rows) /\ UNCHANGED store
  /\ UNCHANGED <<fences, index, alive, disabled, requests, shown, verified, unkept, lapsed>>

(* Above the limit the artifact that was not used for longest is removed ... *)
Evict ==
  /\ Doing("evict")
  /\ \/ \E key \in rows :
          /\ Cardinality(rows) > Head(todo).limit /\ ready /\ UNCHANGED faults
          /\ store' = [store EXCEPT ![key] = "none"]
          /\ saved' = {edge \in saved : aliases[edge] # key}
          /\ Instead(<<[Head(todo) EXCEPT !.do = "evicted"] @@ [key |-> key]>>) /\ UNCHANGED memory
     \/ /\ (Cardinality(rows) <= Head(todo).limit /\ SqlWorks) \/ SqlFails
        /\ Pruned /\ UNCHANGED store
  /\ UNCHANGED <<fences, index, alive, disabled, requests, shown, verified, unkept, lapsed, leaked>>

(* ... and then its row. *)
Evicted ==
  /\ Doing("evicted")
  /\ \E key \in {Head(todo).key} :
       \/ /\ key \in rows /\ SqlWorks
          /\ WithoutRow(key)
          /\ Instead(<<[do |-> "evict", limit |-> Head(todo).limit, removed |-> TRUE]>>)
          /\ UNCHANGED memory
       \/ ((key \notin rows /\ SqlWorks) \/ SqlFails) /\ Pruned /\ UNCHANGED <<rows, aliases>>
  /\ UNCHANGED <<files, ready, alive, disabled, requests, shown, verified, unkept, lapsed, leaked>>

-----------------------------------------------------------------------------
Next ==
  \/ Start \/ StartAnew \/ Recover \/ LoseIndex \/ Decay \/ Killed
  \/ Offline \/ Gone \/ Found \/ Maintain
  \/ LookPast \/ LookUnindexed \/ LookShows \/ LookMisses
  \/ FindResident \/ FindStored \/ FindMissing \/ FindUnreadable \/ Reindex
  \/ Render \/ Commit \/ Index \/ Uncommit \/ Bind \/ Unfence \/ Tiers \/ Deliver
  \/ Fence \/ Delete \/ Release \/ DropRow \/ DropAlias
  \/ List \/ Scan \/ Evict \/ Evicted

Spec == Init /\ [][Next]_vars

-----------------------------------------------------------------------------
(* Properties.                                                             *)

TypeOK ==
  /\ store \in [Keys -> {"none", "good", "bad"}] /\ rows \subseteq Keys
  /\ aliases \in [Edges -> Keys \cup {NoKey}] /\ fences \subseteq Edges
  /\ {alive, ready, disabled} \subseteq BOOLEAN /\ memory \subseteq Keys
  /\ shown \in Keys \cup {NoKey} /\ requests \in 0..MaxRequests /\ faults \in 0..MaxFaults
  /\ verified \in [Edges -> SUBSET Versions] /\ unkept \cup lapsed \cup saved \subseteq Edges
  /\ leaked \subseteq Keys

(* While the source is out of reach, what is shown is what the source was  *)
(* last found to look like at that size, and never what a revocation has   *)
(* withdrawn: not if the DELETE failed, not if the helper was killed on    *)
(* the way, not after it is replaced.  The exception: neither the fence    *)
(* nor the DELETE worked, and the helper that knew of it is gone.          *)
ShownIsVerified ==
  /\ TypeOK
  /\ shown # NoKey => shown.version \in verified[shown.edge] \/ shown.edge \in lapsed

(* An alias that was bound to a sound artifact still leads to it, whenever *)
(* the helper is killed and whatever else is rendered and removed, until a *)
(* request revokes it, the cache gets too large or a fault occurs.         *)
SavedIsAvailable ==
  \A edge \in saved :
    /\ aliases[edge] \in rows /\ store[aliases[edge]] = "good"
    /\ edge \notin fences

(* Every artifact is in the index, which the limits of the cache are       *)
(* computed from.  The exceptions: it is being published; a fault or a     *)
(* death has left it behind, and no scan has listed it since; or the scan  *)
(* that has listed it has not come to it yet.  What a scan has passed      *)
(* before the index was found corrupt is left behind by that.              *)
StoreIsCounted == Stored \ rows \subseteq leaked \cup Unindexed \cup Listed
===============================================================================
