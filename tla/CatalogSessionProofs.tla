------------------------- MODULE CatalogSessionProofs -------------------------
(***************************************************************************)
(* What module CatalogSession promises the viewer, for every number of     *)
(* requests, retries and workers, every size of a folder and every length  *)
(* of the queue: the view is one listing from its beginning without a gap, *)
(* and a listing that fails takes nothing from it.                         *)
(*                                                                         *)
(* The batches of a listing pass through three places: the view or the     *)
(* staged entries, the queue with the slot for a timeout, and the hands of *)
(* the worker.  The invariant counts them through: what has arrived, what  *)
(* is on its way and what the worker holds are the chunks 1, 2, 3, ... of  *)
(* the request that is wanted, and nothing comes after the last batch.     *)
(***************************************************************************)
EXTENDS CatalogSession, SequenceTheorems, TLAPS

-----------------------------------------------------------------------------
(* The inductive invariant.                                                *)

Counts(b) == IF b.chunk = 0 THEN 0 ELSE 1

(* b may be sent for request g when n chunks of folder f have been sent.   *)
Follows(b, n, g, f) ==
  /\ b \in Batch /\ b.of = g
  /\ b.chunk \in {0, n + 1} /\ n + Counts(b) <= f.size
  /\ ~b.final => b.chunk = n + 1 /\ b.error = "none" /\ ~b.truncated
  /\ b.truncated => f.recursive \/ (b.error = "none" /\ n + Counts(b) > 0)
  /\ b.final /\ b.error = "none" /\ ~b.truncated => n + Counts(b) = f.size

(* The batches of q come after n chunks, the last batch at the end. *)
InOrder(q, n, g, f) ==
  /\ \A k \in DOMAIN q : Follows(q[k], n + k - 1, g, f)
  /\ \A k \in DOMAIN q : q[k].final => k = Len(q)

(* A worker that has sent n chunks, and what it holds. *)
GoesOn(w, n, g, f) ==
  /\ n <= f.size
  /\ w.stage = "reading" => w.pending = <<>> /\ w.sent = n
  /\ w.stage = "waiting" =>
       \E b \in Batch : w.pending = <<b>> /\ Follows(b, n, g, f) /\ w.sent = n + Counts(b)

(* What has arrived of the request under way. *)
Arrived == IF staging THEN staged ELSE view.shown

Got == Len(Arrived)

(* The worker of the request goes on after what is on its way, in which    *)
(* there is no last batch.                                                 *)
WorkerFollows ==
  Current(active) =>
    /\ terminal = <<>> /\ \A k \in DOMAIN Incoming : ~Incoming[k].final
    /\ GoesOn(worker[active], Got + Len(Incoming), active, folder)

(* The view shows what has arrived, unless it is staged. *)
ViewFollows ==
  /\ Arrived = Shown(active, Got) /\ Got <= folder.size
  /\ staging => (recursive => staged = <<>>)
  /\ ~staging => view.loading /\ staged = <<>>

Loading ==
  /\ active = requests /\ active # 0
  /\ ViewFollows /\ InOrder(Incoming, Got, active, folder) /\ WorkerFollows
  /\ ~truncated /\ requests + MaxRetries <= MaxRequests + retries

AtRest ==
  /\ queue = <<>> /\ terminal = <<>>
  /\ active # 0 => ~Current(active)
  /\ state = "waiting_retry" =>
       ~truncated /\ ~recursive /\ requests + MaxRetries + 1 <= MaxRequests + retries
  /\ state = "ready" => active # 0 /\ (~truncated => view.shown = Shown(active, folder.size))

Typed ==
  /\ TypeOK
  /\ view \in [shown : Listing, loading : BOOLEAN, refused : BOOLEAN] /\ ~view.refused
  /\ queue \in Seq(Batch) /\ terminal \in Seq(Batch)

IInv ==
  /\ Typed
  /\ wanted = active /\ active <= requests /\ folder.recursive = recursive
  /\ \A g \in Requests : g > requests => worker[g] = NoWorker
  /\ state = "loading" => Loading
  /\ state # "loading" => AtRest

-----------------------------------------------------------------------------
(* Listings and batches.                                                   *)

LEMMA Bounds ==
  /\ MaxRequests \in Nat \ {0} /\ MaxSize \in Nat
  /\ QueueCapacity \in Nat \ {0} /\ MaxCommands \in Nat /\ MaxRetries \in Nat
  /\ Requests = 1..MaxRequests
BY ServiceAssumption, SessionAssumption DEF Requests

(* An entry of the view. *)
Entry == [of : Requests, chunk : Nat]

LEMMA ShownIs ==
  ASSUME NEW g \in Requests, NEW n \in Nat
  PROVE  /\ Shown(g, n) \in Seq(Entry) /\ Len(Shown(g, n)) = n
         /\ \A k \in 1..n : Shown(g, n)[k] = [of |-> g, chunk |-> k]
<1>1. Shown(g, n) \in [1..n -> Entry]
  BY DEF Shown, Entry
<1>2. Shown(g, n) \in Seq(Entry)
  BY <1>1, SeqDef
<1>. QED
  BY <1>1, <1>2, LenProperties DEF Shown

LEMMA NothingShown == \A g : Shown(g, 0) = <<>>
<1>. SUFFICES ASSUME NEW g PROVE Shown(g, 0) = <<>>
  OBVIOUS
<1>1. 1..0 = {}
  OBVIOUS
<1>2. Shown(g, 0) = [k \in {} |-> [of |-> g, chunk |-> k]]
  BY <1>1 DEF Shown
<1>. QED
  BY <1>2

LEMMA ShownIsListing ==
  ASSUME NEW g \in Requests, NEW n \in 0..MaxSize
  PROVE  Shown(g, n) \in Listing
BY DEF Listing

(* Nothing is a listing as well, if there is a request at all. *)
LEMMA ListingIs ==
  ASSUME NEW s \in Listing
  PROVE  s \in Seq(Entry) /\ Len(s) \in 0..MaxSize
<1>1. PICK g \in Requests, n \in 0..MaxSize : s = Shown(g, n)
  BY DEF Listing
<1>. QED
  BY <1>1, ShownIs, Bounds

(* One more chunk. *)
LEMMA ShownGrows ==
  ASSUME NEW g \in Requests, NEW n \in Nat, NEW f, NEW b, Follows(b, n, g, f)
  PROVE  Shown(g, n) \o Entries(b) = Shown(g, n + Counts(b))
<1>. DEFINE e == [of |-> b.of, chunk |-> b.chunk]
<1>1. Shown(g, n) \in Seq(Entry) /\ Len(Shown(g, n)) = n
  BY ShownIs
<1>2. CASE b.chunk = 0
  <2>1. Entries(b) = <<>> /\ n + Counts(b) = n
    BY <1>2 DEF Entries, Counts
  <2>. QED
    BY <1>1, <2>1, ConcatEmptySeq
<1>3. CASE b.chunk # 0
  <2>1. b.of = g /\ b.chunk = n + 1 /\ Counts(b) = 1
    BY <1>3 DEF Follows, Counts
  <2>2. Entries(b) = <<e>> /\ e = [of |-> g, chunk |-> n + 1]
    BY <1>3, <2>1 DEF Entries
  <2>3. <<e>> \in Seq(Entry) /\ Len(<<e>>) = 1
    BY <2>2 DEF Entry
  <2>4. /\ Shown(g, n + 1) \in Seq(Entry) /\ Len(Shown(g, n + 1)) = n + 1
        /\ \A k \in 1..(n + 1) : Shown(g, n + 1)[k] = [of |-> g, chunk |-> k]
    BY ShownIs
  <2>. DEFINE s == Shown(g, n) \o <<e>>
  <2>5. s \in Seq(Entry) /\ Len(s) = n + 1
    BY <1>1, <2>3, ConcatProperties
  <2>6. \A k \in 1..(n + 1) : s[k] = [of |-> g, chunk |-> k]
    <3>. SUFFICES ASSUME NEW k \in 1..(n + 1) PROVE s[k] = [of |-> g, chunk |-> k]
      OBVIOUS
    <3>1. s[k] = IF k <= n THEN Shown(g, n)[k] ELSE <<e>>[k - n]
      BY <1>1, <2>3, ConcatProperties
    <3>2. CASE k <= n
      BY <3>1, <3>2, ShownIs
    <3>3. CASE ~(k <= n)
      <4>1. k - n = 1 /\ k = n + 1 /\ <<e>>[1] = e
        BY <3>3
      <4>. QED
        BY <3>1, <3>3, <4>1, <2>2
    <3>. QED
      BY <3>2, <3>3
  <2>. HIDE DEF s
  <2>7. s = Shown(g, n + 1)
    BY <2>4, <2>5, <2>6, SeqEqual
  <2>. QED
    BY <2>1, <2>2, <2>7 DEF s
<1>. QED
  BY <1>2, <1>3

LEMMA BatchesAre ==
  \A b \in Batch : /\ b.of \in Requests /\ b.chunk \in 0..MaxSize /\ b.final \in BOOLEAN
                   /\ b.error \in {"none", "transient", "permanent"}
                   /\ b.truncated \in BOOLEAN /\ b.rootFailed \in BOOLEAN
BY DEF Batch

LEMMA ChunksAre ==
  ASSUME NEW g \in Requests, NEW n \in 0..MaxSize
  PROVE  /\ Chunk(g, n) \in Batch
         /\ Chunk(g, n).of = g /\ Chunk(g, n).chunk = n /\ ~Chunk(g, n).final
         /\ Chunk(g, n).error = "none" /\ ~Chunk(g, n).truncated
BY DEF Batch, Chunk

LEMMA EndsAre ==
  ASSUME NEW g \in Requests, NEW n \in 0..MaxSize, NEW cut \in BOOLEAN, NEW root \in BOOLEAN,
         NEW kind \in {"none", "transient", "permanent"}
  PROVE  /\ Ends(g, n, kind, cut, root) \in Batch
         /\ Ends(g, n, kind, cut, root).of = g /\ Ends(g, n, kind, cut, root).chunk = n
         /\ Ends(g, n, kind, cut, root).final /\ Ends(g, n, kind, cut, root).error = kind
         /\ Ends(g, n, kind, cut, root).truncated = cut
<1>. DEFINE a == Chunk(g, n)
            c == [a EXCEPT !.final = TRUE]
            d == [c EXCEPT !.error = kind]
            e == [d EXCEPT !.truncated = cut]
<1>1. a \in Batch /\ a.of = g /\ a.chunk = n
  BY ChunksAre
<1>. HIDE DEF a
<1>2. c \in Batch /\ c.of = g /\ c.chunk = n /\ c.final
  BY <1>1 DEF Batch
<1>. HIDE DEF c
<1>3. d \in Batch /\ d.of = g /\ d.chunk = n /\ d.final /\ d.error = kind
  BY <1>2 DEF Batch
<1>. HIDE DEF d
<1>4. e \in Batch /\ e.of = g /\ e.chunk = n /\ e.final /\ e.error = kind /\ e.truncated = cut
  BY <1>3 DEF Batch
<1>. HIDE DEF e
<1>5. Ends(g, n, kind, cut, root) = [e EXCEPT !.rootFailed = root]
  BY DEF Ends, a, c, d, e
<1>. QED
  BY <1>4, <1>5 DEF Batch

LEMMA WorkersAre ==
  /\ {NoWorker, NewWorker, Done, TimedOut} \subseteq WorkerType
  /\ NoWorker.stage = "none" /\ NewWorker.stage = "reading" /\ NewWorker.pending = <<>>
  /\ NewWorker.sent = 0 /\ Done.stage = "finishing" /\ TimedOut.stage = "timed_out"
BY Bounds DEF NoWorker, NewWorker, Done, TimedOut, WorkerType

-----------------------------------------------------------------------------
(* What is on its way.                                                     *)

LEMMA SingleInOrder ==
  ASSUME NEW n \in Nat, NEW g, NEW f, NEW b, Follows(b, n, g, f)
  PROVE  InOrder(<<b>>, n, g, f)
<1>1. DOMAIN <<b>> = {1} /\ Len(<<b>>) = 1 /\ <<b>>[1] = b /\ n + 1 - 1 = n
  OBVIOUS
<1>. QED
  BY <1>1 DEF InOrder

LEMMA NoneInOrder == \A n, g, f : InOrder(<<>>, n, g, f)
BY DEF InOrder

LEMMA AppendInOrder ==
  ASSUME NEW q \in Seq(Batch), NEW n \in Nat, NEW g, NEW f, NEW b \in Batch,
         InOrder(q, n, g, f), \A k \in DOMAIN q : ~q[k].final, Follows(b, n + Len(q), g, f)
  PROVE  InOrder(q \o <<b>>, n, g, f)
<1>. DEFINE r == q \o <<b>>
<1>1. /\ Len(q) \in Nat /\ DOMAIN q = 1..Len(q) /\ <<b>> \in Seq(Batch)
      /\ Len(<<b>>) = 1 /\ <<b>>[1] = b
  BY LenProperties
<1>2. /\ r \in Seq(Batch) /\ Len(r) = Len(q) + 1
      /\ \A k \in 1..(Len(q) + 1) : r[k] = IF k <= Len(q) THEN q[k] ELSE <<b>>[k - Len(q)]
  BY <1>1, ConcatProperties
<1>. HIDE DEF r
<1>3. DOMAIN r = 1..(Len(q) + 1)
  BY <1>2, LenProperties
<1>4. \A k \in 1..Len(q) : r[k] = q[k]
  BY <1>1, <1>2
<1>5. r[Len(q) + 1] = b
  <2>1. (Len(q) + 1) - Len(q) = 1 /\ Len(q) + 1 \in 1..(Len(q) + 1) /\ ~(Len(q) + 1 <= Len(q))
    BY <1>1
  <2>. QED
    BY <1>1, <1>2, <2>1
<1>6. \A k \in DOMAIN r : k \in DOMAIN q \/ k = Len(q) + 1
  BY <1>1, <1>3
<1>7. \A k \in DOMAIN r : Follows(r[k], n + k - 1, g, f)
  <2>1. n + (Len(q) + 1) - 1 = n + Len(q)
    BY <1>1
  <2>. QED
    BY <1>1, <1>4, <1>5, <1>6, <2>1 DEF InOrder
<1>8. \A k \in DOMAIN r : r[k].final => k = Len(r)
  BY <1>1, <1>2, <1>4, <1>6
<1>. QED
  BY <1>7, <1>8 DEF InOrder, r

LEMMA TailInOrder ==
  ASSUME NEW q \in Seq(Batch), NEW n \in Nat, NEW g, NEW f,
         q # <<>>, InOrder(q, n, g, f)
  PROVE  /\ Follows(q[1], n, g, f)
         /\ q[1].final => Tail(q) = <<>>
         /\ InOrder(Tail(q), n + 1, g, f)
         /\ (\A k \in DOMAIN q : ~q[k].final) => \A k \in DOMAIN Tail(q) : ~Tail(q)[k].final
<1>1. Len(q) \in Nat \ {0} /\ DOMAIN q = 1..Len(q) /\ 1 \in DOMAIN q
  BY EmptySeq, LenProperties
<1>2. /\ Tail(q) \in Seq(Batch) /\ Len(Tail(q)) = Len(q) - 1
      /\ \A k \in 1..Len(Tail(q)) : Tail(q)[k] = q[k + 1]
  BY HeadTailProperties
<1>3. DOMAIN Tail(q) = 1..(Len(q) - 1)
  BY <1>2, LenProperties
<1>4. \A k \in DOMAIN Tail(q) : k + 1 \in DOMAIN q /\ Tail(q)[k] = q[k + 1] /\ k \in Nat
  BY <1>1, <1>2, <1>3
<1>5. Follows(q[1], n, g, f)
  <2>1. n + 1 - 1 = n
    OBVIOUS
  <2>. QED
    BY <1>1, <2>1 DEF InOrder
<1>6. ASSUME q[1].final PROVE Tail(q) = <<>>
  <2>1. Len(q) = 1
    BY <1>1, <1>6 DEF InOrder
  <2>2. Len(Tail(q)) = 0
    BY <1>2, <2>1
  <2>. QED
    BY <1>2, <2>2, EmptySeq
<1>7. \A k \in DOMAIN Tail(q) : Follows(Tail(q)[k], n + 1 + k - 1, g, f)
  <2>. SUFFICES ASSUME NEW k \in DOMAIN Tail(q) PROVE Follows(Tail(q)[k], n + 1 + k - 1, g, f)
    OBVIOUS
  <2>1. n + (k + 1) - 1 = n + 1 + k - 1
    BY <1>4
  <2>2. Follows(q[k + 1], n + (k + 1) - 1, g, f)
    BY <1>4 DEF InOrder
  <2>. QED
    BY <1>4, <2>1, <2>2
<1>8. \A k \in DOMAIN Tail(q) : Tail(q)[k].final => k = Len(Tail(q))
  BY <1>1, <1>2, <1>4 DEF InOrder
<1>. QED
  BY <1>4, <1>5, <1>6, <1>7, <1>8 DEF InOrder

-----------------------------------------------------------------------------
(* The worker and the monitor.                                             *)

LEMMA WayIs ==
  ASSUME Typed
  PROVE  /\ Incoming \in Seq(Batch) /\ Len(Incoming) = Len(queue) + Len(terminal)
         /\ Len(queue) \in Nat /\ Len(terminal) \in Nat
BY ConcatProperties, LenProperties DEF Typed, Incoming

LEMMA TypesAre ==
  ASSUME Typed
  PROVE  /\ wanted \in 0..MaxRequests /\ Len(queue) <= QueueCapacity /\ Len(terminal) <= 1
         /\ folder \in [recursive : BOOLEAN, size : 0..MaxSize]
         /\ worker \in [Requests -> WorkerType]
         /\ queue \in Seq(Batch) /\ terminal \in Seq(Batch)
         /\ active \in 0..MaxRequests /\ requests \in 0..MaxRequests
         /\ recursive \in BOOLEAN /\ staging \in BOOLEAN /\ retries \in 0..MaxRetries
         /\ staged \in Listing /\ view.shown \in Listing
BY DEF Typed, TypeOK, ServiceTypeOK

LEMMA GotIs ==
  ASSUME Typed
  PROVE  Got \in Nat /\ Arrived \in Listing
BY TypesAre, ListingIs, Bounds DEF Got, Arrived

(* Nothing that the worker does concerns a request that is not wanted; of  *)
(* the one that is, the order must be kept.                                *)
LEMMA ServiceKeeps ==
  ASSUME IInv, UNCHANGED sessionVars, UNCHANGED <<wanted, folder>>,
         queue' \in Seq(Batch), terminal' \in Seq(Batch),
         Len(queue') <= QueueCapacity, Len(terminal') <= 1,
         worker' \in [Requests -> WorkerType],
         \A g \in Requests : g > requests => worker'[g] = NoWorker,
         state = "loading" => InOrder(Incoming', Got, active, folder) /\ WorkerFollows',
         state # "loading" =>
           UNCHANGED <<queue, terminal>> /\ (active # 0 => ~Current(active)')
  PROVE  IInv'
<1>1. Typed'
  <2>1. ServiceTypeOK'
    <3>1. \A k \in DOMAIN queue' : queue'[k] \in Batch
      BY ElementOfSeq, LenProperties
    <3>2. \A k \in DOMAIN terminal' : terminal'[k] \in Batch
      BY ElementOfSeq, LenProperties
    <3>. QED
      BY <3>1, <3>2 DEF ServiceTypeOK, IInv, Typed, TypeOK
  <2>. QED
    BY <2>1 DEF IInv, Typed, TypeOK, sessionVars, Listing
<1>2. Got' = Got /\ Arrived' = Arrived
  BY DEF Got, Arrived, sessionVars
<1>3. state = "loading" => Loading'
  BY <1>2 DEF IInv, Loading, ViewFollows, sessionVars, Shown
<1>4. state # "loading" => AtRest'
  BY DEF IInv, AtRest, sessionVars, Shown
<1>. QED
  BY <1>1, <1>3, <1>4 DEF IInv, sessionVars

(* The worker that goes on is the one of the request under way. *)
LEMMA CurrentIs ==
  ASSUME IInv, NEW g \in Requests, Current(g)
  PROVE  /\ g = active /\ active # 0 /\ state = "loading" /\ Loading
         /\ terminal = <<>> /\ Incoming = queue /\ g <= requests
         /\ \A k \in DOMAIN Incoming : ~Incoming[k].final
         /\ GoesOn(worker[g], Got + Len(Incoming), g, folder)
<1>1. g = active /\ active # 0
  BY Bounds DEF Current, IInv
<1>2. state = "loading" /\ Loading
  BY <1>1 DEF IInv, AtRest
<1>3. /\ terminal = <<>> /\ \A k \in DOMAIN Incoming : ~Incoming[k].final
      /\ GoesOn(worker[g], Got + Len(Incoming), g, folder)
  BY <1>1, <1>2 DEF Loading, WorkerFollows
<1>4. Incoming = queue
  BY <1>3, TypesAre, ConcatEmptySeq DEF Incoming, IInv
<1>. QED
  BY <1>1, <1>2, <1>3, <1>4 DEF IInv

(* Whatever the helper may send is what comes next. *)
LEMMA SendableFollows ==
  ASSUME NEW g \in Requests, worker[g].sent \in Nat, worker[g].sent <= folder.size,
         folder \in [recursive : BOOLEAN, size : 0..MaxSize],
         NEW b \in Sendable(g)
  PROVE  /\ Follows(b, worker[g].sent, g, folder)
         /\ (IF b.chunk = 0 THEN worker[g].sent ELSE b.chunk) = worker[g].sent + Counts(b)
<1>. DEFINE sent == worker[g].sent
            next == {0} \union (IF sent < folder.size THEN {sent + 1} ELSE {})
            upTo(n) == IF n = 0 THEN sent ELSE n
<1>1. sent \in Nat /\ sent <= folder.size /\ folder.size \in 0..MaxSize /\ folder.recursive \in BOOLEAN
  OBVIOUS
<1>. HIDE DEF sent
<1>2. \A n \in next : /\ n \in 0..MaxSize /\ n \in {0, sent + 1} /\ n <= folder.size
                      /\ sent + (IF n = 0 THEN 0 ELSE 1) = upTo(n) /\ upTo(n) <= folder.size
  BY <1>1, Bounds
<1>3. \/ \E n \in next \ {0} : b = Chunk(g, n)
      \/ \E n \in next : upTo(n) = folder.size /\ b = Ends(g, n, "none", FALSE, FALSE)
      \/ \E n \in next : (folder.recursive \/ upTo(n) > 0) /\ b = Ends(g, n, "none", TRUE, FALSE)
      \/ \E n \in next, kind \in {"transient", "permanent"}, root \in BOOLEAN :
           b = Ends(g, n, kind, folder.recursive, folder.recursive /\ root)
  <2>. DEFINE A == {Chunk(g, n) : n \in next \ {0}}
              B == {Ends(g, n, "none", FALSE, FALSE) : n \in {m \in next : upTo(m) = folder.size}}
              C == {Ends(g, n, "none", TRUE, FALSE) :
                      n \in {m \in next : folder.recursive \/ upTo(m) > 0}}
              D == {Ends(g, n, kind, folder.recursive, folder.recursive /\ root) :
                      n \in next, kind \in {"transient", "permanent"}, root \in BOOLEAN}
  <2>1. Sendable(g) = A \union B \union C \union D
    BY DEF Sendable, sent, next, upTo, A, B, C, D
  <2>. HIDE DEF next, sent
  <2>2. b \in A => \E n \in next \ {0} : b = Chunk(g, n)
    OBVIOUS
  <2>3. b \in B => \E n \in next : upTo(n) = folder.size /\ b = Ends(g, n, "none", FALSE, FALSE)
    OBVIOUS
  <2>4. b \in C => \E n \in next : (folder.recursive \/ upTo(n) > 0)
                                   /\ b = Ends(g, n, "none", TRUE, FALSE)
    OBVIOUS
  <2>5. b \in D => \E n \in next, kind \in {"transient", "permanent"}, root \in BOOLEAN :
                     b = Ends(g, n, kind, folder.recursive, folder.recursive /\ root)
    OBVIOUS
  <2>. HIDE DEF A, B, C, D
  <2>. QED
    BY <2>1, <2>2, <2>3, <2>4, <2>5
<1>. HIDE DEF next
<1>4. ASSUME NEW n \in next, b.chunk = n
      PROVE  sent + Counts(b) = upTo(n) /\ upTo(n) <= folder.size /\ b.chunk \in {0, sent + 1}
  BY <1>2, <1>4 DEF Counts
<1>5. CASE \E n \in next \ {0} : b = Chunk(g, n)
  <2>1. PICK n \in next \ {0} : b = Chunk(g, n)
    BY <1>5
  <2>2. /\ b \in Batch /\ b.of = g /\ b.chunk = n /\ ~b.final /\ b.error = "none" /\ ~b.truncated
        /\ n # 0
    BY <1>2, <2>1, ChunksAre
  <2>3. /\ sent + Counts(b) = upTo(n) /\ upTo(n) <= folder.size /\ b.chunk \in {0, sent + 1}
    BY <1>4, <2>2
  <2>. QED
    BY <2>2, <2>3 DEF Follows, sent
<1>6. CASE \E n \in next : upTo(n) = folder.size /\ b = Ends(g, n, "none", FALSE, FALSE)
  <2>1. PICK n \in next : upTo(n) = folder.size /\ b = Ends(g, n, "none", FALSE, FALSE)
    BY <1>6
  <2>2. /\ b \in Batch /\ b.of = g /\ b.chunk = n /\ b.final /\ b.error = "none"
        /\ b.truncated = FALSE
    <3>1. PICK no \in BOOLEAN, cut \in BOOLEAN : no = FALSE /\ cut = FALSE
      OBVIOUS
    <3>2. n \in 0..MaxSize /\ "none" \in {"none", "transient", "permanent"}
      BY <1>2
    <3>3. b = Ends(g, n, "none", cut, no)
      BY <2>1, <3>1, Zenon
    <3>4. /\ b \in Batch /\ b.of = g /\ b.chunk = n /\ b.final /\ b.error = "none"
          /\ b.truncated = cut
      BY <3>2, <3>3, EndsAre
    <3>. QED
      BY <3>1, <3>4
  <2>3. /\ sent + Counts(b) = upTo(n) /\ upTo(n) <= folder.size /\ b.chunk \in {0, sent + 1}
    BY <1>4, <2>2
  <2>. QED
    BY <2>1, <2>2, <2>3 DEF Follows, sent
<1>7. CASE \E n \in next :
             (folder.recursive \/ upTo(n) > 0) /\ b = Ends(g, n, "none", TRUE, FALSE)
  <2>1. PICK n \in next : (folder.recursive \/ upTo(n) > 0) /\ b = Ends(g, n, "none", TRUE, FALSE)
    BY <1>7
  <2>2. /\ b \in Batch /\ b.of = g /\ b.chunk = n /\ b.final /\ b.error = "none"
        /\ b.truncated = TRUE
    <3>1. PICK no \in BOOLEAN, cut \in BOOLEAN : no = FALSE /\ cut = TRUE
      OBVIOUS
    <3>2. n \in 0..MaxSize /\ "none" \in {"none", "transient", "permanent"}
      BY <1>2
    <3>3. b = Ends(g, n, "none", cut, no)
      BY <2>1, <3>1, Zenon
    <3>4. /\ b \in Batch /\ b.of = g /\ b.chunk = n /\ b.final /\ b.error = "none"
          /\ b.truncated = cut
      BY <3>2, <3>3, EndsAre
    <3>. QED
      BY <3>1, <3>4
  <2>3. /\ sent + Counts(b) = upTo(n) /\ upTo(n) <= folder.size /\ b.chunk \in {0, sent + 1}
    BY <1>4, <2>2
  <2>. QED
    BY <2>1, <2>2, <2>3 DEF Follows, sent
<1>8. CASE \E n \in next, kind \in {"transient", "permanent"}, root \in BOOLEAN :
             b = Ends(g, n, kind, folder.recursive, folder.recursive /\ root)
  <2>1. PICK n \in next, kind \in {"transient", "permanent"}, root \in BOOLEAN :
               b = Ends(g, n, kind, folder.recursive, folder.recursive /\ root)
    BY <1>8
  <2>2. /\ b \in Batch /\ b.of = g /\ b.chunk = n /\ b.final /\ b.error = kind
        /\ b.truncated = folder.recursive
    <3>1. (folder.recursive /\ root) \in BOOLEAN /\ kind \in {"none", "transient", "permanent"}
      OBVIOUS
    <3>. QED
      BY <1>1, <1>2, <2>1, <3>1, EndsAre
  <2>3. /\ sent + Counts(b) = upTo(n) /\ upTo(n) <= folder.size /\ b.chunk \in {0, sent + 1}
    BY <1>4, <2>2
  <2>. QED
    BY <2>2, <2>3 DEF Follows, sent
<1>. QED
  BY <1>3, <1>5, <1>6, <1>7, <1>8

LEMMA ReadKeeps ==
  ASSUME IInv, NEW g \in Requests, Read(g), UNCHANGED sessionVars
  PROVE  IInv'
<1>1. /\ g = active /\ active # 0 /\ state = "loading" /\ Loading /\ g <= requests
      /\ terminal = <<>>
      /\ \A k \in DOMAIN Incoming : ~Incoming[k].final
      /\ GoesOn(worker[g], Got + Len(Incoming), g, folder)
  BY CurrentIs DEF Read
<1>2. /\ worker[g].sent = Got + Len(Incoming) /\ worker[g].sent \in Nat
      /\ worker[g].sent <= folder.size
  BY <1>1, GotIs, WayIs DEF GoesOn, IInv, Read
<1>3. PICK b \in Sendable(g) :
        worker' = [worker EXCEPT ![g].stage = "waiting", ![g].pending = <<b>>,
                                 ![g].sent = IF b.chunk = 0 THEN @ ELSE b.chunk]
  BY DEF Read
<1>4. folder \in [recursive : BOOLEAN, size : 0..MaxSize] /\ worker \in [Requests -> WorkerType]
  BY TypesAre DEF IInv
<1>5. /\ Follows(b, worker[g].sent, g, folder)
      /\ (IF b.chunk = 0 THEN worker[g].sent ELSE b.chunk) = worker[g].sent + Counts(b)
  BY <1>2, <1>4, SendableFollows
<1>6. b \in Batch /\ worker[g].sent + Counts(b) \in 0..MaxSize
  BY <1>2, <1>4, <1>5, Bounds DEF Follows, Counts
<1>. DEFINE w == [stage |-> "waiting", sent |-> worker[g].sent + Counts(b), pending |-> <<b>>]
<1>7. w \in WorkerType
  BY <1>6 DEF WorkerType
<1>8. worker' = [worker EXCEPT ![g] = w]
  <2>1. worker[g] \in WorkerType
    BY <1>4
  <2>. DEFINE u == [worker[g] EXCEPT !.stage = "waiting"]
              v == [u EXCEPT !.pending = <<b>>]
              n == IF b.chunk = 0 THEN worker[g].sent ELSE b.chunk
  <2>2. /\ u \in WorkerType
        /\ u.stage = "waiting" /\ u.sent = worker[g].sent
    BY <2>1 DEF WorkerType
  <2>. HIDE DEF u
  <2>3. v = [stage |-> "waiting", sent |-> worker[g].sent, pending |-> <<b>>]
    BY <2>2 DEF WorkerType
  <2>. HIDE DEF v
  <2>4. [v EXCEPT !.sent = n] = w
    BY <1>5, <2>3
  <2>5. [worker[g] EXCEPT !.stage = "waiting", !.pending = <<b>>,
                          !.sent = IF b.chunk = 0 THEN worker[g].sent ELSE b.chunk] = w
    BY <2>4 DEF u, v
  <2>. QED
    BY <1>3, <1>4, <2>5
<1>. HIDE DEF w
<1>9. /\ worker' \in [Requests -> WorkerType] /\ worker'[g] = w
      /\ \A h \in Requests : h # g => worker'[h] = worker[h]
  BY <1>4, <1>7, <1>8
<1>10. GoesOn(w, Got + Len(Incoming), g, folder)
  BY <1>1, <1>2, <1>5, <1>6 DEF w, GoesOn
<1>11. Incoming' = Incoming /\ Got' = Got
  BY DEF Read, Incoming, Got, Arrived, sessionVars
<1>12. WorkerFollows'
  BY <1>1, <1>9, <1>10, <1>11 DEF WorkerFollows, Read, sessionVars
<1>13. \A h \in Requests : h > requests => worker'[h] = NoWorker
  BY <1>1, <1>9, Bounds, TypesAre DEF IInv
<1>. QED
  BY <1>1, <1>9, <1>11, <1>12, <1>13, ServiceKeeps, TypesAre DEF IInv, Loading, Read

LEMMA DeliverKeeps ==
  ASSUME IInv, NEW g \in Requests, Deliver(g), UNCHANGED sessionVars
  PROVE  IInv'
<1>1. /\ g = active /\ active # 0 /\ state = "loading" /\ Loading /\ g <= requests
      /\ terminal = <<>> /\ Incoming = queue
      /\ \A k \in DOMAIN Incoming : ~Incoming[k].final
      /\ GoesOn(worker[g], Got + Len(Incoming), g, folder)
  BY CurrentIs DEF Deliver
<1>2. PICK b \in Batch : /\ worker[g].pending = <<b>> /\ Follows(b, Got + Len(queue), g, folder)
                         /\ worker[g].sent = Got + Len(queue) + Counts(b)
  BY <1>1 DEF Deliver, GoesOn
<1>3. /\ queue \in Seq(Batch) /\ Len(queue) \in Nat /\ Got \in Nat
      /\ worker \in [Requests -> WorkerType] /\ worker[g] \in WorkerType
  BY GotIs, WayIs, TypesAre DEF IInv
<1>4. /\ <<b>> \in Seq(Batch) /\ Len(<<b>>) = 1 /\ <<b>>[1] = b
  BY <1>2
<1>5. /\ queue' = queue \o <<b>> /\ queue' \in Seq(Batch) /\ Len(queue') = Len(queue) + 1
      /\ Len(queue') <= QueueCapacity
  BY <1>2, <1>3, <1>4, ConcatProperties, Bounds DEF Deliver
<1>6. Incoming' = queue' /\ Got' = Got
  BY <1>1, <1>5, ConcatEmptySeq DEF Deliver, Incoming, Got, Arrived, sessionVars
<1>7. InOrder(Incoming', Got, active, folder)
  BY <1>1, <1>2, <1>3, <1>5, <1>6, AppendInOrder DEF Loading
<1>. DEFINE w == IF b.final THEN Done ELSE [worker[g] EXCEPT !.stage = "reading", !.pending = <<>>]
<1>8. worker' = [worker EXCEPT ![g] = w]
  BY <1>2, <1>3, <1>4 DEF Deliver, Delivered
<1>9. /\ w \in WorkerType /\ w.stage # "waiting"
      /\ w.stage = "reading" => ~b.final /\ w.pending = <<>> /\ w.sent = worker[g].sent
  BY <1>3, WorkersAre DEF WorkerType
<1>. HIDE DEF w
<1>10. /\ worker' \in [Requests -> WorkerType] /\ worker'[g] = w
       /\ \A h \in Requests : h # g => worker'[h] = worker[h]
  BY <1>3, <1>8, <1>9
<1>11. ASSUME ~b.final
       PROVE  /\ \A k \in DOMAIN Incoming' : ~Incoming'[k].final
              /\ Got + Len(queue) + Counts(b) = Got + Len(queue')
              /\ Got + Len(queue') <= folder.size
  <2>1. DOMAIN queue' = 1..(Len(queue) + 1) /\ DOMAIN queue = 1..Len(queue)
    BY <1>3, <1>5, LenProperties
  <2>2. \A k \in 1..(Len(queue) + 1) : queue'[k] = IF k <= Len(queue) THEN queue[k]
                                                   ELSE <<b>>[k - Len(queue)]
    BY <1>3, <1>4, <1>5, ConcatProperties
  <2>3. \A k \in 1..(Len(queue) + 1) : k \in 1..Len(queue) \/ k = Len(queue) + 1
    BY <1>3
  <2>4. queue'[Len(queue) + 1] = b
    <3>1. (Len(queue) + 1) - Len(queue) = 1 /\ ~(Len(queue) + 1 <= Len(queue))
          /\ Len(queue) + 1 \in 1..(Len(queue) + 1)
      BY <1>3
    <3>. QED
      BY <1>4, <2>2, <3>1
  <2>5. \A k \in DOMAIN Incoming' : ~Incoming'[k].final
    <3>1. \A k \in 1..Len(queue) : queue'[k] = queue[k]
      BY <1>3, <2>2
    <3>. QED
      BY <1>1, <1>6, <1>11, <2>1, <2>3, <2>4, <3>1
  <2>6. Counts(b) = 1 /\ Got + Len(queue) + Counts(b) <= folder.size
    BY <1>2, <1>3, <1>11 DEF Follows, Counts
  <2>. QED
    BY <1>3, <1>5, <2>5, <2>6
<1>12. WorkerFollows'
  <2>. SUFFICES ASSUME Current(active)'
                PROVE  /\ terminal' = <<>> /\ \A k \in DOMAIN Incoming' : ~Incoming'[k].final
                       /\ GoesOn(worker'[g], Got + Len(queue'), g, folder)
    BY <1>1, <1>6 DEF WorkerFollows, Deliver, sessionVars
  <2>1. w.stage = "reading"
    BY <1>1, <1>9, <1>10 DEF Current, sessionVars
  <2>. QED
    BY <1>1, <1>2, <1>9, <1>10, <1>11, <2>1 DEF GoesOn, Deliver
<1>13. \A h \in Requests : h > requests => worker'[h] = NoWorker
  BY <1>1, <1>10, Bounds, TypesAre DEF IInv
<1>. QED
  BY <1>1, <1>5, <1>7, <1>10, <1>12, <1>13, ServiceKeeps, TypesAre DEF IInv, Deliver

LEMMA TimeOutKeeps ==
  ASSUME IInv, NEW g \in Requests, TimeOut(g), UNCHANGED sessionVars
  PROVE  IInv'
<1>1. /\ g = active /\ active # 0 /\ state = "loading" /\ Loading /\ g <= requests
      /\ terminal = <<>> /\ Incoming = queue
      /\ \A k \in DOMAIN Incoming : ~Incoming[k].final
      /\ GoesOn(worker[g], Got + Len(Incoming), g, folder)
  BY CurrentIs DEF TimeOut
<1>2. /\ queue \in Seq(Batch) /\ Len(queue) \in Nat /\ Got \in Nat
      /\ worker \in [Requests -> WorkerType] /\ worker[g].stage \in {"reading", "waiting"}
      /\ folder \in [recursive : BOOLEAN, size : 0..MaxSize] /\ Len(queue) <= QueueCapacity
  BY GotIs, WayIs, TypesAre DEF IInv, TimeOut, Current
<1>. DEFINE n == Got + Len(queue)
            held == worker[g].pending
            chunk == IF held = <<>> THEN 0 ELSE held[1].chunk
            b == TimeoutBatch(g)
<1>3. n \in Nat /\ n <= folder.size
  BY <1>1, <1>2 DEF GoesOn
<1>4. /\ chunk \in 0..MaxSize /\ chunk \in {0, n + 1}
      /\ n + (IF chunk = 0 THEN 0 ELSE 1) <= folder.size
  <2>1. CASE worker[g].stage = "reading"
    <3>1. chunk = 0
      BY <1>1, <2>1 DEF GoesOn
    <3>. QED
      BY <1>3, <3>1, Bounds
  <2>2. CASE worker[g].stage = "waiting"
    <3>1. PICK x \in Batch : held = <<x>> /\ Follows(x, n, g, folder)
      BY <1>1, <2>2 DEF GoesOn
    <3>2. chunk = x.chunk
      BY <3>1
    <3>. QED
      BY <3>1, <3>2, BatchesAre DEF Follows, Counts
  <2>. QED
    BY <1>2, <2>1, <2>2
<1>5. b = Ends(g, chunk, "transient", folder.recursive, FALSE)
  BY DEF TimeoutBatch
<1>. HIDE DEF n, chunk, held
<1>6. /\ b \in Batch /\ b.of = g /\ b.chunk = chunk /\ b.final /\ b.error = "transient"
      /\ b.truncated = folder.recursive
  <2>1. PICK no \in BOOLEAN : no = FALSE
    OBVIOUS
  <2>2. b = Ends(g, chunk, "transient", folder.recursive, no)
    BY <1>5, <2>1, Zenon
  <2>3. "transient" \in {"none", "transient", "permanent"} /\ folder.recursive \in BOOLEAN
    BY <1>2
  <2>. HIDE DEF b
  <2>. QED
    BY <1>4, <2>2, <2>3, EndsAre
<1>. HIDE DEF b
<1>7. Follows(b, n, g, folder)
  BY <1>3, <1>4, <1>6 DEF Follows, Counts
<1>8. terminal' = <<b>> /\ queue' = queue /\ terminal' \in Seq(Batch) /\ Len(terminal') = 1
  BY <1>6 DEF TimeOut, b
<1>9. Incoming' = queue \o <<b>> /\ Got' = Got
  BY <1>8 DEF Incoming, Got, Arrived, sessionVars
<1>10. InOrder(Incoming', Got, active, folder)
  BY <1>1, <1>2, <1>6, <1>7, <1>9, AppendInOrder DEF Loading, n
<1>11. /\ worker' \in [Requests -> WorkerType] /\ worker'[g].stage = "timed_out"
       /\ \A h \in Requests : h # g => worker'[h] = worker[h]
  BY <1>2, WorkersAre DEF TimeOut
<1>12. WorkerFollows'
  BY <1>1, <1>11 DEF WorkerFollows, Current, sessionVars
<1>13. \A h \in Requests : h > requests => worker'[h] = NoWorker
  BY <1>1, <1>11, Bounds, TypesAre DEF IInv
<1>. QED
  BY <1>1, <1>2, <1>8, <1>10, <1>11, <1>12, <1>13, ServiceKeeps DEF TimeOut

(* A worker that is not wanted any more. *)
LEMMA EndKeeps ==
  ASSUME IInv, NEW g \in Requests, GiveUp(g) \/ Retire(g), UNCHANGED sessionVars
  PROVE  IInv'
<1>1. worker \in [Requests -> WorkerType] /\ queue \in Seq(Batch) /\ terminal \in Seq(Batch)
  BY TypesAre DEF IInv
<1>2. worker[g] # NoWorker /\ ~Current(g)
  BY WorkersAre DEF GiveUp, Retire, Current
<1>3. g <= requests
  BY <1>2, Bounds, TypesAre DEF IInv
<1>4. /\ worker' \in [Requests -> WorkerType] /\ worker'[g].stage \notin {"reading", "waiting"}
      /\ \A h \in Requests : h # g => worker'[h] = worker[h]
  BY <1>1, WorkersAre DEF GiveUp, Retire
<1>5. UNCHANGED <<wanted, queue, terminal, folder>>
  BY DEF GiveUp, Retire
<1>6. Incoming' = Incoming /\ Got' = Got /\ active' = active
  BY <1>5 DEF Incoming, Got, Arrived, sessionVars
<1>7. active \in Requests \union {0}
  BY TypesAre, Bounds DEF IInv
<1>8. ASSUME active # 0, Current(active)' PROVE Current(active) /\ worker'[active] = worker[active]
  <2>1. active \in Requests
    BY <1>7, <1>8
  <2>2. active # g
    BY <1>4, <1>6, <1>8 DEF Current
  <2>. QED
    BY <1>4, <1>5, <1>6, <1>8, <2>1, <2>2 DEF Current
<1>9. state = "loading" => InOrder(Incoming', Got, active, folder) /\ WorkerFollows'
  BY <1>5, <1>6, <1>8 DEF IInv, Loading, WorkerFollows
<1>10. state # "loading" => (active # 0 => ~Current(active)')
  BY <1>8 DEF IInv, AtRest
<1>11. \A h \in Requests : h > requests => worker'[h] = NoWorker
  BY <1>3, <1>4, Bounds, TypesAre DEF IInv
<1>. QED
  BY <1>1, <1>4, <1>5, <1>9, <1>10, <1>11, TypesAre, ServiceKeeps DEF IInv

-----------------------------------------------------------------------------
(* The commands.                                                           *)

View == [shown : Listing, loading : BOOLEAN, refused : BOOLEAN]

LEMMA ViewIs ==
  ASSUME IInv
  PROVE  /\ view \in View /\ view.refused = FALSE /\ saved \in Listing
         /\ SinkClosed \in View /\ SinkClosed.refused = FALSE /\ SinkClosed.shown = view.shown
         /\ sinkOpen \in BOOLEAN /\ truncated \in BOOLEAN /\ commands \in 0..MaxCommands
<1>1. view \in View /\ view.refused = FALSE
  BY DEF IInv, Typed, View
<1>2. /\ Closed(view) \in View /\ Closed(view).refused = FALSE
      /\ Closed(view).shown = view.shown
  BY <1>1 DEF View, Closed
<1>. QED
  BY <1>1, <1>2 DEF IInv, Typed, TypeOK, SinkClosed

LEMMA EmptyIsListing ==
  ASSUME NEW g \in Requests
  PROVE  <<>> \in Listing
BY ShownIsListing, NothingShown, Bounds

(* A new request: nothing has arrived, and nothing is on its way but an    *)
(* answer that it cannot be served.                                        *)
LEMMA BeginKeeps ==
  ASSUME IInv, NEW preserve \in BOOLEAN, NEW all \in BOOLEAN, BeginRequest(preserve, all),
         requests < MaxRequests,
         view' \in View, ~view'.refused, preserve \/ (view'.shown = <<>> /\ view'.loading),
         saved' \in Listing, sinkOpen' \in BOOLEAN, truncated' = FALSE,
         commands' \in 0..MaxCommands, retries' \in 0..MaxRetries,
         requests + 1 + MaxRetries <= MaxRequests + retries'
  PROVE  IInv'
<1>1. requests \in 0..MaxRequests /\ worker \in [Requests -> WorkerType]
  BY TypesAre DEF IInv
<1>2. PICK g \in Requests : g = requests + 1
  BY <1>1, Bounds
<1>3. /\ requests' = g /\ active' = g /\ staging' = preserve /\ staged' = <<>>
      /\ state' = "loading" /\ recursive' = all /\ wanted' = g /\ terminal' = <<>>
      /\ folder' \in [recursive : BOOLEAN, size : 0..MaxSize] /\ folder'.recursive = all
  BY <1>2 DEF BeginRequest, Submit
<1>. DEFINE b == Ends(g, 0, "transient", all, all)
<1>4. \/ worker' = [worker EXCEPT ![g] = NewWorker] /\ queue' = <<>>
      \/ queue' = <<b>> /\ worker' = worker
  BY <1>2 DEF BeginRequest, Submit
<1>5. /\ b \in Batch /\ b.of = g /\ b.chunk = 0 /\ b.final /\ b.error = "transient"
      /\ b.truncated = all
  <2>1. 0 \in 0..MaxSize /\ "transient" \in {"none", "transient", "permanent"}
    BY Bounds
  <2>. QED
    BY <2>1, EndsAre
<1>. HIDE DEF b
<1>6. /\ <<>> \in Seq(Batch) /\ Len(<<>>) = 0 /\ <<b>> \in Seq(Batch) /\ Len(<<b>>) = 1
      /\ queue' \in Seq(Batch) /\ terminal' \in Seq(Batch)
      /\ Len(queue') <= QueueCapacity /\ Len(terminal') <= 1
  <2>1. <<>> \in Seq(Batch) /\ Len(<<>>) = 0
    BY EmptySeq
  <2>2. <<b>> \in Seq(Batch) /\ Len(<<b>>) = 1
    BY <1>5
  <2>3. 0 <= QueueCapacity /\ 1 <= QueueCapacity
    BY Bounds
  <2>4. queue' = <<>> \/ queue' = <<b>>
    BY <1>4
  <2>5. queue' \in Seq(Batch) /\ Len(queue') <= QueueCapacity
    BY <2>1, <2>2, <2>3, <2>4
  <2>6. terminal' \in Seq(Batch) /\ Len(terminal') <= 1
    BY <1>3, <2>1
  <2>. QED
    BY <2>1, <2>2, <2>5, <2>6
<1>7. /\ worker' \in [Requests -> WorkerType]
      /\ worker'[g] \in {NewWorker, NoWorker}
      /\ worker'[g] = NewWorker => queue' = <<>>
      /\ \A h \in Requests : h > g => worker'[h] = NoWorker
  <2>1. worker[g] = NoWorker /\ \A h \in Requests : h > g => worker[h] = NoWorker
    BY <1>1, <1>2, Bounds DEF IInv
  <2>2. NewWorker # NoWorker /\ {NewWorker, NoWorker} \subseteq WorkerType
    BY WorkersAre
  <2>3. \A h \in Requests : h > g => h # g
    BY Bounds
  <2>4. CASE worker' = [worker EXCEPT ![g] = NewWorker] /\ queue' = <<>>
    BY <1>1, <2>1, <2>2, <2>3, <2>4
  <2>5. CASE queue' = <<b>> /\ worker' = worker
    BY <1>1, <2>1, <2>2, <2>5
  <2>. QED
    BY <1>4, <2>4, <2>5
<1>8. Typed'
  <2>1. ServiceTypeOK'
    <3>1. \A k \in DOMAIN queue' : queue'[k] \in Batch
      BY <1>6, ElementOfSeq, LenProperties
    <3>2. \A k \in DOMAIN terminal' : terminal'[k] \in Batch
      BY <1>3
    <3>. QED
      BY <1>1, <1>2, <1>3, <1>6, <1>7, <3>1, <3>2, Bounds DEF ServiceTypeOK
  <2>2. staged' \in Listing
    BY <1>3, EmptyIsListing
  <2>3. DOMAIN view' = {"shown", "loading", "refused"}
    BY DEF View
  <2>4. Listing' = Listing
    BY DEF Listing, Shown
  <2>5. requests' \in 0..MaxRequests /\ active' \in 0..MaxRequests
    BY <1>3, Bounds
  <2>6. TypeOK'
    BY <1>3, <2>1, <2>2, <2>3, <2>4, <2>5 DEF TypeOK
  <2>7. view' \in [shown : Listing', loading : BOOLEAN, refused : BOOLEAN]
    BY <2>4 DEF View
  <2>. QED
    BY <1>6, <2>6, <2>7 DEF Typed
<1>9. Arrived' = <<>> /\ Got' = 0 /\ Arrived' = Shown(g, 0)
  BY <1>3, NothingShown DEF Arrived, Got
<1>10. ViewFollows'
  BY <1>3, <1>9 DEF ViewFollows, Shown
<1>11. Incoming' = queue'
  BY <1>3, <1>6, ConcatEmptySeq DEF Incoming
<1>12. InOrder(queue', 0, g, folder')
  <2>1. Follows(b, 0, g, folder')
    BY <1>3, <1>5 DEF Follows, Counts
  <2>2. InOrder(<<b>>, 0, g, folder')
    BY <2>1, SingleInOrder
  <2>3. InOrder(<<>>, 0, g, folder')
    BY NoneInOrder
  <2>. QED
    BY <1>4, <2>2, <2>3
<1>13. WorkerFollows'
  <2>. SUFFICES ASSUME Current(active)'
                PROVE  /\ terminal' = <<>> /\ \A k \in DOMAIN queue' : ~queue'[k].final
                       /\ GoesOn(worker'[g], Len(queue'), g, folder')
    BY <1>3, <1>6, <1>9, <1>11, LenProperties DEF WorkerFollows
  <2>1. worker'[g] = NewWorker /\ queue' = <<>>
    BY <1>3, <1>7, WorkersAre DEF Current
  <2>. QED
    BY <1>3, <1>6, <2>1, WorkersAre DEF GoesOn
<1>14. Loading'
  BY <1>2, <1>3, <1>9, <1>10, <1>11, <1>12, <1>13, <1>1 DEF Loading
<1>. QED
  BY <1>3, <1>7, <1>8, <1>14, Bounds DEF IInv

LEMMA BeganIs ==
  ASSUME IInv, NEW g \in Requests
  PROVE  /\ Began(SinkClosed) \in View /\ ~Began(SinkClosed).refused
         /\ Began(SinkClosed).shown = <<>> /\ Began(SinkClosed).loading
<1>1. SinkClosed \in View /\ SinkClosed.refused = FALSE
  BY ViewIs
<1>2. <<>> \in Listing
  BY EmptyIsListing
<1>. DEFINE v == SinkClosed
            w == [v EXCEPT !.shown = <<>>]
<1>. HIDE DEF v
<1>3. w \in View /\ w.refused = FALSE /\ w.shown = <<>>
  BY <1>1, <1>2 DEF v, View
<1>. HIDE DEF w
<1>4. Began(SinkClosed) = [w EXCEPT !.loading = TRUE]
  BY DEF Began, v, w
<1>. QED
  BY <1>3, <1>4 DEF View

LEMMA CommandIs ==
  ASSUME IInv, Command
  PROVE  /\ requests < MaxRequests /\ requests + 1 + MaxRetries <= MaxRequests
         /\ commands' \in 0..MaxCommands /\ requests + 1 \in Requests
<1>1. commands \in 0..MaxCommands /\ requests \in 0..MaxRequests
  BY ViewIs, TypesAre DEF IInv
<1>2. commands < MaxCommands /\ requests + MaxRetries < MaxRequests /\ commands' = commands + 1
  BY DEF Command
<1>. QED
  BY <1>1, <1>2, Bounds

LEMMA OpenKeeps ==
  ASSUME IInv, Command, NEW all \in BOOLEAN, Open(all), saved' \in Listing
  PROVE  IInv'
<1>1. /\ requests < MaxRequests /\ requests + 1 + MaxRetries <= MaxRequests
      /\ commands' \in 0..MaxCommands /\ requests + 1 \in Requests
  BY CommandIs
<1>2. view' \in View /\ ~view'.refused /\ view'.shown = <<>> /\ view'.loading
  BY <1>1, BeganIs DEF Open
<1>3. /\ sinkOpen' = TRUE /\ retries' = 0 /\ truncated' = FALSE /\ BeginRequest(FALSE, all)
  BY DEF Open
<1>4. requests + 1 + MaxRetries <= MaxRequests + retries'
  BY <1>1, <1>3, Bounds
<1>5. PICK no \in BOOLEAN : no = FALSE
  OBVIOUS
<1>6. BeginRequest(no, all)
  BY <1>3, <1>5, Zenon
<1>7. sinkOpen' \in BOOLEAN /\ retries' \in 0..MaxRetries
  BY <1>3, Bounds
<1>. QED
  BY <1>1, <1>2, <1>3, <1>4, <1>6, <1>7, BeginKeeps

LEMMA ReopenKeeps ==
  ASSUME IInv, Command, NEW all \in BOOLEAN, view' \in View, ~view'.refused,
         Reopen(view', all), saved' \in Listing
  PROVE  IInv'
<1>1. /\ requests < MaxRequests /\ requests + 1 + MaxRetries <= MaxRequests
      /\ commands' \in 0..MaxCommands /\ requests + 1 \in Requests
  BY CommandIs
<1>2. /\ sinkOpen' = FALSE /\ retries' = 0 /\ truncated' = FALSE /\ BeginRequest(TRUE, all)
  BY DEF Reopen
<1>3. requests + 1 + MaxRetries <= MaxRequests + retries'
  BY <1>1, <1>2, Bounds
<1>4. PICK yes \in BOOLEAN : yes = TRUE
  OBVIOUS
<1>5. BeginRequest(yes, all)
  BY <1>2, <1>4, Zenon
<1>6. sinkOpen' \in BOOLEAN /\ retries' \in 0..MaxRetries
  <2>1. sinkOpen' \in BOOLEAN
    BY <1>2, Zenon
  <2>2. retries' \in 0..MaxRetries
    BY <1>2, Bounds
  <2>. QED
    BY <2>1, <2>2
<1>. QED
  BY <1>1, <1>2, <1>3, <1>4, <1>5, <1>6, BeginKeeps

LEMMA UserKeeps ==
  ASSUME IInv, User
  PROVE  IInv'
<1>1. /\ SinkClosed \in View /\ SinkClosed.refused = FALSE /\ view \in View /\ saved \in Listing
      /\ view.refused = FALSE /\ recursive \in BOOLEAN
  BY ViewIs, TypesAre DEF IInv
<1>2. CASE OpenFolder
  <2>1. <<>> \in Listing
    BY <1>2, CommandIs, EmptyIsListing DEF OpenFolder
  <2>. QED
    BY <1>2, <2>1, OpenKeeps DEF OpenFolder
<1>3. CASE Refresh
  <2>1. view' = SinkClosed /\ Command /\ Reopen(SinkClosed, recursive) /\ saved' = saved
    BY <1>3 DEF Refresh, Reopen
  <2>2. Reopen(view', recursive)
    BY <2>1
  <2>. QED
    BY <1>1, <2>1, <2>2, ReopenKeeps
<1>4. CASE ShowSubfolders
  <2>1. Command /\ Open(TRUE) /\ saved' = view.shown
    BY <1>4 DEF ShowSubfolders
  <2>. QED
    BY <1>1, <2>1, OpenKeeps DEF View
<1>5. CASE LeaveSubfolders
  <2>. DEFINE u == [EmptyView EXCEPT !.shown = saved]
              v == [u EXCEPT !.refused = view.refused]
  <2>0. EmptyView \in [shown : {<<>>}, loading : {FALSE}, refused : {FALSE}]
    BY DEF EmptyView
  <2>1. u \in [shown : {saved}, loading : {FALSE}, refused : {FALSE}]
    BY <2>0
  <2>. HIDE DEF u
  <2>2. v \in View /\ ~v.refused
    BY <1>1, <2>1 DEF View
  <2>3. Command /\ Reopen(v, FALSE) /\ view' = v /\ saved' = <<>>
    BY <1>5 DEF LeaveSubfolders, Reopen, u
  <2>. HIDE DEF v
  <2>4. Reopen(view', FALSE)
    BY <2>3
  <2>5. <<>> \in Listing
    BY <2>3, CommandIs, EmptyIsListing
  <2>. QED
    BY <2>2, <2>3, <2>4, <2>5, ReopenKeeps
<1>6. CASE Suspend
  <2>1. /\ active' = 0 /\ state' = "suspended" /\ view' = SinkClosed /\ sinkOpen' = FALSE
        /\ staging' = FALSE /\ staged' = <<>> /\ retries' = 0 /\ truncated' = FALSE
        /\ UNCHANGED <<requests, recursive, saved>> /\ commands' \in 0..MaxCommands
        /\ <<>> \in Listing
    BY <1>6, CommandIs, EmptyIsListing DEF Suspend
  <2>2. wanted' = 0 /\ queue' = <<>> /\ terminal' = <<>> /\ UNCHANGED <<folder, worker>>
    <3>1. CASE active # 0
      BY <1>6, <3>1 DEF Suspend, Cancel
    <3>2. CASE active = 0
      BY <1>6, <3>2 DEF Suspend, serviceVars, IInv, Loading, AtRest
    <3>. QED
      BY <3>1, <3>2
  <2>3. Typed'
    <3>1. ServiceTypeOK'
      BY <2>2, TypesAre, Bounds, EmptySeq DEF ServiceTypeOK, IInv
    <3>2. queue' \in Seq(Batch) /\ terminal' \in Seq(Batch)
      BY <2>2, EmptySeq
    <3>3. DOMAIN view' = {"shown", "loading", "refused"}
      BY <1>1, <2>1 DEF View
    <3>4. Listing' = Listing
      BY DEF Listing, Shown
    <3>5. /\ requests' \in 0..MaxRequests /\ active' \in 0..MaxRequests
          /\ recursive' \in BOOLEAN /\ retries' \in 0..MaxRetries /\ saved' \in Listing
      BY <1>1, <2>1, TypesAre, Bounds DEF IInv
    <3>6. TypeOK'
      BY <2>1, <3>1, <3>3, <3>4, <3>5 DEF TypeOK
    <3>7. view' \in [shown : Listing', loading : BOOLEAN, refused : BOOLEAN] /\ ~view'.refused
      BY <1>1, <2>1, <3>4 DEF View
    <3>. QED
      BY <3>2, <3>6, <3>7 DEF Typed
  <2>. QED
    BY <2>1, <2>2, <2>3, TypesAre DEF IInv, AtRest
<1>. QED
  BY <1>2, <1>3, <1>4, <1>5, <1>6 DEF User

LEMMA RetryKeeps ==
  ASSUME IInv, Retry
  PROVE  IInv'
<1>1. state = "waiting_retry" /\ BeginRequest(TRUE, recursive)
      /\ UNCHANGED <<retries, sinkOpen, truncated, view, saved, commands>>
  BY DEF Retry
<1>2. truncated = FALSE /\ requests + MaxRetries + 1 <= MaxRequests + retries
  BY <1>1, ViewIs DEF IInv, AtRest
<1>3. /\ requests < MaxRequests /\ requests + 1 + MaxRetries <= MaxRequests + retries'
  BY <1>1, <1>2, TypesAre, Bounds DEF IInv
<1>4. retries' \in 0..MaxRetries /\ recursive \in BOOLEAN
  BY <1>1, TypesAre DEF IInv
<1>. QED
  BY <1>1, <1>2, <1>3, <1>4, ViewIs, BeginKeeps

-----------------------------------------------------------------------------
(* poll.                                                                   *)

Reached(b) == Got + Counts(b)

(* What is taken is the next batch; after the last one the way is empty    *)
(* and the worker has ended.                                               *)
LEMMA ReceivedIs ==
  ASSUME IInv, NEW b \in Received, Receives(b)
  PROVE  /\ state = "loading" /\ Loading /\ active \in Requests
         /\ Follows(b, Got, active, folder) /\ b \in Batch
         /\ queue' \in Seq(Batch) /\ terminal' \in Seq(Batch)
         /\ Len(queue') <= QueueCapacity /\ Len(terminal') <= 1
         /\ InOrder(Incoming', Got + 1, active, folder)
         /\ b.final => queue' = <<>> /\ terminal' = <<>> /\ ~Current(active)
         /\ Current(active) =>
              /\ terminal' = <<>> /\ \A k \in DOMAIN Incoming' : ~Incoming'[k].final
              /\ GoesOn(worker[active], Got + 1 + Len(Incoming'), active, folder)
<1>1. state = "loading" /\ Loading /\ active \in Requests
  BY TypesAre, Bounds DEF Receives, IInv, Loading
<1>2. /\ Incoming \in Seq(Batch) /\ Len(Incoming) = Len(queue) + Len(terminal)
      /\ Len(queue) \in Nat /\ Len(terminal) \in Nat /\ Len(terminal) <= 1
      /\ queue \in Seq(Batch) /\ terminal \in Seq(Batch) /\ Len(queue) <= QueueCapacity
  BY WayIs, TypesAre DEF IInv
<1>3. DOMAIN Incoming = 1..Len(Incoming) /\ Len(Incoming) \in Nat
  BY <1>2, LenProperties
<1>4. Offered(active) = DOMAIN Incoming
  BY <1>1 DEF Offered, Loading, InOrder, Follows
<1>5. Incoming # <<>> /\ 1 \in Offered(active)
  BY <1>2, <1>3, <1>4, EmptySeq DEF Receives
<1>6. FirstOffered(active) = 1
  <2>1. \A j \in Offered(active) : 1 <= j
    BY <1>3, <1>4
  <2>2. \A k \in Offered(active) : (\A j \in Offered(active) : k <= j) => k = 1
    BY <1>3, <1>4, <1>5
  <2>. QED
    BY <1>5, <2>1, <2>2 DEF FirstOffered
<1>7. b = Incoming[1] /\ queue' = SubSeq(queue, 2, Len(queue))
      /\ terminal' = (IF 1 > Len(queue) THEN <<>> ELSE terminal)
  BY <1>6 DEF Receives, Take
<1>8. Got \in Nat
  BY GotIs DEF IInv
<1>9. /\ Follows(b, Got, active, folder)
      /\ b.final => Tail(Incoming) = <<>>
      /\ InOrder(Tail(Incoming), Got + 1, active, folder)
      /\ (\A k \in DOMAIN Incoming : ~Incoming[k].final) =>
           \A k \in DOMAIN Tail(Incoming) : ~Tail(Incoming)[k].final
  <2>1. InOrder(Incoming, Got, active, folder)
    BY <1>1 DEF Loading
  <2>. QED
    BY <1>2, <1>5, <1>7, <1>8, <2>1, TailInOrder
<1>10. /\ Incoming' = Tail(Incoming) /\ queue' \in Seq(Batch) /\ terminal' \in Seq(Batch)
       /\ Len(queue') <= QueueCapacity /\ Len(terminal') <= 1
  <2>1. Tail(Incoming) \in Seq(Batch) /\ Len(Tail(Incoming)) = Len(Incoming) - 1
        /\ \A i \in 1..(Len(Incoming) - 1) : Tail(Incoming)[i] = Incoming[i + 1]
    BY <1>2, <1>5, HeadTailProperties
  <2>2. CASE queue = <<>>
    <3>1. Len(queue) = 0 /\ SubSeq(queue, 2, Len(queue)) = <<>>
      BY <2>2, EmptySeq, SubSeqEmpty
    <3>2. queue' = <<>> /\ terminal' = <<>>
      BY <1>7, <3>1
    <3>3. Incoming' = <<>> /\ <<>> \in Seq(Batch) /\ Len(<<>>) = 0
      BY <3>2, EmptySeq, ConcatEmptySeq DEF Incoming
    <3>4. Len(Tail(Incoming)) = 0
      BY <1>2, <1>3, <1>5, <2>1, <3>1, EmptySeq
    <3>5. Tail(Incoming) = <<>>
      BY <2>1, <3>4, EmptySeq
    <3>. QED
      BY <3>2, <3>3, <3>5, Bounds
  <2>3. CASE queue # <<>>
    <3>1. /\ queue' = Tail(queue) /\ terminal' = terminal /\ Len(queue) \in Nat \ {0}
      BY <1>2, <1>7, <2>3, TailIsSubSeq, EmptySeq
    <3>2. /\ Tail(queue) \in Seq(Batch) /\ Len(Tail(queue)) = Len(queue) - 1
          /\ \A i \in 1..(Len(queue) - 1) : Tail(queue)[i] = queue[i + 1]
      BY <1>2, <2>3, HeadTailProperties
    <3>. DEFINE t == Tail(queue)
                s == t \o terminal
                u == Tail(Incoming)
    <3>3. /\ s \in Seq(Batch) /\ Len(s) = Len(queue) - 1 + Len(terminal)
          /\ \A i \in 1..(Len(queue) - 1 + Len(terminal)) :
               s[i] = IF i <= Len(queue) - 1 THEN t[i] ELSE terminal[i - (Len(queue) - 1)]
      BY <1>2, <3>2, ConcatProperties
    <3>4. \A i \in 1..(Len(queue) + Len(terminal)) :
            Incoming[i] = IF i <= Len(queue) THEN queue[i] ELSE terminal[i - Len(queue)]
      BY <1>2, ConcatProperties DEF Incoming
    <3>. HIDE DEF t, s, u
    <3>5. \A i \in 1..Len(s) : s[i] = u[i]
      <4>. SUFFICES ASSUME NEW i \in 1..(Len(queue) - 1 + Len(terminal)) PROVE s[i] = u[i]
        BY <3>3
      <4>1. u[i] = Incoming[i + 1]
        BY <1>2, <2>1 DEF u
      <4>2. i + 1 \in 1..(Len(queue) + Len(terminal))
        BY <1>2
      <4>3. CASE i <= Len(queue) - 1
        <5>1. i \in 1..(Len(queue) - 1) /\ i + 1 <= Len(queue)
          BY <1>2, <4>3
        <5>2. s[i] = t[i] /\ t[i] = queue[i + 1]
          BY <3>2, <3>3, <5>1 DEF t
        <5>. QED
          BY <3>4, <4>1, <4>2, <5>1, <5>2
      <4>4. CASE ~(i <= Len(queue) - 1)
        <5>1. ~(i + 1 <= Len(queue)) /\ i - (Len(queue) - 1) = (i + 1) - Len(queue)
          BY <1>2, <4>4
        <5>. QED
          BY <3>3, <3>4, <4>1, <4>2, <4>4, <5>1
      <4>. QED
        BY <4>3, <4>4
    <3>6. u \in Seq(Batch) /\ Len(s) = Len(u)
      BY <1>2, <2>1, <3>3 DEF u
    <3>7. s = u
      BY <3>3, <3>5, <3>6, SeqEqual
    <3>8. Incoming' = s
      BY <3>1 DEF Incoming, s, t
    <3>9. queue' \in Seq(Batch) /\ Len(queue') = Len(queue) - 1
      BY <3>1, <3>2
    <3>10. Len(queue') <= QueueCapacity
      BY <1>2, <3>9, Bounds
    <3>. QED
      BY <1>2, <3>1, <3>7, <3>8, <3>9, <3>10 DEF u
  <2>. QED
    BY <2>2, <2>3
<1>11. b.final => queue' = <<>> /\ terminal' = <<>> /\ ~Current(active)
  <2>. SUFFICES ASSUME b.final PROVE queue' = <<>> /\ terminal' = <<>> /\ ~Current(active)
    OBVIOUS
  <2>1. Incoming' = <<>>
    BY <1>9, <1>10
  <2>2. queue' = <<>> /\ terminal' = <<>>
    BY <1>10, <2>1, ConcatEqualIffEmpty DEF Incoming
  <2>3. ~Current(active)
    BY <1>1, <1>4, <1>5, <1>7 DEF Loading, WorkerFollows
  <2>. QED
    BY <2>2, <2>3
<1>12. ASSUME Current(active)
       PROVE  /\ terminal' = <<>> /\ \A k \in DOMAIN Incoming' : ~Incoming'[k].final
              /\ GoesOn(worker[active], Got + 1 + Len(Incoming'), active, folder)
  <2>1. /\ terminal = <<>> /\ \A k \in DOMAIN Incoming : ~Incoming[k].final
        /\ GoesOn(worker[active], Got + Len(Incoming), active, folder)
    BY <1>1, <1>12 DEF Loading, WorkerFollows
  <2>2. Len(Incoming') = Len(Incoming) - 1
    BY <1>2, <1>5, <1>10, HeadTailProperties
  <2>3. Got + 1 + Len(Incoming') = Got + Len(Incoming)
    BY <1>3, <1>8, <2>2
  <2>4. terminal' = <<>>
    BY <1>7, <2>1
  <2>. QED
    BY <1>9, <1>10, <2>1, <2>3, <2>4
<1>. QED
  BY <1>1, <1>9, <1>10, <1>11, <1>12 DEF Follows

LEMMA FollowsCounts ==
  ASSUME NEW n \in Nat, NEW g, NEW f, NEW b, Follows(b, n, g, f)
  PROVE  /\ Counts(b) \in {0, 1} /\ (b.chunk = 0 <=> Counts(b) = 0)
         /\ ~b.final => Counts(b) = 1
         /\ n + Counts(b) \in Nat
BY DEF Follows, Counts

(* What the view shows after a batch that is not staged.                   *)
LEMMA ViewGrows ==
  ASSUME IInv, Loading, active \in Requests,
         NEW b, Follows(b, Got, active, folder), ~Stages(b)
  PROVE  /\ ViewWith(b) \in View /\ ViewWith(b).refused = FALSE /\ ViewWith(b).loading = TRUE
         /\ ViewWith(b).shown = Shown(active, Reached(b)) /\ Reached(b) \in 0..MaxSize
         /\ staged = <<>>
         /\ Restarts(b) => ViewWith(b).shown # <<>>
         /\ ~Restarts(b) => view.shown = Shown(active, Got)
<1>1. /\ Got \in Nat /\ folder.size \in 0..MaxSize /\ view \in View /\ view.refused = FALSE
      /\ staging \in BOOLEAN /\ recursive \in BOOLEAN
  BY GotIs, TypesAre, ViewIs DEF IInv
<1>2. Reached(b) \in 0..MaxSize /\ Reached(b) \in Nat
  BY <1>1, FollowsCounts, Bounds DEF Reached, Follows
<1>3. Shown(active, Got) \o Entries(b) = Shown(active, Reached(b))
  BY <1>1, ShownGrows DEF Reached
<1>4. Shown(active, Reached(b)) \in Listing
  BY <1>2, ShownIsListing
<1>5. Got = 0 => Shown(active, Got) = <<>>
  BY NothingShown
<1>. DEFINE v == IF Restarts(b) THEN Began(view) ELSE view
<1>6. /\ v \in View /\ v.refused = FALSE /\ v.loading = TRUE
      /\ v.shown = Shown(active, Got) /\ staged = <<>>
      /\ Restarts(b) => Got = 0
  <2>1. CASE Restarts(b)
    <3>1. staging /\ recursive /\ staged = <<>>
      BY <2>1 DEF Restarts, Loading, ViewFollows
    <3>2. Got = 0
      BY <3>1 DEF Got, Arrived
    <3>. DEFINE w == [view EXCEPT !.shown = <<>>]
    <3>3. w \in View /\ w.refused = FALSE /\ w.shown = <<>>
      BY <1>1, EmptyIsListing DEF View
    <3>. HIDE DEF w
    <3>4. Began(view) = [w EXCEPT !.loading = TRUE]
      BY DEF Began, w
    <3>5. /\ Began(view) \in View /\ Began(view).refused = FALSE /\ Began(view).loading = TRUE
          /\ Began(view).shown = <<>>
      BY <3>3, <3>4 DEF View
    <3>. QED
      BY <1>5, <2>1, <3>1, <3>2, <3>5
  <2>2. CASE ~Restarts(b)
    <3>1. ~staging
      BY <2>2 DEF Stages
    <3>2. view.loading = TRUE
      BY <1>1, <3>1 DEF Loading, ViewFollows, View
    <3>. QED
      BY <1>1, <2>2, <3>1, <3>2 DEF Loading, ViewFollows, Arrived, Got
  <2>. QED
    BY <2>1, <2>2
<1>. HIDE DEF v
<1>7. ViewWith(b) = Appended(v, Entries(b))
  BY DEF ViewWith, v
<1>8. /\ ViewWith(b) \in View /\ ViewWith(b).refused = FALSE /\ ViewWith(b).loading = TRUE
      /\ ViewWith(b).shown = Shown(active, Reached(b))
  <2>1. CASE Entries(b) = <<>>
    <3>1. Shown(active, Got) \o Entries(b) = Shown(active, Got)
      BY <1>1, <2>1, ShownIs, ConcatEmptySeq
    <3>. QED
      BY <1>3, <1>6, <1>7, <2>1, <3>1 DEF Appended
  <2>2. CASE Entries(b) # <<>>
    <3>. DEFINE w == [v EXCEPT !.shown = @ \o Entries(b)]
    <3>1. /\ w \in View /\ w.refused = FALSE /\ w.loading = TRUE
          /\ w.shown = Shown(active, Reached(b))
      BY <1>3, <1>4, <1>6 DEF View
    <3>. HIDE DEF w
    <3>2. ViewWith(b) = [w EXCEPT !.refused = @ \/ ~v.loading]
      BY <1>7, <2>2 DEF Appended, w
    <3>. QED
      BY <1>6, <3>1, <3>2 DEF View
  <2>. QED
    BY <2>1, <2>2
<1>9. ASSUME Restarts(b) PROVE ViewWith(b).shown # <<>>
  <2>1. Reached(b) = 1
    BY <1>1, <1>6, <1>9, FollowsCounts DEF Restarts, Reached
  <2>2. Len(Shown(active, 1)) = 1
    BY ShownIs
  <2>. QED
    BY <1>8, <2>1, <2>2, EmptySeq
<1>10. ~Restarts(b) => view.shown = Shown(active, Got)
  BY <1>6 DEF v
<1>. QED
  BY <1>2, <1>6, <1>8, <1>9, <1>10

(* What is staged after a batch that is.                                   *)
LEMMA StagedGrows ==
  ASSUME IInv, Loading, active \in Requests,
         NEW b, Follows(b, Got, active, folder), Stages(b)
  PROVE  /\ StagedWith(b) = Shown(active, Reached(b)) /\ Reached(b) \in 0..MaxSize
         /\ ViewWith(b) = view /\ staging
         /\ recursive => StagedWith(b) = <<>> /\ Counts(b) = 0
<1>1. /\ Got \in Nat /\ folder.size \in 0..MaxSize
  BY GotIs, TypesAre DEF IInv
<1>2. Reached(b) \in 0..MaxSize /\ Reached(b) \in Nat
  BY <1>1, FollowsCounts, Bounds DEF Reached, Follows
<1>3. Shown(active, Got) \o Entries(b) = Shown(active, Reached(b))
  BY <1>1, ShownGrows DEF Reached
<1>4. staging /\ staged = Shown(active, Got)
  BY DEF Stages, Loading, ViewFollows, Arrived, Got
<1>5. StagedWith(b) = Shown(active, Reached(b)) /\ ViewWith(b) = view
  BY <1>3, <1>4 DEF StagedWith, ViewWith
<1>6. ASSUME recursive PROVE StagedWith(b) = <<>> /\ Counts(b) = 0
  <2>1. b.chunk = 0 /\ staged = <<>>
    BY <1>4, <1>6 DEF Stages, Restarts, Loading, ViewFollows
  <2>2. Counts(b) = 0 /\ Entries(b) = <<>>
    BY <2>1 DEF Counts, Entries
  <2>3. <<>> \o <<>> = <<>>
    BY EmptySeq, ConcatEmptySeq
  <2>. QED
    BY <2>1, <2>2, <2>3 DEF StagedWith
<1>. QED
  BY <1>2, <1>4, <1>5, <1>6

(* What a poll leaves alone. *)
LEMMA PollTypes ==
  ASSUME IInv, NEW b \in Received, Receives(b),
         state' \in {"loading", "waiting_retry", "ready", "unavailable", "suspended"},
         staging' \in BOOLEAN, staged' \in Listing, sinkOpen' \in BOOLEAN,
         retries' \in 0..MaxRetries, view' \in View, ~view'.refused
  PROVE  /\ Typed' /\ truncated' \in BOOLEAN
         /\ wanted' = active' /\ active' <= requests' /\ folder'.recursive = recursive'
         /\ \A g \in Requests : g > requests' => worker'[g] = NoWorker
<1>1. /\ UNCHANGED <<requests, active, recursive, saved, commands, wanted, folder, worker>>
      /\ truncated' = TruncatedWith(b)
  BY DEF Receives, Take
<1>2. /\ queue' \in Seq(Batch) /\ terminal' \in Seq(Batch) /\ b \in Batch
      /\ Len(queue') <= QueueCapacity /\ Len(terminal') <= 1
  BY ReceivedIs
<1>3. ServiceTypeOK'
  <2>1. \A k \in DOMAIN queue' : queue'[k] \in Batch
    BY <1>2, ElementOfSeq, LenProperties
  <2>2. \A k \in DOMAIN terminal' : terminal'[k] \in Batch
    BY <1>2, ElementOfSeq, LenProperties
  <2>. QED
    BY <1>1, <1>2, <2>1, <2>2, TypesAre DEF ServiceTypeOK, IInv
<1>4. truncated' \in BOOLEAN
  BY <1>1, <1>2, ViewIs, BatchesAre DEF TruncatedWith
<1>5. DOMAIN view' = {"shown", "loading", "refused"}
  BY DEF View
<1>6. Listing' = Listing
  BY DEF Listing, Shown
<1>7. saved' \in Listing /\ commands' \in 0..MaxCommands
  BY <1>1, ViewIs
<1>8. TypeOK'
  BY <1>1, <1>3, <1>4, <1>5, <1>6, <1>7, TypesAre DEF TypeOK, IInv
<1>9. view' \in [shown : Listing', loading : BOOLEAN, refused : BOOLEAN]
  BY <1>6 DEF View
<1>. QED
  BY <1>1, <1>2, <1>4, <1>8, <1>9 DEF Typed, IInv

LEMMA PollBatchKeeps ==
  ASSUME IInv, PollBatch
  PROVE  IInv'
<1>1. PICK b \in Received :
        /\ Receives(b) /\ ~b.final
        /\ view' = ViewWith(b) /\ staged' = StagedWith(b)
        /\ staging' = Stages(b) /\ sinkOpen' = OpenWith(b)
        /\ UNCHANGED <<state, retries>>
  BY DEF PollBatch
<1>2. /\ state = "loading" /\ Loading /\ active \in Requests
      /\ Follows(b, Got, active, folder) /\ b \in Batch
      /\ InOrder(Incoming', Got + 1, active, folder)
      /\ Current(active) =>
           /\ terminal' = <<>> /\ \A k \in DOMAIN Incoming' : ~Incoming'[k].final
           /\ GoesOn(worker[active], Got + 1 + Len(Incoming'), active, folder)
  BY <1>1, ReceivedIs
<1>3. Got \in Nat /\ Counts(b) = 1 /\ Reached(b) = Got + 1 /\ Reached(b) <= folder.size
  BY <1>1, <1>2, GotIs, FollowsCounts DEF IInv, Reached, Follows
<1>4. /\ UNCHANGED <<requests, active, recursive, saved, commands, wanted, folder, worker>>
      /\ truncated' = TruncatedWith(b)
  BY <1>1 DEF Receives, Take
<1>5. recursive \in BOOLEAN /\ staging \in BOOLEAN /\ Stages(b) \in BOOLEAN /\ OpenWith(b) \in BOOLEAN
  <2>1. recursive \in BOOLEAN /\ staging \in BOOLEAN /\ sinkOpen \in BOOLEAN
    BY TypesAre, ViewIs DEF IInv
  <2>2. Restarts(b) \in BOOLEAN
    BY <2>1 DEF Restarts
  <2>. QED
    BY <2>1, <2>2 DEF Stages, OpenWith
<1>6. ~truncated'
  BY <1>1, <1>2, <1>4 DEF TruncatedWith, Loading, Follows
<1>7. /\ view' \in View /\ ~view'.refused /\ staged' \in Listing
      /\ Arrived' = Shown(active, Reached(b))
      /\ staging' => ~recursive
      /\ ~staging' => view'.loading /\ staged' = <<>>
  <2>1. CASE Stages(b)
    <3>1. /\ StagedWith(b) = Shown(active, Reached(b)) /\ Reached(b) \in 0..MaxSize
          /\ ViewWith(b) = view /\ staging
          /\ recursive => Counts(b) = 0
      BY <1>2, <2>1, StagedGrows
    <3>2. staging' = TRUE /\ ~recursive
      BY <1>1, <1>3, <1>5, <2>1, <3>1
    <3>3. Shown(active, Reached(b)) \in Listing
      BY <1>2, <3>1, ShownIsListing
    <3>. QED
      BY <1>1, <3>1, <3>2, <3>3, ViewIs DEF Arrived
  <2>2. CASE ~Stages(b)
    <3>1. /\ ViewWith(b) \in View /\ ViewWith(b).refused = FALSE /\ ViewWith(b).loading = TRUE
          /\ ViewWith(b).shown = Shown(active, Reached(b)) /\ staged = <<>>
      BY <1>2, <2>2, ViewGrows
    <3>2. staging' = FALSE /\ staged' = <<>>
      BY <1>1, <1>5, <2>2, <3>1 DEF StagedWith
    <3>. QED
      BY <1>1, <1>2, <3>1, <3>2, EmptyIsListing DEF Arrived
  <2>. QED
    BY <2>1, <2>2
<1>8. Got' = Got + 1
  BY <1>2, <1>3, <1>7, ShownIs DEF Got
<1>9. Arrived' = Shown(active, Got') /\ Got' <= folder.size
  BY <1>3, <1>7, <1>8
<1>10. ViewFollows'
  BY <1>4, <1>7, <1>9 DEF ViewFollows, Shown
<1>11. WorkerFollows'
  BY <1>2, <1>4, <1>8 DEF WorkerFollows, Current
<1>12. retries' \in 0..MaxRetries /\ state' = "loading" /\ staging' \in BOOLEAN /\ sinkOpen' \in BOOLEAN
  BY <1>1, <1>2, <1>5, TypesAre DEF IInv
<1>13. Loading'
  BY <1>1, <1>2, <1>4, <1>6, <1>8, <1>10, <1>11 DEF Loading
<1>. QED
  BY <1>1, <1>7, <1>12, <1>13, PollTypes DEF IInv

(* The last batch has come: nothing more is on its way.                    *)
LEMMA LastKeeps ==
  ASSUME IInv, NEW b \in Received, Receives(b), b.final,
         state' \in {"waiting_retry", "ready", "unavailable"},
         staging' \in BOOLEAN, staged' \in Listing, sinkOpen' \in BOOLEAN,
         retries' \in 0..MaxRetries, view' \in View, ~view'.refused,
         state' = "waiting_retry" => ~truncated' /\ ~recursive /\ retries' = retries + 1,
         state' = "ready" /\ ~truncated' => view'.shown = Shown(active, folder.size)
  PROVE  IInv'
<1>1. /\ state = "loading" /\ Loading /\ active \in Requests
      /\ queue' = <<>> /\ terminal' = <<>> /\ ~Current(active)
  BY ReceivedIs
<1>2. UNCHANGED <<requests, active, recursive, saved, commands, wanted, folder, worker>>
  BY DEF Receives, Take
<1>3. /\ Typed' /\ truncated' \in BOOLEAN
      /\ wanted' = active' /\ active' <= requests' /\ folder'.recursive = recursive'
      /\ \A g \in Requests : g > requests' => worker'[g] = NoWorker
  BY PollTypes
<1>4. ~Current(active)' /\ active' # 0
  BY <1>1, <1>2, Bounds DEF Current
<1>5. state' = "waiting_retry" => requests' + MaxRetries + 1 <= MaxRequests + retries'
  BY <1>1, <1>2, TypesAre, Bounds DEF Loading, IInv
<1>6. Shown(active, folder.size)' = Shown(active, folder.size)
  BY <1>2 DEF Shown
<1>. QED
  BY <1>1, <1>2, <1>3, <1>4, <1>5, <1>6 DEF IInv, AtRest

LEMMA ClosedIs ==
  ASSUME NEW v \in View
  PROVE  /\ Closed(v) \in View /\ Closed(v).refused = v.refused /\ Closed(v).shown = v.shown
BY DEF Closed, View

LEMMA PollSuccessKeeps ==
  ASSUME IInv, PollSuccess
  PROVE  IInv'
<1>1. PICK b \in Received :
        /\ Receives(b) /\ b.final /\ Succeeds(b)
        /\ view' = CASE Replaces(b) -> Replaced(view, StagedWith(b))
                     [] Stages(b) /\ ~Replaces(b) -> view
                     [] ~Stages(b) -> Closed(ViewWith(b))
        /\ staged' = IF Replaces(b) THEN <<>> ELSE StagedWith(b)
        /\ staging' = FALSE /\ sinkOpen' = FALSE
        /\ state' = "ready"
        /\ UNCHANGED retries
  BY DEF PollSuccess
<1>2. /\ state = "loading" /\ Loading /\ active \in Requests
      /\ Follows(b, Got, active, folder) /\ b \in Batch
  BY <1>1, ReceivedIs
<1>3. truncated' = TruncatedWith(b) /\ retries' \in 0..MaxRetries
  BY <1>1, TypesAre DEF Receives, IInv
<1>4. ~truncated' => Reached(b) = folder.size
  BY <1>1, <1>2, <1>3 DEF TruncatedWith, Succeeds, Follows, Reached
<1>5. /\ view' \in View /\ ~view'.refused /\ staged' \in Listing
      /\ ~truncated' => view'.shown = Shown(active, Reached(b))
  <2>1. CASE Stages(b)
    <3>1. /\ StagedWith(b) = Shown(active, Reached(b)) /\ Reached(b) \in 0..MaxSize
      BY <1>2, <2>1, StagedGrows
    <3>2. Shown(active, Reached(b)) \in Listing
      BY <1>2, <3>1, ShownIsListing
    <3>3. CASE Replaces(b)
      <4>. DEFINE w == [view EXCEPT !.shown = StagedWith(b)]
      <4>1. w \in View /\ w.refused = FALSE /\ w.shown = Shown(active, Reached(b))
        BY <3>1, <3>2, ViewIs DEF View
      <4>. HIDE DEF w
      <4>2. view' = [w EXCEPT !.loading = FALSE]
        <5>1. view' = Replaced(view, StagedWith(b))
          BY <1>1, <2>1, <3>3
        <5>. QED
          BY <5>1 DEF Replaced, w
      <4>3. view' \in View /\ ~view'.refused /\ view'.shown = Shown(active, Reached(b))
        BY <4>1, <4>2 DEF View
      <4>. QED
        BY <1>1, <1>2, <3>3, <4>3, EmptyIsListing
    <3>4. CASE ~Replaces(b)
      <4>1. truncated'
        BY <1>3, <2>1, <3>4 DEF Replaces
      <4>2. view' = view /\ staged' = StagedWith(b)
        BY <1>1, <2>1, <3>4
      <4>. QED
        BY <3>1, <3>2, <4>1, <4>2, ViewIs
    <3>. QED
      BY <3>3, <3>4
  <2>2. CASE ~Stages(b)
    <3>1. /\ ViewWith(b) \in View /\ ViewWith(b).refused = FALSE
          /\ ViewWith(b).shown = Shown(active, Reached(b)) /\ staged = <<>>
      BY <1>2, <2>2, ViewGrows
    <3>2. ~Replaces(b) /\ StagedWith(b) = <<>>
      BY <2>2, <3>1 DEF Replaces, StagedWith
    <3>3. view' = Closed(ViewWith(b)) /\ staged' = <<>>
      BY <1>1, <2>2, <3>2
    <3>. QED
      BY <1>2, <3>1, <3>3, ClosedIs, EmptyIsListing
  <2>. QED
    BY <2>1, <2>2
<1>. QED
  BY <1>1, <1>3, <1>4, <1>5, LastKeeps

LEMMA PollFailureKeeps ==
  ASSUME IInv, PollFailure
  PROVE  IInv'
<1>1. PICK b \in Received :
        /\ Receives(b) /\ b.final /\ ~Succeeds(b)
        /\ view' = LeftByFailure(b)
        /\ staged' = IF Stages(b) THEN <<>> ELSE staged
        /\ staging' = Stages(b) /\ sinkOpen' = FALSE
        /\ IF MayRetry(b) THEN state' = "waiting_retry" /\ retries' = retries + 1
           ELSE state' = "unavailable" /\ UNCHANGED retries
  BY DEF PollFailure
<1>2. /\ state = "loading" /\ Loading /\ active \in Requests
      /\ Follows(b, Got, active, folder) /\ b \in Batch
  BY <1>1, ReceivedIs
<1>3. truncated' = TruncatedWith(b) /\ staging \in BOOLEAN /\ recursive \in BOOLEAN
      /\ retries \in 0..MaxRetries /\ staged \in Listing
  BY <1>1, TypesAre DEF Receives, IInv
<1>4. staging' \in BOOLEAN
  BY <1>1, <1>3 DEF Stages, Restarts
<1>5. view' \in View /\ ~view'.refused /\ staged' \in Listing
  <2>1. CASE Stages(b)
    BY <1>1, <1>2, <2>1, ViewIs, EmptyIsListing DEF LeftByFailure
  <2>2. CASE ~Stages(b)
    <3>1. ViewWith(b) \in View /\ ViewWith(b).refused = FALSE
      BY <1>2, <2>2, ViewGrows
    <3>2. view' = Closed(ViewWith(b)) /\ staged' = staged
      BY <1>1, <2>2 DEF LeftByFailure
    <3>. QED
      BY <1>3, <3>1, <3>2, ClosedIs
  <2>. QED
    BY <2>1, <2>2
<1>6. CASE MayRetry(b)
  <2>1. /\ state' = "waiting_retry" /\ retries' = retries + 1 /\ ~recursive
        /\ b.error = "transient" /\ retries < MaxRetries
    BY <1>1, <1>6 DEF MayRetry
  <2>2. retries' \in 0..MaxRetries
    BY <1>3, <2>1, Bounds
  <2>3. ~truncated'
    BY <1>2, <1>3, <2>1 DEF TruncatedWith, Loading, Follows, IInv
  <2>. QED
    BY <1>1, <1>4, <1>5, <2>1, <2>2, <2>3, LastKeeps
<1>7. CASE ~MayRetry(b)
  <2>1. state' = "unavailable" /\ retries' \in 0..MaxRetries
    BY <1>1, <1>3, <1>7
  <2>. QED
    BY <1>1, <1>4, <1>5, <2>1, LastKeeps
<1>. QED
  BY <1>6, <1>7

-----------------------------------------------------------------------------
(* The invariant.                                                          *)

LEMMA InitHolds == Init => IInv
<1>. SUFFICES ASSUME Init PROVE IInv
  OBVIOUS
<1>1. /\ queue = <<>> /\ terminal = <<>> /\ wanted = 0 /\ requests = 0 /\ active = 0
      /\ state = "unavailable" /\ recursive = FALSE /\ retries = 0 /\ staging = FALSE
      /\ staged = <<>> /\ sinkOpen = FALSE /\ truncated = FALSE /\ saved = <<>> /\ commands = 0
      /\ folder = [recursive |-> FALSE, size |-> 0] /\ worker = [g \in Requests |-> NoWorker]
      /\ view = EmptyView
  BY DEF Init, ServiceInit
<1>2. folder \in [recursive : BOOLEAN, size : 0..MaxSize] /\ folder.recursive = FALSE
  BY <1>1, Bounds
<1>3. worker \in [Requests -> WorkerType] /\ \A g \in Requests : worker[g] = NoWorker
  BY <1>1, WorkersAre
<1>4. <<>> \in Seq(Batch) /\ Len(<<>>) = 0
  BY EmptySeq
<1>5. 1 \in Requests /\ <<>> \in Listing
  BY Bounds, EmptyIsListing
<1>6. view \in View /\ view.refused = FALSE
  BY <1>1, <1>5 DEF View, EmptyView
<1>7. ServiceTypeOK
  BY <1>1, <1>2, <1>3, <1>4, Bounds DEF ServiceTypeOK
<1>8. DOMAIN view = {"shown", "loading", "refused"}
  BY <1>6 DEF View
<1>9. TypeOK
  <2>1. /\ recursive \in BOOLEAN /\ staging \in BOOLEAN /\ sinkOpen \in BOOLEAN
        /\ truncated \in BOOLEAN
    BY <1>1, Zenon
  <2>2. /\ requests \in 0..MaxRequests /\ active \in 0..MaxRequests
        /\ retries \in 0..MaxRetries /\ commands \in 0..MaxCommands
    BY <1>1, Bounds
  <2>3. state \in {"loading", "waiting_retry", "ready", "unavailable", "suspended"}
    BY <1>1
  <2>4. staged \in Listing /\ saved \in Listing
    BY <1>1, <1>5
  <2>. QED
    BY <1>7, <1>8, <2>1, <2>2, <2>3, <2>4 DEF TypeOK
<1>10. Typed
  BY <1>1, <1>4, <1>6, <1>9 DEF Typed, View
<1>11. AtRest
  BY <1>1 DEF AtRest
<1>12. folder.recursive = recursive /\ wanted = active /\ active <= requests
  <2>1. folder.recursive = recursive
    BY <1>1, <1>2, Zenon
  <2>2. wanted = active /\ active <= requests
    BY <1>1
  <2>. QED
    BY <2>1, <2>2
<1>. QED
  BY <1>1, <1>3, <1>10, <1>11, <1>12 DEF IInv

LEMMA StutterKeeps ==
  ASSUME IInv, UNCHANGED vars
  PROVE  IInv'
<1>1. UNCHANGED sessionVars /\ UNCHANGED serviceVars
  BY DEF vars
<1>2. /\ UNCHANGED <<wanted, folder>> /\ UNCHANGED <<queue, terminal>> /\ worker' = worker
      /\ active' = active /\ Incoming' = Incoming /\ Got' = Got
  BY <1>1 DEF serviceVars, sessionVars, Incoming, Got, Arrived
<1>3. /\ queue' \in Seq(Batch) /\ terminal' \in Seq(Batch)
      /\ Len(queue') <= QueueCapacity /\ Len(terminal') <= 1
      /\ worker' \in [Requests -> WorkerType]
  BY <1>2, TypesAre DEF IInv
<1>4. Current(active)' <=> Current(active)
  BY <1>2 DEF Current
<1>5. state = "loading" => InOrder(Incoming', Got, active, folder) /\ WorkerFollows'
  BY <1>2, <1>4 DEF IInv, Loading, WorkerFollows
<1>6. state # "loading" => (active # 0 => ~Current(active)')
  BY <1>4 DEF IInv, AtRest
<1>7. \A g \in Requests : g > requests => worker'[g] = NoWorker
  BY <1>2 DEF IInv
<1>. QED
  BY <1>1, <1>2, <1>3, <1>5, <1>6, <1>7, ServiceKeeps

LEMMA StepKeeps == IInv /\ [Next]_vars => IInv'
<1>. SUFFICES ASSUME IInv, [Next]_vars PROVE IInv'
  OBVIOUS
<1>1. CASE User
  BY <1>1, UserKeeps
<1>2. CASE Poll
  BY <1>2, PollBatchKeeps, PollSuccessKeeps, PollFailureKeeps DEF Poll
<1>3. CASE Retry
  BY <1>3, RetryKeeps
<1>4. ASSUME NEW g \in Requests, Service(g), UNCHANGED sessionVars PROVE IInv'
  BY <1>4, ReadKeeps, DeliverKeeps, EndKeeps, TimeOutKeeps DEF Service
<1>5. CASE UNCHANGED vars
  BY <1>5, StutterKeeps
<1>. QED
  BY <1>1, <1>2, <1>3, <1>4, <1>5 DEF Next

(* Whatever is asked, cancelled, answered late or timed out: the batches   *)
(* of the request under way come to the view in order and without a gap,   *)
(* and those of any other not at all.                                      *)
THEOREM BatchesArriveInOrder == Spec => []IInv
BY InitHolds, StepKeeps, PTL DEF Spec

(* The view shows one listing, from its beginning and without a gap; the   *)
(* model is never given a batch it refuses; and what is ready and does not *)
(* say it was cut short is complete (CatalogSession::poll, publish_batch,  *)
(* publish_timeout).                                                       *)
THEOREM TheViewIsOneListing == Spec => []ViewIsOneListing
<1>1. IInv => ViewIsOneListing
  <2>. SUFFICES ASSUME IInv PROVE ViewIsOneListing
    OBVIOUS
  <2>1. TypeOK /\ view.shown \in Listing /\ ~view.refused
    BY ViewIs DEF IInv, Typed, View
  <2>2. state = "ready" /\ ~truncated => view.shown = Shown(active, folder.size)
    BY DEF IInv, AtRest
  <2>. QED
    BY <2>1, <2>2 DEF ViewIsOneListing
<1>. QED
  BY <1>1, BatchesArriveInOrder, PTL

-----------------------------------------------------------------------------
(* What a failure takes.                                                   *)

(* Some file of the view is not in its place any more. *)
Loses(old, new) == \E k \in DOMAIN old : k \notin DOMAIN new \/ new[k] # old[k]

(* A longer listing of the same request loses nothing. *)
LEMMA GrowingLosesNothing ==
  ASSUME NEW g \in Requests, NEW m \in Nat, NEW n \in Nat, m <= n
  PROVE  ~Loses(Shown(g, m), Shown(g, n))
<1>1. /\ DOMAIN Shown(g, m) = 1..m /\ DOMAIN Shown(g, n) = 1..n
      /\ \A k \in 1..m : Shown(g, m)[k] = [of |-> g, chunk |-> k]
      /\ \A k \in 1..n : Shown(g, n)[k] = [of |-> g, chunk |-> k]
  BY ShownIs, LenProperties
<1>2. \A k \in 1..m : k \in 1..n
  OBVIOUS
<1>. QED
  BY <1>1, <1>2 DEF Loses

LEMMA UnstagedLosesNothing ==
  ASSUME IInv, NEW b \in Received, Receives(b), ~Stages(b), ~Restarts(b)
  PROVE  ~Loses(view.shown, ViewWith(b).shown)
<1>1. /\ Loading /\ active \in Requests /\ Follows(b, Got, active, folder)
  BY ReceivedIs
<1>2. /\ ViewWith(b).shown = Shown(active, Reached(b)) /\ view.shown = Shown(active, Got)
  BY <1>1, ViewGrows
<1>3. Got \in Nat /\ Reached(b) \in Nat /\ Got <= Reached(b)
  BY <1>1, GotIs, FollowsCounts DEF IInv, Reached
<1>. QED
  BY <1>1, <1>2, <1>3, GrowingLosesNothing

LEMMA RestartIs ==
  ASSUME IInv, NEW b \in Received, Receives(b), Restarts(b)
  PROVE  recursive /\ ~Stages(b) /\ ViewWith(b).shown # <<>>
<1>1. /\ Loading /\ active \in Requests /\ Follows(b, Got, active, folder)
  BY ReceivedIs
<1>2. ~Stages(b) /\ recursive
  BY DEF Stages, Restarts
<1>. QED
  BY <1>1, <1>2, ViewGrows

(* The view becomes empty for a folder that is known to be empty.          *)
LEMMA ReplacedIsKnown ==
  ASSUME IInv, NEW b \in Received, Receives(b), b.final, Succeeds(b), Replaces(b),
         StagedWith(b) = <<>>
  PROVE  ~TruncatedWith(b)
<1>1. /\ Loading /\ active \in Requests /\ Follows(b, Got, active, folder) /\ b \in Batch
  BY ReceivedIs
<1>2. CASE recursive
  BY <1>2 DEF Replaces
<1>3. CASE ~recursive
  <2>1. StagedWith(b) = Shown(active, Reached(b)) /\ Reached(b) \in 0..MaxSize
    BY <1>1, StagedGrows DEF Replaces
  <2>2. Len(Shown(active, Reached(b))) = Reached(b)
    BY <1>1, <2>1, ShownIs, Bounds
  <2>3. Reached(b) = 0
    BY <2>1, <2>2, EmptySeq
  <2>4. ~(Got + Counts(b) > 0) /\ ~folder.recursive
    BY <1>3, <2>3, GotIs, FollowsCounts, <1>1 DEF Reached, IInv
  <2>5. ~b.truncated
    BY <1>1, <2>4 DEF Follows
  <2>. QED
    BY <1>1, <1>3, <2>5 DEF TruncatedWith, Loading
<1>. QED
  BY <1>2, <1>3

LEMMA SameLosesNothing == \A s : ~Loses(s, s)
BY DEF Loses

(* A listing that fails takes nothing from the view: unless the user opens *)
(* a folder, files leave it only for a listing that succeeded, or for the  *)
(* first files of a recursive one; and it becomes empty only when the      *)
(* folder is known to be (CatalogSession::poll).                           *)
THEOREM AFailureTakesNothing == Spec => FailureTakesNothing
<1>. DEFINE Taken == commands' = commands /\ Loses(view.shown, view'.shown) =>
                       \/ state' = "ready" /\ (view'.shown = <<>> => ~truncated')
                       \/ recursive /\ view'.shown # <<>>
<1>1. IInv /\ Next => Taken
  <2>. SUFFICES ASSUME IInv, Next, commands' = commands, Loses(view.shown, view'.shown)
                PROVE  \/ state' = "ready" /\ (view'.shown = <<>> => ~truncated')
                       \/ recursive /\ view'.shown # <<>>
    OBVIOUS
  <2>1. CASE User
    <3>1. commands' = commands + 1
      BY <2>1 DEF User, OpenFolder, Refresh, Suspend, ShowSubfolders, LeaveSubfolders, Command
    <3>2. commands \in Nat
      BY ViewIs, Bounds
    <3>. QED
      BY <3>1, <3>2
  <2>2. CASE Retry \/ \E g \in Requests : Service(g) /\ UNCHANGED sessionVars
    <3>1. view' = view
      BY <2>2 DEF Retry, sessionVars
    <3>. QED
      BY <3>1, SameLosesNothing
  <2>3. CASE PollBatch
    <3>1. PICK b \in Received : Receives(b) /\ view' = ViewWith(b)
      BY <2>3 DEF PollBatch
    <3>2. CASE Restarts(b)
      BY <3>1, <3>2, RestartIs
    <3>3. CASE ~Restarts(b) /\ ~Stages(b)
      BY <3>1, <3>3, UnstagedLosesNothing
    <3>4. CASE Stages(b)
      <4>1. view' = view
        BY <3>1, <3>4 DEF ViewWith
      <4>. QED
        BY <4>1, SameLosesNothing
    <3>. QED
      BY <3>2, <3>3, <3>4
  <2>4. CASE PollSuccess
    <3>1. PICK b \in Received :
            /\ Receives(b) /\ b.final /\ Succeeds(b) /\ state' = "ready"
            /\ view' = CASE Replaces(b) -> Replaced(view, StagedWith(b))
                         [] Stages(b) /\ ~Replaces(b) -> view
                         [] ~Stages(b) -> Closed(ViewWith(b))
      BY <2>4 DEF PollSuccess
    <3>2. truncated' = TruncatedWith(b) /\ view \in View
      BY <3>1, ViewIs DEF Receives
    <3>3. CASE Replaces(b)
      <4>1. view' = Replaced(view, StagedWith(b))
        BY <3>1, <3>3 DEF Replaces
      <4>2. view'.shown = StagedWith(b)
        <5>. DEFINE w == [view EXCEPT !.shown = StagedWith(b)]
        <5>1. /\ DOMAIN w = {"shown", "loading", "refused"} /\ w.shown = StagedWith(b)
          BY <3>2 DEF View
        <5>. HIDE DEF w
        <5>2. view' = [w EXCEPT !.loading = FALSE]
          BY <4>1 DEF Replaced, w
        <5>. QED
          BY <5>1, <5>2
      <4>. QED
        BY <3>1, <3>2, <3>3, <4>2, ReplacedIsKnown
    <3>4. CASE Stages(b) /\ ~Replaces(b)
      <4>1. view' = view
        BY <3>1, <3>4
      <4>. QED
        BY <4>1, SameLosesNothing
    <3>5. CASE ~Stages(b)
      <4>1. ~Replaces(b)
        BY <3>5 DEF Replaces
      <4>2. view' = Closed(ViewWith(b))
        BY <3>1, <3>5, <4>1
      <4>3. ViewWith(b) \in View
        BY <3>1, <3>5, ReceivedIs, ViewGrows
      <4>4. view'.shown = ViewWith(b).shown
        BY <4>2, <4>3, ClosedIs
      <4>5. CASE Restarts(b)
        BY <3>1, <4>4, <4>5, RestartIs
      <4>6. CASE ~Restarts(b)
        BY <3>1, <3>5, <4>4, <4>6, UnstagedLosesNothing
      <4>. QED
        BY <4>5, <4>6
    <3>. QED
      BY <3>3, <3>4, <3>5
  <2>5. CASE PollFailure
    <3>1. PICK b \in Received : Receives(b) /\ view' = LeftByFailure(b)
      BY <2>5 DEF PollFailure
    <3>2. CASE Stages(b)
      <4>1. view' = view
        BY <3>1, <3>2 DEF LeftByFailure
      <4>. QED
        BY <4>1, SameLosesNothing
    <3>3. CASE ~Stages(b)
      <4>1. view' = Closed(ViewWith(b))
        BY <3>1, <3>3 DEF LeftByFailure
      <4>2. ViewWith(b) \in View
        BY <3>1, <3>3, ReceivedIs, ViewGrows
      <4>3. view'.shown = ViewWith(b).shown
        BY <4>1, <4>2, ClosedIs
      <4>4. CASE Restarts(b)
        BY <3>1, <4>3, <4>4, RestartIs
      <4>5. CASE ~Restarts(b)
        BY <3>1, <3>3, <4>3, <4>5, UnstagedLosesNothing
      <4>. QED
        BY <4>4, <4>5
    <3>. QED
      BY <3>2, <3>3
  <2>. QED
    BY <2>1, <2>2, <2>3, <2>4, <2>5 DEF Next, Poll
<1>2. IInv /\ [Next]_vars => [Taken]_vars
  BY <1>1
<1>. HIDE DEF Taken
<1>3. [][Taken]_vars => FailureTakesNothing
  <2>1. Taken => (commands' = commands /\ (\E k \in DOMAIN view.shown :
                                k \notin DOMAIN view'.shown \/ view'.shown[k] # view.shown[k]) =>
                    \/ state' = "ready" /\ (view'.shown = <<>> => ~truncated')
                    \/ recursive /\ view'.shown # <<>>)
    BY DEF Taken, Loses
  <2>. QED
    BY <2>1, PTL DEF FailureTakesNothing
<1>. QED
  BY <1>2, <1>3, BatchesArriveInOrder, PTL DEF Spec
==============================================================================
