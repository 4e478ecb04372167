--------------------------- MODULE DurableJournal ----------------------------
(***************************************************************************)
(* DurableJournalStore (src/fileops/durable_journal.cpp) on a POSIX file   *)
(* system: a journal record is replaced by renaming files of one directory *)
(* and synchronising it.                                                   *)
(*                                                                         *)
(* `live` is the directory as processes see it; `images` holds every       *)
(* directory the disk may show after a power loss: the one of the last     *)
(* successful fsync and each one since (directory operations reach the     *)
(* disk in the order they were issued).  The owner of the journal runs one *)
(* call at a time, one system call per action; any system call may fail,   *)
(* the process may die and the power may fail between two of them.         *)
(* Another process may read the journal at any time, file by file.         *)
(***************************************************************************)
EXTENDS Naturals, FiniteSets, Sequences

CONSTANTS Payload,  \* the records a caller stores
          None,     \* no file
          Corrupt,  \* a file whose envelope does not check
          Unknown,  \* no acknowledgement is outstanding
          MaxFaults, \* bound: failed system calls and crashes of the process
          MaxDecay   \* bound: files damaged by the medium

ASSUME JournalAssumption ==
  /\ None \notin Payload /\ Corrupt \notin Payload /\ Unknown \notin Payload
  /\ None # Corrupt /\ None # Unknown /\ Corrupt # Unknown
  /\ MaxFaults \in Nat /\ MaxDecay \in Nat

VARIABLES
  live,        \* the directory: what each file holds
  images,      \* the directories a power loss may leave
  pc,          \* the owner's next system call
  call,        \* the call in progress and its local variables
  acked,       \* the record the last call, reported successful, left behind
  reader,      \* a concurrent read() of another process
  faults       \* how often the calls and the medium failed so far

vars == <<live, images, pc, call, acked, reader, faults>>

File == {"primary", "previous", "temporary", "primaryClaim", "previousClaim"}

Content == Payload \union {None, Corrupt}

Directory == [File -> Content]

Claim(f) == IF f = "primary" THEN "primaryClaim" ELSE "previousClaim"

Valid(c) == c \in Payload

(* A file and its removal claim are the same generation: the claim is      *)
(* looked at when the file is missing.                                     *)
Generation(d, f) == IF d[f] = None THEN d[Claim(f)] ELSE d[f]

(* read() *)
Older(d) == Generation(d, "previous")
Read(d) ==
  IF Valid(Generation(d, "primary")) THEN Generation(d, "primary")
  ELSE IF Valid(Older(d)) THEN Older(d)
  ELSE IF Corrupt \in {Generation(d, "primary"), Older(d)} THEN Corrupt
  ELSE None

Reg(d) == [value |-> Read(d), older |-> Older(d)]

(* op and arg: the call; rotate: a valid primary becomes the previous      *)
(* generation; slot: how far a removal is; removedAny, failed: what its    *)
(* unlinks did.                                                            *)
NoCall == [op |-> "idle", arg |-> None, rotate |-> FALSE,
           slot |-> 1, removedAny |-> FALSE, failed |-> FALSE]

NewCall(op, p, rotate) ==
  [op |-> op, arg |-> p, rotate |-> rotate, slot |-> 1,
   removedAny |-> FALSE, failed |-> FALSE]

IdleReader == [at |-> "idle", saw |-> {}, gap |-> FALSE, answer |-> Unknown]

RemovalOrder == <<"primary", "previous", "temporary", "primaryClaim", "previousClaim">>

Init ==
  /\ live = [f \in File |-> None]
  /\ images = {live}
  /\ pc = "idle"
  /\ call = NoCall
  /\ acked = None
  /\ reader = IdleReader
  /\ faults = [calls |-> 0, media |-> 0]

-----------------------------------------------------------------------------
(* What a system call does to the directory and to a concurrent reader.    *)

(* A reader's `gap` records that there was no record to find when it began *)
(* to read, or that a removal changed the directory since.                 *)
Observe ==
  LET removing == pc \in {"unlink", "claim", "unlinkClaim"} IN
    reader' = [reader EXCEPT !.gap = @ \/ (reader.at # "idle" /\ removing)]

Becomes(d) ==
  /\ live' = d
  /\ images' = images \union {d}
  /\ Observe

Nothing == UNCHANGED <<live, images, reader>>

Fsync ==
  /\ images' = {live}
  /\ UNCHANGED <<live, reader>>

Unlink(f) == Becomes([live EXCEPT ![f] = None])

Rename(f, g) == Becomes([live EXCEPT ![g] = live[f], ![f] = None])

Goto(next) == pc' = next /\ UNCHANGED <<call, acked, faults>>

Returns == pc' = "idle" /\ call' = NoCall

Answers(a) == Returns /\ acked' = a /\ UNCHANGED faults

Fault ==
  /\ faults.calls < MaxFaults
  /\ faults' = [faults EXCEPT !.calls = @ + 1]

Fails == Returns /\ UNCHANGED acked /\ Fault

Begin(next, c) ==
  /\ pc = "idle"
  /\ pc' = next /\ call' = c /\ acked' = Unknown
  /\ UNCHANGED <<live, images, reader, faults>>

-----------------------------------------------------------------------------
(* write() *)

(* MUTANT of BeginWrite: a removal in progress is not looked for. *)
BeginWriteOverClaim(p) == Begin("stage", NewCall("write", p, Valid(live["primary"])))

(* A record under removal blocks writing: the write is refused untouched.  *)
BeginWrite(p) ==
  /\ live["primaryClaim"] = None /\ live["previousClaim"] = None
  /\ Begin("stage", NewCall("write", p, Valid(live["primary"])))

(* A write that cannot go on discards its temporary file and gives up. *)
DiscardTemporary == Unlink("temporary") /\ Fails

StageTemporary ==
  /\ pc = "stage"
  /\ \/ /\ Becomes([live EXCEPT !["temporary"] = call.arg])
        /\ Goto(IF call.rotate THEN "rotate" ELSE "replace")
     \/ DiscardTemporary

(* MUTANT of RotatePrimary: the primary is given up, not kept. *)
RotateByUnlinking ==
  /\ pc = "rotate"
  /\ \/ Unlink("primary") /\ Goto("syncRotation")
     \/ DiscardTemporary

RotatePrimary ==
  /\ pc = "rotate"
  /\ \/ Rename("primary", "previous") /\ Goto("syncRotation")
     \/ DiscardTemporary

SyncRotation ==
  /\ pc = "syncRotation"
  /\ \/ Fsync /\ Goto("replace")
     \/ DiscardTemporary

ReplacePrimary ==
  /\ pc = "replace"
  /\ \/ Rename("temporary", "primary") /\ Goto("syncWrite")
     \/ DiscardTemporary

(* MUTANT of SyncWrite: success is reported before the directory is safe. *)
SyncWriteLater ==
  /\ pc = "syncWrite"
  /\ Nothing
  /\ Answers(call.arg) \/ Fails

SyncWrite ==
  /\ pc = "syncWrite"
  /\ \/ Fsync /\ Answers(call.arg)
     \/ Nothing /\ Fails

-----------------------------------------------------------------------------
(* remove() *)

BeginRemove == Begin("unlink", NewCall("remove", None, FALSE))

(* MUTANT of UnlinkNext: every other file is passed over. *)
UnlinkEveryOther ==
  /\ pc = "unlink" /\ call.slot <= Len(RemovalOrder)
  /\ Unlink(RemovalOrder[call.slot])
  /\ call' = [call EXCEPT !.slot = @ + 2, !.removedAny = TRUE]
  /\ UNCHANGED <<pc, acked, faults>>

(* Every file is tried, whatever happened to the ones before it. *)
UnlinkNext ==
  /\ pc = "unlink" /\ call.slot <= Len(RemovalOrder)
  /\ LET f == RemovalOrder[call.slot] IN
       \/ /\ Unlink(f)
          /\ call' = [call EXCEPT !.slot = @ + 1, !.removedAny = @ \/ live[f] # None]
          /\ UNCHANGED faults
       \/ /\ Nothing /\ Fault
          /\ call' = [call EXCEPT !.slot = @ + 1, !.failed = TRUE]
  /\ UNCHANGED <<pc, acked>>

(* Success without having unlinked anything acknowledges nothing: the      *)
(* directory is not synchronised.                                          *)
FinishRemove ==
  /\ pc = "unlink" /\ call.slot > Len(RemovalOrder)
  /\ \/ ~call.failed /\ call.removedAny /\ Fsync /\ Answers(None)
     \/ ~call.failed /\ call.removedAny /\ Nothing /\ Fails
     \/ call.failed /\ Nothing /\ Answers(Unknown)
     \/ ~call.failed /\ ~call.removedAny /\ Nothing /\ Answers(Unknown)

-----------------------------------------------------------------------------
(* remove_if_payload_matches(): first the primary, then the previous one.  *)

Target == IF call.slot = 1 THEN "primary" ELSE "previous"

BeginMatched(p) == Begin("compare", NewCall("matched", p, FALSE))

(* MUTANT of CompareGeneration: whatever is there is removed. *)
CompareNothing ==
  /\ pc = "compare" /\ call.slot <= 2
  /\ IF Generation(live, Target) = None
     THEN call' = [call EXCEPT !.slot = @ + 1] /\ UNCHANGED <<pc, acked, faults>>
     ELSE Goto(IF live[Target] = None THEN "unlinkClaim" ELSE "claim")
  /\ Nothing

(* A generation another removal already claimed is taken up at its unlink. *)
CompareGeneration ==
  /\ pc = "compare" /\ call.slot <= 2
  /\ LET found == Generation(live, Target) IN
       \/ /\ found = None
          /\ call' = [call EXCEPT !.slot = @ + 1]
          /\ UNCHANGED <<pc, acked, faults>>
       \/ found \notin {None, call.arg} /\ Answers(Unknown)
       \/ /\ found = call.arg
          /\ Goto(IF live[Target] = None THEN "unlinkClaim" ELSE "claim")
  /\ Nothing

ClaimGeneration ==
  /\ pc = "claim"
  /\ \/ Rename(Target, Claim(Target)) /\ Goto("syncClaim")
     \/ Nothing /\ Fails

SyncClaim ==
  /\ pc = "syncClaim"
  /\ \/ Fsync /\ Goto("unlinkClaim")
     \/ Nothing /\ Fails

(* A claim that cannot be unlinked is moved back under its own name. *)
UnlinkClaim ==
  /\ pc = "unlinkClaim"
  /\ \/ Unlink(Claim(Target)) /\ Goto("syncUnlink")
     \/ Rename(Claim(Target), Target) /\ Fails

SyncUnlink ==
  /\ pc = "syncUnlink"
  /\ \/ /\ Fsync
        /\ pc' = "compare"
        /\ call' = [call EXCEPT !.slot = @ + 1, !.removedAny = TRUE]
        /\ UNCHANGED <<acked, faults>>
     \/ Nothing /\ Fails

FinishMatched ==
  /\ pc = "compare" /\ call.slot > 2
  /\ \/ live["temporary"] # None /\ Nothing /\ Answers(Unknown)
     \/ live["temporary"] = None /\ call.removedAny /\ Fsync /\ Answers(None)
     \/ live["temporary"] = None /\ call.removedAny /\ Nothing /\ Fails
     \/ live["temporary"] = None /\ ~call.removedAny /\ Nothing /\ Answers(Unknown)

-----------------------------------------------------------------------------
(* read() in another process: one file at a time. *)

ReaderDone(answer) ==
  reader' = [at |-> "idle", saw |-> {}, gap |-> answer = None /\ reader.gap, answer |-> answer]

BeginRead ==
  /\ reader.at = "idle"
  /\ reader' = [at |-> "primary", saw |-> {}, gap |-> Read(live) = None, answer |-> Unknown]
  /\ UNCHANGED <<live, images, pc, call, acked, faults>>

(* The claim is inspected only when the file itself is missing; a corrupt  *)
(* file sends the reader to the next generation.                           *)
AfterFile(at, missing) ==
  CASE at = "primary" -> IF missing THEN "primaryClaim" ELSE "previous"
    [] at = "primaryClaim" -> "previous"
    [] at = "previous" -> IF missing THEN "previousClaim" ELSE "end"
    [] at = "previousClaim" -> "end"

ReadFile ==
  /\ reader.at # "idle"
  /\ LET found == live[reader.at]
         next  == AfterFile(reader.at, found = None)
         saw   == reader.saw \union ({found} \intersect {Corrupt}) IN
       IF Valid(found) THEN ReaderDone(found)
       ELSE IF next = "end" THEN ReaderDone(IF saw = {} THEN None ELSE Corrupt)
       ELSE reader' = [reader EXCEPT !.at = next, !.saw = saw]
  /\ UNCHANGED <<live, images, pc, call, acked, faults>>

-----------------------------------------------------------------------------
(* The environment. *)

ProcessCrash ==
  /\ pc # "idle"
  /\ Fails
  /\ UNCHANGED <<live, images, reader>>

PowerLoss ==
  /\ live' \in images
  /\ images' = {live'}
  /\ Answers(acked)
  /\ reader' = IdleReader

(* The medium damages a stored generation at rest. *)
Decay(f) ==
  /\ pc = "idle" /\ images = {live}
  /\ faults.media < MaxDecay
  /\ Valid(live[f])
  /\ live' = [live EXCEPT ![f] = Corrupt]
  /\ images' = {live'}
  /\ faults' = [faults EXCEPT !.media = @ + 1]
  /\ acked' = Unknown
  /\ Observe
  /\ UNCHANGED <<pc, call>>

Owner ==
  \/ \E p \in Payload : BeginWrite(p) \/ BeginMatched(p)
  \/ BeginRemove
  \/ StageTemporary \/ RotatePrimary \/ SyncRotation \/ ReplacePrimary \/ SyncWrite
  \/ UnlinkNext \/ FinishRemove
  \/ CompareGeneration \/ ClaimGeneration \/ SyncClaim \/ UnlinkClaim
  \/ SyncUnlink \/ FinishMatched

Next ==
  \/ Owner
  \/ BeginRead \/ ReadFile
  \/ ProcessCrash \/ PowerLoss
  \/ \E f \in {"primary", "previous"} : Decay(f)

Spec == Init /\ [][Next]_vars

-----------------------------------------------------------------------------
(* Properties *)

ReaderStates == [at : {"idle", "primary", "primaryClaim", "previous", "previousClaim"},
                 saw : SUBSET {Corrupt}, gap : BOOLEAN, answer : Content \union {Unknown}]

CallType == [op : {"idle", "write", "remove", "matched"}, arg : Payload \union {None},
             rotate : BOOLEAN, slot : 1..6,
             removedAny : BOOLEAN, failed : BOOLEAN]

FaultType == [calls : 0..MaxFaults, media : 0..MaxDecay]

(* Every variable has its type. *)
TypeOK ==
  /\ live \in Directory
  /\ images \subseteq Directory
  /\ pc \in {"idle", "stage", "rotate", "syncRotation", "replace", "syncWrite", "unlink",
             "compare", "claim", "syncClaim", "unlinkClaim", "syncUnlink"}
  /\ call \in CallType
  /\ acked \in Payload \union {None, Unknown}
  /\ reader \in ReaderStates
  /\ faults \in FaultType

(* Once write() or a removal that found something has reported success,    *)
(* every directory a later power loss may leave answers read() with that   *)
(* outcome: the record is neither lost nor does a removed one come back,   *)
(* whatever failed or crashed in the calls before it.                      *)
AcknowledgedOutcomeSurvives ==
  acked # Unknown => \A d \in images : Read(d) = acked

(* No directory that may be found after a crash holds a generation both    *)
(* under its own name and under removal: which of the two counts would be  *)
(* undecided, and the removal staging directory could not be made again.   *)
ClaimIsExclusive ==
  \A d \in images : \A f \in {"primary", "previous"} : d[f] = None \/ d[Claim(f)] = None

(* A process that reads the journal file by file while its owner rewrites  *)
(* it answers "not found" only if there was no record to find when it      *)
(* began, or a removal took files away since: writing alone, with its      *)
(* failures and crashes, never hides the pending operation.                *)
ReaderMissesNoRecord ==
  reader.at = "idle" /\ reader.answer = None => reader.gap

(* The directory in sight is one of those that may survive. *)
LiveIsPossible == live \in images

(* Only the medium produces a record that does not check. *)
DamageIsCounted ==
  \A d \in images : \A f \in File : d[f] = Corrupt => faults.media > 0

Gone(d, f) == d[f] = None /\ d[Claim(f)] = None

WriteSteps == {"stage", "rotate", "syncRotation", "replace", "syncWrite"}
MatchedSteps == {"compare", "claim", "syncClaim", "unlinkClaim", "syncUnlink"}

(* What the directory looks like before each system call of a write. *)
WriteInProgress ==
  pc \in WriteSteps =>
    /\ call.op = "write" /\ call.arg \in Payload
    /\ live["primaryClaim"] = None /\ live["previousClaim"] = None
    /\ pc = "rotate" \/ (pc = "stage" /\ call.rotate) => Valid(live["primary"])
    /\ pc \in {"rotate", "syncRotation", "replace"} => live["temporary"] = call.arg
    /\ pc = "syncWrite" => live["primary"] = call.arg

(* The files before `slot` are gone unless an unlink failed. *)
RemoveInProgress ==
  pc = "unlink" =>
    /\ call.op = "remove"
    /\ \/ call.failed
       \/ \A i \in 1..5 : i < call.slot => live[RemovalOrder[i]] = None

MatchedInProgress ==
  pc \in MatchedSteps =>
    /\ call.op = "matched" /\ call.arg \in Payload
    /\ call.slot > 1 => Gone(live, "primary")
    /\ call.slot > 2 => Gone(live, "previous")
    /\ pc # "compare" => call.slot \in {1, 2}
    /\ pc = "claim" => live[Target] = call.arg /\ live[Claim(Target)] = None
    /\ pc \in {"syncClaim", "unlinkClaim"} =>
         live[Target] = None /\ live[Claim(Target)] = call.arg
    /\ pc = "syncUnlink" => Gone(live, Target)

(* Nothing is acknowledged while a call runs. *)
IdleOwner ==
  IF pc = "idle" THEN call = NoCall ELSE acked = Unknown

IInv ==
  /\ TypeOK
  /\ LiveIsPossible
  /\ ClaimIsExclusive
  /\ DamageIsCounted
  /\ AcknowledgedOutcomeSurvives
  /\ WriteInProgress
  /\ RemoveInProgress
  /\ MatchedInProgress
  /\ IdleOwner

(* The journal implements the two-generation register. *)
JR == INSTANCE JournalRegister WITH
        reg <- Reg(live),
        survivors <- {Reg(d) : d \in images},
        call <- [op |-> call.op, arg |-> call.arg],
        decays <- faults.media

ImplementsRegister == JR!Spec
==============================================================================
