------------------------ MODULE DurableJournalProofs -------------------------
(***************************************************************************)
(* Proofs about DurableJournal for every set of records and every number   *)
(* of failures: the inductive invariant, the survival of acknowledged      *)
(* outcomes, and the implementation of JournalRegister.                    *)
(***************************************************************************)
EXTENDS DurableJournal, TLAPS

Whole(d) ==
  /\ d \in Directory
  /\ \A f \in {"primary", "previous"} : d[f] = None \/ d[Claim(f)] = None
  /\ \A f \in File : d[f] = Corrupt => faults.media > 0

(* Every directory that may survive is a well-formed one. *)
LEMMA ImagesAreWhole ==
  ASSUME IInv PROVE Whole(live) /\ \A d \in images : Whole(d)
BY DEF IInv, TypeOK, LiveIsPossible, ClaimIsExclusive, DamageIsCounted, Whole

(* A system call that turns a well-formed directory into another one keeps *)
(* the invariants about directories and the type of the reader.            *)
LEMMA BecomesKeepsWhole ==
  ASSUME IInv, NEW d, Becomes(d), Whole(d), faults'.media = faults.media
  PROVE  /\ live' \in Directory /\ images' \subseteq Directory /\ reader' \in ReaderStates
         /\ LiveIsPossible' /\ ClaimIsExclusive' /\ DamageIsCounted'
<1>1. images' = images \union {d} /\ live' = d
  BY DEF Becomes
<1>2. \A e \in images' : Whole(e)
  BY <1>1, ImagesAreWhole
<1>3. reader' \in ReaderStates
  BY DEF Becomes, Observe, IInv, TypeOK, ReaderStates
<1> QED
  BY <1>1, <1>2, <1>3 DEF Whole, LiveIsPossible, ClaimIsExclusive, DamageIsCounted

LEMMA NothingKeepsWhole ==
  ASSUME IInv, Nothing, faults'.media = faults.media
  PROVE  /\ live' \in Directory /\ images' \subseteq Directory /\ reader' \in ReaderStates
         /\ LiveIsPossible' /\ ClaimIsExclusive' /\ DamageIsCounted'
BY DEF IInv, TypeOK, Nothing, LiveIsPossible, ClaimIsExclusive, DamageIsCounted

LEMMA FsyncKeepsWhole ==
  ASSUME IInv, Fsync, faults'.media = faults.media
  PROVE  /\ live' \in Directory /\ images' \subseteq Directory /\ reader' \in ReaderStates
         /\ LiveIsPossible' /\ ClaimIsExclusive' /\ DamageIsCounted'
BY DEF IInv, TypeOK, Fsync, LiveIsPossible, ClaimIsExclusive, DamageIsCounted

(* A call that ends leaves nothing to say about calls in progress. *)
LEMMA ReturningKeepsCalls ==
  ASSUME IInv, Returns, acked' = acked, pc # "idle",
         faults' \in FaultType,
         live' \in Directory, images' \subseteq Directory, reader' \in ReaderStates
  PROVE  /\ TypeOK' /\ IdleOwner'
         /\ WriteInProgress' /\ RemoveInProgress' /\ MatchedInProgress'
         /\ AcknowledgedOutcomeSurvives'
<1>1. NoCall \in CallType
  BY DEF NoCall, Content, CallType
<1>2. pc' = "idle" /\ call' = NoCall /\ acked' = Unknown
  BY DEF Returns, IInv, IdleOwner
<1>3. TypeOK'
  BY <1>1, <1>2 DEF TypeOK
<1> QED
  BY <1>2, <1>3 DEF IdleOwner, WriteInProgress, RemoveInProgress, MatchedInProgress,
     AcknowledgedOutcomeSurvives, WriteSteps, MatchedSteps

-----------------------------------------------------------------------------
(* The steps of a write. *)

LEMMA NoCallTyped ==
  NoCall \in CallType
BY DEF NoCall, Content, CallType

LEMMA RegTyped ==
  ASSUME NEW d \in Directory PROVE Reg(d) \in [value : Content, older : Content]
<1>1. Generation(d, "primary") \in Content /\ Generation(d, "previous") \in Content
  BY DEF Directory, Generation, Claim, File
<1> QED
  BY <1>1 DEF Reg, Read, Older, Content, Valid

(* A call that fails keeps the invariant if its last system call left a    *)
(* well-formed directory.                                                  *)
LEMMA FailingKeepsInvariant ==
  ASSUME IInv, Fails, pc # "idle", Nothing \/ \E d : Whole(d) /\ Becomes(d)
  PROVE  IInv'
<1>1. faults'.media = faults.media /\ faults' \in FaultType
  BY JournalAssumption DEF Fails, Fault, IInv, TypeOK, FaultType
<1>2. /\ live' \in Directory /\ images' \subseteq Directory /\ reader' \in ReaderStates
      /\ LiveIsPossible' /\ ClaimIsExclusive' /\ DamageIsCounted'
  BY <1>1, BecomesKeepsWhole, NothingKeepsWhole
<1> QED
  BY <1>1, <1>2, ReturningKeepsCalls DEF Fails, IInv

LEMMA DiscardKeepsInvariant ==
  ASSUME IInv, pc \in WriteSteps, DiscardTemporary PROVE IInv'
<1>1. Whole([live EXCEPT !["temporary"] = None])
  BY ImagesAreWhole, JournalAssumption DEF Whole, Directory, File, Claim, Content
<1> QED
  BY <1>1, FailingKeepsInvariant DEF DiscardTemporary, Unlink, WriteSteps

(* What remains to show of a step that goes on within a call. *)
LEMMA GoingOn ==
  ASSUME IInv, TypeOK', faults'.media = faults.media, acked' = acked, pc # "idle", pc' # "idle",
         Fsync \/ Nothing \/ \E d : Whole(d) /\ Becomes(d),
         WriteInProgress', RemoveInProgress', MatchedInProgress'
  PROVE  IInv'
<1>1. LiveIsPossible' /\ ClaimIsExclusive' /\ DamageIsCounted'
  BY BecomesKeepsWhole, NothingKeepsWhole, FsyncKeepsWhole
<1>2. acked = Unknown
  BY DEF IInv, IdleOwner
<1> QED
  BY <1>1, <1>2 DEF IInv, IdleOwner, AcknowledgedOutcomeSurvives

LEMMA Typed ==
  ASSUME IInv, faults' = faults, acked' = acked,
         Fsync \/ Nothing \/ \E d : Whole(d) /\ Becomes(d)
  PROVE  /\ live' \in Directory /\ images' \subseteq Directory /\ reader' \in ReaderStates
         /\ faults' \in FaultType
         /\ acked' \in Payload \union {None, Unknown}
BY BecomesKeepsWhole, NothingKeepsWhole, FsyncKeepsWhole DEF IInv, TypeOK

LEMMA StageStep == ASSUME IInv, StageTemporary PROVE IInv'
<1>1. CASE DiscardTemporary
  BY <1>1, DiscardKeepsInvariant DEF StageTemporary, WriteSteps
<1>2. CASE /\ Becomes([live EXCEPT !["temporary"] = call.arg])
           /\ Goto(IF call.rotate THEN "rotate" ELSE "replace")
  <2>1. call.arg \in Payload
    BY DEF StageTemporary, IInv, WriteInProgress, WriteSteps
  <2>2. Whole([live EXCEPT !["temporary"] = call.arg])
    BY <2>1, ImagesAreWhole, JournalAssumption DEF Whole, Directory, File, Claim, Content
  <2>3. TypeOK'
    BY <1>2, <2>2, Typed DEF Goto, TypeOK, IInv
  <2>4. WriteInProgress' /\ RemoveInProgress' /\ MatchedInProgress'
    BY <1>2, <2>1 DEF StageTemporary, IInv, TypeOK, WriteInProgress, WriteSteps, RemoveInProgress,
       MatchedInProgress, MatchedSteps, Goto, Becomes, Directory, File
  <2> QED
    BY <1>2, <2>2, <2>3, <2>4, GoingOn DEF StageTemporary, Goto
<1> QED
  BY <1>1, <1>2 DEF StageTemporary

LEMMA RotateStep == ASSUME IInv, RotatePrimary PROVE IInv'
<1>1. CASE DiscardTemporary
  BY <1>1, DiscardKeepsInvariant DEF RotatePrimary, WriteSteps
<1>2. CASE Rename("primary", "previous") /\ Goto("syncRotation")
  <2> DEFINE d == [live EXCEPT !["previous"] = live["primary"], !["primary"] = None]
  <2>1. Whole(d) /\ Becomes(d)
    BY <1>2, ImagesAreWhole, JournalAssumption
    DEF Rename, RotatePrimary, IInv, WriteInProgress, WriteSteps,
        Whole, Directory, File, Claim, Content
  <2>2. TypeOK'
    BY <1>2, <2>1, Typed DEF Goto, TypeOK, IInv
  <2>3. WriteInProgress' /\ RemoveInProgress' /\ MatchedInProgress'
    BY <1>2, <2>1 DEF RotatePrimary, IInv, TypeOK, WriteInProgress, WriteSteps, RemoveInProgress,
       MatchedInProgress, MatchedSteps, Goto, Becomes, Directory, File
  <2> QED
    BY <1>2, <2>1, <2>2, <2>3, GoingOn DEF RotatePrimary, Goto
<1> QED
  BY <1>1, <1>2 DEF RotatePrimary

LEMMA SyncRotationStep == ASSUME IInv, SyncRotation PROVE IInv'
<1>1. CASE DiscardTemporary
  BY <1>1, DiscardKeepsInvariant DEF SyncRotation, WriteSteps
<1>2. CASE Fsync /\ Goto("replace")
  <2>1. TypeOK'
    BY <1>2, Typed DEF Goto, TypeOK, IInv
  <2>2. WriteInProgress' /\ RemoveInProgress' /\ MatchedInProgress'
    BY <1>2 DEF SyncRotation, IInv, TypeOK, WriteInProgress, WriteSteps, RemoveInProgress,
       MatchedInProgress, MatchedSteps, Goto, Fsync
  <2> QED
    BY <1>2, <2>1, <2>2, GoingOn DEF SyncRotation, Goto
<1> QED
  BY <1>1, <1>2 DEF SyncRotation

LEMMA ReplaceStep == ASSUME IInv, ReplacePrimary PROVE IInv'
<1>1. CASE DiscardTemporary
  BY <1>1, DiscardKeepsInvariant DEF ReplacePrimary, WriteSteps
<1>2. CASE Rename("temporary", "primary") /\ Goto("syncWrite")
  <2> DEFINE d == [live EXCEPT !["primary"] = live["temporary"], !["temporary"] = None]
  <2>1. Whole(d) /\ Becomes(d)
    BY <1>2, ImagesAreWhole, JournalAssumption
    DEF Rename, ReplacePrimary, IInv, WriteInProgress, WriteSteps,
        Whole, Directory, File, Claim, Content
  <2>2. TypeOK'
    BY <1>2, <2>1, Typed DEF Goto, TypeOK, IInv
  <2>3. WriteInProgress' /\ RemoveInProgress' /\ MatchedInProgress'
    BY <1>2, <2>1 DEF ReplacePrimary, IInv, TypeOK, WriteInProgress, WriteSteps, RemoveInProgress,
       MatchedInProgress, MatchedSteps, Goto, Becomes, Directory, File
  <2> QED
    BY <1>2, <2>1, <2>2, <2>3, GoingOn DEF ReplacePrimary, Goto
<1> QED
  BY <1>1, <1>2 DEF ReplacePrimary

(* A call that ends well: only what it acknowledges is left to show. *)
LEMMA AnsweringKeepsInvariant ==
  ASSUME IInv, NEW a \in Payload \union {None, Unknown}, Answers(a), Fsync \/ Nothing,
         a # Unknown => Fsync /\ Read(live) = a
  PROVE  IInv'
<1>1. faults' = faults /\ acked' = a /\ pc' = "idle" /\ call' = NoCall
  BY DEF Answers, Returns
<1>2. /\ live' \in Directory /\ images' \subseteq Directory /\ reader' \in ReaderStates
      /\ LiveIsPossible' /\ ClaimIsExclusive' /\ DamageIsCounted'
  BY <1>1, NothingKeepsWhole, FsyncKeepsWhole
<1>3. TypeOK'
  BY <1>1, <1>2, NoCallTyped DEF IInv, TypeOK
<1>4. AcknowledgedOutcomeSurvives'
  <2>1. a # Unknown => images' = {live}
    BY DEF Fsync
  <2> QED
    BY <1>1, <2>1 DEF AcknowledgedOutcomeSurvives
<1> QED
  BY <1>1, <1>2, <1>3, <1>4 DEF IInv, IdleOwner, WriteInProgress, RemoveInProgress,
     MatchedInProgress, WriteSteps, MatchedSteps

LEMMA SyncWriteStep == ASSUME IInv, SyncWrite PROVE IInv'
<1>1. CASE Nothing /\ Fails
  BY <1>1, FailingKeepsInvariant DEF SyncWrite
<1>2. CASE Fsync /\ Answers(call.arg)
  <2>1. call.arg \in Payload /\ live["primary"] = call.arg
    BY DEF SyncWrite, IInv, WriteInProgress, WriteSteps
  <2>2. Read(live) = call.arg
    BY <2>1, JournalAssumption DEF Read, Generation, Valid
  <2> QED
    BY <1>2, <2>1, <2>2, AnsweringKeepsInvariant
<1> QED
  BY <1>1, <1>2 DEF SyncWrite

(* A call begins. *)
LEMMA BeginStep ==
  ASSUME IInv, NEW next \in {"stage", "unlink", "compare"},
         NEW op \in {"write", "remove", "matched"}, NEW p \in Payload \union {None},
         NEW rot \in BOOLEAN, Begin(next, NewCall(op, p, rot)),
         next = "stage" => /\ op = "write" /\ p \in Payload
                           /\ live["primaryClaim"] = None /\ live["previousClaim"] = None
                           /\ rot => Valid(live["primary"]),
         next = "unlink" => op = "remove",
         next = "compare" => op = "matched" /\ p \in Payload
  PROVE  IInv'
<1>1. /\ pc' = next /\ call' = NewCall(op, p, rot) /\ acked' = Unknown
      /\ live' = live /\ images' = images /\ reader' = reader /\ faults' = faults
  BY DEF Begin
<1>c. /\ call' \in CallType
      /\ call'.op = op /\ call'.arg = p /\ call'.slot = 1
      /\ call'.rotate = rot
  BY <1>1 DEF NewCall, CallType
<1>2. TypeOK' /\ LiveIsPossible' /\ ClaimIsExclusive' /\ DamageIsCounted'
  BY <1>1, <1>c DEF IInv, TypeOK, LiveIsPossible, ClaimIsExclusive, DamageIsCounted
<1>3. WriteInProgress'
  BY <1>1, <1>c DEF WriteInProgress, WriteSteps
<1>4. RemoveInProgress'
  BY <1>1, <1>c DEF RemoveInProgress, Reg, Read, Older, Generation
<1>5. MatchedInProgress'
  BY <1>1, <1>c DEF MatchedInProgress, MatchedSteps, Reg, Read, Older, Generation
<1> QED
  BY <1>1, <1>2, <1>3, <1>4, <1>5 DEF IInv, IdleOwner, AcknowledgedOutcomeSurvives

LEMMA BeginSteps ==
  ASSUME IInv, BeginRemove \/ \E p \in Payload : BeginWrite(p) \/ BeginMatched(p)
  PROVE  IInv'
<1>1. CASE BeginRemove
  BY <1>1, BeginStep DEF BeginRemove
<1>2. ASSUME NEW p \in Payload, BeginWrite(p) PROVE IInv'
  <2>1. Valid(live["primary"]) \in BOOLEAN
    BY DEF Valid
  <2> QED
    BY <1>2, <2>1, BeginStep DEF BeginWrite
<1>3. ASSUME NEW p \in Payload, BeginMatched(p) PROVE IInv'
  BY <1>3, BeginStep DEF BeginMatched
<1> QED
  BY <1>1, <1>2, <1>3

-----------------------------------------------------------------------------
(* The steps of the removals. *)

LEMMA Unlinked ==
  ASSUME IInv, NEW f \in File PROVE Whole([live EXCEPT ![f] = None])
BY ImagesAreWhole, JournalAssumption DEF Whole, Directory, File, Claim, Content

LEMMA RemovalOrderNames ==
  /\ \A i \in 1..5 : RemovalOrder[i] \in File
  /\ Len(RemovalOrder) = 5
  /\ \A f \in File : \E i \in 1..5 : RemovalOrder[i] = f
BY DEF RemovalOrder, File

LEMMA UnlinkStep == ASSUME IInv, UnlinkNext PROVE IInv'
<1> DEFINE f == RemovalOrder[call.slot]
<1>1. /\ pc = "unlink" /\ pc' = "unlink" /\ acked' = acked /\ call.slot \in 1..5
      /\ call.op = "remove"
  BY RemovalOrderNames DEF UnlinkNext, IInv, TypeOK, CallType, RemoveInProgress
<1>2. f \in File
  BY <1>1, RemovalOrderNames
<1>3. WriteInProgress' /\ MatchedInProgress'
  BY <1>1 DEF WriteInProgress, WriteSteps, MatchedInProgress, MatchedSteps
<1>4. CASE /\ Nothing /\ Fault
           /\ call' = [call EXCEPT !.slot = @ + 1, !.failed = TRUE]
  <2>1. faults'.media = faults.media /\ faults' \in FaultType
    BY <1>4, JournalAssumption DEF Fault, IInv, TypeOK, FaultType
  <2>a. /\ call' \in CallType /\ call'.op = "remove" /\ call'.failed
    <3> DEFINE n == call.slot + 1
               b == TRUE
    <3>1. call \in CallType /\ n \in 1..6 /\ b \in BOOLEAN
      BY <1>1 DEF IInv, TypeOK
    <3>2. call' = [call EXCEPT !.slot = n, !.failed = b]
      BY <1>4
    <3>3. b
      OBVIOUS
    <3> HIDE DEF n, b
    <3> QED
      BY <1>1, <3>1, <3>2, <3>3 DEF CallType
  <2>2. TypeOK'
    BY <1>1, <1>4, <2>1, <2>a, NothingKeepsWhole DEF IInv, TypeOK
  <2>3. RemoveInProgress'
    BY <1>1, <1>4, <2>a DEF IInv, TypeOK, RemoveInProgress, Nothing
  <2> QED
    BY <1>1, <1>3, <1>4, <2>1, <2>2, <2>3, GoingOn
<1>5. CASE /\ Unlink(f)
           /\ call' = [call EXCEPT !.slot = @ + 1, !.removedAny = @ \/ live[f] # None]
           /\ UNCHANGED faults
  <2>1. Whole([live EXCEPT ![f] = None]) /\ Becomes([live EXCEPT ![f] = None])
    BY <1>2, <1>5, Unlinked DEF Unlink
  <2>2. /\ call' \in CallType
        /\ call'.op = "remove" /\ call'.slot = call.slot + 1 /\ call'.failed = call.failed
        /\ call'.removedAny = (call.removedAny \/ live[f] # None)
    <3> DEFINE n == call.slot + 1
               b == call.removedAny \/ live[f] # None
    <3>1. call \in CallType /\ n \in 1..6 /\ b \in BOOLEAN
      BY <1>1 DEF IInv, TypeOK, CallType
    <3>2. call' = [call EXCEPT !.slot = n, !.removedAny = b]
      BY <1>5
    <3>3. n = call.slot + 1 /\ b = (call.removedAny \/ live[f] # None)
      OBVIOUS
    <3> HIDE DEF n, b
    <3>4. /\ call' \in CallType /\ call'.slot = n /\ call'.removedAny = b
          /\ call'.op = call.op /\ call'.failed = call.failed
      BY <3>1, <3>2 DEF CallType
    <3> QED
      BY <1>1, <3>3, <3>4
  <2>3. TypeOK'
    BY <1>1, <1>5, <2>1, <2>2, Typed DEF IInv, TypeOK
  <2>4. live' = [live EXCEPT ![f] = None] /\ live \in Directory
    BY <2>1 DEF Becomes, IInv, TypeOK
  <2>5. ASSUME ~call'.failed, NEW i \in 1..5, i < call'.slot PROVE live'[RemovalOrder[i]] = None
    <3>1. CASE i = call.slot
      BY <1>2, <2>4, <3>1 DEF Directory
    <3>2. CASE i < call.slot
      <4>1. live[RemovalOrder[i]] = None
        BY <1>1, <2>2, <2>5, <3>2 DEF IInv, RemoveInProgress
      <4> QED
        BY <1>2, <2>4, <4>1, RemovalOrderNames DEF Directory
    <3> QED
      BY <1>1, <2>2, <2>5, <3>1, <3>2
  <2>7. RemoveInProgress'
    BY <1>1, <2>2, <2>5 DEF RemoveInProgress
  <2> QED
    BY <1>1, <1>3, <1>5, <2>1, <2>3, <2>7, GoingOn
<1> QED
  BY <1>4, <1>5 DEF UnlinkNext

(* Once every generation is gone, nothing is readable. *)
LEMMA GoneIsUnreadable ==
  ASSUME NEW d, Gone(d, "primary"), Gone(d, "previous") PROVE Reg(d) = [value |-> None, older |-> None] /\ Read(d) = None
BY JournalAssumption DEF Gone, Reg, Read, Older, Generation, Claim, Valid

LEMMA FinishRemoveStep == ASSUME IInv, FinishRemove PROVE IInv'
<1>1. pc = "unlink" /\ call.slot = 6
  BY RemovalOrderNames DEF FinishRemove, IInv, TypeOK, CallType
<1>2. ~call.failed => Read(live) = None
  <2>1. ~call.failed => \A i \in 1..5 : live[RemovalOrder[i]] = None
    BY <1>1 DEF IInv, RemoveInProgress
  <2>2. ~call.failed => \A f \in File : live[f] = None
    BY <2>1, RemovalOrderNames
  <2> QED
    BY <2>2, GoneIsUnreadable DEF Gone, Claim, File
<1>3. CASE ~call.failed /\ call.removedAny /\ Fsync /\ Answers(None)
  BY <1>2, <1>3, AnsweringKeepsInvariant
<1>4. CASE ~call.failed /\ call.removedAny /\ Nothing /\ Fails
  BY <1>1, <1>4, FailingKeepsInvariant
<1>5. CASE Nothing /\ Answers(Unknown)
  BY <1>5, AnsweringKeepsInvariant
<1> QED
  BY <1>3, <1>4, <1>5 DEF FinishRemove

(* A matched removal goes on to the previous generation, or to its end.    *)
LEMMA NextGeneration ==
  ASSUME IInv, pc \in {"compare", "syncUnlink"}, call.slot \in {1, 2}, NEW b \in BOOLEAN,
         call' = [call EXCEPT !.slot = call.slot + 1, !.removedAny = b]
         \/ (b = call.removedAny /\ call' = [call EXCEPT !.slot = call.slot + 1])
  PROVE  /\ call' \in CallType /\ call'.slot = call.slot + 1 /\ call'.removedAny = b
         /\ call'.op = call.op /\ call'.arg = call.arg
<1> DEFINE n == call.slot + 1
<1>1. call \in CallType /\ n \in 1..6
  BY DEF IInv, TypeOK
<1>2. \/ call' = [call EXCEPT !.slot = n, !.removedAny = b]
      \/ b = call.removedAny /\ call' = [call EXCEPT !.slot = n]
  OBVIOUS
<1>3. n = call.slot + 1
  OBVIOUS
<1> HIDE DEF n
<1> QED
  BY <1>1, <1>2, <1>3 DEF CallType

LEMMA CompareStep == ASSUME IInv, CompareGeneration PROVE IInv'
<1> DEFINE found == Generation(live, Target)
<1>1. pc = "compare" /\ call.slot \in {1, 2} /\ Nothing
  BY DEF CompareGeneration, IInv, TypeOK, CallType
<1>2. call.op = "matched" /\ call.arg \in Payload
  BY <1>1 DEF IInv, MatchedInProgress, MatchedSteps
<1>3. CASE found = None /\ call' = [call EXCEPT !.slot = @ + 1] /\ UNCHANGED <<pc, acked, faults>>
  <2>1. /\ call' \in CallType /\ call'.slot = call.slot + 1 /\ call'.removedAny = call.removedAny
        /\ call'.op = call.op /\ call'.arg = call.arg
    BY <1>1, <1>3, NextGeneration DEF IInv, TypeOK, CallType
  <2>2. TypeOK'
    BY <1>1, <1>3, <2>1, Typed DEF IInv, TypeOK
  <2>3. Gone(live, Target)
    BY <1>3 DEF Gone, Generation
  <2>4. MatchedInProgress'
    BY <1>1, <1>2, <1>3, <2>1, <2>3
    DEF IInv, MatchedInProgress, MatchedSteps, Nothing, Target, Gone, Reg, Read, Older, Generation
  <2>5. WriteInProgress' /\ RemoveInProgress'
    BY <1>1, <1>3 DEF WriteInProgress, WriteSteps, RemoveInProgress
  <2> QED
    BY <1>1, <1>3, <2>2, <2>4, <2>5, GoingOn
<1>4. CASE Answers(Unknown)
  BY <1>1, <1>4, AnsweringKeepsInvariant
<1>5. CASE found = call.arg /\ Goto(IF live[Target] = None THEN "unlinkClaim" ELSE "claim")
  <2>1. TypeOK'
    BY <1>1, <1>5, Typed DEF IInv, TypeOK, Goto
  <2>2. WriteInProgress' /\ RemoveInProgress'
    BY <1>1, <1>5 DEF WriteInProgress, WriteSteps, RemoveInProgress, Goto
  <2>3. live[Target] # None => live[Claim(Target)] = None
    BY <1>1, ImagesAreWhole DEF Whole, Target
  <2>5. /\ call.slot > 1 => Gone(live, "primary")
        /\ call.slot > 2 => Gone(live, "previous")
    BY <1>1 DEF IInv, MatchedInProgress, MatchedSteps
  <2>6. /\ call' = call /\ live' = live /\ Target' = Target
        /\ pc' = IF live[Target] = None THEN "unlinkClaim" ELSE "claim"
    BY <1>1, <1>5 DEF Nothing, Goto, Target
  <2>7. /\ Reg(live)' = Reg(live) /\ Gone(live, "primary")' = Gone(live, "primary")
        /\ Gone(live, "previous")' = Gone(live, "previous")
    BY <2>6 DEF Reg, Read, Older, Generation, Gone
  <2>8. MatchedInProgress'
    BY <1>1, <1>2, <1>5, <2>3, <2>5, <2>6, <2>7
    DEF MatchedInProgress, MatchedSteps, Generation, Claim
  <2> QED
    BY <1>1, <1>5, <2>1, <2>2, <2>8, GoingOn DEF Goto
<1> QED
  BY <1>3, <1>4, <1>5 DEF CompareGeneration

(* A generation under removal keeps being the same generation. *)
LEMMA ClaimKeepsReg ==
  ASSUME NEW d \in Directory, NEW f \in {"primary", "previous"}, NEW e,
         d[f] = None \/ d[Claim(f)] = None,
         \/ d[Claim(f)] = None /\ e = [d EXCEPT ![Claim(f)] = d[f], ![f] = None]
         \/ d[f] = None /\ e = [d EXCEPT ![f] = d[Claim(f)], ![Claim(f)] = None]
  PROVE  Reg(e) = Reg(d)
<1>1. Generation(e, "primary") = Generation(d, "primary")
  BY DEF Generation, Claim, Directory, File
<1>2. Generation(e, "previous") = Generation(d, "previous")
  BY DEF Generation, Claim, Directory, File
<1> QED
  BY <1>1, <1>2 DEF Reg, Read, Older

LEMMA ClaimStep == ASSUME IInv, ClaimGeneration PROVE IInv'
<1>1. /\ pc = "claim" /\ Target \in {"primary", "previous"} /\ live \in Directory
      /\ live[Target] = call.arg /\ live[Claim(Target)] = None
  BY DEF ClaimGeneration, IInv, TypeOK, MatchedInProgress, MatchedSteps, Target
<1>2. CASE Nothing /\ Fails
  BY <1>1, <1>2, FailingKeepsInvariant
<1>3. CASE Rename(Target, Claim(Target)) /\ Goto("syncClaim")
  <2> DEFINE d == [live EXCEPT ![Claim(Target)] = live[Target], ![Target] = None]
  <2>1. Whole(d) /\ Becomes(d) /\ live' = d
    BY <1>1, <1>3, ImagesAreWhole, JournalAssumption
    DEF Rename, Whole, Directory, File, Claim, Content, Becomes
  <2>2. TypeOK'
    BY <1>3, <2>1, Typed DEF Goto, TypeOK, IInv
  <2>3. Reg(live') = Reg(live)
    BY <1>1, <2>1, ClaimKeepsReg
  <2>4. WriteInProgress' /\ RemoveInProgress'
    BY <1>3 DEF WriteInProgress, WriteSteps, RemoveInProgress, Goto
  <2>5. MatchedInProgress'
    BY <1>1, <1>3, <2>1, <2>3
    DEF IInv, MatchedInProgress, MatchedSteps, Goto, Target, Claim, Gone, Directory, File,
        Reg, Read, Older, Generation
  <2> QED
    BY <1>1, <1>3, <2>1, <2>2, <2>4, <2>5, GoingOn DEF Goto
<1> QED
  BY <1>2, <1>3 DEF ClaimGeneration

LEMMA SyncClaimStep == ASSUME IInv, SyncClaim PROVE IInv'
<1>1. CASE Nothing /\ Fails
  BY <1>1, FailingKeepsInvariant DEF SyncClaim
<1>2. CASE Fsync /\ Goto("unlinkClaim")
  <2>1. TypeOK'
    BY <1>2, Typed DEF Goto, TypeOK, IInv
  <2>2. WriteInProgress' /\ RemoveInProgress'
    BY <1>2 DEF WriteInProgress, WriteSteps, RemoveInProgress, Goto
  <2>3. MatchedInProgress'
    BY <1>2 DEF SyncClaim, IInv, MatchedInProgress, MatchedSteps, Goto, Fsync, Target, Gone,
       Reg, Read, Older, Generation
  <2> QED
    BY <1>2, <2>1, <2>2, <2>3, GoingOn DEF SyncClaim, Goto
<1> QED
  BY <1>1, <1>2 DEF SyncClaim

LEMMA UnlinkClaimStep == ASSUME IInv, UnlinkClaim PROVE IInv'
<1>1. /\ pc = "unlinkClaim" /\ Target \in {"primary", "previous"} /\ live \in Directory
      /\ live[Target] = None /\ Claim(Target) \in File
  BY DEF UnlinkClaim, IInv, TypeOK, MatchedInProgress, MatchedSteps, Target, Claim, File
<1>2. CASE Rename(Claim(Target), Target) /\ Fails
  <2> DEFINE d == [live EXCEPT ![Target] = live[Claim(Target)], ![Claim(Target)] = None]
  <2>1. Whole(d) /\ Becomes(d)
    BY <1>1, <1>2, ImagesAreWhole, JournalAssumption
    DEF Rename, Whole, Directory, File, Claim, Content
  <2> QED
    BY <1>1, <1>2, <2>1, FailingKeepsInvariant
<1>3. CASE Unlink(Claim(Target)) /\ Goto("syncUnlink")
  <2> DEFINE d == [live EXCEPT ![Claim(Target)] = None]
  <2>1. Whole(d) /\ Becomes(d) /\ live' = d
    BY <1>1, <1>3, Unlinked DEF Unlink, Becomes
  <2>2. TypeOK'
    BY <1>3, <2>1, Typed DEF Goto, TypeOK, IInv
  <2>3. WriteInProgress' /\ RemoveInProgress'
    BY <1>3 DEF WriteInProgress, WriteSteps, RemoveInProgress, Goto
  <2>4. MatchedInProgress'
    BY <1>1, <1>3, <2>1
    DEF IInv, MatchedInProgress, MatchedSteps, Goto, Target, Claim, Gone, Directory, File
  <2> QED
    BY <1>1, <1>3, <2>1, <2>2, <2>3, <2>4, GoingOn DEF Goto
<1> QED
  BY <1>2, <1>3 DEF UnlinkClaim

LEMMA SyncUnlinkStep == ASSUME IInv, SyncUnlink PROVE IInv'
<1>1. pc = "syncUnlink" /\ call.slot \in {1, 2}
  BY DEF SyncUnlink, IInv, MatchedInProgress, MatchedSteps
<1>2. CASE Nothing /\ Fails
  BY <1>1, <1>2, FailingKeepsInvariant
<1>3. CASE /\ Fsync /\ pc' = "compare"
           /\ call' = [call EXCEPT !.slot = @ + 1, !.removedAny = TRUE]
           /\ UNCHANGED <<acked, faults>>
  <2>1. /\ call' \in CallType /\ call'.slot = call.slot + 1 /\ call'.removedAny = TRUE
        /\ call'.op = call.op /\ call'.arg = call.arg
    BY <1>1, <1>3, NextGeneration
  <2>2. TypeOK'
    BY <1>3, <2>1, Typed DEF IInv, TypeOK
  <2>3. MatchedInProgress'
    BY <1>1, <1>3, <2>1
    DEF IInv, MatchedInProgress, MatchedSteps, Fsync, Target, Gone
  <2>4. WriteInProgress' /\ RemoveInProgress'
    BY <1>3 DEF WriteInProgress, WriteSteps, RemoveInProgress
  <2> QED
    BY <1>1, <1>3, <2>2, <2>3, <2>4, GoingOn
<1> QED
  BY <1>2, <1>3 DEF SyncUnlink

LEMMA FinishMatchedStep == ASSUME IInv, FinishMatched PROVE IInv'
<1>1. pc = "compare" /\ Read(live) = None
  <2>1. pc = "compare" /\ call.slot \in Nat /\ call.slot > 2
    BY DEF FinishMatched, IInv, TypeOK, CallType
  <2>2. Gone(live, "primary") /\ Gone(live, "previous")
    BY <2>1 DEF IInv, MatchedInProgress, MatchedSteps
  <2> QED
    BY <2>1, <2>2, GoneIsUnreadable
<1>2. CASE Nothing /\ Answers(Unknown)
  BY <1>2, AnsweringKeepsInvariant
<1>3. CASE Fsync /\ Answers(None)
  BY <1>1, <1>3, AnsweringKeepsInvariant
<1>4. CASE Nothing /\ Fails
  BY <1>1, <1>4, FailingKeepsInvariant
<1> QED
  BY <1>2, <1>3, <1>4 DEF FinishMatched

-----------------------------------------------------------------------------
(* The reader and the environment. *)

LEMMA ReaderStep == ASSUME IInv, BeginRead \/ ReadFile PROVE IInv'
<1>1. UNCHANGED <<live, images, pc, call, acked, faults>>
  BY DEF BeginRead, ReadFile
<1>2. reader' \in ReaderStates
  <2>1. CASE BeginRead
    BY <2>1 DEF BeginRead, ReaderStates
  <2>2. CASE ReadFile
    <3> DEFINE found == live[reader.at]
               next == AfterFile(reader.at, found = None)
               saw == reader.saw \union ({found} \intersect {Corrupt})
    <3>1. /\ reader.at \in {"primary", "primaryClaim", "previous", "previousClaim"}
          /\ found \in Content /\ saw \subseteq {Corrupt} /\ reader.gap \in BOOLEAN
          /\ reader \in ReaderStates
      BY <2>2 DEF ReadFile, IInv, TypeOK, ReaderStates, Directory, File
    <3>2. next \in {"primaryClaim", "previous", "previousClaim", "end"}
      BY <3>1 DEF AfterFile
    <3>3. ASSUME NEW a \in Content, ReaderDone(a) PROVE reader' \in ReaderStates
      BY <3>1, <3>3 DEF ReaderDone, ReaderStates
    <3>4. CASE Valid(found) /\ ReaderDone(found)
      BY <3>1, <3>3, <3>4
    <3>5. CASE ReaderDone(IF saw = {} THEN None ELSE Corrupt)
      BY <3>3, <3>5 DEF Content
    <3>6. CASE next # "end" /\ reader' = [reader EXCEPT !.at = next, !.saw = saw]
      <4> HIDE DEF next, saw
      <4> QED
        BY <3>1, <3>2, <3>6 DEF ReaderStates
    <3> QED
      BY <2>2, <3>4, <3>5, <3>6 DEF ReadFile
  <2> QED
    BY <2>1, <2>2
<1>3. TypeOK' /\ LiveIsPossible' /\ ClaimIsExclusive' /\ DamageIsCounted'
  BY <1>1, <1>2 DEF IInv, TypeOK, LiveIsPossible, ClaimIsExclusive, DamageIsCounted
<1>4. AcknowledgedOutcomeSurvives' /\ IdleOwner'
  BY <1>1 DEF IInv, AcknowledgedOutcomeSurvives, IdleOwner
<1>5. WriteInProgress' /\ RemoveInProgress'
  BY <1>1 DEF IInv, WriteInProgress, RemoveInProgress, Reg, Read, Older, Generation
<1>6. MatchedInProgress'
  BY <1>1 DEF IInv, MatchedInProgress, Gone, Target, Reg, Read, Older, Generation
<1> QED
  BY <1>3, <1>4, <1>5, <1>6 DEF IInv

LEMMA CrashStep == ASSUME IInv, ProcessCrash PROVE IInv'
BY FailingKeepsInvariant DEF ProcessCrash, Nothing

LEMMA PowerLossStep == ASSUME IInv, PowerLoss PROVE IInv'
<1>1. /\ live' \in images /\ images' = {live'} /\ pc' = "idle" /\ call' = NoCall
      /\ acked' = acked /\ faults' = faults /\ reader' = IdleReader
  BY DEF PowerLoss, Answers, Returns
<1>2. IdleReader \in ReaderStates
  BY DEF IdleReader, ReaderStates
<1>3. TypeOK'
  BY <1>1, <1>2, NoCallTyped DEF IInv, TypeOK
<1>4. LiveIsPossible' /\ ClaimIsExclusive' /\ DamageIsCounted' /\ AcknowledgedOutcomeSurvives'
  BY <1>1 DEF IInv, LiveIsPossible, ClaimIsExclusive, DamageIsCounted,
     AcknowledgedOutcomeSurvives
<1> QED
  BY <1>1, <1>3, <1>4 DEF IInv, IdleOwner, WriteInProgress, RemoveInProgress,
     MatchedInProgress, WriteSteps, MatchedSteps

LEMMA DecayStep ==
  ASSUME IInv, NEW f \in {"primary", "previous"}, Decay(f) PROVE IInv'
<1>1. /\ live' = [live EXCEPT ![f] = Corrupt] /\ images' = {live'} /\ acked' = Unknown
      /\ pc = "idle" /\ pc' = pc /\ call' = call /\ live[f] \in Payload
  BY DEF Decay, Valid
<1>2. faults' \in FaultType /\ faults'.media > 0
  BY JournalAssumption DEF Decay, IInv, TypeOK, FaultType
<1>3. reader' \in ReaderStates
  BY DEF Decay, Observe, IInv, TypeOK, ReaderStates
<1>4. live' \in Directory
  BY <1>1 DEF IInv, TypeOK, Directory, Content
<1>5. ClaimIsExclusive'
  <2>1. ASSUME NEW g \in {"primary", "previous"}
        PROVE  live'[g] = None \/ live'[Claim(g)] = None
    BY <1>1, ImagesAreWhole, JournalAssumption DEF Whole, Directory, File, Claim
  <2> QED
    BY <1>1, <2>1 DEF ClaimIsExclusive, Claim
<1>6. TypeOK' /\ LiveIsPossible' /\ DamageIsCounted' /\ AcknowledgedOutcomeSurvives'
  BY <1>1, <1>2, <1>3, <1>4 DEF IInv, TypeOK, LiveIsPossible, DamageIsCounted,
     AcknowledgedOutcomeSurvives
<1> QED
  BY <1>1, <1>5, <1>6 DEF IInv, IdleOwner, WriteInProgress, RemoveInProgress,
     MatchedInProgress, WriteSteps, MatchedSteps

-----------------------------------------------------------------------------
(* The invariant. *)

LEMMA InitialInvariant == Init => IInv
<1> SUFFICES ASSUME Init PROVE IInv
  OBVIOUS
<1>1. TypeOK
  BY NoCallTyped, JournalAssumption
  DEF Init, TypeOK, Directory, Content, IdleReader, ReaderStates, FaultType
<1>2. LiveIsPossible /\ ClaimIsExclusive /\ DamageIsCounted
  BY JournalAssumption DEF Init, LiveIsPossible, ClaimIsExclusive, DamageIsCounted, File, Claim
<1>3. AcknowledgedOutcomeSurvives
  <2>1. Gone(live, "primary") /\ Gone(live, "previous")
    BY DEF Init, Gone, File, Claim
  <2> QED
    BY <2>1, GoneIsUnreadable DEF Init, AcknowledgedOutcomeSurvives
<1> QED
  BY <1>1, <1>2, <1>3 DEF Init, IInv, IdleOwner, WriteInProgress, RemoveInProgress,
     MatchedInProgress, WriteSteps, MatchedSteps

LEMMA NextKeepsInvariant == IInv /\ [Next]_vars => IInv'
<1> SUFFICES ASSUME IInv, [Next]_vars PROVE IInv'
  OBVIOUS
<1>1. CASE Owner
  BY <1>1, BeginSteps, StageStep, RotateStep, SyncRotationStep, ReplaceStep, SyncWriteStep,
     UnlinkStep, FinishRemoveStep, CompareStep, ClaimStep, SyncClaimStep, UnlinkClaimStep,
     SyncUnlinkStep, FinishMatchedStep
  DEF Owner
<1>2. CASE BeginRead \/ ReadFile
  BY <1>2, ReaderStep
<1>3. CASE ProcessCrash \/ PowerLoss
  BY <1>3, CrashStep, PowerLossStep
<1>4. CASE \E f \in {"primary", "previous"} : Decay(f)
  BY <1>4, DecayStep
<1>5. CASE UNCHANGED vars
  <2>1. UNCHANGED <<live, images, pc, call, acked, reader, faults>>
    BY <1>5 DEF vars
  <2>2. TypeOK' /\ LiveIsPossible' /\ ClaimIsExclusive' /\ DamageIsCounted'
    BY <2>1 DEF IInv, TypeOK, LiveIsPossible, ClaimIsExclusive, DamageIsCounted
  <2>3. AcknowledgedOutcomeSurvives' /\ IdleOwner'
    BY <2>1 DEF IInv, AcknowledgedOutcomeSurvives, IdleOwner
  <2>4. WriteInProgress' /\ RemoveInProgress'
    BY <2>1 DEF IInv, WriteInProgress, RemoveInProgress, Reg, Read, Older, Generation
  <2>5. MatchedInProgress'
    BY <2>1 DEF IInv, MatchedInProgress, Gone, Target, Reg, Read, Older, Generation
  <2> QED
    BY <2>2, <2>3, <2>4, <2>5 DEF IInv
<1> QED
  BY <1>1, <1>2, <1>3, <1>4, <1>5 DEF Next

THEOREM InvariantHolds == Spec => []IInv
BY InitialInvariant, NextKeepsInvariant, PTL DEF Spec

(* The journal's variables keep their types (durable_journal.cpp as a      *)
(* whole: every call, failure and crash of DurableJournal).                *)
THEOREM TypeCorrect == Spec => []TypeOK
<1>1. IInv => TypeOK
  BY DEF IInv
<1> QED
  BY <1>1, InvariantHolds, PTL

(* Whatever write() or a removal reported as done is what every later      *)
(* read() answers, after any number of failures, crashes and power losses. *)
THEOREM OutcomeSurvives == Spec => []AcknowledgedOutcomeSurvives
<1>1. IInv => AcknowledgedOutcomeSurvives
  BY DEF IInv
<1> QED
  BY <1>1, InvariantHolds, PTL

(* A generation is never stored under its name and under removal at once   *)
(* (remove_path_if_bytes_match, write).                                    *)
THEOREM ClaimsStayExclusive == Spec => []ClaimIsExclusive
<1>1. IInv => ClaimIsExclusive
  BY DEF IInv
<1> QED
  BY <1>1, InvariantHolds, PTL

-----------------------------------------------------------------------------
(* A read beside a write.                                                  *)

(* Where a reader that has come to the file "at" may still find a record.  *)
Ahead(at) ==
  CASE at = "primary" -> {"primary", "primaryClaim", "previous", "previousClaim"}
    [] at = "primaryClaim" -> {"primaryClaim", "previous", "previousClaim"}
    [] at = "previous" -> {"previous", "previousClaim"}
    [] at = "previousClaim" -> {"previousClaim"}

(* A record that was there when the reader began, and that no removal took *)
(* away, is still ahead of it, or it has met a damaged file.               *)
ReaderFollows ==
  reader.at # "idle" /\ ~reader.gap /\ reader.saw = {} =>
    \E f \in Ahead(reader.at) : live[f] # None

(* What every step but those of a removal does to the files: a record only *)
(* moves in the direction in which a reader goes.                          *)
OnlyMovesAhead ==
  /\ \A f \in {"primaryClaim", "previous", "previousClaim"} : live[f] # None => live'[f] # None
  /\ live["primary"] # None => live'["primary"] # None \/ live'["previous"] # None

Removing == pc \in {"unlink", "claim", "unlinkClaim"}

LEMMA AheadStaysAhead ==
  ASSUME IInv, ReaderFollows, ReaderMissesNoRecord, OnlyMovesAhead \/ Removing,
         Observe \/ (reader' = reader /\ OnlyMovesAhead)
  PROVE  ReaderFollows' /\ ReaderMissesNoRecord'
<1>1. /\ reader'.at = reader.at /\ reader'.saw = reader.saw /\ reader'.answer = reader.answer
      /\ reader.gap => reader'.gap
      /\ reader.at # "idle" /\ ~reader'.gap => OnlyMovesAhead
  BY DEF Observe, Removing, IInv, TypeOK, ReaderStates
<1>2. reader.at \in {"idle", "primary", "primaryClaim", "previous", "previousClaim"}
  BY DEF IInv, TypeOK, ReaderStates
<1>3. ReaderMissesNoRecord'
  BY <1>1 DEF ReaderMissesNoRecord
<1>4. ReaderFollows'
  BY <1>1, <1>2 DEF ReaderFollows, OnlyMovesAhead, Ahead
<1> QED
  BY <1>3, <1>4

LEMMA OwnerMovesAhead ==
  ASSUME IInv, Owner \/ ProcessCrash
  PROVE  /\ OnlyMovesAhead \/ Removing
         /\ Observe \/ (reader' = reader /\ OnlyMovesAhead)
<1>1. live \in Directory
  BY DEF IInv, TypeOK
<1>2. UNCHANGED live => OnlyMovesAhead
  BY DEF OnlyMovesAhead
<1>3. CASE UNCHANGED <<live, reader>>
  BY <1>2, <1>3
<1>4. CASE DiscardTemporary
  BY <1>1, <1>4 DEF DiscardTemporary, Unlink, Becomes, OnlyMovesAhead, Directory, File
<1>5. CASE StageTemporary
  BY <1>1, <1>4, <1>5 DEF StageTemporary, Becomes, OnlyMovesAhead, Directory, File
<1>6. CASE RotatePrimary
  <2>1. live["primary"] # None
    BY <1>6, JournalAssumption DEF RotatePrimary, IInv, WriteInProgress, WriteSteps, Valid
  <2> QED
    BY <1>1, <1>4, <1>6, <2>1
    DEF RotatePrimary, Rename, Becomes, OnlyMovesAhead, Directory, File
<1>7. CASE ReplacePrimary
  <2>1. live["temporary"] # None
    BY <1>7, JournalAssumption DEF ReplacePrimary, IInv, WriteInProgress, WriteSteps
  <2> QED
    BY <1>1, <1>4, <1>7, <2>1
    DEF ReplacePrimary, Rename, Becomes, OnlyMovesAhead, Directory, File
<1>8. CASE SyncRotation
  BY <1>3, <1>4, <1>8 DEF SyncRotation, Fsync
<1>9. CASE UnlinkNext \/ ClaimGeneration \/ UnlinkClaim
  <2>1. Removing /\ (Observe \/ UNCHANGED <<live, reader>>)
    BY <1>9 DEF UnlinkNext, ClaimGeneration, UnlinkClaim, Removing, Unlink, Rename, Becomes, Nothing
  <2> QED
    BY <1>2, <2>1
<1>10. CASE \/ \E p \in Payload : BeginWrite(p) \/ BeginMatched(p)
            \/ BeginRemove \/ ProcessCrash
  BY <1>3, <1>10 DEF BeginWrite, BeginMatched, BeginRemove, Begin, ProcessCrash
<1>11. CASE SyncWrite \/ FinishRemove \/ CompareGeneration \/ SyncClaim \/ SyncUnlink \/ FinishMatched
  BY <1>3, <1>11 DEF SyncWrite, FinishRemove, CompareGeneration, SyncClaim, SyncUnlink,
     FinishMatched, Nothing, Fsync
<1> QED
  BY <1>5, <1>6, <1>7, <1>8, <1>9, <1>10, <1>11 DEF Owner

LEMMA ReadingFollows ==
  ASSUME IInv, ReaderFollows, ReaderMissesNoRecord, BeginRead \/ ReadFile
  PROVE  ReaderFollows' /\ ReaderMissesNoRecord'
<1>1. CASE BeginRead
  <2>1. Read(live) # None => \E f \in Ahead("primary") : live[f] # None
    BY DEF Read, Valid, Older, Generation, Claim, Ahead
  <2> QED
    BY <1>1, <2>1 DEF BeginRead, ReaderFollows, ReaderMissesNoRecord
<1>2. CASE ReadFile
  <2> DEFINE found == live[reader.at]
             next == AfterFile(reader.at, found = None)
             saw == reader.saw \union ({found} \intersect {Corrupt})
  <2>1. /\ reader.at \in {"primary", "primaryClaim", "previous", "previousClaim"}
        /\ found \in Content /\ UNCHANGED live /\ reader \in ReaderStates
    BY <1>2 DEF ReadFile, IInv, TypeOK, ReaderStates, Directory, File
  <2>2. \/ Valid(found) /\ ReaderDone(found)
        \/ ~Valid(found) /\ next = "end" /\ ReaderDone(IF saw = {} THEN None ELSE Corrupt)
        \/ ~Valid(found) /\ next # "end" /\ reader' = [reader EXCEPT !.at = next, !.saw = saw]
    BY <1>2 DEF ReadFile
  <2>3. saw = {} /\ ~Valid(found) => found = None /\ reader.saw = {}
    BY <2>1 DEF Content, Valid
  <2>4. CASE Valid(found) /\ ReaderDone(found)
    BY <2>4, JournalAssumption DEF ReaderDone, ReaderFollows, ReaderMissesNoRecord, Valid
  <2>5. CASE ~Valid(found) /\ next = "end" /\ ReaderDone(IF saw = {} THEN None ELSE Corrupt)
    <3>1. saw = {} => reader.gap
      BY <2>1, <2>3, <2>5 DEF AfterFile, ReaderFollows, Ahead
    <3> HIDE DEF saw, next
    <3> QED
      BY <2>5, <3>1, JournalAssumption DEF ReaderDone, ReaderFollows, ReaderMissesNoRecord
  <2>6. CASE ~Valid(found) /\ next # "end" /\ reader' = [reader EXCEPT !.at = next, !.saw = saw]
    <3>1. next \in {"primaryClaim", "previous", "previousClaim"}
      BY <2>1, <2>6 DEF AfterFile
    <3>2. saw = {} /\ (\E f \in Ahead(reader.at) : live[f] # None)
             => \E f \in Ahead(next) : live[f] # None
      BY <2>1, <2>3, <2>6 DEF AfterFile, Ahead
    <3>3. reader'.at = next /\ reader'.saw = saw /\ reader'.gap = reader.gap
      BY <2>1, <2>6 DEF ReaderStates
    <3>4. saw = {} => reader.saw = {}
      OBVIOUS
    <3> HIDE DEF saw, next
    <3> QED
      BY <2>1, <3>1, <3>2, <3>3, <3>4 DEF ReaderFollows, ReaderMissesNoRecord
  <2> QED
    BY <2>2, <2>4, <2>5, <2>6
<1> QED
  BY <1>1, <1>2

(* A reader that runs beside a write, its failures and its crashes never   *)
(* finds the journal empty when it was not                                 *)
(* (DurableJournalStore::read beside write).                               *)
THEOREM ReadersMissNothing == Spec => []ReaderMissesNoRecord
<1>1. Init => ReaderFollows /\ ReaderMissesNoRecord
  BY JournalAssumption DEF Init, IdleReader, ReaderFollows, ReaderMissesNoRecord
<1>2. ASSUME IInv, ReaderFollows, ReaderMissesNoRecord, [Next]_vars
      PROVE  ReaderFollows' /\ ReaderMissesNoRecord'
  <2>1. CASE Owner \/ ProcessCrash
    BY <1>2, <2>1, OwnerMovesAhead, AheadStaysAhead
  <2>2. CASE BeginRead \/ ReadFile
    BY <1>2, <2>2, ReadingFollows
  <2>3. CASE PowerLoss
    BY <2>3, JournalAssumption DEF PowerLoss, IdleReader, ReaderFollows, ReaderMissesNoRecord
  <2>4. CASE \E f \in {"primary", "previous"} : Decay(f)
    <3>1. PICK f \in {"primary", "previous"} : live' = [live EXCEPT ![f] = Corrupt] /\ Observe
      BY <2>4 DEF Decay
    <3>2. OnlyMovesAhead
      BY <1>2, <3>1, JournalAssumption DEF OnlyMovesAhead, IInv, TypeOK, Directory, File
    <3> QED
      BY <1>2, <3>1, <3>2, AheadStaysAhead
  <2>5. CASE UNCHANGED vars
    BY <1>2, <2>5 DEF vars, ReaderFollows, ReaderMissesNoRecord
  <2> QED
    BY <1>2, <2>1, <2>2, <2>3, <2>4, <2>5 DEF Next
<1>3. ReaderFollows /\ ReaderMissesNoRecord /\ IInv /\ [Next]_vars
        => ReaderFollows' /\ ReaderMissesNoRecord'
  BY <1>2
<1> QED
  BY <1>1, <1>3, InvariantHolds, PTL DEF Spec

-----------------------------------------------------------------------------
(* The implementation of the register. *)

Survivors == {Reg(d) : d \in images}

Mapped(c) == [op |-> c.op, arg |-> c.arg]

(* What a step within a call does to the register. *)
LEMMA BecomesMapped ==
  ASSUME NEW d, Becomes(d)
  PROVE  Reg(live') = Reg(d) /\ Survivors' = Survivors \union {Reg(live')}
BY DEF Becomes, Survivors

LEMMA FsyncMapped ==
  ASSUME Fsync PROVE Reg(live)' = Reg(live) /\ Survivors' = {Reg(live)}
BY DEF Fsync, Survivors, Reg, Read, Older, Generation

LEMMA NothingMapped ==
  ASSUME Nothing PROVE Reg(live)' = Reg(live) /\ Survivors' = Survivors
BY DEF Nothing, Survivors, Reg, Read, Older, Generation

LEMMA LiveSurvives == IInv => Reg(live) \in Survivors
BY DEF IInv, LiveIsPossible, Survivors

LEMMA JRState ==
  /\ JR!vars = <<Reg(live), Survivors, Mapped(call), acked, faults.media>>
  /\ JR!vars' = <<Reg(live)', Survivors', Mapped(call'), acked', faults'.media>>
BY DEF JR!vars, Survivors, Mapped

(* While a call runs, the register has a call in progress. *)
LEMMA CallIsMapped ==
  ASSUME IInv, pc # "idle"
  PROVE  call.op \in {"write", "remove", "matched"} /\ Mapped(call) # JR!Idle
<1>1. call.op \in {"write", "remove", "matched"}
  BY DEF IInv, TypeOK, WriteInProgress, RemoveInProgress, MatchedInProgress,
     WriteSteps, MatchedSteps
<1>2. JR!Idle.op = "idle"
  BY DEF JR!Idle
<1>3. Mapped(call).op = call.op
  BY DEF Mapped
<1> QED
  BY <1>1, <1>2, <1>3

LEMMA IdleIsMapped == Mapped(NoCall) = JR!Idle
BY DEF Mapped, NoCall, JR!Idle

Quiet == Nothing \/ \E d : Becomes(d) /\ Reg(d) = Reg(live)

LEMMA QuietMapped ==
  ASSUME IInv, Quiet PROVE Reg(live)' = Reg(live) /\ Survivors' = Survivors
<1>1. CASE Nothing
  BY <1>1, NothingMapped
<1>2. ASSUME NEW d, Becomes(d), Reg(d) = Reg(live)
      PROVE  Reg(live)' = Reg(live) /\ Survivors' = Survivors
  <2>1. Reg(live') = Reg(live) /\ Survivors' = Survivors \union {Reg(live')}
    BY <1>2, BecomesMapped
  <2> QED
    BY <2>1, LiveSurvives
<1> QED
  BY <1>1, <1>2 DEF Quiet

LEMMA FailingImplements ==
  ASSUME IInv, pc # "idle", Fails, Quiet PROVE JR!ReturnsUnacknowledged
<1>1. faults'.media = faults.media
  BY DEF Fails, Fault, IInv, TypeOK, FaultType
<1>2. Mapped(call') = JR!Idle
  BY IdleIsMapped DEF Fails, Returns
<1>3. acked' = acked
  BY DEF Fails
<1> QED
  BY <1>1, <1>2, <1>3, QuietMapped, CallIsMapped DEF JR!ReturnsUnacknowledged, Survivors, Mapped

LEMMA StutterImplements ==
  ASSUME IInv, Quiet, Mapped(call') = Mapped(call), acked' = acked,
         faults'.media = faults.media
  PROVE  UNCHANGED JR!vars
BY QuietMapped, JRState

LEMMA FlushImplements ==
  ASSUME IInv, pc # "idle", Fsync, Mapped(call') = Mapped(call), acked' = acked,
         faults' = faults
  PROVE  JR!Flush
BY FsyncMapped, CallIsMapped DEF JR!Flush, Survivors, Mapped

LEMMA TemporaryIsQuiet ==
  ASSUME IInv, NEW c, Becomes([live EXCEPT !["temporary"] = c]) PROVE Quiet
<1> DEFINE d == [live EXCEPT !["temporary"] = c]
<1>1. live \in [File -> Content]
  BY DEF IInv, TypeOK, Directory
<1>2. \A f \in File \ {"temporary"} : d[f] = live[f]
  BY <1>1
<1>3. Generation(d, "primary") = Generation(live, "primary")
      /\ Generation(d, "previous") = Generation(live, "previous")
  BY <1>2 DEF Generation, Claim, File
<1>4. Reg(d) = Reg(live)
  BY <1>3 DEF Reg, Read, Older
<1>5. Becomes(d)
  OBVIOUS
<1> HIDE DEF d
<1> QED
  BY <1>4, <1>5 DEF Quiet

LEMMA DiscardImplements ==
  ASSUME IInv, pc # "idle", DiscardTemporary PROVE JR!ReturnsUnacknowledged
BY FailingImplements, TemporaryIsQuiet DEF DiscardTemporary, Unlink

LEMMA BeginImplements ==
  ASSUME IInv, NEW next, NEW op \in {"write", "remove", "matched"},
         NEW p \in Payload \union {None}, NEW rot \in BOOLEAN,
         Begin(next, NewCall(op, p, rot))
  PROVE  JR!Begin(op, p)
<1>1. Mapped(call) = JR!Idle
  BY IdleIsMapped DEF Begin, IInv, IdleOwner
<1>2. Mapped(call') = [op |-> op, arg |-> p]
  BY DEF Begin, NewCall, Mapped
<1>3. Nothing /\ faults' = faults /\ acked' = Unknown
  BY DEF Begin, Nothing
<1> QED
  BY <1>1, <1>2, <1>3, NothingMapped DEF JR!Begin, Mapped, Survivors

LEMMA BeginsImplement ==
  ASSUME IInv, BeginRemove \/ \E p \in Payload : BeginWrite(p) \/ BeginMatched(p)
  PROVE  JR!Next
<1>1. CASE BeginRemove
  BY <1>1, BeginImplements DEF BeginRemove, JR!Next
<1>2. ASSUME NEW p \in Payload, BeginWrite(p) PROVE JR!Next
  <2>1. Valid(live["primary"]) \in BOOLEAN
    BY DEF Valid
  <2> QED
    BY <1>2, <2>1, BeginImplements DEF BeginWrite, JR!Next
<1>3. ASSUME NEW p \in Payload, BeginMatched(p) PROVE JR!Next
  BY <1>3, BeginImplements DEF BeginMatched, JR!Next
<1> QED
  BY <1>1, <1>2, <1>3

LEMMA AcknowledgeImplements ==
  ASSUME IInv, NEW a, Fsync, Answers(a) PROVE JR!Acknowledge(a)
<1>1. Mapped(call') = JR!Idle /\ acked' = a /\ faults' = faults
  BY IdleIsMapped DEF Answers, Returns
<1> QED
  BY <1>1, FsyncMapped DEF JR!Acknowledge, Survivors, Mapped

LEMMA UnansweredImplements ==
  ASSUME IInv, pc # "idle", Nothing, Answers(Unknown) PROVE JR!ReturnsUnacknowledged
<1>1. Mapped(call') = JR!Idle /\ faults' = faults /\ acked' = acked
  BY IdleIsMapped DEF Answers, Returns, IInv, IdleOwner
<1> QED
  BY <1>1, NothingMapped, CallIsMapped DEF JR!ReturnsUnacknowledged, Survivors, Mapped

LEMMA WriteImplements ==
  ASSUME IInv, StageTemporary \/ RotatePrimary \/ SyncRotation \/ ReplacePrimary \/ SyncWrite
  PROVE  [JR!Next]_JR!vars
<1>1. pc \in WriteSteps /\ pc # "idle"
  BY DEF StageTemporary, RotatePrimary, SyncRotation, ReplacePrimary, SyncWrite, WriteSteps
<1>2. /\ call.op = "write" /\ call.arg \in Payload /\ live \in Directory
      /\ live["primaryClaim"] = None /\ live["previousClaim"] = None
  BY <1>1 DEF IInv, TypeOK, WriteInProgress
<1>3. CASE DiscardTemporary \/ (Nothing /\ Fails)
  BY <1>1, <1>3, DiscardImplements, FailingImplements DEF JR!Next, Quiet
<1>4. CASE Becomes([live EXCEPT !["temporary"] = call.arg])
           /\ Goto(IF call.rotate THEN "rotate" ELSE "replace")
  BY <1>4, TemporaryIsQuiet, StutterImplements DEF Goto
<1>5. CASE Fsync /\ Goto("replace")
  BY <1>1, <1>5, FlushImplements DEF Goto, JR!Next
<1>6. CASE RotatePrimary /\ Rename("primary", "previous") /\ Goto("syncRotation")
  <2> DEFINE d == [live EXCEPT !["previous"] = live["primary"], !["primary"] = None]
  <2>1. Valid(live["primary"])
    BY <1>6 DEF RotatePrimary, IInv, WriteInProgress, WriteSteps
  <2>2. live["primary"] # None
    BY <2>1, JournalAssumption DEF Valid
  <2>3. /\ Generation(live, "primary") = live["primary"]
        /\ Generation(d, "primary") = None /\ Generation(d, "previous") = live["primary"]
    BY <1>2, <2>2 DEF Generation, Claim, Directory, File
  <2>4. Reg(d) = [Reg(live) EXCEPT !.older = Reg(live).value]
    BY <2>1, <2>3, JournalAssumption DEF Reg, Read, Older, Valid
  <2>5. Reg(live)' = [Reg(live) EXCEPT !.older = Reg(live).value]
        /\ Survivors' = Survivors \union {Reg(live)'}
    BY <1>6, <2>4, BecomesMapped DEF Rename
  <2>6. JR!WriteEffect
    BY <1>2, <1>6, <2>5 DEF JR!WriteEffect, JR!Effect, Survivors, Mapped, Goto
  <2> QED
    BY <2>6 DEF JR!Next
<1>7. CASE ReplacePrimary /\ Rename("temporary", "primary") /\ Goto("syncWrite")
  <2> DEFINE d == [live EXCEPT !["primary"] = live["temporary"], !["temporary"] = None]
  <2>1. live["temporary"] = call.arg /\ call.arg # None
    BY <1>2, <1>7, JournalAssumption DEF ReplacePrimary, IInv, WriteInProgress, WriteSteps
  <2>2. /\ Generation(d, "primary") = call.arg
        /\ Generation(d, "previous") = Generation(live, "previous")
    BY <1>2, <2>1 DEF Generation, Claim, Directory, File
  <2>3. Reg(d) = [Reg(live) EXCEPT !.value = call.arg]
    BY <1>2, <2>2 DEF Reg, Read, Older, Valid
  <2>4. Reg(live)' = [Reg(live) EXCEPT !.value = call.arg]
        /\ Survivors' = Survivors \union {Reg(live)'}
    BY <1>7, <2>3, BecomesMapped DEF Rename
  <2>5. JR!WriteEffect
    BY <1>2, <1>7, <2>4 DEF JR!WriteEffect, JR!Effect, Survivors, Mapped, Goto
  <2> QED
    BY <2>5 DEF JR!Next
<1>8. CASE SyncWrite /\ Fsync /\ Answers(call.arg)
  <2>1. live["primary"] = call.arg
    BY <1>8 DEF SyncWrite, IInv, WriteInProgress, WriteSteps
  <2>2. Reg(live).value = call.arg
    BY <1>2, <2>1, JournalAssumption DEF Reg, Read, Generation, Valid
  <2>3. JR!WriteReturnsOk
    BY <1>2, <1>8, <2>2, AcknowledgeImplements DEF JR!WriteReturnsOk
  <2> QED
    BY <2>3 DEF JR!Next
<1> QED
  BY <1>3, <1>4, <1>5, <1>6, <1>7, <1>8
  DEF StageTemporary, RotatePrimary, SyncRotation, ReplacePrimary, SyncWrite

(* Taking a file away takes away its generation, or changes nothing. *)
LEMMA UnlinkMapped ==
  ASSUME IInv, NEW f \in File, NEW d, d = [live EXCEPT ![f] = None]
  PROVE  /\ \/ Generation(d, "primary") = Generation(live, "primary")
            \/ Generation(d, "primary") = None
         /\ \/ Generation(d, "previous") = Generation(live, "previous")
            \/ Generation(d, "previous") = None
<1>1. Whole(live) /\ live \in [File -> Content]
  BY ImagesAreWhole DEF Whole, Directory
<1>2. \A g \in File : d[g] = IF g = f THEN None ELSE live[g]
  BY <1>1
<1> QED
  BY <1>1, <1>2 DEF Generation, Claim, File, Whole

LEMMA DamageMapped ==
  ASSUME IInv, Generation(live, "primary") = Corrupt PROVE faults.media > 0
<1>1. Generation(live, "primary") \in {live["primary"], live["primaryClaim"]}
  BY DEF Generation, Claim
<1> QED
  BY <1>1, ImagesAreWhole DEF Whole, File

LEMMA RemoveImplements ==
  ASSUME IInv, UnlinkNext \/ FinishRemove PROVE [JR!Next]_JR!vars
<1>1. pc = "unlink" /\ pc # "idle" /\ call.op = "remove"
  BY DEF UnlinkNext, FinishRemove, IInv, RemoveInProgress
<1>2. CASE UnlinkNext
  <2> DEFINE f == RemovalOrder[call.slot]
             d == [live EXCEPT ![f] = None]
  <2>1. f \in File /\ call \in CallType
    BY <1>2, RemovalOrderNames DEF UnlinkNext, IInv, TypeOK, CallType
  <2>2. Mapped(call') = Mapped(call) /\ acked' = acked
    <3> DEFINE n == call.slot + 1
               b == call.removedAny \/ live[f] # None
    <3>1. \/ call' = [call EXCEPT !.slot = n, !.removedAny = b]
          \/ call' = [call EXCEPT !.slot = n, !.failed = TRUE]
      BY <1>2 DEF UnlinkNext
    <3> HIDE DEF n, b
    <3>2. call'.op = call.op /\ call'.arg = call.arg
      BY <2>1, <3>1 DEF CallType
    <3> QED
      BY <1>2, <3>2 DEF Mapped, UnlinkNext
  <2>3. CASE Nothing /\ Fault
    BY <2>2, <2>3, StutterImplements DEF Quiet, Fault, IInv, TypeOK, FaultType
  <2>4. CASE Becomes(d) /\ faults' = faults
    <3>1. Reg(live)' = Reg(d) /\ Survivors' = Survivors \union {Reg(live)'}
      BY <2>4, BecomesMapped
    <3>2. /\ \/ Generation(d, "primary") = Generation(live, "primary")
             \/ Generation(d, "primary") = None
          /\ \/ Older(d) = Older(live)
             \/ Older(d) = None
      BY <2>1, UnlinkMapped DEF Older
    <3>3. d \in Directory /\ live \in Directory
      BY <2>1 DEF IInv, TypeOK, Directory, Content
    <3>4. /\ Read(d) \in {Read(live), Older(live), None} \/ (faults.media > 0 /\ Read(d) = Corrupt)
          /\ Older(d) \in {Older(live), None}
      <4>1. CASE Generation(live, "primary") = Corrupt
        BY <3>2, <4>1, DamageMapped, JournalAssumption DEF Read, Valid
      <4>2. CASE Generation(live, "primary") # Corrupt
        BY <3>2, <4>2, JournalAssumption DEF Read, Valid
      <4> QED
        BY <3>2, <4>1, <4>2
    <3>5. Reg(d) \in JR!Register
      BY <3>3, RegTyped DEF JR!Register, JR!Answer, Content
    <3>6. /\ Reg(d).value = Read(d) /\ Reg(d).older = Older(d)
          /\ Reg(live).value = Read(live) /\ Reg(live).older = Older(live)
      BY DEF Reg
    <3> HIDE DEF d
    <3>7. JR!RemoveEffect
      BY <1>1, <2>2, <2>4, <3>1, <3>4, <3>5, <3>6
      DEF JR!RemoveEffect, JR!Effect, Survivors, Mapped
    <3> QED
      BY <3>7 DEF JR!Next
  <2> QED
    BY <1>2, <2>3, <2>4 DEF UnlinkNext, Unlink
<1>3. CASE FinishRemove
  <2>1. CASE ~call.failed /\ Fsync /\ Answers(None)
    <3>1. call.slot = 6
      BY <1>3, RemovalOrderNames DEF FinishRemove, IInv, TypeOK, CallType
    <3>2. \A i \in 1..5 : live[RemovalOrder[i]] = None
      BY <1>1, <2>1, <3>1 DEF IInv, RemoveInProgress
    <3>3. \A f \in File : live[f] = None
      BY <3>2, RemovalOrderNames
    <3>4. Reg(live) = JR!Empty
      BY <3>3, GoneIsUnreadable DEF Gone, Claim, File, JR!Empty
    <3>5. JR!RemoveReturnsOk
      BY <1>1, <2>1, <3>4, AcknowledgeImplements DEF JR!RemoveReturnsOk
    <3> QED
      BY <3>5 DEF JR!Next
  <2>2. CASE Nothing /\ Fails
    BY <1>1, <2>2, FailingImplements DEF JR!Next, Quiet
  <2>3. CASE Nothing /\ Answers(Unknown)
    BY <1>1, <2>3, UnansweredImplements DEF JR!Next
  <2> QED
    BY <1>3, <2>1, <2>2, <2>3 DEF FinishRemove
<1> QED
  BY <1>2, <1>3

LEMMA MatchedImplements ==
  ASSUME IInv, CompareGeneration \/ ClaimGeneration \/ SyncClaim \/ UnlinkClaim
               \/ SyncUnlink \/ FinishMatched
  PROVE  [JR!Next]_JR!vars
<1>1. pc \in MatchedSteps /\ pc # "idle"
  BY DEF CompareGeneration, ClaimGeneration, SyncClaim, UnlinkClaim, SyncUnlink, FinishMatched,
     MatchedSteps
<1>2. /\ call.op = "matched" /\ call.arg \in Payload /\ live \in Directory /\ call \in CallType
      /\ Target \in {"primary", "previous"} /\ call.slot \in Nat
      /\ call.slot > 1 => Gone(live, "primary")
      /\ call.slot > 2 => Gone(live, "previous")
  BY <1>1 DEF IInv, TypeOK, MatchedInProgress, Target, CallType
<1>3. CASE Nothing /\ Fails
  BY <1>1, <1>3, FailingImplements DEF JR!Next, Quiet
<1>4. CASE Nothing /\ Answers(Unknown)
  BY <1>1, <1>4, UnansweredImplements DEF JR!Next
<1>5. CASE Fsync /\ Goto("unlinkClaim")
  BY <1>1, <1>5, FlushImplements DEF Goto, JR!Next
<1>6. CASE Nothing /\ Goto(IF live[Target] = None THEN "unlinkClaim" ELSE "claim")
  BY <1>6, StutterImplements DEF Goto, Quiet
<1>7. CASE CompareGeneration /\ call' = [call EXCEPT !.slot = @ + 1] /\ Nothing
           /\ UNCHANGED <<acked, faults>>
  <2>1. call'.op = call.op /\ call'.arg = call.arg
    BY <1>2, <1>7 DEF CallType
  <2> QED
    BY <1>7, <2>1, StutterImplements DEF Quiet, Mapped
<1>8. CASE ClaimGeneration /\ Rename(Target, Claim(Target)) /\ Goto("syncClaim")
  <2> DEFINE d == [live EXCEPT ![Claim(Target)] = live[Target], ![Target] = None]
  <2>1. live[Claim(Target)] = None /\ Becomes(d)
    BY <1>8 DEF ClaimGeneration, IInv, MatchedInProgress, MatchedSteps, Rename
  <2>2. Reg(d) = Reg(live)
    BY <1>2, <2>1, ClaimKeepsReg
  <2> HIDE DEF d
  <2> QED
    BY <1>8, <2>1, <2>2, StutterImplements DEF Goto, Quiet
<1>9. CASE UnlinkClaim /\ Rename(Claim(Target), Target) /\ Fails
  <2> DEFINE d == [live EXCEPT ![Target] = live[Claim(Target)], ![Claim(Target)] = None]
  <2>1. live[Target] = None /\ Becomes(d)
    BY <1>9 DEF UnlinkClaim, IInv, MatchedInProgress, MatchedSteps, Rename
  <2>2. Reg(d) = Reg(live)
    BY <1>2, <2>1, ClaimKeepsReg
  <2> HIDE DEF d
  <2> QED
    BY <1>1, <1>9, <2>1, <2>2, FailingImplements DEF Quiet, JR!Next
<1>10. CASE UnlinkClaim /\ Unlink(Claim(Target)) /\ Goto("syncUnlink")
  <2> DEFINE d == [live EXCEPT ![Claim(Target)] = None]
  <2>1. live[Target] = None /\ live[Claim(Target)] = call.arg /\ Becomes(d)
    BY <1>10 DEF UnlinkClaim, IInv, MatchedInProgress, MatchedSteps, Unlink
  <2>2. \A g \in File : d[g] = IF g = Claim(Target) THEN None ELSE live[g]
    BY <1>2 DEF Directory
  <2>3. call.slot \in {1, 2}
    BY <1>10 DEF UnlinkClaim, IInv, MatchedInProgress, MatchedSteps
  <2>4. /\ Read(d) # Read(live) => Read(live) = call.arg
        /\ Older(d) # Older(live) => Older(live) = call.arg
        /\ Read(d) \in {Read(live), Older(live), None} /\ Older(d) \in {Older(live), None}
    <3>1. CASE call.slot = 1
      <4>1. Target = "primary"
        BY <3>1 DEF Target
      <4>2. /\ Generation(live, "primary") = call.arg /\ Generation(d, "primary") = None
            /\ Older(d) = Older(live)
        BY <1>2, <2>1, <2>2, <4>1 DEF Generation, Older, Claim, File
      <4>3. Older(live) \in Content
        BY <1>2 DEF Older, Generation, Claim, Directory, File
      <4> QED
        BY <1>2, <4>2, <4>3, JournalAssumption DEF Read, Valid, Content
    <3>2. CASE call.slot = 2
      <4>1. Target = "previous" /\ Gone(live, "primary")
        BY <1>2, <3>2 DEF Target
      <4>2. /\ Generation(live, "primary") = None /\ Generation(d, "primary") = None
            /\ Older(live) = call.arg /\ Older(d) = None
        BY <1>2, <2>1, <2>2, <4>1 DEF Generation, Older, Claim, File, Gone
      <4> QED
        BY <1>2, <4>2, JournalAssumption DEF Read, Valid
    <3> QED
      BY <2>3, <3>1, <3>2
  <2>5. Reg(live)' = Reg(d) /\ Survivors' = Survivors \union {Reg(live)'}
    BY <2>1, BecomesMapped
  <2>6. d \in Directory
    BY <1>2 DEF Directory, Content
  <2>7. Reg(d) \in JR!Register
    BY <2>6, RegTyped DEF JR!Register, JR!Answer, Content
  <2>8. /\ Reg(d).value = Read(d) /\ Reg(d).older = Older(d)
        /\ Reg(live).value = Read(live) /\ Reg(live).older = Older(live)
    BY DEF Reg
  <2> HIDE DEF d
  <2>9. JR!MatchedRemoveEffect
    BY <1>2, <1>10, <2>4, <2>5, <2>7, <2>8
    DEF JR!MatchedRemoveEffect, JR!Effect, Survivors, Mapped, Goto
  <2> QED
    BY <2>9 DEF JR!Next
<1>11. CASE SyncUnlink /\ Fsync /\ call' = [call EXCEPT !.slot = @ + 1, !.removedAny = TRUE]
            /\ UNCHANGED <<acked, faults>>
  <2> DEFINE n == call.slot + 1
  <2>1. call' = [call EXCEPT !.slot = n, !.removedAny = TRUE]
    BY <1>11
  <2> HIDE DEF n
  <2>2. call'.op = call.op /\ call'.arg = call.arg
    BY <1>2, <2>1 DEF CallType
  <2> QED
    BY <1>1, <1>11, <2>2, FlushImplements DEF Mapped, JR!Next
<1>12. CASE FinishMatched /\ Fsync /\ Answers(None)
  <2>1. Gone(live, "primary") /\ Gone(live, "previous")
    BY <1>2, <1>12 DEF FinishMatched
  <2>2. Reg(live) = JR!Empty
    BY <2>1, GoneIsUnreadable DEF JR!Empty
  <2>3. JR!RemoveReturnsOk
    BY <1>2, <1>12, <2>2, AcknowledgeImplements DEF JR!RemoveReturnsOk
  <2> QED
    BY <2>3 DEF JR!Next
<1> QED
  BY <1>3, <1>4, <1>5, <1>6, <1>7, <1>8, <1>9, <1>10, <1>11, <1>12
  DEF CompareGeneration, ClaimGeneration, SyncClaim, UnlinkClaim, SyncUnlink, FinishMatched

LEMMA EnvironmentImplements ==
  ASSUME IInv, BeginRead \/ ReadFile \/ ProcessCrash \/ PowerLoss
               \/ \E f \in {"primary", "previous"} : Decay(f)
  PROVE  [JR!Next]_JR!vars
<1>1. CASE BeginRead \/ ReadFile
  <2>1. UNCHANGED <<live, images, call, acked, faults>>
    BY <1>1 DEF BeginRead, ReadFile
  <2>2. UNCHANGED <<Reg(live), Survivors>>
    BY <2>1 DEF Reg, Read, Older, Generation, Survivors
  <2> QED
    BY <2>1, <2>2, JRState
<1>2. CASE ProcessCrash
  BY <1>2, FailingImplements DEF ProcessCrash, Quiet, Nothing, JR!Next
<1>3. CASE PowerLoss
  <2>1. /\ live' \in images /\ images' = {live'} /\ call' = NoCall /\ acked' = acked
        /\ faults' = faults
    BY <1>3 DEF PowerLoss, Answers, Returns
  <2>2. Reg(live)' = Reg(live') /\ Survivors' = {Reg(live')}
    BY <2>1 DEF Reg, Read, Older, Generation, Survivors
  <2>3. JR!PowerLoss
    BY <2>1, <2>2, IdleIsMapped DEF JR!PowerLoss, Survivors, Mapped
  <2> QED
    BY <2>3 DEF JR!Next
<1>4. ASSUME NEW f \in {"primary", "previous"}, Decay(f) PROVE JR!Next
  <2>1. /\ live' = [live EXCEPT ![f] = Corrupt] /\ images' = {live'} /\ acked' = Unknown
        /\ call' = call /\ faults' = [faults EXCEPT !.media = @ + 1] /\ Valid(live[f])
    BY <1>4 DEF Decay
  <2>2. live \in Directory /\ Whole(live)
    BY ImagesAreWhole DEF Whole
  <2>3. \A g \in File : live'[g] = IF g = f THEN Corrupt ELSE live[g]
    BY <2>1, <2>2 DEF Directory
  <2>4. /\ f = "primary" => /\ Generation(live', "primary") = Corrupt
                            /\ Generation(live', "previous") = Generation(live, "previous")
        /\ f = "previous" => /\ Generation(live', "previous") = Corrupt
                             /\ Generation(live', "primary") = Generation(live, "primary")
    BY <2>3, JournalAssumption DEF Generation, Claim, File
  <2>5. Reg(live') \in {[value |-> Reg(live).older, older |-> Reg(live).older],
                        [value |-> Corrupt, older |-> Reg(live).older],
                        [Reg(live) EXCEPT !.older = Corrupt],
                        [value |-> Corrupt, older |-> Corrupt]}
    <3>1. ~Valid(Corrupt)
      BY JournalAssumption DEF Valid
    <3>2. CASE f = "primary"
      <4>1. Older(live') = Older(live) /\ Read(live') \in {Older(live), Corrupt}
        BY <2>4, <3>1, <3>2 DEF Read, Older
      <4> QED
        BY <4>1 DEF Reg
    <3>3. CASE f = "previous"
      <4>1. Older(live') = Corrupt /\ Read(live') \in {Read(live), Corrupt}
        BY <2>4, <3>1, <3>3 DEF Read, Older
      <4>2. [Reg(live) EXCEPT !.older = Corrupt] = [value |-> Read(live), older |-> Corrupt]
        BY DEF Reg
      <4> QED
        BY <4>1, <4>2 DEF Reg
    <3> QED
      BY <3>2, <3>3
  <2>6. Reg(live)' = Reg(live') /\ Survivors' = {Reg(live')}
    BY <2>1 DEF Reg, Read, Older, Generation, Survivors
  <2>7. faults'.media = faults.media + 1
    BY <2>1 DEF IInv, TypeOK, FaultType
  <2>8. JR!Decay
    BY <2>1, <2>5, <2>6, <2>7 DEF JR!Decay, Survivors
  <2> QED
    BY <2>8 DEF JR!Next
<1> QED
  BY <1>1, <1>2, <1>3, <1>4

(* Every step of the journal is a step of the register or leaves it alone: *)
(* a write shows the old record or the new one, a conditional removal takes*)
(* only its own payload, and success is reported only for what is durable. *)
THEOREM Implementation == Spec => ImplementsRegister
<1>1. Init => JR!Init
  <2> SUFFICES ASSUME Init PROVE JR!Init
    OBVIOUS
  <2>1. Gone(live, "primary") /\ Gone(live, "previous")
    BY DEF Init, Gone, File, Claim
  <2>2. Reg(live) = JR!Empty
    BY <2>1, GoneIsUnreadable DEF JR!Empty
  <2> QED
    BY <2>2, IdleIsMapped DEF Init, JR!Init, Mapped
<1>2. IInv /\ [Next]_vars => [JR!Next]_JR!vars
  <2> SUFFICES ASSUME IInv, [Next]_vars PROVE [JR!Next]_JR!vars
    OBVIOUS
  <2>1. CASE Owner
    BY <2>1, BeginsImplement, WriteImplements, RemoveImplements, MatchedImplements DEF Owner
  <2>2. CASE UNCHANGED vars
    <3>1. UNCHANGED <<live, images, call, acked, faults>>
      BY <2>2 DEF vars
    <3>2. UNCHANGED <<Reg(live), Survivors>>
      BY <3>1 DEF Reg, Read, Older, Generation, Survivors
    <3> QED
      BY <3>1, <3>2, JRState
  <2> QED
    BY <2>1, <2>2, EnvironmentImplements DEF Next
<1> QED
  BY <1>1, <1>2, InvariantHolds, PTL DEF Spec, ImplementsRegister, JR!Spec
==============================================================================
