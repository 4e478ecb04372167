--------------------------- MODULE JournalRegister ---------------------------
(***************************************************************************)
(* What a durable journal promises to the operation that owns it: a        *)
(* register of two generations that survives the death of the process and  *)
(* the loss of power.  `reg.value` is what read() answers now, `reg.older` *)
(* what it would answer if the newest generation went away; `survivors` is *)
(* the set of registers a power loss may leave at this moment.  A call     *)
(* changes the register in several steps, and the process may die between  *)
(* any two of them.                                                        *)
(***************************************************************************)
EXTENDS Naturals

CONSTANTS Payload,  \* the records a caller stores
          None,     \* nothing is stored
          Corrupt,  \* a damaged record
          Unknown   \* no outcome is acknowledged

VARIABLES reg,        \* the generations read() can reach now
          survivors,  \* the generations a power loss may leave
          call,       \* the call in progress, or Idle
          acked,      \* what the last call, reported successful, stored
          decays      \* how many records the medium has damaged

vars == <<reg, survivors, call, acked, decays>>

Answer == Payload \union {None, Corrupt}

Register == [value : Answer, older : Answer]

Empty == [value |-> None, older |-> None]

Idle == [op |-> "idle", arg |-> None]

Calls == [op : {"idle", "write", "remove", "matched"},
          arg : Payload \union {None}]

TypeOK ==
  /\ reg \in Register
  /\ survivors \subseteq Register
  /\ call \in Calls
  /\ acked \in Payload \union {None, Unknown}
  /\ decays \in Nat

Init ==
  /\ reg = Empty
  /\ survivors = {Empty}
  /\ call = Idle
  /\ acked = None
  /\ decays = 0

Begin(op, p) ==
  /\ call = Idle
  /\ call' = [op |-> op, arg |-> p]
  /\ acked' = Unknown
  /\ UNCHANGED <<reg, survivors, decays>>

(* The directory may reach the disk at any moment of a call. *)
Flush ==
  /\ call # Idle
  /\ survivors' = {reg}
  /\ UNCHANGED <<reg, call, acked, decays>>

Effect ==
  /\ survivors' = survivors \union {reg'}
  /\ UNCHANGED <<call, acked, decays>>

(* A write keeps the readable record as the older generation before it     *)
(* shows its own payload; nothing else ever becomes readable.              *)
WriteEffect ==
  /\ call.op = "write"
  /\ reg' \in {[reg EXCEPT !.older = reg.value], [reg EXCEPT !.value = call.arg]}
  /\ Effect

(* A removal takes the generations away one after the other, so it may     *)
(* expose the older one on its way to nothing, and behind it a record that *)
(* the medium had damaged.                                                 *)
RemoveEffect ==
  /\ call.op = "remove"
  /\ \/ reg'.value \in {reg.value, reg.older, None}
     \/ decays > 0 /\ reg'.value = Corrupt
  /\ reg'.older \in {reg.older, None}
  /\ reg' \in Register
  /\ Effect

(* A conditional removal takes away only the payload it was given. *)
MatchedRemoveEffect ==
  /\ call.op = "matched"
  /\ reg'.value # reg.value => reg.value = call.arg
  /\ reg'.older # reg.older => reg.older = call.arg
  /\ reg'.value \in {reg.value, reg.older, None}
  /\ reg'.older \in {reg.older, None}
  /\ reg' \in Register
  /\ Effect

(* Success is acknowledged only for an outcome that no crash undoes: the   *)
(* payload of a write, or that nothing is readable any more.               *)
Acknowledge(outcome) ==
  /\ survivors' = {reg}
  /\ acked' = outcome
  /\ call' = Idle
  /\ UNCHANGED <<reg, decays>>

WriteReturnsOk ==
  call.op = "write" /\ reg.value = call.arg /\ Acknowledge(call.arg)

RemoveReturnsOk ==
  call.op \in {"remove", "matched"} /\ reg = Empty /\ Acknowledge(None)

(* Any other end of a call: an error, the death of the process, or a       *)
(* removal that had nothing to do.                                         *)
ReturnsUnacknowledged ==
  /\ call # Idle
  /\ call' = Idle
  /\ UNCHANGED <<reg, survivors, acked, decays>>

PowerLoss ==
  /\ reg' \in survivors
  /\ survivors' = {reg'}
  /\ call' = Idle
  /\ UNCHANGED <<acked, decays>>

(* The medium damages one generation: the newest one is then answered by   *)
(* the older one, and what cannot be replaced is reported as corrupt.      *)
Decay ==
  /\ reg' \in {[value |-> reg.older, older |-> reg.older],
               [value |-> Corrupt, older |-> reg.older],
               [reg EXCEPT !.older = Corrupt],
               [value |-> Corrupt, older |-> Corrupt]}
  /\ survivors' = {reg'}
  /\ decays' = decays + 1
  /\ acked' = Unknown
  /\ UNCHANGED call

Next ==
  \/ \E p \in Payload : Begin("write", p) \/ Begin("matched", p)
  \/ Begin("remove", None)
  \/ Flush \/ WriteEffect \/ RemoveEffect \/ MatchedRemoveEffect
  \/ WriteReturnsOk \/ RemoveReturnsOk \/ ReturnsUnacknowledged
  \/ PowerLoss \/ Decay

Spec == Init /\ [][Next]_vars
==============================================================================
