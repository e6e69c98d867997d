------------------------- MODULE BulkOnlyTransport -------------------------
(***************************************************************************)
(* The bulk-only transport of the mass-storage guest                       *)
(* (examples/mass-storage/src/bulk_only/wasm.rs) and what the commands of  *)
(* mass_storage.rs make of its answers.                                    *)
(*                                                                         *)
(* A command is up to three bulk transfers, each with a timeout: the       *)
(* command block (CBW), the data, the status (CSW).  The code ignores how  *)
(* the first two end: a transfer that timed out has lost what it moved, or *)
(* moved nothing, or moved everything too late, and the command goes on.   *)
(* Only the status tells.                                                  *)
(*                                                                         *)
(* A guest that panics or is killed may leave the device in the middle of  *)
(* a command.  The next one resets it, and goes on if the reset fails.     *)
(*                                                                         *)
(* The device follows the protocol: it takes a CBW only when it waits for  *)
(* one, and stays in its phase as long as nobody reads or writes.          *)
(***************************************************************************)
EXTENDS Naturals, Sequences

CONSTANTS
  Reads,        \* packets of data of the commands that read: INQUIRY, READ (10), ...
  Writes,       \* packets of data of WRITE (10)
  MaxTag,       \* bound: commands of a guest
  MaxSessions,  \* bound: guests, one after the other
  Resets        \* what reset_device() may do: {TRUE} if it always works

ASSUME BulkAssumption ==
  /\ Reads \subseteq Nat \ {0} /\ Writes \subseteq Nat \ {0}
  /\ MaxTag \in Nat /\ MaxSessions \in Nat \ {0}
  /\ Resets \subseteq BOOLEAN

Ops == {"ready", "read", "write", "sense"}

\* A command is known by its guest and its tag.
Commands == [op : Ops, len : Nat, session : Nat, tag : Nat]
Command(op, len, session, tag) == [op |-> op, len |-> len, session |-> session, tag |-> tag]

VARIABLES
  \* guest
  session,  \* which guest it is
  tag,      \* current_tag
  pc,       \* the transfer command_in or command_out is at
  cmd,      \* the command
  got,      \* the packets of the data transfer
  result,   \* history: the last command that returned Ok, its status and its data
  \* device
  phase,    \* what it waits for
  work,     \* the command it is at
  left      \* packets of its data that are still to come

guest == <<session, tag, cmd, result>>
device == <<phase, work, left>>
vars == <<guest, pc, got, device>>

\* Packets on their way to the guest.
Data(c, i, short) == [kind |-> "data", of |-> c, index |-> i, short |-> short]
Csw(c, verdict) == [kind |-> verdict, of |-> c, index |-> 0, short |-> TRUE]
Verdict == {"passed", "failed"}  \* "failed": any status but CommandPassed
Packets == [kind : Verdict \cup {"data"}, of : Commands, index : Nat, short : BOOLEAN]

NoCommand == Command("ready", 0, 0, 0)

Init ==
  /\ session = 1 /\ tag = 0 /\ pc = "idle" /\ cmd = NoCommand /\ got = <<>>
  /\ result = [cmd |-> NoCommand, status |-> Csw(NoCommand, "passed"), data |-> <<>>]
  /\ phase = "ready" /\ work = NoCommand /\ left = 0

-----------------------------------------------------------------------------
(***************************************************************************)
(* The device.                                                             *)
(***************************************************************************)

\* What the device has for the guest: data, which it may end early with a short
\* packet, or the status.  It passes no write whose data it did not get.
Offers ==
  LET verdicts == IF work.op = "write" /\ left > 0 THEN {"failed"} ELSE Verdict
  IN IF phase = "in" THEN {Data(work, work.len - left + 1, short) : short \in BOOLEAN}
     ELSE IF phase = "status" THEN {Csw(work, v) : v \in verdicts}
     ELSE {}

\* Packet p leaves the device.
Sends(p) ==
  /\ p \in Offers
  /\ IF p.kind = "data"
       THEN /\ left' = left - 1
            /\ phase' = IF p.short \/ left = 1 THEN "status" ELSE "in"
       ELSE phase' = "ready" /\ UNCHANGED left
  /\ UNCHANGED work

\* The CBW of c arrives: it starts a command, or is taken for the rest of the data
\* of another one.
TakesCbw(c) ==
  \/ /\ phase = "ready"
     /\ work' = c /\ left' = c.len
     /\ phase' = IF c.len = 0 THEN "status" ELSE IF c.op = "write" THEN "out" ELSE "in"
  \/ /\ phase = "out" /\ phase' = "status"
     /\ UNCHANGED <<work, left>>

\* A packet of data arrives; a device that waits for a CBW halts its endpoints at it.
TakesData ==
  /\ \/ phase = "out" /\ left' = left - 1 /\ phase' = IF left = 1 THEN "status" ELSE "out"
     \/ phase = "ready" /\ phase' = "halted" /\ UNCHANGED left
  /\ UNCHANGED work

\* The device cannot go on with the data: it halts the pipe to the guest, or has
\* the status ready instead.
GivesUp ==
  /\ phase \in {"in", "out"}
  /\ phase' \in {"status", "halted"}
  /\ UNCHANGED <<guest, pc, got, work, left>>

-----------------------------------------------------------------------------
(***************************************************************************)
(* A command of the guest.                                                 *)
(***************************************************************************)

\* MassStorageDevice::new asks first whether the unit is ready; a failed write is
\* followed by a request for the reason.
MayBegin(op, len) ==
  \/ op = "ready" /\ pc = "idle" /\ tag = 0 /\ len = 0
  \/ op = "read" /\ pc = "idle" /\ tag > 0 /\ len \in Reads
  \/ op = "write" /\ pc = "idle" /\ tag > 0 /\ len \in Writes
  \/ op = "sense" /\ pc = "sense" /\ len = 1

Begin(op, len) ==
  /\ MayBegin(op, len) /\ tag < MaxTag
  /\ cmd' = Command(op, len, session, tag)
  /\ tag' = tag + 1
  /\ pc' = "cbw" /\ got' = <<>>
  /\ UNCHANGED <<session, result, device>>

SendCbw ==
  /\ pc = "cbw"
  /\ TakesCbw(cmd) \/ UNCHANGED device
  /\ pc' = IF cmd.len = 0 THEN "csw" ELSE IF cmd.op = "write" THEN "out" ELSE "in"
  /\ UNCHANGED <<guest, got>>

\* The transfer of the data has all it asked for, or a short packet.
Complete == got # <<>> /\ (Len(got) = cmd.len \/ got[Len(got)].short)

\* Slip: a transfer that reads beyond its buffer.
ReceiveDataOn ==
  /\ pc = "in"
  /\ \E p \in Offers : Sends(p) /\ got' = Append(got, p)
  /\ UNCHANGED <<guest, pc>>

ReceiveData ==
  /\ pc = "in" /\ ~Complete
  /\ \E p \in Offers : Sends(p) /\ got' = Append(got, p)
  /\ UNCHANGED <<guest, pc>>

\* Slip: data that timed out is asked for again.
EndDataRetries ==
  /\ pc = "in"
  /\ IF Complete THEN pc' = "csw" /\ UNCHANGED got ELSE got' = <<>> /\ UNCHANGED pc
  /\ UNCHANGED <<guest, device>>

\* map(|r| r.data).unwrap_or_default(): all the packets, or none if the transfer
\* failed or timed out, however many it had.
EndData ==
  /\ pc = "in"
  /\ (Complete /\ UNCHANGED got) \/ got' = <<>>
  /\ pc' = "csw"
  /\ UNCHANGED <<guest, device>>

SendData ==
  /\ pc = "out"
  /\ TakesData
  /\ UNCHANGED <<guest, pc, got>>

\* await_transfer(&xfer_data).ok(): sent, failed or timed out.
EndSend ==
  /\ pc = "out"
  /\ pc' = "csw"
  /\ UNCHANGED <<guest, got, device>>

\* Slip: the tag is not compared.
AcceptsAnyTag(p) == p.kind \in Verdict

\* Thirteen bytes with the tag of the command.
Accepts(p) == p.kind \in Verdict /\ p.of.tag = cmd.tag

\* After Ok, a command that failed panics the guest, ends it (a unit that is not
\* ready) or, for a write, is asked for the reason.
AfterStatus(p) ==
  IF p.kind = "passed" THEN "idle" ELSE IF cmd.op = "write" THEN "sense" ELSE "dead"

\* IncorrectTag is unwrapped by every caller: the guest panics.
ReceiveStatus ==
  /\ pc = "csw"
  /\ \E p \in Offers :
       /\ Sends(p)
       /\ IF Accepts(p)
            THEN /\ result' = [cmd |-> cmd, status |-> p, data |-> got]
                 /\ pc' = AfterStatus(p)
            ELSE pc' = "dead" /\ UNCHANGED result
  /\ UNCHANGED <<session, tag, cmd, got>>

\* Slip: the caller ignores the error and goes on with its next command.
StatusTimesOutIgnored ==
  /\ pc = "csw"
  /\ pc' = "idle"
  /\ UNCHANGED <<guest, got, device>>

\* No status in time, or too late.
StatusTimesOut ==
  /\ pc = "csw"
  /\ UNCHANGED device \/ \E p \in Offers : Sends(p)
  /\ pc' = "dead"
  /\ UNCHANGED <<guest, got>>

-----------------------------------------------------------------------------
\* The guest ends at any time: by the user, or by a panic of its own.
Kill ==
  /\ pc # "dead"
  /\ pc' = "dead"
  /\ UNCHANGED <<guest, got, device>>

\* BulkOnlyTransportDevice::new: reset_device().ok(), and the tags start at 0.
Restart ==
  /\ pc = "dead" /\ session < MaxSessions
  /\ session' = session + 1 /\ tag' = 0 /\ pc' = "idle"
  /\ \E works \in Resets :
       IF works THEN phase' = "ready" /\ UNCHANGED <<work, left>> ELSE UNCHANGED device
  /\ UNCHANGED <<cmd, got, result>>

Next ==
  \/ \E op \in Ops, len \in {0, 1} \cup Reads \cup Writes : Begin(op, len)
  \/ SendCbw \/ ReceiveData \/ EndData \/ SendData \/ EndSend
  \/ ReceiveStatus \/ StatusTimesOut
  \/ GivesUp \/ Kill \/ Restart

Spec == Init /\ [][Next]_vars

-----------------------------------------------------------------------------
(***************************************************************************)
(* Properties.                                                             *)
(***************************************************************************)
\* Every variable has its type, and a transfer brings no more than it asked for.
TypeInv ==
  /\ session \in 1..MaxSessions /\ tag \in 0..MaxTag
  /\ pc \in {"idle", "cbw", "in", "out", "csw", "sense", "dead"}
  /\ cmd \in Commands /\ work \in Commands /\ left \in Nat
  /\ got \in Seq(Packets) /\ Len(got) <= cmd.len
  /\ result.cmd \in Commands /\ result.status \in Packets /\ result.data \in Seq(Packets)
  /\ phase \in {"ready", "in", "out", "status", "halted"}

\* A command that returns Ok has its own status, whatever transfers timed out and
\* wherever an earlier guest left the device.  Only the first command of a guest
\* may get another one's: that of the first command of the guest before.
StatusIsOwn ==
  LET of == result.status.of
  IN /\ of = [result.cmd EXCEPT !.session = of.session]
     /\ of # result.cmd => of.tag = 0

\* The data a command returns with Ok is what the device sent for that command,
\* from its start on and without a gap: nothing of an earlier command, and no status.
DataIsOwn ==
  \A i \in DOMAIN result.data :
    result.data[i].kind = "data" /\ result.data[i].of = result.cmd /\ result.data[i].index = i

\* When one command is over and the next one may begin, the device waits for it:
\* no command that lost a step on the way returns Ok.
InStep == pc \in {"idle", "sense"} /\ tag > 0 => phase = "ready"

\* wasm.rs 16: a response with a different tag is an error, so that what is
\* accepted is the response to this command.
StatusIsThisCommands == result.status.of = result.cmd

\* mass_storage.rs 180: a read that passed has its data.
PassedReadsAreWhole ==
  result.status.kind = "passed" /\ result.cmd.op = "read" => Len(result.data) = result.cmd.len
=============================================================================
