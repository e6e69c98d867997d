------------------------- MODULE BenchmarkTransport -------------------------
(***************************************************************************)
(* The mass-storage driver that the benchmarks carry with them: the guest  *)
(* form (examples/read_and_hash.rs and its copies), which awaits transfers *)
(* of the host, and the native form (usb-native/src/throughput.rs), which  *)
(* reads in loops.                                                         *)
(*                                                                         *)
(* Unlike the transport of BulkOnlyTransport, a transfer that fails or     *)
(* times out ends the command at once (the ? operator), with the device    *)
(* left where it was, and the benchmark may go on with its next read.      *)
(* Nothing clears a halt or resets the device before the next start.       *)
(*                                                                         *)
(* The device follows the protocol.  A command block that reaches it in    *)
(* the middle of another command waits in its buffer, if that is empty.    *)
(***************************************************************************)
EXTENDS Naturals, Sequences

CONSTANTS
  Drivers,      \* the drivers checked, of "guest" and "native"
  Lengths,      \* packets of data a READ may ask for
  MaxTag,       \* bound: commands of a session
  MaxSessions   \* bound: benchmarks, one after the other

ASSUME BenchmarkAssumption ==
  /\ Drivers \subseteq {"guest", "native"}
  /\ Lengths \subseteq Nat \ {0}
  /\ MaxTag \in Nat /\ MaxSessions \in Nat \ {0}

\* TEST UNIT READY (len 0), READ CAPACITY and READ (10).
Commands == [len : Nat, session : Nat, tag : Nat]
NoCommand == [len |-> 0, session |-> 0, tag |-> 0]

\* Packets to the host.  "empty": of no bytes; "short": of fewer than a full packet.
\* Both end a transfer, as the thirteen bytes of a status do.
Sizes == {"full", "short", "empty"}
Packets == [kind : {"data", "passed", "failed"}, of : Commands, index : Nat, size : Sizes]
Data(c, i, size) == [kind |-> "data", of |-> c, index |-> i, size |-> size]
Csw(c, verdict) == [kind |-> verdict, of |-> c, index |-> 0, size |-> "short"]

VARIABLES
  driver,   \* which driver this is
  session,  \* which benchmark it is
  tag,      \* the tag last used
  pc,       \* the transfer the command is at
  cmd,      \* the command
  got,      \* the packets of its data
  result,   \* history: the last command that returned Ok, its status and its data
  lost,     \* history: a command of the session began before the device was ready for it
  phase,    \* what the device waits for
  work,     \* the command it is at
  left,     \* packets of its data that are still to come
  buffer    \* the command block that waits in it

device == <<phase, work, left, buffer>>
vars == <<driver, session, tag, pc, cmd, got, result, lost, device>>

Init ==
  /\ driver \in Drivers
  /\ session = 1 /\ tag = 0 /\ pc = "idle" /\ cmd = NoCommand /\ got = <<>>
  /\ result = [cmd |-> NoCommand, status |-> Csw(NoCommand, "passed"), data |-> <<>>]
  /\ lost = FALSE
  /\ phase = "ready" /\ work = NoCommand /\ left = 0 /\ buffer = <<>>

-----------------------------------------------------------------------------
(***************************************************************************)
(* The device.                                                             *)
(***************************************************************************)

\* Data, which it ends early with a packet that is not full, or the status.
Offers ==
  IF phase = "in" THEN {Data(work, work.len - left + 1, size) : size \in Sizes}
  ELSE IF phase = "status" THEN {Csw(work, "passed"), Csw(work, "failed")}
  ELSE {}

Sends(p) ==
  /\ p \in Offers
  /\ IF p.kind = "data"
       THEN /\ left' = left - 1
            /\ phase' = IF p.size = "full" /\ left > 1 THEN "in" ELSE "status"
       ELSE phase' = "ready" /\ UNCHANGED left
  /\ UNCHANGED <<work, buffer>>

Starts(c) ==
  /\ work' = c /\ left' = c.len
  /\ phase' = IF c.len = 0 THEN "status" ELSE "in"

\* The command block of c arrives.
TakesCbw(c) ==
  /\ buffer = <<>>
  /\ IF phase = "ready" THEN Starts(c) /\ UNCHANGED buffer
     ELSE buffer' = <<c>> /\ UNCHANGED <<phase, work, left>>

\* The device turns to the command block in its buffer.
TakesBuffered ==
  /\ phase = "ready" /\ buffer # <<>>
  /\ Starts(buffer[1]) /\ buffer' = <<>>
  /\ UNCHANGED <<driver, session, tag, pc, cmd, got, result, lost>>

\* It cannot go on with the data, and halts the pipe to the host.
Halts ==
  /\ phase = "in"
  /\ phase' = "halted"
  /\ UNCHANGED <<driver, session, tag, pc, cmd, got, result, lost, work, left, buffer>>

\* Nothing of an earlier command is left in it.
InStep == phase = "ready" /\ buffer = <<>>

-----------------------------------------------------------------------------
(***************************************************************************)
(* A command of the driver.                                                *)
(***************************************************************************)

\* UsbMassStorage::new asks whether the unit is ready, then for the capacity; then
\* come the reads.  increase_tag wraps after 2^32 commands, which MaxTag is below.
Begin(len) ==
  /\ pc = "idle" /\ tag < MaxTag
  /\ IF tag = 0 THEN len = 0 ELSE IF tag = 1 THEN len = 1 ELSE len \in Lengths
  /\ tag' = tag + 1
  /\ cmd' = [len |-> len, session |-> session, tag |-> tag']
  /\ lost' = (lost \/ ~InStep)
  /\ pc' = "cbw" /\ got' = <<>>
  /\ UNCHANGED <<driver, session, result, device>>

\* The command returns Err: that ends new and, with it, the benchmark; after it, a
\* benchmark panics (read_latency, readlot) or goes on with what it reads next.
Fails == pc' \in IF tag <= 2 THEN {"dead"} ELSE {"idle", "dead"}

SendCbw ==
  /\ pc = "cbw"
  /\ TakesCbw(cmd)
  /\ pc' = IF cmd.len = 0 THEN "csw" ELSE "in"
  /\ UNCHANGED <<driver, session, tag, cmd, got, result, lost>>

\* The transfer failed or timed out; the command block may have arrived all the same.
SendCbwFails ==
  /\ pc = "cbw"
  /\ TakesCbw(cmd) \/ UNCHANGED device
  /\ Fails
  /\ UNCHANGED <<driver, session, tag, cmd, got, result, lost>>

\* The one transfer of the guest driver has all it asked for, or a packet that ends it.
GuestComplete == got # <<>> /\ (Len(got) = cmd.len \/ got[Len(got)].size # "full")

\* The native driver reads on after a packet that is not full, as long as a read brings
\* anything.  What follows such a packet fits or not: its length is not modelled.
Ended == got # <<>> /\ got[Len(got)].size # "full"
Uneven == \E i \in DOMAIN got : got[i].size = "short"
NothingRead ==
  /\ Ended /\ got[Len(got)].size = "empty"
  /\ Len(got) > 1 => got[Len(got) - 1].size # "full"
NativeMayEnd ==
  \/ Len(got) = cmd.len /\ ~Uneven /\ ~Ended
  \/ Uneven /\ Len(got) > 1
  \/ NothingRead
NativeMayGoOn ==
  /\ ~NothingRead
  /\ Len(got) < cmd.len \/ Ended \/ Uneven
  /\ Len(got) <= cmd.len

\* Slip: the guest driver reads on after a packet that is not full, too.
ReceiveDataOn ==
  /\ pc = "in"
  /\ Len(got) <= cmd.len
  /\ \E p \in Offers : Sends(p) /\ got' = Append(got, p)
  /\ UNCHANGED <<driver, session, tag, pc, cmd, result, lost>>

ReceiveData ==
  /\ pc = "in"
  /\ IF driver = "guest" THEN ~GuestComplete ELSE NativeMayGoOn
  /\ \E p \in Offers : Sends(p) /\ got' = Append(got, p)
  /\ UNCHANGED <<driver, session, tag, pc, cmd, result, lost>>

\* Fewer bytes than asked for are a warning; the rest of the buffer stays zero.
EndData ==
  /\ pc = "in"
  /\ IF driver = "guest" THEN GuestComplete ELSE NativeMayEnd
  /\ pc' = "csw"
  /\ UNCHANGED <<driver, session, tag, cmd, got, result, lost, device>>

\* Slip: a transfer that failed is tried again.
DataFailsRetried ==
  /\ pc = "in"
  /\ got' = <<>>
  /\ UNCHANGED <<driver, session, tag, pc, cmd, result, lost, device>>

\* The transfer failed or timed out, whatever it had by then.
DataFails ==
  /\ pc = "in"
  /\ Fails
  /\ UNCHANGED <<driver, session, tag, cmd, got, result, lost, device>>

\* Slip: the tag is not compared.
AcceptsAnyTag(p) == p.kind = "passed"

\* Thirteen bytes, the signature, the tag of the command and status 0.
Accepts(p) == p.kind = "passed" /\ p.of.tag = cmd.tag

ReceiveStatus ==
  /\ pc = "csw"
  /\ \E p \in Offers :
       /\ Sends(p)
       /\ IF Accepts(p)
            THEN result' = [cmd |-> cmd, status |-> p, data |-> got] /\ pc' = "idle"
            ELSE Fails /\ UNCHANGED result
  /\ UNCHANGED <<driver, session, tag, cmd, got, lost>>

\* No status in time, or too late.
StatusFails ==
  /\ pc = "csw"
  /\ UNCHANGED device \/ \E p \in Offers : Sends(p)
  /\ Fails
  /\ UNCHANGED <<driver, session, tag, cmd, got, result, lost>>

-----------------------------------------------------------------------------
\* The benchmark is over, or the user ends it: in the middle of a command, too.
End ==
  /\ pc # "dead"
  /\ pc' = "dead"
  /\ UNCHANGED <<driver, session, tag, cmd, got, result, lost, device>>

\* Slip: a start that goes on when the reset failed.
RestartAnyway ==
  /\ pc = "dead" /\ session < MaxSessions
  /\ session' = session + 1 /\ tag' = 0 /\ pc' = "idle" /\ lost' = FALSE
  /\ UNCHANGED <<driver, cmd, got, result, device>>

\* UsbMassStorage::new: reset()?; a reset that fails ends the next benchmark before
\* its first command.
Restart ==
  /\ pc = "dead" /\ session < MaxSessions
  /\ session' = session + 1 /\ tag' = 0 /\ pc' = "idle" /\ lost' = FALSE
  /\ phase' = "ready" /\ buffer' = <<>>
  /\ UNCHANGED <<driver, cmd, got, result, work, left>>

Next ==
  \/ \E len \in {0, 1} \cup Lengths : Begin(len)
  \/ SendCbw \/ SendCbwFails \/ ReceiveData \/ EndData \/ DataFails
  \/ ReceiveStatus \/ StatusFails
  \/ TakesBuffered \/ Halts \/ End \/ Restart

Spec == Init /\ [][Next]_vars

-----------------------------------------------------------------------------
(***************************************************************************)
(* Properties.                                                             *)
(***************************************************************************)
\* Every variable has its type, and a driver stops reading when its buffer is full: the
\* native one may need one packet more, when one of them is short.
TypeInv ==
  /\ driver \in Drivers /\ session \in 1..MaxSessions /\ tag \in 0..MaxTag
  /\ pc \in {"idle", "cbw", "in", "csw", "dead"}
  /\ cmd \in Commands /\ work \in Commands /\ left \in Nat
  /\ got \in Seq(Packets)
  /\ Len(got) <= IF driver = "guest" THEN cmd.len ELSE cmd.len + 1
  /\ result \in [cmd : Commands, status : Packets, data : Seq(Packets)]
  /\ lost \in BOOLEAN
  /\ phase \in {"ready", "in", "status", "halted"}
  /\ buffer \in Seq(Commands) /\ Len(buffer) <= 1

\* A command that returns Ok has its own status: never that of a command that failed
\* before it, in this benchmark or in an earlier one.
StatusIsOwn == result.status.of = result.cmd /\ result.status.kind = "passed"

\* The data of a command that returns Ok was sent for that command, from its start on
\* and without a gap.  The native driver can tell only if no packet came short.
DataIsOwn ==
  result.cmd.session > 0 /\ (driver = "guest" \/ \A i \in DOMAIN result.data : result.data[i].size = "full") =>
    \A i \in DOMAIN result.data :
      result.data[i].kind = "data" /\ result.data[i].of = result.cmd /\ result.data[i].index = i

\* Once the guest driver is out of step with the device it stays so: no command that
\* begins after it returns Ok, until the next start resets the device.
NeverBackInStep == [][driver = "guest" /\ lost => UNCHANGED result]_vars

\* read_and_hash.rs 413: a READ that passes has all its data.
PassedReadsAreWhole ==
  result.cmd.session > 0 /\ driver = "guest" =>
    \A i \in DOMAIN result.data : result.data[i].size = "full"
=============================================================================
