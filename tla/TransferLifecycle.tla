------------------------- MODULE TransferLifecycle -------------------------
(***************************************************************************)
(* The life of a USB transfer in usb-wasi-host/src/main.rs, as seen by the *)
(* two threads that touch it:                                              *)
(*                                                                         *)
(*   - the host thread runs one call of the guest at a time (new_transfer, *)
(*     submit_transfer, cancel_transfer, await_transfer, drop), on the     *)
(*     UsbTransfer it finds in the ResourceTable;                          *)
(*   - the event thread runs libusb's event loop, which reaps a finished   *)
(*     transfer and runs transfer_callback on it.                          *)
(*                                                                         *)
(* A call that checks a transfer and then hands it to libusb is two steps, *)
(* and so is submit_transfer, which stores the receiver after libusb took  *)
(* the transfer; transfer_callback is four.  The threads interleave between*)
(* any two of these.                                                       *)
(*                                                                         *)
(* A guest's handle on a transfer is named by the transfer it was created  *)
(* for.  It holds a slot index only: the call acts on whatever the         *)
(* ResourceTable has in that slot.  A slot taken by another type of        *)
(* resource answers like an empty one, and is modelled as empty.           *)
(*                                                                         *)
(* One device handle is modelled: transfers of different handles share     *)
(* nothing but the event thread.                                           *)
(***************************************************************************)

CONSTANTS
  Transfers,  \* the transfers the guest may create
  Slots,      \* the indices of the ResourceTable that transfers can get
  Kinds,      \* what the guest may ask of new_transfer: [out, timed, iso]
  Reports,    \* the completion statuses the device and the kernel may report
  Faults,     \* what the environment and the guest may do to a transfer
  None        \* no slot, no transfer, no value

\* The completion codes of libusb that transfer_callback tells apart.
Status == {"COMPLETED", "TIMED_OUT", "CANCELLED", "STALL", "NO_DEVICE",
           "OVERFLOW", "ERROR"}

\* unplug: the device goes away; close: the guest drops the device handle;
\* submit: libusb refuses a transfer; loop: libusb_handle_events fails.
Fault == {"unplug", "close", "submit", "loop"}

ASSUME KindsAssumption ==
  Kinds \subseteq [out : BOOLEAN, timed : BOOLEAN, iso : BOOLEAN]
ASSUME ReportsAssumption == Reports \subseteq Status
ASSUME FaultsAssumption == Faults \subseteq Fault

VARIABLES
  \* guest
  handle,      \* the slot each of the guest's handles holds, None if it has none
  got,         \* what await_transfer returned for each transfer
  \* host thread
  op,          \* the call between its check and its act, "idle" between calls
  cur,         \* the handle that call was made on
  panic,       \* the expect() that failed; the process is gone then
  table,       \* ResourceTable: the transfer in each slot
  \* UsbTransfer and TransferContext
  kind,        \* the options of new_transfer
  completed,   \* the flag shared by UsbTransfer and TransferContext
  buffer,      \* who owns the boxed buffer: "transfer", "context" or "freed"
  receiver,    \* UsbTransfer.receiver is Some
  packets,     \* iso_packet_results is Some
  chan,        \* the oneshot channel: "none", "open", a Status sent, "taken"
  \* libusb and the event thread
  phase,       \* where libusb and transfer_callback are with each transfer
  status,      \* libusb_transfer.status
  cancelling,  \* libusb accepted a cancel
  looping,     \* the event thread runs
  opened,      \* the device handle is open
  plugged      \* the device is attached

guestVars == <<handle, got>>
callVars  == <<op, cur, panic>>
xferVars  == <<table, kind, completed, buffer, receiver, packets, chan>>
usbVars   == <<phase, status, cancelling>>
envVars   == <<looping, opened, plugged>>
vars == <<guestVars, callVars, xferVars, usbVars, envVars>>

\* "idle": allocated, not with libusb; "inflight": on libusb's list of flying
\* transfers; "reaped", "stored", "sent": transfer_callback is at its result,
\* past the store of completed, past the send; "orphaned": libusb_close took it
\* off the list.
Phase == {"none", "idle", "inflight", "reaped", "stored", "sent", "freed", "orphaned"}
InCallback(t) == phase[t] \in {"reaped", "stored", "sent"}
CallbackRunning == \E t \in Transfers : InCallback(t)

\* What await_transfer makes of a status: data, data with packet results, or
\* the LibusbError of transfer_callback.
FromStatus(s) ==
  CASE s = "TIMED_OUT" -> "Timeout"
    [] s = "CANCELLED" -> "Interrupted"
    [] s = "STALL"     -> "Pipe"
    [] s = "NO_DEVICE" -> "NoDevice"
    [] s = "OVERFLOW"  -> "Overflow"
    [] s = "ERROR"     -> "Io"
    [] OTHER           -> "Other"
Answer(s, pkts) ==
  IF s # "COMPLETED" THEN FromStatus(s) ELSE IF pkts THEN "DataAndPackets" ELSE "Data"
Answers == {"Timeout", "Interrupted", "Pipe", "NoDevice", "Overflow", "Io", "Other",
            "Data", "DataAndPackets"}

ASSUME NoneAssumption ==
  None \notin Transfers \cup Slots /\ None \notin Kinds /\ None \notin Status \cup Answers

Init ==
  /\ handle = [t \in Transfers |-> None]
  /\ got = [t \in Transfers |-> None]
  /\ op = "idle" /\ cur = None /\ panic = None
  /\ table = [s \in Slots |-> None]
  /\ kind = [t \in Transfers |-> None]
  /\ completed = [t \in Transfers |-> FALSE]
  /\ buffer = [t \in Transfers |-> "none"]
  /\ receiver = [t \in Transfers |-> FALSE]
  /\ packets = [t \in Transfers |-> FALSE]
  /\ chan = [t \in Transfers |-> "none"]
  /\ phase = [t \in Transfers |-> "none"]
  /\ status = [t \in Transfers |-> None]
  /\ cancelling = [t \in Transfers |-> FALSE]
  /\ looping = TRUE /\ opened = TRUE /\ plugged = TRUE

-----------------------------------------------------------------------------
(***************************************************************************)
(* Calls of the guest.  The guest is one thread: a call starts when none   *)
(* is in progress.                                                         *)
(***************************************************************************)

\* The guest calls through handle h, and the table has transfer t in its slot.
Call(h) == panic = None /\ op = "idle" /\ handle[h] # None
Finds(h, t) == t # None /\ table[handle[h]] = t
FindsNothing(h) == table[handle[h]] = None

Panic(what) ==
  /\ panic' = what
  /\ UNCHANGED <<guestVars, op, cur, xferVars, usbVars, envVars>>

\* Hand the transfer behind h to the act of call o.
Begin(o, h) ==
  /\ op' = o /\ cur' = h
  /\ UNCHANGED panic
Return ==
  /\ op' = "idle" /\ cur' = None
  /\ UNCHANGED panic

\* A failed libusb_alloc_transfer returns NoMem and changes nothing.
NewTransfer(t, s, k) ==
  /\ panic = None /\ op = "idle" /\ opened
  /\ phase[t] = "none" /\ table[s] = None
  /\ phase' = [phase EXCEPT ![t] = "idle"]
  /\ kind' = [kind EXCEPT ![t] = k]
  /\ buffer' = [buffer EXCEPT ![t] = "transfer"]
  /\ table' = [table EXCEPT ![s] = t]
  /\ handle' = [handle EXCEPT ![t] = s]
  /\ UNCHANGED <<got, callVars, completed, receiver, packets, chan,
                 status, cancelling, envVars>>

\* The early returns of submit_transfer: Busy, or InvalidParam when the data
\* of an OUT transfer has not the length of its buffer.
SubmitRefuses(t, fits) == completed[t] \/ (kind[t].out /\ ~fits)

SubmitRefused(h, fits) ==
  /\ Call(h)
  /\ \E t \in Transfers : Finds(h, t) /\ SubmitRefuses(t, fits)
  /\ UNCHANGED vars

\* buffer.take().expect("buffer not allocated"), after an OUT transfer's data
\* was copied to the address the buffer has or had.
SubmitPanics(h, fits) ==
  /\ Call(h)
  /\ \/ FindsNothing(h) /\ Panic("Failed to get transfer")
     \/ /\ \E t \in Transfers :
             Finds(h, t) /\ ~SubmitRefuses(t, fits) /\ buffer[t] # "transfer"
        /\ Panic("buffer not allocated")

\* Slip: take() without the expect, so a transfer without a buffer goes to
\* libusb again.
SubmitAcceptedUnchecked(h, fits) ==
  /\ Call(h)
  /\ \E t \in Transfers :
       /\ Finds(h, t) /\ ~SubmitRefuses(t, fits)
       /\ \/ opened /\ plugged /\ phase' = [phase EXCEPT ![t] = "inflight"]
          \/ ~opened /\ phase' = [phase EXCEPT ![t] = "orphaned"]
       /\ buffer' = [buffer EXCEPT ![t] = IF @ = "transfer" THEN "context" ELSE @]
       /\ chan' = [chan EXCEPT ![t] = "open"]
  /\ Begin("submit", h)
  /\ UNCHANGED <<guestVars, table, kind, completed, receiver, packets,
                 status, cancelling, envVars>>

\* The buffer moves to the boxed context; libusb has the transfer.  A device
\* handle that is closed leaves a dangling dev_handle: whatever libusb does
\* with it, the transfer is on no device's list.
SubmitAccepted(h, fits) ==
  /\ Call(h)
  /\ \E t \in Transfers :
       /\ Finds(h, t) /\ ~SubmitRefuses(t, fits) /\ buffer[t] = "transfer"
       /\ \/ opened /\ plugged /\ phase' = [phase EXCEPT ![t] = "inflight"]
          \/ ~opened /\ phase' = [phase EXCEPT ![t] = "orphaned"]
       /\ buffer' = [buffer EXCEPT ![t] = "context"]
       /\ chan' = [chan EXCEPT ![t] = "open"]
  /\ Begin("submit", h)
  /\ UNCHANGED <<guestVars, table, kind, completed, receiver, packets,
                 status, cancelling, envVars>>

\* libusb_submit_transfer < 0: the context is boxed back and dropped, and the
\* buffer with it; UsbTransfer.buffer stays None.
SubmitFails(h, fits) ==
  /\ Call(h)
  /\ "submit" \in Faults \/ ~plugged \/ ~opened
  /\ \E t \in Transfers :
       /\ Finds(h, t) /\ ~SubmitRefuses(t, fits) /\ buffer[t] = "transfer"
       /\ buffer' = [buffer EXCEPT ![t] = "freed"]
  /\ UNCHANGED <<guestVars, callVars, table, kind, completed, receiver, packets, chan,
                 usbVars, envVars>>

SubmitTransfer(h, fits) ==
  \/ SubmitRefused(h, fits) \/ SubmitPanics(h, fits)
  \/ SubmitAccepted(h, fits) \/ SubmitFails(h, fits)

\* transfer_mut.receiver = Some(receiver)
SubmitStoresReceiver ==
  /\ panic = None /\ op = "submit"
  /\ \E t \in Transfers :
       Finds(cur, t) /\ receiver' = [receiver EXCEPT ![t] = TRUE]
  /\ Return
  /\ UNCHANGED <<guestVars, table, kind, completed, buffer, packets, chan, usbVars, envVars>>

\* cancel_transfer loads completed, and then calls libusb if it was false.
CancelTransfer(h) ==
  /\ Call(h)
  /\ \/ FindsNothing(h) /\ Panic("Failed to get transfer")
     \/ (\E t \in Transfers : Finds(h, t) /\ completed[t]) /\ UNCHANGED vars
     \/ /\ \E t \in Transfers : Finds(h, t) /\ ~completed[t]
        /\ Begin("cancel", h)
        /\ UNCHANGED <<guestVars, xferVars, usbVars, envVars>>

\* drop of a transfer: the same check, an absent entry is ignored, and the
\* entry stays in the table.
DropTransfer(h) ==
  /\ Call(h)
  /\ \/ /\ FindsNothing(h) \/ \E t \in Transfers : Finds(h, t) /\ completed[t]
        /\ handle' = [handle EXCEPT ![h] = None]
        /\ UNCHANGED <<got, callVars, xferVars, usbVars, envVars>>
     \/ /\ \E t \in Transfers : Finds(h, t) /\ ~completed[t]
        /\ Begin("drop", h)
        /\ UNCHANGED <<guestVars, xferVars, usbVars, envVars>>

\* libusb_cancel_transfer has an effect on a flying transfer only.  On any
\* other it returns an error; on one that was freed it reads freed memory.
LibusbCancel(t) ==
  cancelling' = [cancelling EXCEPT ![t] = @ \/ phase[t] = "inflight"]

CancelActs ==
  /\ panic = None /\ op \in {"cancel", "drop"}
  /\ \E t \in Transfers : Finds(cur, t) /\ LibusbCancel(t)
  /\ handle' = IF op = "drop" THEN [handle EXCEPT ![cur] = None] ELSE handle
  /\ Return
  /\ UNCHANGED <<got, xferVars, phase, status, envVars>>

\* await_transfer takes the receiver, or returns NotFound when there is none.
AwaitTransfer(h) ==
  /\ Call(h)
  /\ \/ FindsNothing(h) /\ Panic("Failed to get transfer")
     \/ (\E t \in Transfers : Finds(h, t) /\ ~receiver[t]) /\ UNCHANGED vars
     \/ /\ \E t \in Transfers :
             Finds(h, t) /\ receiver[t] /\ receiver' = [receiver EXCEPT ![t] = FALSE]
        /\ Begin("await", h)
        /\ UNCHANGED <<guestVars, table, kind, completed, buffer, packets, chan,
                       usbVars, envVars>>

\* Slip: an error of the transfer is never handed to the guest.
AwaitReturnsDataOnly ==
  /\ panic = None /\ op = "await"
  /\ \E t \in Transfers :
       /\ Finds(cur, t) /\ chan[t] = "COMPLETED"
       /\ got' = [got EXCEPT ![t] = Answer(chan[t], packets[t])]
       /\ chan' = [chan EXCEPT ![t] = "taken"]
       /\ packets' = [packets EXCEPT ![t] = FALSE]
       /\ table' = [table EXCEPT ![handle[cur]] = None]
  /\ Return
  /\ UNCHANGED <<handle, kind, completed, buffer, receiver, usbVars, envVars>>

\* What the channel brings.  Data deletes the entry of the table; an error
\* leaves it there.  The guest's handle stays as it is either way: it was
\* borrowed.
AwaitReturns ==
  /\ panic = None /\ op = "await"
  /\ \E t \in Transfers :
       /\ Finds(cur, t) /\ chan[t] \in Status
       /\ got' = [got EXCEPT ![t] = Answer(chan[t], packets[t])]
       /\ chan' = [chan EXCEPT ![t] = "taken"]
       /\ IF chan[t] = "COMPLETED"
            THEN /\ packets' = [packets EXCEPT ![t] = FALSE]
                 /\ table' = [table EXCEPT ![handle[cur]] = None]
            ELSE UNCHANGED <<packets, table>>
  /\ Return
  /\ UNCHANGED <<handle, kind, completed, buffer, receiver, usbVars, envVars>>

\* drop of the device handle: libusb_close takes the event lock, so it waits
\* for a running callback, and takes the handle's transfers off its list.
DropDeviceHandle ==
  /\ "close" \in Faults
  /\ panic = None /\ op = "idle" /\ opened
  /\ ~CallbackRunning
  /\ opened' = FALSE
  /\ phase' = [t \in Transfers |-> IF phase[t] = "inflight" THEN "orphaned" ELSE phase[t]]
  /\ UNCHANGED <<guestVars, callVars, xferVars, status, cancelling, looping, plugged>>

-----------------------------------------------------------------------------
(***************************************************************************)
(* The event thread.                                                       *)
(***************************************************************************)

\* What libusb may report of t.
Possible(t, s) ==
  /\ s = "TIMED_OUT" => kind[t].timed
  /\ s = "CANCELLED" => cancelling[t]
  /\ s = "NO_DEVICE" => ~plugged

\* Slips: the packet results are not stored; the status is not read.
ReapForgetsPackets(t, s) ==
  /\ panic = None /\ looping /\ ~CallbackRunning
  /\ phase[t] = "inflight" /\ Possible(t, s)
  /\ phase' = [phase EXCEPT ![t] = "reaped"]
  /\ status' = [status EXCEPT ![t] = s]
  /\ UNCHANGED <<guestVars, callVars, xferVars, cancelling, envVars>>

ReapForgetsStatus(t, s) ==
  /\ panic = None /\ looping /\ ~CallbackRunning
  /\ phase[t] = "inflight" /\ Possible(t, s)
  /\ phase' = [phase EXCEPT ![t] = "reaped"]
  /\ UNCHANGED <<guestVars, callVars, xferVars, status, cancelling, envVars>>

\* libusb takes t off its list and transfer_callback makes its result, with
\* the packet results of an isochronous transfer that completed.
Reap(t, s) ==
  /\ panic = None /\ looping /\ ~CallbackRunning
  /\ phase[t] = "inflight" /\ Possible(t, s)
  /\ phase' = [phase EXCEPT ![t] = "reaped"]
  /\ status' = [status EXCEPT ![t] = s]
  /\ packets' = [packets EXCEPT ![t] = (s = "COMPLETED") /\ kind[t].iso]
  /\ UNCHANGED <<guestVars, callVars, table, kind, completed, buffer, receiver, chan,
                 cancelling, envVars>>

CallbackStores(t) ==
  /\ panic = None /\ phase[t] = "reaped"
  /\ completed' = [completed EXCEPT ![t] = TRUE]
  /\ phase' = [phase EXCEPT ![t] = "stored"]
  /\ UNCHANGED <<guestVars, callVars, table, kind, buffer, receiver, packets, chan,
                 status, cancelling, envVars>>

\* Slip: the result is sent before completed is set.
CallbackSendsFirst(t) ==
  /\ panic = None
  /\ \/ phase[t] = "reaped" /\ chan' = [chan EXCEPT ![t] = status[t]] /\ UNCHANGED phase
     \/ phase[t] = "stored" /\ phase' = [phase EXCEPT ![t] = "sent"] /\ UNCHANGED chan
  /\ UNCHANGED <<guestVars, callVars, table, kind, completed, buffer, receiver, packets,
                 status, cancelling, envVars>>

CallbackSends(t) ==
  /\ panic = None /\ phase[t] = "stored"
  /\ chan' = [chan EXCEPT ![t] = status[t]]
  /\ phase' = [phase EXCEPT ![t] = "sent"]
  /\ UNCHANGED <<guestVars, callVars, table, kind, completed, buffer, receiver, packets,
                 status, cancelling, envVars>>

\* Slip: only the path of a completed transfer frees it.
CallbackFreesCompleted(t) ==
  /\ panic = None /\ phase[t] = "sent" /\ status[t] = "COMPLETED"
  /\ buffer' = [buffer EXCEPT ![t] = "freed"]
  /\ phase' = [phase EXCEPT ![t] = "freed"]
  /\ UNCHANGED <<guestVars, callVars, table, kind, completed, receiver, packets, chan,
                 status, cancelling, envVars>>

\* libusb_free_transfer, and the context is dropped with the buffer.
CallbackFrees(t) ==
  /\ panic = None /\ phase[t] = "sent"
  /\ buffer' = [buffer EXCEPT ![t] = "freed"]
  /\ phase' = [phase EXCEPT ![t] = "freed"]
  /\ UNCHANGED <<guestVars, callVars, table, kind, completed, receiver, packets, chan,
                 status, cancelling, envVars>>

TransferCallback(t) == CallbackStores(t) \/ CallbackSends(t) \/ CallbackFrees(t)

\* libusb_handle_events_timeout_completed < 0 ends the loop; init, which finds
\* a context, never starts it again.
EventLoopStops ==
  /\ "loop" \in Faults
  /\ panic = None /\ looping /\ ~CallbackRunning
  /\ looping' = FALSE
  /\ UNCHANGED <<guestVars, callVars, xferVars, usbVars, opened, plugged>>

Unplug ==
  /\ "unplug" \in Faults
  /\ panic = None /\ plugged
  /\ plugged' = FALSE
  /\ UNCHANGED <<guestVars, callVars, xferVars, usbVars, looping, opened>>

\* The process ended with the panic.
Gone == panic # None /\ UNCHANGED vars

-----------------------------------------------------------------------------
HostReturns == SubmitStoresReceiver \/ CancelActs \/ AwaitReturns

Next ==
  \/ \E t \in Transfers, s \in Slots, k \in Kinds : NewTransfer(t, s, k)
  \/ \E h \in Transfers, fits \in BOOLEAN : SubmitTransfer(h, fits)
  \/ \E h \in Transfers : CancelTransfer(h) \/ DropTransfer(h) \/ AwaitTransfer(h)
  \/ HostReturns
  \/ DropDeviceHandle
  \/ \E t \in Transfers, s \in Reports : Reap(t, s)
  \/ \E t \in Transfers : TransferCallback(t)
  \/ EventLoopStops
  \/ Unplug
  \/ Gone

Spec == Init /\ [][Next]_vars

(***************************************************************************)
(* The host thread finishes the call it is in, and the callback the event  *)
(* thread is in ends.  libusb owes a completion only to a transfer that    *)
(* has a timeout, was cancelled or lost its device: a silent device may    *)
(* keep any other in flight for ever.                                      *)
(***************************************************************************)
Due(t) == kind[t].timed \/ cancelling[t] \/ ~plugged
ReapDue(t) == phase[t] = "inflight" /\ Due(t) /\ \E s \in Reports : Reap(t, s)

Fairness ==
  /\ WF_vars(HostReturns)
  /\ \A t \in Transfers : WF_vars(ReapDue(t)) /\ WF_vars(TransferCallback(t))

FairSpec == Spec /\ Fairness
-----------------------------------------------------------------------------
(***************************************************************************)
(* Properties.                                                             *)
(***************************************************************************)

\* Every variable has its type.
TypeInv ==
  /\ handle \in [Transfers -> Slots \cup {None}]
  /\ got \in [Transfers -> Answers \cup {None}]
  /\ op \in {"idle", "submit", "cancel", "drop", "await"}
  /\ cur \in Transfers \cup {None}
  /\ panic \in {None, "Failed to get transfer", "buffer not allocated"}
  /\ table \in [Slots -> Transfers \cup {None}]
  /\ kind \in [Transfers -> Kinds \cup {None}]
  /\ completed \in [Transfers -> BOOLEAN]
  /\ buffer \in [Transfers -> {"none", "transfer", "context", "freed"}]
  /\ receiver \in [Transfers -> BOOLEAN]
  /\ packets \in [Transfers -> BOOLEAN]
  /\ chan \in [Transfers -> Status \cup {"none", "open", "taken"}]
  /\ phase \in [Transfers -> Phase]
  /\ status \in [Transfers -> Status \cup {None}]
  /\ cancelling \in [Transfers -> BOOLEAN]
  /\ looping \in BOOLEAN /\ opened \in BOOLEAN /\ plugged \in BOOLEAN

\* From the moment libusb accepts a transfer until transfer_callback is through
\* with it, the boxed context owns the buffer: no call of the guest, in any
\* order, frees the memory libusb writes to or the callback copies from.
BufferOutlivesTransfer ==
  \A t \in Transfers :
    phase[t] = "inflight" \/ phase[t] = "orphaned" \/ InCallback(t)
      => buffer[t] = "context"

\* Once the guest has its answer, no cancel and no drop of that transfer goes
\* on to libusb, which has freed or is about to free it: transfer_callback sets
\* completed before it sends.
NoCancelAfterAnswer ==
  \A t \in Transfers :
    (op \in {"cancel", "drop"} /\ Finds(cur, t)) => got[t] = None

\* The answer the guest got is what libusb reported of that very transfer, with
\* the packet results exactly when it is an isochronous one that completed:
\* transfer_callback stores them before it sends.
AnswerIsReported ==
  \A t \in Transfers :
    got[t] # None =>
      /\ phase[t] \in {"sent", "freed"}
      /\ got[t] = Answer(status[t], kind[t].iso)

\* A transfer that left the idle state never gets back to libusb: it is freed
\* when its callback ends, so a second submission would use freed memory.
SubmittedOnce ==
  [][\A t \in Transfers :
       phase'[t] \in {"inflight", "orphaned"} =>
         phase[t] = "idle" \/ phase[t] = "inflight" \/ phase'[t] = phase[t]]_vars

\* A transfer keeps the promise of TransferPromise.
Promised(t) ==
  IF got[t] # None THEN [stage |-> "taken", answer |-> got[t]]
  ELSE IF chan[t] \in Status
         THEN [stage |-> "resolved", answer |-> Answer(chan[t], packets[t])]
  ELSE [stage  |-> IF chan[t] # "none" THEN "pending"
                   ELSE IF phase[t] = "none" THEN "unmade"
                   ELSE IF buffer[t] = "transfer" THEN "ready" ELSE "broken",
        answer |-> None]
P == INSTANCE TransferPromise WITH promise <- [t \in Transfers |-> Promised(t)]
KeepsPromise == P!Spec

\* await_transfer of a transfer with a timeout returns.
AwaitTerminates ==
  \A t \in Transfers :
    (op = "await" /\ Finds(cur, t) /\ kind[t].timed) ~> op = "idle"

\* A transfer that was cancelled, by cancel_transfer or by the drop of its
\* handle while it was in flight, is freed with its buffer in the end.
CancelledIsFreed ==
  \A t \in Transfers :
    cancelling[t] ~> (panic # None \/ (phase[t] = "freed" /\ buffer[t] = "freed"))

\* main.rs 408: the buffer is there when a transfer is submitted.
BufferAllocated == panic # "buffer not allocated"

\* transfers.wit 26: a transfer resource represents one submitted transfer; the
\* call made through the handle new_transfer returned acts on that transfer.
HandleNamesItsTransfer ==
  op # "idle" => Finds(cur, cur)

\* main.rs 7: access is safe; libusb is never given a transfer it has freed.
CancelSeesLiveTransfer ==
  \A t \in Transfers :
    (op \in {"cancel", "drop"} /\ Finds(cur, t)) => phase[t] # "freed"
=============================================================================
