-------------------------- MODULE DeviceRegistry --------------------------
(***************************************************************************)
(* Devices as usb-wasi-host/src/usb_backend.rs and main.rs hand them to    *)
(* the guest: list_devices, the hotplug callback on the event thread and   *)
(* the HOTPLUG_QUEUE it fills, poll_events, open, and the drops that give  *)
(* the references back.                                                    *)
(*                                                                         *)
(* A device is one libusb_device, so one connection of a piece of          *)
(* hardware: plugging it in again makes another.  The guest tells devices  *)
(* apart by bus, address, vendor and product, and libusb may give an       *)
(* address again, so two devices may have the same info, one after the     *)
(* other.                                                                  *)
(*                                                                         *)
(* list_devices and poll_events are one step each: the first works on the  *)
(* snapshot libusb takes, the second and the callback hold the mutex of    *)
(* the queue.                                                              *)
(***************************************************************************)
EXTENDS Naturals, Sequences, FiniteSets

CONSTANTS
  Devices,     \* the connections that may happen
  Infos,       \* what the guest sees of a device: bus, address and ids
  InfoOf,      \* the info of each device
  Listed,      \* the infos whose ids are on the command line
  AllowList,   \* --use-allow-list: Listed is what is allowed, not what is denied
  Unreadable,  \* devices whose descriptor libusb cannot read
  MaxHeld,     \* bound: how many resources the guest holds on one device
  MaxHandles   \* bound: how many handles it has open on one device

ASSUME InfoAssumption == InfoOf \in [Devices -> Infos]
ASSUME PolicyAssumption == Listed \subseteq Infos /\ AllowList \in BOOLEAN
ASSUME HeldAssumption == MaxHeld \in Nat /\ MaxHandles \in Nat /\ Unreadable \subseteq Devices

VARIABLES
  \* libusb
  presence,    \* "new", "attached" or "left"
  refs,        \* the reference count of each device
  messages,    \* hotplug messages the event thread has not handled yet
  \* LibusbBackend
  ready,       \* context is Some
  enabled,     \* hotplug_enabled, and the callback is registered
  queue,       \* HOTPLUG_QUEUE
  \* the guest's resources
  held,        \* usb-device resources on each device
  handles,     \* open device-handles on each device
  closed,      \* how many of them the guest called close on
  \* history: what the guest was told
  view,        \* the infos present according to list_devices and the events
  synced       \* hotplug was enabled before the last list_devices

usbVars   == <<presence, refs, messages>>
hostVars  == <<ready, enabled, queue>>
guestVars == <<held, handles, closed>>
toldVars  == <<view, synced>>
vars == <<usbVars, hostVars, guestVars, toldVars>>

Event(kind, d) == [kind |-> kind, dev |-> d]
Events == [kind : {"ARRIVED", "LEFT"}, dev : Devices]

\* AllowedUSBDevices::is_allowed
IsAllowed(d) == (InfoOf[d] \in Listed) <=> AllowList

\* What both list_devices and hotplug_cb ask of a device.
Passes(d) == d \notin Unreadable /\ IsAllowed(d)

Attached == {d \in Devices : presence[d] = "attached"}

Init ==
  /\ presence = [d \in Devices |-> "new"]
  /\ refs = [d \in Devices |-> 0]
  /\ messages = <<>> /\ queue = <<>>
  /\ ready = FALSE /\ enabled = FALSE
  /\ held = [d \in Devices |-> 0]
  /\ handles = [d \in Devices |-> 0]
  /\ closed = [d \in Devices |-> 0]
  /\ view = {} /\ synced = FALSE

-----------------------------------------------------------------------------
(***************************************************************************)
(* libusb: a device that attaches has one reference, which the handling of *)
(* the message that it left gives back.  Before libusb_init nothing is     *)
(* notified: the devices there at that time are just attached.             *)
(***************************************************************************)
Attach(d) ==
  /\ presence[d] = "new"
  /\ \A e \in Attached : InfoOf[e] # InfoOf[d]
  /\ presence' = [presence EXCEPT ![d] = "attached"]
  /\ refs' = [refs EXCEPT ![d] = 1]
  /\ messages' = IF ready THEN Append(messages, Event("ARRIVED", d)) ELSE messages
  /\ UNCHANGED <<hostVars, guestVars, toldVars>>

Detach(d) ==
  /\ presence[d] = "attached"
  /\ presence' = [presence EXCEPT ![d] = "left"]
  /\ IF ready
       THEN messages' = Append(messages, Event("LEFT", d)) /\ UNCHANGED refs
       ELSE refs' = [refs EXCEPT ![d] = 0] /\ UNCHANGED messages
  /\ UNCHANGED <<hostVars, guestVars, toldVars>>

\* Slips: the callback of the repository's old backend, which has no allow-list;
\* a callback that was registered for departures only.
HotplugCbUnchecked(e) == IF enabled THEN <<e>> ELSE <<>>
HotplugCbLeftOnly(e) == IF enabled /\ Passes(e.dev) /\ e.kind = "LEFT" THEN <<e>> ELSE <<>>

\* hotplug_cb: a device that is not allowed is ignored; any other is referenced
\* and queued.
HotplugCb(e) == IF enabled /\ Passes(e.dev) THEN <<e>> ELSE <<>>

\* Slip: a queued device is not referenced.
RefsTakenNone(e) == 0

RefsTaken(e) == Len(HotplugCb(e))

\* The event thread handles the oldest message.
HandleMessage ==
  /\ messages # <<>>
  /\ LET e == Head(messages)
     IN /\ queue' = queue \o HotplugCb(e)
        /\ refs' = [refs EXCEPT
             ![e.dev] = @ + RefsTaken(e) - (IF e.kind = "LEFT" THEN 1 ELSE 0)]
  /\ messages' = Tail(messages)
  /\ UNCHANGED <<presence, ready, enabled, guestVars, toldVars>>

-----------------------------------------------------------------------------
(***************************************************************************)
(* Calls of the guest.                                                     *)
(***************************************************************************)

\* A second init is Ok and does nothing; a failed one leaves no context.
InitBackend ==
  /\ ready' = TRUE
  /\ UNCHANGED <<usbVars, enabled, queue, guestVars, toldVars>>

\* NotFound without a context, NotSupported without the capability: no change.
EnableHotplug ==
  /\ IF ready THEN enabled' = TRUE ELSE UNCHANGED enabled
  /\ UNCHANGED <<usbVars, ready, queue, guestVars, toldVars>>

\* Slip: the references of the list are not given back with the list.
ListDevicesLeaks ==
  LET found == {d \in Attached : Passes(d)}
  IN /\ ready
     /\ \A d \in found : held[d] < MaxHeld
     /\ held' = [d \in Devices |-> IF d \in found THEN held[d] + 1 ELSE held[d]]
     /\ refs' = [d \in Devices |-> refs[d] + (IF d \in found THEN 1 ELSE 0)
                                           + (IF d \in Attached THEN 1 ELSE 0)]
     /\ view' = {InfoOf[d] : d \in found}
     /\ synced' = enabled
     /\ UNCHANGED <<presence, messages, hostVars, handles, closed>>

\* A reference and a resource for each device that passes; NotFound without a
\* context.
ListDevices ==
  LET found == {d \in Attached : Passes(d)}
  IN /\ ready
     /\ \A d \in found : held[d] < MaxHeld
     /\ held' = [d \in Devices |-> IF d \in found THEN held[d] + 1 ELSE held[d]]
     /\ refs' = [d \in Devices |-> IF d \in found THEN refs[d] + 1 ELSE refs[d]]
     /\ view' = {InfoOf[d] : d \in found}
     /\ synced' = enabled
     /\ UNCHANGED <<presence, messages, hostVars, handles, closed>>

\* Slip: pop_back for pop_front.
DrainedBackwards(q) == [i \in 1..Len(q) |-> q[Len(q) + 1 - i]]

\* The order in which poll_events hands out the queue.
Drained(q) == q

\* The events about an info, of those about the devices in told.
About(events, told, i) ==
  {n \in 1..Len(events) : events[n].dev \in told /\ InfoOf[events[n].dev] = i}

\* What a guest that knew of the infos in known makes of the events it is told.
Replay(known, events, told) ==
  {i \in Infos :
     LET about == About(events, told, i)
     IN IF about = {} THEN i \in known
        ELSE \E n \in about : events[n].kind = "ARRIVED" /\ \A m \in about : m <= n}

\* How many of the events are about d.
Count(events, d) == Cardinality({n \in 1..Len(events) : events[n].dev = d})

\* Every event comes with a resource that takes over the queue's reference.
PollEvents ==
  /\ queue # <<>>
  /\ \A d \in Devices : held[d] + Count(queue, d) <= MaxHeld
  /\ held' = [d \in Devices |-> held[d] + Count(queue, d)]
  /\ view' = Replay(view, Drained(queue), Devices)
  /\ queue' = <<>>
  /\ UNCHANGED <<usbVars, ready, enabled, handles, closed, synced>>

\* libusb_open fails on a device that left; the handle has a reference.
Open(d) ==
  /\ held[d] > 0 /\ presence[d] = "attached" /\ handles[d] < MaxHandles
  /\ handles' = [handles EXCEPT ![d] = @ + 1]
  /\ refs' = [refs EXCEPT ![d] = @ + 1]
  /\ UNCHANGED <<presence, messages, hostVars, held, closed, toldVars>>

\* close() does nothing: the resource is released when it is dropped.  Only the first
\* close of a handle counts.
Close(d) ==
  /\ closed[d] < handles[d]
  /\ closed' = [closed EXCEPT ![d] = @ + 1]
  /\ UNCHANGED <<usbVars, hostVars, held, handles, toldVars>>

\* The handle dropped is one that was closed or one that was not.
DropHandle(d) ==
  /\ handles[d] > 0
  /\ handles' = [handles EXCEPT ![d] = @ - 1]
  /\ refs' = [refs EXCEPT ![d] = @ - 1]
  /\ \/ closed[d] < handles[d] /\ UNCHANGED closed
     \/ closed[d] > 0 /\ closed' = [closed EXCEPT ![d] = @ - 1]
  /\ UNCHANGED <<presence, messages, hostVars, held, toldVars>>

DropDevice(d) ==
  /\ held[d] > 0
  /\ held' = [held EXCEPT ![d] = @ - 1]
  /\ refs' = [refs EXCEPT ![d] = @ - 1]
  /\ UNCHANGED <<presence, messages, hostVars, handles, closed, toldVars>>

Next ==
  \/ \E d \in Devices : Attach(d) \/ Detach(d)
  \/ HandleMessage
  \/ InitBackend \/ EnableHotplug \/ ListDevices \/ PollEvents
  \/ \E d \in Devices : Open(d) \/ Close(d) \/ DropHandle(d) \/ DropDevice(d)

Spec == Init /\ [][Next]_vars

\* The event thread runs, and the guest keeps polling and drops what it was given,
\* as examples/hotplug.rs does.
Fairness ==
  /\ WF_vars(HandleMessage) /\ WF_vars(PollEvents)
  /\ \A d \in Devices : WF_vars(DropDevice(d))
FairSpec == Spec /\ Fairness

-----------------------------------------------------------------------------
(***************************************************************************)
(* Properties.                                                             *)
(***************************************************************************)
\* Every variable has its type: no reference count drops below zero.
TypeInv ==
  /\ presence \in [Devices -> {"new", "attached", "left"}]
  /\ refs \in [Devices -> Nat]
  /\ messages \in Seq(Events) /\ queue \in Seq(Events)
  /\ ready \in BOOLEAN /\ enabled \in BOOLEAN /\ synced \in BOOLEAN
  /\ held \in [Devices -> 0..MaxHeld] /\ handles \in [Devices -> 0..MaxHandles]
  /\ closed \in [Devices -> 0..MaxHandles] /\ view \subseteq Infos

\* Who refers to d on the host's side.
HostRefs(d) == Count(queue, d) + held[d] + handles[d]
LibusbRefs(d) ==
  IF presence[d] = "attached" \/ \E n \in 1..Len(messages) : messages[n] = Event("LEFT", d)
    THEN 1 ELSE 0

\* A device in the queue, in a resource or behind a handle has a reference of
\* its own for each of them, on top of libusb's: none is freed under the guest,
\* in whatever order the device leaves, is polled and is dropped.
HeldDevicesLive == \A d \in Devices : HostRefs(d) + LibusbRefs(d) <= refs[d]

\* And no more than that: once it left and nobody refers to it, it is freed.
ReleasedDevicesFreed == \A d \in Devices : HostRefs(d) + LibusbRefs(d) >= refs[d]

\* No path gives the guest a device the command line does not allow.
OnlyAllowedDevices == \A d \in Devices : HostRefs(d) > 0 => IsAllowed(d)

\* A guest that enabled hotplug and then listed the devices misses nothing: its
\* view, with the events that are still on their way to it, is what is attached.
ViewConverges ==
  synced => Replay(view, queue \o messages, {d \in Devices : Passes(d)})
              = {InfoOf[d] : d \in {a \in Attached : Passes(a)}}

\* A device that arrives when hotplug is enabled is known to the polling guest
\* in the end, unless it left.
ArrivalReported ==
  \A d \in Devices :
    (enabled /\ presence[d] = "attached" /\ Passes(d) /\ Count(messages, d) > 0)
      ~> (InfoOf[d] \in view \/ presence[d] = "left")

\* device.wit 85-86: after close the handle's resources are released.
CloseReleases == \A d \in Devices : closed[d] = 0
=============================================================================
