------------------------ MODULE DeviceRegistryProofs ------------------------
(***************************************************************************)
(* Proofs about DeviceRegistry, for any devices, any policy and any bound. *)
(***************************************************************************)
EXTENDS DeviceRegistry, FiniteSetTheorems, SequenceTheorems, WellFoundedInduction, TLAPS

\* What a count of events says.
LEMMA CountTyped ==
  ASSUME NEW events \in Seq(Events), NEW d \in Devices
  PROVE  /\ Count(events, d) \in Nat
         /\ Count(events, d) > 0 => \E n \in 1..Len(events) : events[n].dev = d
<1> DEFINE about == {n \in 1..Len(events) : events[n].dev = d}
<1>1. IsFiniteSet(1..Len(events))
  BY FS_Interval
<1>2. IsFiniteSet(about) /\ about \subseteq 1..Len(events)
  BY <1>1, FS_Subset
<1>3. Cardinality(about) \in Nat
  BY <1>2, FS_CardinalityType
<1>4. about = {} => Cardinality(about) = 0
  BY FS_EmptySet
<1> QED
  BY <1>3, <1>4 DEF Count

(***************************************************************************)
(* The policy.  Each place a device can be in is reached only from one     *)
(* where it was let in: the callback and list_devices ask Passes, and      *)
(* poll_events and open move on what they let through.                     *)
(***************************************************************************)
Screened ==
  /\ messages \in Seq(Events) /\ queue \in Seq(Events)
  /\ held \in [Devices -> Nat] /\ handles \in [Devices -> Nat]
  /\ \A n \in 1..Len(queue) : IsAllowed(queue[n].dev)
  /\ \A d \in Devices : held[d] > 0 \/ handles[d] > 0 => IsAllowed(d)

LEMMA ScreenedInit == Init => Screened
  BY DEF Init, Screened

LEMMA ScreenedMessage ==
  ASSUME Screened, HandleMessage
  PROVE  Screened'
<1> USE DEF Screened, HandleMessage
<1> DEFINE e == Head(messages)
<1>1. e \in Events /\ messages' \in Seq(Events)
  OBVIOUS
<1>2. /\ HotplugCb(e) \in Seq(Events)
      /\ \A n \in 1..Len(HotplugCb(e)) : IsAllowed(HotplugCb(e)[n].dev)
  BY <1>1 DEF HotplugCb, Passes
<1>3. queue' = queue \o HotplugCb(e)
  OBVIOUS
<1>4. /\ queue' \in Seq(Events)
      /\ \A n \in 1..Len(queue') : IsAllowed(queue'[n].dev)
  BY <1>2, <1>3
<1> QED
  BY <1>1, <1>4 DEF guestVars, IsAllowed

LEMMA ScreenedPoll ==
  ASSUME Screened, PollEvents
  PROVE  Screened'
<1> USE DEF Screened, PollEvents
<1>1. ASSUME NEW d \in Devices, Count(queue, d) > 0 PROVE IsAllowed(d)
  BY <1>1, CountTyped
<1>2. held' = [d \in Devices |-> held[d] + Count(queue, d)]
  OBVIOUS
<1>3. \A d \in Devices : Count(queue, d) \in Nat
  BY CountTyped
<1>4. held' \in [Devices -> Nat]
  BY <1>2, <1>3
<1>5. ASSUME NEW d \in Devices, held'[d] > 0 \/ handles'[d] > 0 PROVE IsAllowed(d)
  BY <1>1, <1>2, <1>3, <1>5
<1>6. messages' = messages /\ queue' = <<>> /\ handles' = handles
  BY DEF usbVars
<1> QED
  BY <1>4, <1>5, <1>6 DEF IsAllowed

LEMMA ScreenedBus ==
  ASSUME Screened, NEW d \in Devices, Attach(d) \/ Detach(d)
  PROVE  Screened'
<1>1. messages' \in Seq(Events)
  <2>1. Event("ARRIVED", d) \in Events /\ Event("LEFT", d) \in Events
    BY DEF Event, Events
  <2>2. \/ messages' = messages
        \/ messages' = Append(messages, Event("ARRIVED", d))
        \/ messages' = Append(messages, Event("LEFT", d))
    BY DEF Attach, Detach
  <2>3. messages \in Seq(Events)
    BY DEF Screened
  <2> QED
    BY <2>1, <2>2, <2>3
<1>2. UNCHANGED <<queue, held, handles>>
  BY DEF Attach, Detach, hostVars, guestVars
<1> QED
  BY <1>1, <1>2 DEF Screened, IsAllowed

LEMMA ScreenedList ==
  ASSUME Screened, ListDevices
  PROVE  Screened'
<1> USE DEF Screened, ListDevices
<1> DEFINE found == {d \in Attached : Passes(d)}
<1>1. held' = [d \in Devices |-> IF d \in found THEN held[d] + 1 ELSE held[d]]
  OBVIOUS
<1>2. held' \in [Devices -> Nat]
  BY <1>1
<1>3. ASSUME NEW d \in Devices, held'[d] > 0 \/ handles'[d] > 0 PROVE IsAllowed(d)
  BY <1>1, <1>3 DEF Passes
<1>4. UNCHANGED <<messages, queue, handles>>
  BY DEF hostVars
<1> QED
  BY <1>2, <1>3, <1>4 DEF IsAllowed

LEMMA ScreenedGuest ==
  ASSUME Screened, NEW d \in Devices,
         Open(d) \/ Close(d) \/ DropHandle(d) \/ DropDevice(d)
  PROVE  Screened'
<1> USE DEF Screened, IsAllowed, usbVars, hostVars, guestVars
<1>1. CASE Open(d)
  BY <1>1 DEF Open
<1>2. CASE Close(d)
  BY <1>2 DEF Close
<1>3. CASE DropHandle(d)
  BY <1>3 DEF DropHandle
<1>4. CASE DropDevice(d)
  BY <1>4 DEF DropDevice
<1> QED
  BY <1>1, <1>2, <1>3, <1>4

LEMMA ScreenedStep == Screened /\ [Next]_vars => Screened'
<1> SUFFICES ASSUME Screened, [Next]_vars PROVE Screened'
  OBVIOUS
<1>1. CASE \E d \in Devices : Attach(d) \/ Detach(d)
  BY <1>1, ScreenedBus
<1>2. CASE HandleMessage
  BY <1>2, ScreenedMessage
<1>3. CASE InitBackend \/ EnableHotplug
  BY <1>3 DEF InitBackend, EnableHotplug, Screened, IsAllowed, usbVars, guestVars
<1>4. CASE ListDevices
  BY <1>4, ScreenedList
<1>5. CASE PollEvents
  BY <1>5, ScreenedPoll
<1>6. CASE \E d \in Devices : Open(d) \/ Close(d) \/ DropHandle(d) \/ DropDevice(d)
  BY <1>6, ScreenedGuest
<1>7. CASE UNCHANGED vars
  BY <1>7 DEF vars, usbVars, hostVars, guestVars, Screened, IsAllowed
<1> QED
  BY <1>1, <1>2, <1>3, <1>4, <1>5, <1>6, <1>7 DEF Next

LEMMA ScreenedAlways == Spec => []Screened
  BY ScreenedInit, ScreenedStep, PTL DEF Spec

\* No path, list or event or handle, gives the guest a device that
\* AllowedUSBDevices::is_allowed refuses: an allow-list or deny-list cannot be
\* got round by plugging in, listing and polling in any order.
THEOREM OnlyAllowed == Spec => []OnlyAllowedDevices
<1>1. Screened => OnlyAllowedDevices
  <2> SUFFICES ASSUME Screened, NEW d \in Devices, HostRefs(d) > 0
               PROVE  IsAllowed(d)
    BY DEF OnlyAllowedDevices
  <2>1. Count(queue, d) \in Nat /\ held[d] \in Nat /\ handles[d] \in Nat
    BY CountTyped DEF Screened
  <2>2. Count(queue, d) > 0 \/ held[d] > 0 \/ handles[d] > 0
    BY <2>1 DEF HostRefs
  <2>3. CASE Count(queue, d) > 0
    BY <2>3, CountTyped DEF Screened
  <2>4. CASE held[d] > 0 \/ handles[d] > 0
    BY <2>4 DEF Screened
  <2> QED
    BY <2>2, <2>3, <2>4
<1> QED
  BY <1>1, ScreenedAlways, PTL

-----------------------------------------------------------------------------
(***************************************************************************)
(* The references.                                                         *)
(***************************************************************************)
\* Before libusb_init nothing is notified and the guest has nothing; hotplug is enabled
\* only after it, and nothing is queued before that.
Started ==
  /\ ~ready => ~enabled /\ messages = <<>> /\ \A d \in Devices : held[d] = 0 /\ handles[d] = 0
  /\ ~enabled => queue = <<>> /\ ~synced

\* Of a device that was never attached there is nothing anywhere.
Unseen ==
  \A d \in Devices : presence[d] = "new" =>
    /\ held[d] = 0 /\ handles[d] = 0
    /\ \A n \in 1..Len(messages) : messages[n].dev # d
    /\ \A n \in 1..Len(queue) : queue[n].dev # d

\* A departure is notified once, of a device that left.
Departures ==
  \A n \in 1..Len(messages) : messages[n].kind = "LEFT" =>
    /\ presence[messages[n].dev] = "left"
    /\ \A m \in 1..Len(messages) : messages[m] = messages[n] => m = n

Balanced == \A d \in Devices : refs[d] = HostRefs(d) + LibusbRefs(d)

RefInv == TypeInv /\ Started /\ Unseen /\ Departures /\ Balanced


LEMMA CountEmpty == \A d \in Devices : Count(<<>>, d) = 0
<1> SUFFICES ASSUME NEW d \in Devices PROVE Count(<<>>, d) = 0
  OBVIOUS
<1>1. {n \in 1..Len(<<>>) : <<>>[n].dev = d} = {}
  OBVIOUS
<1> QED
  BY <1>1, FS_EmptySet DEF Count

LEMMA CountAppend ==
  ASSUME NEW events \in Seq(Events), NEW e \in Events, NEW d \in Devices
  PROVE  Count(Append(events, e), d) = Count(events, d) + (IF e.dev = d THEN 1 ELSE 0)
<1> DEFINE n == Len(events)
           old == {k \in 1..n : events[k].dev = d}
           new == {k \in 1..Len(Append(events, e)) : Append(events, e)[k].dev = d}
<1>1. /\ n \in Nat /\ Len(Append(events, e)) = n + 1 /\ Append(events, e)[n + 1] = e
      /\ \A k \in 1..n : Append(events, e)[k] = events[k]
  OBVIOUS
<1>2. IsFiniteSet(old) /\ n + 1 \notin old
  <2>1. IsFiniteSet(1..n) /\ old \subseteq 1..n
    BY <1>1, FS_Interval
  <2> QED
    BY <1>1, <2>1, FS_Subset
<1>3. Count(events, d) = Cardinality(old) /\ Count(Append(events, e), d) = Cardinality(new)
  BY DEF Count
<1>4. CASE e.dev = d
  <2>1. new = old \cup {n + 1}
    BY <1>1, <1>4
  <2> HIDE DEF old, new, n
  <2>2. Cardinality(old \cup {n + 1}) = Cardinality(old) + 1
    BY <1>2, FS_AddElement
  <2> QED
    BY <1>3, <1>4, <2>1, <2>2
<1>5. CASE e.dev # d
  <2>1. new = old
    BY <1>1, <1>5
  <2>2. Cardinality(old) \in Nat
    BY <1>2, FS_CardinalityType
  <2> HIDE DEF old, new, n
  <2> QED
    BY <1>3, <1>5, <2>1, <2>2
<1> QED
  BY <1>4, <1>5

\* A notification that d left.
LEMMA Leaving ==
  ASSUME NEW e \in Events, NEW d \in Devices
  PROVE  e = Event("LEFT", d) <=> e.kind = "LEFT" /\ e.dev = d
  BY DEF Event, Events

LEMMA HostRefsType ==
  ASSUME TypeInv, NEW d \in Devices
  PROVE  /\ HostRefs(d) \in Nat /\ LibusbRefs(d) \in {0, 1}
         /\ Count(queue, d) \in Nat /\ held[d] \in Nat /\ handles[d] \in Nat
<1>1. Count(queue, d) \in Nat
  BY CountTyped DEF TypeInv
<1>2. held[d] \in Nat /\ handles[d] \in Nat
  <2>1. held[d] \in 0..MaxHeld /\ handles[d] \in 0..MaxHandles
    BY DEF TypeInv
  <2> QED
    BY <2>1, HeldAssumption
<1> QED
  BY <1>1, <1>2 DEF HostRefs, LibusbRefs

LEMMA RefInit == Init => RefInv
<1> SUFFICES ASSUME Init PROVE RefInv
  OBVIOUS
<1> USE DEF Init
<1>1. TypeInv
  <2>1. /\ held \in [Devices -> 0..MaxHeld] /\ handles \in [Devices -> 0..MaxHandles]
        /\ closed \in [Devices -> 0..MaxHandles]
    BY HeldAssumption
  <2>2. messages \in Seq(Events) /\ queue \in Seq(Events)
    OBVIOUS
  <2>3. presence \in [Devices -> {"new", "attached", "left"}] /\ refs \in [Devices -> Nat]
    OBVIOUS
  <2>4. ready \in BOOLEAN /\ enabled \in BOOLEAN /\ synced \in BOOLEAN /\ view \subseteq Infos
    OBVIOUS
  <2> QED
    BY <2>1, <2>2, <2>3, <2>4 DEF TypeInv
<1>2. Started /\ Unseen /\ Departures
  BY DEF Started, Unseen, Departures
<1>3. Balanced
  BY CountEmpty DEF Balanced, HostRefs, LibusbRefs
<1> QED
  BY <1>1, <1>2, <1>3 DEF RefInv

\* What a message more does to the messages.
LEMMA Notified ==
  ASSUME NEW s \in Seq(Events), NEW e \in Events, NEW t, t = s \/ t = Append(s, e)
  PROVE  /\ t \in Seq(Events)
         /\ \A n \in 1..Len(t) : (n \in 1..Len(s) /\ t[n] = s[n]) \/ (n = Len(s) + 1 /\ t[n] = e)
         /\ \A n \in 1..Len(s) : n \in 1..Len(t) /\ t[n] = s[n]
<1>1. CASE t = s
  BY <1>1
<1>2. CASE t = Append(s, e)
  <2>1. /\ t \in Seq(Events) /\ Len(t) = Len(s) + 1 /\ t[Len(s) + 1] = e /\ Len(s) \in Nat
        /\ \A n \in 1..Len(s) : t[n] = s[n]
    BY <1>2
  <2>2. \A n \in 1..Len(t) : n \in 1..Len(s) \/ n = Len(s) + 1
    BY <2>1
  <2> QED
    BY <2>1, <2>2
<1> QED
  BY <1>1, <1>2

\* Attach: the reference of the device is libusb's own.
LEMMA RefAttach ==
  ASSUME RefInv, NEW d \in Devices, Attach(d)
  PROVE  RefInv'
<1> USE DEF RefInv
<1> DEFINE e == Event("ARRIVED", d)
<1>1. /\ presence[d] = "new" /\ presence' = [presence EXCEPT ![d] = "attached"]
      /\ refs' = [refs EXCEPT ![d] = 1]
      /\ UNCHANGED <<ready, enabled, queue, held, handles, closed, view, synced>>
  BY DEF Attach, hostVars, guestVars, toldVars
<1>2. e \in Events /\ e.dev = d /\ e.kind = "ARRIVED"
  BY DEF Event, Events
<1>3. messages \in Seq(Events) /\ queue \in Seq(Events)
  BY DEF TypeInv
<1>4. IF ready THEN messages' = Append(messages, e) ELSE messages' = messages
  BY DEF Attach
<1> HIDE DEF e
<1>5. /\ messages' \in Seq(Events)
      /\ \A n \in 1..Len(messages') :
           (n \in 1..Len(messages) /\ messages'[n] = messages[n]) \/ messages'[n] = e
      /\ \A n \in 1..Len(messages) : n \in 1..Len(messages') /\ messages'[n] = messages[n]
  <2>1. messages' = messages \/ messages' = Append(messages, e)
    BY <1>4
  <2> QED
    BY <1>2, <1>3, <2>1, Notified
<1>6. TypeInv'
  BY <1>1, <1>5 DEF TypeInv
<1>7. Started'
  BY <1>1, <1>4 DEF Started
<1>8. Unseen'
  <2> SUFFICES ASSUME NEW c \in Devices, presence'[c] = "new" PROVE Unseen!(c)'
    BY DEF Unseen
  <2>1. c # d /\ presence[c] = "new"
    BY <1>1 DEF TypeInv
  <2>2. \A n \in 1..Len(messages') : messages'[n].dev # c
    BY <1>2, <1>5, <2>1 DEF Unseen
  <2> QED
    BY <1>1, <2>1, <2>2 DEF Unseen
<1>9. Departures'
  <2> SUFFICES ASSUME NEW n \in 1..Len(messages'), messages'[n].kind = "LEFT"
               PROVE  /\ presence'[messages'[n].dev] = "left"
                      /\ \A m \in 1..Len(messages') : messages'[m] = messages'[n] => m = n
    BY DEF Departures
  <2>1. n \in 1..Len(messages) /\ messages'[n] = messages[n]
    BY <1>2, <1>5
  <2>2. /\ presence[messages[n].dev] = "left"
        /\ \A m \in 1..Len(messages) : messages[m] = messages[n] => m = n
    BY <2>1 DEF Departures
  <2>3. messages[n].dev # d /\ messages[n].dev \in Devices
    <3>1. messages[n] \in Events
      BY <1>3, <2>1
    <3>2. messages[n].dev \in Devices
      BY <3>1 DEF Events
    <3>3. messages[n].dev # d
      BY <1>1, <2>1 DEF Unseen
    <3> QED
      BY <3>2, <3>3
  <2>4. presence'[messages'[n].dev] = "left"
    BY <1>1, <2>1, <2>2, <2>3 DEF TypeInv
  <2>5. ASSUME NEW m \in 1..Len(messages'), messages'[m] = messages'[n] PROVE m = n
    <3>1. m \in 1..Len(messages) /\ messages'[m] = messages[m]
      BY <1>2, <1>5, <2>5
    <3> QED
      BY <2>1, <2>2, <2>5, <3>1
  <2> QED
    BY <2>4, <2>5
<1>10. Balanced'
  <2> SUFFICES ASSUME NEW c \in Devices PROVE refs'[c] = HostRefs(c)' + LibusbRefs(c)'
    BY DEF Balanced
  <2>1. HostRefs(c)' = HostRefs(c)
    BY <1>1 DEF HostRefs
  <2>2. CASE c = d
    <3>1. Count(queue, d) = 0
      <4>1. \A n \in 1..Len(queue) : queue[n].dev # d
        BY <1>1 DEF Unseen
      <4>2. Count(queue, d) \in Nat
            /\ (Count(queue, d) > 0 => \E n \in 1..Len(queue) : queue[n].dev = d)
        BY <1>3, CountTyped
      <4> QED
        BY <4>1, <4>2
    <3>2. HostRefs(c) = 0
      BY <1>1, <2>2, <3>1 DEF HostRefs, Unseen
    <3>3. LibusbRefs(c)' = 1
      BY <1>1, <2>2 DEF LibusbRefs, TypeInv
    <3>4. refs'[c] = 1
      BY <1>1, <2>2 DEF TypeInv
    <3> QED
      BY <2>1, <3>2, <3>3, <3>4
  <2>3. CASE c # d
    <3>1. Event("LEFT", c) # e
      BY <1>2, Leaving
    <3>2. LibusbRefs(c)' = LibusbRefs(c)
      BY <1>1, <1>5, <2>3, <3>1 DEF LibusbRefs, TypeInv
    <3>3. refs'[c] = refs[c]
      BY <1>1, <2>3 DEF TypeInv
    <3> QED
      BY <2>1, <3>2, <3>3 DEF Balanced
  <2> QED
    BY <2>2, <2>3
<1> QED
  BY <1>6, <1>7, <1>8, <1>9, <1>10

\* Detach: libusb's reference goes over to the message, if there is one.
LEMMA RefDetach ==
  ASSUME RefInv, NEW d \in Devices, Detach(d)
  PROVE  RefInv'
<1> USE DEF RefInv
<1> DEFINE e == Event("LEFT", d)
<1>1. /\ presence[d] = "attached" /\ presence' = [presence EXCEPT ![d] = "left"]
      /\ UNCHANGED <<ready, enabled, queue, held, handles, closed, view, synced>>
  BY DEF Detach, hostVars, guestVars, toldVars
<1>2. e \in Events /\ e.dev = d /\ e.kind = "LEFT"
  BY DEF Event, Events
<1>3. messages \in Seq(Events) /\ queue \in Seq(Events)
  BY DEF TypeInv
<1>4. IF ready THEN messages' = Append(messages, e) /\ refs' = refs
      ELSE messages' = messages /\ refs' = [refs EXCEPT ![d] = 0]
  BY DEF Detach
<1> HIDE DEF e
<1>5. /\ messages' \in Seq(Events)
      /\ \A n \in 1..Len(messages') :
           (n \in 1..Len(messages) /\ messages'[n] = messages[n]) \/ (n = Len(messages) + 1 /\ messages'[n] = e)
      /\ \A n \in 1..Len(messages) : n \in 1..Len(messages') /\ messages'[n] = messages[n]
  <2>1. messages' = messages \/ messages' = Append(messages, e)
    BY <1>4
  <2> QED
    BY <1>2, <1>3, <2>1, Notified
<1>6. TypeInv'
  BY <1>1, <1>4, <1>5 DEF TypeInv
<1>7. Started'
  BY <1>1, <1>4 DEF Started
<1>8. Unseen'
  <2> SUFFICES ASSUME NEW c \in Devices, presence'[c] = "new" PROVE Unseen!(c)'
    BY DEF Unseen
  <2>1. c # d /\ presence[c] = "new"
    BY <1>1 DEF TypeInv
  <2>2. \A n \in 1..Len(messages') : messages'[n].dev # c
    BY <1>2, <1>5, <2>1 DEF Unseen
  <2> QED
    BY <1>1, <2>1, <2>2 DEF Unseen
<1>9. Departures'
  <2>1. \A n \in 1..Len(messages) : messages[n] # e
    BY <1>1, <1>2 DEF Departures
  <2>2. ASSUME NEW n \in 1..Len(messages'), messages'[n].kind = "LEFT"
        PROVE  presence'[messages'[n].dev] = "left"
    <3>1. CASE messages'[n] = e
      BY <1>1, <1>2, <3>1 DEF TypeInv
    <3>2. CASE n \in 1..Len(messages) /\ messages'[n] = messages[n]
      <4>1. messages[n] \in Events /\ presence[messages[n].dev] = "left"
        BY <1>3, <2>2, <3>2 DEF Departures
      <4>2. messages[n].dev \in Devices /\ messages[n].dev # d
        BY <1>1, <4>1 DEF Events
      <4> QED
        BY <1>1, <3>2, <4>1, <4>2 DEF TypeInv
    <3> QED
      BY <1>5, <3>1, <3>2
  <2>3. ASSUME NEW n \in 1..Len(messages'), messages'[n].kind = "LEFT",
               NEW m \in 1..Len(messages'), messages'[m] = messages'[n]
        PROVE  m = n
    BY <1>5, <2>1, <2>3 DEF Departures
  <2> QED
    BY <2>2, <2>3 DEF Departures
<1>10. Balanced'
  <2> SUFFICES ASSUME NEW c \in Devices PROVE refs'[c] = HostRefs(c)' + LibusbRefs(c)'
    BY DEF Balanced
  <2>1. HostRefs(c)' = HostRefs(c)
    BY <1>1 DEF HostRefs
  <2>2. CASE c = d /\ ready
    <3>1. LibusbRefs(c) = 1
      BY <1>1, <2>2 DEF LibusbRefs
    <3>2. Len(messages') = Len(messages) + 1 /\ messages'[Len(messages) + 1] = e /\ Len(messages) \in Nat
      BY <1>2, <1>3, <1>4, <2>2
    <3>3. LibusbRefs(c)' = 1
      BY <2>2, <3>2 DEF LibusbRefs, e
    <3> QED
      BY <1>4, <2>1, <2>2, <3>1, <3>3 DEF Balanced
  <2>3. CASE c = d /\ ~ready
    <3>1. Count(queue, d) = 0
      BY <2>3, CountEmpty DEF Started
    <3>2. HostRefs(c) = 0
      BY <2>3, <3>1 DEF HostRefs, Started
    <3>3. messages' = <<>> /\ presence'[c] = "left"
      BY <1>1, <1>4, <2>3 DEF Started, TypeInv
    <3>4. LibusbRefs(c)' = 0
      BY <3>3 DEF LibusbRefs
    <3>5. refs'[c] = 0
      BY <1>4, <2>3 DEF TypeInv
    <3> QED
      BY <2>1, <3>2, <3>4, <3>5
  <2>4. CASE c # d
    <3>1. Event("LEFT", c) # e
      BY <1>2, <2>4, Leaving
    <3>2. LibusbRefs(c)' = LibusbRefs(c)
      BY <1>1, <1>5, <2>4, <3>1 DEF LibusbRefs, TypeInv
    <3>3. refs'[c] = refs[c]
      BY <1>4, <2>4 DEF TypeInv
    <3> QED
      BY <2>1, <3>2, <3>3 DEF Balanced
  <2> QED
    BY <2>2, <2>3, <2>4
<1> QED
  BY <1>6, <1>7, <1>8, <1>9, <1>10

\* What the oldest message, handled, leaves of the messages.
LEMMA Handled ==
  ASSUME NEW s \in Seq(Events), s # <<>>
  PROVE  /\ Head(s) \in Events /\ Head(s) = s[1] /\ Tail(s) \in Seq(Events)
         /\ Len(s) \in Nat /\ Len(Tail(s)) = Len(s) - 1 /\ 1 \in 1..Len(s)
         /\ \A n \in 1..Len(Tail(s)) : n + 1 \in 1..Len(s) /\ Tail(s)[n] = s[n + 1]
         /\ \A n \in 1..Len(s) : n = 1 \/ (n - 1 \in 1..Len(Tail(s)) /\ Tail(s)[n - 1] = s[n])
  OBVIOUS

\* HandleMessage: the queue takes a reference of its own for what it takes; that of libusb
\* goes with the message that the device left.
LEMMA RefMessage ==
  ASSUME RefInv, HandleMessage
  PROVE  RefInv'
<1> USE DEF RefInv
<1> DEFINE e == Head(messages)
           left == IF e.kind = "LEFT" THEN 1 ELSE 0
           taken == IF enabled /\ Passes(e.dev) THEN 1 ELSE 0
<1>1. /\ messages # <<>> /\ messages' = Tail(messages) /\ queue' = queue \o HotplugCb(e)
      /\ refs' = [refs EXCEPT ![e.dev] = @ + RefsTaken(e) - left]
      /\ UNCHANGED <<presence, ready, enabled, held, handles, closed, view, synced>>
  BY DEF HandleMessage, guestVars, toldVars
<1>2. messages \in Seq(Events) /\ queue \in Seq(Events)
  BY DEF TypeInv
<1>3. /\ e \in Events /\ e = messages[1] /\ messages' \in Seq(Events)
      /\ Len(messages) \in Nat /\ Len(messages') = Len(messages) - 1 /\ 1 \in 1..Len(messages)
      /\ \A n \in 1..Len(messages') : n + 1 \in 1..Len(messages) /\ messages'[n] = messages[n + 1]
      /\ \A n \in 1..Len(messages) : n = 1 \/ (n - 1 \in 1..Len(messages') /\ messages'[n - 1] = messages[n])
  BY <1>1, <1>2, Handled
<1>4. e.dev \in Devices /\ e.kind \in {"ARRIVED", "LEFT"}
  BY <1>3 DEF Events
<1>5. RefsTaken(e) = taken /\ queue' = IF taken = 1 THEN Append(queue, e) ELSE queue
  BY <1>1, <1>2, <1>3 DEF RefsTaken, HotplugCb
<1> HIDE DEF e
<1>0. taken \in {0, 1} /\ left \in {0, 1}
  OBVIOUS
<1>6. left = 1 => LibusbRefs(e.dev) = 1 /\ presence[e.dev] = "left"
  <2>1. left = 1 => messages[1] = Event("LEFT", e.dev)
    BY <1>3, <1>4, Leaving
  <2> QED
    BY <1>3, <2>1 DEF LibusbRefs, Departures
<1>7. refs[e.dev] + taken - left \in Nat
  BY <1>4, <1>6, HostRefsType DEF Balanced
<1>8. TypeInv'
  <2>1. queue' \in Seq(Events)
    BY <1>2, <1>3, <1>5
  <2>2. refs' \in [Devices -> Nat]
    BY <1>1, <1>4, <1>5, <1>7 DEF TypeInv
  <2> QED
    BY <1>1, <1>3, <2>1, <2>2 DEF TypeInv
<1>9. Started'
  BY <1>1, <1>5 DEF Started
<1>10. \A n \in 1..Len(queue') : (n \in 1..Len(queue) /\ queue'[n] = queue[n]) \/ queue'[n] = e
  BY <1>2, <1>3, <1>5, Notified
<1>11. Unseen'
  <2> SUFFICES ASSUME NEW c \in Devices, presence'[c] = "new" PROVE Unseen!(c)'
    BY DEF Unseen
  <2>1. e.dev # c
    BY <1>1, <1>3 DEF Unseen
  <2>2. \A n \in 1..Len(queue') : queue'[n].dev # c
    BY <1>1, <1>10, <2>1 DEF Unseen
  <2>3. \A n \in 1..Len(messages') : messages'[n].dev # c
    BY <1>1, <1>3 DEF Unseen
  <2> QED
    BY <1>1, <2>2, <2>3 DEF Unseen
<1>12. Departures'
  <2>1. ASSUME NEW n \in 1..Len(messages'), messages'[n].kind = "LEFT"
        PROVE  presence'[messages'[n].dev] = "left"
    BY <1>1, <1>3, <2>1 DEF Departures
  <2>2. ASSUME NEW n \in 1..Len(messages'), messages'[n].kind = "LEFT",
               NEW m \in 1..Len(messages'), messages'[m] = messages'[n]
        PROVE  m = n
    <3>1. n + 1 \in 1..Len(messages) /\ m + 1 \in 1..Len(messages)
          /\ messages[n + 1].kind = "LEFT" /\ messages[m + 1] = messages[n + 1]
      BY <1>3, <2>2
    <3>2. m + 1 = n + 1
      BY <3>1 DEF Departures
    <3> QED
      BY <3>2
  <2> QED
    BY <2>1, <2>2 DEF Departures
<1>13. Balanced'
  <2> SUFFICES ASSUME NEW c \in Devices PROVE refs'[c] = HostRefs(c)' + LibusbRefs(c)'
    BY DEF Balanced
  <2>1. refs[c] = HostRefs(c) + LibusbRefs(c) /\ HostRefs(c) \in Nat /\ LibusbRefs(c) \in {0, 1}
        /\ Count(queue, c) \in Nat /\ held[c] \in Nat /\ handles[c] \in Nat
    BY HostRefsType DEF Balanced
  <2>0. ASSUME messages[1] # Event("LEFT", c) PROVE LibusbRefs(c)' = LibusbRefs(c)
    <3> DEFINE gone == Event("LEFT", c)
    <3>1. (\E n \in 1..Len(messages) : messages[n] = gone)
            <=> (\E n \in 1..Len(messages') : messages'[n] = gone)
      <4> HIDE DEF gone
      <4> QED
        BY <1>3, <2>0 DEF gone
    <3> QED
      BY <1>1, <3>1 DEF LibusbRefs
  <2>2. CASE c = e.dev
    <3>0. refs'[c] = refs[c] + taken - left /\ taken \in {0, 1}
      BY <1>1, <1>5, <2>2 DEF TypeInv
    <3>1. Count(queue', c) = Count(queue, c) + taken
      BY <1>2, <1>3, <1>5, <2>1, <2>2, CountAppend
    <3>2. HostRefs(c)' = HostRefs(c) + taken
      <4> HIDE DEF taken
      <4> QED
        BY <1>0, <1>1, <2>1, <3>1 DEF HostRefs
    <3>3. CASE left = 1
      <4>1. ASSUME NEW n \in 1..Len(messages') PROVE messages'[n] # Event("LEFT", c)
        <5>1. n + 1 \in 1..Len(messages) /\ messages'[n] = messages[n + 1] /\ n + 1 # 1
          BY <1>3
        <5>2. messages[n + 1] # messages[1]
          BY <1>3, <3>3, <5>1 DEF Departures
        <5>3. messages[1] = Event("LEFT", c)
          BY <1>3, <2>2, <3>3, Leaving
        <5> QED
          BY <5>1, <5>2, <5>3
      <4>2. LibusbRefs(c)' = 0 /\ LibusbRefs(c) = 1
        BY <1>1, <1>6, <2>2, <3>3, <4>1 DEF LibusbRefs
      <4> HIDE DEF taken, left, RefInv
      <4> QED
        BY <3>0, <2>1, <3>2, <3>3, <4>2
    <3>4. CASE left = 0
      <4>1. LibusbRefs(c)' = LibusbRefs(c)
        <5>1. messages[1] # Event("LEFT", c)
          BY <1>3, <2>2, <3>4, Leaving
        <5> QED
          BY <2>0, <5>1
      <4> HIDE DEF taken, left, RefInv
      <4> QED
        BY <3>0, <2>1, <3>2, <3>4, <4>1
    <3> QED
      BY <3>3, <3>4
  <2>3. CASE c # e.dev
    <3>1. Count(queue', c) = Count(queue, c)
      BY <1>2, <1>3, <1>5, <2>1, <2>3, CountAppend
    <3>2. HostRefs(c)' = HostRefs(c)
      BY <1>1, <3>1 DEF HostRefs
    <3>3. messages[1] # Event("LEFT", c)
      BY <1>3, <2>3, Leaving
    <3>4. LibusbRefs(c)' = LibusbRefs(c)
      BY <2>0, <3>3
    <3> QED
      BY <1>1, <2>1, <2>3, <3>2, <3>4 DEF TypeInv
  <2> QED
    BY <2>2, <2>3
<1> QED
  BY <1>8, <1>9, <1>11, <1>12, <1>13

\* The guest's calls leave libusb and its messages as they are.
LEMMA RefGuest ==
  ASSUME RefInv, UNCHANGED <<presence, messages, ready, enabled>>,
         TypeInv', Started', Unseen',
         \A d \in Devices : \E k \in Int :
           refs'[d] = refs[d] + k /\ HostRefs(d)' = HostRefs(d) + k
  PROVE  RefInv'
<1>1. Departures'
  BY DEF RefInv, Departures
<1>2. Balanced'
  <2> SUFFICES ASSUME NEW d \in Devices PROVE refs'[d] = HostRefs(d)' + LibusbRefs(d)'
    BY DEF Balanced
  <2>1. LibusbRefs(d)' = LibusbRefs(d)
    BY DEF LibusbRefs
  <2>2. HostRefs(d) \in Nat /\ LibusbRefs(d) \in {0, 1} /\ refs[d] = HostRefs(d) + LibusbRefs(d)
    BY HostRefsType DEF RefInv, Balanced
  <2>3. PICK k \in Int : refs'[d] = refs[d] + k /\ HostRefs(d)' = HostRefs(d) + k
    OBVIOUS
  <2> QED
    BY <2>1, <2>2, <2>3
<1> QED
  BY <1>1, <1>2 DEF RefInv

\* list_devices takes a reference for each resource it makes.
LEMMA RefList ==
  ASSUME RefInv, ListDevices
  PROVE  RefInv'
<1> USE DEF RefInv
<1> DEFINE found == {d \in Attached : Passes(d)}
           new == [d \in Devices |-> IF d \in found THEN 1 ELSE 0]
<1>1. /\ ready /\ \A d \in found : held[d] < MaxHeld
      /\ held' = [d \in Devices |-> IF d \in found THEN held[d] + 1 ELSE held[d]]
      /\ refs' = [d \in Devices |-> IF d \in found THEN refs[d] + 1 ELSE refs[d]]
      /\ view' = {InfoOf[d] : d \in found} /\ synced' = enabled
      /\ UNCHANGED <<presence, messages, ready, enabled, queue, handles, closed>>
  BY DEF ListDevices, hostVars
<1>2. found \subseteq Devices /\ \A d \in found : presence[d] = "attached"
  BY DEF Attached
<1> HIDE DEF found
<1>3. ASSUME NEW d \in Devices
      PROVE  /\ held'[d] = held[d] + new[d] /\ refs'[d] = refs[d] + new[d] /\ new[d] \in {0, 1}
             /\ held'[d] \in 0..MaxHeld /\ refs'[d] \in Nat
  <2>1. held[d] \in Nat /\ held[d] <= MaxHeld /\ refs[d] \in Nat /\ MaxHeld \in Nat
    BY HeldAssumption, HostRefsType DEF TypeInv
  <2> QED
    BY <1>1, <2>1
<1>4. TypeInv'
  <2>1. held' \in [Devices -> 0..MaxHeld] /\ refs' \in [Devices -> Nat]
    BY <1>1, <1>3
  <2>2. view' \subseteq Infos
    BY <1>1, <1>2, InfoAssumption
  <2> QED
    BY <1>1, <2>1, <2>2 DEF TypeInv
<1>5. Started'
  BY <1>1 DEF Started
<1>6. Unseen'
  BY <1>1, <1>2 DEF Unseen
<1>7. ASSUME NEW d \in Devices
      PROVE  refs'[d] = refs[d] + new[d] /\ HostRefs(d)' = HostRefs(d) + new[d] /\ new[d] \in Int
  <2> HIDE DEF new
  <2>1. held[d] \in Nat /\ handles[d] \in Nat /\ Count(queue, d) \in Nat
    BY HostRefsType
  <2> QED
    BY <1>1, <1>3, <2>1 DEF HostRefs
<1> HIDE DEF new, RefInv
<1> QED
  BY <1>1, <1>4, <1>5, <1>6, <1>7, RefGuest

\* poll_events: the resources take over the references of the queue.
LEMMA RefPoll ==
  ASSUME RefInv, PollEvents
  PROVE  RefInv'
<1> USE DEF RefInv
<1>1. /\ \A d \in Devices : held[d] + Count(queue, d) <= MaxHeld
      /\ held' = [d \in Devices |-> held[d] + Count(queue, d)]
      /\ view' = Replay(view, Drained(queue), Devices) /\ queue' = <<>> /\ queue # <<>>
      /\ UNCHANGED <<presence, refs, messages, ready, enabled, handles, closed, synced>>
  BY DEF PollEvents, usbVars
<1>2. TypeInv'
  <2>1. ASSUME NEW d \in Devices PROVE held'[d] \in 0..MaxHeld
    <3>1. held[d] \in Nat /\ Count(queue, d) \in Nat /\ MaxHeld \in Nat
      BY HostRefsType, HeldAssumption
    <3> QED
      BY <1>1, <3>1
  <2>2. held' \in [Devices -> 0..MaxHeld]
    BY <1>1, <2>1
  <2>3. queue' \in Seq(Events)
    BY <1>1
  <2>4. view' \subseteq Infos
    BY <1>1 DEF Replay
  <2> QED
    BY <1>1, <2>2, <2>3, <2>4 DEF TypeInv
<1>3. Started'
  BY <1>1 DEF Started
<1>4. Unseen'
  <2> SUFFICES ASSUME NEW c \in Devices, presence'[c] = "new" PROVE Unseen!(c)'
    BY DEF Unseen
  <2>1. Count(queue, c) = 0
    <3>1. \A n \in 1..Len(queue) : queue[n].dev # c
      BY <1>1 DEF Unseen
    <3>2. queue \in Seq(Events)
      BY DEF TypeInv
    <3>3. Count(queue, c) \in Nat /\ ~(Count(queue, c) > 0)
      BY <3>1, <3>2, CountTyped
    <3> QED
      BY <3>3
  <2>2. \A n \in 1..Len(queue') : queue'[n].dev # c
    BY <1>1
  <2> QED
    BY <1>1, <2>1, <2>2 DEF Unseen
<1>5. ASSUME NEW d \in Devices
      PROVE  refs'[d] = refs[d] + 0 /\ HostRefs(d)' = HostRefs(d) + 0
  <2>1. held[d] \in Nat /\ handles[d] \in Nat /\ Count(queue, d) \in Nat /\ refs[d] \in Nat
    BY HostRefsType DEF TypeInv
  <2>2. Count(queue', d) = 0
    BY <1>1, CountEmpty
  <2> QED
    BY <1>1, <2>1, <2>2 DEF HostRefs
<1> HIDE DEF RefInv
<1>6. 0 \in Int
  OBVIOUS
<1> QED
  BY <1>1, <1>2, <1>3, <1>4, <1>5, <1>6, RefGuest

\* open takes a reference; the drops give one back.
LEMMA RefHandles ==
  ASSUME RefInv, NEW d \in Devices, Open(d) \/ DropHandle(d) \/ DropDevice(d)
  PROVE  RefInv'
<1> USE DEF RefInv
<1>1. PICK k \in {-1, 1} :
        /\ refs' = [refs EXCEPT ![d] = @ + k]
        /\ \/ held' = held /\ handles' = [handles EXCEPT ![d] = @ + k]
              /\ handles[d] + k \in 0..MaxHandles
           \/ handles' = handles /\ held' = [held EXCEPT ![d] = @ + k]
              /\ held[d] + k \in 0..MaxHeld
        /\ presence[d] = "attached" \/ held[d] + handles[d] > 0
        /\ ready
  <2>1. /\ held[d] \in Nat /\ held[d] <= MaxHeld /\ MaxHeld \in Nat /\ handles[d] \in Nat
        /\ handles[d] <= MaxHandles /\ MaxHandles \in Nat /\ refs[d] \in Nat
    BY HeldAssumption, HostRefsType DEF TypeInv
  <2>2. CASE Open(d)
    <3>1. /\ refs' = [refs EXCEPT ![d] = @ + 1] /\ held' = held
          /\ handles' = [handles EXCEPT ![d] = @ + 1]
      BY <2>2 DEF Open, TypeInv
    <3>2. handles[d] + 1 \in 0..MaxHandles /\ presence[d] = "attached" /\ ready
      BY <2>1, <2>2 DEF Open, Started
    <3> QED
      BY <3>1, <3>2
  <2>3. CASE DropHandle(d)
    <3>1. /\ refs' = [refs EXCEPT ![d] = @ + (-1)] /\ held' = held
          /\ handles' = [handles EXCEPT ![d] = @ + (-1)]
      <4>1. handles[d] - 1 = handles[d] + (-1) /\ refs[d] - 1 = refs[d] + (-1)
        BY <2>1, <2>3 DEF DropHandle
      <4> QED
        BY <2>3, <4>1 DEF DropHandle
    <3>2. handles[d] + (-1) \in 0..MaxHandles /\ held[d] + handles[d] > 0 /\ ready
      BY <2>1, <2>3 DEF DropHandle, Started
    <3> QED
      BY <3>1, <3>2
  <2>4. CASE DropDevice(d)
    <3>1. /\ refs' = [refs EXCEPT ![d] = @ + (-1)] /\ handles' = handles
          /\ held' = [held EXCEPT ![d] = @ + (-1)]
      BY <2>1, <2>4 DEF DropDevice, TypeInv, guestVars
    <3>2. held[d] + (-1) \in 0..MaxHeld /\ held[d] + handles[d] > 0 /\ ready
      BY <2>1, <2>4 DEF DropDevice, Started
    <3> QED
      BY <3>1, <3>2
  <2> QED
    BY <2>2, <2>3, <2>4
<1>2. UNCHANGED <<presence, messages, ready, enabled, queue, view, synced>>
  BY DEF Open, DropHandle, DropDevice, hostVars, toldVars, guestVars, TypeInv
<1>9. closed' \in [Devices -> 0..MaxHandles]
  <2>1. closed \in [Devices -> 0..MaxHandles] /\ MaxHandles \in Nat
    BY HeldAssumption DEF TypeInv
  <2>2. closed' = closed \/ (closed[d] > 0 /\ closed' = [closed EXCEPT ![d] = @ - 1])
    BY DEF Open, DropHandle, DropDevice
  <2> QED
    BY <2>1, <2>2
<1>3. refs[d] + k \in Nat
  <2>1. /\ held[d] \in Nat /\ handles[d] \in Nat /\ Count(queue, d) \in Nat
        /\ refs[d] = HostRefs(d) + LibusbRefs(d) /\ LibusbRefs(d) \in {0, 1}
    BY HostRefsType DEF Balanced
  <2>2. LibusbRefs(d) = 1 \/ held[d] + handles[d] > 0
    BY <1>1 DEF LibusbRefs
  <2> QED
    BY <2>1, <2>2 DEF HostRefs
<1>4. TypeInv'
  <2>1. refs' \in [Devices -> Nat]
    BY <1>1, <1>3 DEF TypeInv
  <2>2. held' \in [Devices -> 0..MaxHeld] /\ handles' \in [Devices -> 0..MaxHandles]
    BY <1>1 DEF TypeInv
  <2> QED
    BY <1>2, <1>9, <2>1, <2>2 DEF TypeInv
<1>5. Started'
  BY <1>1, <1>2 DEF Started
<1>6. presence[d] # "new"
  BY <1>1 DEF Unseen
<1>7. Unseen'
  <2> SUFFICES ASSUME NEW c \in Devices, presence'[c] = "new" PROVE Unseen!(c)'
    BY DEF Unseen
  <2>1. c # d
    BY <1>2, <1>6
  <2>2. held'[c] = held[c] /\ handles'[c] = handles[c]
    BY <1>1, <2>1 DEF TypeInv
  <2> QED
    BY <1>2, <2>2 DEF Unseen
<1>8. ASSUME NEW c \in Devices
      PROVE  \E j \in Int : refs'[c] = refs[c] + j /\ HostRefs(c)' = HostRefs(c) + j
  <2>1. held[c] \in Nat /\ handles[c] \in Nat /\ Count(queue, c) \in Nat /\ refs[c] \in Nat
    BY HostRefsType DEF TypeInv
  <2>2. CASE c = d
    <3>1. refs'[c] = refs[c] + k
      BY <1>1, <2>2 DEF TypeInv
    <3>2. held'[c] + handles'[c] = held[c] + handles[c] + k
      BY <1>1, <2>1, <2>2 DEF TypeInv
    <3>3. held'[c] \in Nat /\ handles'[c] \in Nat
      <4>1. held'[c] \in 0..MaxHeld /\ handles'[c] \in 0..MaxHandles
        BY <1>4 DEF TypeInv
      <4> QED
        BY <4>1, HeldAssumption
    <3>4. HostRefs(c)' = Count(queue, c) + held'[c] + handles'[c]
      BY <1>2 DEF HostRefs
    <3>5. HostRefs(c)' = HostRefs(c) + k /\ k \in Int
      BY <2>1, <3>2, <3>3, <3>4 DEF HostRefs
    <3> QED
      BY <3>1, <3>5
  <2>3. CASE c # d
    <3>1. refs'[c] = refs[c] + 0 /\ held'[c] = held[c] /\ handles'[c] = handles[c]
      BY <1>1, <2>1, <2>3 DEF TypeInv
    <3> QED
      BY <1>2, <2>1, <3>1 DEF HostRefs
  <2> QED
    BY <2>2, <2>3
<1> HIDE DEF RefInv
<1> QED
  BY <1>2, <1>4, <1>5, <1>7, <1>8, RefGuest

LEMMA RefStep == RefInv /\ [Next]_vars => RefInv'
<1> SUFFICES ASSUME RefInv, [Next]_vars PROVE RefInv'
  OBVIOUS
<1>1. CASE \E d \in Devices : Attach(d) \/ Detach(d)
  BY <1>1, RefAttach, RefDetach
<1>2. CASE HandleMessage
  BY <1>2, RefMessage
<1>3. CASE ListDevices
  BY <1>3, RefList
<1>4. CASE PollEvents
  BY <1>4, RefPoll
<1>5. CASE \E d \in Devices : Open(d) \/ DropHandle(d) \/ DropDevice(d)
  BY <1>5, RefHandles
<1>6. CASE InitBackend \/ EnableHotplug \/ UNCHANGED vars \/ \E d \in Devices : Close(d)
  <2>1. /\ UNCHANGED <<presence, refs, messages, queue, held, handles, view, synced>>
        /\ ready' \in BOOLEAN /\ enabled' \in BOOLEAN /\ closed' \in [Devices -> 0..MaxHandles]
        /\ (ready => ready') /\ (enabled => enabled') /\ (enabled' => enabled \/ ready)
    <3> USE DEF usbVars, hostVars, guestVars, toldVars
    <3>1. ready \in BOOLEAN /\ enabled \in BOOLEAN /\ closed \in [Devices -> 0..MaxHandles]
      BY DEF RefInv, TypeInv
    <3>2. CASE InitBackend
      BY <3>1, <3>2, Zenon DEF InitBackend
    <3>3. CASE EnableHotplug
      BY <3>1, <3>3, Zenon DEF EnableHotplug
    <3>4. CASE \E d \in Devices : Close(d)
      <4>1. PICK d \in Devices : Close(d)
        BY <3>4
      <4>2. handles[d] \in 0..MaxHandles /\ closed[d] \in 0..MaxHandles /\ MaxHandles \in Nat
        BY HeldAssumption DEF RefInv, TypeInv
      <4>3. closed' \in [Devices -> 0..MaxHandles]
        BY <3>1, <4>1, <4>2 DEF Close
      <4> QED
        BY <3>1, <4>1, <4>3 DEF Close
    <3>5. CASE UNCHANGED vars
      BY <3>1, <3>5 DEF vars
    <3> QED
      BY <1>6, <3>2, <3>3, <3>4, <3>5
  <2>2. TypeInv'
    BY <2>1 DEF RefInv, TypeInv
  <2>3. Started'
    BY <2>1 DEF RefInv, Started
  <2>4. Unseen' /\ Departures' /\ Balanced'
    BY <2>1 DEF RefInv, Unseen, Departures, Balanced, HostRefs, LibusbRefs
  <2> QED
    BY <2>2, <2>3, <2>4 DEF RefInv
<1> QED
  BY <1>1, <1>2, <1>3, <1>4, <1>5, <1>6 DEF Next

LEMMA RefAlways == Spec => []RefInv
  BY RefInit, RefStep, PTL DEF Spec

\* Every variable keeps its type: no sequence of attaching, leaving, listing, polling,
\* opening and dropping takes a reference count below zero.
THEOREM TypeCorrect == Spec => []TypeInv
<1>1. RefInv => TypeInv
  BY DEF RefInv
<1> QED
  BY <1>1, RefAlways, PTL

\* libusb frees no device that the queue, a resource or a handle refers to, whenever the
\* device leaves and in whatever order the guest polls and drops: each has its reference.
THEOREM HeldLive == Spec => []HeldDevicesLive
<1>1. RefInv => HeldDevicesLive
  <2> SUFFICES ASSUME RefInv, NEW d \in Devices PROVE HostRefs(d) + LibusbRefs(d) <= refs[d]
    BY DEF HeldDevicesLive
  <2>1. refs[d] = HostRefs(d) + LibusbRefs(d) /\ refs[d] \in Nat
    BY DEF RefInv, Balanced, TypeInv
  <2> QED
    BY <2>1
<1> QED
  BY <1>1, RefAlways, PTL

\* And nothing else has one: a device that left and that nobody refers to is freed.
THEOREM ReleasedFreed == Spec => []ReleasedDevicesFreed
<1>1. RefInv => ReleasedDevicesFreed
  <2> SUFFICES ASSUME RefInv, NEW d \in Devices PROVE HostRefs(d) + LibusbRefs(d) >= refs[d]
    BY DEF ReleasedDevicesFreed
  <2>1. refs[d] = HostRefs(d) + LibusbRefs(d) /\ refs[d] \in Nat
    BY DEF RefInv, Balanced, TypeInv
  <2> QED
    BY <2>1
<1> QED
  BY <1>1, RefAlways, PTL

-----------------------------------------------------------------------------
(***************************************************************************)
(* What the guest is told.                                                 *)
(***************************************************************************)
\* libusb gives an address again only when the device that had it is gone.
Distinct == \A d, e \in Attached : InfoOf[d] = InfoOf[e] => d = e

Heard == {d \in Devices : Passes(d)}
Present == {InfoOf[d] : d \in {a \in Attached : Passes(a)}}

\* The last of the events about i says whether it is one of present.
TellsTruth(events, i, present) ==
  \A n \in About(events, Heard, i) :
    (\A m \in About(events, Heard, i) : m <= n) =>
      (events[n].kind = "ARRIVED" <=> i \in present)

\* The newest event about an info is on its way from libusb, or in the queue, or the guest
\* knows of it.
NewsOf(i) ==
  IF About(messages, Heard, i) # {} THEN TellsTruth(messages, i, Present)
  ELSE IF About(queue, Heard, i) # {} THEN TellsTruth(queue, i, Present)
  ELSE synced => (i \in view <=> i \in Present)

NewsInv ==
  /\ Distinct
  /\ \A n \in 1..Len(queue) : queue[n].dev \in Heard
  /\ \A i \in Infos : NewsOf(i)

\* A set of natural numbers has a least one, and a bounded one a greatest.
LEMMA LeastOf ==
  ASSUME NEW T, T \subseteq Nat, T # {}
  PROVE  \E x \in T : \A y \in T : x <= y
<1> DEFINE R == OpToRel(<, Nat)
<1>1. IsWellFoundedOn(R, Nat)
  BY NatLessThanWellFounded
<1>2. \A x, y \in Nat : x < y => <<x, y>> \in R
  BY DEF OpToRel
<1> HIDE DEF R
<1>3. PICK x \in T : \A y \in T : ~(<<y, x>> \in R)
  BY <1>1, WFMin
<1>4. ASSUME NEW y \in T PROVE x <= y
  <2>1. x \in Nat /\ y \in Nat
    OBVIOUS
  <2>2. ~(y < x)
    BY <1>2, <1>3, <2>1
  <2> QED
    BY <2>1, <2>2
<1> QED
  BY <1>4

LEMMA GreatestOf ==
  ASSUME NEW n \in Nat, NEW T, T \subseteq 1..n, T # {}
  PROVE  \E x \in T : \A y \in T : y <= x
<1> DEFINE D == {n - x : x \in T}
<1>1. \A x \in T : x \in Int /\ 0 <= x /\ x <= n
  OBVIOUS
<1>2. D \subseteq Nat /\ D # {}
  <2>1. ASSUME NEW d \in D PROVE d \in Nat
    <3>1. PICK x \in T : d = n - x
      OBVIOUS
    <3> HIDE DEF D
    <3> QED
      BY <1>1, <3>1
  <2>2. PICK x \in T : TRUE
    OBVIOUS
  <2>3. n - x \in D
    OBVIOUS
  <2> QED
    BY <2>1, <2>3
<1>3. PICK z \in D : \A y \in D : z <= y
  <2> HIDE DEF D
  <2> QED
    BY <1>2, LeastOf
<1>4. PICK x \in T : z = n - x
  OBVIOUS
<1>5. \A y \in T : n - x <= n - y
  BY <1>3, <1>4
<1>6. ASSUME NEW y \in T PROVE y <= x
  BY <1>1, <1>5
<1> QED
  BY <1>6

LEMMA LastAbout ==
  ASSUME NEW events \in Seq(Events), NEW told, NEW i, About(events, told, i) # {}
  PROVE  \E n \in About(events, told, i) : \A m \in About(events, told, i) : m <= n
<1>1. Len(events) \in Nat /\ About(events, told, i) \subseteq 1..Len(events)
  BY DEF About
<1> QED
  BY <1>1, GreatestOf

\* An event more.
LEMMA Appended ==
  ASSUME NEW events \in Seq(Events), NEW e \in Events, NEW told, NEW i
  PROVE  /\ Len(events) \in Nat /\ Append(events, e)[Len(events) + 1] = e
         /\ \A n \in About(events, told, i) : Append(events, e)[n] = events[n] /\ n <= Len(events)
  BY DEF About

LEMMA AboutAppend ==
  \A events \in Seq(Events), e \in Events : \A told, i :
    e.dev \in told /\ InfoOf[e.dev] = i =>
      About(Append(events, e), told, i) = About(events, told, i) \cup {Len(events) + 1}
<1> SUFFICES ASSUME NEW events \in Seq(Events), NEW e \in Events, NEW told, NEW i,
                    e.dev \in told, InfoOf[e.dev] = i
             PROVE  About(Append(events, e), told, i) = About(events, told, i) \cup {Len(events) + 1}
  OBVIOUS
<1> DEFINE t == Append(events, e)
<1>1. /\ Len(events) \in Nat /\ Len(t) = Len(events) + 1 /\ t[Len(events) + 1] = e
      /\ \A n \in 1..Len(events) : t[n] = events[n]
  OBVIOUS
<1> HIDE DEF t
<1>2. \A n \in 1..Len(t) : n \in 1..Len(events) \/ n = Len(events) + 1
  BY <1>1
<1>3. 1..Len(events) \subseteq 1..Len(t) /\ Len(events) + 1 \in 1..Len(t)
  BY <1>1
<1>4. About(t, told, i) = About(events, told, i) \cup {Len(events) + 1}
  BY <1>1, <1>2, <1>3 DEF About
<1> QED
  BY <1>4 DEF t

LEMMA AboutOther ==
  \A events \in Seq(Events), e \in Events : \A told, i :
    ~(e.dev \in told /\ InfoOf[e.dev] = i) =>
      About(Append(events, e), told, i) = About(events, told, i)
<1> SUFFICES ASSUME NEW events \in Seq(Events), NEW e \in Events, NEW told, NEW i,
                    ~(e.dev \in told /\ InfoOf[e.dev] = i)
             PROVE  About(Append(events, e), told, i) = About(events, told, i)
  OBVIOUS
<1> DEFINE t == Append(events, e)
<1>1. /\ Len(events) \in Nat /\ Len(t) = Len(events) + 1 /\ t[Len(events) + 1] = e
      /\ \A n \in 1..Len(events) : t[n] = events[n]
  OBVIOUS
<1> HIDE DEF t
<1>2. \A n \in 1..Len(t) : n \in 1..Len(events) \/ n = Len(events) + 1
  BY <1>1
<1>3. 1..Len(events) \subseteq 1..Len(t)
  BY <1>1
<1>4. About(t, told, i) = About(events, told, i)
  BY <1>1, <1>2, <1>3 DEF About
<1> QED
  BY <1>4 DEF t

\* The last of them tells the truth about i, if the event is about i and does, or else the
\* last one before it.
LEMMA TruthAppend ==
  ASSUME NEW events \in Seq(Events), NEW e \in Events, NEW i, NEW present,
         IF e.dev \in Heard /\ InfoOf[e.dev] = i THEN e.kind = "ARRIVED" <=> i \in present
         ELSE TellsTruth(events, i, present)
  PROVE  TellsTruth(Append(events, e), i, present)
<1> DEFINE t == Append(events, e)
           A == About(events, Heard, i)
           B == About(t, Heard, i)
<1> SUFFICES ASSUME NEW n \in B, \A m \in B : m <= n
             PROVE  t[n].kind = "ARRIVED" <=> i \in present
  BY DEF TellsTruth
<1>1. /\ Len(events) \in Nat /\ t[Len(events) + 1] = e
      /\ \A m \in A : t[m] = events[m] /\ m <= Len(events)
  BY Appended
<1>2. CASE e.dev \in Heard /\ InfoOf[e.dev] = i
  <2>1. B = A \cup {Len(events) + 1}
    <3> HIDE DEF A, B
    <3>1. About(Append(events, e), Heard, i) = About(events, Heard, i) \cup {Len(events) + 1}
      BY <1>2, AboutAppend
    <3> QED
      BY <3>1 DEF A, B
  <2>2. n \notin A
    <3> SUFFICES ASSUME n \in A PROVE FALSE
      OBVIOUS
    <3>1. n <= Len(events) /\ Len(events) + 1 <= n /\ n \in Nat
      BY <1>1, <2>1 DEF About
    <3> QED
      BY <1>1, <3>1
  <2>3. t[n] = e
    BY <1>1, <2>1, <2>2
  <2> QED
    BY <1>2, <2>3
<1>3. CASE ~(e.dev \in Heard /\ InfoOf[e.dev] = i)
  <2>1. B = A
    <3> HIDE DEF A, B
    <3>1. About(Append(events, e), Heard, i) = About(events, Heard, i)
      BY <1>3, AboutOther
    <3> QED
      BY <3>1 DEF A, B
  <2> QED
    BY <1>1, <1>3, <2>1 DEF TellsTruth
<1> QED
  BY <1>2, <1>3

\* The oldest event less.
LEMMA TruthTail ==
  ASSUME NEW events \in Seq(Events), events # <<>>, NEW i, NEW present,
         TellsTruth(events, i, present) \/ About(events, Heard, i) = {}
  PROVE  /\ TellsTruth(Tail(events), i, present)
         /\ About(Tail(events), Heard, i) = {} =>
              IF Head(events).dev \in Heard /\ InfoOf[Head(events).dev] = i
              THEN Head(events).kind = "ARRIVED" <=> i \in present
              ELSE About(events, Heard, i) = {}
         /\ About(Tail(events), Heard, i) # {} => About(events, Heard, i) # {}
<1> DEFINE e == Head(events)
           t == Tail(events)
           A == About(events, Heard, i)
           B == About(t, Heard, i)
<1>1. /\ e = events[1] /\ Len(events) \in Nat /\ 1 \in 1..Len(events)
      /\ \A n \in 1..Len(t) : n + 1 \in 1..Len(events) /\ t[n] = events[n + 1]
      /\ \A n \in 1..Len(events) : n = 1 \/ (n - 1 \in 1..Len(t) /\ t[n - 1] = events[n])
  BY Handled
<1> HIDE DEF e, t
<1>2. \A n \in B : n \in Nat /\ n >= 1 /\ n + 1 \in A /\ t[n] = events[n + 1]
  <2>1. Len(t) \in Nat
    BY Handled DEF t
  <2> QED
    BY <1>1, <2>1 DEF About
<1>3. \A n \in A : n \in Nat /\ (n = 1 \/ n - 1 \in B)
  BY <1>1 DEF About
<1>4. 1 \in A <=> e.dev \in Heard /\ InfoOf[e.dev] = i
  BY <1>1 DEF About
<1>5. ASSUME NEW n \in B, \A m \in B : m <= n
      PROVE  t[n].kind = "ARRIVED" <=> i \in present
  <2>1. n + 1 \in A
    BY <1>2
  <2>2. ASSUME NEW m \in A PROVE m <= n + 1
    BY <1>2, <1>3, <1>5
  <2>3. events[n + 1].kind = "ARRIVED" <=> i \in present
    BY <2>1, <2>2 DEF TellsTruth
  <2> QED
    BY <1>2, <2>3
<1>6. ASSUME B = {}
      PROVE  IF e.dev \in Heard /\ InfoOf[e.dev] = i THEN e.kind = "ARRIVED" <=> i \in present
             ELSE A = {}
  <2>1. \A n \in A : n = 1
    BY <1>3, <1>6
  <2>2. CASE 1 \in A
    <3>1. \A m \in A : m <= 1
      BY <2>1
    <3>2. events[1].kind = "ARRIVED" <=> i \in present
      BY <2>2, <3>1 DEF TellsTruth
    <3> QED
      BY <1>1, <1>4, <2>2, <3>2
  <2>3. CASE 1 \notin A
    BY <1>4, <2>1, <2>3
  <2> QED
    BY <2>2, <2>3
<1>7. B # {} => A # {}
  BY <1>2
<1>8. TellsTruth(t, i, present)
  BY <1>5 DEF TellsTruth
<1> QED
  BY <1>6, <1>7, <1>8 DEF e, t

\* What becomes of what the guest knew.
LEMMA ReplayLast ==
  ASSUME NEW events \in Seq(Events), NEW told, NEW known, NEW i \in Infos
  PROVE  /\ About(events, told, i) = {} => (i \in Replay(known, events, told) <=> i \in known)
         /\ \A n \in About(events, told, i) : (\A m \in About(events, told, i) : m <= n) =>
              (i \in Replay(known, events, told) <=> events[n].kind = "ARRIVED")
<1> DEFINE A == About(events, told, i)
<1>1. i \in Replay(known, events, told) <=>
        IF A = {} THEN i \in known
        ELSE \E n \in A : events[n].kind = "ARRIVED" /\ \A m \in A : m <= n
  BY DEF Replay
<1>2. \A n \in A : n \in Nat
  <2>1. Len(events) \in Nat
    OBVIOUS
  <2> QED
    BY <2>1 DEF About
<1> HIDE DEF A
<1>3. ASSUME NEW n \in A, \A m \in A : m <= n
      PROVE  i \in Replay(known, events, told) <=> events[n].kind = "ARRIVED"
  <2>1. A # {}
    OBVIOUS
  <2>2. ASSUME NEW k \in A, \A m \in A : m <= k PROVE k = n
    <3>1. k <= n /\ n <= k /\ k \in Nat /\ n \in Nat
      BY <1>2, <1>3, <2>2
    <3> QED
      BY <3>1
  <2> QED
    BY <1>1, <1>3, <2>1, <2>2
<1> QED
  BY <1>1, <1>3 DEF A

LEMMA NewsInit == Init => NewsInv
<1> SUFFICES ASSUME Init PROVE NewsInv
  OBVIOUS
<1>1. About(<<>>, Heard, 0) = {} /\ \A i \in Infos : About(<<>>, Heard, i) = {}
  BY DEF About
<1> QED
  BY <1>1 DEF Init, NewsInv, NewsOf, Distinct, Attached

\* A device that attaches or leaves changes what is so of its own info, and only if it
\* passes; the message about it, if there is one, says so.
LEMMA NewsBus ==
  ASSUME RefInv, NewsInv, NEW d \in Devices, Attach(d) \/ Detach(d)
  PROVE  NewsInv'
<1> USE DEF RefInv, NewsInv
<1> DEFINE e == Event(IF Attach(d) THEN "ARRIVED" ELSE "LEFT", d)
           now == Present'
<1>1. /\ UNCHANGED <<queue, view, synced>>
      /\ messages \in Seq(Events) /\ queue \in Seq(Events)
      /\ presence \in [Devices -> {"new", "attached", "left"}]
  BY DEF Attach, Detach, hostVars, toldVars, TypeInv
<1>2. /\ messages' = IF ready THEN Append(messages, e) ELSE messages
      /\ \/ Attach(d) /\ e.kind = "ARRIVED" /\ presence[d] = "new"
            /\ presence' = [presence EXCEPT ![d] = "attached"]
            /\ \A c \in Attached : InfoOf[c] # InfoOf[d]
         \/ Detach(d) /\ e.kind = "LEFT" /\ presence[d] = "attached"
            /\ presence' = [presence EXCEPT ![d] = "left"]
  <2>1. CASE Attach(d)
    BY <2>1 DEF Attach, Event
  <2>2. CASE ~Attach(d) /\ Detach(d)
    BY <2>2 DEF Detach, Event
  <2> QED
    BY <2>1, <2>2
<1>3. e \in Events /\ e.dev = d
  BY DEF Event, Events
<1> HIDE DEF e
<1>4. Attached' = IF e.kind = "ARRIVED" THEN Attached \cup {d} ELSE Attached \ {d}
  BY <1>1, <1>2 DEF Attached
<1>5. Attached \subseteq Devices /\ (e.kind = "LEFT" => d \in Attached)
  BY <1>2 DEF Attached
<1>6. Distinct'
  BY <1>2, <1>4, <1>5 DEF Distinct
<1>7. \A i : i \in Present <=> \E c \in Attached : c \in Heard /\ InfoOf[c] = i
  BY <1>5 DEF Present, Heard
<1>8. \A i : i \in now <=> \E c \in Attached' : c \in Heard /\ InfoOf[c] = i
  BY <1>4, <1>5 DEF Present, Heard, Passes, IsAllowed
<1> HIDE DEF now
<1>9. ASSUME NEW i, d \in Heard, InfoOf[d] = i PROVE e.kind = "ARRIVED" <=> i \in now
  <2>1. CASE e.kind = "ARRIVED"
    BY <1>4, <1>8, <1>9, <2>1
  <2>2. CASE e.kind = "LEFT"
    <3>1. \A c \in Attached' : InfoOf[c] # i
      BY <1>4, <1>5, <1>9, <2>2 DEF Distinct
    <3> QED
      BY <1>8, <2>2, <3>1
  <2> QED
    BY <1>2, <2>1, <2>2
<1>10. ASSUME NEW i, ~(d \in Heard /\ InfoOf[d] = i) PROVE i \in Present <=> i \in now
  BY <1>2, <1>4, <1>7, <1>8, <1>10
<1>11. \A n \in 1..Len(queue') : queue'[n].dev \in Heard'
  BY <1>1 DEF Heard, Passes, IsAllowed
<1>12. ASSUME NEW i \in Infos PROVE NewsOf(i)'
  <2>1. Heard' = Heard
    BY DEF Heard, Passes, IsAllowed
  <2> DEFINE A == About(messages, Heard, i)
             B == About(messages', Heard, i)
  <2>2. NewsOf(i)' <=> IF B # {} THEN TellsTruth(messages', i, now)
                       ELSE IF About(queue, Heard, i) # {} THEN TellsTruth(queue, i, now)
                       ELSE synced => (i \in view <=> i \in now)
    BY <1>1, <2>1 DEF NewsOf, TellsTruth, About, now
  <2>3. CASE ~ready
    <3>1. messages' = <<>> /\ queue = <<>> /\ ~synced
      BY <1>2, <2>3 DEF Started
    <3>2. B = {} /\ About(queue, Heard, i) = {}
      BY <3>1 DEF About
    <3> QED
      BY <2>2, <3>1, <3>2
  <2>4. CASE ready /\ d \in Heard /\ InfoOf[d] = i
    <3>1. messages' = Append(messages, e)
      BY <1>2, <2>4
    <3>2. B # {}
      <4>1. messages \in Seq(Events) /\ e \in Events
        BY <1>1, <1>3
      <4>2. Len(messages) + 1 \in 1..Len(messages') /\ messages'[Len(messages) + 1] = e
        BY ONLY <3>1, <4>1
      <4> QED
        BY <1>3, <2>4, <4>2 DEF About
    <3>3. TellsTruth(messages', i, now)
      BY <1>1, <1>3, <1>9, <2>4, <3>1, TruthAppend
    <3> QED
      BY <2>2, <3>2, <3>3
  <2>5. CASE ready /\ ~(d \in Heard /\ InfoOf[d] = i)
    <3>1. messages' = Append(messages, e) /\ (i \in Present <=> i \in now)
      BY <1>2, <1>10, <2>5
    <3>2. B = A
      BY <1>1, <1>3, <2>5, <3>1, AboutOther
    <3>3. \A events : TellsTruth(events, i, Present) <=> TellsTruth(events, i, now)
      BY <3>1 DEF TellsTruth
    <3>4. TellsTruth(messages, i, now) => TellsTruth(messages', i, now)
      BY <1>1, <1>3, <2>5, <3>1, TruthAppend
    <3> QED
      BY <2>2, <3>1, <3>2, <3>3, <3>4 DEF NewsOf
  <2> QED
    BY <2>3, <2>4, <2>5
<1> QED
  BY <1>6, <1>11, <1>12

\* The oldest message becomes the newest in the queue, if the guest is to hear of it.
LEMMA NewsMessage ==
  ASSUME RefInv, NewsInv, HandleMessage
  PROVE  NewsInv'
<1> USE DEF RefInv, NewsInv
<1> DEFINE e == Head(messages)
<1>1. /\ messages # <<>> /\ messages' = Tail(messages) /\ queue' = queue \o HotplugCb(e)
      /\ UNCHANGED <<presence, enabled, view, synced>>
      /\ messages \in Seq(Events) /\ queue \in Seq(Events)
  BY DEF HandleMessage, guestVars, toldVars, TypeInv
<1>2. e \in Events /\ e.dev \in Devices
  BY <1>1, Handled DEF Events
<1>3. IF enabled /\ e.dev \in Heard THEN queue' = Append(queue, e) ELSE queue' = queue
  BY <1>1, <1>2 DEF HotplugCb, Heard
<1>4. Heard' = Heard /\ Present' = Present /\ Attached' = Attached
  BY <1>1 DEF Heard, Present, Attached, Passes, IsAllowed
<1> HIDE DEF e
<1>5. Distinct'
  BY <1>4 DEF Distinct
<1>6. ASSUME NEW n \in 1..Len(queue') PROVE queue'[n].dev \in Heard'
  <2>1. \A k \in 1..Len(queue') : (k \in 1..Len(queue) /\ queue'[k] = queue[k])
          \/ (queue'[k] = e /\ e.dev \in Heard)
    BY <1>1, <1>2, <1>3, Notified
  <2> QED
    BY <1>4, <2>1
<1>7. ASSUME NEW i \in Infos PROVE NewsOf(i)'
  <2> DEFINE A == About(messages, Heard, i)
             B == About(messages', Heard, i)
             C == About(queue, Heard, i)
             D == About(queue', Heard, i)
             mine == e.dev \in Heard /\ InfoOf[e.dev] = i
  <2>1. NewsOf(i)' <=> IF B # {} THEN TellsTruth(messages', i, Present)
                       ELSE IF D # {} THEN TellsTruth(queue', i, Present)
                       ELSE synced => (i \in view <=> i \in Present)
    BY <1>1, <1>4 DEF NewsOf, TellsTruth, About
  <2>2. /\ A # {} => TellsTruth(messages, i, Present)
        /\ A = {} /\ C # {} => TellsTruth(queue, i, Present)
        /\ A = {} /\ C = {} => (synced => (i \in view <=> i \in Present))
    BY DEF NewsOf
  <2>3. /\ TellsTruth(messages', i, Present)
        /\ B = {} => IF mine THEN e.kind = "ARRIVED" <=> i \in Present ELSE A = {}
    BY <1>1, <2>2, TruthTail DEF e
  <2>4. CASE B # {}
    BY <2>1, <2>3, <2>4
  <2>5. CASE B = {} /\ mine /\ enabled
    <3>1. queue' = Append(queue, e)
      BY <1>3, <2>5
    <3>2. D # {}
      <4>1. queue \in Seq(Events) /\ e \in Events
        BY <1>1, <1>2
      <4>2. Len(queue) + 1 \in 1..Len(queue') /\ queue'[Len(queue) + 1] = e
        BY ONLY <3>1, <4>1
      <4> QED
        BY <2>5, <4>2 DEF About
    <3>3. TellsTruth(queue', i, Present)
      BY <1>1, <1>2, <2>3, <2>5, <3>1, TruthAppend
    <3> QED
      BY <2>1, <2>5, <3>2, <3>3
  <2>6. CASE B = {} /\ mine /\ ~enabled
    <3>1. queue' = <<>> /\ ~synced
      BY <1>3, <2>6 DEF Started
    <3>2. D = {}
      BY <3>1 DEF About
    <3> QED
      BY <2>1, <2>6, <3>1, <3>2
  <2>7. CASE B = {} /\ ~mine
    <3>1. A = {}
      BY <2>3, <2>7
    <3>2. CASE queue' = queue
      BY <2>1, <2>2, <2>7, <3>1, <3>2
    <3>3. CASE queue' = Append(queue, e)
      <4>1. D = C
        BY <1>1, <1>2, <2>7, <3>3, AboutOther
      <4>2. TellsTruth(queue, i, Present) => TellsTruth(queue', i, Present)
        BY <1>1, <1>2, <2>7, <3>3, TruthAppend
      <4> QED
        BY <2>1, <2>2, <2>7, <3>1, <4>1, <4>2
    <3> QED
      BY <1>3, <3>2, <3>3
  <2> QED
    BY <2>4, <2>5, <2>6, <2>7
<1> QED
  BY <1>5, <1>6, <1>7

\* poll_events tells the guest all that is in the queue.
LEMMA NewsPoll ==
  ASSUME RefInv, NewsInv, PollEvents
  PROVE  NewsInv'
<1> USE DEF RefInv, NewsInv
<1>1. /\ queue' = <<>> /\ view' = Replay(view, queue, Devices)
      /\ UNCHANGED <<presence, messages, synced>> /\ queue \in Seq(Events)
  BY DEF PollEvents, Drained, usbVars, TypeInv
<1>2. Heard' = Heard /\ Present' = Present /\ Attached' = Attached
  BY <1>1 DEF Heard, Present, Attached, Passes, IsAllowed
<1>3. Distinct'
  BY <1>2 DEF Distinct
<1>4. \A n \in 1..Len(queue') : queue'[n].dev \in Heard'
  BY <1>1
<1>5. ASSUME NEW i \in Infos PROVE NewsOf(i)'
  <2> DEFINE A == About(messages, Heard, i)
             C == About(queue, Heard, i)
  <2>1. About(queue', Heard', i) = {}
    BY <1>1 DEF About
  <2>2. NewsOf(i)' <=> IF A # {} THEN TellsTruth(messages, i, Present)
                       ELSE synced => (i \in view' <=> i \in Present)
    BY <1>1, <1>2, <2>1 DEF NewsOf, TellsTruth, About
  <2>3. C = About(queue, Devices, i)
    BY DEF About, Heard
  <2>4. CASE A # {}
    BY <2>2, <2>4 DEF NewsOf
  <2>5. CASE A = {} /\ C = {}
    <3>1. i \in view' <=> i \in view
      BY <1>1, <2>3, <2>5, ReplayLast
    <3> QED
      BY <2>2, <2>5, <3>1 DEF NewsOf
  <2>6. CASE A = {} /\ C # {}
    <3>1. PICK n \in C : \A m \in C : m <= n
      BY <1>1, <2>6, LastAbout
    <3>2. i \in view' <=> queue[n].kind = "ARRIVED"
      BY <1>1, <2>3, <3>1, ReplayLast
    <3>3. queue[n].kind = "ARRIVED" <=> i \in Present
      BY <2>6, <3>1 DEF NewsOf, TellsTruth
    <3> QED
      BY <2>2, <2>6, <3>2, <3>3
  <2> QED
    BY <2>4, <2>5, <2>6
<1> QED
  BY <1>3, <1>4, <1>5

LEMMA NewsStep == RefInv /\ NewsInv /\ [Next]_vars => NewsInv'
<1> SUFFICES ASSUME RefInv, NewsInv, [Next]_vars PROVE NewsInv'
  OBVIOUS
<1>1. CASE \E d \in Devices : Attach(d) \/ Detach(d)
  BY <1>1, NewsBus
<1>2. CASE HandleMessage
  BY <1>2, NewsMessage
<1>3. CASE PollEvents
  BY <1>3, NewsPoll
<1>4. CASE ListDevices
  <2>1. UNCHANGED <<presence, messages, queue>> /\ view' = Present
    BY <1>4 DEF ListDevices, hostVars, Present
  <2>2. Heard' = Heard /\ Present' = Present /\ Attached' = Attached
    BY <2>1 DEF Heard, Present, Attached, Passes, IsAllowed
  <2>3. Distinct' /\ \A n \in 1..Len(queue') : queue'[n].dev \in Heard'
    BY <2>1, <2>2 DEF NewsInv, Distinct
  <2>4. ASSUME NEW i \in Infos PROVE NewsOf(i)'
    <3>1. /\ About(messages', Heard', i) = About(messages, Heard, i)
          /\ About(queue', Heard', i) = About(queue, Heard, i)
          /\ TellsTruth(messages, i, Present)' <=> TellsTruth(messages, i, Present)
          /\ TellsTruth(queue, i, Present)' <=> TellsTruth(queue, i, Present)
      BY <2>1, <2>2 DEF About, TellsTruth
    <3>2. i \in view' <=> i \in Present'
      BY <2>1, <2>2
    <3>3. NewsOf(i)
      BY DEF NewsInv
    <3> QED
      BY <3>1, <3>2, <3>3 DEF NewsOf
  <2> QED
    BY <2>3, <2>4 DEF NewsInv
<1>5. CASE \/ InitBackend \/ EnableHotplug \/ UNCHANGED vars
           \/ \E d \in Devices : Open(d) \/ Close(d) \/ DropHandle(d) \/ DropDevice(d)
  <2>1. UNCHANGED <<presence, messages, queue, view, synced>>
    BY <1>5 DEF InitBackend, EnableHotplug, Open, Close, DropHandle, DropDevice, vars,
                usbVars, hostVars, guestVars, toldVars
  <2>2. Heard' = Heard /\ Present' = Present /\ Attached' = Attached
    BY <2>1 DEF Heard, Present, Attached, Passes, IsAllowed
  <2>3. Distinct' /\ \A n \in 1..Len(queue') : queue'[n].dev \in Heard'
    BY <2>1, <2>2 DEF NewsInv, Distinct
  <2>4. ASSUME NEW i \in Infos PROVE NewsOf(i)'
    BY <2>1, <2>2 DEF NewsInv, NewsOf, TellsTruth, About
  <2> QED
    BY <2>3, <2>4 DEF NewsInv
<1> QED
  BY <1>1, <1>2, <1>3, <1>4, <1>5 DEF Next

\* Where the events about i are in a sequence that follows another one.
LEMMA AboutBoth ==
  ASSUME NEW s \in Seq(Events), NEW t \in Seq(Events), NEW told, NEW i
  PROVE  /\ \A n \in About(t, told, i) :
              Len(s) + n \in About(s \o t, told, i) /\ (s \o t)[Len(s) + n] = t[n]
         /\ \A n \in About(s, told, i) :
              n \in About(s \o t, told, i) /\ (s \o t)[n] = s[n] /\ n \in 1..Len(s)
         /\ \A m \in About(s \o t, told, i) :
              m \in About(s, told, i) \/ (m - Len(s) \in About(t, told, i) /\ m \in Int)
<1> DEFINE u == s \o t
           A == About(s, told, i)
           B == About(t, told, i)
           C == About(u, told, i)
<1>1. /\ Len(s) \in Nat /\ Len(t) \in Nat /\ Len(u) = Len(s) + Len(t)
      /\ \A n \in 1..Len(s) : u[n] = s[n]
      /\ \A n \in 1..Len(t) : u[Len(s) + n] = t[n]
  OBVIOUS
<1> HIDE DEF u
<1>2. \A n \in 1..Len(u) : n \in 1..Len(s) \/ n - Len(s) \in 1..Len(t)
  BY <1>1
<1>3. /\ \A n \in 1..Len(s) : n \in 1..Len(u)
      /\ \A n \in 1..Len(t) : Len(s) + n \in 1..Len(u)
  BY <1>1
<1>4. ASSUME NEW n \in B PROVE Len(s) + n \in C /\ u[Len(s) + n] = t[n]
  BY <1>1, <1>3 DEF About
<1>5. ASSUME NEW m \in C PROVE m \in A \/ (m - Len(s) \in B /\ m \in Int)
  <2>1. m \in 1..Len(u) /\ u[m].dev \in told /\ InfoOf[u[m].dev] = i /\ m \in Int
    BY <1>1 DEF About
  <2>2. CASE m \in 1..Len(s)
    BY <1>1, <2>1, <2>2 DEF About
  <2>3. CASE m - Len(s) \in 1..Len(t)
    <3>1. u[Len(s) + (m - Len(s))] = t[m - Len(s)] /\ Len(s) + (m - Len(s)) = m
      BY <1>1, <2>1, <2>3
    <3> QED
      BY <2>1, <2>3, <3>1 DEF About
  <2> QED
    BY <1>2, <2>1, <2>2, <2>3
<1>6. \A n \in A : n \in C /\ u[n] = s[n] /\ n \in 1..Len(s)
  BY <1>1, <1>3 DEF About
<1> QED
  BY <1>4, <1>5, <1>6 DEF u

\* The last of the events about i in a sequence after another one is the last of its own, if
\* it has one.
LEMMA LastOfSecond ==
  ASSUME NEW s \in Seq(Events), NEW t \in Seq(Events), NEW told, NEW i,
         NEW n \in About(t, told, i), \A m \in About(t, told, i) : m <= n
  PROVE  /\ Len(s) + n \in About(s \o t, told, i) /\ (s \o t)[Len(s) + n] = t[n]
         /\ \A m \in About(s \o t, told, i) : m <= Len(s) + n
<1> DEFINE u == s \o t
<1>1. /\ Len(s) + n \in About(u, told, i) /\ u[Len(s) + n] = t[n]
      /\ \A m \in About(u, told, i) :
           m \in About(s, told, i) \/ (m - Len(s) \in About(t, told, i) /\ m \in Int)
  BY AboutBoth
<1>2. /\ Len(s) \in Nat /\ n \in Nat /\ n >= 1
      /\ \A m \in About(s, told, i) : m \in Nat /\ m <= Len(s)
      /\ \A m \in About(t, told, i) : m <= n
  BY DEF About
<1>3. ASSUME NEW m \in About(u, told, i) PROVE m <= Len(s) + n
  <2>1. CASE m \in About(s, told, i)
    BY <1>2, <2>1
  <2>2. CASE m - Len(s) \in About(t, told, i) /\ m \in Int
    <3>1. m - Len(s) <= n
      BY <1>2, <2>2
    <3> QED
      BY <1>2, <2>2, <3>1
  <2> QED
    BY <1>1, <1>3, <2>1, <2>2
<1> QED
  BY <1>1, <1>3

\* ... and otherwise that of the one before it.
LEMMA NoneOfSecond ==
  ASSUME NEW s \in Seq(Events), NEW t \in Seq(Events), NEW told, NEW i,
         About(t, told, i) = {}
  PROVE  About(s \o t, told, i) = About(s, told, i)
<1> DEFINE u == s \o t
<1>1. /\ \A m \in About(u, told, i) : m \in About(s, told, i)
      /\ \A n \in About(s, told, i) : n \in About(u, told, i)
  BY AboutBoth
<1> HIDE DEF u
<1>2. About(u, told, i) = About(s, told, i)
  BY <1>1
<1> QED
  BY <1>2 DEF u

\* A guest that enabled hotplug and then listed the devices misses nothing, whatever attaches,
\* leaves and comes back at an address that was in use before: its view, with the events
\* still on their way, is what is attached.
THEOREM ViewRight == Spec => []ViewConverges
<1>1. RefInv /\ NewsInv => ViewConverges
  <2> SUFFICES ASSUME RefInv, NewsInv, synced
               PROVE  Replay(view, queue \o messages, Heard) = Present
    BY DEF ViewConverges, Heard, Present
  <2> DEFINE u == queue \o messages
  <2>1. messages \in Seq(Events) /\ queue \in Seq(Events) /\ u \in Seq(Events)
    BY DEF RefInv, TypeInv
  <2>2. ASSUME NEW i \in Infos PROVE i \in Replay(view, u, Heard) <=> i \in Present
    <3> DEFINE A == About(messages, Heard, i)
               C == About(queue, Heard, i)
    <3>1. NewsOf(i)
      BY DEF NewsInv
    <3>2. CASE A # {}
      <4>1. PICK n \in A : \A m \in A : m <= n
        BY <2>1, <3>2, LastAbout
      <4>2. messages[n].kind = "ARRIVED" <=> i \in Present
        BY <3>1, <3>2, <4>1 DEF NewsOf, TellsTruth
      <4>3. /\ Len(queue) + n \in About(u, Heard, i) /\ u[Len(queue) + n] = messages[n]
            /\ \A m \in About(u, Heard, i) : m <= Len(queue) + n
        BY <2>1, <4>1, LastOfSecond
      <4> HIDE DEF u
      <4> QED
        BY <2>1, <4>2, <4>3, ReplayLast
    <3>3. CASE A = {} /\ C # {}
      <4>1. PICK n \in C : \A m \in C : m <= n
        BY <2>1, <3>3, LastAbout
      <4>2. queue[n].kind = "ARRIVED" <=> i \in Present
        BY <3>1, <3>3, <4>1 DEF NewsOf, TellsTruth
      <4>3. About(u, Heard, i) = C /\ u[n] = queue[n]
        <5>1. queue \in Seq(Events) /\ messages \in Seq(Events)
          BY <2>1
        <5>2. About(messages, Heard, i) = {}
          BY <3>3
        <5>3. About(u, Heard, i) = About(queue, Heard, i)
          BY <5>1, <5>2, NoneOfSecond
        <5>4. u[n] = queue[n]
          BY <4>1, <5>1, AboutBoth
        <5> QED
          BY <4>1, <5>3, <5>4
      <4> HIDE DEF u
      <4> QED
        BY <2>1, <4>1, <4>2, <4>3, ReplayLast
    <3>4. CASE A = {} /\ C = {}
      <4>1. About(u, Heard, i) = {}
        BY <2>1, <3>4, NoneOfSecond
      <4> HIDE DEF u
      <4> QED
        BY <2>1, <3>1, <3>4, <4>1, ReplayLast DEF NewsOf
    <3> QED
      BY <3>2, <3>3, <3>4
  <2>3. Replay(view, u, Heard) \subseteq Infos
    BY DEF Replay
  <2>4. Present \subseteq Infos
    BY InfoAssumption DEF Present, Attached
  <2> QED
    BY <2>2, <2>3, <2>4
<1>2. Spec => []NewsInv
  BY NewsInit, NewsStep, RefAlways, PTL DEF Spec
<1> QED
  BY <1>1, <1>2, RefAlways, PTL
=============================================================================
