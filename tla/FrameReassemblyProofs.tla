----------------------- MODULE FrameReassemblyProofs -----------------------
(***************************************************************************)
(* Proofs about FrameReassembly, for frames and transfers of any length,   *)
(* any ways of ending a frame and any losses.                              *)
(***************************************************************************)
EXTENDS FrameReassembly, TLAPS

(***************************************************************************)
(* Typed is the type invariant, with the products of constants left alone. *)
(***************************************************************************)
LEMMA SentType ==
  /\ Frames * PerFrame \in Nat
  /\ \A p \in Sent : p \in Nat /\ p < Frames * PerFrame /\ Fid(p) \in 0..1
<1>1. Frames * PerFrame \in Nat /\ PerFrame \in Nat \ {0}
  BY SizesAssumption
<1>2. ASSUME NEW p \in Sent PROVE p \in Nat /\ p < Frames * PerFrame
  BY <1>1 DEF Sent
<1>3. ASSUME NEW p \in Nat PROVE Fid(p) \in 0..1
  <2>1. p \div PerFrame \in Int
    BY <1>1
  <2> QED
    BY <2>1 DEF Fid, FrameOf
<1> QED
  BY <1>1, <1>2, <1>3

LEMMA TypeInit == Init => TypeInv
<1> SUFFICES ASSUME Init PROVE TypeInv
  OBVIOUS
<1> USE DEF Init
<1>1. next \in 0..(Frames * PerFrame) /\ before \in -1..(Frames * PerFrame - 1)
  BY SentType
<1>2. attempts \in 0..MaxAttempts /\ lastFid \in 0..1
  BY SizesAssumption
<1>3. frameBuffer \in Seq(Sent) /\ frame \in Seq(Sent)
  OBVIOUS
<1>4. style \in Styles /\ capturing \in BOOLEAN /\ frameStarted \in BOOLEAN /\ batch \subseteq Sent
  OBVIOUS
<1> QED
  BY <1>1, <1>2, <1>3, <1>4 DEF TypeInv

LEMMA TypeCall ==
  ASSUME TypeInv, Capture \/ Passes \/ CaptureFails
  PROVE  TypeInv'
<1> USE DEF TypeInv, camera, state, call, returned
<1>1. CASE Capture
  BY <1>1, SizesAssumption DEF Capture
<1>2. CASE Passes
  BY <1>2, SentType DEF Passes, Sent
<1>3. CASE CaptureFails
  BY <1>3 DEF CaptureFails
<1> QED
  BY <1>1, <1>2, <1>3

LEMMA TypeTransfer ==
  ASSUME TypeInv, NEW n \in 1..PerTransfer, NEW lost, Transfer(n, lost)
  PROVE  TypeInv'
<1> USE DEF TypeInv, Transfer
<1>1. n \in Nat /\ n > 0 /\ next \in Nat
  BY SizesAssumption
<1>2. batch' \subseteq Sent /\ next' \in 0..(Frames * PerFrame)
  BY <1>1, SentType DEF Sent
<1>3. attempts' \in 0..MaxAttempts
  BY SizesAssumption
<1> QED
  BY <1>2, <1>3 DEF state, returned

\* What Finish does to the types.
LEMMA TypeFinish ==
  ASSUME TypeInv, NEW p \in batch, NEW data \in Seq(Sent), Finish(p, data)
  PROVE  /\ capturing' \in BOOLEAN /\ batch' \subseteq Sent
         /\ frame' \in Seq(Sent) /\ before' \in -1..(Frames * PerFrame - 1)
<1> USE DEF TypeInv, Finish
<1>1. CASE IsCompleteJpeg(data)
  <2>1. frame' = data /\ batch' = {} /\ capturing' = FALSE
    BY <1>1
  <2>2. before' \in -1..(Frames * PerFrame - 1)
    <3>1. CASE frame = <<>>
      BY <1>1, <3>1
    <3>2. CASE frame # <<>>
      <4>1. frame[Len(frame)] \in Sent
        BY <3>2
      <4>2. before' = frame[Len(frame)]
        BY <1>1, <3>2
      <4> QED
        BY <4>1, <4>2, SentType
    <3> QED
      BY <3>1, <3>2
  <2> QED
    BY <2>1, <2>2
<1>2. CASE ~IsCompleteJpeg(data)
  BY <1>2 DEF returned
<1> QED
  BY <1>1, <1>2

LEMMA TypePacket ==
  ASSUME TypeInv, Packet
  PROVE  TypeInv'
<1>1. PICK p \in batch : /\ \A q \in batch : p <= q
                         /\ PacketToggles(p) \/ PacketEnds(p) \/ PacketContinues(p)
  BY DEF Packet
<1>2. p \in Sent /\ UNCHANGED <<style, next, attempts>>
  BY DEF TypeInv, Packet, camera
<1>3. frameBuffer \in Seq(Sent) /\ <<>> \in Seq(Sent)
  BY DEF TypeInv
<1>4. Added(frameBuffer, p) \in Seq(Sent) /\ Added(<<>>, p) \in Seq(Sent)
  BY <1>2, <1>3 DEF Added
<1>5. CASE PacketToggles(p)
  <2>1. /\ capturing' \in BOOLEAN /\ batch' \subseteq Sent
        /\ frame' \in Seq(Sent) /\ before' \in -1..(Frames * PerFrame - 1)
    BY <1>3, <1>5, TypeFinish DEF PacketToggles
  <2>2. frameBuffer' \in Seq(Sent) /\ frameStarted' \in BOOLEAN /\ lastFid' \in 0..1
    BY <1>2, <1>4, <1>5, SentType DEF PacketToggles
  <2> QED
    BY <1>2, <2>1, <2>2 DEF TypeInv
<1>6. CASE PacketEnds(p)
  <2>1. /\ capturing' \in BOOLEAN /\ batch' \subseteq Sent
        /\ frame' \in Seq(Sent) /\ before' \in -1..(Frames * PerFrame - 1)
    BY <1>4, <1>6, TypeFinish DEF PacketEnds
  <2>2. frameBuffer' \in Seq(Sent) /\ frameStarted' \in BOOLEAN /\ lastFid' \in 0..1
    BY <1>2, <1>3, <1>6, SentType DEF PacketEnds, Continues
  <2> QED
    BY <1>2, <2>1, <2>2 DEF TypeInv
<1>7. CASE PacketContinues(p)
  <2>1. capturing' \in BOOLEAN /\ batch' \subseteq Sent
    BY <1>7 DEF PacketContinues, TypeInv
  <2>2. frame' \in Seq(Sent) /\ before' \in -1..(Frames * PerFrame - 1)
    BY <1>7 DEF PacketContinues, TypeInv, returned
  <2>3. frameBuffer' \in Seq(Sent) /\ lastFid' \in 0..1
    BY <1>2, <1>4, <1>7, SentType DEF PacketContinues, Continues
  <2>4. frameStarted' \in BOOLEAN
    BY <1>7 DEF PacketContinues
  <2> QED
    BY <1>2, <2>1, <2>2, <2>3, <2>4 DEF TypeInv
<1> QED
  BY <1>1, <1>5, <1>6, <1>7

LEMMA TypeStep == TypeInv /\ [Next]_vars => TypeInv'
<1> SUFFICES ASSUME TypeInv, [Next]_vars PROVE TypeInv'
  OBVIOUS
<1>1. CASE UNCHANGED vars
  BY <1>1 DEF TypeInv, vars, camera, state, call, returned
<1>2. CASE Capture \/ Passes \/ CaptureFails
  BY <1>2, TypeCall
<1>3. CASE \E n \in 1..PerTransfer : \E lost \in SUBSET (next..(next + n - 1)) : Transfer(n, lost)
  BY <1>3, TypeTransfer
<1>4. CASE Packet
  BY <1>4, TypePacket
<1> QED
  BY <1>1, <1>2, <1>3, <1>4 DEF Next

\* The reassembly state, the packets and the frames keep their types, and no call
\* of capture_uvc_frame tries more transfers than its loop allows.
THEOREM TypeCorrect == Spec => []TypeInv
  BY TypeInit, TypeStep, PTL DEF Spec

-----------------------------------------------------------------------------
(***************************************************************************)
(* FramesInOrder is not inductive: a frame is in order because the buffer  *)
(* is, because what is in the buffer was sent after the last frame and     *)
(* before what is left of the transfer, and because all of it was sent.    *)
(***************************************************************************)
Below(data, x) == \A i \in DOMAIN data : data[i] < x

After(data, x) == \A i \in DOMAIN data : x < data[i]

Order ==
  /\ Ascending(frameBuffer)
  /\ \A i \in DOMAIN frame : After(frameBuffer, frame[i])
  /\ FramesInOrder
  /\ frame = <<>> => before = -1
  /\ \A p \in batch : Below(frameBuffer, p) /\ Below(frame, p) /\ p < next
  /\ Below(frameBuffer, next) /\ Below(frame, next)

\* A packet that comes after all of data keeps it in order, and is all that is new in it.
LEMMA AddedInOrder ==
  ASSUME NEW data \in Seq(Sent), NEW p \in Sent, Ascending(data), Below(data, p)
  PROVE  /\ Ascending(Added(data, p))
         /\ \A x \in Int : Below(data, x) /\ p < x => Below(Added(data, p), x)
         /\ \A x \in Int : After(data, x) /\ x < p => After(Added(data, p), x)
<1>1. CASE ~HasPayload(p)
  BY <1>1 DEF Added
<1>2. CASE HasPayload(p)
  <2>1. Added(data, p) = Append(data, p)
    BY <1>2 DEF Added
  <2>2. \A i \in DOMAIN data : data[i] \in Nat
    BY SentType
  <2>3. Len(data) \in Nat /\ DOMAIN data = 1..Len(data) /\ p \in Nat
    BY SentType
  <2>4. /\ DOMAIN Append(data, p) = 1..(Len(data) + 1)
        /\ \A i \in 1..Len(data) : Append(data, p)[i] = data[i]
        /\ Append(data, p)[Len(data) + 1] = p
    BY <2>3
  <2>5. Ascending(Append(data, p))
    BY <2>2, <2>3, <2>4 DEF Ascending, Below
  <2>6. \A x \in Int : Below(data, x) /\ p < x => Below(Append(data, p), x)
    BY <2>3, <2>4 DEF Below
  <2>7. \A x \in Int : After(data, x) /\ x < p => After(Append(data, p), x)
    BY <2>3, <2>4 DEF After
  <2> QED
    BY <2>1, <2>5, <2>6, <2>7
<1> QED
  BY <1>1, <1>2

\* Data that is in order and was sent after the last frame may be the next frame.
LEMMA FinishInOrder ==
  ASSUME TypeInv, Order, NEW p \in batch, NEW data \in Seq(Sent), Finish(p, data),
         Ascending(data), \A i \in DOMAIN frame : After(data, frame[i])
  PROVE  /\ FramesInOrder' /\ (frame' = <<>> => before' = -1)
         /\ (frame' = frame /\ batch' = batch \ {p}) \/ (frame' = data /\ batch' = {})
<1>1. CASE ~IsCompleteJpeg(data)
  <2>1. frame' = frame /\ before' = before /\ batch' = batch \ {p}
    BY <1>1 DEF Finish, returned
  <2> QED
    BY <2>1 DEF Order, FramesInOrder, Ascending
<1>2. CASE IsCompleteJpeg(data)
  <2>1. /\ frame' = data /\ batch' = {} /\ data # <<>>
        /\ before' = IF frame = <<>> THEN before ELSE frame[Len(frame)]
    BY <1>2 DEF Finish, IsCompleteJpeg
  <2>2. \A i \in DOMAIN data : before' < data[i]
    <3>1. CASE frame = <<>>
      <4>1. before' = -1
        BY <2>1, <3>1 DEF Order
      <4>2. \A i \in DOMAIN data : data[i] \in Nat
        BY SentType
      <4> QED
        BY <4>1, <4>2
    <3>2. CASE frame # <<>>
      <4>1. Len(frame) \in DOMAIN frame
        BY <3>2 DEF TypeInv
      <4>2. before' = frame[Len(frame)]
        BY <2>1, <3>2
      <4> QED
        BY <4>1, <4>2 DEF After
    <3> QED
      BY <3>1, <3>2
  <2> QED
    BY <2>1, <2>2 DEF FramesInOrder, Ascending
<1> QED
  BY <1>1, <1>2

LEMMA OrderPacket ==
  ASSUME TypeInv, Order, Packet
  PROVE  Order'
<1>1. PICK p \in batch : /\ \A q \in batch : p <= q
                         /\ PacketToggles(p) \/ PacketEnds(p) \/ PacketContinues(p)
  BY DEF Packet
<1>2. /\ p \in Sent /\ p \in Nat /\ next \in Nat /\ next' = next
      /\ \A q \in batch : q \in Nat
      /\ \A i \in DOMAIN frame : frame[i] \in Nat
      /\ \A i \in DOMAIN frameBuffer : frameBuffer[i] \in Nat
      /\ frameBuffer \in Seq(Sent) /\ frame \in Seq(Sent) /\ <<>> \in Seq(Sent)
  BY SentType DEF TypeInv, Packet, camera
<1>3. /\ Ascending(frameBuffer) /\ Below(frameBuffer, p) /\ Below(frame, p) /\ p < next
      /\ Below(frameBuffer, next) /\ Below(frame, next) /\ FramesInOrder
      /\ \A i \in DOMAIN frame : After(frameBuffer, frame[i]) /\ frame[i] < p
      /\ \A q \in batch \ {p} : p < q /\ Below(frameBuffer, q) /\ Below(frame, q) /\ q < next
  BY <1>1, <1>2 DEF Order, Below
\* What p makes of the buffer, and of an empty one.
<1> DEFINE full == Added(frameBuffer, p)
           fresh == Added(<<>>, p)
<1>4. full \in Seq(Sent) /\ fresh \in Seq(Sent)
  BY <1>2 DEF Added
<1>5. /\ Ascending(full) /\ Below(full, next)
      /\ \A i \in DOMAIN frame : After(full, frame[i])
      /\ \A q \in batch \ {p} : Below(full, q)
  BY <1>2, <1>3, AddedInOrder
<1>6. /\ Ascending(<<>>) /\ Below(<<>>, p)
      /\ \A x \in Int : Below(<<>>, x) /\ After(<<>>, x)
  BY DEF Ascending, Below, After
<1>7. /\ Ascending(fresh) /\ Below(fresh, next)
      /\ \A i \in DOMAIN frame : After(fresh, frame[i])
      /\ \A i \in DOMAIN frameBuffer : After(fresh, frameBuffer[i])
      /\ \A q \in batch \ {p} : Below(fresh, q)
  <2>1. \A x \in Int : x < p => After(fresh, x)
    BY <1>2, <1>6, AddedInOrder
  <2>2. \A x \in Int : p < x => Below(fresh, x)
    BY <1>2, <1>6, AddedInOrder
  <2>3. \A i \in DOMAIN frameBuffer : frameBuffer[i] \in Int /\ frameBuffer[i] < p
    BY <1>2, <1>3 DEF Below
  <2>4. Ascending(fresh)
    BY <1>2, <1>6, AddedInOrder
  <2> QED
    BY <1>2, <1>3, <2>1, <2>2, <2>3, <2>4
<1> HIDE DEF full, fresh
<1>8. CASE PacketToggles(p)
  <2>1. frameBuffer' = fresh /\ Finish(p, frameBuffer)
    BY <1>8 DEF PacketToggles, fresh
  <2>2. /\ FramesInOrder' /\ (frame' = <<>> => before' = -1)
        /\ \/ frame' = frame /\ batch' = batch \ {p}
           \/ frame' = frameBuffer /\ batch' = {}
    BY <1>2, <1>3, <2>1, FinishInOrder
  <2> QED
    BY <1>2, <1>3, <1>7, <2>1, <2>2 DEF Order, Ascending, Below, After
<1>9. CASE PacketEnds(p)
  <2>1. frameBuffer' = <<>> /\ Finish(p, full)
    BY <1>9 DEF PacketEnds, full
  <2>2. /\ FramesInOrder' /\ (frame' = <<>> => before' = -1)
        /\ \/ frame' = frame /\ batch' = batch \ {p}
           \/ frame' = full /\ batch' = {}
    BY <1>4, <1>5, <2>1, FinishInOrder
  <2>3. Below(frame', next') /\ \A q \in batch' : Below(frame', q) /\ q < next'
    BY <1>2, <1>3, <1>5, <2>2
  <2>4. Ascending(frameBuffer') /\ \A x : Below(frameBuffer', x) /\ After(frameBuffer', x)
    BY <2>1 DEF Ascending, Below, After
  <2> QED
    BY <2>2, <2>3, <2>4 DEF Order
<1>10. CASE PacketContinues(p)
  <2>1. frameBuffer' = full /\ batch' = batch \ {p} /\ frame' = frame /\ before' = before
    BY <1>10 DEF PacketContinues, full, returned
  <2> QED
    BY <1>2, <1>3, <1>5, <2>1 DEF Order, FramesInOrder, Ascending, Below, After
<1> QED
  BY <1>1, <1>8, <1>9, <1>10

\* What a transfer brings, or what passes by, was sent after all there was.
LEMMA OrderSent ==
  ASSUME TypeInv, Order, NEW n \in Nat, next' = next + n,
         UNCHANGED <<frameBuffer, returned>>,
         batch' \in SUBSET (next..(next + n - 1)) \/ batch' = batch
  PROVE  Order'
<1>1. frameBuffer' = frameBuffer /\ frame' = frame /\ before' = before
  BY DEF returned
<1>2. next \in Nat /\ next' \in Nat /\ next <= next'
  BY SentType DEF TypeInv
<1>3. /\ \A i \in DOMAIN frame : frame[i] \in Nat
      /\ \A i \in DOMAIN frameBuffer : frameBuffer[i] \in Nat
      /\ \A q \in batch : q \in Nat
  BY SentType DEF TypeInv
<1>4. Below(frame, next') /\ Below(frameBuffer, next')
  BY <1>2, <1>3 DEF Order, Below
<1>5. \A q \in batch' : Below(frameBuffer, q) /\ Below(frame, q) /\ q < next'
  <2>1. CASE batch' = batch
    BY <1>2, <1>3, <2>1 DEF Order
  <2>2. CASE batch' \in SUBSET (next..(next + n - 1))
    <3>1. \A q \in batch' : q \in Nat /\ next <= q /\ q < next'
      BY <1>2, <2>2
    <3> QED
      BY <1>2, <1>3, <3>1 DEF Order, Below
  <2> QED
    BY <2>1, <2>2
<1> QED
  BY <1>1, <1>4, <1>5 DEF Order, FramesInOrder, Ascending, Below, After

LEMMA OrderStep == TypeInv /\ Order /\ [Next]_vars => Order'
<1> SUFFICES ASSUME TypeInv, Order, [Next]_vars PROVE Order'
  OBVIOUS
<1>1. CASE UNCHANGED vars \/ Capture \/ CaptureFails
  <2>1. UNCHANGED <<frameBuffer, batch, next, frame, before>>
    BY <1>1 DEF vars, camera, state, call, returned, Capture, CaptureFails
  <2> QED
    BY <2>1 DEF Order, FramesInOrder, Ascending, Below, After
<1>2. CASE Passes
  BY <1>2, OrderSent DEF Passes, state, call
<1>3. CASE \E n \in 1..PerTransfer : \E lost \in SUBSET (next..(next + n - 1)) : Transfer(n, lost)
  <2>1. PICK n \in 1..PerTransfer : \E lost \in SUBSET (next..(next + n - 1)) : Transfer(n, lost)
    BY <1>3
  <2>2. n \in Nat
    BY SizesAssumption
  <2>3. /\ next' = next + n /\ UNCHANGED <<frameBuffer, returned>>
        /\ batch' \in SUBSET (next..(next + n - 1))
    BY <2>1 DEF Transfer, state
  <2> QED
    BY <2>2, <2>3, OrderSent
<1>4. CASE Packet
  BY <1>4, OrderPacket
<1> QED
  BY <1>1, <1>2, <1>3, <1>4 DEF Next

LEMMA OrderInit == Init => Order
  BY SizesAssumption DEF Init, Order, FramesInOrder, Ascending, Below, After

\* Whatever is lost, fails or is left over from an earlier call, a frame is returned
\* in the order the camera sent it, and no packet is in two frames.
THEOREM FramesOrdered == Spec => []FramesInOrder
<1>1. Order => FramesInOrder
  BY DEF Order
<1> QED
  BY <1>1, TypeInit, TypeStep, OrderInit, OrderStep, PTL DEF Spec

-----------------------------------------------------------------------------
(***************************************************************************)
(* GapFreeIsWhole rests on the frame id: what is in the buffer has the id  *)
(* that lastFid remembers, so that a returned frame has one id.  Two       *)
(* frames of the camera that were sent one after the other do not; a       *)
(* returned frame that spans more than one has lost the first packet of    *)
(* the second.                                                             *)
(***************************************************************************)
OneId ==
  /\ \A i \in DOMAIN frameBuffer : Fid(frameBuffer[i]) = lastFid
  /\ frame # <<>> => IsCompleteJpeg(frame)
  /\ \A i, j \in DOMAIN frame : Fid(frame[i]) = Fid(frame[j])

LEMMA Division ==
  ASSUME NEW m \in Nat \ {0}, NEW p \in Nat
  PROVE  /\ p \div m \in Nat /\ p % m \in Nat /\ p % m < m
         /\ p = m * (p \div m) + (p % m)
  OBVIOUS

LEMMA Quotient ==
  ASSUME NEW m \in Nat \ {0}, NEW k \in Nat, NEW r \in Nat, r < m
  PROVE  (m * k + r) \div m = k /\ (m * k + r) % m = r
<1> DEFINE q == (m * k + r) \div m
           s == (m * k + r) % m
<1>1. m * k + r \in Nat
  OBVIOUS
<1>2. q \in Nat /\ s \in Nat /\ s < m /\ m * k + r = m * q + s
  BY <1>1, Division
<1> HIDE DEF q, s
<1>3. q = k
  <2>1. CASE q >= k + 1
    <3>1. m * q >= m * (k + 1)
      BY <1>2, <2>1
    <3>2. m * (k + 1) = m * k + m
      OBVIOUS
    <3> QED
      BY <1>2, <3>1, <3>2
  <2>2. CASE k >= q + 1
    <3>1. m * k >= m * (q + 1)
      BY <1>2, <2>2
    <3>2. m * (q + 1) = m * q + m
      BY <1>2
    <3> QED
      BY <1>2, <3>1, <3>2
  <2> QED
    BY <1>2, <2>1, <2>2
<1> QED
  BY <1>2, <1>3 DEF q, s

\* A packet in terms of its frame and its place in it.
LEMMA PlaceOf ==
  ASSUME NEW p \in Nat
  PROVE  /\ FrameOf(p) \in Nat /\ p % PerFrame \in 0..(PerFrame - 1)
         /\ p = PerFrame * FrameOf(p) + (p % PerFrame)
  BY SizesAssumption, Division DEF FrameOf

\* The frame after a later one begins later: frames do not overlap.
LEMMA FramesApart ==
  ASSUME NEW p \in Nat, NEW k \in Nat
  PROVE  /\ FrameOf(p) > k => p >= PerFrame * k + PerFrame
         /\ FrameOf(p) < k => p < PerFrame * k
         /\ FrameOf(p) = k => p >= PerFrame * k /\ p < PerFrame * k + PerFrame
<1> DEFINE f == FrameOf(p)
<1>1. /\ f \in Nat /\ p % PerFrame \in Nat /\ p % PerFrame < PerFrame /\ PerFrame \in Nat
      /\ p = PerFrame * f + (p % PerFrame)
  BY PlaceOf, SizesAssumption
<1> HIDE DEF f
<1>2. ASSUME f > k PROVE p >= PerFrame * k + PerFrame
  <2>1. f >= k + 1
    BY <1>1, <1>2
  <2>2. PerFrame * f >= PerFrame * (k + 1)
    BY <1>1, <2>1
  <2>3. PerFrame * (k + 1) = PerFrame * k + PerFrame
    BY <1>1
  <2> QED
    BY <1>1, <2>2, <2>3
<1>3. ASSUME f < k PROVE p < PerFrame * k
  <2>1. k >= f + 1
    BY <1>1, <1>3
  <2>2. PerFrame * k >= PerFrame * (f + 1)
    BY <1>1, <2>1
  <2>3. PerFrame * (f + 1) = PerFrame * f + PerFrame
    BY <1>1
  <2> QED
    BY <1>1, <2>2, <2>3
<1>4. ASSUME f = k PROVE p >= PerFrame * k /\ p < PerFrame * k + PerFrame
  BY <1>1, <1>4
<1> QED
  BY <1>2, <1>3, <1>4 DEF f

\* A first packet is sent with a payload; the one PerFrame later is the first of the next
\* frame, which has another id.
LEMMA NextFrame ==
  ASSUME NEW p \in Nat, IsFirst(p)
  PROVE  /\ p + PerFrame \in Nat /\ p = PerFrame * FrameOf(p)
         /\ HasPayload(p + PerFrame) /\ Fid(p + PerFrame) # Fid(p)
<1> DEFINE k == FrameOf(p)
<1>1. /\ k \in Nat /\ PerFrame \in Nat \ {0, 1} /\ p = PerFrame * k
  <2>1. k \in Nat /\ p = PerFrame * k + (p % PerFrame)
    BY PlaceOf
  <2>2. p % PerFrame = 0 /\ PerFrame \in Nat \ {0, 1}
    BY SizesAssumption DEF IsFirst
  <2> HIDE DEF k
  <2> QED
    BY <2>1, <2>2
<1> HIDE DEF k
<1>2. p + PerFrame = PerFrame * (k + 1) + 0
  BY <1>1
<1>3. (PerFrame * (k + 1) + 0) \div PerFrame = k + 1 /\ (PerFrame * (k + 1) + 0) % PerFrame = 0
  BY <1>1, Quotient
<1>4. FrameOf(p + PerFrame) = k + 1 /\ ~EndsFrame(p + PerFrame)
  BY <1>1, <1>2, <1>3 DEF FrameOf, EndsFrame
<1>5. k % 2 # (k + 1) % 2
  BY <1>1
<1> QED
  BY <1>1, <1>4, <1>5 DEF k, HasPayload, Fid

\* Nothing with a payload comes after the last packet of a frame.
LEMMA NoneAfterLast ==
  ASSUME NEW p \in Nat, NEW last \in Nat, IsLast(last), HasPayload(p),
         FrameOf(p) = FrameOf(last)
  PROVE  p <= last
<1> DEFINE base == PerFrame * FrameOf(last)
<1>1. /\ base \in Nat /\ PerFrame \in Nat \ {0, 1}
      /\ p % PerFrame \in 0..(PerFrame - 1)
      /\ p = base + (p % PerFrame) /\ last = base + (last % PerFrame)
  <2>1. /\ FrameOf(p) \in Nat /\ p % PerFrame \in 0..(PerFrame - 1)
        /\ p = PerFrame * FrameOf(p) + (p % PerFrame)
    BY PlaceOf
  <2>2. last = PerFrame * FrameOf(last) + (last % PerFrame)
    BY PlaceOf
  <2>3. PerFrame \in Nat \ {0, 1}
    BY SizesAssumption
  <2>4. base \in Nat
    BY <2>1, <2>3
  <2> HIDE DEF base
  <2> QED
    BY <2>1, <2>2, <2>3, <2>4 DEF base
<1> HIDE DEF base
<1>2. CASE style = "trailer"
  <2>1. p % PerFrame # PerFrame - 1 /\ last % PerFrame = PerFrame - 2
    BY <1>2 DEF HasPayload, EndsFrame, IsLast
  <2> QED
    BY <1>1, <2>1
<1>3. CASE style # "trailer"
  <2>1. last % PerFrame = PerFrame - 1
    BY <1>3 DEF IsLast
  <2> QED
    BY <1>1, <2>1
<1> QED
  BY <1>2, <1>3

\* The ends of a frame that was returned, of which nothing between them is missing, are
\* those of one frame of the camera.
LEMMA WholeFrame ==
  ASSUME TypeInv, FramesInOrder, OneId, frame # <<>>,
         Between(frame) = {frame[i] : i \in DOMAIN frame}
  PROVE  \A p \in Sent : FrameOf(p) = FrameOf(frame[1]) /\ HasPayload(p) <=> p \in Between(frame)
<1> DEFINE a == frame[1]
           z == frame[Len(frame)]
           k == FrameOf(a)
<1>1. /\ 1 \in DOMAIN frame /\ Len(frame) \in DOMAIN frame
      /\ 1 <= Len(frame) /\ \A i \in DOMAIN frame : frame[i] \in Nat
  BY SentType DEF TypeInv
<1>2. a \in Nat /\ z \in Nat /\ a <= z
  BY <1>1 DEF FramesInOrder, Ascending
<1>3. IsFirst(a) /\ IsLast(z) /\ \A i \in DOMAIN frame : Fid(frame[i]) = Fid(a)
  BY <1>1 DEF OneId, IsCompleteJpeg
<1>4. k \in Nat /\ a = PerFrame * k /\ PerFrame \in Nat
  BY <1>2, <1>3, NextFrame, PlaceOf, SizesAssumption
<1>5. FrameOf(z) = k
  <2>1. FrameOf(z) \in Nat
    BY <1>2, PlaceOf
  <2>2. CASE FrameOf(z) < k
    BY <1>2, <1>4, <2>2, FramesApart
  <2>3. CASE FrameOf(z) > k
    <3>1. z >= a + PerFrame
      BY <1>2, <1>4, <2>3, FramesApart
    <3>2. /\ a + PerFrame \in Nat /\ HasPayload(a + PerFrame) /\ Fid(a + PerFrame) # Fid(a)
      BY <1>2, <1>3, NextFrame
    <3>3. a + PerFrame \in Between(frame)
      BY <1>2, <1>4, <3>1, <3>2 DEF Between
    <3> QED
      BY <1>3, <3>2, <3>3
  <2> QED
    BY <1>4, <2>1, <2>2, <2>3
<1> HIDE DEF a, z, k
<1>6. Between(frame) = {p \in a..z : HasPayload(p)}
  BY DEF Between, a, z
<1>7. ASSUME NEW p \in Sent, FrameOf(p) = k, HasPayload(p) PROVE p \in a..z
  <2>1. p \in Nat /\ p >= a
    BY <1>4, <1>7, FramesApart, SentType
  <2>2. p <= z
    BY <1>2, <1>3, <1>5, <1>7, <2>1, NoneAfterLast
  <2> QED
    BY <1>2, <2>1, <2>2
<1>8. ASSUME NEW p \in a..z PROVE FrameOf(p) = k
  <2>1. p \in Nat /\ a <= p /\ p <= z /\ FrameOf(p) \in Nat
    BY <1>2, PlaceOf
  <2>2. z < a + PerFrame
    BY <1>2, <1>4, <1>5, FramesApart
  <2>3. ~(FrameOf(p) > k)
    <3>1. FrameOf(p) > k => p >= a + PerFrame
      BY <1>4, <2>1, FramesApart
    <3> QED
      BY <1>2, <1>4, <2>1, <2>2, <3>1
  <2>4. ~(FrameOf(p) < k)
    <3>1. FrameOf(p) < k => p < a
      BY <1>4, <2>1, FramesApart
    <3> QED
      BY <1>2, <2>1, <3>1
  <2> QED
    BY <1>4, <2>1, <2>3, <2>4
<1> QED
  BY <1>6, <1>7, <1>8 DEF a, k

LEMMA OneIdPacket ==
  ASSUME TypeInv, OneId, Packet
  PROVE  OneId'
<1>1. PICK p \in batch : PacketToggles(p) \/ PacketEnds(p) \/ PacketContinues(p)
  BY DEF Packet
<1>2. UNCHANGED style /\ p \in Sent /\ frameBuffer \in Seq(Sent) /\ <<>> \in Seq(Sent)
  BY DEF Packet, camera, TypeInv
<1> DEFINE Same(data, f) == \A i \in DOMAIN data : Fid(data[i]) = f
<1>3. ASSUME NEW data \in Seq(Sent), Same(data, Fid(p))
      PROVE  Same(Added(data, p), Fid(p))
  <2>1. /\ DOMAIN Append(data, p) = 1..(Len(data) + 1) /\ DOMAIN data = 1..Len(data)
        /\ \A i \in 1..Len(data) : Append(data, p)[i] = data[i]
        /\ Append(data, p)[Len(data) + 1] = p /\ Len(data) \in Nat
    BY <1>2
  <2>2. \A i \in 1..(Len(data) + 1) : i \in 1..Len(data) \/ i = Len(data) + 1
    BY <2>1
  <2>3. Same(Append(data, p), Fid(p))
    BY <1>3, <2>1, <2>2
  <2> QED
    BY <1>3, <2>3 DEF Added
<1>4. ASSUME NEW data, NEW f, Same(data, f), Finish(p, data)
      PROVE  (frame' # <<>> => IsCompleteJpeg(frame')) /\ \A i, j \in DOMAIN frame' : Fid(frame'[i]) = Fid(frame'[j])
  <2>1. CASE IsCompleteJpeg(data)
    BY <1>4, <2>1 DEF Finish
  <2>2. CASE ~IsCompleteJpeg(data)
    BY <1>4, <2>2 DEF Finish, returned, OneId
  <2> QED
    BY <2>1, <2>2
<1>5. Same(frameBuffer, lastFid)
  BY DEF OneId
<1>6. ASSUME ~Toggled(p) PROVE Same(Added(frameBuffer, p), Fid(p))
  BY <1>2, <1>3, <1>5, <1>6 DEF Toggled
<1>7. IsCompleteJpeg(frame)' <=> IsCompleteJpeg(frame')
  BY <1>2 DEF IsCompleteJpeg, IsLast
<1>8. CASE PacketToggles(p)
  <2>1. Same(frameBuffer', lastFid')
    <3>1. Same(<<>>, Fid(p))
      OBVIOUS
    <3>2. Same(Added(<<>>, p), Fid(p))
      BY <1>2, <1>3, <3>1
    <3> QED
      BY <1>8, <3>2 DEF PacketToggles
  <2>2. (frame' # <<>> => IsCompleteJpeg(frame')) /\ \A i, j \in DOMAIN frame' : Fid(frame'[i]) = Fid(frame'[j])
    BY <1>4, <1>5, <1>8 DEF PacketToggles
  <2> QED
    BY <1>7, <2>1, <2>2 DEF OneId, Fid, FrameOf
<1>9. CASE PacketEnds(p)
  <2>1. Same(frameBuffer', lastFid')
    BY <1>9 DEF PacketEnds
  <2>2. (frame' # <<>> => IsCompleteJpeg(frame')) /\ \A i, j \in DOMAIN frame' : Fid(frame'[i]) = Fid(frame'[j])
    BY <1>4, <1>6, <1>9 DEF PacketEnds, Continues
  <2> QED
    BY <1>7, <2>1, <2>2 DEF OneId, Fid, FrameOf
<1>10. CASE PacketContinues(p)
  <2>1. Same(frameBuffer', lastFid')
    BY <1>6, <1>10 DEF PacketContinues, Continues
  <2>2. frame' = frame
    BY <1>10 DEF PacketContinues, returned
  <2> QED
    BY <1>7, <2>1, <2>2 DEF OneId, Fid, FrameOf
<1> QED
  BY <1>1, <1>8, <1>9, <1>10

LEMMA OneIdStep == TypeInv /\ OneId /\ [Next]_vars => OneId'
<1> SUFFICES ASSUME TypeInv, OneId, [Next]_vars PROVE OneId'
  OBVIOUS
<1>1. ASSUME UNCHANGED <<style, frameBuffer, lastFid, frame>> PROVE OneId'
  BY <1>1 DEF OneId, IsCompleteJpeg, IsLast, IsFirst, Fid, FrameOf
<1>2. CASE UNCHANGED vars \/ Capture \/ CaptureFails \/ Passes
  BY <1>1, <1>2 DEF vars, camera, state, call, returned, Capture, CaptureFails, Passes
<1>3. CASE \E n \in 1..PerTransfer : \E lost \in SUBSET (next..(next + n - 1)) : Transfer(n, lost)
  BY <1>1, <1>3 DEF Transfer, state, returned
<1>4. CASE Packet
  BY <1>4, OneIdPacket
<1> QED
  BY <1>2, <1>3, <1>4 DEF Next

LEMMA OneIdInit == Init => OneId
  BY DEF Init, OneId

\* A frame with all the payloads between its ends is one frame of the camera and all of it
\* (webcam.rs, capture_uvc_frame), for frames, transfers and losses of any size.
THEOREM GapFreeWhole == Spec => []GapFreeIsWhole
<1>1. TypeInv /\ FramesInOrder /\ OneId => GapFreeIsWhole
  BY WholeFrame DEF GapFreeIsWhole
<1>2. Spec => []OneId
  BY TypeInit, TypeStep, OneIdInit, OneIdStep, PTL DEF Spec
<1> QED
  BY <1>1, <1>2, TypeCorrect, FramesOrdered, PTL
=============================================================================
