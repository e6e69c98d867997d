-------------------------- MODULE FrameReassembly --------------------------
(***************************************************************************)
(* The webcam guest (examples/webcam/src/webcam.rs): capture_uvc_frame     *)
(* puts frames together from the packets of isochronous transfers.         *)
(*                                                                         *)
(* The camera sends packet after packet, whether a transfer is there to    *)
(* take it or not: those that fall between two transfers, or between two   *)
(* calls, are gone, and so is one that came damaged (actual_length 0, or a *)
(* header that makes no sense).  The reassembly state outlives the call.   *)
(*                                                                         *)
(* Packet p belongs to frame p \div PerFrame.  A frame starts with the     *)
(* SOI marker, in its first packet, and ends with EOI, in its last one     *)
(* that has a payload.                                                     *)
(***************************************************************************)
EXTENDS Integers, Sequences

CONSTANTS
  PerFrame,     \* packets of a frame
  Frames,       \* bound: how many frames the camera sends
  PerTransfer,  \* num_packets: packets of a transfer
  MaxAttempts,  \* transfers capture_uvc_frame tries, 2000 in the code
  Styles        \* how the camera may end a frame

\* "eof": the last packet has the end-of-frame bit; "trailer": a packet of its own
\* has it, without a payload; "toggle": only the frame id of the next frame tells.
Style == {"eof", "trailer", "toggle"}

ASSUME SizesAssumption ==
  /\ PerFrame \in Nat \ {0, 1} /\ Frames \in Nat /\ PerTransfer \in Nat \ {0}
  /\ MaxAttempts \in Nat /\ Styles \subseteq Style

VARIABLES
  style,        \* how the camera ends its frames
  next,         \* the packet it sends next
  capturing,    \* capture_uvc_frame runs
  attempts,     \* transfers it has tried
  batch,        \* packets of the transfer that are still to be looked at
  frameBuffer, lastFid, frameStarted,   \* ReassemblyState
  frame,        \* the last frame that was returned
  before        \* history: the last packet returned before that frame

camera == <<style, next>>
state == <<frameBuffer, lastFid, frameStarted>>
call == <<capturing, attempts, batch>>
returned == <<frame, before>>
vars == <<camera, state, call, returned>>

FrameOf(p) == p \div PerFrame
IsFirst(p) == p % PerFrame = 0
EndsFrame(p) == p % PerFrame = PerFrame - 1
HasPayload(p) == style = "trailer" => ~EndsFrame(p)
IsLast(p) == p % PerFrame = PerFrame - (IF style = "trailer" THEN 2 ELSE 1)

\* The payload header.
Fid(p) == FrameOf(p) % 2
IsEof(p) == style # "toggle" /\ EndsFrame(p)

\* is_complete_jpeg looks at both ends.
IsCompleteJpeg(data) ==
  data # <<>> /\ IsFirst(data[1]) /\ IsLast(data[Len(data)])

Sent == 0..(Frames * PerFrame - 1)

Init ==
  /\ style \in Styles /\ next = 0
  /\ capturing = FALSE /\ attempts = 0 /\ batch = {}
  /\ frameBuffer = <<>> /\ lastFid = 0 /\ frameStarted = FALSE
  /\ frame = <<>> /\ before = -1

-----------------------------------------------------------------------------
Capture ==
  /\ ~capturing
  /\ capturing' = TRUE /\ attempts' = 0
  /\ UNCHANGED <<camera, state, batch, returned>>

\* No transfer is there for what the camera sends.
Passes ==
  /\ batch = {} /\ next \in Sent
  /\ next' = next + 1
  /\ UNCHANGED <<style, state, call, returned>>

\* Slip: the attempts are not counted down.
TransferUncounted(n, lost) ==
  /\ capturing /\ batch = {} /\ next + n - 1 \in Sent
  /\ batch' = (next..(next + n - 1)) \ lost
  /\ next' = next + n
  /\ attempts' = attempts + 1
  /\ UNCHANGED <<style, state, capturing, returned>>

\* A transfer brings the next n packets but those in lost.
Transfer(n, lost) ==
  /\ capturing /\ batch = {} /\ attempts < MaxAttempts /\ next + n - 1 \in Sent
  /\ batch' = (next..(next + n - 1)) \ lost
  /\ next' = next + n
  /\ attempts' = attempts + 1
  /\ UNCHANGED <<style, state, capturing, returned>>

\* An error of a transfer, and running out of attempts, ends the call and leaves
\* the reassembly as it is.
CaptureFails ==
  /\ capturing /\ batch = {}
  /\ capturing' = FALSE
  /\ UNCHANGED <<camera, state, attempts, batch, returned>>

\* What becomes of the data taken out of the buffer at packet p: it is returned, and the rest
\* of the transfer is dropped, or it is not complete and the loop goes on.
Finish(p, data) ==
  IF IsCompleteJpeg(data)
    THEN /\ frame' = data
         /\ before' = IF frame = <<>> THEN before ELSE frame[Len(frame)]
         /\ capturing' = FALSE /\ batch' = {}
    ELSE /\ batch' = batch \ {p}
         /\ UNCHANGED <<capturing, returned>>

\* Slip: the frame id is compared only once a frame is known to have started
\* with its first packet.
ToggledLate(p) == frameBuffer # <<>> /\ Fid(p) # lastFid /\ ~IsFirst(frameBuffer[1])

Toggled(p) == frameBuffer # <<>> /\ Fid(p) # lastFid

\* What p adds to the data gathered so far.
Added(data, p) == IF HasPayload(p) THEN Append(data, p) ELSE data

\* The frame id changed: the buffer is the previous frame, p starts the next.
PacketToggles(p) ==
  /\ Toggled(p)
  /\ frameBuffer' = Added(<<>>, p) /\ frameStarted' = TRUE
  /\ lastFid' = Fid(p)
  /\ Finish(p, frameBuffer)

\* p is one more of the frame in the buffer, or the first one.
Continues(p, ends) ==
  /\ ~Toggled(p)
  /\ lastFid' = Fid(p)
  /\ ends <=> IsEof(p) /\ Added(frameBuffer, p) # <<>>

\* Slip: the frame is copied out of the buffer instead of taken.
PacketEndsKeeps(p) ==
  /\ Continues(p, TRUE)
  /\ frameBuffer' = Added(frameBuffer, p) /\ frameStarted' = FALSE
  /\ Finish(p, Added(frameBuffer, p))

PacketEnds(p) ==
  /\ Continues(p, TRUE)
  /\ frameBuffer' = <<>> /\ frameStarted' = FALSE
  /\ Finish(p, Added(frameBuffer, p))

PacketContinues(p) ==
  /\ Continues(p, FALSE)
  /\ frameBuffer' = Added(frameBuffer, p)
  /\ frameStarted' = (frameStarted \/ HasPayload(p))
  /\ batch' = batch \ {p}
  /\ UNCHANGED <<capturing, returned>>

\* The loop over the packets of a transfer, in their order.
Packet ==
  /\ capturing
  /\ \E p \in batch :
       /\ \A q \in batch : p <= q
       /\ PacketToggles(p) \/ PacketEnds(p) \/ PacketContinues(p)
  /\ UNCHANGED <<camera, attempts>>

Next ==
  \/ Capture \/ Passes \/ CaptureFails
  \/ \E n \in 1..PerTransfer : \E lost \in SUBSET (next..(next + n - 1)) : Transfer(n, lost)
  \/ Packet

Spec == Init /\ [][Next]_vars

-----------------------------------------------------------------------------
(***************************************************************************)
(* Properties.                                                             *)
(***************************************************************************)
\* Every variable has its type, and no call tries more than MaxAttempts
\* transfers.
TypeInv ==
  /\ style \in Styles /\ next \in 0..(Frames * PerFrame)
  /\ capturing \in BOOLEAN /\ attempts \in 0..MaxAttempts /\ batch \subseteq Sent
  /\ frameBuffer \in Seq(Sent) /\ lastFid \in 0..1 /\ frameStarted \in BOOLEAN
  /\ frame \in Seq(Sent) /\ before \in -1..(Frames * PerFrame - 1)

Ascending(data) == \A i, j \in DOMAIN data : i < j => data[i] < data[j]

\* A frame is returned in the order the camera sent it, nothing of it twice and
\* nothing that was in an earlier frame, whatever was lost, failed or left over
\* from the call before.
FramesInOrder == Ascending(frame) /\ \A i \in DOMAIN frame : before < frame[i]

\* The payloads between the first and the last of data.
Between(data) == {p \in data[1]..data[Len(data)] : HasPayload(p)}

\* If nothing the camera sent between its ends is missing, a returned frame is
\* one frame of the camera and all of it, however the camera ends its frames
\* and wherever the transfers and the calls cut them.
GapFreeIsWhole ==
  frame # <<>> /\ Between(frame) = {frame[i] : i \in DOMAIN frame}
    => \A p \in Sent : FrameOf(p) = FrameOf(frame[1]) /\ HasPayload(p)
                         <=> p \in Between(frame)

\* webcam.rs 32: what passes is_complete_jpeg is a complete JPEG, which is one
\* frame of the camera and all of it.
ReturnedIsComplete ==
  frame # <<>> => \A p \in Sent :
    FrameOf(p) = FrameOf(frame[1]) /\ HasPayload(p)
      <=> \E i \in DOMAIN frame : frame[i] = p
=============================================================================
