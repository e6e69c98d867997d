---------------------- MODULE BenchmarkTransportProofs ----------------------
(***************************************************************************)
(* Proofs about BenchmarkTransport, for any number of benchmarks and       *)
(* commands, any lengths and any losses.                                   *)
(*                                                                         *)
(* What the device still has to send is of this session, and of the        *)
(* current command only if it carries its tag.  Once the guest driver is   *)
(* behind, the status of an earlier command always comes between the data  *)
(* it asks for and the status it waits for.                                *)
(***************************************************************************)
EXTENDS BenchmarkTransport, TLAPS

Busy == pc \in {"cbw", "in", "csw"}

Ahead == phase = "in" => left > 0 /\ left <= work.len

Current ==
  /\ Busy => tag = cmd.tag /\ tag > 0 /\ cmd.session = session
  /\ pc = "in" => cmd.len > 0
  /\ pc = "cbw" => got = <<>>
  /\ pc = "csw" /\ got = <<>> => cmd.len = 0

\* A command the device has is of this session and not later than the current one.
Known(c) ==
  /\ c.session = session /\ c.tag <= tag
  /\ c.tag = tag => c = cmd /\ pc # "cbw"
KnownDevice ==
  /\ phase # "ready" => Known(work)
  /\ buffer # <<>> => Known(buffer[1])

OnlyData(s) == \A i \in DOMAIN s : s[i].kind = "data"

\* A status is no full packet.
Statuses == \A i \in DOMAIN got : got[i].kind # "data" => got[i].size # "full"

\* Data without a status between them are of the command the device is still at; the
\* current command's are its first ones.
Whole ==
  /\ pc \in {"in", "csw"} /\ OnlyData(got) =>
       \A i \in DOMAIN got : got[i].of = work /\ (work = cmd => got[i].index = i)
  /\ pc \in {"in", "csw"} /\ OnlyData(got) /\ got # <<>> => phase # "ready"
  /\ pc \in {"in", "csw"} /\ OnlyData(got) /\ phase = "in" /\ work = cmd => Len(got) = cmd.len - left

\* The guest driver: in step it has only data of its command; behind, its command waits,
\* or began when the transfer of its data was over.
GuestInv ==
  driver = "guest" =>
    /\ pc = "cbw" => (lost <=> ~InStep)
    /\ pc = "idle" /\ lost => ~InStep
    /\ pc = "idle" /\ tag = 0 => InStep /\ ~lost
    /\ Busy /\ lost => cmd.len > 0
    /\ pc \in {"in", "csw"} /\ ~lost =>
         /\ work = cmd /\ phase # "ready" /\ buffer = <<>> /\ OnlyData(got)
         /\ pc = "in" /\ phase = "status" => GuestComplete
    /\ pc \in {"in", "csw"} /\ lost =>
         \/ /\ buffer = <<cmd>> /\ (phase # "ready" => work # cmd)
            /\ pc = "in" /\ phase = "ready" => GuestComplete
         \/ work = cmd /\ phase \in {"in", "halted"} /\ (pc = "in" => GuestComplete)

IInv ==
  /\ TypeInv /\ Ahead /\ Current /\ KnownDevice /\ Statuses /\ Whole /\ GuestInv
  /\ StatusIsOwn /\ DataIsOwn

-----------------------------------------------------------------------------
LEMMA InitInv == Init => IInv
<1> SUFFICES ASSUME Init PROVE IInv
  OBVIOUS
<1> USE DEF Init, NoCommand, Csw
<1>1. NoCommand \in Commands /\ Csw(NoCommand, "passed") \in Packets
  BY DEF Commands, Packets, Sizes
<1>2. TypeInv
  <2>1. result \in [cmd : Commands, status : Packets, data : Seq(Packets)]
    BY <1>1
  <2>2. /\ got \in Seq(Packets) /\ buffer \in Seq(Commands) /\ Len(buffer) <= 1 /\ cmd \in Commands
        /\ Len(got) <= (IF driver = "guest" THEN cmd.len ELSE cmd.len + 1)
    BY <1>1
  <2>3. driver \in Drivers /\ session \in 1..MaxSessions /\ tag \in 0..MaxTag
    BY BenchmarkAssumption
  <2>4. lost \in BOOLEAN /\ work \in Commands /\ left \in Nat
    BY <1>1
  <2>5. pc = "idle" /\ phase = "ready"
    OBVIOUS
  <2> HIDE DEF NoCommand, Csw, Init
  <2> QED
    BY <2>1, <2>2, <2>3, <2>4, <2>5 DEF TypeInv
<1>3. Ahead /\ Current /\ KnownDevice
  BY DEF Ahead, Current, Busy, KnownDevice
<1>6. Statuses /\ Whole
  BY DEF Statuses, Whole
<1>4. GuestInv
  BY DEF GuestInv, Busy, InStep
<1>5. StatusIsOwn /\ DataIsOwn
  BY DEF StatusIsOwn, DataIsOwn
<1> QED
  BY <1>2, <1>3, <1>4, <1>5, <1>6 DEF IInv

\* The types of what a step is about.
LEMMA Types ==
  ASSUME TypeInv
  PROVE  /\ cmd \in Commands /\ work \in Commands /\ left \in Nat /\ tag \in Nat /\ session \in Nat
         /\ cmd.len \in Nat /\ cmd.tag \in Nat /\ cmd.session \in Nat
         /\ work.len \in Nat /\ work.tag \in Nat /\ MaxTag \in Nat
         /\ got \in Seq(Packets) /\ Len(got) \in Nat /\ DOMAIN got = 1..Len(got)
         /\ \A i \in DOMAIN got : got[i] \in Packets
         /\ buffer \in Seq(Commands) /\ Len(buffer) \in Nat
         /\ (buffer # <<>> => buffer[1] \in Commands)
<1>1. cmd \in Commands /\ work \in Commands /\ left \in Nat /\ tag \in Nat /\ session \in Nat /\ MaxTag \in Nat
  BY BenchmarkAssumption DEF TypeInv
<1>2. /\ cmd.len \in Nat /\ cmd.tag \in Nat /\ cmd.session \in Nat
      /\ work.len \in Nat /\ work.tag \in Nat
  BY <1>1 DEF Commands
<1>3. got \in Seq(Packets) /\ buffer \in Seq(Commands)
  BY DEF TypeInv
<1>4. /\ Len(got) \in Nat /\ DOMAIN got = 1..Len(got)
      /\ \A i \in DOMAIN got : got[i] \in Packets
      /\ Len(buffer) \in Nat /\ (buffer # <<>> => buffer[1] \in Commands)
  BY <1>3
<1> QED
  BY <1>1, <1>2, <1>3, <1>4

LEMMA BeginInv ==
  ASSUME IInv, NEW len \in {0, 1} \cup Lengths, Begin(len)
  PROVE  IInv'
<1> USE DEF IInv, Begin, device
<1>1. len \in Nat /\ tag < MaxTag /\ pc = "idle" /\ pc' = "cbw" /\ got' = <<>> /\ tag' = tag + 1
  BY BenchmarkAssumption
<1>2. cmd' \in Commands /\ cmd'.len = len /\ cmd'.session = session /\ cmd'.tag = tag + 1
  BY <1>1, Types DEF Commands
<1>3. TypeInv'
  <2>1. tag' \in 0..MaxTag /\ got' \in Seq(Packets) /\ Len(got') = 0
    BY <1>1, Types
  <2>2. 0 <= IF driver = "guest" THEN cmd'.len ELSE cmd'.len + 1
    BY <1>1, <1>2
  <2>3. lost' \in BOOLEAN
    BY DEF TypeInv
  <2> QED
    BY <1>1, <1>2, <2>1, <2>2, <2>3 DEF TypeInv
<1>4. Ahead' /\ Statuses' /\ Whole' /\ StatusIsOwn' /\ DataIsOwn'
  BY <1>1, <1>2 DEF Ahead, Statuses, Whole, StatusIsOwn, DataIsOwn
<1>7. Current'
  BY <1>1, <1>2, Types DEF Current, Busy
<1>5. KnownDevice'
  <2>1. ASSUME NEW c \in Commands, Known(c) PROVE Known(c)'
    <3>1. c.tag \in Nat /\ c.tag <= tag /\ c.session = session
      BY <2>1 DEF Known, Commands
    <3> QED
      BY <1>1, <3>1, Types DEF Known
  <2> QED
    BY <2>1, Types DEF KnownDevice, Known
<1>6. GuestInv'
  <2> SUFFICES ASSUME driver = "guest" PROVE GuestInv'
    BY DEF GuestInv
  <2>1. InStep' <=> InStep
    BY DEF InStep
  <2>2. lost' <=> ~InStep
    BY <1>1 DEF GuestInv
  <2>3. lost' => len > 0
    <3>1. CASE tag = 0
      BY <1>1, <2>2, <3>1 DEF GuestInv
    <3>2. CASE tag # 0
      BY <3>2, BenchmarkAssumption
    <3> QED
      BY <3>1, <3>2
  <2> QED
    BY <1>1, <1>2, <2>1, <2>2, <2>3 DEF GuestInv
<1> QED
  BY <1>3, <1>4, <1>5, <1>6, <1>7

\* The command block is at the device, or waits in its buffer.
LEMMA TakesCbwInv ==
  ASSUME IInv, pc = "cbw", TakesCbw(cmd)
  PROVE  /\ work' \in Commands /\ left' \in Nat /\ phase' \in {"in", "status", "halted"}
         /\ buffer' \in Seq(Commands) /\ Len(buffer') <= 1
         /\ (phase' = "in" => left' > 0 /\ left' <= work'.len)
         /\ work' = work \/ work' = cmd
         /\ buffer = <<>>
         /\ \/ /\ phase = "ready" /\ work' = cmd /\ left' = cmd.len /\ buffer' = <<>>
               /\ phase' = IF cmd.len = 0 THEN "status" ELSE "in"
            \/ /\ phase # "ready" /\ buffer' = <<cmd>> /\ UNCHANGED <<phase, work, left>>
               /\ work.tag < tag /\ work.session = session /\ work # cmd
<1> USE DEF IInv, TakesCbw, Starts
<1>1. CASE phase = "ready"
  BY <1>1, Types
<1>2. CASE phase # "ready"
  <2>1. work.session = session /\ work.tag <= tag /\ work.tag # tag /\ cmd.tag = tag
    BY <1>2 DEF KnownDevice, Known, Current, Busy
  <2>2. <<cmd>> \in Seq(Commands) /\ Len(<<cmd>>) = 1
    BY Types
  <2>3. phase \in {"in", "status", "halted"}
    BY <1>2 DEF TypeInv
  <2>4. buffer = <<>> /\ buffer' = <<cmd>> /\ work' = work /\ left' = left /\ phase' = phase
    BY <1>2
  <2>5. work \in Commands /\ left \in Nat /\ work.tag < tag /\ work # cmd
    BY <2>1, Types
  <2> HIDE DEF IInv, TakesCbw, Starts
  <2> QED
    BY <1>2, <2>1, <2>2, <2>3, <2>4, <2>5 DEF IInv, Ahead
<1> QED
  BY <1>1, <1>2

LEMMA SendCbwInv ==
  ASSUME IInv, SendCbw
  PROVE  IInv'
<1> USE DEF IInv
<1>1. /\ pc = "cbw" /\ pc' = IF cmd.len = 0 THEN "csw" ELSE "in"
      /\ UNCHANGED <<driver, session, tag, cmd, got, result, lost>>
      /\ got = <<>> /\ Len(got) = 0 /\ tag = cmd.tag /\ cmd.session = session
  BY DEF SendCbw, Current, Busy
<1>2. /\ work' \in Commands /\ left' \in Nat /\ phase' \in {"in", "status", "halted"}
      /\ buffer' \in Seq(Commands) /\ Len(buffer') <= 1
      /\ (phase' = "in" => left' > 0 /\ left' <= work'.len)
      /\ work' = work \/ work' = cmd
      /\ buffer = <<>>
      /\ \/ /\ phase = "ready" /\ work' = cmd /\ left' = cmd.len /\ buffer' = <<>>
            /\ phase' = IF cmd.len = 0 THEN "status" ELSE "in"
         \/ /\ phase # "ready" /\ buffer' = <<cmd>> /\ UNCHANGED <<phase, work, left>>
            /\ work.tag < tag /\ work.session = session /\ work # cmd
  BY <1>1, TakesCbwInv DEF SendCbw
<1>3. TypeInv'
  BY <1>1, <1>2, Types DEF TypeInv
<1>4. Ahead' /\ Current' /\ Statuses' /\ StatusIsOwn' /\ DataIsOwn'
  BY <1>1, <1>2, Types DEF Ahead, Current, Busy, Statuses, StatusIsOwn, DataIsOwn
<1>5. KnownDevice'
  <2>1. buffer' # <<>> => buffer'[1] = cmd
    BY <1>2
  <2> QED
    BY <1>1, <1>2, <2>1, Types DEF KnownDevice, Known
<1>6. Whole'
  BY <1>1, <1>2, Types DEF Whole, OnlyData
<1>7. GuestInv'
  BY <1>1, <1>2, Types DEF GuestInv, InStep, Busy, OnlyData
<1> QED
  BY <1>3, <1>4, <1>5, <1>6, <1>7

LEMMA SendCbwFailsInv ==
  ASSUME IInv, SendCbwFails
  PROVE  IInv'
<1> USE DEF IInv
<1>1. /\ pc = "cbw" /\ pc' \in {"idle", "dead"} /\ (pc' = "idle" => tag > 2)
      /\ UNCHANGED <<driver, session, tag, cmd, got, result, lost>>
      /\ tag = cmd.tag /\ cmd.session = session
  BY Types DEF SendCbwFails, Fails, Current, Busy
<1>2. CASE UNCHANGED device
  <2> USE <1>1, <1>2 DEF device
  <2>1. TypeInv' /\ Ahead' /\ Current' /\ Statuses' /\ StatusIsOwn' /\ DataIsOwn'
    BY DEF TypeInv, Ahead, Current, Busy, Statuses, StatusIsOwn, DataIsOwn
  <2>2. KnownDevice' /\ Whole'
    BY DEF KnownDevice, Known, Whole
  <2>3. GuestInv'
    BY Types DEF GuestInv, InStep, Busy
  <2> QED
    BY <2>1, <2>2, <2>3
<1>3. CASE TakesCbw(cmd)
  <2>1. /\ work' \in Commands /\ left' \in Nat /\ phase' \in {"in", "status", "halted"}
        /\ buffer' \in Seq(Commands) /\ Len(buffer') <= 1
        /\ (phase' = "in" => left' > 0 /\ left' <= work'.len)
        /\ work' = work \/ work' = cmd
        /\ buffer = <<>>
        /\ \/ /\ phase = "ready" /\ work' = cmd /\ left' = cmd.len /\ buffer' = <<>>
              /\ phase' = IF cmd.len = 0 THEN "status" ELSE "in"
           \/ /\ phase # "ready" /\ buffer' = <<cmd>> /\ UNCHANGED <<phase, work, left>>
              /\ work.tag < tag /\ work.session = session /\ work # cmd
    BY <1>1, <1>3, TakesCbwInv
  <2>2. TypeInv' /\ Ahead' /\ Current' /\ Statuses' /\ StatusIsOwn' /\ DataIsOwn'
    BY <1>1, <2>1, Types DEF TypeInv, Ahead, Current, Busy, Statuses, StatusIsOwn, DataIsOwn
  <2>3. KnownDevice'
    <3>1. buffer' # <<>> => buffer'[1] = cmd
      BY <2>1
    <3> QED
      BY <1>1, <2>1, <3>1, Types DEF KnownDevice, Known
  <2>4. Whole' /\ GuestInv'
    BY <1>1, <2>1, Types DEF Whole, GuestInv, InStep, Busy
  <2> QED
    BY <2>2, <2>3, <2>4
<1> QED
  BY <1>2, <1>3 DEF SendCbwFails

\* A packet that leaves the device is of the command the device works on.
LEMMA SendsWork ==
  ASSUME TypeInv, Ahead, NEW p \in Offers, Sends(p)
  PROVE  /\ p \in Packets /\ p.of = work /\ UNCHANGED <<work, buffer>> /\ left' \in Nat /\ Ahead'
         /\ \/ /\ p.kind = "data" /\ p.index = work.len - left + 1
               /\ phase = "in" /\ left' = left - 1
               /\ phase' = IF p.size = "full" /\ left > 1 THEN "in" ELSE "status"
            \/ /\ p.kind # "data" /\ p.size # "full"
               /\ phase = "status" /\ phase' = "ready" /\ left' = left
<1> USE DEF Sends
<1>0. work \in Commands /\ work.len \in Nat /\ left \in Nat /\ UNCHANGED <<work, buffer>>
  BY Types
<1>1. CASE phase = "in"
  <2>1. PICK size \in Sizes : p = Data(work, work.len - left + 1, size)
    BY <1>1 DEF Offers
  <2>2. left > 0 /\ left <= work.len /\ work.len - left + 1 \in Nat
    BY <1>0, <1>1 DEF Ahead
  <2>3. p.kind = "data" /\ p.of = work /\ p.index = work.len - left + 1 /\ p \in Packets
    BY <1>0, <2>1, <2>2 DEF Data, Packets
  <2>4. left' = left - 1 /\ left' \in Nat /\ phase' = IF p.size = "full" /\ left > 1 THEN "in" ELSE "status"
    BY <1>0, <2>2, <2>3
  <2>5. Ahead'
    BY <1>0, <2>2, <2>3, <2>4 DEF Ahead
  <2> QED
    BY <1>0, <1>1, <2>3, <2>4, <2>5
<1>2. CASE phase = "status"
  <2>1. PICK v \in {"passed", "failed"} : p = Csw(work, v)
    BY <1>2 DEF Offers
  <2>2. p.kind = v /\ p.of = work /\ p \in Packets /\ p.kind # "data" /\ p.size = "short"
    BY <1>0, <2>1 DEF Csw, Packets, Sizes
  <2>3. phase' = "ready" /\ left' = left
    BY <2>2
  <2>4. Ahead'
    BY <2>3 DEF Ahead
  <2> QED
    BY <1>0, <1>2, <2>2, <2>3, <2>4
<1> QED
  BY <1>1, <1>2 DEF Offers

LEMMA ReceiveDataInv ==
  ASSUME IInv, ReceiveData
  PROVE  IInv'
<1> USE DEF IInv
<1>1. PICK p \in Offers : Sends(p) /\ got' = Append(got, p)
  BY DEF ReceiveData
<1>2. /\ pc = "in" /\ UNCHANGED <<driver, session, tag, pc, cmd, result, lost>> /\ cmd.len > 0
      /\ (IF driver = "guest" THEN ~GuestComplete ELSE NativeMayGoOn)
  BY DEF ReceiveData, Current
<1>3. /\ p \in Packets /\ p.of = work /\ UNCHANGED <<work, buffer>> /\ left' \in Nat /\ Ahead'
      /\ \/ /\ p.kind = "data" /\ p.index = work.len - left + 1
            /\ phase = "in" /\ left' = left - 1
            /\ phase' = IF p.size = "full" /\ left > 1 THEN "in" ELSE "status"
         \/ /\ p.kind # "data" /\ p.size # "full"
            /\ phase = "status" /\ phase' = "ready" /\ left' = left
  BY <1>1, SendsWork
<1>4. /\ got' \in Seq(Packets) /\ Len(got') = Len(got) + 1 /\ got'[Len(got) + 1] = p
      /\ DOMAIN got = 1..Len(got) /\ DOMAIN got' = 1..(Len(got) + 1)
      /\ \A i \in 1..Len(got) : got'[i] = got[i]
      /\ Len(got) \in Nat /\ got' # <<>>
  <2>1. got \in Seq(Packets) /\ p \in Packets /\ got' = Append(got, p)
    BY <1>1, <1>3, Types
  <2> HIDE DEF IInv
  <2>2. /\ got' \in Seq(Packets) /\ Len(got') = Len(got) + 1 /\ got'[Len(got) + 1] = p
        /\ Len(got) \in Nat /\ DOMAIN got = 1..Len(got)
        /\ \A i \in 1..Len(got) : got'[i] = got[i]
    BY <2>1
  <2>3. DOMAIN got' = 1..(Len(got) + 1) /\ got' # <<>>
    BY <2>2
  <2> QED
    BY <2>2, <2>3
<1>5. Len(got') <= IF driver = "guest" THEN cmd.len ELSE cmd.len + 1
  <2>1. CASE driver = "guest"
    <3>1. Len(got) <= cmd.len /\ (got = <<>> \/ Len(got) # cmd.len)
      BY <1>2, <2>1 DEF TypeInv, GuestComplete
    <3>2. got = <<>> => Len(got) = 0
      OBVIOUS
    <3> QED
      BY <1>2, <1>4, <2>1, <3>1, <3>2, Types
  <2>2. CASE driver # "guest"
    BY <1>2, <1>4, <2>2, Types DEF NativeMayGoOn
  <2> QED
    BY <2>1, <2>2
<1>6. TypeInv'
  BY <1>2, <1>3, <1>4, <1>5 DEF TypeInv
<1>7. Current' /\ StatusIsOwn' /\ DataIsOwn'
  BY <1>2 DEF Current, Busy, StatusIsOwn, DataIsOwn
<1>8. KnownDevice'
  BY <1>2, <1>3 DEF KnownDevice, Known
<1>9. Statuses'
  <2>1. p.kind # "data" => p.size # "full"
    BY <1>3
  <2>2. \A i \in 1..Len(got) : got[i].kind # "data" => got[i].size # "full"
    BY <1>4 DEF Statuses
  <2>3. \A i \in DOMAIN got' : i \in 1..Len(got) \/ got'[i] = p
    BY <1>4
  <2> QED
    BY <1>4, <2>1, <2>2, <2>3 DEF Statuses
<1>10. OnlyData(got') => OnlyData(got) /\ p.kind = "data"
  BY <1>3, <1>4 DEF OnlyData
<1>11. Whole'
  <2> SUFFICES ASSUME OnlyData(got') PROVE Whole'
    BY DEF Whole
  <2>1. OnlyData(got) /\ phase = "in" /\ left' = left - 1 /\ p.index = work.len - left + 1 /\ phase' # "ready"
    BY <1>3, <1>10
  <2>2. work = cmd => Len(got) = cmd.len - left
    BY <1>2, <2>1 DEF Whole
  <2>3. work = cmd => p.index = Len(got) + 1
    BY <2>1, <2>2
  <2>4. \A i \in 1..Len(got) : got[i].of = work /\ (work = cmd => got[i].index = i)
    BY <1>2, <1>4, <2>1 DEF Whole
  <2>5. \A i \in DOMAIN got' : got'[i].of = work' /\ (work' = cmd' => got'[i].index = i)
    BY <1>2, <1>3, <1>4, <2>3, <2>4
  <2>6. work' = cmd' => Len(got') = cmd'.len - left'
    <3>1. work' = work /\ cmd' = cmd /\ left' = left - 1 /\ Len(got') = Len(got) + 1
      BY <1>2, <1>3, <1>4, <2>1
    <3>2. Len(got) \in Nat /\ left \in Nat /\ cmd.len \in Nat
      BY Types DEF IInv
    <3> HIDE DEF IInv, Whole, OnlyData
    <3> QED
      BY ONLY <2>2, <3>1, <3>2
  <2> QED
    BY <2>1, <2>5, <2>6 DEF Whole
<1>12. GuestInv'
  <2> SUFFICES ASSUME driver = "guest" PROVE GuestInv'
    BY <1>2 DEF GuestInv
  <2>1. ~GuestComplete
    BY <1>2
  <2>2. GuestComplete' <=> Len(got') = cmd.len \/ p.size # "full"
    BY <1>2, <1>4 DEF GuestComplete
  <2>3. CASE ~lost
    <3>1. work = cmd /\ phase = "in" /\ buffer = <<>> /\ OnlyData(got) /\ p.kind = "data"
      BY <1>2, <1>3, <2>1, <2>3 DEF GuestInv
    <3>2. OnlyData(got')
      BY <1>4, <3>1 DEF OnlyData
    <3>3. Len(got) = cmd.len - left /\ left > 0
      BY <1>2, <3>1 DEF Whole, Ahead
    <3>4. phase' = "status" => GuestComplete'
      <4> SUFFICES ASSUME phase' = "status", p.size = "full" PROVE Len(got') = cmd.len
        BY <2>2
      <4>1. ~(left > 1) /\ left \in Nat /\ cmd.len \in Nat
        BY <1>3, <3>1, Types
      <4> HIDE DEF IInv
      <4> QED
        BY <1>4, <3>3, <4>1
    <3>5. phase' # "ready"
      BY <1>3, <3>1
    <3> QED
      BY <1>2, <1>3, <2>3, <3>1, <3>2, <3>4, <3>5 DEF GuestInv, Busy
  <2>4. CASE lost
    <3>1. buffer = <<cmd>> /\ (phase # "ready" => work # cmd)
      BY <1>2, <2>1, <2>4 DEF GuestInv
    <3>2. work # cmd
      BY <1>3, <3>1
    <3>3. phase' = "ready" => GuestComplete'
      BY <1>3, <2>2
    <3> QED
      BY <1>2, <1>3, <2>4, <3>1, <3>2, <3>3 DEF GuestInv, Busy
  <2> QED
    BY <2>3, <2>4
<1> QED
  BY <1>3, <1>6, <1>7, <1>8, <1>9, <1>11, <1>12

LEMMA EndsDataInv ==
  ASSUME IInv, EndData \/ DataFails
  PROVE  IInv'
<1> USE DEF IInv, device
<1>1. /\ pc = "in" /\ UNCHANGED <<driver, session, tag, cmd, got, result, lost, phase, work, left, buffer>>
      /\ \/ EndData /\ pc' = "csw"
         \/ pc' = "dead"
         \/ pc' = "idle" /\ tag > 2
  BY Types DEF EndData, DataFails, Fails
<1>2. TypeInv' /\ Ahead' /\ KnownDevice' /\ Statuses' /\ StatusIsOwn' /\ DataIsOwn'
  <2>1. TypeInv'
    BY <1>1 DEF TypeInv
  <2>2. Ahead' /\ KnownDevice' /\ Statuses' /\ StatusIsOwn' /\ DataIsOwn'
    BY <1>1 DEF Ahead, KnownDevice, Known, Statuses, StatusIsOwn, DataIsOwn
  <2> QED
    BY <2>1, <2>2
<1>3. Whole'
  BY <1>1 DEF Whole
<1>4. Current'
  <2>1. EndData => got # <<>>
    <3> SUFFICES ASSUME EndData, got = <<>> PROVE FALSE
      OBVIOUS
    <3>1. Len(got) = 0 /\ DOMAIN got = {} /\ cmd.len > 0
      BY <1>1 DEF Current
    <3> QED
      BY <3>1 DEF EndData, GuestComplete, NativeMayEnd, Uneven, Ended, NothingRead
  <2> QED
    BY <1>1, <2>1 DEF Current, Busy
<1>5. GuestInv'
  <2>1. InStep' <=> InStep
    BY <1>1 DEF InStep
  <2>2. CASE pc' = "csw"
    BY <1>1, <2>2 DEF GuestInv, Busy, OnlyData
  <2>3. CASE pc' # "csw"
    <3>1. driver = "guest" /\ lost => ~InStep
      <4> SUFFICES ASSUME driver = "guest", lost PROVE ~InStep
        OBVIOUS
      <4>1. buffer = <<cmd>> \/ phase \in {"in", "halted"}
        BY <1>1 DEF GuestInv
      <4> QED
        BY <4>1 DEF InStep
    <3>2. pc' \in {"idle", "dead"} /\ (pc' = "idle" => tag' # 0)
      BY <1>1, <2>3, Types
    <3> QED
      BY <1>1, <2>1, <3>1, <3>2 DEF GuestInv, Busy
  <2> QED
    BY <2>2, <2>3
<1> QED
  BY <1>2, <1>3, <1>4, <1>5

\* The driver is at its status only with its own data, and the device with its status.
LEMMA AcceptsOwn ==
  ASSUME IInv, pc = "csw", phase = "status", work.tag = cmd.tag
  PROVE  /\ work = cmd
         /\ (driver = "guest" => ~lost)
         /\ (driver = "guest" \/ (\A i \in DOMAIN got : got[i].size = "full") => OnlyData(got))
<1> USE DEF IInv
<1>1. work = cmd
  BY DEF KnownDevice, Known, Current, Busy
<1>2. driver = "guest" => ~lost
  BY <1>1 DEF GuestInv
<1>3. driver = "guest" => OnlyData(got)
  BY <1>2 DEF GuestInv
<1>4. (\A i \in DOMAIN got : got[i].size = "full") => OnlyData(got)
  BY DEF Statuses, OnlyData
<1> QED
  BY <1>1, <1>2, <1>3, <1>4

\* What fails leaves the guest driver behind, if it was.
LEMMA FailsInv ==
  ASSUME IInv, pc = "csw", UNCHANGED <<driver, session, tag, cmd, got, lost>>,
         pc' \in {"idle", "dead"}, TypeInv', Ahead', KnownDevice',
         StatusIsOwn', DataIsOwn', tag > 0,
         driver = "guest" /\ lost => ~InStep'
  PROVE  IInv'
<1>1. Current' /\ Statuses' /\ Whole'
  BY DEF IInv, Current, Busy, Statuses, Whole
<1>2. tag' # 0
  BY Types DEF IInv
<1>3. GuestInv'
  BY <1>2 DEF GuestInv, Busy
<1> QED
  BY <1>1, <1>3 DEF IInv

LEMMA StatusInv ==
  ASSUME IInv, ReceiveStatus \/ StatusFails
  PROVE  IInv'
<1>1. /\ pc = "csw" /\ UNCHANGED <<driver, session, tag, cmd, got, lost>> /\ pc' \in {"idle", "dead"}
      /\ (UNCHANGED device \/ \E p \in Offers : Sends(p))
  BY DEF ReceiveStatus, StatusFails, Fails
<1>2. /\ work' = work /\ buffer' = buffer /\ left' \in Nat /\ Ahead'
      /\ phase' \in {"ready", "in", "status", "halted"}
      /\ (phase' # "ready" => phase # "ready")
      /\ (phase \in {"in", "halted"} => phase' # "ready")
  <2>1. CASE UNCHANGED device
    BY <2>1 DEF device, IInv, TypeInv, Ahead
  <2>2. CASE \E p \in Offers : Sends(p)
    BY <2>2, SendsWork DEF IInv
  <2> QED
    BY <1>1, <2>1, <2>2
<1>3. KnownDevice'
  BY <1>1, <1>2 DEF IInv, KnownDevice, Known
<1>4. tag > 0 /\ tag = cmd.tag
  BY <1>1 DEF IInv, Current, Busy
<1>5. CASE UNCHANGED result
  <2>1. TypeInv'
    BY <1>1, <1>2, <1>5 DEF IInv, TypeInv
  <2>2. StatusIsOwn' /\ DataIsOwn'
    BY <1>1, <1>5 DEF IInv, StatusIsOwn, DataIsOwn
  <2>3. driver = "guest" /\ lost => ~InStep'
    <3> SUFFICES ASSUME driver = "guest", lost PROVE ~InStep'
      OBVIOUS
    <3>1. buffer = <<cmd>> \/ phase \in {"in", "halted"}
      BY <1>1 DEF IInv, GuestInv
    <3>2. buffer' # <<>> \/ phase' # "ready"
      BY <1>2, <3>1
    <3> QED
      BY <3>2 DEF InStep
  <2> QED
    BY <1>1, <1>2, <1>3, <1>4, <2>1, <2>2, <2>3, FailsInv
<1>6. ASSUME NEW p \in Offers, Sends(p), Accepts(p),
             result' = [cmd |-> cmd, status |-> p, data |-> got]
      PROVE  IInv'
  <2>1. p \in Packets /\ p.of = work /\ p.kind = "passed" /\ phase = "status"
    BY <1>6, SendsWork DEF IInv, Accepts
  <2>2. work.tag = cmd.tag
    BY <1>6, <2>1 DEF Accepts
  <2>3. /\ work = cmd /\ (driver = "guest" => ~lost)
        /\ (driver = "guest" \/ (\A i \in DOMAIN got : got[i].size = "full") => OnlyData(got))
    BY <1>1, <2>1, <2>2, AcceptsOwn
  <2>4. TypeInv'
    <3>1. result' \in [cmd : Commands, status : Packets, data : Seq(Packets)]
      BY <1>6, <2>1, Types DEF IInv
    <3> QED
      BY <1>1, <1>2, <3>1 DEF IInv, TypeInv
  <2>5. StatusIsOwn'
    BY <1>6, <2>1, <2>3 DEF StatusIsOwn
  <2>6. DataIsOwn'
    <3>1. OnlyData(got) => \A i \in DOMAIN got : got[i].kind = "data" /\ got[i].of = cmd /\ got[i].index = i
      BY <1>1, <2>3 DEF IInv, Whole, OnlyData
    <3>2. result'.data = got /\ result'.cmd = cmd
      BY <1>6
    <3> QED
      BY <1>1, <2>3, <3>1, <3>2 DEF DataIsOwn
  <2> QED
    BY <1>1, <1>3, <1>2, <1>4, <2>3, <2>4, <2>5, <2>6, FailsInv
<1> QED
  BY <1>1, <1>5, <1>6 DEF ReceiveStatus, StatusFails

LEMMA TakesBufferedInv ==
  ASSUME IInv, TakesBuffered
  PROVE  IInv'
<1> USE DEF IInv
<1>1. /\ phase = "ready" /\ buffer # <<>> /\ work' = buffer[1] /\ left' = work'.len /\ buffer' = <<>>
      /\ phase' = (IF work'.len = 0 THEN "status" ELSE "in")
      /\ UNCHANGED <<driver, session, tag, pc, cmd, got, result, lost>>
  BY DEF TakesBuffered, Starts
<1>2. work' \in Commands /\ work'.len \in Nat
  BY <1>1, Types DEF Commands
<1>3. buffer' \in Seq(Commands) /\ Len(buffer') <= 1
  BY <1>1
<1>4. TypeInv'
  BY <1>1, <1>2, <1>3 DEF TypeInv
<1>5. Ahead'
  BY <1>1, <1>2 DEF Ahead
<1>6. Current' /\ Statuses' /\ StatusIsOwn' /\ DataIsOwn'
  BY <1>1 DEF Current, Busy, Statuses, StatusIsOwn, DataIsOwn
<1>7. KnownDevice'
  BY <1>1 DEF KnownDevice, Known
<1>8. Whole'
  <2> SUFFICES ASSUME pc \in {"in", "csw"}, OnlyData(got) PROVE Whole'
    BY <1>1 DEF Whole
  <2>1. got = <<>>
    BY <1>1 DEF Whole
  <2>2. DOMAIN got = {} /\ Len(got) = 0
    BY <2>1
  <2>3. work' = cmd' => Len(got') = cmd'.len - left'
    BY <1>1, <1>2, <2>2
  <2> QED
    BY <1>1, <2>1, <2>2, <2>3 DEF Whole
<1>9. GuestInv'
  <2> SUFFICES ASSUME driver = "guest" PROVE GuestInv'
    BY <1>1 DEF GuestInv
  <2>1. ~InStep /\ ~InStep'
    BY <1>1 DEF InStep
  <2>2. CASE pc \in {"cbw", "idle", "dead"}
    BY <1>1, <2>1, <2>2 DEF GuestInv, Busy
  <2>3. CASE pc \in {"in", "csw"}
    <3>1. lost /\ buffer = <<cmd>> /\ (pc = "in" => GuestComplete) /\ cmd.len > 0
      BY <1>1, <2>3 DEF GuestInv, Busy
    <3>2. work' = cmd /\ phase' = "in"
      BY <1>1, <3>1, Types
    <3>3. pc' = "in" => GuestComplete'
      BY <1>1, <3>1 DEF GuestComplete
    <3> QED
      BY <1>1, <2>3, <3>1, <3>2, <3>3 DEF GuestInv, Busy
  <2> QED
    BY <2>2, <2>3 DEF TypeInv
<1> QED
  BY <1>4, <1>5, <1>6, <1>7, <1>8, <1>9

LEMMA OtherInv ==
  ASSUME IInv, Halts \/ End \/ Restart
  PROVE  IInv'
<1> USE DEF IInv, device
<1>1. CASE Halts
  <2>1. /\ phase = "in" /\ phase' = "halted"
        /\ UNCHANGED <<driver, session, tag, pc, cmd, got, result, lost, work, left, buffer>>
    BY <1>1 DEF Halts
  <2>2. TypeInv' /\ Ahead' /\ Current' /\ StatusIsOwn' /\ DataIsOwn'
    BY <2>1 DEF TypeInv, Ahead, Current, Busy, StatusIsOwn, DataIsOwn
  <2>3. KnownDevice' /\ Statuses'
    BY <2>1 DEF KnownDevice, Known, Statuses
  <2>4. Whole'
    BY <2>1 DEF Whole, OnlyData
  <2>5. GuestInv'
    BY <2>1 DEF GuestInv, Busy, InStep, OnlyData, GuestComplete
  <2> QED
    BY <2>2, <2>3, <2>4, <2>5
<1>2. CASE End
  <2>1. pc' = "dead" /\ UNCHANGED <<driver, session, tag, cmd, got, result, lost, phase, work, left, buffer>>
    BY <1>2 DEF End
  <2>2. TypeInv' /\ Ahead' /\ Current' /\ StatusIsOwn' /\ DataIsOwn'
    BY <2>1 DEF TypeInv, Ahead, Current, Busy, StatusIsOwn, DataIsOwn
  <2>3. KnownDevice' /\ Statuses' /\ Whole' /\ GuestInv'
    BY <2>1 DEF KnownDevice, Known, Statuses, Whole, GuestInv, Busy
  <2> QED
    BY <2>2, <2>3
<1>3. CASE Restart
  <2>1. /\ session' = session + 1 /\ session < MaxSessions /\ tag' = 0 /\ pc' = "idle" /\ lost' = FALSE
        /\ phase' = "ready" /\ buffer' = <<>> /\ UNCHANGED <<driver, cmd, got, result, work, left>>
    BY <1>3 DEF Restart
  <2>2. session' \in 1..MaxSessions /\ tag' \in 0..MaxTag /\ buffer' \in Seq(Commands) /\ Len(buffer') <= 1
    BY <2>1, BenchmarkAssumption DEF TypeInv
  <2>3. TypeInv'
    BY <2>1, <2>2 DEF TypeInv
  <2>4. Ahead' /\ Current' /\ StatusIsOwn' /\ DataIsOwn'
    BY <2>1 DEF Ahead, Current, Busy, StatusIsOwn, DataIsOwn
  <2>5. KnownDevice' /\ Statuses' /\ Whole'
    BY <2>1 DEF KnownDevice, Statuses, Whole
  <2>6. GuestInv'
    BY <2>1 DEF GuestInv, Busy, InStep
  <2> QED
    BY <2>3, <2>4, <2>5, <2>6
<1> QED
  BY <1>1, <1>2, <1>3

LEMMA StepInv == IInv /\ [Next]_vars => IInv'
<1> SUFFICES ASSUME IInv, [Next]_vars PROVE IInv'
  OBVIOUS
<1>1. CASE UNCHANGED vars
  <2> USE <1>1 DEF vars, device, IInv
  <2>1. TypeInv' /\ Ahead' /\ Current' /\ StatusIsOwn' /\ DataIsOwn'
    BY DEF TypeInv, Ahead, Current, Busy, StatusIsOwn, DataIsOwn
  <2>2. KnownDevice' /\ Statuses' /\ Whole'
    BY DEF KnownDevice, Known, Statuses, Whole
  <2>3. GuestInv'
    BY DEF GuestInv, Busy, InStep, GuestComplete, OnlyData
  <2> QED
    BY <2>1, <2>2, <2>3
<1>2. CASE \E len \in {0, 1} \cup Lengths : Begin(len)
  BY <1>2, BeginInv
<1>3. CASE SendCbw \/ SendCbwFails
  BY <1>3, SendCbwInv, SendCbwFailsInv
<1>4. CASE ReceiveData \/ EndData \/ DataFails
  BY <1>4, ReceiveDataInv, EndsDataInv
<1>5. CASE ReceiveStatus \/ StatusFails
  BY <1>5, StatusInv
<1>6. CASE TakesBuffered \/ Halts \/ End \/ Restart
  BY <1>6, TakesBufferedInv, OtherInv
<1> QED
  BY <1>1, <1>2, <1>3, <1>4, <1>5, <1>6 DEF Next

\* The driver keeps its types, and its buffer holds what it asked for.
THEOREM TypeCorrect == Spec => []TypeInv
<1>1. IInv => TypeInv
  BY DEF IInv
<1> QED
  BY <1>1, InitInv, StepInv, PTL DEF Spec

\* The status a command returns with Ok is its own, though no failed transfer is ever
\* made good.
THEOREM StatusOwn == Spec => []StatusIsOwn
<1>1. IInv => StatusIsOwn
  BY DEF IInv
<1> QED
  BY <1>1, InitInv, StepInv, PTL DEF Spec

\* The data the guest driver returns with Ok are the command's own, and so are those of
\* the native driver that came in full packets.
THEOREM DataOwn == Spec => []DataIsOwn
<1>1. IInv => DataIsOwn
  BY DEF IInv
<1> QED
  BY <1>1, InitInv, StepInv, PTL DEF Spec

\* A guest driver that is out of step with its device returns nothing but errors until
\* it starts anew.
THEOREM StaysBehind == Spec => NeverBackInStep
<1>1. IInv /\ [Next]_vars => [driver = "guest" /\ lost => UNCHANGED result]_vars
  <2> SUFFICES ASSUME IInv, Next, driver = "guest", lost PROVE UNCHANGED result
    BY DEF vars, device
  <2>1. CASE ReceiveStatus
    <3> SUFFICES ASSUME NEW p \in Offers, Sends(p), Accepts(p), pc = "csw" PROVE FALSE
      BY <2>1 DEF ReceiveStatus
    <3>1. p.of = work /\ phase = "status"
      BY SendsWork DEF IInv, Accepts
    <3> QED
      BY <3>1, AcceptsOwn DEF Accepts
  <2>2. CASE ~ReceiveStatus
    BY <2>2 DEF Next, Begin, SendCbw, SendCbwFails, ReceiveData, EndData, DataFails,
                StatusFails, TakesBuffered, Halts, End, Restart
  <2> QED
    BY <2>1, <2>2
<1> QED
  BY <1>1, InitInv, StepInv, PTL DEF Spec, NeverBackInStep
=============================================================================
