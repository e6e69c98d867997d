---------------------- MODULE BulkOnlyTransportProofs ----------------------
(***************************************************************************)
(* Proofs about BulkOnlyTransport, for any number of guests and commands,  *)
(* any lengths and any losses.                                             *)
(*                                                                         *)
(* A live guest and the device are in step, so that what the device has    *)
(* for the guest belongs to the command of the guest; only at the first    *)
(* command of a guest the device may be anywhere, and that one has no data.*)
(***************************************************************************)
EXTENDS BulkOnlyTransport, TLAPS

Busy == pc \in {"cbw", "in", "out", "csw"}

\* The data phase of the device has packets left, and no more than its command.
Ahead == phase \in {"in", "out"} => left > 0 /\ left <= work.len

\* The command of a busy guest is its last one, and its first has no data.
Current ==
  /\ Busy => tag = cmd.tag + 1 /\ cmd.session = session
  /\ Busy /\ cmd.tag = 0 => cmd.op = "ready" /\ cmd.len = 0
  /\ pc = "in" => cmd.len > 0
  /\ pc = "sense" => tag > 0

\* The first command of any guest.
FirstWork == work.tag = 0 => work.op = "ready" /\ work.len = 0

\* The device waits for the command of the guest, never got it, or works on it.
Matched ==
  /\ pc = "cbw" /\ cmd.tag > 0 => phase = "ready"
  /\ Busy /\ cmd.tag > 0 => phase \in {"ready", "halted"} \/ work = cmd

\* What the guest has is the start of its command's data, or no status is to come.
Prefix ==
  /\ pc \in {"cbw", "out"} => got = <<>>
  /\ pc = "in" /\ phase = "in" => Len(got) = cmd.len - left
  /\ pc \in {"in", "csw"} =>
       \/ phase = "ready"
       \/ \A i \in DOMAIN got : got[i].kind = "data" /\ got[i].of = cmd /\ got[i].index = i

IInv ==
  /\ TypeInv /\ Ahead /\ Current /\ FirstWork /\ Matched /\ Prefix
  /\ InStep /\ StatusIsOwn /\ DataIsOwn

-----------------------------------------------------------------------------
LEMMA InitInv == Init => IInv
<1> SUFFICES ASSUME Init PROVE IInv
  OBVIOUS
<1> USE DEF Init, NoCommand, Command, Csw
<1>1. NoCommand \in Commands /\ Csw(NoCommand, "passed") \in Packets
  BY DEF Commands, Ops, Packets, Verdict
<1>2. TypeInv
  BY <1>1, BulkAssumption DEF TypeInv
<1>3. Ahead /\ Current /\ FirstWork /\ Matched /\ Prefix /\ InStep /\ StatusIsOwn /\ DataIsOwn
  BY DEF Ahead, Current, Busy, FirstWork, Matched, Prefix, InStep, StatusIsOwn, DataIsOwn
<1> QED
  BY <1>2, <1>3 DEF IInv

LEMMA BeginInv ==
  ASSUME IInv, NEW op \in Ops, NEW len, Begin(op, len)
  PROVE  IInv'
<1> USE DEF IInv, Begin, device
<1>1. len \in Nat /\ tag \in Nat /\ tag < MaxTag /\ MaxTag \in Nat /\ session \in Nat
  <2>1. len \in Nat
    <3>1. len = 0 \/ len = 1 \/ len \in Reads \/ len \in Writes
      BY DEF MayBegin
    <3>2. Reads \subseteq Nat /\ Writes \subseteq Nat
      BY BulkAssumption
    <3>3. 0 \in Nat /\ 1 \in Nat
      OBVIOUS
    <3> HIDE DEF Begin, device, IInv
    <3> QED
      BY <3>1, <3>2, <3>3, Zenon
  <2>2. session \in 1..MaxSessions /\ tag \in 0..MaxTag
    BY DEF TypeInv
  <2> QED
    BY <2>1, <2>2, BulkAssumption
<1>2. cmd' \in Commands /\ cmd'.op = op /\ cmd'.len = len /\ cmd'.session = session /\ cmd'.tag = tag
  BY <1>1 DEF Command, Commands
<1>3. TypeInv'
  BY <1>1, <1>2 DEF TypeInv
<1>4. Ahead' /\ FirstWork' /\ StatusIsOwn' /\ DataIsOwn' /\ InStep'
  BY DEF Ahead, FirstWork, StatusIsOwn, DataIsOwn, InStep
<1>5. Current'
  BY <1>1, <1>2 DEF Current, Busy, MayBegin
<1>6. Matched' /\ Prefix'
  BY <1>1, <1>2 DEF Matched, Busy, MayBegin, InStep, Current, Prefix
<1> QED
  BY <1>3, <1>4, <1>5, <1>6

LEMMA SendCbwInv ==
  ASSUME IInv, SendCbw
  PROVE  IInv'
<1> USE DEF IInv, SendCbw, guest, device
<1>1. /\ cmd \in Commands /\ cmd.len \in Nat /\ cmd.tag \in Nat
      /\ (UNCHANGED <<work, left>> /\ phase' \in {phase, "status"})
           \/ (work' = cmd /\ left' = cmd.len /\ phase = "ready")
  BY DEF TypeInv, Commands, TakesCbw
<1>2. TypeInv'
  BY <1>1 DEF TypeInv, TakesCbw
<1>3. Ahead' /\ FirstWork'
  BY <1>1 DEF Ahead, FirstWork, Current, Busy, TakesCbw
<1>4. Current' /\ Matched'
  BY <1>1 DEF Current, Matched, Busy, TakesCbw
<1>5. Prefix'
  BY <1>1 DEF Prefix, TakesCbw, TypeInv, Matched, Current, Busy
<1>6. InStep' /\ StatusIsOwn' /\ DataIsOwn'
  BY DEF InStep, StatusIsOwn, DataIsOwn
<1> QED
  BY <1>2, <1>3, <1>4, <1>5, <1>6

\* A packet that leaves the device is of the command the device works on.
LEMMA SendsWork ==
  ASSUME TypeInv, Ahead, NEW p \in Offers, Sends(p)
  PROVE  /\ p \in Packets /\ work' = work /\ left' \in Nat /\ Ahead' /\ p.of = work
         /\ \/ /\ p.kind = "data" /\ p.index = work.len - left + 1
               /\ phase = "in" /\ left' = left - 1 /\ phase' \in {"in", "status"}
            \/ p.kind \in Verdict /\ phase = "status" /\ phase' = "ready" /\ left' = left
<1> USE DEF Sends
<1>0. work \in Commands /\ work.len \in Nat /\ left \in Nat /\ work' = work
  BY DEF TypeInv, Commands
<1>1. CASE phase = "in"
  <2>1. PICK short \in BOOLEAN : p = Data(work, work.len - left + 1, short)
    BY <1>1 DEF Offers
  <2>2. left > 0 /\ left <= work.len /\ work.len - left + 1 \in Nat
    BY <1>0, <1>1 DEF Ahead
  <2>3. p.kind = "data" /\ p.of = work /\ p.index = work.len - left + 1 /\ p \in Packets
    BY <1>0, <2>1, <2>2 DEF Data, Packets
  <2>4. left' = left - 1 /\ left' \in Nat /\ phase' \in {"in", "status"}
    BY <1>0, <2>2, <2>3
  <2>5. Ahead'
    BY <1>0, <2>2, <2>3, <2>4 DEF Ahead
  <2> QED
    BY <1>0, <1>1, <2>3, <2>4, <2>5
<1>2. CASE phase = "status"
  <2>1. PICK v \in Verdict : p = Csw(work, v)
    BY <1>2 DEF Offers, Verdict
  <2>2. p.kind = v /\ p.of = work /\ p \in Packets /\ p.kind # "data"
    BY <1>0, <2>1 DEF Csw, Packets, Verdict
  <2>3. phase' = "ready" /\ left' = left
    BY <2>2
  <2>4. Ahead'
    BY <2>3 DEF Ahead
  <2> QED
    BY <1>0, <1>2, <2>2, <2>3, <2>4
<1> QED
  BY <1>1, <1>2 DEF Offers

LEMMA ReceiveDataInv ==
  ASSUME IInv, ReceiveData
  PROVE  IInv'
<1> USE DEF IInv, guest
<1>1. PICK p \in Offers : Sends(p) /\ got' = Append(got, p)
  BY DEF ReceiveData
<1>2. pc = "in" /\ pc' = "in" /\ ~Complete /\ UNCHANGED <<session, tag, cmd, result>>
  BY DEF ReceiveData
<1>3. /\ p \in Packets /\ work' = work /\ left' \in Nat /\ Ahead' /\ p.of = work
      /\ \/ /\ p.kind = "data" /\ p.index = work.len - left + 1
            /\ phase = "in" /\ left' = left - 1 /\ phase' \in {"in", "status"}
         \/ p.kind \in Verdict /\ phase = "status" /\ phase' = "ready" /\ left' = left
  BY <1>1, SendsWork
<1>4. /\ got \in Seq(Packets) /\ Len(got) \in Nat /\ left \in Nat
      /\ cmd \in Commands /\ cmd.len \in Nat /\ cmd.tag \in Nat
  BY DEF TypeInv, Commands
\* The guest is past its first command, which has no data.
<1>5. cmd.len > 0 /\ cmd.tag > 0 /\ work = cmd
  BY <1>2, <1>3, <1>4 DEF Current, Busy, Matched
<1>6. /\ got' \in Seq(Packets) /\ Len(got') = Len(got) + 1 /\ got'[Len(got) + 1] = p
      /\ DOMAIN got = 1..Len(got) /\ DOMAIN got' = 1..(Len(got) + 1)
      /\ \A i \in 1..Len(got) : got'[i] = got[i]
  BY <1>1, <1>3, <1>4
<1>7. Len(got') <= cmd.len
  <2>1. got = <<>> \/ Len(got) # cmd.len
    BY <1>2 DEF Complete
  <2>2. Len(got) <= cmd.len
    BY DEF TypeInv
  <2> QED
    BY <1>4, <1>5, <1>6, <2>1, <2>2
<1>8. TypeInv'
  BY <1>2, <1>3, <1>4, <1>6, <1>7 DEF TypeInv
<1>9. FirstWork' /\ Current' /\ Matched' /\ InStep'
  BY <1>2, <1>3, <1>5 DEF FirstWork, Current, Matched, InStep, Busy
<1>10. StatusIsOwn' /\ DataIsOwn'
  BY <1>2 DEF StatusIsOwn, DataIsOwn
<1>11. Prefix'
  <2>1. CASE phase = "status"
    BY <1>2, <1>3, <2>1 DEF Prefix, Verdict
  <2>2. CASE phase = "in"
    <3>1. Len(got) = cmd.len - left /\ p.kind = "data" /\ p.index = Len(got) + 1 /\ left' = left - 1
      BY <1>2, <1>3, <1>4, <1>5, <2>2 DEF Prefix
    <3>2. \A i \in DOMAIN got : got[i].kind = "data" /\ got[i].of = cmd /\ got[i].index = i
      BY <1>2, <2>2 DEF Prefix
    <3>3. \A i \in DOMAIN got' :
            got'[i].kind = "data" /\ got'[i].of = cmd /\ got'[i].index = i
      BY <1>3, <1>4, <1>5, <1>6, <3>1, <3>2
    <3>4. Len(got') = cmd.len - left'
      BY <1>4, <1>6, <3>1
    <3> QED
      BY <1>2, <3>3, <3>4 DEF Prefix
  <2> QED
    BY <1>3, <2>1, <2>2
<1> QED
  BY <1>3, <1>8, <1>9, <1>10, <1>11

LEMMA TransferEndInv ==
  ASSUME IInv, EndData \/ SendData \/ EndSend
  PROVE  IInv'
<1> USE DEF IInv, guest, device
<1>1. /\ cmd.len \in Nat /\ cmd.tag \in Nat /\ left \in Nat /\ <<>> \in Seq(Packets) /\ Len(<<>>) = 0
      /\ UNCHANGED <<session, tag, cmd, result, work>>
  BY DEF TypeInv, Commands, EndData, SendData, EndSend, TakesData
<1>2. CASE EndData \/ EndSend
  <2>1. UNCHANGED device /\ pc \in {"in", "out"} /\ pc' = "csw" /\ (got' = got \/ got' = <<>>)
    BY <1>2 DEF EndData, EndSend
  <2>2. TypeInv'
    <3>1. got' \in Seq(Packets) /\ Len(got') <= cmd.len
      <4>1. CASE got' = got
        BY <4>1 DEF TypeInv
      <4>2. CASE got' = <<>>
        BY <1>1, <4>2
      <4> QED
        BY <2>1, <4>1, <4>2
    <3> QED
      BY <1>1, <2>1, <3>1 DEF TypeInv
  <2>3. Ahead' /\ FirstWork' /\ Current' /\ Matched'
    BY <1>1, <2>1 DEF Ahead, FirstWork, Current, Matched, Busy
  <2>4. Prefix'
    <3>1. CASE got' = got /\ pc = "in"
      BY <1>1, <2>1, <3>1 DEF Prefix
    <3>2. CASE got' = <<>>
      BY <2>1, <3>2 DEF Prefix
    <3> QED
      BY <2>1, <3>1, <3>2 DEF Prefix
  <2>5. InStep' /\ StatusIsOwn' /\ DataIsOwn'
    BY <1>1, <2>1 DEF InStep, StatusIsOwn, DataIsOwn
  <2> QED
    BY <2>2, <2>3, <2>4, <2>5
<1>3. CASE SendData
  <2>1. /\ pc = "out" /\ pc' = "out" /\ got' = got
        /\ \/ phase = "out" /\ left' = left - 1 /\ phase' = IF left = 1 THEN "status" ELSE "out"
           \/ phase = "ready" /\ phase' = "halted" /\ left' = left
    BY <1>3 DEF SendData, TakesData
  <2>2. TypeInv' /\ Ahead'
    <3>1. left' \in Nat /\ phase' \in {"out", "status", "halted"} /\ Ahead'
      BY <1>1, <2>1 DEF Ahead, TypeInv, Commands
    <3> QED
      BY <1>1, <2>1, <3>1 DEF TypeInv
  <2>3. FirstWork' /\ Current' /\ Matched'
    BY <1>1, <2>1 DEF FirstWork, Current, Matched, Busy
  <2>4. got = <<>>
    BY <2>1 DEF Prefix
  <2>5. Prefix'
    BY <1>1, <2>1, <2>4 DEF Prefix
  <2>6. InStep' /\ StatusIsOwn' /\ DataIsOwn'
    BY <1>1, <2>1 DEF InStep, StatusIsOwn, DataIsOwn
  <2> QED
    BY <2>2, <2>3, <2>5, <2>6
<1> QED
  BY <1>2, <1>3

LEMMA StatusInv ==
  ASSUME IInv, ReceiveStatus \/ StatusTimesOut
  PROVE  IInv'
<1> USE DEF IInv, guest, device
<1>1. /\ pc = "csw" /\ UNCHANGED <<session, tag, cmd, got>>
      /\ cmd \in Commands /\ cmd.tag \in Nat /\ work \in Commands /\ got \in Seq(Packets)
  BY DEF TypeInv, Commands, ReceiveStatus, StatusTimesOut
<1>2. /\ work' = work /\ left' \in Nat /\ Ahead'
      /\ phase' \in {"ready", "in", "out", "status", "halted"}
  BY SendsWork DEF ReceiveStatus, StatusTimesOut, TypeInv, Ahead
<1>3. FirstWork'
  BY <1>2 DEF FirstWork
<1>4. CASE pc' = "dead" /\ UNCHANGED result
  <2>1. TypeInv'
    BY <1>1, <1>2, <1>4 DEF TypeInv
  <2>2. Current' /\ Matched' /\ Prefix' /\ InStep' /\ StatusIsOwn' /\ DataIsOwn'
    BY <1>4 DEF Current, Matched, Prefix, InStep, StatusIsOwn, DataIsOwn, Busy
  <2> QED
    BY <1>2, <1>3, <2>1, <2>2
<1>5. ASSUME NEW p \in Offers, Sends(p), Accepts(p), pc' = AfterStatus(p),
             result' = [cmd |-> cmd, status |-> p, data |-> got]
      PROVE  IInv'
  <2>1. p \in Packets /\ p.of = work /\ phase = "status" /\ phase' = "ready"
    BY <1>5, SendsWork DEF Accepts, Verdict
  <2>2. work.tag = cmd.tag /\ pc' \in {"idle", "sense", "dead"} /\ tag > 0
    BY <1>1, <1>5, <2>1 DEF Accepts, AfterStatus, Current, Busy
  <2>3. TypeInv'
    BY <1>1, <1>2, <1>5, <2>1, <2>2 DEF TypeInv
  <2>4. Current' /\ Matched' /\ Prefix' /\ InStep'
    BY <1>1, <2>1, <2>2 DEF Current, Matched, Prefix, InStep, Busy
  <2>5. StatusIsOwn'
    <3>1. CASE work = cmd
      BY <1>5, <2>1, <3>1, <1>1 DEF StatusIsOwn, Commands
    <3>2. CASE work # cmd
      <4>1. cmd.tag = 0
        BY <1>1, <2>1, <3>2 DEF Matched, Busy
      <4>2. cmd.op = work.op /\ cmd.len = work.len
        BY <1>1, <2>2, <4>1 DEF Current, Busy, FirstWork
      <4>3. work = [cmd EXCEPT !.session = work.session]
        BY <1>1, <2>2, <4>2 DEF Commands
      <4> QED
        BY <1>5, <2>1, <2>2, <4>1, <4>3 DEF StatusIsOwn
    <3> QED
      BY <3>1, <3>2
  <2>6. DataIsOwn'
    BY <1>1, <1>5, <2>1 DEF Prefix, DataIsOwn
  <2> QED
    BY <1>2, <1>3, <2>3, <2>4, <2>5, <2>6
<1> QED
  BY <1>1, <1>4, <1>5 DEF ReceiveStatus, StatusTimesOut

LEMMA OtherInv ==
  ASSUME IInv, GivesUp \/ Kill \/ Restart
  PROVE  IInv'
<1> USE DEF IInv, guest, device
<1>1. CASE GivesUp
  <2>1. /\ phase \in {"in", "out"} /\ phase' \in {"status", "halted"}
        /\ UNCHANGED <<session, tag, cmd, result, pc, got, work, left>>
    BY <1>1 DEF GivesUp
  <2>2. TypeInv' /\ Ahead' /\ FirstWork' /\ Current'
    BY <2>1 DEF TypeInv, Ahead, FirstWork, Current, Busy
  <2>3. Matched' /\ Prefix'
    BY <2>1 DEF Matched, Prefix, Busy
  <2>4. InStep' /\ StatusIsOwn' /\ DataIsOwn'
    BY <2>1 DEF InStep, StatusIsOwn, DataIsOwn
  <2> QED
    BY <2>2, <2>3, <2>4
<1>2. CASE Kill
  <2>1. TypeInv' /\ Ahead' /\ FirstWork'
    BY <1>2 DEF Kill, TypeInv, Ahead, FirstWork
  <2>2. Current' /\ Matched' /\ Prefix' /\ InStep' /\ StatusIsOwn' /\ DataIsOwn'
    BY <1>2 DEF Kill, Current, Matched, Prefix, InStep, StatusIsOwn, DataIsOwn, Busy
  <2> QED
    BY <2>1, <2>2
<1>3. CASE Restart
  <2>1. /\ session' = session + 1 /\ session < MaxSessions /\ tag' = 0 /\ pc' = "idle"
        /\ phase' \in {phase, "ready"} /\ UNCHANGED <<work, left, cmd, got, result>>
    BY <1>3 DEF Restart
  <2>2. TypeInv'
    BY <2>1, BulkAssumption DEF TypeInv
  <2>3. Ahead' /\ FirstWork' /\ Current' /\ Matched' /\ Prefix'
    BY <2>1 DEF Ahead, FirstWork, Current, Matched, Prefix, Busy
  <2>4. InStep' /\ StatusIsOwn' /\ DataIsOwn'
    BY <2>1 DEF InStep, StatusIsOwn, DataIsOwn
  <2> QED
    BY <2>2, <2>3, <2>4
<1> QED
  BY <1>1, <1>2, <1>3

LEMMA StepInv == IInv /\ [Next]_vars => IInv'
<1> SUFFICES ASSUME IInv, [Next]_vars PROVE IInv'
  OBVIOUS
<1>1. CASE UNCHANGED vars
  BY <1>1 DEF vars, guest, device, IInv, TypeInv, Ahead, Current, Busy, FirstWork, Matched,
              Prefix, InStep, StatusIsOwn, DataIsOwn
<1>2. CASE \E op \in Ops, len \in {0, 1} \cup Reads \cup Writes : Begin(op, len)
  BY <1>2, BeginInv
<1>3. CASE SendCbw
  BY <1>3, SendCbwInv
<1>4. CASE ReceiveData
  BY <1>4, ReceiveDataInv
<1>5. CASE EndData \/ SendData \/ EndSend
  BY <1>5, TransferEndInv
<1>6. CASE ReceiveStatus \/ StatusTimesOut
  BY <1>6, StatusInv
<1>7. CASE GivesUp \/ Kill \/ Restart
  BY <1>7, OtherInv
<1> QED
  BY <1>1, <1>2, <1>3, <1>4, <1>5, <1>6, <1>7 DEF Next

\* The transport keeps its types, and no transfer brings more than it asked for.
THEOREM TypeCorrect == Spec => []TypeInv
<1>1. IInv => TypeInv
  BY DEF IInv
<1> QED
  BY <1>1, InitInv, StepInv, PTL DEF Spec

\* The status a command returns with Ok is its own; only the first command of a
\* guest may get that of an earlier guest's first command.
THEOREM StatusOwn == Spec => []StatusIsOwn
<1>1. IInv => StatusIsOwn
  BY DEF IInv
<1> QED
  BY <1>1, InitInv, StepInv, PTL DEF Spec

\* The data a command returns with Ok is the start of its own data.
THEOREM DataOwn == Spec => []DataIsOwn
<1>1. IInv => DataIsOwn
  BY DEF IInv
<1> QED
  BY <1>1, InitInv, StepInv, PTL DEF Spec

\* Between the commands of a live guest the device waits for the next one.
THEOREM DeviceInStep == Spec => []InStep
<1>1. IInv => InStep
  BY DEF IInv
<1> QED
  BY <1>1, InitInv, StepInv, PTL DEF Spec
=============================================================================
