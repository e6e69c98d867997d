---------------------- MODULE TransferLifecycleProofs ----------------------
(***************************************************************************)
(* Proofs about TransferLifecycle, for any number of transfers and slots,  *)
(* any kinds, and any faults.                                              *)
(***************************************************************************)
EXTENDS TransferLifecycle, TLAPS

(***************************************************************************)
(* The inductive invariant.  Its heart is Stage: how far libusb and the    *)
(* callback are with a transfer fixes who owns its buffer, what its flag   *)
(* says and what its channel holds.                                        *)
(***************************************************************************)
Unsubmitted(t) ==
  /\ chan[t] = "none" /\ ~completed[t] /\ ~receiver[t]

Stage(t) ==
  /\ phase[t] = "none" => buffer[t] = "none" /\ Unsubmitted(t)
  /\ phase[t] = "idle" => buffer[t] \in {"transfer", "freed"} /\ Unsubmitted(t)
  /\ phase[t] \in {"inflight", "orphaned"} =>
       buffer[t] = "context" /\ chan[t] = "open" /\ ~completed[t]
  /\ phase[t] = "reaped" =>
       buffer[t] = "context" /\ chan[t] = "open" /\ ~completed[t]
  /\ phase[t] = "stored" =>
       buffer[t] = "context" /\ chan[t] = "open" /\ completed[t]
  /\ phase[t] = "sent" =>
       buffer[t] = "context" /\ chan[t] \in {status[t], "taken"} /\ completed[t]
  /\ phase[t] = "freed" =>
       buffer[t] = "freed" /\ chan[t] \in {status[t], "taken"} /\ completed[t]

\* What the event thread found out is what the guest is told.
Report(t) ==
  /\ phase[t] # "none" => kind[t] \in Kinds
  /\ phase[t] \in {"reaped", "stored", "sent", "freed"} =>
       /\ status[t] \in Status
       /\ chan[t] # "taken" => packets[t] = ((status[t] = "COMPLETED") /\ kind[t].iso)
  /\ chan[t] = "taken" <=> got[t] # None
  /\ got[t] # None => got[t] = Answer(status[t], kind[t].iso)

\* The call in progress has an entry to act on, and what its check saw of the
\* transfer still holds where it has to.
InCall ==
  op # "idle" =>
    /\ cur \in Transfers /\ handle[cur] \in Slots
    /\ table[handle[cur]] \in Transfers
    /\ op \in {"cancel", "drop"} => got[table[handle[cur]]] = None
    /\ op = "submit" => chan[table[handle[cur]]] # "none"

\* The table holds transfers that were made.
Entries == \A s \in Slots : table[s] # None => phase[table[s]] # "none"

IInv ==
  /\ TypeInv
  /\ \A t \in Transfers : Stage(t) /\ Report(t)
  /\ InCall
  /\ Entries
-----------------------------------------------------------------------------
LEMMA AnswerOfReport ==
  ASSUME NEW s \in Status, NEW i \in BOOLEAN
  PROVE  /\ Answer(s, (s = "COMPLETED") /\ i) = Answer(s, i)
         /\ Answer(s, i) \in Answers
  BY DEF Answer, Answers, FromStatus, Status

LEMMA AnswerTyped ==
  ASSUME NEW s \in Status, NEW i \in BOOLEAN
  PROVE  Answer(s, i) \in Answers
  BY AnswerOfReport

LEMMA InitInv == Init => IInv
<1> SUFFICES ASSUME Init PROVE IInv
  OBVIOUS
<1>1. TypeInv
  BY DEF Init, TypeInv, Phase
<1>2. ASSUME NEW t \in Transfers PROVE Stage(t) /\ Report(t)
  BY DEF Init, Stage, Report, Unsubmitted
<1>3. InCall /\ Entries
  BY DEF Init, InCall, Entries
<1> QED
  BY <1>1, <1>2, <1>3 DEF IInv

LEMMA NewTransferInv ==
  ASSUME IInv, NEW t \in Transfers, NEW s \in Slots, NEW k \in Kinds, NewTransfer(t, s, k)
  PROVE  IInv'
<1> USE DEF IInv, NewTransfer, callVars, envVars
<1>1. TypeInv'
  BY DEF TypeInv, Phase
<1>2. ASSUME NEW u \in Transfers PROVE Stage(u)' /\ Report(u)'
  BY NoneAssumption DEF TypeInv, Phase, Stage, Report, Unsubmitted
<1>3. InCall' /\ Entries'
  BY NoneAssumption DEF TypeInv, InCall, Entries
<1> QED
  BY <1>1, <1>2, <1>3

LEMMA SubmitAcceptedInv ==
  ASSUME IInv, NEW h \in Transfers, NEW fits \in BOOLEAN, SubmitAccepted(h, fits)
  PROVE  IInv'
<1> USE DEF IInv, SubmitAccepted, Call, Finds, Begin, guestVars, envVars
<1>1. TypeInv'
  BY NoneAssumption DEF TypeInv, Phase
<1>2. ASSUME NEW u \in Transfers PROVE Stage(u)' /\ Report(u)'
  BY NoneAssumption DEF TypeInv, Phase, Stage, Report, Unsubmitted
<1>3. InCall' /\ Entries'
  BY NoneAssumption DEF TypeInv, InCall, Entries
<1> QED
  BY <1>1, <1>2, <1>3

LEMMA SubmitFailsInv ==
  ASSUME IInv, NEW h \in Transfers, NEW fits \in BOOLEAN, SubmitFails(h, fits)
  PROVE  IInv'
<1> USE DEF IInv, SubmitFails, Call, Finds, guestVars, callVars, usbVars, envVars
<1>1. TypeInv'
  BY NoneAssumption DEF TypeInv, Phase
<1>2. ASSUME NEW u \in Transfers PROVE Stage(u)' /\ Report(u)'
  BY NoneAssumption DEF TypeInv, Phase, Stage, Report, Unsubmitted
<1>3. InCall' /\ Entries'
  BY NoneAssumption DEF TypeInv, InCall, Entries
<1> QED
  BY <1>1, <1>2, <1>3

LEMMA SubmitStoresInv ==
  ASSUME IInv, SubmitStoresReceiver
  PROVE  IInv'
<1> USE DEF IInv, SubmitStoresReceiver, Finds, Return, guestVars, usbVars, envVars
<1>1. TypeInv'
  BY NoneAssumption DEF TypeInv, Phase
<1>2. ASSUME NEW u \in Transfers PROVE Stage(u)' /\ Report(u)'
  BY NoneAssumption DEF TypeInv, Phase, Stage, Report, Unsubmitted, InCall
<1>3. InCall' /\ Entries'
  BY NoneAssumption DEF TypeInv, InCall, Entries
<1> QED
  BY <1>1, <1>2, <1>3

LEMMA PanicInv ==
  ASSUME IInv, NEW what \in {"Failed to get transfer", "buffer not allocated"}, Panic(what)
  PROVE  IInv'
<1> USE DEF IInv, Panic, guestVars, xferVars, usbVars, envVars
<1>1. TypeInv'
  BY NoneAssumption DEF TypeInv, Phase
<1>2. ASSUME NEW u \in Transfers PROVE Stage(u)' /\ Report(u)'
  BY NoneAssumption DEF TypeInv, Phase, Stage, Report, Unsubmitted
<1>3. InCall' /\ Entries'
  BY NoneAssumption DEF TypeInv, InCall, Entries
<1> QED
  BY <1>1, <1>2, <1>3

LEMMA BeginInv ==
  ASSUME IInv, NEW h \in Transfers, NEW t \in Transfers, NEW o \in {"cancel", "drop"},
         Call(h), Finds(h, t), ~completed[t], Begin(o, h),
         UNCHANGED <<guestVars, xferVars, usbVars, envVars>>
  PROVE  IInv'
<1> USE DEF IInv, Call, Finds, Begin, guestVars, xferVars, usbVars, envVars
<1>1. TypeInv'
  BY NoneAssumption DEF TypeInv, Phase
<1>2. ASSUME NEW u \in Transfers PROVE Stage(u)' /\ Report(u)'
  BY DEF TypeInv, Phase, Stage, Report, Unsubmitted
<1>3. got[t] = None
  BY DEF TypeInv, Phase, Stage, Report, Unsubmitted
<1>4. InCall' /\ Entries'
  BY <1>3, NoneAssumption DEF TypeInv, InCall, Entries
<1> QED
  BY <1>1, <1>2, <1>4

LEMMA StutterInv ==
  ASSUME IInv, UNCHANGED vars
  PROVE  IInv'
<1> USE DEF IInv, vars, guestVars, callVars, xferVars, usbVars, envVars
<1>1. TypeInv'
  BY DEF TypeInv
<1>2. ASSUME NEW u \in Transfers PROVE Stage(u)' /\ Report(u)'
  BY DEF Stage, Report, Unsubmitted
<1>3. InCall' /\ Entries'
  BY DEF InCall, Entries
<1> QED
  BY <1>1, <1>2, <1>3

LEMMA SubmitTransferInv ==
  ASSUME IInv, NEW h \in Transfers, NEW fits \in BOOLEAN, SubmitTransfer(h, fits)
  PROVE  IInv'
<1>1. CASE SubmitRefused(h, fits)
  BY <1>1, StutterInv DEF SubmitRefused
<1>2. CASE SubmitPanics(h, fits)
  BY <1>2, PanicInv DEF SubmitPanics
<1>3. CASE SubmitAccepted(h, fits)
  BY <1>3, SubmitAcceptedInv
<1>4. CASE SubmitFails(h, fits)
  BY <1>4, SubmitFailsInv
<1> QED
  BY <1>1, <1>2, <1>3, <1>4 DEF SubmitTransfer

LEMMA CancelTransferInv ==
  ASSUME IInv, NEW h \in Transfers, CancelTransfer(h)
  PROVE  IInv'
<1>1. CASE Panic("Failed to get transfer")
  BY <1>1, PanicInv
<1>2. CASE UNCHANGED vars
  BY <1>2, StutterInv
<1>3. CASE /\ Call(h) /\ \E t \in Transfers : Finds(h, t) /\ ~completed[t]
           /\ Begin("cancel", h)
           /\ UNCHANGED <<guestVars, xferVars, usbVars, envVars>>
  BY <1>3, BeginInv
<1> QED
  BY <1>1, <1>2, <1>3 DEF CancelTransfer

LEMMA DropTransferInv ==
  ASSUME IInv, NEW h \in Transfers, DropTransfer(h)
  PROVE  IInv'
<1>1. CASE /\ Call(h)
           /\ handle' = [handle EXCEPT ![h] = None]
           /\ UNCHANGED <<got, callVars, xferVars, usbVars, envVars>>
  <2> USE <1>1 DEF IInv, Call, callVars, xferVars, usbVars, envVars
  <2>1. TypeInv'
    BY DEF TypeInv
  <2>2. ASSUME NEW u \in Transfers PROVE Stage(u)' /\ Report(u)'
    BY DEF Stage, Report, Unsubmitted
  <2>3. InCall' /\ Entries'
    BY DEF InCall, Entries
  <2> QED
    BY <2>1, <2>2, <2>3
<1>2. CASE /\ Call(h) /\ \E t \in Transfers : Finds(h, t) /\ ~completed[t]
           /\ Begin("drop", h)
           /\ UNCHANGED <<guestVars, xferVars, usbVars, envVars>>
  BY <1>2, BeginInv
<1> QED
  BY <1>1, <1>2 DEF DropTransfer

LEMMA CancelActsInv ==
  ASSUME IInv, CancelActs
  PROVE  IInv'
<1> USE DEF IInv, CancelActs, Finds, LibusbCancel, Return, xferVars, envVars
<1>1. TypeInv'
  BY NoneAssumption DEF TypeInv, Phase
<1>2. ASSUME NEW u \in Transfers PROVE Stage(u)' /\ Report(u)'
  BY NoneAssumption DEF TypeInv, Phase, Stage, Report, Unsubmitted
<1>3. InCall' /\ Entries'
  BY NoneAssumption DEF TypeInv, InCall, Entries
<1> QED
  BY <1>1, <1>2, <1>3

LEMMA AwaitTransferInv ==
  ASSUME IInv, NEW h \in Transfers, AwaitTransfer(h)
  PROVE  IInv'
<1>1. CASE Panic("Failed to get transfer")
  BY <1>1, PanicInv
<1>2. CASE UNCHANGED vars
  BY <1>2, StutterInv
<1>3. CASE /\ Call(h)
           /\ \E t \in Transfers :
                Finds(h, t) /\ receiver[t] /\ receiver' = [receiver EXCEPT ![t] = FALSE]
           /\ Begin("await", h)
           /\ UNCHANGED <<guestVars, table, kind, completed, buffer, packets, chan,
                          usbVars, envVars>>
  <2> USE <1>3 DEF IInv, Call, Finds, Begin, guestVars, usbVars, envVars
  <2>1. TypeInv'
    BY DEF TypeInv
  <2>2. ASSUME NEW u \in Transfers PROVE Stage(u)' /\ Report(u)'
    BY DEF TypeInv, Phase, Stage, Report, Unsubmitted
  <2>3. InCall' /\ Entries'
    BY NoneAssumption DEF TypeInv, InCall, Entries
  <2> QED
    BY <2>1, <2>2, <2>3
<1> QED
  BY <1>1, <1>2, <1>3 DEF AwaitTransfer

LEMMA AwaitReturnsInv ==
  ASSUME IInv, AwaitReturns
  PROVE  IInv'
<1> USE DEF IInv, AwaitReturns, Finds, Return, usbVars, envVars
<1>1. PICK t \in Transfers :
        /\ table[handle[cur]] = t /\ chan[t] \in Status
        /\ got' = [got EXCEPT ![t] = Answer(chan[t], packets[t])]
        /\ chan' = [chan EXCEPT ![t] = "taken"]
        /\ IF chan[t] = "COMPLETED"
             THEN /\ packets' = [packets EXCEPT ![t] = FALSE]
                  /\ table' = [table EXCEPT ![handle[cur]] = None]
             ELSE UNCHANGED <<packets, table>>
  OBVIOUS
<1>2. /\ phase[t] \in {"sent", "freed"} /\ chan[t] = status[t]
      /\ kind[t] \in Kinds /\ kind[t].iso \in BOOLEAN
      /\ packets[t] = ((status[t] = "COMPLETED") /\ kind[t].iso)
  BY <1>1, KindsAssumption DEF TypeInv, Phase, Stage, Report, Unsubmitted, Status
<1>3. /\ Answer(chan[t], packets[t]) = Answer(status[t], kind[t].iso)
      /\ Answer(chan[t], packets[t]) \in Answers
  BY <1>1, <1>2, AnswerOfReport
<1>4. TypeInv'
  <2>1. got' \in [Transfers -> Answers \cup {None}]
    BY <1>1, <1>3 DEF TypeInv
  <2>2. chan' \in [Transfers -> Status \cup {"none", "open", "taken"}]
    BY <1>1 DEF TypeInv
  <2>3. packets' \in [Transfers -> BOOLEAN] /\ table' \in [Slots -> Transfers \cup {None}]
    <3>1. \/ packets' = [packets EXCEPT ![t] = FALSE] /\ table' = [table EXCEPT ![handle[cur]] = None]
          \/ packets' = packets /\ table' = table
      BY <1>1, Zenon
    <3>2. packets \in [Transfers -> BOOLEAN] /\ table \in [Slots -> Transfers \cup {None}]
      BY Zenon DEF TypeInv
    <3> HIDE DEF IInv, AwaitReturns
    <3>3. packets' \in [Transfers -> BOOLEAN]
      BY <3>1, <3>2
    <3>4. table' \in [Slots -> Transfers \cup {None}]
      BY <3>1, <3>2
    <3> QED
      BY <3>3, <3>4
  <2> QED
    BY <1>1, <2>1, <2>2, <2>3 DEF TypeInv
<1>5. ASSUME NEW u \in Transfers PROVE Stage(u)' /\ Report(u)'
  <2>1. CASE u = t
    BY <2>1, <1>1, <1>2, <1>3, NoneAssumption DEF TypeInv, Stage, Report
  <2>2. CASE u # t
    BY <2>2, <1>1 DEF TypeInv, Stage, Report, Unsubmitted
  <2> QED
    BY <2>1, <2>2
<1>6. InCall' /\ Entries'
  BY <1>1 DEF TypeInv, InCall, Entries
<1> QED
  BY <1>4, <1>5, <1>6

LEMMA DropDeviceHandleInv ==
  ASSUME IInv, DropDeviceHandle
  PROVE  IInv'
<1> USE DEF IInv, DropDeviceHandle, guestVars, callVars, xferVars
<1>1. TypeInv'
  BY NoneAssumption DEF TypeInv, Phase
<1>2. ASSUME NEW u \in Transfers PROVE Stage(u)' /\ Report(u)'
  BY NoneAssumption DEF TypeInv, Phase, Stage, Report, Unsubmitted
<1>3. InCall' /\ Entries'
  BY NoneAssumption DEF TypeInv, InCall, Entries
<1> QED
  BY <1>1, <1>2, <1>3

LEMMA ReapInv ==
  ASSUME IInv, NEW t \in Transfers, NEW s \in Reports, Reap(t, s)
  PROVE  IInv'
<1> USE DEF IInv, Reap, guestVars, callVars, envVars
<1>1. TypeInv'
  BY ReportsAssumption, NoneAssumption DEF TypeInv, Phase
<1>2. ASSUME NEW u \in Transfers PROVE Stage(u)' /\ Report(u)'
  BY ReportsAssumption, NoneAssumption DEF TypeInv, Phase, Stage, Report, Unsubmitted
<1>3. InCall' /\ Entries'
  BY ReportsAssumption, NoneAssumption DEF TypeInv, InCall, Entries
<1> QED
  BY <1>1, <1>2, <1>3

LEMMA CallbackStoresInv ==
  ASSUME IInv, NEW t \in Transfers, CallbackStores(t)
  PROVE  IInv'
<1> USE DEF IInv, CallbackStores, guestVars, callVars, envVars
<1>1. TypeInv'
  BY NoneAssumption DEF TypeInv, Phase
<1>2. ASSUME NEW u \in Transfers PROVE Stage(u)' /\ Report(u)'
  BY NoneAssumption DEF TypeInv, Phase, Stage, Report, Unsubmitted
<1>3. InCall' /\ Entries'
  BY NoneAssumption DEF TypeInv, InCall, Entries
<1> QED
  BY <1>1, <1>2, <1>3

LEMMA CallbackSendsInv ==
  ASSUME IInv, NEW t \in Transfers, CallbackSends(t)
  PROVE  IInv'
<1> USE DEF IInv, CallbackSends, guestVars, callVars, envVars
<1>1. status[t] \in Status /\ status[t] # "taken" /\ status[t] # "none"
  BY DEF Report, Status
<1>2. TypeInv'
  BY <1>1 DEF TypeInv, Phase
<1>3. ASSUME NEW u \in Transfers PROVE Stage(u)' /\ Report(u)'
  <2>1. CASE u = t
    BY <2>1, <1>1 DEF TypeInv, Phase, Stage, Report
  <2>2. CASE u # t
    BY <2>2 DEF TypeInv, Phase, Stage, Report, Unsubmitted
  <2> QED
    BY <2>1, <2>2
<1>4. InCall' /\ Entries'
  BY <1>1 DEF TypeInv, InCall, Entries
<1> QED
  BY <1>2, <1>3, <1>4

LEMMA CallbackFreesInv ==
  ASSUME IInv, NEW t \in Transfers, CallbackFrees(t)
  PROVE  IInv'
<1> USE DEF IInv, CallbackFrees, guestVars, callVars, envVars
<1>1. TypeInv'
  BY NoneAssumption DEF TypeInv, Phase
<1>2. ASSUME NEW u \in Transfers PROVE Stage(u)' /\ Report(u)'
  BY NoneAssumption DEF TypeInv, Phase, Stage, Report, Unsubmitted
<1>3. InCall' /\ Entries'
  BY NoneAssumption DEF TypeInv, InCall, Entries
<1> QED
  BY <1>1, <1>2, <1>3

LEMMA StepInv ==
  ASSUME IInv, [Next]_vars
  PROVE  IInv'
<1>1. CASE \E t \in Transfers, s \in Slots, k \in Kinds : NewTransfer(t, s, k)
  BY <1>1, NewTransferInv
<1>2. CASE \E h \in Transfers, fits \in BOOLEAN : SubmitTransfer(h, fits)
  BY <1>2, SubmitTransferInv
<1>3. CASE \E h \in Transfers : CancelTransfer(h) \/ DropTransfer(h) \/ AwaitTransfer(h)
  BY <1>3, CancelTransferInv, DropTransferInv, AwaitTransferInv
<1>4. CASE HostReturns
  BY <1>4, SubmitStoresInv, CancelActsInv, AwaitReturnsInv DEF HostReturns
<1>5. CASE DropDeviceHandle
  BY <1>5, DropDeviceHandleInv
<1>6. CASE \E t \in Transfers, s \in Reports : Reap(t, s)
  BY <1>6, ReapInv
<1>7. CASE \E t \in Transfers : TransferCallback(t)
  BY <1>7, CallbackStoresInv, CallbackSendsInv, CallbackFreesInv DEF TransferCallback
<1>8. CASE EventLoopStops \/ Unplug
  <2> USE <1>8 DEF IInv, EventLoopStops, Unplug, guestVars, callVars, xferVars, usbVars
  <2>1. TypeInv'
    BY DEF TypeInv
  <2>2. ASSUME NEW u \in Transfers PROVE Stage(u)' /\ Report(u)'
    BY DEF Stage, Report, Unsubmitted
  <2>3. InCall' /\ Entries'
    BY DEF InCall, Entries
  <2> QED
    BY <2>1, <2>2, <2>3
<1>9. CASE Gone \/ UNCHANGED vars
  BY <1>9, StutterInv DEF Gone
<1> QED
  BY <1>1, <1>2, <1>3, <1>4, <1>5, <1>6, <1>7, <1>8, <1>9 DEF Next

LEMMA Invariance == Spec => []IInv
  BY InitInv, StepInv, PTL DEF Spec
-----------------------------------------------------------------------------
\* Every variable keeps its type.
THEOREM TypeCorrect == Spec => []TypeInv
  BY Invariance, PTL DEF IInv

\* The buffer of a transfer that libusb or its callback holds belongs to the
\* boxed context.
THEOREM BufferSafe == Spec => []BufferOutlivesTransfer
<1>1. IInv => BufferOutlivesTransfer
  BY DEF IInv, Stage, BufferOutlivesTransfer, InCallback
<1> QED
  BY <1>1, Invariance, PTL

\* A cancel or a drop on its way to libusb is never one of an answered transfer.
THEOREM CancelSafe == Spec => []NoCancelAfterAnswer
<1>1. IInv => NoCancelAfterAnswer
  BY DEF IInv, InCall, NoCancelAfterAnswer, Finds
<1> QED
  BY <1>1, Invariance, PTL

\* The guest is told what libusb reported of its transfer.
THEOREM AnswerCorrect == Spec => []AnswerIsReported
<1>1. IInv => AnswerIsReported
  BY DEF IInv, TypeInv, Phase, Stage, Report, Unsubmitted, AnswerIsReported
<1> QED
  BY <1>1, Invariance, PTL

\* libusb is given each transfer once.
THEOREM SubmittedOnceHolds == Spec => SubmittedOnce
<1> DEFINE Once == \A t \in Transfers :
       phase'[t] \in {"inflight", "orphaned"} =>
         phase[t] = "idle" \/ phase[t] = "inflight" \/ phase'[t] = phase[t]
<1>1. IInv /\ [Next]_vars => Once
  <2> SUFFICES ASSUME IInv, [Next]_vars PROVE Once
    OBVIOUS
  <2>1. CASE \E h \in Transfers, fits \in BOOLEAN : SubmitAccepted(h, fits)
    <3>1. PICK t \in Transfers :
            /\ buffer[t] = "transfer"
            /\ \/ phase' = [phase EXCEPT ![t] = "inflight"]
               \/ phase' = [phase EXCEPT ![t] = "orphaned"]
      BY <2>1 DEF SubmitAccepted
    <3>2. phase[t] = "idle"
      BY <3>1 DEF IInv, TypeInv, Phase, Stage
    <3> QED
      BY <3>1, <3>2 DEF IInv, TypeInv
  <2>2. CASE DropDeviceHandle
    BY <2>2 DEF IInv, TypeInv, DropDeviceHandle
  <2>3. CASE \E t \in Transfers, s \in Reports : Reap(t, s)
    BY <2>3 DEF IInv, TypeInv, Reap
  <2>4. CASE \E t \in Transfers : TransferCallback(t)
    <3>1. PICK t \in Transfers, to \in {"stored", "sent", "freed"} : phase' = [phase EXCEPT ![t] = to]
      BY <2>4 DEF TransferCallback, CallbackStores, CallbackSends, CallbackFrees
    <3> QED
      BY <3>1 DEF IInv, TypeInv
  <2>5. CASE \E t \in Transfers, s \in Slots, k \in Kinds : NewTransfer(t, s, k)
    BY <2>5 DEF IInv, TypeInv, NewTransfer
  <2>6. CASE UNCHANGED phase
    BY <2>6
  <2> QED
    BY <2>1, <2>2, <2>3, <2>4, <2>5, <2>6
       DEF Next, SubmitTransfer, SubmitRefused, SubmitPanics, SubmitFails, CancelTransfer,
           DropTransfer, AwaitTransfer, HostReturns, SubmitStoresReceiver, CancelActs,
           AwaitReturns, EventLoopStops, Unplug, Gone, Panic, vars, usbVars
<1> QED
  BY <1>1, Invariance, PTL DEF Spec, SubmittedOnce
-----------------------------------------------------------------------------
(***************************************************************************)
(* Refinement: what each stage of TransferPromise is here, and which       *)
(* action makes which move.                                                *)
(***************************************************************************)
Promise == [t \in Transfers |-> Promised(t)]

LEMMA Stages ==
  ASSUME NEW t \in Transfers
  PROVE  /\ got[t] # None => Promised(t) = P!Stage("taken", got[t])
         /\ got[t] = None /\ chan[t] \in Status =>
              Promised(t) = P!Stage("resolved", Answer(chan[t], packets[t]))
         /\ got[t] = None /\ chan[t] = "open" => Promised(t) = P!Unanswered("pending")
         /\ got[t] = None /\ chan[t] = "none" /\ phase[t] = "none"
              => Promised(t) = P!Unanswered("unmade")
         /\ got[t] = None /\ chan[t] = "none" /\ phase[t] # "none" /\ buffer[t] = "transfer"
              => Promised(t) = P!Unanswered("ready")
         /\ got[t] = None /\ chan[t] = "none" /\ phase[t] # "none" /\ buffer[t] # "transfer"
              => Promised(t) = P!Unanswered("broken")
<1>1. "open" \notin Status /\ "none" \notin Status
  BY DEF Status
<1> QED
  BY <1>1 DEF Promised, P!Stage, P!Unanswered

LEMMA Moves ==
  ASSUME NEW t \in Transfers, NEW a, NEW b, Promised(t) = a, Promised(t)' = b,
         \A u \in Transfers \ {t} : Promised(u)' = Promised(u)
  PROVE  /\ Promise[t] = a
         /\ Promise' = [Promise EXCEPT ![t] = b]
  BY DEF Promise

\* What the mapping looks at.
Unseen(u) ==
  /\ got'[u] = got[u] /\ chan'[u] = chan[u]
  /\ chan[u] \in Status => packets'[u] = packets[u]
  /\ (phase'[u] = "none") <=> (phase[u] = "none")
  /\ (buffer'[u] = "transfer") <=> (buffer[u] = "transfer")

LEMMA UnseenStutters ==
  ASSUME NEW u \in Transfers, Unseen(u)
  PROVE  Promised(u)' = Promised(u)
  BY DEF Unseen, Promised

LEMMA AllUnseenStutters ==
  ASSUME \A u \in Transfers : Unseen(u)
  PROVE  Promise' = Promise
  BY UnseenStutters DEF Promise

LEMMA MadeIsMake ==
  ASSUME IInv, NEW t \in Transfers, NEW s \in Slots, NEW k \in Kinds, NewTransfer(t, s, k)
  PROVE  P!Next
<1>1. /\ got[t] = None /\ chan[t] = "none" /\ got' = got /\ chan' = chan /\ phase[t] = "none"
      /\ phase'[t] = "idle" /\ buffer'[t] = "transfer"
  BY DEF NewTransfer, IInv, TypeInv, Stage, Report, Unsubmitted
<1>2. Promised(t) = P!Unanswered("unmade") /\ Promised(t)' = P!Unanswered("ready")
  BY <1>1 DEF Promised, P!Unanswered, P!Stage, Status
<1>3. \A u \in Transfers \ {t} : Unseen(u)
  BY DEF NewTransfer, IInv, TypeInv, Unseen
<1>4. P!Make(t)
  BY <1>2, <1>3, UnseenStutters, Moves DEF P!Make, P!Move, Promise
<1> QED
  BY <1>4 DEF P!Next

LEMMA SubmittedIsSubmit ==
  ASSUME IInv, NEW h \in Transfers, NEW fits \in BOOLEAN, SubmitAccepted(h, fits)
  PROVE  P!Next
<1>1. PICK t \in Transfers :
        /\ buffer[t] = "transfer"
        /\ \/ phase' = [phase EXCEPT ![t] = "inflight"]
           \/ phase' = [phase EXCEPT ![t] = "orphaned"]
        /\ buffer' = [buffer EXCEPT ![t] = "context"]
        /\ chan' = [chan EXCEPT ![t] = "open"]
        /\ got' = got /\ packets' = packets
  BY DEF SubmitAccepted, guestVars
<1>2. got[t] = None /\ chan[t] = "none" /\ phase[t] = "idle" /\ chan'[t] = "open"
  BY <1>1 DEF IInv, TypeInv, Phase, Stage, Report, Unsubmitted
<1>3. Promised(t) = P!Unanswered("ready") /\ Promised(t)' = P!Unanswered("pending")
  BY <1>1, <1>2 DEF Promised, P!Unanswered, P!Stage, Status
<1>4. \A u \in Transfers \ {t} : Unseen(u)
  BY <1>1 DEF IInv, TypeInv, Unseen
<1>5. P!Submit(t)
  BY <1>3, <1>4, UnseenStutters, Moves DEF P!Submit, P!Move, Promise
<1> QED
  BY <1>5 DEF P!Next

LEMMA RefusedIsBreak ==
  ASSUME IInv, NEW h \in Transfers, NEW fits \in BOOLEAN, SubmitFails(h, fits)
  PROVE  P!Next
<1>1. PICK t \in Transfers :
        /\ buffer[t] = "transfer" /\ buffer' = [buffer EXCEPT ![t] = "freed"]
        /\ UNCHANGED <<got, chan, packets, phase>>
  BY DEF SubmitFails, guestVars, usbVars
<1>2. got[t] = None /\ chan[t] = "none" /\ phase[t] = "idle" /\ buffer'[t] = "freed"
  BY <1>1 DEF IInv, TypeInv, Phase, Stage, Report, Unsubmitted
<1>3. Promised(t) = P!Unanswered("ready") /\ Promised(t)' = P!Unanswered("broken")
  BY <1>1, <1>2 DEF Promised, P!Unanswered, P!Stage, Status
<1>4. \A u \in Transfers \ {t} : Unseen(u)
  BY <1>1 DEF IInv, TypeInv, Unseen
<1>5. P!Break(t)
  BY <1>3, <1>4, UnseenStutters, Moves DEF P!Break, P!Move, Promise
<1> QED
  BY <1>5 DEF P!Next

LEMMA SentIsResolve ==
  ASSUME IInv, NEW t \in Transfers, CallbackSends(t)
  PROVE  P!Next
<1>1. /\ got[t] = None /\ chan[t] = "open" /\ status[t] \in Status
      /\ kind[t] \in Kinds /\ packets[t] \in BOOLEAN
  BY DEF CallbackSends, IInv, TypeInv, Stage, Report
<1>2. got' = got /\ packets' = packets /\ chan'[t] = status[t]
  BY DEF CallbackSends, guestVars, IInv, TypeInv
<1>3. /\ Promised(t) = P!Unanswered("pending")
      /\ Promised(t)' = P!Stage("resolved", Answer(status[t], packets[t]))
  BY <1>1, <1>2, Stages DEF Promised, P!Stage
<1>4. Answer(status[t], packets[t]) \in Answers
  BY <1>1, AnswerTyped
<1>5. \A u \in Transfers \ {t} : Unseen(u)
  BY <1>2 DEF CallbackSends, IInv, TypeInv, Unseen
<1>6. P!Resolve(t)
  BY <1>3, <1>4, <1>5, UnseenStutters, Moves DEF P!Resolve, P!Move, Promise
<1> QED
  BY <1>6 DEF P!Next

LEMMA ReturnedIsTake ==
  ASSUME IInv, AwaitReturns
  PROVE  P!Next
<1>1. PICK t \in Transfers :
        /\ chan[t] \in Status
        /\ got' = [got EXCEPT ![t] = Answer(chan[t], packets[t])]
        /\ chan' = [chan EXCEPT ![t] = "taken"]
        /\ packets' = [packets EXCEPT ![t] = FALSE] \/ packets' = packets
        /\ phase' = phase /\ buffer' = buffer
  BY DEF AwaitReturns, usbVars
<1>2. got[t] = None /\ packets[t] \in BOOLEAN
  BY <1>1 DEF IInv, TypeInv, Report, Status
<1>3. Answer(chan[t], packets[t]) \in Answers
  BY <1>1, <1>2, AnswerTyped
<1>4. got'[t] = Answer(chan[t], packets[t]) /\ got'[t] # None
  BY <1>1, <1>3, NoneAssumption DEF IInv, TypeInv
<1>5. /\ Promised(t) = P!Stage("resolved", Answer(chan[t], packets[t]))
      /\ Promised(t)' = P!Stage("taken", Answer(chan[t], packets[t]))
  BY <1>1, <1>2, <1>4 DEF Promised, P!Stage
<1>6. \A u \in Transfers \ {t} : Unseen(u)
  BY <1>1 DEF IInv, TypeInv, Unseen
<1>7. P!Take(t)
  BY <1>3, <1>5, <1>6, UnseenStutters, Moves DEF P!Take, P!Move, Promise
<1> QED
  BY <1>7 DEF P!Next

LEMMA ReapStutters ==
  ASSUME IInv, NEW t \in Transfers, NEW s \in Reports, Reap(t, s)
  PROVE  Promise' = Promise
<1>1. chan[t] = "open"
  BY DEF Reap, IInv, Stage
<1>2. \A u \in Transfers : Unseen(u)
  BY <1>1 DEF Reap, guestVars, IInv, TypeInv, Unseen, Status
<1> QED
  BY <1>2, AllUnseenStutters

LEMMA OthersStutter ==
  ASSUME IInv, UNCHANGED <<got, chan, packets>>,
         \/ UNCHANGED <<phase, buffer>>
         \/ DropDeviceHandle
         \/ \E t \in Transfers : CallbackStores(t) \/ CallbackFrees(t)
  PROVE  Promise' = Promise
<1>1. CASE UNCHANGED <<phase, buffer>>
  BY <1>1, AllUnseenStutters DEF Unseen
<1>2. CASE DropDeviceHandle
  <2>1. \A u \in Transfers : Unseen(u)
    BY <1>2 DEF DropDeviceHandle, xferVars, IInv, TypeInv, Unseen
  <2> QED
    BY <2>1, AllUnseenStutters
<1>3. ASSUME NEW t \in Transfers, CallbackStores(t) \/ CallbackFrees(t)
      PROVE  Promise' = Promise
  <2>1. CASE CallbackStores(t)
    <3>1. \A u \in Transfers : Unseen(u)
      BY <2>1 DEF CallbackStores, IInv, TypeInv, Unseen
    <3> QED
      BY <3>1, AllUnseenStutters
  <2>2. CASE CallbackFrees(t)
    <3>1. buffer[t] = "context"
      BY <2>2 DEF CallbackFrees, IInv, Stage
    <3>2. \A u \in Transfers : Unseen(u)
      BY <2>2, <3>1 DEF CallbackFrees, IInv, TypeInv, Unseen
    <3> QED
      BY <3>2, AllUnseenStutters
  <2> QED
    BY <1>3, <2>1, <2>2
<1> QED
  BY <1>1, <1>2, <1>3

\* Each transfer of the detailed specification keeps its promise: TransferPromise
\* is implemented.
THEOREM Refinement == Spec => KeepsPromise
<1>1. Init => P!Init
  <2> SUFFICES ASSUME Init PROVE P!Init
    OBVIOUS
  <2>1. \A t \in Transfers : Promised(t) = P!Unanswered("unmade")
    BY Stages DEF Init
  <2> QED
    BY <2>1 DEF P!Init
<1>2. IInv /\ [Next]_vars => [P!Next]_Promise
  <2> SUFFICES ASSUME IInv, [Next]_vars PROVE P!Next \/ Promise' = Promise
    OBVIOUS
  <2>1. CASE \E t \in Transfers, s \in Slots, k \in Kinds : NewTransfer(t, s, k)
    BY <2>1, MadeIsMake
  <2>2. CASE \E h \in Transfers, fits \in BOOLEAN : SubmitAccepted(h, fits)
    BY <2>2, SubmittedIsSubmit
  <2>3. CASE \E h \in Transfers, fits \in BOOLEAN : SubmitFails(h, fits)
    BY <2>3, RefusedIsBreak
  <2>4. CASE \E t \in Transfers : CallbackSends(t)
    BY <2>4, SentIsResolve
  <2>5. CASE AwaitReturns
    BY <2>5, ReturnedIsTake
  <2>6. CASE \E t \in Transfers, s \in Reports : Reap(t, s)
    BY <2>6, ReapStutters
  <2>7. CASE DropDeviceHandle
    BY <2>7, OthersStutter DEF DropDeviceHandle, guestVars, xferVars
  <2>8. CASE \E t \in Transfers : CallbackStores(t) \/ CallbackFrees(t)
    BY <2>8, OthersStutter DEF CallbackStores, CallbackFrees, guestVars
  <2>9. CASE UNCHANGED <<got, chan, packets, phase, buffer>>
    BY <2>9, OthersStutter
  <2> QED
    BY <2>1, <2>2, <2>3, <2>4, <2>5, <2>6, <2>7, <2>8, <2>9
       DEF Next, SubmitTransfer, SubmitRefused, SubmitPanics, CancelTransfer, DropTransfer,
           AwaitTransfer, HostReturns, SubmitStoresReceiver, CancelActs, TransferCallback,
           EventLoopStops, Unplug, Gone, Panic, vars, guestVars, xferVars, usbVars
<1>3. [P!Next]_Promise => [P!Next]_([t \in Transfers |-> Promised(t)])
  BY DEF Promise
<1> QED
  BY <1>1, <1>2, <1>3, Invariance, PTL DEF Spec, KeepsPromise, P!Spec
=============================================================================
