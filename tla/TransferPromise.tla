-------------------------- MODULE TransferPromise --------------------------
(***************************************************************************)
(* What a USB transfer promises the guest, without threads, buffers or     *)
(* libusb: it is made, it is submitted at most once, a submitted transfer  *)
(* is answered at most once, the answer does not change while it waits,    *)
(* and it is handed out once.  A submission that libusb refuses breaks the *)
(* promise: nothing can be had from it any more.                           *)
(***************************************************************************)
CONSTANTS Transfers, Answers, None

VARIABLE promise  \* the stage of each transfer, with its answer once there is one

Stage(name, answer) == [stage |-> name, answer |-> answer]
Unanswered(name) == Stage(name, None)

Init == promise = [t \in Transfers |-> Unanswered("unmade")]

Move(t, from, to) ==
  promise[t] = from /\ promise' = [promise EXCEPT ![t] = to]

Make(t)    == Move(t, Unanswered("unmade"), Unanswered("ready"))
Submit(t)  == Move(t, Unanswered("ready"), Unanswered("pending"))
Break(t)   == Move(t, Unanswered("ready"), Unanswered("broken"))
Resolve(t) == \E a \in Answers : Move(t, Unanswered("pending"), Stage("resolved", a))
Take(t)    == \E a \in Answers : Move(t, Stage("resolved", a), Stage("taken", a))

Next == \E t \in Transfers : Make(t) \/ Submit(t) \/ Break(t) \/ Resolve(t) \/ Take(t)

Spec == Init /\ [][Next]_promise
=============================================================================
