------------------------ MODULE MCTransferLifecycle ------------------------
(* Instances of TransferLifecycle for TLC. *)
EXTENDS TransferLifecycle, TLC

K(out, timed, iso) == [out |-> out, timed |-> timed, iso |-> iso]

\* An IN transfer without a timeout, an isochronous one with, an OUT one with.
MixedKinds == {K(FALSE, FALSE, FALSE), K(FALSE, TRUE, TRUE), K(TRUE, TRUE, FALSE)}
TwoKinds == {K(FALSE, FALSE, FALSE), K(TRUE, TRUE, TRUE)}
TimedKinds == {K(FALSE, TRUE, FALSE)}

AllReports == Status
FewReports == {"COMPLETED", "TIMED_OUT", "CANCELLED", "NO_DEVICE"}

AllFaults == Fault
NoFaults == {}
LiveFaults == {"unplug", "submit"}
CloseFault == {"close"}
LoopFault == {"loop"}

Symmetry == Permutations(Transfers) \cup Permutations(Slots)
=============================================================================
