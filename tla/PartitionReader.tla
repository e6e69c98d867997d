--------------------------- MODULE PartitionReader ---------------------------
(***************************************************************************)
(* What the benchmarks read through: an IoSlice, which confines a reader   *)
(* to a partition, over a UsbMassStorage, which turns bytes into blocks    *)
(* (examples/read_and_hash.rs and its copies, usb-native/src/throughput.rs)*)
(*                                                                         *)
(* A byte of the disk is known by its address; Zero is a byte of a buffer  *)
(* that no packet reached, Foreign one of some other read.  A read of the  *)
(* device has the outcomes that BenchmarkTransport shows it to have: its   *)
(* own data, whole or short; an error; or an error that leaves driver and  *)
(* device out of step, after which the guest driver gets nothing but       *)
(* errors.  usb-native may also be given data that are not its own.        *)
(***************************************************************************)
EXTENDS Integers, Sequences

CONSTANTS
  BlockLength,   \* bytes of a block
  LastLba,       \* what READ CAPACITY answers: the address of the last block
  TransferUnit,  \* 2^16: blocks are counted in a u16
  Word,          \* 2^64: positions are u64
  MaxFaults      \* bound: transfers that fail or come short

ASSUME PartitionAssumption ==
  /\ BlockLength \in Nat \ {0} /\ LastLba \in Nat
  /\ TransferUnit \in Nat \ {0} /\ Word \in Nat /\ MaxFaults \in Nat
  /\ (LastLba + 1) * BlockLength < Word

VARIABLES
  native,        \* usb-native, or a guest
  partition,     \* where the MBR says the partition is: its first byte, and the one after it
  position,      \* IoSlice.position
  seek_position, \* UsbMassStorage.seek_position
  faults,        \* bound: faults so far
  lost           \* the driver is out of step with the device

slice == <<position, seek_position>>
transport == <<faults, lost>>

Zero == -1
Foreign == -3
Unread == IF native THEN {Zero, Foreign} ELSE {Zero}
DiskSize == (LastLba + 1) * BlockLength

-----------------------------------------------------------------------------
(***************************************************************************)
(* UsbMassStorage.                                                         *)
(***************************************************************************)

\* The guests multiply the last block's address, usb-native the number of blocks.
GuestCapacity == LastLba * BlockLength
NativeCapacity == (LastLba + 1) * BlockLength
Capacity == IF native THEN NativeCapacity ELSE GuestCapacity

\* The blocks of n bytes from address on, as READ (10) asks for them.
BlockAddress(address) == address \div BlockLength
TransferLength(address, n) ==
  ((address + n - 1) \div BlockLength - BlockAddress(address) + 1) % TransferUnit
DataLength(address, n) == TransferLength(address, n) * BlockLength

\* Slip: the bytes start at the block, not at the address.
CopiedFromBlock(address, n, arrived) ==
  [i \in 1..n |-> IF i <= arrived THEN BlockAddress(address) * BlockLength + i - 1 ELSE Zero]

\* The n bytes copied out of a READ's buffer when the first `arrived` bytes of it came.
Copied(address, n, arrived) ==
  [i \in 1..n |->
     LET index == (address % BlockLength) + i - 1  \* in the buffer
     IN IF index < arrived THEN BlockAddress(address) * BlockLength + index ELSE Zero]

\* How Read::read may answer: "ok" or "short" with bytes; "error", "lost" or "over" (the
\* disk) for Err; "panic" where a copy exceeds the buffer.
Answer(kind, bytes) == [kind |-> kind, bytes |-> bytes]
Bytes(answer) == answer.kind \in {"ok", "short"}
Answers(address, n) ==
  LET whole == DataLength(address, n)
  IN IF n = 0 THEN {Answer("ok", <<>>)}
     ELSE IF address + n > Capacity THEN {Answer("over", <<>>)}
     ELSE IF lost THEN {Answer("error", <<>>)}
     ELSE IF (address % BlockLength) + n > whole THEN {Answer("panic", <<>>)}
     ELSE {Answer("ok", Copied(address, n, whole))}
       \cup (IF faults = MaxFaults THEN {}
             ELSE {Answer("error", <<>>), Answer("lost", <<>>)}
               \cup {Answer("short", Copied(address, n, arrived)) :
                       arrived \in IF native THEN {0} ELSE 0..(whole - 1)}
               \cup (IF native THEN {Answer("short", [i \in 1..n |-> Foreign])} ELSE {}))

\* The answer's effect on the transport.
Takes(answer) ==
  /\ faults' = IF answer.kind \in {"short", "lost"} \/ (answer.kind = "error" /\ ~lost)
                 THEN faults + 1 ELSE faults
  /\ lost' = (lost \/ (answer.kind = "lost" /\ ~native))

-----------------------------------------------------------------------------
(***************************************************************************)
(* IoSlice.                                                                *)
(***************************************************************************)
Start == partition[1]
End == partition[2]

SmallerOf(a, b) == IF a < b THEN a ELSE b

\* IoSlice::new fails unless start < end.  usb-native seeks to the start.
NewSlice ==
  /\ Start < End
  /\ position' = Start
  /\ seek_position' = IF native THEN Start ELSE seek_position

\* Read::read with a buffer of so many bytes.
SliceAnswers(length) ==
  IF position >= End THEN {Answer("ok", <<>>)}
  ELSE Answers(position, SmallerOf(length, End - position))

\* The position after it: it seeks to the slice's position first, and both advance.
SliceAdvances(answer) ==
  /\ seek_position' = IF position >= End THEN seek_position
                      ELSE position + Len(answer.bytes)
  /\ position' = position + Len(answer.bytes)

\* An i64 taken for a u64.
Unsigned(offset) == offset % Word
Saturated(n) == IF n >= Word THEN Word - 1 ELSE IF n < 0 THEN 0 ELSE n

\* Where Seek::seek goes.  A negative offset from the end is a huge one.
SeekTarget(whence, offset) ==
  IF whence = "start" THEN (Start + offset) % Word
  ELSE IF whence = "end" THEN Saturated(End + Unsigned(offset))
  ELSE Saturated(position + offset)

\* Slip: only the end is checked.
InSliceUpward(target) == target <= End

InSlice(target) == Start <= target /\ target <= End

SliceSeeks(whence, offset) ==
  LET target == SeekTarget(whence, offset)
  IN IF InSlice(target) THEN position' = target /\ seek_position' = target
     ELSE UNCHANGED slice
=============================================================================
