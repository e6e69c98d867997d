-------------------------- MODULE BenchmarkPrograms --------------------------
(***************************************************************************)
(* The benchmarks, each its own main over PartitionReader:                 *)
(*   readlot     copies the partition to a file (guest and native)         *)
(*   throughput  reads every file of it, Rounds times (guest and native)   *)
(*   hash        read_and_hash: prints a hash of every file of the root    *)
(*   old_read    reads the partition until a read fails                    *)
(*   latency     read_latency: times reads all over the disk               *)
(*   filesystem  no program: any use that a file system makes of the slice *)
(*                                                                         *)
(* exFAT is external: a file is a contiguous part of the partition, read   *)
(* one cluster at a time; opening the volume reads its first block.        *)
(***************************************************************************)
EXTENDS PartitionReader

CONSTANTS
  Programs,      \* the programs checked, each with or without native
  Partitions,    \* what the MBR may say
  Items,         \* the root directory: files, and directories of files
  ClusterLength, \* bytes of a cluster
  BufferLength,  \* 8192: the buffer of readlot, old_read and hash
  SectorLength,  \* 512: what latency takes for the block length
  Usize,         \* one more than usize::MAX in a guest: 2^32
  Warmup, Iterations, Rounds

ASSUME ProgramsAssumption ==
  /\ Programs \subseteq
       {"readlot", "throughput", "hash", "old_read", "latency", "filesystem"} \X BOOLEAN
  /\ \A p \in Programs : p[2] => p[1] \in {"readlot", "throughput"}
  /\ Partitions \subseteq (0..Word - 1) \X (0..Word - 1)
  /\ ClusterLength \in Nat \ {0} /\ BufferLength \in Nat \ {0} /\ SectorLength \in Nat \ {0}
  /\ Usize \in Nat \ {0}
  /\ {Warmup, Iterations, Rounds} \subseteq Nat \ {0}

\* What is empty is left out: opening an empty file gives nothing, so it adds no bytes
\* and is not hashed, and neither is a directory of such.
ASSUME ItemsAssumption ==
  /\ Items \in Seq([directory : BOOLEAN, files : Seq([offset : Nat, size : Nat \ {0}])])
  /\ Items # <<>>
  /\ \A i \in DOMAIN Items : Items[i].files # <<>> /\ (Len(Items[i].files) = 1 \/ Items[i].directory)

VARIABLES
  program,
  pc,
  count,    \* how often the current loop has run
  item,     \* which item of the directory it is at,
  file,     \* and which file of that item
  out,      \* the bytes copied, or those of the current file or read
  total,    \* total_bytes of this round, and what the item adds to it
  recorded  \* totals or hashes so far

progress == <<count, item, file, out, total, recorded>>
disk == <<slice, transport>>
vars == <<native, partition, disk, program, pc, progress>>

NoHash == <<-2>>  \* the dash: of no bytes that a disk has
Final == {"done", "failed", "absent"}

Init ==
  /\ \E p \in Programs : program = p[1] /\ native = p[2]
  /\ partition \in Partitions
  /\ position = 0 /\ seek_position = 0 /\ faults = 0 /\ lost = FALSE
  /\ pc = "start" /\ count = 0 /\ item = 1 /\ file = 1
  /\ out = <<>> /\ total = <<0, 0>> /\ recorded = <<>>

Goes(to) == pc' = to

\* usize: a length cast to it loses what is above, and a vector has less than half.
Pointer == IF native THEN Word ELSE Usize
Allocatable(length) == 2 * length < Pointer

-----------------------------------------------------------------------------
(***************************************************************************)
(* What every main begins with.                                            *)
(***************************************************************************)

\* The drive is there and UsbMassStorage::new works, or the program ends here.  A
\* READ CAPACITY that comes short is taken for a disk of no bytes, of which the first
\* read fails.
Begins(next) ==
  /\ pc = "start"
  /\ \/ (Goes(next) \/ Goes("absent")) /\ UNCHANGED transport
     \/ faults < MaxFaults /\ Goes("failed") /\ Takes(Answer("short", <<>>))
  /\ UNCHANGED <<native, partition, slice, program, progress>>

\* The first block of the disk is read,
ReadsFirstBlock(good, next) ==
  /\ \E a \in Answers(0, BlockLength) :
       /\ Takes(a) /\ seek_position' = Len(a.bytes)
       /\ Goes(IF a.kind \in good THEN next ELSE "failed")
  /\ UNCHANGED <<native, partition, position, program, progress>>

\* by MBR::read_from, which wants the signature in the last bytes,
ReadsMbr == pc = "mbr" /\ ReadsFirstBlock({"ok"}, "slice")

\* and in usb-native's throughput before that, to no end.
ReadsBlock == pc = "block" /\ ReadsFirstBlock({"ok", "short"}, "mbr")

\* An IoSlice over the first partition in use; there is none, or it is of no block.
MakesSlice(next) ==
  /\ pc = "slice"
  /\ IF Start < End THEN NewSlice /\ Goes(next) ELSE Goes("failed") /\ UNCHANGED slice
  /\ item' = 1 /\ file' = 1 /\ total' = <<0, 0>>
  /\ UNCHANGED <<native, partition, transport, program, count, out, recorded>>

\* What follows an answer, unless it is a panic.
Then(a, Follows(_)) ==
  IF a.kind = "panic" THEN Goes("failed") /\ UNCHANGED progress ELSE Follows(a)

\* A read of the slice, and what follows each answer.
SliceRead(length, Follows(_)) ==
  \E a \in SliceAnswers(length) :
    /\ Takes(a) /\ SliceAdvances(a) /\ Then(a, Follows)
    /\ UNCHANGED <<native, partition, program>>

-----------------------------------------------------------------------------
(***************************************************************************)
(* readlot: io::copy until a read brings nothing; an error is a panic.     *)
(***************************************************************************)
\* Slip: it goes on as long as reads are Ok.
CopiesWhileOk(a) ==
  /\ out' = out \o a.bytes
  /\ Goes(IF Bytes(a) THEN "copy" ELSE "failed")
  /\ UNCHANGED <<count, item, file, total, recorded>>

Copies(a) ==
  /\ out' = out \o a.bytes
  /\ Goes(IF ~Bytes(a) THEN "failed" ELSE IF a.bytes = <<>> THEN "done" ELSE "copy")
  /\ UNCHANGED <<count, item, file, total, recorded>>

Copy == pc = "copy" /\ SliceRead(BufferLength, Copies)

ReadLot ==
  /\ program = "readlot" /\ ~native
  /\ Begins("mbr") \/ ReadsMbr \/ MakesSlice("copy") \/ Copy

NativeReadLot ==
  /\ program = "readlot" /\ native
  /\ Begins("mbr") \/ ReadsMbr \/ MakesSlice("copy") \/ Copy

-----------------------------------------------------------------------------
(***************************************************************************)
(* old_read: Warmup reads, whatever they answer, up to the end; then reads *)
(* as long as they are Ok, as one at the end of the slice is.              *)
(***************************************************************************)
WarmsUp(a) ==
  /\ out' = a.bytes
  /\ count' = count + 1
  /\ Goes(IF (Bytes(a) /\ a.bytes = <<>>) \/ count' = Warmup THEN "measure" ELSE "warmup")
  /\ UNCHANGED <<item, file, total, recorded>>

OldReadWarmup ==
  /\ pc = "warmup"
  /\ SliceRead(SmallerOf((End - Start) % Pointer, BufferLength), WarmsUp)

Measures(a) ==
  /\ out' = a.bytes
  /\ Goes(IF Bytes(a) THEN "measure" ELSE "done")
  /\ UNCHANGED <<count, item, file, total, recorded>>

OldReadMeasure == pc = "measure" /\ SliceRead(BufferLength, Measures)

OldRead ==
  /\ program = "old_read"
  /\ Begins("mbr") \/ ReadsMbr \/ MakesSlice("warmup") \/ OldReadWarmup \/ OldReadMeasure

-----------------------------------------------------------------------------
(***************************************************************************)
(* read_latency: SectorLength bytes of the disk, not of the slice; an      *)
(* error is a panic.                                                       *)
(***************************************************************************)

\* A seek of the UsbMassStorage to where, and a read.
DiskRead(where, Follows(_)) ==
  /\ \E a \in Answers(where, SectorLength) :
       /\ Takes(a) /\ seek_position' = where + Len(a.bytes) /\ out' = a.bytes
       /\ IF Bytes(a) THEN Follows(a) ELSE Goes("failed") /\ UNCHANGED count
  /\ UNCHANGED <<native, partition, position, program, item, file, total, recorded>>

\* The next round of a loop of n, and where it goes when they are over.
Loops(n, here, next) ==
  IF count + 1 = n THEN count' = 0 /\ Goes(next) ELSE count' = count + 1 /\ Goes(here)

LatencyWarmup ==
  LET After(a) == Loops(Warmup, "warmup", "measure")
  IN pc = "warmup" /\ DiskRead(0, After)

\* Slip: further and further, past the last block, too.
LatencyMeasureOn ==
  LET After(a) == Loops(Iterations, "measure", "done")
  IN pc = "measure" /\ DiskRead(count * SectorLength, After)

LatencyMeasure ==
  LET After(a) == Loops(Iterations, "measure", "done")
  IN pc = "measure" /\ DiskRead((count * SectorLength) % Capacity, After)

ReadLatency ==
  /\ program = "latency"
  /\ Begins("mbr") \/ ReadsMbr \/ MakesSlice("warmup") \/ LatencyWarmup \/ LatencyMeasure

-----------------------------------------------------------------------------
(***************************************************************************)
(* Files: throughput and hash.                                             *)
(***************************************************************************)
CurrentFile == Items[item].files[file]
FileStart == Start + CurrentFile.offset

\* ExFat::open: the first block of the slice, which must be whole.
OpenAnswers == Answers(Start, SmallerOf(BlockLength, End - Start))

Opens(a) ==
  /\ Takes(a) /\ position' = Start + Len(a.bytes) /\ seek_position' = position'
  /\ UNCHANGED <<native, partition, program>>

\* file.open() and a read of so many bytes: at most to the end of a cluster, which is
\* found by a seek.
FileAnswers(wanted) ==
  LET target == FileStart + Len(out)
      length == SmallerOf(wanted, ClusterLength - (Len(out) % ClusterLength))
  IN IF ~InSlice(target) THEN {Answer("over", <<>>)}
     ELSE IF target = End THEN {Answer("ok", <<>>)}
     ELSE Answers(target, SmallerOf(length, End - target))

FileRead(wanted, Follows(_)) ==
  LET target == FileStart + Len(out)
  IN /\ \E a \in FileAnswers(wanted) :
          /\ Takes(a) /\ Then(a, Follows)
          /\ IF InSlice(target) THEN position' = target + Len(a.bytes) /\ seek_position' = position'
             ELSE UNCHANGED slice
     /\ UNCHANGED <<native, partition, program>>

\* throughput: open fails, and the program ends without results.
ThroughputOpen ==
  /\ pc = "open"
  /\ \E a \in OpenAnswers : Opens(a) /\ Goes(IF a.kind = "ok" THEN "read" ELSE "failed")
  /\ out' = <<>> /\ UNCHANGED <<count, item, file, total, recorded>>

\* After the last item of a round, its total is recorded; and so Rounds times.
NextItem(added) ==
  LET sum == total[1] + added
  IN IF item < Len(Items)
       THEN /\ item' = item + 1 /\ total' = <<sum, 0>> /\ Goes("read")
            /\ UNCHANGED <<count, recorded>>
       ELSE /\ recorded' = Append(recorded, sum) /\ Loops(Rounds, "slice", "done")
            /\ UNCHANGED <<item, total>>

\* The buffer of a file.
Buffer == CurrentFile.size % Pointer

\* The file is read, and of a directory the next.
FileCounts ==
  /\ out' = <<>>
  /\ IF file < Len(Items[item].files)
       THEN /\ file' = file + 1 /\ total' = <<total[1], total[2] + CurrentFile.size>>
            /\ Goes("read") /\ UNCHANGED <<count, item, recorded>>
       ELSE NextItem(total[2] + CurrentFile.size) /\ file' = 1

\* Slip: the bytes of an item count up to where it failed.
ThroughputReadsPart(a) ==
  IF ~Bytes(a) \/ a.bytes = <<>>
    THEN NextItem(total[2] + Len(out)) /\ file' = 1 /\ out' = <<>>
  ELSE IF Len(out) + Len(a.bytes) < Buffer
    THEN out' = out \o a.bytes /\ Goes("read") /\ UNCHANGED <<count, item, file, total, recorded>>
  ELSE FileCounts

\* read_exact fails at an error and at an early end, and its item with it: of a
\* directory, the files already read, too.  A file counts with its size, however small
\* the buffer.
ThroughputReads(a) ==
  IF ~Bytes(a) \/ a.bytes = <<>> THEN NextItem(0) /\ file' = 1 /\ out' = <<>>
  ELSE IF Len(out) + Len(a.bytes) < Buffer
    THEN out' = out \o a.bytes /\ Goes("read") /\ UNCHANGED <<count, item, file, total, recorded>>
  ELSE FileCounts

ThroughputRead ==
  /\ pc = "read"
  /\ \/ ~Allocatable(Buffer) /\ Goes("failed") /\ UNCHANGED <<native, partition, disk, program, progress>>
     \/ Buffer = 0 /\ FileCounts /\ UNCHANGED <<native, partition, disk, program>>
     \/ Buffer > 0 /\ Allocatable(Buffer) /\ FileRead(Buffer - Len(out), ThroughputReads)

ReadThroughput ==
  /\ program = "throughput" /\ ~native
  /\ Begins("mbr") \/ ReadsMbr \/ MakesSlice("open") \/ ThroughputOpen \/ ThroughputRead

NativeThroughput ==
  /\ program = "throughput" /\ native
  /\ \/ Begins("block") \/ ReadsBlock \/ ReadsMbr \/ MakesSlice("open")
     \/ ThroughputOpen \/ ThroughputRead

\* hash: the volume is opened for the listing, where an error ends the program,
HashList ==
  /\ pc = "open"
  /\ \E a \in OpenAnswers : Opens(a) /\ Goes(IF a.kind = "ok" THEN "next" ELSE "failed")
  /\ out' = <<>> /\ UNCHANGED <<count, item, file, total, recorded>>

\* and for every file of the root again, in compute_hash, where it leaves a dash.
Listed(hash) ==
  /\ recorded' = Append(recorded, [of |-> item, hash |-> hash])
  /\ item' = item + 1 /\ Goes("next") /\ out' = <<>>
  /\ UNCHANGED <<count, file, total>>

HashNext ==
  /\ pc = "next"
  /\ IF item > Len(Items) THEN Goes("done") /\ UNCHANGED <<native, partition, disk, program, progress>>
     ELSE IF Items[item].directory
       THEN item' = item + 1 /\ UNCHANGED <<native, partition, disk, program, pc, count, file, out, total, recorded>>
     ELSE \E a \in OpenAnswers :
            /\ Opens(a)
            /\ IF a.kind = "ok" THEN Goes("read") /\ UNCHANGED progress
               ELSE Listed(NoHash)

\* Slip: an error ends the file as its end does.
HashReadsOn(a) ==
  IF a.bytes = <<>> \/ Len(out) + Len(a.bytes) = CurrentFile.size THEN Listed(out \o a.bytes)
  ELSE out' = out \o a.bytes /\ Goes("read") /\ UNCHANGED <<count, item, file, total, recorded>>

\* An early end of the file is not an error: the hash is of what came.
HashReads(a) ==
  IF ~Bytes(a) THEN Listed(NoHash)
  ELSE IF a.bytes = <<>> \/ Len(out) + Len(a.bytes) = CurrentFile.size THEN Listed(out \o a.bytes)
  ELSE out' = out \o a.bytes /\ Goes("read") /\ UNCHANGED <<count, item, file, total, recorded>>

\* What the rest of the file is cast to; a read of nothing is an early end.
HashRead ==
  /\ pc = "read"
  /\ FileRead(SmallerOf((CurrentFile.size - Len(out)) % Pointer, BufferLength), HashReads)

ReadAndHash ==
  /\ program = "hash"
  /\ Begins("mbr") \/ ReadsMbr \/ MakesSlice("open") \/ HashList \/ HashNext \/ HashRead

-----------------------------------------------------------------------------
\* Any seek and any read of the slice.
AnySeek ==
  /\ pc = "any"
  /\ \/ \E offset \in 0..(Word - 1) : SliceSeeks("start", offset)
     \/ \E offset \in -(Word \div 2)..(Word \div 2 - 1), whence \in {"end", "current"} :
          SliceSeeks(whence, offset)
  /\ out' = <<>>
  /\ UNCHANGED <<native, partition, transport, program, pc, count, item, file, total, recorded>>

Any(a) ==
  /\ out' = a.bytes /\ Goes("any")
  /\ UNCHANGED <<count, item, file, total, recorded>>

AnyRead == pc = "any" /\ \E length \in 1..(End - Start) : SliceRead(length, Any)

FileSystem ==
  /\ program = "filesystem"
  /\ Begins("mbr") \/ ReadsMbr \/ MakesSlice("any") \/ AnySeek \/ AnyRead

Next ==
  \/ ReadLot \/ NativeReadLot \/ OldRead \/ ReadLatency
  \/ ReadThroughput \/ NativeThroughput \/ ReadAndHash \/ FileSystem

\* A transfer ends within its timeout, so that the program always goes on.
Spec == Init /\ [][Next]_vars /\ WF_vars(Next)

-----------------------------------------------------------------------------
(***************************************************************************)
(* Properties.                                                             *)
(***************************************************************************)
\* Every variable has its type, and a reader never leaves its slice.
TypeInv ==
  /\ <<program, native>> \in Programs /\ partition \in Partitions
  /\ faults \in 0..MaxFaults /\ lost \in BOOLEAN
  /\ pc \in {"start", "block", "mbr", "slice", "copy", "open", "warmup", "measure", "any",
             "next", "read"} \cup Final
  /\ pc \in {"copy", "open", "warmup", "measure", "any", "next", "read"} =>
       Start < End /\ position \in Start..End
  /\ seek_position \in 0..(Word - 1)
  /\ count \in Nat /\ item \in 1..(Len(Items) + 1) /\ file \in Nat /\ total \in Nat \X Nat

\* Where the bytes in `out` are from.
Base ==
  IF program = "latency" THEN seek_position - Len(out)
  ELSE IF program = "readlot" THEN Start
  ELSE IF program \in {"throughput", "hash"} THEN FileStart
  ELSE position - Len(out)

\* What a program reads are the bytes of the disk at the place it reads, in order; only
\* those that a short transfer left out are zero, or with usb-native those of another
\* read.  A copy that ends without an error has
\* every byte of the partition.
ReadsAreThere ==
  /\ (program = "hash" => item <= Len(Items)) =>
       \A i \in DOMAIN out : out[i] \in {Base + i - 1} \cup Unread
  /\ faults = 0 => \A i \in DOMAIN out : out[i] \notin {Zero, Foreign}
  /\ program = "readlot" /\ pc = "done" => Len(out) = End - Start

FileInSlice(f) == f.offset + f.size <= End - Start
Total(sizes) ==
  LET sums[k \in 0..Len(sizes)] == IF k = 0 THEN 0 ELSE sums[k - 1] + sizes[k]
  IN sums[Len(sizes)]
SizeOf(i) == Total([k \in DOMAIN Items[i].files |-> Items[i].files[k].size])
SumOf(S) == Total([k \in DOMAIN Items |-> IF k \in S THEN SizeOf(k) ELSE 0])

\* A recorded throughput is that of whole items: what was read of an item that failed is
\* not in it.
CountsWholeItems ==
  program = "throughput" =>
    \A r \in DOMAIN recorded : \E S \in SUBSET DOMAIN Items : recorded[r] = SumOf(S)

\* A hash is printed of a file only if no read of it failed.  It is of all its bytes, or
\* of those before the end of the partition; but of a file that usize does not count,
\* only of what the cast leaves.
HashesAreOfFiles ==
  program = "hash" =>
    \A r \in DOMAIN recorded :
      LET f == Items[recorded[r].of].files[1]
          hash == recorded[r].hash
          part == f.size % Usize
      IN hash # NoHash =>
           Len(hash) = IF f.offset + part <= End - Start THEN part ELSE End - Start - f.offset

Sound(limit) ==
  /\ Start < End /\ End <= limit
  /\ \A i \in DOMAIN Items : \A k \in DOMAIN Items[i].files : FileInSlice(Items[i].files[k])

FaultlessUpTo(limit) ==
  faults = 0 /\ Sound(limit) =>
    /\ program # "filesystem" /\ pc = "failed" => program = "throughput" /\ ~Allocatable(Buffer)
    /\ program = "throughput" => \A r \in DOMAIN recorded : recorded[r] = SumOf(DOMAIN Items)
    /\ program = "hash" => \A r \in DOMAIN recorded : recorded[r].hash # NoHash

\* No program but a file system reads more at a time than a READ can ask for, and a
\* disk is so many sectors.
ReadsFit ==
  /\ \A n \in {BlockLength, BufferLength, ClusterLength, SectorLength} :
       n + 2 * BlockLength - 2 < TransferUnit * BlockLength
  /\ GuestCapacity % SectorLength = 0

\* Without a fault every program gets through a volume that is sound and within the
\* capacity it computes: it does not fail, unless throughput is at a file for which there
\* can be no buffer, counts every file with its size, and hashes every file.
FaultlessWorks == FaultlessUpTo(Capacity)

\* read_and_hash.rs 208: the disk has one block more than the number of its last one.
DiskIsReadable == FaultlessUpTo(DiskSize)

\* read_and_hash.rs 773: the loop goes on until the whole file is read.
HashesAreWhole ==
  program = "hash" =>
    \A r \in DOMAIN recorded :
      LET f == Items[recorded[r].of].files[1]
      IN recorded[r].hash # NoHash /\ FileInSlice(f) => Len(recorded[r].hash) = f.size

\* Every program but old_read ends, whatever fails.
ProgramsEnd == program \notin {"old_read", "filesystem"} ~> pc \in Final

\* A file system may read as much of its slice at a time as it likes.
ReadsNeverPanic == program = "filesystem" /\ faults = 0 /\ Sound(Capacity) => pc # "failed"

\* old_read.rs 689-701: it ends, too, and writes its measurements.
OldReadEnds == program = "old_read" ~> pc \in Final
=============================================================================
