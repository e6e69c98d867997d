----------------------- MODULE BenchmarkProgramsProofs -----------------------
(***************************************************************************)
(* Proofs about BenchmarkPrograms, for disks, partitions, files and        *)
(* buffers of any size and any number of faults: what a read brings, that  *)
(* no program reads outside its slice, and what the results are of.        *)
(***************************************************************************)
EXTENDS BenchmarkPrograms, WellFoundedInduction, TLAPS

LEMMA Sizes ==
  /\ BlockLength \in Nat \ {0} /\ LastLba \in Nat /\ TransferUnit \in Nat \ {0}
  /\ Word \in Nat /\ MaxFaults \in Nat
  /\ ClusterLength \in Nat \ {0} /\ BufferLength \in Nat \ {0} /\ SectorLength \in Nat \ {0}
  /\ Warmup \in Nat \ {0} /\ Iterations \in Nat \ {0} /\ Rounds \in Nat \ {0}
  BY PartitionAssumption, ProgramsAssumption

LEMMA Division ==
  ASSUME NEW m \in Nat \ {0}, NEW p \in Nat
  PROVE  /\ p \div m \in Nat /\ p % m \in Nat /\ p % m < m
         /\ p = m * (p \div m) + (p % m)
  OBVIOUS

LEMMA Quotient ==
  ASSUME NEW m \in Nat \ {0}, NEW k \in Nat, NEW r \in Nat, r < m
  PROVE  (m * k + r) \div m = k /\ (m * k + r) % m = r
<1> DEFINE q == (m * k + r) \div m
           s == (m * k + r) % m
<1>1. m * k + r \in Nat
  OBVIOUS
<1>2. q \in Nat /\ s \in Nat /\ s < m /\ m * k + r = m * q + s
  BY <1>1, Division
<1> HIDE DEF q, s
<1>3. q = k
  <2>1. CASE q >= k + 1
    <3>1. m * q >= m * (k + 1)
      BY <1>2, <2>1
    <3>2. m * (k + 1) = m * k + m
      OBVIOUS
    <3>3. QED
      BY <1>2, <3>1, <3>2
  <2>2. CASE k >= q + 1
    <3>1. m * k >= m * (q + 1)
      BY <1>2, <2>2
    <3>2. m * (q + 1) = m * q + m
      BY <1>2
    <3>3. QED
      BY <1>2, <3>1, <3>2
  <2>3. QED
    BY <1>2, <2>1, <2>2
<1>4. QED
  BY <1>2, <1>3 DEF q, s

LEMMA PointerIs == Pointer \in Nat \ {0}
<1>1. (LastLba + 1) * BlockLength \in Nat /\ (LastLba + 1) * BlockLength < Word
  BY Sizes, PartitionAssumption
<1>2. Word \in Nat \ {0}
  BY <1>1, Sizes
<1>3. QED
  BY <1>2, ProgramsAssumption DEF Pointer

\* What is left of a number, cast, after a part of what the cast leaves of it.
LEMMA CastRest ==
  ASSUME NEW p \in Nat \ {0}, NEW size \in Nat, NEW n \in Nat, n <= size % p
  PROVE  (size - n) % p = (size % p) - n
<1>1. PICK q \in Nat, r \in Nat : r < p /\ size = p * q + r /\ r = size % p
  BY Division
<1>2. r - n \in Nat /\ r - n < p /\ size - n = p * q + (r - n)
  BY <1>1
<1>3. (p * q + (r - n)) % p = r - n
  BY <1>2, Quotient
<1>4. QED
  BY <1>1, <1>2, <1>3

LEMMA CapacityFits == Capacity \in Nat /\ Capacity < Word
<1>1. /\ LastLba * BlockLength \in Nat
      /\ (LastLba + 1) * BlockLength = LastLba * BlockLength + BlockLength
      /\ (LastLba + 1) * BlockLength < Word
  BY Sizes, PartitionAssumption
<1>2. QED
  BY <1>1, Sizes DEF Capacity, GuestCapacity, NativeCapacity

-----------------------------------------------------------------------------
(***************************************************************************)
(* What an answer brings.                                                  *)
(***************************************************************************)
\* Bytes of the disk from base on, in order, but for holes.
Unknown(strange) == IF strange THEN {Zero, Foreign} ELSE {Zero}
FromDisk(data, base, strange) ==
  \A i \in DOMAIN data : data[i] \in {base + i - 1} \cup Unknown(strange)
NoHoles(data) == \A i \in DOMAIN data : data[i] \notin {Zero, Foreign}

\* A copy has as many bytes as were asked for, and they are those from the address on; only
\* where too little arrived is a hole.
LEMMA CopiedIs ==
  ASSUME NEW address \in Nat, NEW n \in Nat, NEW arrived \in Nat
  PROVE  /\ Copied(address, n, arrived) \in Seq(Int) /\ Len(Copied(address, n, arrived)) = n
         /\ FromDisk(Copied(address, n, arrived), address, native)
         /\ (address % BlockLength) + n <= arrived => NoHoles(Copied(address, n, arrived))
<1> DEFINE c == Copied(address, n, arrived)
           offset == address % BlockLength
           block == BlockAddress(address) * BlockLength
<1>1. /\ BlockAddress(address) \in Nat /\ offset \in Nat
      /\ address = BlockLength * BlockAddress(address) + offset
  BY Sizes, Division DEF BlockAddress
<1>2. block \in Nat /\ block = BlockLength * BlockAddress(address)
  BY <1>1, Sizes
<1>3. block \in Nat /\ offset \in Nat /\ address = block + offset
  BY <1>1, <1>2
<1>4. c = [i \in 1..n |-> IF offset + i - 1 < arrived THEN block + (offset + i - 1) ELSE Zero]
  BY DEF Copied
<1> HIDE DEF c, offset, block
<1>5. Zero = -1 /\ Foreign = -3
  BY DEF Zero, Foreign
<1>6. ASSUME NEW i \in 1..n
      PROVE  /\ c[i] \in Int /\ c[i] \in {address + i - 1, Zero}
             /\ offset + n <= arrived => c[i] \notin {Zero, Foreign}
  BY <1>3, <1>4, <1>5
<1>7. DOMAIN c = 1..n /\ c \in [1..n -> Int]
  BY <1>4, <1>6
<1>8. c \in Seq(Int) /\ Len(c) = n
  BY <1>7
<1>9. QED
  BY <1>6, <1>7, <1>8 DEF FromDisk, NoHoles, Unknown, c, offset

\* Bytes of another read.
Strange(n) == [i \in 1..n |-> Foreign]

LEMMA StrangeIs ==
  ASSUME NEW n \in Nat, NEW base
  PROVE  Strange(n) \in Seq(Int) /\ Len(Strange(n)) = n /\ FromDisk(Strange(n), base, TRUE)
<1>1. Foreign \in Int
  BY DEF Foreign
<1>2. Strange(n) \in [1..n -> Int] /\ \A i \in 1..n : Strange(n)[i] = Foreign
  BY <1>1 DEF Strange
<1>3. QED
  BY <1>2 DEF FromDisk, Unknown

\* The answers to a read of n bytes at an address.
LEMMA AnswerIs ==
  ASSUME NEW address \in Nat, NEW n \in Nat, NEW a \in Answers(address, n)
  PROVE  /\ a.bytes \in Seq(Int) /\ FromDisk(a.bytes, address, native)
         /\ Bytes(a) => Len(a.bytes) = n /\ (n = 0 \/ address + n <= Capacity)
         /\ ~Bytes(a) => a.bytes = <<>>
         /\ a.kind = "ok" => NoHoles(a.bytes)
         /\ a.kind \in {"ok", "short", "error", "lost", "over", "panic"}
         /\ a.kind = "over" => address + n > Capacity
         /\ a.kind = "panic" => (address % BlockLength) + n > DataLength(address, n)
<1> DEFINE whole == DataLength(address, n)
<1>1. <<>> \in Seq(Int) /\ FromDisk(<<>>, address, native) /\ NoHoles(<<>>) /\ Len(<<>>) = 0
  BY DEF FromDisk, NoHoles
<1>2. address + n \in Nat /\ Capacity \in Nat
  BY CapacityFits
<1>3. \/ a = Answer("ok", <<>>) /\ n = 0
      \/ a = Answer("over", <<>>) /\ address + n > Capacity
      \/ a = Answer("error", <<>>)
      \/ a = Answer("panic", <<>>) /\ (address % BlockLength) + n > whole
      \/ a = Answer("lost", <<>>)
      \/ /\ a = Answer("ok", Copied(address, n, whole))
         /\ (address % BlockLength) + n <= whole /\ address + n <= Capacity /\ n # 0
      \/ /\ \E arrived \in Nat : a = Answer("short", Copied(address, n, arrived))
         /\ address + n <= Capacity /\ n # 0
      \/ /\ a = Answer("short", Strange(n)) /\ native
         /\ address + n <= Capacity /\ n # 0
  <2>1. whole \in Nat /\ address % BlockLength \in Nat
    <3>1. /\ (address + n - 1) \div BlockLength \in Int /\ address \div BlockLength \in Int
          /\ address % BlockLength \in Nat
      BY Sizes
    <3>2. TransferLength(address, n) \in Nat
      BY <3>1, Sizes DEF TransferLength, BlockAddress
    <3>3. QED
      BY <3>1, <3>2, Sizes DEF DataLength
  <2> HIDE DEF whole
  <2>2. 0 \in Nat /\ 0..(whole - 1) \subseteq Nat
    BY <2>1
  <2>3. QED
    BY <1>2, <2>1, <2>2 DEF Answers, Strange, whole
<1> HIDE DEF whole
<1>4. \A arrived \in Nat :
        /\ Copied(address, n, arrived) \in Seq(Int) /\ Len(Copied(address, n, arrived)) = n
        /\ FromDisk(Copied(address, n, arrived), address, native)
  BY CopiedIs
<1>5. CASE a = Answer("ok", <<>>) /\ n = 0
  BY <1>1, <1>5 DEF Answer, Bytes
<1>6. CASE a = Answer("over", <<>>) /\ address + n > Capacity
  BY <1>1, <1>6 DEF Answer, Bytes
<1>7. CASE a = Answer("error", <<>>) \/ a = Answer("lost", <<>>)
  <2>1. a.bytes = <<>> /\ a.kind \in {"error", "lost"}
    BY <1>7 DEF Answer
  <2>2. QED
    BY <1>1, <2>1 DEF Bytes
<1>8. CASE a = Answer("panic", <<>>) /\ (address % BlockLength) + n > whole
  BY <1>1, <1>8 DEF Answer, Bytes, whole
<1>9. CASE /\ a = Answer("ok", Copied(address, n, whole))
           /\ (address % BlockLength) + n <= whole /\ address + n <= Capacity /\ n # 0
  <2>1. whole \in Nat
    <3>1. TransferLength(address, n) \in Nat
      <4>1. (address + n - 1) \div BlockLength \in Int /\ address \div BlockLength \in Int
        BY Sizes
      <4>2. QED
        BY <4>1, Sizes DEF TransferLength, BlockAddress
    <3>2. QED
      BY <3>1, Sizes DEF DataLength, whole
  <2>2. NoHoles(Copied(address, n, whole))
    BY <1>9, <2>1, CopiedIs
  <2>3. QED
    BY <1>4, <1>9, <2>1, <2>2 DEF Answer, Bytes
<1>10. CASE /\ \E arrived \in Nat : a = Answer("short", Copied(address, n, arrived))
            /\ address + n <= Capacity /\ n # 0
  BY <1>4, <1>10 DEF Answer, Bytes
<1>11. CASE a = Answer("short", Strange(n)) /\ native /\ address + n <= Capacity /\ n # 0
  <2>1. a.bytes = Strange(n) /\ a.kind = "short"
    BY <1>11 DEF Answer
  <2>2. FromDisk(a.bytes, address, native)
    BY <1>11, <2>1, StrangeIs DEF FromDisk, Unknown
  <2>3. QED
    BY <1>11, <2>1, <2>2, StrangeIs DEF Bytes
<1>12. QED
  BY <1>3, <1>5, <1>6, <1>7, <1>8, <1>9, <1>10, <1>11

\* A driver is lost, or a transfer fails or comes short, only with a fault.
Sane == faults \in 0..MaxFaults /\ lost \in BOOLEAN /\ (lost => faults # 0)

LEMMA TakesIs ==
  ASSUME Sane, NEW address \in Nat, NEW n \in Nat, NEW a \in Answers(address, n), Takes(a)
  PROVE  /\ Sane'
         /\ faults' = 0 => faults = 0 /\ a.kind \in {"ok", "over", "panic"}
<1>1. faults = MaxFaults => a.kind \notin {"short", "lost"} /\ (a.kind = "error" => lost)
  BY DEF Answers, Answer
<1>2. faults \in Nat /\ faults <= MaxFaults /\ MaxFaults \in Nat
  BY Sizes DEF Sane
<1>3. a.kind \in {"ok", "short", "error", "lost", "over", "panic"}
  BY AnswerIs
<1>4. CASE a.kind \in {"short", "lost"} \/ (a.kind = "error" /\ ~lost)
  <2>1. faults' = faults + 1 /\ faults # MaxFaults
    BY <1>1, <1>4 DEF Takes
  <2>2. faults' \in 0..MaxFaults /\ faults' # 0
    BY <1>2, <2>1
  <2>3. lost' \in BOOLEAN
    BY DEF Takes, Sane
  <2>4. QED
    BY <2>2, <2>3 DEF Sane
<1>5. CASE ~(a.kind \in {"short", "lost"} \/ (a.kind = "error" /\ ~lost))
  <2>1. faults' = faults
    BY <1>5 DEF Takes
  <2>2. lost' = lost
    BY <1>5 DEF Takes, Sane
  <2>3. a.kind = "error" => lost
    BY <1>5
  <2>4. QED
    BY <1>3, <1>5, <2>1, <2>2, <2>3 DEF Sane
<1>6. QED
  BY <1>4, <1>5

\* An answer to a read at a place of the slice, of up to so many bytes: it is of none only at
\* the end of the slice, if it is not a read of none, and never of a byte beyond it.
Within(a, where, most) ==
  \E n \in 0..most :
    a \in Answers(where, n) /\ where + n <= End /\ (n = 0 <=> where = End \/ most = 0)

LEMMA WithinIs ==
  ASSUME NEW where \in Nat, NEW most \in Nat, NEW a, Within(a, where, most), Sane, Takes(a)
  PROVE  /\ a.bytes \in Seq(Int) /\ Len(a.bytes) \in 0..most
         /\ Len(a.bytes) = 0 \/ where + Len(a.bytes) <= End
         /\ FromDisk(a.bytes, where, native)
         /\ Bytes(a) => (a.bytes = <<>> <=> where = End \/ most = 0)
         /\ ~Bytes(a) => a.bytes = <<>>
         /\ Sane' /\ (faults' = 0 => faults = 0 /\ NoHoles(a.bytes))
<1>1. PICK n \in 0..most : a \in Answers(where, n) /\ where + n <= End /\ (n = 0 <=> where = End \/ most = 0)
  BY DEF Within
<1>2. n \in Nat
  BY <1>1
<1>3. /\ a.bytes \in Seq(Int) /\ FromDisk(a.bytes, where, native)
      /\ Bytes(a) => Len(a.bytes) = n
      /\ ~Bytes(a) => a.bytes = <<>>
      /\ a.kind = "ok" => NoHoles(a.bytes)
  BY <1>1, <1>2, AnswerIs
<1>4. Sane' /\ (faults' = 0 => faults = 0 /\ a.kind \in {"ok", "over", "panic"})
  BY <1>1, <1>2, TakesIs
<1>5. Len(a.bytes) = 0 <=> a.bytes = <<>>
  BY <1>3
<1>6. faults' = 0 => faults = 0 /\ NoHoles(a.bytes)
  <2>1. NoHoles(<<>>)
    BY DEF NoHoles
  <2>2. a.kind \in {"over", "panic"} => ~Bytes(a)
    BY DEF Bytes
  <2>3. QED
    BY <1>3, <1>4, <2>1, <2>2
<1>7. Len(a.bytes) = n \/ Len(a.bytes) = 0
  BY <1>3, <1>5
<1>8. QED
  BY <1>1, <1>2, <1>3, <1>4, <1>5, <1>6, <1>7

-----------------------------------------------------------------------------
(***************************************************************************)
(* Where a program is.  TypeInv is not inductive: that a file read stays   *)
(* in its file, and its position in the slice, takes what is read of it.   *)
(***************************************************************************)
Files == [offset : Nat, size : Nat \ {0}]

Placed ==
  /\ TypeInv /\ Sane /\ out \in Seq(Int)
  /\ pc \in {"start", "block", "mbr", "slice", "open", "next", "absent"} => out = <<>>
  /\ pc \in {"slice", "copy", "open", "warmup", "measure", "any", "next", "read"} =>
       BlockLength <= Capacity
  /\ pc = "open" => item = 1 /\ file = 1
  /\ pc = "read" =>
       /\ item \in DOMAIN Items /\ file \in DOMAIN Items[item].files
       /\ Len(out) < CurrentFile.size /\ Len(out) <= Buffer
       /\ program = "throughput" => out = <<>> \/ Len(out) < Buffer
  /\ program = "throughput" => item \in DOMAIN Items
  /\ program = "hash" => file = 1 /\ (pc = "read" => ~Items[item].directory)

LEMMA ItemTypes ==
  /\ Len(Items) \in Nat /\ DOMAIN Items = 1..Len(Items) /\ 1 \in DOMAIN Items
  /\ \A i \in DOMAIN Items :
       /\ Items[i].files \in Seq(Files) /\ 1 \in DOMAIN Items[i].files
       /\ Len(Items[i].files) \in Nat /\ DOMAIN Items[i].files = 1..Len(Items[i].files)
       /\ \A k \in DOMAIN Items[i].files : Items[i].files[k] \in Files
<1> DEFINE T == [directory : BOOLEAN, files : Seq(Files)]
<1>1. Items \in Seq(T) /\ Items # <<>>
  BY ItemsAssumption DEF Files
<1> HIDE DEF T
<1>2. Len(Items) \in Nat /\ DOMAIN Items = 1..Len(Items) /\ 1 \in DOMAIN Items
  BY <1>1
<1>3. ASSUME NEW i \in DOMAIN Items
      PROVE  Items[i].files \in Seq(Files) /\ Items[i].files # <<>>
  <2>1. Items[i] \in T
    BY <1>1
  <2>2. QED
    BY <2>1, ItemsAssumption DEF T
<1>4. ASSUME NEW f \in Seq(Files), f # <<>>
      PROVE  /\ 1 \in DOMAIN f /\ Len(f) \in Nat /\ DOMAIN f = 1..Len(f)
             /\ \A k \in DOMAIN f : f[k] \in Files
  BY <1>4
<1>5. QED
  BY <1>2, <1>3, <1>4

LEMMA SliceTypes ==
  ASSUME TypeInv
  PROVE  Start \in Nat /\ End \in Nat /\ End < Word /\ Start < Word
<1>1. partition \in (0..Word - 1) \X (0..Word - 1)
  BY ProgramsAssumption DEF TypeInv
<1>2. Start \in 0..Word - 1 /\ End \in 0..Word - 1
  BY <1>1 DEF Start, End
<1>3. QED
  BY <1>2, Sizes

\* The types, put together again.
LEMMA TypesAre ==
  ASSUME TypeInv, UNCHANGED <<native, partition, program>>, Sane',
         pc' \in {"start", "block", "mbr", "slice", "copy", "open", "warmup", "measure", "any",
                  "next", "read"} \cup Final,
         pc' \in {"copy", "open", "warmup", "measure", "any", "next", "read"} =>
           Start < End /\ position' \in Start..End,
         seek_position' \in 0..(Word - 1), count' \in Nat, item' \in 1..(Len(Items) + 1),
         file' \in Nat, total' \in Nat \X Nat
  PROVE  TypeInv'
  BY DEF TypeInv, Sane, Start, End

\* A read of the slice at its position.
LEMMA SliceIs ==
  ASSUME TypeInv, Start < End, position \in Start..End, NEW length \in Nat,
         NEW a \in SliceAnswers(length)
  PROVE  Within(a, position, length) /\ position \in Nat
<1>1. Start \in Nat /\ End \in Nat /\ position \in Nat /\ position <= End
  BY SliceTypes
<1>2. CASE position >= End
  <2>1. position = End /\ a = Answer("ok", <<>>)
    BY <1>1, <1>2 DEF SliceAnswers
  <2>2. a \in Answers(position, 0)
    BY <2>1 DEF Answers
  <2>3. 0 \in 0..length /\ position + 0 <= End
    BY <1>1, <2>1
  <2>4. QED
    BY <1>1, <2>1, <2>2, <2>3 DEF Within
<1>3. CASE ~(position >= End)
  <2> DEFINE n == SmallerOf(length, End - position)
  <2>1. a \in Answers(position, n)
    BY <1>3 DEF SliceAnswers
  <2>2. n \in 0..length /\ position + n <= End /\ (n = 0 <=> length = 0) /\ position # End
    BY <1>1, <1>3 DEF SmallerOf
  <2> HIDE DEF n
  <2>3. QED
    BY <1>1, <2>1, <2>2 DEF Within
<1>4. QED
  BY <1>2, <1>3

\* The first block of the volume.
LEMMA OpenIs ==
  ASSUME TypeInv, Start < End, NEW a \in OpenAnswers
  PROVE  Within(a, Start, BlockLength) /\ Start \in Nat /\ Start # End
<1> DEFINE n == SmallerOf(BlockLength, End - Start)
<1>1. Start \in Nat /\ End \in Nat
  BY SliceTypes
<1>2. a \in Answers(Start, n)
  BY DEF OpenAnswers
<1>3. n \in 0..BlockLength /\ Start + n <= End /\ n # 0 /\ Start # End
  BY <1>1, Sizes DEF SmallerOf
<1> HIDE DEF n
<1>4. QED
  BY <1>1, <1>2, <1>3 DEF Within

\* The next part of a file, as long as was asked for and is of one cluster.
LEMMA FileIs ==
  ASSUME Placed, pc = "read", NEW wanted \in Nat, NEW a \in FileAnswers(wanted)
  PROVE  LET target == FileStart + Len(out)
         IN /\ target \in Nat /\ Start <= target
            /\ CurrentFile \in Files /\ Len(out) \in Nat
            /\ ~InSlice(target) => a = Answer("over", <<>>) /\ a \in Answers(Capacity, 1)
            /\ InSlice(target) =>
                 /\ Within(a, target, SmallerOf(wanted, ClusterLength))
                 /\ SmallerOf(wanted, ClusterLength) \in Nat
<1> DEFINE target == FileStart + Len(out)
           cluster == ClusterLength - (Len(out) % ClusterLength)
           length == SmallerOf(wanted, cluster)
           most == SmallerOf(wanted, ClusterLength)
<1>1. Start \in Nat /\ End \in Nat
  BY SliceTypes DEF Placed
<1>2. CurrentFile \in Files /\ Len(out) \in Nat /\ Len(out) < CurrentFile.size
  BY ItemTypes DEF Placed, CurrentFile
<1>3. CurrentFile.offset \in Nat
  BY <1>2 DEF Files
<1>4. target \in Nat /\ Start <= target
  BY <1>1, <1>2, <1>3 DEF FileStart
<1>5. cluster \in Nat \ {0} /\ cluster <= ClusterLength
  <2>1. Len(out) % ClusterLength \in Nat /\ Len(out) % ClusterLength < ClusterLength
    BY <1>2, Sizes, Division
  <2>2. QED
    BY <2>1, Sizes
<1> HIDE DEF target, cluster
<1>6. length \in Nat /\ length <= most /\ most \in Nat /\ (length = 0 <=> most = 0)
  BY <1>3, <1>5, Sizes DEF SmallerOf
<1> HIDE DEF length, most
<1>7. a \in (IF ~InSlice(target) THEN {Answer("over", <<>>)}
             ELSE IF target = End THEN {Answer("ok", <<>>)}
             ELSE Answers(target, SmallerOf(length, End - target)))
  BY DEF FileAnswers, target, length, cluster
<1>8. ASSUME ~InSlice(target)
      PROVE  a = Answer("over", <<>>) /\ a \in Answers(Capacity, 1)
  <2>1. a = Answer("over", <<>>)
    BY <1>7, <1>8
  <2>2. Capacity + 1 > Capacity
    BY CapacityFits
  <2>3. QED
    BY <2>1, <2>2 DEF Answers
<1>9. ASSUME InSlice(target) PROVE Within(a, target, most)
  <2>1. target <= End
    BY <1>9 DEF InSlice
  <2>2. CASE target = End
    <3>1. a \in Answers(target, 0)
      BY <1>7, <1>9, <2>2 DEF Answers
    <3>2. 0 \in 0..most /\ target + 0 <= End
      BY <1>4, <1>6, <2>1
    <3>3. QED
      BY <2>2, <3>1, <3>2 DEF Within
  <2>3. CASE target # End
    <3> DEFINE n == SmallerOf(length, End - target)
    <3>1. a \in Answers(target, n)
      BY <1>7, <1>9, <2>3
    <3>2. n \in 0..most /\ target + n <= End /\ (n = 0 <=> most = 0)
      BY <1>1, <1>4, <1>6, <2>1, <2>3 DEF SmallerOf
    <3> HIDE DEF n
    <3>3. QED
      BY <2>3, <3>1, <3>2 DEF Within
  <2>4. QED
    BY <2>2, <2>3
<1>10. QED
  BY <1>2, <1>4, <1>6, <1>8, <1>9 DEF target, most

LEMMA PlacedInit == Init => Placed
<1> SUFFICES ASSUME Init PROVE Placed
  OBVIOUS
<1>1. faults \in 0..MaxFaults /\ seek_position \in 0..(Word - 1)
  BY Sizes, CapacityFits DEF Init
<1>2. item \in 1..(Len(Items) + 1) /\ item \in DOMAIN Items /\ file = 1
  BY ItemTypes DEF Init
<1>3. lost \in BOOLEAN /\ ~lost
  BY DEF Init
<1>4. /\ out \in Seq(Int) /\ pc = "start" /\ out = <<>> /\ partition \in Partitions
      /\ count \in Nat /\ file \in Nat /\ total \in Nat \X Nat
  BY DEF Init
<1>5. <<program, native>> \in Programs
  <2>1. PICK p \in Programs : program = p[1] /\ native = p[2]
    BY DEF Init
  <2>2. p = <<p[1], p[2]>>
    BY ProgramsAssumption
  <2>3. QED
    BY <2>1, <2>2
<1>6. Sane
  BY <1>1, <1>3 DEF Sane
<1>7. TypeInv
  BY <1>1, <1>2, <1>3, <1>4, <1>5 DEF TypeInv
<1>8. QED
  BY <1>2, <1>4, <1>6, <1>7 DEF Placed

LEMMA PlacedBegins ==
  ASSUME Placed, NEW next \in {"block", "mbr"}, Begins(next)
  PROVE  Placed'
<1>1. /\ UNCHANGED <<native, partition, position, seek_position, program, count, item, file, out, total, recorded>>
      /\ pc' \in {"block", "mbr", "absent", "failed"} /\ pc = "start"
      /\ \/ UNCHANGED <<faults, lost>>
         \/ faults < MaxFaults /\ Takes(Answer("short", <<>>))
  BY DEF Begins, Goes, slice, transport, progress
<1>2. Sane'
  <2>1. CASE UNCHANGED <<faults, lost>>
    BY <2>1 DEF Sane, Placed
  <2>2. CASE faults < MaxFaults /\ Takes(Answer("short", <<>>))
    <3>1. faults' = faults + 1 /\ lost' = lost
      BY <2>2 DEF Takes, Answer, Placed, Sane
    <3>2. QED
      BY <2>2, <3>1, Sizes DEF Sane, Placed
  <2>3. QED
    BY <1>1, <2>1, <2>2
<1>3. TypeInv'
  BY <1>1, <1>2, TypesAre DEF Placed, TypeInv, Final
<1>4. QED
  BY <1>1, <1>2, <1>3 DEF Placed

LEMMA PlacedFirstBlock ==
  ASSUME Placed, pc \in {"block", "mbr"}, NEW good, NEW next \in {"mbr", "slice"},
         next = "slice" => good = {"ok"}, ReadsFirstBlock(good, next)
  PROVE  Placed'
<1>1. PICK a \in Answers(0, BlockLength) :
        /\ Takes(a) /\ seek_position' = Len(a.bytes)
        /\ Goes(IF a.kind \in good THEN next ELSE "failed")
  BY DEF ReadsFirstBlock
<1>2. /\ UNCHANGED <<native, partition, position, program, count, item, file, out, total, recorded>>
      /\ pc' \in {next, "failed"} /\ (pc' = "slice" => a.kind = "ok")
      /\ seek_position' = Len(a.bytes)
  BY <1>1 DEF ReadsFirstBlock, Goes, progress
<1>3. BlockLength \in Nat /\ BlockLength # 0 /\ 0 \in Nat
  BY Sizes
<1>4. Sane'
  BY <1>1, <1>3, TakesIs DEF Placed
<1>5. /\ a.bytes \in Seq(Int)
      /\ Bytes(a) => Len(a.bytes) = BlockLength /\ BlockLength <= Capacity
      /\ ~Bytes(a) => a.bytes = <<>>
  <2>1. /\ a.bytes \in Seq(Int)
        /\ Bytes(a) => Len(a.bytes) = BlockLength /\ (BlockLength = 0 \/ 0 + BlockLength <= Capacity)
        /\ ~Bytes(a) => a.bytes = <<>>
    BY <1>1, <1>3, AnswerIs
  <2>2. QED
    BY <1>3, <2>1
<1>6. seek_position' \in 0..(Word - 1)
  <2>1. Len(a.bytes) = 0 \/ (Len(a.bytes) = BlockLength /\ BlockLength <= Capacity)
    BY <1>5
  <2>2. Capacity \in Nat /\ Word \in Nat /\ Capacity < Word
    BY CapacityFits, Sizes
  <2>3. QED
    BY <1>2, <1>3, <2>1, <2>2
<1>7. pc' = "slice" => BlockLength <= Capacity
  BY <1>2, <1>5 DEF Bytes
<1>8. Capacity' = Capacity
  BY <1>2 DEF Capacity
<1>9. TypeInv'
  BY <1>2, <1>4, <1>6, TypesAre DEF Placed, TypeInv, Final
<1>10. QED
  BY <1>2, <1>4, <1>7, <1>8, <1>9 DEF Placed

LEMMA PlacedMakesSlice ==
  ASSUME Placed, NEW next \in {"copy", "warmup", "open", "any"}, MakesSlice(next)
  PROVE  Placed'
<1>1. /\ UNCHANGED <<native, partition, program, count, out, recorded, faults, lost>>
      /\ item' = 1 /\ file' = 1 /\ total' = <<0, 0>> /\ pc = "slice"
      /\ pc' \in {next, "failed"}
  BY DEF MakesSlice, Goes, transport
<1>2. pc' = next => Start < End /\ position' = Start
  BY DEF MakesSlice, Goes, NewSlice
<1>3. seek_position' = seek_position \/ seek_position' = Start
  BY DEF MakesSlice, NewSlice, slice
<1>4. Start \in Nat /\ End \in Nat /\ Start < Word /\ Word \in Nat
  BY SliceTypes, Sizes DEF Placed
<1>5. Sane'
  BY <1>1 DEF Sane, Placed
<1>6. /\ seek_position' \in 0..(Word - 1) /\ item' \in 1..(Len(Items) + 1) /\ item' \in DOMAIN Items
      /\ file' \in Nat /\ total' \in Nat \X Nat
      /\ pc' = next => Start < End /\ position' \in Start..End
  BY <1>1, <1>2, <1>3, <1>4, ItemTypes DEF Placed, TypeInv
<1>7. TypeInv'
  BY <1>1, <1>5, <1>6, TypesAre DEF Placed, TypeInv, Final
<1>8. Capacity' = Capacity
  BY <1>1 DEF Capacity
<1>9. QED
  BY <1>1, <1>5, <1>6, <1>7, <1>8 DEF Placed

\* A read of the slice moves its position within the slice.
LEMMA SliceMoves ==
  ASSUME TypeInv, Sane, Start < End, position \in Start..End, NEW length \in Nat,
         NEW a \in SliceAnswers(length), Takes(a), SliceAdvances(a)
  PROVE  /\ a.bytes \in Seq(Int) /\ Len(a.bytes) \in Nat /\ FromDisk(a.bytes, position, native)
         /\ Bytes(a) => (a.bytes = <<>> <=> position = End \/ length = 0)
         /\ ~Bytes(a) => a.bytes = <<>>
         /\ Sane' /\ (faults' = 0 => faults = 0 /\ NoHoles(a.bytes))
         /\ position' = position + Len(a.bytes) /\ position' \in Start..End
         /\ seek_position' \in 0..(Word - 1)
<1>1. Within(a, position, length) /\ position \in Nat /\ length \in Nat
  BY SliceIs
<1>2. /\ a.bytes \in Seq(Int) /\ Len(a.bytes) \in Nat
      /\ Len(a.bytes) = 0 \/ position + Len(a.bytes) <= End
      /\ FromDisk(a.bytes, position, native)
      /\ Bytes(a) => (a.bytes = <<>> <=> position = End \/ length = 0)
      /\ ~Bytes(a) => a.bytes = <<>>
      /\ Sane' /\ (faults' = 0 => faults = 0 /\ NoHoles(a.bytes))
  BY <1>1, WithinIs
<1>3. /\ position' = position + Len(a.bytes)
      /\ seek_position' = seek_position \/ seek_position' = position'
  BY DEF SliceAdvances
<1>4. Start \in Nat /\ End \in Nat /\ End < Word /\ seek_position \in 0..(Word - 1) /\ Word \in Nat
  BY SliceTypes, Sizes DEF TypeInv
<1>5. position' \in Start..End
  BY <1>1, <1>2, <1>3, <1>4
<1>6. seek_position' \in 0..(Word - 1)
  BY <1>3, <1>4, <1>5
<1>7. QED
  BY <1>2, <1>3, <1>5, <1>6

\* What every read of the slice that is not of a file has in common.
LEMMA PlacedSlice ==
  ASSUME Placed, pc \in {"copy", "warmup", "measure", "any"},
         pc' \in {"copy", "warmup", "measure", "any", "done", "failed"},
         NEW length \in Nat, NEW a \in SliceAnswers(length), Takes(a), SliceAdvances(a),
         UNCHANGED <<native, partition, program, item, file, total>>,
         count' \in Nat, out' \in {out, a.bytes, out \o a.bytes}
  PROVE  Placed'
<1>1. /\ a.bytes \in Seq(Int) /\ Sane' /\ position' \in Start..End
      /\ seek_position' \in 0..(Word - 1)
  BY SliceMoves DEF Placed, TypeInv
<1>2. Start < End /\ out \in Seq(Int)
  BY DEF Placed, TypeInv
<1>3. out' \in Seq(Int)
  <2>1. out \o a.bytes \in Seq(Int)
    BY <1>1, <1>2
  <2>2. QED
    BY <1>1, <1>2, <2>1
<1>4. TypeInv'
  BY <1>1, <1>2, TypesAre DEF Placed, TypeInv, Final
<1>5. BlockLength <= Capacity'
  BY DEF Capacity, Placed
<1>6. /\ pc' \notin {"start", "block", "mbr", "slice", "open", "next", "absent", "read"}
      /\ program = "throughput" => item' \in DOMAIN Items
      /\ program = "hash" => file' = 1
  BY DEF Placed
<1>7. QED
  BY <1>1, <1>3, <1>4, <1>5, <1>6 DEF Placed

LEMMA LoopsIs ==
  ASSUME TypeInv, NEW n \in Nat \ {0}, NEW here, NEW next, Loops(n, here, next)
  PROVE  count' \in Nat /\ pc' \in {here, next}
  BY DEF Loops, Goes, TypeInv

\* The disk is read where the capacity says that there is one.
LEMMA PlacedDisk ==
  ASSUME Placed, pc \in {"warmup", "measure"}, NEW where \in Nat, where < Word,
         NEW a \in Answers(where, SectorLength), Takes(a),
         seek_position' = where + Len(a.bytes), out' = a.bytes,
         UNCHANGED <<native, partition, position, program, item, file, total>>,
         count' \in Nat, pc' \in {"warmup", "measure", "done", "failed"}
  PROVE  Placed'
<1>1. SectorLength \in Nat /\ SectorLength # 0 /\ Word \in Nat
  BY Sizes
<1>2. Sane'
  BY <1>1, TakesIs DEF Placed
<1>3. /\ a.bytes \in Seq(Int)
      /\ Bytes(a) => Len(a.bytes) = SectorLength /\ (SectorLength = 0 \/ where + SectorLength <= Capacity)
      /\ ~Bytes(a) => a.bytes = <<>>
  BY <1>1, AnswerIs
<1>4. Len(a.bytes) = 0 \/ (Len(a.bytes) = SectorLength /\ where + SectorLength <= Capacity)
  BY <1>1, <1>3
<1>5. seek_position' \in 0..(Word - 1)
  BY <1>1, <1>4, CapacityFits
<1>6. position' \in Start..End /\ Start < End
  BY DEF Placed, TypeInv
<1>7. TypeInv'
  BY <1>2, <1>5, <1>6, TypesAre DEF Placed, TypeInv, Final
<1>8. Capacity' = Capacity
  BY DEF Capacity
<1>9. QED
  BY <1>2, <1>3, <1>7, <1>8 DEF Placed

LEMMA PlacedLatencyWarmup == ASSUME Placed, LatencyWarmup PROVE Placed'
<1>1. PICK a \in Answers(0, SectorLength) :
        /\ Takes(a) /\ seek_position' = 0 + Len(a.bytes) /\ out' = a.bytes
        /\ IF Bytes(a) THEN Loops(Warmup, "warmup", "measure") ELSE Goes("failed") /\ UNCHANGED count
  BY DEF LatencyWarmup, DiskRead
<1>2. UNCHANGED <<native, partition, position, program, item, file, total>> /\ pc = "warmup"
  BY DEF LatencyWarmup, DiskRead
<1>3. count' \in Nat /\ pc' \in {"warmup", "measure", "done", "failed"}
  BY <1>1, LoopsIs, Sizes DEF Goes, Placed, TypeInv
<1>4. 0 \in Nat /\ 0 < Word
  BY CapacityFits, Sizes
<1>5. QED
  BY <1>1, <1>2, <1>3, <1>4, PlacedDisk

LEMMA PlacedLatencyMeasure == ASSUME Placed, LatencyMeasure PROVE Placed'
<1> DEFINE where == (count * SectorLength) % Capacity
<1>1. PICK a \in Answers(where, SectorLength) :
        /\ Takes(a) /\ seek_position' = where + Len(a.bytes) /\ out' = a.bytes
        /\ IF Bytes(a) THEN Loops(Iterations, "measure", "done") ELSE Goes("failed") /\ UNCHANGED count
  BY DEF LatencyMeasure, DiskRead
<1>2. UNCHANGED <<native, partition, position, program, item, file, total>> /\ pc = "measure"
  BY DEF LatencyMeasure, DiskRead
<1>3. count' \in Nat /\ pc' \in {"warmup", "measure", "done", "failed"}
  BY <1>1, LoopsIs, Sizes DEF Goes, Placed, TypeInv
<1>4. where \in Nat /\ where < Word
  <2>1. Capacity \in Nat \ {0} /\ Capacity < Word /\ Word \in Nat
    BY <1>2, CapacityFits, Sizes DEF Placed
  <2>2. count * SectorLength \in Nat
    BY Sizes DEF Placed, TypeInv
  <2>3. where \in Nat /\ where < Capacity
    BY <2>1, <2>2, Division
  <2>4. QED
    BY <2>1, <2>3
<1> HIDE DEF where
<1>5. QED
  BY <1>1, <1>2, <1>3, <1>4, PlacedDisk

LEMMA PlacedSliceReads ==
  ASSUME Placed, Copy \/ OldReadWarmup \/ OldReadMeasure \/ AnyRead
  PROVE  Placed'
<1>1. Start \in Nat /\ End \in Nat
  BY SliceTypes DEF Placed
<1>2. BufferLength \in Nat \ {0} /\ count \in Nat /\ count + 1 \in Nat
  BY Sizes DEF Placed, TypeInv
<1>3. ASSUME NEW length \in Nat, pc \in {"copy", "warmup", "measure", "any"},
             NEW a \in SliceAnswers(length), Takes(a), SliceAdvances(a),
             UNCHANGED <<native, partition, program>>,
             \/ a.kind = "panic" /\ Goes("failed") /\ UNCHANGED progress
             \/ Copies(a) \/ WarmsUp(a) \/ Measures(a) \/ Any(a)
      PROVE  Placed'
  <2>1. /\ UNCHANGED <<item, file, total>> /\ count' \in {count, count + 1}
        /\ pc' \in {"copy", "warmup", "measure", "any", "done", "failed"}
        /\ out' \in {out, a.bytes, out \o a.bytes}
    BY <1>3 DEF Copies, WarmsUp, Measures, Any, Goes, progress
  <2>2. count' \in Nat
    BY <1>2, <2>1
  <2>3. QED
    BY <1>3, <2>1, <2>2, PlacedSlice
<1>4. CASE Copy
  BY <1>2, <1>3, <1>4 DEF Copy, SliceRead, Then
<1>5. CASE OldReadWarmup
  <2>1. SmallerOf((End - Start) % Pointer, BufferLength) \in Nat
    <3>1. End - Start \in Nat
      BY <1>1, <1>5 DEF OldReadWarmup, Placed, TypeInv
    <3>2. (End - Start) % Pointer \in Nat
      BY <3>1, PointerIs, Division
    <3>3. QED
      BY <1>2, <3>2 DEF SmallerOf
  <2>2. QED
    BY <1>3, <1>5, <2>1 DEF OldReadWarmup, SliceRead, Then
<1>6. CASE OldReadMeasure
  BY <1>2, <1>3, <1>6 DEF OldReadMeasure, SliceRead, Then
<1>7. CASE AnyRead
  <2>1. PICK length \in 1..(End - Start) : SliceRead(length, Any)
    BY <1>7 DEF AnyRead
  <2>2. length \in Nat \ {0}
    BY <1>1
  <2>3. QED
    BY <1>3, <1>7, <2>1, <2>2 DEF AnyRead, SliceRead, Then
<1>8. QED
  BY <1>4, <1>5, <1>6, <1>7

\* A seek stays in the slice, whatever it is asked for.
LEMMA SeekStays ==
  ASSUME TypeInv, position \in Start..End, NEW whence, NEW offset \in Int, SliceSeeks(whence, offset)
  PROVE  position' \in Start..End /\ seek_position' \in 0..(Word - 1)
<1> DEFINE target == SeekTarget(whence, offset)
<1>1. Start \in Nat /\ End \in Nat /\ End < Word /\ Word \in Nat \ {0} /\ position \in Nat
  BY SliceTypes, Sizes
<1>2. target \in Int
  <2>1. offset % Word \in Int /\ (Start + offset) % Word \in Int
    BY <1>1
  <2>2. \A n \in Int : Saturated(n) \in Int
    BY <1>1 DEF Saturated
  <2>3. End + Unsigned(offset) \in Int /\ position + offset \in Int
    BY <1>1, <2>1 DEF Unsigned
  <2>4. QED
    BY <2>1, <2>2, <2>3 DEF SeekTarget
<1>3. CASE InSlice(target)
  <2>1. position' = target /\ seek_position' = target
    BY <1>3 DEF SliceSeeks
  <2> HIDE DEF target
  <2>2. QED
    BY <1>1, <1>2, <1>3, <2>1 DEF InSlice
<1>4. CASE ~InSlice(target)
  BY <1>4 DEF SliceSeeks, slice, TypeInv
<1>5. QED
  BY <1>3, <1>4

LEMMA PlacedAnySeek == ASSUME Placed, AnySeek PROVE Placed'
<1>1. /\ UNCHANGED <<native, partition, faults, lost, program, pc, count, item, file, total>>
      /\ pc = "any" /\ out' = <<>>
  BY DEF AnySeek, transport
<1>2. \E whence : \E offset \in Int : SliceSeeks(whence, offset)
  <2>1. Word \in Nat /\ Word \div 2 \in Int
    BY Sizes
  <2>2. /\ 0..(Word - 1) \subseteq Int
        /\ -(Word \div 2)..(Word \div 2 - 1) \subseteq Int
    BY <2>1
  <2>3. QED
    BY <2>2 DEF AnySeek
<1>3. position \in Start..End /\ Start < End
  BY <1>1 DEF Placed, TypeInv
<1>4. position' \in Start..End /\ seek_position' \in 0..(Word - 1)
  BY <1>2, <1>3, SeekStays DEF Placed
<1>5. Sane'
  BY <1>1 DEF Sane, Placed
<1>6. TypeInv'
  BY <1>1, <1>3, <1>4, <1>5, TypesAre DEF Placed, TypeInv
<1>7. Capacity' = Capacity
  BY <1>1 DEF Capacity
<1>8. <<>> \in Seq(Int)
  OBVIOUS
<1>9. QED
  BY <1>1, <1>5, <1>6, <1>7, <1>8 DEF Placed

\* Where a read of a file leaves the slice.
FileMoves(a) ==
  IF InSlice(FileStart + Len(out))
    THEN position' = FileStart + Len(out) + Len(a.bytes) /\ seek_position' = position'
    ELSE UNCHANGED slice

\* How much of the file a read asks for.
Wanted ==
  IF program = "throughput" THEN Buffer - Len(out)
  ELSE SmallerOf((CurrentFile.size - Len(out)) % Pointer, BufferLength)

LEMMA WantedIs ==
  ASSUME Placed, pc = "read"
  PROVE  /\ CurrentFile \in Files /\ CurrentFile.size \in Nat /\ Len(out) \in Nat
         /\ Buffer \in Nat /\ Buffer <= CurrentFile.size /\ Len(out) <= Buffer
         /\ Wanted \in Nat /\ Len(out) + Wanted <= Buffer
         /\ Wanted = 0 <=> Len(out) = Buffer
<1>1. CurrentFile \in Files /\ Len(out) \in Nat /\ Len(out) <= Buffer
  BY ItemTypes DEF Placed, CurrentFile
<1>2. PICK size \in Nat : size = CurrentFile.size
  BY <1>1 DEF Files
<1>3. PICK p \in Nat \ {0} : p = Pointer
  BY PointerIs
<1>4. PICK buffer \in Nat : buffer = Buffer /\ buffer = size % p /\ buffer <= size
  <2>1. size % p \in Nat /\ size % p <= size
    OBVIOUS
  <2>2. QED
    BY <1>2, <1>3, <2>1 DEF Buffer
<1>5. PICK n \in Nat : n = Len(out) /\ n <= buffer
  BY <1>1, <1>4
<1>6. (size - n) % p = buffer - n
  <2>1. n <= size % p
    BY <1>4, <1>5
  <2>2. (size - n) % p = (size % p) - n
    BY <2>1, CastRest
  <2>3. QED
    BY <1>4, <2>2
<1>7. Wanted = (IF program = "throughput" THEN buffer - n ELSE SmallerOf(buffer - n, BufferLength))
  BY <1>2, <1>3, <1>4, <1>5, <1>6 DEF Wanted
<1>8. BufferLength \in Nat \ {0}
  BY Sizes
<1>9. Wanted \in Nat /\ n + Wanted <= buffer /\ (Wanted = 0 <=> n = buffer)
  BY <1>4, <1>5, <1>7, <1>8 DEF SmallerOf
<1>10. QED
  BY <1>1, <1>2, <1>4, <1>5, <1>9

LEMMA FileMovesIs ==
  ASSUME Placed, pc = "read", NEW a \in FileAnswers(Wanted), Takes(a), FileMoves(a)
  PROVE  /\ CurrentFile \in Files /\ Len(out) \in Nat /\ FileStart + Len(out) \in Nat
         /\ FileStart \in Nat
         /\ a.bytes \in Seq(Int) /\ Len(a.bytes) \in Nat
         /\ Len(out) + Len(a.bytes) <= Buffer /\ Buffer \in Nat /\ Buffer <= CurrentFile.size
         /\ FromDisk(a.bytes, FileStart + Len(out), native)
         /\ a.bytes = <<>> \/ FileStart + Len(out) + Len(a.bytes) <= End
         /\ Bytes(a) => FileStart + Len(out) <= End
         /\ Bytes(a) => (a.bytes = <<>> <=> FileStart + Len(out) = End \/ Len(out) = Buffer)
         /\ ~Bytes(a) => a.bytes = <<>>
         /\ Sane' /\ (faults' = 0 => faults = 0 /\ NoHoles(a.bytes))
         /\ position' \in Start..End /\ seek_position' \in 0..(Word - 1)
<1> DEFINE target == FileStart + Len(out)
           most == SmallerOf(Wanted, ClusterLength)
<1>1. /\ target \in Nat /\ Start <= target /\ CurrentFile \in Files /\ Len(out) \in Nat
      /\ ~InSlice(target) => a = Answer("over", <<>>) /\ a \in Answers(Capacity, 1)
      /\ InSlice(target) => Within(a, target, most) /\ most \in Nat
  BY WantedIs, FileIs
<1>2. /\ Start \in Nat /\ End \in Nat /\ End < Word /\ Word \in Nat
      /\ position \in Start..End /\ seek_position \in 0..(Word - 1)
  BY SliceTypes, Sizes DEF Placed, TypeInv
<1>3. Len(out) < CurrentFile.size /\ CurrentFile.size \in Nat /\ CurrentFile.offset \in Nat /\ Sane
      /\ Buffer \in Nat /\ Buffer <= CurrentFile.size /\ Len(out) <= Buffer
      /\ Wanted \in Nat /\ Len(out) + Wanted <= Buffer /\ (Wanted = 0 <=> Len(out) = Buffer)
  BY <1>1, WantedIs DEF Placed, Files
<1>4. FileStart \in Nat
  BY <1>2, <1>3 DEF FileStart
<1>5. most <= Wanted /\ (most = 0 <=> Wanted = 0)
  BY <1>1, <1>3, Sizes DEF SmallerOf
<1> HIDE DEF target, most
<1>6. CASE InSlice(target)
  <2>1. /\ a.bytes \in Seq(Int) /\ Len(a.bytes) \in 0..most
        /\ Len(a.bytes) = 0 \/ target + Len(a.bytes) <= End
        /\ FromDisk(a.bytes, target, native)
        /\ Bytes(a) => (a.bytes = <<>> <=> target = End \/ most = 0)
        /\ ~Bytes(a) => a.bytes = <<>>
        /\ Sane' /\ (faults' = 0 => faults = 0 /\ NoHoles(a.bytes))
    BY <1>1, <1>3, <1>6, WithinIs
  <2>2. a.bytes = <<>> \/ target + Len(a.bytes) <= End
    BY <2>1
  <2>3. Len(a.bytes) \in Nat /\ Len(out) + Len(a.bytes) <= Buffer
    BY <1>1, <1>3, <1>5, <1>6, <2>1
  <2>4. position' = target + Len(a.bytes) /\ seek_position' = position' /\ target <= End
    BY <1>6 DEF FileMoves, target, InSlice
  <2>5. position' \in Start..End /\ seek_position' \in 0..(Word - 1)
    <3>1. /\ Len(a.bytes) \in Nat /\ target \in Nat /\ Start <= target /\ target <= End
          /\ Len(a.bytes) = 0 \/ target + Len(a.bytes) <= End
      BY <1>1, <2>1, <2>3, <2>4
    <3>2. position' \in Nat /\ Start <= position' /\ position' <= End
      BY <1>2, <2>4, <3>1
    <3>3. QED
      BY <1>2, <2>4, <3>2
  <2>6. QED
    BY <1>1, <1>3, <1>4, <1>5, <2>1, <2>2, <2>3, <2>4, <2>5 DEF target
<1>7. CASE ~InSlice(target)
  <2>1. a.bytes = <<>> /\ a.kind = "over" /\ ~Bytes(a)
    BY <1>1, <1>7 DEF Answer, Bytes
  <2>2. Capacity \in Nat /\ 1 \in Nat
    BY CapacityFits
  <2>3. Sane' /\ (faults' = 0 => faults = 0)
    BY <1>1, <1>3, <1>7, <2>2, TakesIs
  <2>4. a.bytes \in Seq(Int) /\ Len(a.bytes) = 0 /\ FromDisk(a.bytes, target, native) /\ NoHoles(a.bytes)
    BY <2>1 DEF FromDisk, NoHoles
  <2>5. position' \in Start..End /\ seek_position' \in 0..(Word - 1)
    BY <1>2, <1>7 DEF FileMoves, target, slice
  <2>6. Len(out) + Len(a.bytes) <= Buffer
    BY <1>1, <1>3, <2>4
  <2>7. QED
    BY <1>1, <1>3, <1>4, <2>1, <2>3, <2>4, <2>5, <2>6 DEF target
<1>8. QED
  BY <1>6, <1>7

\* What a step over the files has to keep.
LEMMA PlacedVolume ==
  ASSUME Placed, pc \in {"open", "next", "read"}, UNCHANGED <<native, partition, program>>,
         program \in {"throughput", "hash"},
         Sane', position' \in Start..End, seek_position' \in 0..(Word - 1), count' \in Nat,
         item' \in 1..(Len(Items) + 1), file' \in Nat, total' \in Nat \X Nat, out' \in Seq(Int),
         pc' \in {"slice", "next", "read", "done", "failed"},
         pc' \in {"slice", "next"} => out' = <<>>,
         pc' = "read" =>
           /\ item' \in DOMAIN Items /\ file' \in DOMAIN Items[item'].files
           /\ Len(out') < Items[item'].files[file'].size
           /\ \/ out' = <<>>
              \/ /\ Len(out') <= Items[item'].files[file'].size % Pointer
                 /\ program = "throughput" => Len(out') < Items[item'].files[file'].size % Pointer,
         program = "throughput" => item' \in DOMAIN Items,
         program = "hash" => file' = 1 /\ (pc' = "read" => ~Items[item'].directory)
  PROVE  Placed'
<1>1. Start < End
  BY DEF Placed, TypeInv
<1>2. TypeInv'
  BY <1>1, TypesAre DEF Placed, Final
<1>3. Capacity' = Capacity
  BY DEF Capacity
<1>4. pc' = "read" => Buffer' = Items[item'].files[file'].size % Pointer /\ CurrentFile' = Items[item'].files[file']
  BY DEF Buffer, CurrentFile, Pointer
<1>5. ASSUME pc' = "read" PROVE 0 <= Buffer'
  <2>1. PICK size \in Nat : size = Items[item'].files[file'].size
    BY <1>5, ItemTypes DEF Files
  <2>2. size % Pointer \in Nat
    BY PointerIs, Division
  <2>3. QED
    BY <1>4, <1>5, <2>1, <2>2
<1>6. Len(<<>>) = 0
  OBVIOUS
<1>7. pc' = "read" => Len(out') <= Buffer' /\ (program = "throughput" => out' = <<>> \/ Len(out') < Buffer')
  BY <1>4, <1>5, <1>6
<1>8. QED
  BY <1>2, <1>3, <1>4, <1>7 DEF Placed

\* At the beginning of an item that is there, its first file has a byte to be read.
LEMMA FirstFile ==
  ASSUME NEW i \in DOMAIN Items
  PROVE  /\ 1 \in DOMAIN Items[i].files /\ Items[i].files[1] \in Files
         /\ Len(<<>>) < Items[i].files[1].size
<1>1. 1 \in DOMAIN Items[i].files /\ Items[i].files[1] \in Files
  BY ItemTypes
<1>2. QED
  BY <1>1 DEF Files

LEMMA OpenMoves ==
  ASSUME TypeInv, Sane, Start < End, NEW a \in OpenAnswers, Opens(a)
  PROVE  /\ Sane' /\ position' \in Start..End /\ seek_position' \in 0..(Word - 1)
         /\ UNCHANGED <<native, partition, program>>
         /\ faults' = 0 => faults = 0
<1>1. Within(a, Start, BlockLength) /\ Start \in Nat /\ BlockLength \in Nat
  BY OpenIs, Sizes
<1>2. /\ a.bytes \in Seq(Int) /\ Len(a.bytes) \in Nat
      /\ Len(a.bytes) = 0 \/ Start + Len(a.bytes) <= End
      /\ Sane' /\ (faults' = 0 => faults = 0)
  <2>1. Takes(a)
    BY DEF Opens
  <2>2. /\ a.bytes \in Seq(Int) /\ Len(a.bytes) \in 0..BlockLength
        /\ Len(a.bytes) = 0 \/ Start + Len(a.bytes) <= End
    BY <1>1, <2>1, WithinIs
  <2>3. Sane' /\ (faults' = 0 => faults = 0)
    BY <1>1, <2>1, WithinIs
  <2>4. Len(a.bytes) \in Nat
    BY <1>1, <2>2
  <2>5. QED
    BY <2>2, <2>3, <2>4
<1>3. position' = Start + Len(a.bytes) /\ seek_position' = position'
  BY DEF Opens
<1>4. End \in Nat /\ End < Word /\ Word \in Nat
  BY SliceTypes, Sizes
<1>5. UNCHANGED <<native, partition, program>>
  BY DEF Opens
<1>6. QED
  BY <1>1, <1>2, <1>3, <1>4, <1>5

LEMMA PlacedOpens ==
  ASSUME Placed, \/ program = "throughput" /\ ThroughputOpen
                 \/ program = "hash" /\ HashList
  PROVE  Placed'
<1>1. PICK a \in OpenAnswers : Opens(a)
  BY DEF ThroughputOpen, HashList
<1>2. /\ pc = "open" /\ out' = <<>> /\ UNCHANGED <<count, item, file, total, recorded>>
      /\ pc' \in (IF program = "hash" THEN {"next", "failed"} ELSE {"read", "failed"})
      /\ program \in {"throughput", "hash"}
  BY DEF ThroughputOpen, HashList, Goes
<1>3. /\ Sane' /\ position' \in Start..End /\ seek_position' \in 0..(Word - 1)
      /\ UNCHANGED <<native, partition, program>>
  BY <1>1, <1>2, OpenMoves DEF Placed, TypeInv
<1>4. /\ item \in 1..(Len(Items) + 1) /\ count \in Nat /\ file \in Nat /\ total \in Nat \X Nat
      /\ item = 1 /\ file = 1 /\ 1 \in DOMAIN Items
  BY <1>2, ItemTypes DEF Placed, TypeInv
<1>5. pc' = "read" =>
        /\ item' \in DOMAIN Items /\ file' \in DOMAIN Items[item'].files
        /\ Len(out') < Items[item'].files[file'].size
  BY <1>2, <1>4, FirstFile
<1>6. out' \in Seq(Int) /\ pc' \in {"slice", "next", "read", "done", "failed"}
  BY <1>2
<1>7. program = "hash" => pc' # "read"
  BY <1>2
<1>8. QED
  BY <1>2, <1>3, <1>4, <1>5, <1>6, <1>7, PlacedVolume

LEMMA NextItemIs ==
  ASSUME TypeInv, item \in DOMAIN Items, NEW added \in Nat, NextItem(added)
  PROVE  /\ count' \in Nat /\ item' \in DOMAIN Items /\ item' \in 1..(Len(Items) + 1)
         /\ total' \in Nat \X Nat
         /\ pc' \in {"read", "slice", "done"}
<1>1. item \in 1..Len(Items) /\ Len(Items) \in Nat /\ DOMAIN Items = 1..Len(Items)
  BY ItemTypes
<1>2. total \in Nat \X Nat /\ total[1] \in Nat /\ total[1] + added \in Nat /\ count \in Nat
  BY DEF TypeInv
<1>3. CASE item < Len(Items)
  BY <1>1, <1>2, <1>3 DEF NextItem, Goes
<1>4. CASE ~(item < Len(Items))
  <2>1. UNCHANGED <<item, total>> /\ Loops(Rounds, "slice", "done")
    BY <1>4 DEF NextItem
  <2>2. count' \in Nat /\ pc' \in {"slice", "done"}
    BY <2>1, LoopsIs, Sizes
  <2>3. QED
    BY <1>1, <1>2, <2>1, <2>2
<1>5. QED
  BY <1>3, <1>4

\* A file is counted, or its item left out.
LEMMA PlacedCounts ==
  ASSUME Placed, program = "throughput", pc = "read", UNCHANGED <<native, partition, program>>,
         Sane', position' \in Start..End, seek_position' \in 0..(Word - 1),
         FileCounts \/ (NextItem(0) /\ file' = 1 /\ out' = <<>>)
  PROVE  Placed'
<1>1. CurrentFile \in Files /\ CurrentFile.size \in Nat
  BY WantedIs
<1>2. /\ item \in DOMAIN Items /\ item \in 1..(Len(Items) + 1) /\ file \in DOMAIN Items[item].files
      /\ file \in Nat /\ total \in Nat \X Nat /\ count \in Nat
      /\ Len(Items[item].files) \in Nat /\ DOMAIN Items[item].files = 1..Len(Items[item].files)
  BY ItemTypes DEF Placed, TypeInv
<1>3. total[1] \in Nat /\ total[2] + CurrentFile.size \in Nat
  BY <1>1, <1>2
\* The next item.
<1>4. ASSUME NEW added \in Nat, NextItem(added), file' = 1, out' = <<>>
      PROVE  Placed'
  <2>1. /\ count' \in Nat /\ item' \in DOMAIN Items /\ item' \in 1..(Len(Items) + 1)
        /\ total' \in Nat \X Nat /\ pc' \in {"read", "slice", "done"}
    BY <1>2, <1>4, NextItemIs DEF Placed
  <2>2. file' \in DOMAIN Items[item'].files /\ Len(out') < Items[item'].files[file'].size
    BY <1>4, <2>1, FirstFile
  <2>3. out' \in Seq(Int) /\ file' \in Nat
    BY <1>4
  <2>4. QED
    BY <1>4, <2>1, <2>2, <2>3, PlacedVolume
\* The next file of the item.
<1>5. CASE /\ file < Len(Items[item].files) /\ file' = file + 1 /\ out' = <<>>
           /\ total' = <<total[1], total[2] + CurrentFile.size>>
           /\ pc' = "read" /\ UNCHANGED <<count, item>>
  <2>1. file' \in DOMAIN Items[item'].files /\ file' \in Nat
    BY <1>2, <1>5
  <2>2. Items[item'].files[file'] \in Files
    BY <1>2, <1>5, <2>1, ItemTypes
  <2>3. Len(out') < Items[item'].files[file'].size
    BY <1>5, <2>2 DEF Files
  <2>4. out' \in Seq(Int) /\ total' \in Nat \X Nat
    BY <1>3, <1>5
  <2>5. QED
    BY <1>2, <1>5, <2>1, <2>3, <2>4, PlacedVolume
<1>6. CASE FileCounts
  BY <1>3, <1>4, <1>5, <1>6 DEF FileCounts, Goes
<1>7. QED
  BY <1>4, <1>6

LEMMA PlacedThroughputRead ==
  ASSUME Placed, program = "throughput", ThroughputRead
  PROVE  Placed'
<1>1. UNCHANGED <<native, partition, program>> /\ pc = "read"
  BY DEF ThroughputRead, FileRead
<1>2. /\ CurrentFile \in Files /\ CurrentFile.size \in Nat /\ Len(out) \in Nat
      /\ item \in DOMAIN Items /\ item \in 1..(Len(Items) + 1) /\ file \in DOMAIN Items[item].files
      /\ file \in Nat /\ total \in Nat \X Nat /\ count \in Nat /\ out \in Seq(Int)
      /\ position \in Start..End /\ seek_position \in 0..(Word - 1) /\ Sane
  BY <1>1, WantedIs, ItemTypes DEF Placed, TypeInv
<1>3. CASE UNCHANGED disk /\ ((Goes("failed") /\ UNCHANGED progress) \/ FileCounts)
  <2>1. Sane' /\ UNCHANGED <<position, seek_position>>
    BY <1>2, <1>3 DEF disk, slice, transport, Sane
  <2>2. CASE Goes("failed") /\ UNCHANGED progress
    <3>1. pc' = "failed" /\ UNCHANGED <<count, item, file, out, total>>
      BY <2>2 DEF Goes, progress
    <3>2. QED
      BY <1>1, <1>2, <2>1, <3>1, PlacedVolume
  <2>3. CASE FileCounts
    BY <1>1, <1>2, <2>1, <2>3, PlacedCounts
  <2>4. QED
    BY <1>3, <2>2, <2>3
<1>4. CASE FileRead(Buffer - Len(out), ThroughputReads)
  <2>1. PICK a \in FileAnswers(Wanted) :
          /\ Takes(a) /\ FileMoves(a)
          /\ \/ a.kind = "panic" /\ Goes("failed") /\ UNCHANGED progress
             \/ ThroughputReads(a)
    BY <1>4 DEF FileRead, Then, FileMoves, Wanted
  <2>2. /\ a.bytes \in Seq(Int) /\ Len(a.bytes) \in Nat
        /\ Sane' /\ position' \in Start..End /\ seek_position' \in 0..(Word - 1)
        /\ Buffer \in Nat /\ Buffer <= CurrentFile.size
    BY <1>1, <2>1, FileMovesIs
  <2>3. CASE a.kind = "panic" /\ Goes("failed") /\ UNCHANGED progress
    <3>1. pc' = "failed" /\ UNCHANGED <<count, item, file, out, total>>
      BY <2>3 DEF Goes, progress
    <3>2. QED
      BY <1>1, <1>2, <2>2, <3>1, PlacedVolume
  <2>4. CASE FileCounts \/ (NextItem(0) /\ file' = 1 /\ out' = <<>>)
    BY <1>1, <2>2, <2>4, PlacedCounts
  <2>5. CASE /\ Len(out) + Len(a.bytes) < Buffer
             /\ out' = out \o a.bytes /\ Goes("read") /\ UNCHANGED <<count, item, file, total>>
    <3>1. pc' = "read" /\ out' \in Seq(Int) /\ Len(out') = Len(out) + Len(a.bytes)
      BY <1>2, <2>2, <2>5 DEF Goes
    <3>2. CurrentFile = Items[item'].files[file'] /\ Buffer = Items[item'].files[file'].size % Pointer
      BY <2>5 DEF CurrentFile, Buffer
    <3>3. Len(out') < Buffer /\ Len(out') < CurrentFile.size /\ Len(out') <= Buffer
      BY <1>2, <2>2, <2>5, <3>1
    <3>4. /\ item' = item /\ file' = file /\ count' = count /\ total' = total
          /\ item' \in DOMAIN Items /\ file' \in DOMAIN Items[item'].files
          /\ count' \in Nat /\ item' \in 1..(Len(Items) + 1) /\ file' \in Nat /\ total' \in Nat \X Nat
      BY <1>2, <2>5
    <3>5. /\ Len(out') < Items[item'].files[file'].size
          /\ Len(out') < Items[item'].files[file'].size % Pointer
          /\ Len(out') <= Items[item'].files[file'].size % Pointer
      BY <3>2, <3>3
    <3>6. QED
      BY <1>1, <1>2, <2>2, <3>1, <3>4, <3>5, PlacedVolume
  <2>6. QED
    BY <2>1, <2>3, <2>4, <2>5 DEF ThroughputReads
<1>5. QED
  BY <1>3, <1>4 DEF ThroughputRead

LEMMA PlacedHashNext == ASSUME Placed, program = "hash", HashNext PROVE Placed'
<1>1. pc = "next" /\ out = <<>> /\ file = 1 /\ Start < End /\ position \in Start..End
  BY DEF HashNext, Placed, TypeInv
<1>2. /\ item \in 1..(Len(Items) + 1) /\ Len(Items) \in Nat /\ DOMAIN Items = 1..Len(Items)
      /\ count \in Nat /\ file \in Nat /\ total \in Nat \X Nat /\ <<>> \in Seq(Int)
      /\ seek_position \in 0..(Word - 1)
  BY ItemTypes DEF Placed, TypeInv
<1>3. CASE item > Len(Items)
  <2>1. pc' = "done" /\ UNCHANGED <<native, partition, position, seek_position, faults, lost, program,
                                     count, item, file, out, total>>
    BY <1>3 DEF HashNext, Goes, disk, slice, transport, progress
  <2>2. Sane'
    BY <2>1 DEF Sane, Placed
  <2>3. QED
    BY <1>1, <1>2, <2>1, <2>2, PlacedVolume
<1>4. CASE item <= Len(Items) /\ Items[item].directory
  <2>1. /\ item' = item + 1 /\ pc' = pc
        /\ UNCHANGED <<native, partition, position, seek_position, faults, lost, program, count,
                        file, out, total>>
    BY <1>2, <1>4 DEF HashNext, disk, slice, transport
  <2>2. Sane'
    BY <2>1 DEF Sane, Placed
  <2>3. item' \in 1..(Len(Items) + 1)
    BY <1>2, <1>4, <2>1
  <2>4. QED
    BY <1>1, <1>2, <2>1, <2>2, <2>3, PlacedVolume
<1>5. CASE item <= Len(Items) /\ ~Items[item].directory
  <2>1. PICK a \in OpenAnswers :
          /\ Opens(a)
          /\ IF a.kind = "ok" THEN Goes("read") /\ UNCHANGED progress ELSE Listed(NoHash)
    BY <1>2, <1>5 DEF HashNext
  <2>2. /\ Sane' /\ position' \in Start..End /\ seek_position' \in 0..(Word - 1)
        /\ UNCHANGED <<native, partition, program>>
    BY <1>1, <2>1, OpenMoves DEF Placed
  <2>3. item \in DOMAIN Items
    BY <1>2, <1>5
  <2>4. CASE Goes("read") /\ UNCHANGED progress
    <3>1. pc' = "read" /\ UNCHANGED <<count, item, file, out, total>>
      BY <2>4 DEF Goes, progress
    <3>2. file' \in DOMAIN Items[item'].files /\ Len(out') < Items[item'].files[file'].size
      BY <1>1, <2>3, <3>1, FirstFile
    <3>3. QED
      BY <1>1, <1>2, <1>5, <2>2, <2>3, <3>1, <3>2, PlacedVolume
  <2>5. CASE Listed(NoHash)
    <3>1. pc' = "next" /\ item' = item + 1 /\ out' = <<>> /\ UNCHANGED <<count, file, total>>
      BY <2>5 DEF Listed, Goes
    <3>2. item' \in 1..(Len(Items) + 1)
      BY <1>2, <1>5, <3>1
    <3>3. QED
      BY <1>1, <1>2, <2>2, <3>1, <3>2, PlacedVolume
  <2>6. QED
    BY <2>1, <2>4, <2>5
<1>6. QED
  BY <1>2, <1>3, <1>4, <1>5

LEMMA PlacedHashRead == ASSUME Placed, program = "hash", HashRead PROVE Placed'
<1>1. PICK a \in FileAnswers(Wanted) :
        /\ Takes(a) /\ FileMoves(a)
        /\ \/ a.kind = "panic" /\ Goes("failed") /\ UNCHANGED progress
           \/ HashReads(a)
  BY DEF HashRead, FileRead, Then, FileMoves, Wanted
<1>2. UNCHANGED <<native, partition, program>> /\ pc = "read"
  BY DEF HashRead, FileRead
<1>3. /\ CurrentFile \in Files /\ Len(out) \in Nat /\ a.bytes \in Seq(Int) /\ Len(a.bytes) \in Nat
      /\ Sane' /\ position' \in Start..End /\ seek_position' \in 0..(Word - 1)
      /\ Len(out) + Len(a.bytes) <= Buffer /\ Buffer \in Nat /\ Buffer <= CurrentFile.size
  BY <1>1, <1>2, FileMovesIs
<1>4. /\ item \in DOMAIN Items /\ item \in 1..(Len(Items) + 1) /\ file \in DOMAIN Items[item].files
      /\ item + 1 \in 1..(Len(Items) + 1)
      /\ file = 1 /\ file \in Nat /\ total \in Nat \X Nat /\ count \in Nat /\ out \in Seq(Int)
      /\ Len(out) < CurrentFile.size /\ ~Items[item].directory /\ CurrentFile.size \in Nat
  BY <1>2, <1>3, ItemTypes DEF Placed, TypeInv, Files
<1>5. CASE a.kind = "panic" /\ Goes("failed") /\ UNCHANGED progress
  <2>1. pc' = "failed" /\ UNCHANGED <<count, item, file, out, total>>
    BY <1>5 DEF Goes, progress
  <2>2. QED
    BY <1>2, <1>3, <1>4, <2>1, PlacedVolume
<1>6. CASE \E hash : Listed(hash)
  <2>1. pc' = "next" /\ item' = item + 1 /\ out' = <<>> /\ UNCHANGED <<count, file, total>>
    BY <1>6 DEF Listed, Goes
  <2>2. out' \in Seq(Int)
    BY <2>1
  <2>3. QED
    BY <1>2, <1>3, <1>4, <2>1, <2>2, PlacedVolume
<1>7. CASE /\ Len(out) + Len(a.bytes) # CurrentFile.size
           /\ out' = out \o a.bytes /\ Goes("read") /\ UNCHANGED <<count, item, file, total>>
  <2>1. out' \in Seq(Int) /\ Len(out') = Len(out) + Len(a.bytes) /\ pc' = "read"
    BY <1>3, <1>4, <1>7 DEF Goes
  <2>2. Len(out') < Items[item'].files[file'].size
    <3>1. /\ Len(out) + Len(a.bytes) # CurrentFile.size /\ Len(out) + Len(a.bytes) \in Nat
          /\ CurrentFile.size \in Nat /\ Len(out) + Len(a.bytes) <= Buffer /\ Buffer \in Nat /\ Buffer <= CurrentFile.size
      BY <1>3, <1>4, <1>7
    <3>2. Len(out) + Len(a.bytes) < CurrentFile.size
      BY <3>1
    <3>3. CurrentFile.size = Items[item'].files[file'].size
      BY <1>7 DEF CurrentFile
    <3>4. QED
      BY <2>1, <3>2, <3>3
  <2>3. Len(out') <= Items[item'].files[file'].size % Pointer
    BY <1>3, <1>7, <2>1 DEF CurrentFile, Buffer
  <2>4. QED
    BY <1>2, <1>3, <1>4, <1>7, <2>1, <2>2, <2>3, PlacedVolume
<1>8. HashReads(a) =>
        \/ \E hash : Listed(hash)
        \/ /\ Len(out) + Len(a.bytes) # CurrentFile.size
           /\ out' = out \o a.bytes /\ Goes("read") /\ UNCHANGED <<count, item, file, total>>
  BY DEF HashReads
<1>9. QED
  BY <1>1, <1>5, <1>6, <1>7, <1>8

\* Every step is one of these.
LEMMA Steps ==
  ASSUME Next
  PROVE  \/ \E next \in {"block", "mbr"} : Begins(next)
         \/ pc = "mbr" /\ ReadsFirstBlock({"ok"}, "slice")
         \/ pc = "block" /\ ReadsFirstBlock({"ok", "short"}, "mbr")
         \/ \E next \in {"copy", "warmup", "open", "any"} : MakesSlice(next)
         \/ program = "readlot" /\ Copy
         \/ program = "old_read" /\ (OldReadWarmup \/ OldReadMeasure)
         \/ program = "latency" /\ (LatencyWarmup \/ LatencyMeasure)
         \/ program = "throughput" /\ (ThroughputOpen \/ ThroughputRead)
         \/ program = "hash" /\ (HashList \/ HashNext \/ HashRead)
         \/ program = "filesystem" /\ (AnySeek \/ AnyRead)
<1> USE DEF ReadsMbr, ReadsBlock
<1>1. CASE ReadLot \/ NativeReadLot
  BY <1>1 DEF ReadLot, NativeReadLot
<1>2. CASE OldRead
  BY <1>2 DEF OldRead
<1>3. CASE ReadLatency
  BY <1>3 DEF ReadLatency
<1>4. CASE ReadThroughput \/ NativeThroughput
  BY <1>4 DEF ReadThroughput, NativeThroughput
<1>5. CASE ReadAndHash
  BY <1>5 DEF ReadAndHash
<1>6. CASE FileSystem
  BY <1>6 DEF FileSystem
<1>7. QED
  BY <1>1, <1>2, <1>3, <1>4, <1>5, <1>6 DEF Next

\* A program stays the program it is, on the partition it is for.
LEMMA Programmed == ASSUME Next PROVE UNCHANGED <<native, partition, program>>
<1>1. CASE ReadLot \/ NativeReadLot
  BY <1>1 DEF ReadLot, NativeReadLot, Begins, ReadsMbr, ReadsFirstBlock, MakesSlice, Copy, SliceRead
<1>2. CASE OldRead \/ FileSystem
  BY <1>2 DEF OldRead, FileSystem, Begins, ReadsMbr, ReadsFirstBlock, MakesSlice, OldReadWarmup,
              OldReadMeasure, AnyRead, AnySeek, SliceRead
<1>3. CASE ReadLatency
  BY <1>3 DEF ReadLatency, Begins, ReadsMbr, ReadsFirstBlock, MakesSlice, LatencyWarmup,
              LatencyMeasure, DiskRead
<1>4. CASE ReadThroughput \/ NativeThroughput
  BY <1>4 DEF ReadThroughput, NativeThroughput, Begins, ReadsBlock, ReadsMbr, ReadsFirstBlock,
              MakesSlice, ThroughputOpen, Opens, ThroughputRead, FileRead
<1>5. CASE ReadAndHash
  BY <1>5 DEF ReadAndHash, Begins, ReadsMbr, ReadsFirstBlock, MakesSlice, HashList, HashNext, Opens,
              HashRead, FileRead
<1>6. QED
  BY <1>1, <1>2, <1>3, <1>4, <1>5 DEF Next

LEMMA PlacedStep == Placed /\ [Next]_vars => Placed'
<1> SUFFICES ASSUME Placed, [Next]_vars PROVE Placed'
  OBVIOUS
<1>1. CASE UNCHANGED vars
  <2>1. UNCHANGED <<native, partition, position, seek_position, faults, lost, program, pc, count, item,
                     file, out, total, recorded>>
    BY <1>1 DEF vars, disk, slice, transport, progress
  <2>2. TypeInv' /\ Sane'
    BY <2>1 DEF Placed, TypeInv, Sane, Start, End
  <2>3. CurrentFile' = CurrentFile /\ Capacity' = Capacity /\ Buffer' = Buffer
    BY <2>1 DEF CurrentFile, Capacity, Buffer, Pointer
  <2>4. QED
    BY <2>1, <2>2, <2>3 DEF Placed
<1>2. CASE Next
  <2>1. /\ pc = "mbr" /\ ReadsFirstBlock({"ok"}, "slice") => Placed'
        /\ pc = "block" /\ ReadsFirstBlock({"ok", "short"}, "mbr") => Placed'
    BY PlacedFirstBlock
  <2>2. QED
    BY <1>2, <2>1, Steps, PlacedBegins, PlacedMakesSlice, PlacedSliceReads, PlacedLatencyWarmup,
       PlacedLatencyMeasure, PlacedOpens, PlacedThroughputRead, PlacedHashNext, PlacedHashRead,
       PlacedAnySeek
<1>3. QED
  BY <1>1, <1>2

\* Every variable keeps its type, and no reader leaves its slice, whatever seek and whatever
\* read is asked of it and however the answers fail or come short (IoSlice and
\* UsbMassStorage, read_and_hash.rs 42-79 and 487-552).
THEOREM TypeCorrect == Spec => []TypeInv
<1>1. Placed => TypeInv
  BY DEF Placed
<1>2. QED
  BY <1>1, PlacedInit, PlacedStep, PTL DEF Spec

-----------------------------------------------------------------------------
(***************************************************************************)
(* What is in `out`.  A copy is at its place because the slice is where    *)
(* the copy ends; a file read in parts, because each part begins where the *)
(* last one ended.                                                         *)
(***************************************************************************)
There ==
  /\ (program = "hash" => item <= Len(Items)) => FromDisk(out, Base, native)
  /\ faults = 0 => NoHoles(out)
  /\ program = "readlot" /\ pc = "done" => Len(out) = End - Start
  /\ program = "readlot" /\ pc = "copy" => position = Start + Len(out)

LEMMA Joined ==
  ASSUME NEW s \in Seq(Int), NEW t \in Seq(Int), NEW base \in Int,
         NEW strange, FromDisk(s, base, strange), FromDisk(t, base + Len(s), strange)
  PROVE  FromDisk(s \o t, base, strange) /\ (NoHoles(s) /\ NoHoles(t) => NoHoles(s \o t))
<1> DEFINE u == s \o t
<1>1. /\ Len(s) \in Nat /\ Len(t) \in Nat /\ DOMAIN u = 1..(Len(s) + Len(t))
      /\ DOMAIN s = 1..Len(s) /\ DOMAIN t = 1..Len(t)
      /\ \A i \in 1..Len(s) : u[i] = s[i]
      /\ \A i \in 1..(Len(s) + Len(t)) : i \notin 1..Len(s) => i - Len(s) \in 1..Len(t) /\ u[i] = t[i - Len(s)]
  OBVIOUS
<1> HIDE DEF u
<1>2. ASSUME NEW i \in DOMAIN u
      PROVE  /\ u[i] \in {base + i - 1} \cup Unknown(strange)
             /\ NoHoles(s) /\ NoHoles(t) => u[i] \notin {Zero, Foreign}
  <2>1. CASE i \in 1..Len(s)
    BY <1>1, <2>1 DEF FromDisk, NoHoles
  <2>2. CASE i \notin 1..Len(s)
    <3>1. i - Len(s) \in DOMAIN t /\ u[i] = t[i - Len(s)] /\ i \in Int
      BY <1>1, <2>2
    <3>2. u[i] \in {base + Len(s) + (i - Len(s)) - 1} \cup Unknown(strange)
      BY <3>1 DEF FromDisk
    <3>3. base + Len(s) + (i - Len(s)) - 1 = base + i - 1
      BY <1>1, <3>1
    <3>4. QED
      BY <3>1, <3>2, <3>3 DEF NoHoles
  <2>3. QED
    BY <2>1, <2>2
<1>3. QED
  BY <1>2 DEF FromDisk, NoHoles, u

LEMMA ThereEmpty ==
  ASSUME out' = <<>>, UNCHANGED <<partition, program>>, TypeInv,
         program = "readlot" => pc' # "done" /\ (pc' = "copy" => position' = Start)
  PROVE  There'
<1>1. \A base, strange : FromDisk(<<>>, base, strange)
  BY DEF FromDisk
<1>2. NoHoles(<<>>)
  BY DEF NoHoles
<1>3. Start' = Start /\ Start \in Nat
  BY SliceTypes DEF Start
<1>4. program = "readlot" /\ pc' = "copy" => position' = Start' + Len(out')
  <2>1. Len(out') = 0 /\ Start + 0 = Start
    BY <1>3
  <2>2. QED
    BY <1>3, <2>1
<1>5. QED
  BY <1>1, <1>2, <1>4 DEF There

LEMMA ThereInit == Init => There
<1> SUFFICES ASSUME Init PROVE There
  OBVIOUS
<1>1. out = <<>> /\ pc = "start"
  BY DEF Init
<1>2. QED
  BY <1>1 DEF There, FromDisk, NoHoles

\* Before the first read of the slice nothing is in `out`, and after a seek nothing is.
LEMMA ThereBefore ==
  ASSUME Placed, Placed', There,
         \/ \E next \in {"block", "mbr"} : Begins(next)
         \/ pc = "mbr" /\ ReadsFirstBlock({"ok"}, "slice")
         \/ pc = "block" /\ ReadsFirstBlock({"ok", "short"}, "mbr")
         \/ \E next \in {"copy", "warmup", "open", "any"} : MakesSlice(next)
         \/ program = "throughput" /\ ThroughputOpen
         \/ program = "hash" /\ (HashList \/ HashNext)
         \/ program = "filesystem" /\ AnySeek
  PROVE  There'
<1>1. CASE program = "throughput" /\ ThroughputOpen
  BY <1>1, ThereEmpty DEF ThroughputOpen, Opens, Placed
<1>2. CASE program = "hash" /\ HashList
  BY <1>2, ThereEmpty DEF HashList, Opens, Placed
<1>3. CASE program = "hash" /\ HashNext
  <2>1. out = <<>>
    BY <1>3 DEF HashNext, Placed
  <2>2. out' = <<>> /\ program' = program /\ partition' = partition
    BY <1>3, <2>1 DEF HashNext, progress, Opens, Listed
  <2>3. QED
    BY <1>3, <2>2, ThereEmpty DEF Placed
<1>4. CASE program = "filesystem" /\ AnySeek
  BY <1>4, ThereEmpty DEF AnySeek, Placed
<1>5. CASE \E next \in {"block", "mbr"} : Begins(next)
  <2>1. out' = <<>> /\ UNCHANGED <<partition, program>> /\ pc' \notin {"done", "copy"}
    BY <1>5 DEF Begins, Goes, progress, Placed
  <2>2. QED
    BY <2>1, ThereEmpty DEF Placed
<1>6. CASE \/ pc = "mbr" /\ ReadsFirstBlock({"ok"}, "slice")
           \/ pc = "block" /\ ReadsFirstBlock({"ok", "short"}, "mbr")
  <2>1. out' = <<>> /\ UNCHANGED <<partition, program>> /\ pc' \notin {"done", "copy"}
    BY <1>6 DEF ReadsFirstBlock, Goes, progress, Placed
  <2>2. QED
    BY <2>1, ThereEmpty DEF Placed
<1>7. CASE \E next \in {"copy", "warmup", "open", "any"} : MakesSlice(next)
  <2>1. PICK next \in {"copy", "warmup", "open", "any"} : MakesSlice(next)
    BY <1>7
  <2>2. out' = <<>> /\ program' = program /\ pc' # "done" /\ partition' = partition
    BY <2>1 DEF MakesSlice, Goes, Placed
  <2>3. pc' = "copy" => position' = Start
    BY <2>1, <2>2 DEF MakesSlice, Goes, NewSlice
  <2>4. QED
    BY <2>2, <2>3, ThereEmpty DEF Placed
<1>8. QED
  BY <1>1, <1>2, <1>3, <1>4, <1>5, <1>6, <1>7

LEMMA ThereSlice ==
  ASSUME Placed, There, Placed',
         \/ program = "old_read" /\ (OldReadWarmup \/ OldReadMeasure)
         \/ program = "filesystem" /\ AnyRead
  PROVE  There'
<1>1. pc \in {"warmup", "measure", "any"} /\ Start < End /\ position \in Start..End
  BY DEF OldReadWarmup, OldReadMeasure, AnyRead, Placed, TypeInv
<1>2. Start \in Nat /\ End \in Nat /\ BufferLength \in Nat \ {0}
  BY SliceTypes, Sizes DEF Placed
<1> DEFINE Reads(a) == /\ Takes(a) /\ SliceAdvances(a) /\ UNCHANGED <<native, partition, program>>
                       /\ (a.kind = "panic" /\ UNCHANGED out) \/ out' = a.bytes
<1>9. PICK length \in Nat : \E a \in SliceAnswers(length) : Reads(a)
  <2>1. CASE OldReadWarmup
    <3>1. SmallerOf((End - Start) % Pointer, BufferLength) \in Nat
      <4>1. End - Start \in Nat
        BY <1>1, <1>2
      <4>2. (End - Start) % Pointer \in Nat
        BY <4>1, PointerIs, Division
      <4>3. QED
        BY <1>2, <4>2 DEF SmallerOf
    <3>2. QED
      BY <2>1, <3>1 DEF OldReadWarmup, SliceRead, Then, WarmsUp, progress
  <2>2. CASE OldReadMeasure
    BY <1>2, <2>2 DEF OldReadMeasure, SliceRead, Then, Measures, progress
  <2>3. CASE AnyRead
    <3>1. 1..(End - Start) \subseteq Nat
      BY <1>2
    <3>2. QED
      BY <2>3, <3>1 DEF AnyRead, SliceRead, Then, Any, progress
  <2>4. QED
    BY <2>1, <2>2, <2>3
<1>3. PICK a \in SliceAnswers(length) : Reads(a)
  BY <1>9
<1>4. /\ a.bytes \in Seq(Int) /\ Len(a.bytes) \in Nat /\ FromDisk(a.bytes, position, native)
      /\ ~Bytes(a) => a.bytes = <<>>
      /\ faults' = 0 => faults = 0 /\ NoHoles(a.bytes)
      /\ position' = position + Len(a.bytes)
  BY <1>1, <1>3, SliceMoves DEF Placed
<1>5. /\ position \in Nat /\ program' = program /\ native' = native
      /\ program \notin {"readlot", "latency", "throughput", "hash"}
  BY <1>1, <1>2, <1>3
<1>6. Base = position - Len(out) /\ Base' = position' - Len(out')
  BY <1>5 DEF Base
<1>7. FromDisk(out', Base', native) /\ (faults' = 0 => NoHoles(out'))
  <2>1. CASE out' = a.bytes
    <3>1. Base' = position
      BY <1>4, <1>5, <1>6, <2>1
    <3>2. QED
      BY <1>4, <2>1, <3>1
  <2>2. CASE a.kind = "panic" /\ out' = out
    <3>1. a.bytes = <<>>
      BY <1>4, <2>2 DEF Bytes
    <3>2. Len(a.bytes) = 0
      BY <3>1
    <3>3. position' = position
      BY <1>4, <1>5, <3>2
    <3>4. Base' = Base
      BY <1>6, <2>2, <3>3
    <3>5. FromDisk(out, Base, native) /\ (faults = 0 => NoHoles(out))
      BY <1>5 DEF There
    <3>6. QED
      BY <1>4, <2>2, <3>4, <3>5
  <2>3. QED
    BY <1>3, <2>1, <2>2
<1>8. QED
  BY <1>5, <1>7 DEF There

LEMMA ThereCopy ==
  ASSUME Placed, There, program = "readlot", Copy
  PROVE  There'
<1>1. pc = "copy" /\ Start < End /\ position \in Start..End
  BY DEF Copy, Placed, TypeInv
<1>2. Start \in Nat /\ End \in Nat /\ BufferLength \in Nat \ {0}
  BY SliceTypes, Sizes DEF Placed
<1>3. PICK a \in SliceAnswers(BufferLength) :
        /\ Takes(a) /\ SliceAdvances(a) /\ UNCHANGED <<native, partition, program>>
        /\ \/ a.kind = "panic" /\ UNCHANGED out /\ pc' = "failed"
           \/ Copies(a)
  BY DEF Copy, SliceRead, Then, Goes, progress
<1>4. /\ a.bytes \in Seq(Int) /\ Len(a.bytes) \in Nat /\ FromDisk(a.bytes, position, native)
      /\ Bytes(a) => (a.bytes = <<>> <=> position = End \/ BufferLength = 0)
      /\ faults' = 0 => faults = 0 /\ NoHoles(a.bytes)
      /\ position' = position + Len(a.bytes)
  BY <1>1, <1>2, <1>3, SliceMoves DEF Placed
<1>5. /\ out \in Seq(Int) /\ Len(out) \in Nat /\ position = Start + Len(out) /\ Base = Start
      /\ FromDisk(out, Start, native) /\ (faults = 0 => NoHoles(out))
  BY <1>1 DEF There, Base, Placed
<1>6. Base' = Start /\ Start' = Start /\ End' = End /\ program' = program /\ native' = native
  BY <1>3 DEF Base, Start, End
<1>7. CASE a.kind = "panic" /\ UNCHANGED out /\ pc' = "failed"
  BY <1>4, <1>5, <1>6, <1>7 DEF There
<1>8. CASE Copies(a)
  <2>1. out' = out \o a.bytes /\ Len(out') = Len(out) + Len(a.bytes)
    BY <1>4, <1>5, <1>8 DEF Copies
  <2>2. FromDisk(out', Start, native) /\ (faults' = 0 => NoHoles(out'))
    <3>1. FromDisk(a.bytes, Start + Len(out), native) /\ Start \in Int
      BY <1>2, <1>4, <1>5
    <3>2. /\ FromDisk(out \o a.bytes, Start, native)
          /\ NoHoles(out) /\ NoHoles(a.bytes) => NoHoles(out \o a.bytes)
      BY <1>4, <1>5, <3>1, Joined
    <3>3. QED
      BY <1>4, <1>5, <2>1, <3>2
  <2>3. position' = Start + Len(out')
    <3>1. /\ position' = position + Len(a.bytes) /\ position = Start + Len(out)
          /\ Len(out') = Len(out) + Len(a.bytes)
          /\ Len(a.bytes) \in Nat /\ Len(out) \in Nat
      BY <1>4, <1>5, <2>1
    <3>2. \A b, n, m \in Nat : (b + n) + m = b + (n + m)
      OBVIOUS
    <3>3. (Start + Len(out)) + Len(a.bytes) = Start + (Len(out) + Len(a.bytes))
      BY <1>2, <3>1, <3>2
    <3>4. QED
      BY <3>1, <3>3
  <2>4. pc' = "done" => Len(out') = End - Start
    <3>1. pc' = "done" => Bytes(a) /\ a.bytes = <<>>
      BY <1>8 DEF Copies, Goes
    <3>2. a.bytes = <<>> => Len(a.bytes) = 0
      OBVIOUS
    <3>3. QED
      BY <1>2, <1>4, <1>5, <2>1, <3>1, <3>2
  <2>5. QED
    BY <1>6, <2>2, <2>3, <2>4 DEF There
<1>9. QED
  BY <1>3, <1>7, <1>8

\* A block of the disk ends where the device stands after it.
LEMMA ThereLatency ==
  ASSUME Placed, There, program = "latency", LatencyWarmup \/ LatencyMeasure
  PROVE  There'
<1>1. pc \in {"warmup", "measure"} /\ UNCHANGED <<native, partition, program>>
  BY DEF LatencyWarmup, LatencyMeasure, DiskRead
<1>2. (count * SectorLength) % Capacity \in Nat /\ 0 \in Nat
  <2>1. Capacity \in Nat \ {0}
    BY <1>1, CapacityFits, Sizes DEF Placed
  <2>2. count * SectorLength \in Nat
    BY Sizes DEF Placed, TypeInv
  <2>3. QED
    BY <2>1, <2>2, Division
<1>3. PICK where \in Nat : \E a \in Answers(where, SectorLength) :
        Takes(a) /\ seek_position' = where + Len(a.bytes) /\ out' = a.bytes
  BY <1>2 DEF LatencyWarmup, LatencyMeasure, DiskRead
<1>4. PICK a \in Answers(where, SectorLength) :
        Takes(a) /\ seek_position' = where + Len(a.bytes) /\ out' = a.bytes
  BY <1>3
<1>5. /\ a.bytes \in Seq(Int) /\ FromDisk(a.bytes, where, native)
      /\ ~Bytes(a) => a.bytes = <<>>
      /\ a.kind = "ok" => NoHoles(a.bytes)
      /\ faults' = 0 => a.kind \in {"ok", "over", "panic"}
  <2>1. SectorLength \in Nat /\ Sane
    BY Sizes DEF Placed
  <2>2. QED
    BY <1>4, <2>1, AnswerIs, TakesIs
<1>6. faults' = 0 => NoHoles(out')
  <2>1. NoHoles(<<>>)
    BY DEF NoHoles
  <2>2. a.kind \in {"over", "panic"} => ~Bytes(a)
    BY DEF Bytes
  <2>3. QED
    BY <1>4, <1>5, <2>1, <2>2
<1>7. Base' = where
  <2>1. Base' = seek_position' - Len(out')
    BY <1>1 DEF Base
  <2>2. Len(a.bytes) \in Nat
    BY <1>5
  <2>3. QED
    BY <1>4, <2>1, <2>2
<1>8. QED
  BY <1>1, <1>4, <1>5, <1>6, <1>7 DEF There

\* A file is at its place, part after part.
LEMMA ThereFile ==
  ASSUME Placed, There,
         \/ program = "throughput" /\ ThroughputRead
         \/ program = "hash" /\ HashRead
  PROVE  There'
<1>1. pc = "read" /\ UNCHANGED <<native, partition, program>>
  BY DEF ThroughputRead, HashRead, FileRead
<1>2. \/ UNCHANGED disk /\ (UNCHANGED progress \/ FileCounts)
      \/ \E a \in FileAnswers(Wanted) :
           /\ Takes(a) /\ FileMoves(a)
           /\ \/ a.kind = "panic" /\ Goes("failed") /\ UNCHANGED progress
              \/ program = "throughput" /\ ThroughputReads(a)
              \/ program = "hash" /\ HashReads(a)
  BY DEF ThroughputRead, HashRead, FileRead, Then, FileMoves, Wanted
<1>3. ASSUME NEW a \in FileAnswers(Wanted), Takes(a), FileMoves(a)
      PROVE  /\ a.bytes \in Seq(Int) /\ FromDisk(a.bytes, FileStart + Len(out), native)
             /\ faults' = 0 => faults = 0 /\ NoHoles(a.bytes)
  BY <1>1, <1>3, FileMovesIs
<1>4. FileStart \in Nat /\ Len(out) \in Nat
  <2>1. Start \in Nat /\ CurrentFile \in Files /\ Len(out) \in Nat
    BY <1>1, SliceTypes, WantedIs DEF Placed
  <2>2. QED
    BY <2>1 DEF FileStart, Files
<1>5. /\ out \in Seq(Int) /\ Base = FileStart /\ program \in {"throughput", "hash"}
      /\ item \in DOMAIN Items /\ item <= Len(Items)
  BY <1>1, ItemTypes DEF Base, Placed
<1>6. FromDisk(out, FileStart, native) /\ (faults = 0 => NoHoles(out))
  BY <1>5 DEF There
<1>7. ASSUME UNCHANGED <<item, file>> PROVE Base' = FileStart
  BY <1>1, <1>5, <1>7 DEF Base, FileStart, CurrentFile, Start
<1>8. CASE out' = <<>>
  BY <1>1, <1>5, <1>8, ThereEmpty DEF Placed
<1>9. CASE out' = out /\ UNCHANGED <<item, file>> /\ (faults' = 0 => faults = 0)
  <2>1. Base' = FileStart
    BY <1>7, <1>9
  <2>2. QED
    BY <1>1, <1>5, <1>6, <1>9, <2>1 DEF There
<1>10. ASSUME NEW a \in FileAnswers(Wanted), Takes(a), FileMoves(a),
              out' = out \o a.bytes, UNCHANGED <<item, file>>
       PROVE  There'
  <2>1. /\ a.bytes \in Seq(Int) /\ FromDisk(a.bytes, FileStart + Len(out), native)
        /\ faults' = 0 => faults = 0 /\ NoHoles(a.bytes)
    BY <1>3, <1>10
  <2>2. /\ FromDisk(out \o a.bytes, FileStart, native)
        /\ NoHoles(out) /\ NoHoles(a.bytes) => NoHoles(out \o a.bytes)
    BY <1>4, <1>5, <1>6, <2>1, Joined
  <2>3. Base' = FileStart
    BY <1>7, <1>10
  <2>4. QED
    BY <1>1, <1>5, <1>6, <1>10, <2>1, <2>2, <2>3 DEF There
<1>11. CASE UNCHANGED disk /\ (UNCHANGED progress \/ FileCounts)
  <2>1. (faults' = 0 => faults = 0) /\ (out' = <<>> \/ (out' = out /\ UNCHANGED <<item, file>>))
    BY <1>11 DEF disk, transport, progress, FileCounts
  <2>2. QED
    BY <1>8, <1>9, <2>1
<1>12. ASSUME NEW a \in FileAnswers(Wanted), Takes(a), FileMoves(a),
              \/ a.kind = "panic" /\ Goes("failed") /\ UNCHANGED progress
              \/ program = "throughput" /\ ThroughputReads(a)
              \/ program = "hash" /\ HashReads(a)
       PROVE  There'
  <2>1. \/ out' = <<>>
        \/ out' = out /\ UNCHANGED <<item, file>>
        \/ out' = out \o a.bytes /\ UNCHANGED <<item, file>>
    BY <1>12 DEF ThroughputReads, FileCounts, HashReads, Listed, progress
  <2>2. faults' = 0 => faults = 0
    BY <1>3, <1>12
  <2>3. QED
    BY <1>8, <1>9, <1>10, <1>12, <2>1, <2>2
<1>13. QED
  BY <1>2, <1>11, <1>12

LEMMA ThereStep == Placed /\ Placed' /\ There /\ [Next]_vars => There'
<1> SUFFICES ASSUME Placed, Placed', There, [Next]_vars PROVE There'
  OBVIOUS
<1>1. CASE UNCHANGED vars
  <2>1. UNCHANGED <<partition, position, seek_position, faults, program, pc, item, file, out>>
    BY <1>1 DEF vars, disk, slice, transport, progress
  <2>2. Base' = Base /\ Start' = Start /\ End' = End /\ native' = native
    BY <1>1, <2>1 DEF Base, FileStart, CurrentFile, Start, End, vars
  <2>3. QED
    BY <2>1, <2>2 DEF There
<1>2. CASE Next
  BY <1>2, Steps, ThereBefore, ThereSlice, ThereCopy, ThereLatency, ThereFile
<1>3. QED
  BY <1>1, <1>2

\* Whatever fails or comes short, what a program has read are the bytes of the place it read,
\* in order, except for zeros where a transfer was short; without a fault there are none; and
\* a copy that ended has every byte of the partition (readlot.rs 610-650 with the Read of
\* IoSlice and UsbMassStorage).
THEOREM ReadingIsThere == Spec => []ReadsAreThere
<1>1. There => ReadsAreThere
  BY DEF There, ReadsAreThere, FromDisk, NoHoles, Unread, Unknown
<1>2. QED
  BY <1>1, PlacedInit, PlacedStep, ThereInit, ThereStep, PTL DEF Spec

-----------------------------------------------------------------------------
(***************************************************************************)
(* What a hash is of.                                                      *)
(***************************************************************************)
LEMMA Appended ==
  ASSUME NEW S, NEW s \in Seq(S), NEW e \in S
  PROVE  /\ Append(s, e) \in Seq(S)
         /\ \A r \in DOMAIN Append(s, e) :
              Append(s, e)[r] = e \/ (r \in DOMAIN s /\ Append(s, e)[r] = s[r])
  OBVIOUS

Hashes == [of : Int, hash : Seq(Int)]

\* An entry of the listing, in the partition from first to last.
HashIsOf(entry, first, last) ==
  LET f == Items[entry.of].files[1]
      part == f.size % Usize
  IN entry.hash # NoHash =>
       Len(entry.hash) = IF f.offset + part <= last - first THEN part
                         ELSE last - first - f.offset

Hashed ==
  program = "hash" =>
    recorded \in Seq(Hashes) /\ \A r \in DOMAIN recorded : HashIsOf(recorded[r], Start, End)

LEMMA HashedSame ==
  ASSUME Hashed, UNCHANGED <<partition, program, recorded>>
  PROVE  Hashed'
  BY DEF Hashed, HashIsOf, Start, End

LEMMA HashedListed ==
  ASSUME Placed, Hashed, program = "hash", UNCHANGED <<partition, program>>, NEW hash \in Seq(Int),
         HashIsOf([of |-> item, hash |-> hash], Start, End), Listed(hash)
  PROVE  Hashed'
<1> DEFINE entry == [of |-> item, hash |-> hash]
<1>1. Start' = Start /\ End' = End
  BY DEF Start, End
<1>2. item \in Int
  BY ItemTypes DEF Placed, TypeInv
<1>3. entry \in Hashes
  BY <1>2 DEF Hashes
<1>4. recorded' = Append(recorded, entry)
  BY DEF Listed
<1>5. HashIsOf(entry, Start, End)
  OBVIOUS
<1> HIDE DEF entry
<1>6. /\ recorded \in Seq(Hashes)
      /\ \A r \in DOMAIN recorded : HashIsOf(recorded[r], Start, End)
  BY DEF Hashed
<1>7. /\ recorded' \in Seq(Hashes)
      /\ \A r \in DOMAIN recorded' :
           recorded'[r] = entry \/ (r \in DOMAIN recorded /\ recorded'[r] = recorded[r])
  BY <1>3, <1>4, <1>6, Appended
<1>8. \A r \in DOMAIN recorded' : HashIsOf(recorded'[r], Start, End)
  BY <1>5, <1>6, <1>7
<1>9. QED
  BY <1>1, <1>7, <1>8 DEF Hashed

\* The part of a file that is read, of which m bytes came after n, has no more of them: they
\* are its last, or none as the slice ends here.
LEMMA EndOfFile ==
  ASSUME NEW first \in Nat, NEW last \in Nat, NEW offset \in Nat, NEW part \in Nat,
         NEW n \in Nat, NEW m \in Nat, n + m <= part,
         \/ m = 0 /\ first + offset + n = last
         \/ n + m = part /\ first + offset + n + m <= last
  PROVE  n + m = IF offset + part <= last - first THEN part ELSE last - first - offset
  OBVIOUS

LEMMA HashedRead ==
  ASSUME Placed, Hashed, program = "hash", HashRead
  PROVE  Hashed'
<1>1. pc = "read" /\ UNCHANGED <<native, partition, program>>
  BY DEF HashRead, FileRead
<1>2. PICK a \in FileAnswers(Wanted) :
        /\ Takes(a) /\ FileMoves(a)
        /\ \/ a.kind = "panic" /\ Goes("failed") /\ UNCHANGED progress
           \/ HashReads(a)
  BY <1>1 DEF HashRead, FileRead, Then, FileMoves, Wanted
<1>3. /\ CurrentFile \in Files /\ FileStart \in Nat /\ Len(out) \in Nat
      /\ a.bytes \in Seq(Int) /\ Len(a.bytes) \in Nat
      /\ a.bytes = <<>> \/ FileStart + Len(out) + Len(a.bytes) <= End
      /\ Bytes(a) => FileStart + Len(out) <= End
      /\ Bytes(a) => (a.bytes = <<>> <=> FileStart + Len(out) = End \/ Len(out) = Buffer)
      /\ Buffer \in Nat /\ Buffer <= CurrentFile.size /\ Len(out) + Len(a.bytes) <= Buffer
  BY <1>1, <1>2, FileMovesIs
<1>11. Buffer = CurrentFile.size % Usize
  <2>1. <<program, native>> \in Programs /\ <<program, native>>[1] = program
        /\ <<program, native>>[2] = native
    BY DEF Placed, TypeInv
  <2>2. ~native
    BY <2>1, ProgramsAssumption
  <2>3. QED
    BY <2>2 DEF Buffer, Pointer
<1>4. /\ out \in Seq(Int) /\ Len(out) < CurrentFile.size
      /\ CurrentFile = Items[item].files[1] /\ FileStart = Start + CurrentFile.offset
      /\ Start \in Nat /\ End \in Nat
      /\ CurrentFile.size \in Nat /\ CurrentFile.offset \in Nat
  BY <1>1, <1>3, SliceTypes DEF Placed, CurrentFile, FileStart, Files
<1>5. CASE UNCHANGED recorded
  BY <1>1, <1>5, HashedSame
<1>6. CASE Listed(NoHash)
  <2>1. NoHash \in Seq(Int) /\ HashIsOf([of |-> item, hash |-> NoHash], Start, End)
    BY DEF NoHash, HashIsOf
  <2>2. QED
    BY <1>1, <1>6, <2>1, HashedListed
<1>7. CASE /\ Bytes(a) /\ (a.bytes = <<>> \/ Len(out) + Len(a.bytes) = CurrentFile.size)
           /\ Bytes(a) /\ Listed(out \o a.bytes)
  <2> DEFINE hash == out \o a.bytes
             f == Items[item].files[1]
  <2>1. hash \in Seq(Int) /\ Len(hash) = Len(out) + Len(a.bytes)
    BY <1>3, <1>4
  <2>2. f = CurrentFile
    BY <1>4
  <2> HIDE DEF hash, f
  <2>3. Len(hash) = IF f.offset + (f.size % Usize) <= End - Start THEN f.size % Usize
                    ELSE End - Start - f.offset
    <3> DEFINE first == Start
               last == End
               offset == CurrentFile.offset
               part == Buffer
               n == Len(out)
               m == Len(a.bytes)
    <3>1. /\ first \in Nat /\ last \in Nat /\ offset \in Nat /\ part \in Nat
          /\ n \in Nat /\ m \in Nat /\ n + m <= part /\ FileStart = first + offset
      BY <1>3, <1>4
    <3>2. FileStart + n <= last
      BY <1>3, <1>7
    <3>3. CASE a.bytes = <<>>
      <4>1. m = 0 /\ (FileStart + n = last \/ n = part)
        BY <1>3, <1>7, <3>3
      <4> HIDE DEF first, last, offset, part, n, m
      <4>2. n + m = IF offset + part <= last - first THEN part ELSE last - first - offset
        BY <3>1, <3>2, <4>1, EndOfFile
      <4>3. QED
        BY <1>11, <2>1, <2>2, <4>2 DEF first, last, offset, part, n, m
    <3>4. CASE a.bytes # <<>>
      <4>1. n + m = CurrentFile.size /\ CurrentFile.size \in Nat /\ part <= CurrentFile.size
        BY <1>3, <1>4, <1>7, <3>4
      <4>2. FileStart + n + m <= last
        BY <1>3, <3>4
      <4> HIDE DEF first, last, offset, part, n, m
      <4>3. n + m = part /\ first + offset + n + m <= last
        BY <3>1, <4>1, <4>2
      <4>4. n + m = IF offset + part <= last - first THEN part ELSE last - first - offset
        BY <3>1, <4>3, EndOfFile
      <4>5. QED
        BY <1>11, <2>1, <2>2, <4>4 DEF first, last, offset, part, n, m
    <3>5. QED
      BY <3>3, <3>4
  <2>4. HashIsOf([of |-> item, hash |-> hash], Start, End)
    BY <2>3 DEF HashIsOf, f
  <2>5. Listed(hash)
    BY <1>7 DEF hash
  <2>6. QED
    BY <1>1, <2>1, <2>4, <2>5, HashedListed
<1>8. HashReads(a) =>
        \/ Listed(NoHash) \/ UNCHANGED recorded
        \/ /\ Bytes(a) /\ (a.bytes = <<>> \/ Len(out) + Len(a.bytes) = CurrentFile.size)
           /\ Bytes(a) /\ Listed(out \o a.bytes)
  BY DEF HashReads
<1>9. a.kind = "panic" /\ Goes("failed") /\ UNCHANGED progress => UNCHANGED recorded
  BY DEF progress
<1>10. QED
  BY <1>2, <1>5, <1>6, <1>7, <1>8, <1>9

LEMMA HashedNext ==
  ASSUME Placed, Hashed, program = "hash", HashNext
  PROVE  Hashed'
<1>1. CASE UNCHANGED <<partition, program, recorded>>
  BY <1>1, HashedSame
<1>2. CASE Listed(NoHash) /\ UNCHANGED <<partition, program>>
  <2>1. NoHash \in Seq(Int) /\ HashIsOf([of |-> item, hash |-> NoHash], Start, End)
    BY DEF NoHash, HashIsOf
  <2>2. QED
    BY <1>2, <2>1, HashedListed
<1>3. \/ UNCHANGED <<partition, program, recorded>>
      \/ Listed(NoHash) /\ UNCHANGED <<partition, program>>
  BY DEF HashNext, Opens, progress
<1>4. QED
  BY <1>1, <1>2, <1>3

\* Only a program over files records anything.
LEMMA NothingRecorded ==
  ASSUME \/ \E next \in {"block", "mbr"} : Begins(next)
         \/ pc = "mbr" /\ ReadsFirstBlock({"ok"}, "slice")
         \/ pc = "block" /\ ReadsFirstBlock({"ok", "short"}, "mbr")
         \/ \E next \in {"copy", "warmup", "open", "any"} : MakesSlice(next)
         \/ ThroughputOpen \/ HashList
  PROVE  UNCHANGED <<partition, program, recorded>>
<1>1. CASE \E next \in {"block", "mbr"} : Begins(next)
  BY <1>1 DEF Begins, progress
<1>2. CASE \E good, next : ReadsFirstBlock(good, next)
  BY <1>2 DEF ReadsFirstBlock, progress
<1>3. CASE \E next \in {"copy", "warmup", "open", "any"} : MakesSlice(next)
  BY <1>3 DEF MakesSlice
<1>4. CASE ThroughputOpen \/ HashList
  BY <1>4 DEF ThroughputOpen, HashList, Opens
<1>5. QED
  BY <1>1, <1>2, <1>3, <1>4

LEMMA HashedStep == Placed /\ Hashed /\ [Next]_vars => Hashed'
<1> SUFFICES ASSUME Placed, Hashed, [Next]_vars PROVE Hashed'
  OBVIOUS
<1>1. CASE UNCHANGED vars
  BY <1>1, HashedSame DEF vars, progress
<1>2. CASE Next
  <2>1. CASE program # "hash"
    <3>1. program' = program
      BY <1>2, Programmed
    <3>2. QED
      BY <2>1, <3>1 DEF Hashed
  <2>2. CASE program = "hash"
    BY <1>2, <2>2, Steps, NothingRecorded, HashedSame, HashedNext, HashedRead
  <2>3. QED
    BY <2>1, <2>2
<1>3. QED
  BY <1>1, <1>2

\* A file is given a hash only if no read of it failed, and the hash is of all the bytes that it
\* has in the partition, or of those before the partition's end; only of a file that usize does
\* not count, of as many as the cast leaves (read_item, read_and_hash.rs 749-823).
THEOREM HashesWhole == Spec => []HashesAreOfFiles
<1>1. Init => Hashed
  BY DEF Init, Hashed
<1>2. Hashed => HashesAreOfFiles
  BY DEF Hashed, HashesAreOfFiles, HashIsOf, FileInSlice
<1>3. QED
  BY <1>1, <1>2, PlacedInit, PlacedStep, HashedStep, PTL DEF Spec

-----------------------------------------------------------------------------
(***************************************************************************)
(* A read within the capacity, of what a READ can ask for, works unless a  *)
(* transfer fails.                                                         *)
(***************************************************************************)
Fits(n) == n + 2 * BlockLength - 2 < TransferUnit * BlockLength

\* The buffer of a READ has every byte that is copied out of it.
LEMMA NoPanic ==
  ASSUME NEW address \in Nat, NEW n \in Nat \ {0}, Fits(n)
  PROVE  (address % BlockLength) + n <= DataLength(address, n)
<1> PICK b \in Nat \ {0} : b = BlockLength
  BY Sizes
<1> PICK u \in Nat \ {0} : u = TransferUnit
  BY Sizes
<1> DEFINE q == address \div b
           r == address % b
           z == r + n - 1
           w == z \div b
           v == z % b
<1>1. q \in Nat /\ r \in Nat /\ r < b /\ address = b * q + r
  BY Division
<1> HIDE DEF q, r
<1>2. z \in Nat
  BY <1>1
<1>3. w \in Nat /\ v \in Nat /\ v < b /\ z = b * w + v
  <2> HIDE DEF z
  <2> QED
    BY <1>2, Division
<1>4. address + n - 1 = b * (q + w) + v
  <2>1. b * (q + w) = b * q + b * w
    BY <1>1, <1>3
  <2>2. b * q \in Nat /\ b * w \in Nat
    BY <1>1, <1>3
  <2>3. address + n - 1 = b * q + z
    BY <1>1, <2>2
  <2> HIDE DEF z, w, v
  <2>4. QED
    BY <1>3, <2>1, <2>2, <2>3
<1> HIDE DEF z, w, v
<1>5. (address + n - 1) \div b = q + w
  <2>1. PICK k \in Nat : k = q + w
    BY <1>1, <1>3
  <2>2. (b * k + v) \div b = k
    BY <1>3, Quotient
  <2>3. QED
    BY <1>4, <2>1, <2>2
<1>6. b * (w + 1) = b * w + b /\ b * w \in Nat
  BY <1>3
<1>7. z <= b + n - 2
  BY <1>1 DEF z
<1>8. w + 1 < u
  <2>1. b * (w + 1) < u * b
    BY <1>3, <1>6, <1>7 DEF Fits
  <2>2. CASE w + 1 >= u
    <3>1. b * (w + 1) >= b * u
      BY <1>3, <2>2
    <3>2. b * (w + 1) \in Nat /\ b * u \in Nat /\ b * u = u * b
      BY <1>3
    <3>3. QED
      BY <2>1, <3>1, <3>2
  <2>3. QED
    BY <1>3, <2>2
<1>9. TransferLength(address, n) = w + 1
  <2>1. (q + w) - q + 1 = w + 1 /\ w + 1 \in Nat
    BY <1>1, <1>3
  <2>2. (w + 1) % u = w + 1
    <3>1. (u * 0 + (w + 1)) % u = w + 1
      BY <1>8, <2>1, Quotient
    <3>2. u * 0 + (w + 1) = w + 1
      BY <2>1
    <3>3. QED
      BY <3>1, <3>2
  <2>3. TransferLength(address, n) = ((address + n - 1) \div b - q + 1) % u
    BY DEF TransferLength, BlockAddress, q
  <2>4. QED
    BY <1>5, <2>1, <2>2, <2>3
<1>10. DataLength(address, n) = b * w + b
  BY <1>3, <1>6, <1>9 DEF DataLength
<1>11. r + n = z + 1
  BY <1>1 DEF z
<1>12. r + n <= b * w + b
  BY <1>3, <1>6, <1>11, <1>2
<1>13. QED
  BY <1>10, <1>12 DEF r

LEMMA Works ==
  ASSUME Sane, NEW address \in Nat, NEW n \in Nat, Fits(n), address + n <= Capacity,
         NEW a \in Answers(address, n), Takes(a), faults' = 0
  PROVE  a.kind = "ok" /\ Len(a.bytes) = n
<1>1. a.kind \in {"ok", "over", "panic"}
  BY TakesIs
<1>2. /\ Bytes(a) => Len(a.bytes) = n
      /\ a.kind = "over" => address + n > Capacity
      /\ a.kind = "panic" => (address % BlockLength) + n > DataLength(address, n)
  BY AnswerIs
<1>3. a.kind # "over"
  BY <1>2, CapacityFits
<1>4. n = 0 => a.kind # "panic"
  BY DEF Answers, Answer
<1>5. n # 0 => a.kind # "panic"
  <2>1. CASE n # 0
    <3>1. (address % BlockLength) + n <= DataLength(address, n)
      BY <2>1, NoPanic
    <3>2. address % BlockLength \in Int
      BY Sizes
    <3>3. TransferLength(address, n) \in Int
      <4>1. (address + n - 1) \div BlockLength \in Int /\ address \div BlockLength \in Int
        BY Sizes
      <4>2. QED
        BY <4>1, Sizes DEF TransferLength, BlockAddress
    <3>4. DataLength(address, n) \in Int
      BY <3>3, Sizes DEF DataLength
    <3>5. QED
      BY <1>2, <3>1, <3>2, <3>4
  <2>2. QED
    BY <2>1
<1>6. a.kind = "ok"
  BY <1>1, <1>3, <1>4, <1>5
<1>7. QED
  BY <1>2, <1>6 DEF Bytes

\* The blocks of the disk in turn, again and again, are blocks of the disk.
LEMMA BlockPlace ==
  ASSUME NEW c \in Nat \ {0}, NEW b \in Nat \ {0}, NEW k \in Nat
  PROVE  (k * b) % (c * b) \in Nat /\ ((k * b) % (c * b)) + b <= c * b
<1> DEFINE q == k \div c
           s == k % c
<1>1. q \in Nat /\ s \in Nat /\ s < c /\ k = c * q + s
  BY Division
<1> HIDE DEF q, s
<1>2. k * b = (c * b) * q + s * b
  <2>1. k * b = (c * q + s) * b
    BY <1>1
  <2>2. (c * q + s) * b = (c * q) * b + s * b
    BY <1>1
  <2>3. (c * q) * b = (c * b) * q
    BY <1>1
  <2>4. QED
    BY <2>1, <2>2, <2>3
<1>3. (s + 1) * b <= c * b /\ (s + 1) * b = s * b + b /\ s * b \in Nat /\ c * b \in Nat \ {0}
  <2>1. s + 1 <= c
    BY <1>1
  <2>2. (s + 1) * b <= c * b
    BY <1>1, <2>1
  <2>3. QED
    BY <1>1, <2>2
<1>4. s * b < c * b
  BY <1>3
<1>5. (k * b) % (c * b) = s * b
  <2>1. PICK m \in Nat \ {0} : m = c * b
    BY <1>3
  <2>2. PICK t \in Nat : t = s * b
    BY <1>3
  <2>3. (m * q + t) % m = t
    BY <1>1, <1>4, <2>1, <2>2, Quotient
  <2>4. QED
    BY <1>2, <2>1, <2>2, <2>3
<1>6. QED
  BY <1>3, <1>5

-----------------------------------------------------------------------------
(***************************************************************************)
(* Totals.                                                                 *)
(***************************************************************************)
\* Induction: a set of numbers that has 0, and with a number the next one, has all of them;
\* the least number that it has not would have no predecessor.
LEMMA Induction ==
  ASSUME NEW T, 0 \in T, \A n \in Nat : n \in T => n + 1 \in T
  PROVE  Nat \subseteq T
<1> SUFFICES ASSUME Nat \ T # {} PROVE FALSE
  OBVIOUS
<1> DEFINE R == OpToRel(<, Nat)
<1>1. IsWellFoundedOn(R, Nat)
  BY NatLessThanWellFounded
<1>2. \A x, y \in Nat : x < y => <<x, y>> \in R
  BY DEF OpToRel
<1> HIDE DEF R
<1>3. PICK x \in Nat \ T : \A y \in Nat \ T : ~(<<y, x>> \in R)
  <2>1. Nat \ T \subseteq Nat
    OBVIOUS
  <2>2. QED
    BY <1>1, <2>1, WFMin
<1>4. x \in Nat /\ x # 0
  OBVIOUS
<1>5. x - 1 \in Nat /\ x - 1 < x /\ (x - 1) + 1 = x
  BY <1>4
<1>6. x - 1 \in T
  BY <1>2, <1>3, <1>4, <1>5
<1>7. QED
  BY <1>3, <1>5, <1>6

\* The sums that Total goes through.
SumsOf(sums, s, n) ==
  /\ sums \in [0..n -> Nat] /\ sums[0] = 0
  /\ \A k \in 1..n : sums[k] = sums[k - 1] + s[k]

LEMMA SumsExist ==
  ASSUME NEW s \in Seq(Nat)
  PROVE  \E sums : SumsOf(sums, s, Len(s))
<1> DEFINE T == {n \in Nat : n <= Len(s) => \E sums : SumsOf(sums, s, n)}
<1>1. Len(s) \in Nat /\ \A k \in 1..Len(s) : s[k] \in Nat
  OBVIOUS
<1>2. 0 \in T
  <2>1. SumsOf([k \in 0..0 |-> 0], s, 0)
    BY DEF SumsOf
  <2>2. QED
    BY <2>1
<1>3. ASSUME NEW n \in T PROVE n + 1 \in T
  <2>1. n \in Nat /\ n + 1 \in Nat
    OBVIOUS
  <2> SUFFICES ASSUME n + 1 <= Len(s) PROVE \E sums : SumsOf(sums, s, n + 1)
    BY <2>1
  <2>2. PICK sums : SumsOf(sums, s, n)
    BY <1>1, <2>1
  <2> DEFINE more == [k \in 0..(n + 1) |-> IF k = n + 1 THEN sums[n] + s[n + 1] ELSE sums[k]]
  <2>3. s[n + 1] \in Nat
    BY <1>1, <2>1
  <2>4. /\ sums[n] \in Nat /\ sums[0] = 0 /\ \A k \in 0..n : sums[k] \in Nat
        /\ \A k \in 1..n : sums[k] = sums[k - 1] + s[k]
    BY <2>1, <2>2 DEF SumsOf
  <2>5. more \in [0..(n + 1) -> Nat] /\ more[0] = 0
    BY <2>1, <2>3, <2>4
  <2>6. \A k \in 0..n : more[k] = sums[k]
    BY <2>1
  <2>7. more[n + 1] = sums[n] + s[n + 1] /\ (n + 1) - 1 = n /\ n \in 0..n
    BY <2>1
  <2> HIDE DEF more
  <2>8. ASSUME NEW k \in 1..(n + 1) PROVE more[k] = more[k - 1] + s[k]
    <3>1. CASE k = n + 1
      BY <2>6, <2>7, <3>1
    <3>2. CASE k # n + 1
      <4>1. k \in 0..n /\ k \in 1..n /\ k - 1 \in 0..n
        BY <2>1, <3>2
      <4>2. QED
        BY <2>4, <2>6, <4>1
    <3>3. QED
      BY <3>1, <3>2
  <2>9. SumsOf(more, s, n + 1)
    BY <2>5, <2>8 DEF SumsOf
  <2>10. QED
    BY <2>9
<1>4. Nat \subseteq T
  <2> HIDE DEF T
  <2> QED
    BY <1>2, <1>3, Induction
<1>5. QED
  BY <1>1, <1>4

\* A total is the last of the sums.
LEMMA TotalIs ==
  ASSUME NEW s \in Seq(Nat)
  PROVE  \E sums : SumsOf(sums, s, Len(s)) /\ Total(s) = sums[Len(s)]
<1> DEFINE Unrolled(f) == [k \in 0..Len(s) |-> IF k = 0 THEN 0 ELSE f[k - 1] + s[k]]
           sums == CHOOSE f : f = Unrolled(f)
<1>1. Len(s) \in Nat /\ \A k \in 1..Len(s) : s[k] \in Nat
  OBVIOUS
<1>2. \E f : f = Unrolled(f)
  <2>1. PICK f : SumsOf(f, s, Len(s))
    BY SumsExist
  <2>2. f = Unrolled(f)
    <3>1. DOMAIN f = 0..Len(s) /\ f = [k \in 0..Len(s) |-> f[k]]
      BY <2>1 DEF SumsOf
    <3>2. ASSUME NEW k \in 0..Len(s) PROVE f[k] = Unrolled(f)[k]
      <4>1. k = 0 \/ k \in 1..Len(s)
        BY <1>1
      <4>2. QED
        BY <2>1, <4>1 DEF SumsOf
    <3>3. QED
      BY <3>1, <3>2
  <2>3. QED
    BY <2>2
<1>3. sums = Unrolled(sums)
  <2> HIDE DEF Unrolled
  <2> QED
    BY <1>2
<1>4. Total(s) = sums[Len(s)]
  BY DEF Total
<1>5. sums[0] = 0 /\ \A k \in 1..Len(s) : sums[k] = sums[k - 1] + s[k]
  <2>1. \A k \in 0..Len(s) : sums[k] = IF k = 0 THEN 0 ELSE sums[k - 1] + s[k]
    <3> HIDE DEF sums
    <3> QED
      BY <1>3
  <2> HIDE DEF sums
  <2>2. QED
    BY <1>1, <2>1
<1>6. DOMAIN sums = 0..Len(s) /\ sums = [k \in 0..Len(s) |-> sums[k]]
  <2> HIDE DEF sums
  <2> QED
    BY <1>3
<1> HIDE DEF sums
<1>7. \A k \in 0..Len(s) : sums[k] \in Nat
  <2> DEFINE T == {n \in Nat : n <= Len(s) => sums[n] \in Nat}
  <2>1. 0 \in T
    BY <1>5
  <2>2. ASSUME NEW n \in Nat, n \in T PROVE n + 1 \in T
    <3>1. CASE n + 1 <= Len(s)
      <4>1. sums[n] \in Nat /\ n + 1 \in 1..Len(s) /\ (n + 1) - 1 = n
        BY <2>2, <3>1, <1>1
      <4>2. sums[n + 1] = sums[n] + s[n + 1] /\ s[n + 1] \in Nat
        BY <1>1, <1>5, <4>1
      <4>3. QED
        BY <4>1, <4>2
    <3>2. QED
      BY <3>1
  <2> HIDE DEF T
  <2>3. Nat \subseteq T
    BY <2>1, <2>2, Induction
  <2>4. QED
    BY <1>1, <2>3 DEF T
<1>8. SumsOf(sums, s, Len(s))
  BY <1>5, <1>6, <1>7 DEF SumsOf
<1>9. QED
  BY <1>4, <1>8

\* Nothing but zeros has no total.
LEMMA TotalZero ==
  ASSUME NEW s \in Seq(Nat), \A k \in 1..Len(s) : s[k] = 0
  PROVE  Total(s) = 0
<1>1. PICK sums : SumsOf(sums, s, Len(s)) /\ Total(s) = sums[Len(s)]
  BY TotalIs
<1> DEFINE T == {n \in Nat : n <= Len(s) => sums[n] = 0}
<1>2. 0 \in T
  BY <1>1 DEF SumsOf
<1>3. ASSUME NEW n \in Nat, n \in T PROVE n + 1 \in T
  <2>1. CASE n + 1 <= Len(s)
    <3>1. sums[n] = 0 /\ n + 1 \in 1..Len(s) /\ (n + 1) - 1 = n
      BY <1>3, <2>1
    <3>2. sums[n + 1] = sums[n] + s[n + 1] /\ s[n + 1] = 0
      BY <1>1, <3>1 DEF SumsOf
    <3>3. QED
      BY <3>1, <3>2
  <2>2. QED
    BY <2>1
<1> HIDE DEF T
<1>4. Nat \subseteq T
  BY <1>2, <1>3, Induction
<1>5. Len(s) \in Nat
  OBVIOUS
<1>6. QED
  BY <1>1, <1>4, <1>5 DEF T

\* A number more, where there was none, is as much more in all.
LEMMA TotalAdds ==
  ASSUME NEW s \in Seq(Nat), NEW t \in Seq(Nat), Len(t) = Len(s), NEW i \in 1..Len(s),
         s[i] = 0, \A k \in 1..Len(s) : k # i => t[k] = s[k]
  PROVE  Total(t) = Total(s) + t[i]
<1>1. PICK sums : SumsOf(sums, s, Len(s)) /\ Total(s) = sums[Len(s)]
  BY TotalIs
<1>2. PICK more : SumsOf(more, t, Len(s)) /\ Total(t) = more[Len(s)]
  BY TotalIs
<1>3. /\ Len(s) \in Nat /\ i \in Nat
      /\ \A k \in 1..Len(s) : s[k] \in Nat /\ t[k] \in Nat
  OBVIOUS
<1>4. PICK d \in Nat : d = t[i]
  BY <1>3
<1> DEFINE Same(n) == more[n] = sums[n] + (IF n < i THEN 0 ELSE d)
           T == {n \in Nat : n <= Len(s) => Same(n)}
<1>5. 0 \in T
  <2>1. sums[0] = 0 /\ more[0] = 0 /\ 0 < i
    BY <1>1, <1>2 DEF SumsOf
  <2>2. QED
    BY <2>1
<1>6. ASSUME NEW n \in Nat, n \in T PROVE n + 1 \in T
  <2>1. CASE n + 1 <= Len(s)
    <3>1. /\ n + 1 \in 1..Len(s) /\ (n + 1) - 1 = n /\ n \in 0..Len(s)
          /\ more[n] = sums[n] + (IF n < i THEN 0 ELSE d)
      BY <1>3, <1>6, <2>1
    <3>2. /\ sums[n + 1] = sums[n] + s[n + 1] /\ more[n + 1] = more[n] + t[n + 1]
          /\ sums[n] \in Nat /\ more[n] \in Nat /\ s[n + 1] \in Nat /\ t[n + 1] \in Nat
      BY <1>1, <1>2, <1>3, <3>1 DEF SumsOf
    <3>3. PICK p \in Nat : p = sums[n]
      BY <3>2
    <3>4. PICK x \in Nat : x = s[n + 1]
      BY <3>2
    <3>5. PICK y \in Nat : y = t[n + 1]
      BY <3>2
    <3>6. sums[n + 1] = p + x /\ more[n + 1] = (p + (IF n < i THEN 0 ELSE d)) + y
      BY <3>1, <3>2, <3>3, <3>4, <3>5
    <3>7. (p + (IF n < i THEN 0 ELSE d)) + y = (p + x) + (IF n + 1 < i THEN 0 ELSE d)
      <4>1. CASE n + 1 = i
        <5>1. x = 0 /\ y = d
          BY <1>4, <3>4, <3>5, <4>1
        <5>2. QED
          BY <4>1, <5>1
      <4>2. CASE n + 1 # i
        <5>1. x = y
          BY <3>1, <3>4, <3>5, <4>2
        <5>2. n < i <=> n + 1 < i
          BY <1>3, <4>2
        <5>3. QED
          BY <5>1, <5>2
      <4>3. QED
        BY <4>1, <4>2
    <3>8. Same(n + 1)
      BY <3>6, <3>7
    <3> HIDE DEF Same
    <3>9. QED
      BY <3>8
  <2>2. QED
    BY <2>1
<1> HIDE DEF T
<1>7. Nat \subseteq T
  BY <1>5, <1>6, Induction
<1>8. Same(Len(s))
  BY <1>3, <1>7 DEF T
<1>9. ~(Len(s) < i)
  BY <1>3
<1>10. QED
  BY <1>1, <1>2, <1>4, <1>8, <1>9

LEMMA TotalType == ASSUME NEW s \in Seq(Nat) PROVE Total(s) \in Nat
<1>1. PICK sums : SumsOf(sums, s, Len(s)) /\ Total(s) = sums[Len(s)]
  BY TotalIs
<1>2. Len(s) \in 0..Len(s)
  OBVIOUS
<1>3. QED
  BY <1>1, <1>2 DEF SumsOf

\* The sizes of an item's files, without those from the n-th on; and the bytes they make.
FilesTo(i, n) == [k \in DOMAIN Items[i].files |-> IF k < n THEN Items[i].files[k].size ELSE 0]
ReadTo(i, n) == Total(FilesTo(i, n))

\* The sizes of the items, without those that are not in S.
ItemsIn(S) == [k \in DOMAIN Items |-> IF k \in S THEN SizeOf(k) ELSE 0]

LEMMA FilesToIs ==
  ASSUME NEW i \in DOMAIN Items, NEW n \in Int
  PROVE  /\ FilesTo(i, n) \in Seq(Nat) /\ Len(FilesTo(i, n)) = Len(Items[i].files)
         /\ \A k \in 1..Len(Items[i].files) :
              FilesTo(i, n)[k] = IF k < n THEN Items[i].files[k].size ELSE 0
<1> PICK f \in Seq(Files) : f = Items[i].files
  BY ItemTypes
<1>1. Len(f) \in Nat /\ DOMAIN f = 1..Len(f) /\ \A k \in 1..Len(f) : f[k] \in Files
  OBVIOUS
<1>2. \A k \in 1..Len(f) : f[k].size \in Nat
  BY <1>1 DEF Files
<1>3. FilesTo(i, n) = [k \in 1..Len(f) |-> IF k < n THEN f[k].size ELSE 0]
  BY <1>1 DEF FilesTo
<1>4. QED
  BY <1>1, <1>2, <1>3

LEMMA FilesAdd ==
  ASSUME NEW i \in DOMAIN Items
  PROVE  /\ ReadTo(i, 1) = 0 /\ SizeOf(i) \in Nat
         /\ \A n \in DOMAIN Items[i].files :
              ReadTo(i, n + 1) = ReadTo(i, n) + Items[i].files[n].size
         /\ ReadTo(i, Len(Items[i].files) + 1) = SizeOf(i)
<1> PICK f \in Seq(Files) : f = Items[i].files
  BY ItemTypes
<1>1. Len(f) \in Nat /\ DOMAIN f = 1..Len(f)
  OBVIOUS
<1>2. ReadTo(i, 1) = 0
  <2>1. /\ FilesTo(i, 1) \in Seq(Nat) /\ Len(FilesTo(i, 1)) = Len(f)
        /\ \A k \in 1..Len(f) : FilesTo(i, 1)[k] = IF k < 1 THEN f[k].size ELSE 0
    BY FilesToIs
  <2>2. \A k \in 1..Len(f) : FilesTo(i, 1)[k] = 0
    BY <1>1, <2>1
  <2>3. QED
    BY <2>1, <2>2, TotalZero DEF ReadTo
<1>3. ASSUME NEW n \in DOMAIN f
      PROVE  ReadTo(i, n + 1) = ReadTo(i, n) + f[n].size
  <2>1. n \in 1..Len(f) /\ n \in Int /\ n + 1 \in Int
    BY <1>1
  <2>2. PICK s \in Seq(Nat) : s = FilesTo(i, n)
    BY <2>1, FilesToIs
  <2>3. PICK t \in Seq(Nat) : t = FilesTo(i, n + 1)
    BY <2>1, FilesToIs
  <2>4. /\ Len(s) = Len(f) /\ Len(t) = Len(f)
        /\ \A k \in 1..Len(f) : s[k] = IF k < n THEN f[k].size ELSE 0
        /\ \A k \in 1..Len(f) : t[k] = IF k < n + 1 THEN f[k].size ELSE 0
    BY <2>1, <2>2, <2>3, FilesToIs
  <2>5. s[n] = 0 /\ t[n] = f[n].size
    BY <2>1, <2>4
  <2>6. \A k \in 1..Len(s) : k # n => t[k] = s[k]
    <3>1. \A k \in 1..Len(f) : k # n => (k < n + 1 <=> k < n)
      BY <2>1
    <3>2. QED
      BY <2>4, <3>1
  <2>7. Total(t) = Total(s) + t[n]
    BY <2>1, <2>4, <2>5, <2>6, TotalAdds
  <2>8. QED
    BY <2>2, <2>3, <2>5, <2>7 DEF ReadTo
<1>4. ReadTo(i, Len(f) + 1) = SizeOf(i)
  <2>1. FilesTo(i, Len(f) + 1) = [k \in DOMAIN f |-> f[k].size]
    BY <1>1 DEF FilesTo
  <2>2. QED
    BY <2>1 DEF ReadTo, SizeOf
<1>5. SizeOf(i) \in Nat
  <2>1. Len(f) + 1 \in Int
    BY <1>1
  <2>2. FilesTo(i, Len(f) + 1) \in Seq(Nat)
    BY <2>1, FilesToIs
  <2>3. QED
    BY <1>4, <2>2, TotalType DEF ReadTo
<1>6. QED
  BY <1>2, <1>3, <1>4, <1>5

LEMMA ItemsInIs ==
  ASSUME NEW S
  PROVE  /\ ItemsIn(S) \in Seq(Nat) /\ Len(ItemsIn(S)) = Len(Items)
         /\ \A k \in 1..Len(Items) : ItemsIn(S)[k] = IF k \in S THEN SizeOf(k) ELSE 0
<1>1. Len(Items) \in Nat /\ DOMAIN Items = 1..Len(Items)
  BY ItemTypes
<1>2. \A k \in 1..Len(Items) : SizeOf(k) \in Nat
  BY <1>1, FilesAdd
<1>3. ItemsIn(S) = [k \in 1..Len(Items) |-> IF k \in S THEN SizeOf(k) ELSE 0]
  BY <1>1 DEF ItemsIn
<1>4. QED
  BY <1>1, <1>2, <1>3

LEMMA ItemsAdd ==
  /\ SumOf({}) = 0
  /\ \A S \in SUBSET DOMAIN Items :
       /\ SumOf(S) \in Nat
       /\ \A i \in DOMAIN Items \ S : SumOf(S \cup {i}) = SumOf(S) + SizeOf(i)
<1>1. Len(Items) \in Nat /\ DOMAIN Items = 1..Len(Items)
  BY ItemTypes
<1>2. \A S : SumOf(S) = Total(ItemsIn(S))
  BY DEF SumOf, ItemsIn
<1>3. SumOf({}) = 0
  <2>1. PICK s \in Seq(Nat) : s = ItemsIn({})
    BY ItemsInIs
  <2>2. Len(s) = Len(Items) /\ \A k \in 1..Len(s) : s[k] = 0
    BY <2>1, ItemsInIs
  <2>3. QED
    BY <1>2, <2>1, <2>2, TotalZero
<1>4. ASSUME NEW S \in SUBSET DOMAIN Items, NEW i \in DOMAIN Items \ S
      PROVE  SumOf(S \cup {i}) = SumOf(S) + SizeOf(i)
  <2>1. PICK s \in Seq(Nat) : s = ItemsIn(S)
    BY ItemsInIs
  <2>2. PICK t \in Seq(Nat) : t = ItemsIn(S \cup {i})
    BY ItemsInIs
  <2>3. /\ Len(s) = Len(Items) /\ Len(t) = Len(Items)
        /\ \A k \in 1..Len(Items) : s[k] = IF k \in S THEN SizeOf(k) ELSE 0
        /\ \A k \in 1..Len(Items) : t[k] = IF k \in S \cup {i} THEN SizeOf(k) ELSE 0
    BY <2>1, <2>2, ItemsInIs
  <2>4. i \in 1..Len(s) /\ s[i] = 0 /\ t[i] = SizeOf(i)
    BY <1>1, <2>3
  <2>5. \A k \in 1..Len(s) : k # i => t[k] = s[k]
    BY <2>3
  <2>6. Total(t) = Total(s) + t[i]
    BY <2>3, <2>4, <2>5, TotalAdds
  <2>7. QED
    BY <1>2, <2>1, <2>2, <2>4, <2>6
<1>5. ASSUME NEW S \in SUBSET DOMAIN Items PROVE SumOf(S) \in Nat
  BY <1>2, ItemsInIs, TotalType
<1>6. QED
  BY <1>3, <1>4, <1>5

-----------------------------------------------------------------------------
(***************************************************************************)
(* Without a fault, on a sound volume.                                     *)
(***************************************************************************)
Undisturbed == ReadsFit /\ faults = 0 /\ Sound(Capacity)

LEMMA FaultsStay == ASSUME Placed, Next PROVE faults' = 0 => faults = 0
<1>1. MaxFaults \in Nat /\ faults \in Nat
  BY Sizes DEF Placed, Sane
<1>2. ASSUME NEW a, Takes(a) PROVE faults' = 0 => faults = 0
  BY <1>1, <1>2 DEF Takes
<1>3. CASE UNCHANGED faults
  BY <1>3
<1>4. CASE \E a : Takes(a)
  BY <1>2, <1>4
<1> USE DEF disk, transport
<1>5. CASE \/ \E next \in {"block", "mbr"} : Begins(next)
           \/ \E good, next : ReadsFirstBlock(good, next)
           \/ \E next \in {"copy", "warmup", "open", "any"} : MakesSlice(next)
  BY <1>3, <1>4, <1>5 DEF Begins, ReadsFirstBlock, MakesSlice
<1>6. CASE Copy \/ OldReadWarmup \/ OldReadMeasure \/ AnyRead \/ AnySeek
  BY <1>3, <1>4, <1>6 DEF Copy, OldReadWarmup, OldReadMeasure, AnyRead, AnySeek, SliceRead
<1>7. CASE LatencyWarmup \/ LatencyMeasure
  BY <1>4, <1>7 DEF LatencyWarmup, LatencyMeasure, DiskRead
<1>8. CASE ThroughputOpen \/ ThroughputRead \/ HashList \/ HashNext \/ HashRead
  BY <1>3, <1>4, <1>8 DEF ThroughputOpen, ThroughputRead, HashList, HashNext, HashRead, FileRead, Opens
<1>9. QED
  BY <1>5, <1>6, <1>7, <1>8, Steps

LEMMA StillSound ==
  ASSUME UNCHANGED <<native, partition>>
  PROVE  Sound(Capacity)' <=> Sound(Capacity)
  BY DEF Sound, FileInSlice, Start, End, Capacity

LEMMA UndisturbedBefore == ASSUME Placed, Next PROVE Undisturbed' => Undisturbed /\ faults' = 0
  BY FaultsStay, StillSound, Programmed DEF Undisturbed

LEMMA FitsBelow ==
  ASSUME ReadsFit, NEW m \in {BlockLength, BufferLength, ClusterLength, SectorLength}, NEW n \in Nat, n <= m
  PROVE  Fits(n)
<1>1. m + 2 * BlockLength - 2 < TransferUnit * BlockLength
  BY DEF ReadsFit
<1>2. m \in Nat /\ 2 * BlockLength \in Nat /\ TransferUnit * BlockLength \in Nat
  BY Sizes
<1>3. QED
  BY <1>1, <1>2 DEF Fits

\* Both capacities are of whole blocks.
LEMMA WholeBlocks ==
  \E c \in Nat : Capacity = c * BlockLength
<1>1. LastLba \in Nat /\ LastLba + 1 \in Nat
  BY Sizes
<1>2. QED
  BY <1>1 DEF Capacity, GuestCapacity, NativeCapacity

LEMMA BlocksWithin ==
  ASSUME TypeInv, Sound(Capacity)
  PROVE  /\ Start \in Nat /\ End \in Nat /\ Start < End /\ End <= Capacity
         /\ BlockLength <= Capacity
<1>1. Start \in Nat /\ End \in Nat /\ Start < End /\ End <= Capacity /\ Capacity \in Nat
  BY SliceTypes, CapacityFits DEF Sound
<1>2. PICK c \in Nat : Capacity = c * BlockLength
  BY WholeBlocks
<1>3. PICK b \in Nat \ {0} : b = BlockLength
  BY Sizes
<1>4. c # 0
  BY <1>1, <1>2, <1>3
<1>5. b <= c * b
  BY <1>3, <1>4
<1>6. QED
  BY <1>1, <1>2, <1>3, <1>5

\* The capacity of a guest is of whole sectors.
LEMMA SectorsWithin ==
  ASSUME TypeInv, Undisturbed, ~native
  PROVE  /\ 0 + SectorLength <= Capacity
         /\ \A k \in Nat : /\ (k * SectorLength) % Capacity \in Nat
                           /\ ((k * SectorLength) % Capacity) + SectorLength <= Capacity
<1>1. Capacity \in Nat \ {0}
  BY BlocksWithin, CapacityFits DEF Undisturbed
<1>2. PICK s \in Nat \ {0} : s = SectorLength
  BY Sizes
<1>3. Capacity % s = 0
  BY <1>2 DEF Undisturbed, ReadsFit, Capacity
<1>4. PICK c \in Nat \ {0} : Capacity = c * s
  <2>1. PICK q \in Nat : q = Capacity \div s /\ Capacity = s * q + (Capacity % s)
    BY <1>1, <1>2, Division
  <2>2. Capacity = s * q /\ s * q = q * s
    BY <1>1, <1>3, <2>1
  <2>3. q # 0
    BY <1>1, <2>2
  <2>4. QED
    BY <2>2, <2>3
<1>5. \A k \in Nat : (k * s) % (c * s) \in Nat /\ ((k * s) % (c * s)) + s <= c * s
  BY BlockPlace
<1>6. s <= c * s
  OBVIOUS
<1>7. QED
  BY <1>2, <1>4, <1>5, <1>6

LEMMA SliceWorks ==
  ASSUME Placed, Undisturbed, Start < End, position \in Start..End,
         NEW length \in Nat, length <= BufferLength,
         NEW a \in SliceAnswers(length), Takes(a), faults' = 0
  PROVE  a.kind = "ok"
<1>1. Start \in Nat /\ End \in Nat /\ End <= Capacity /\ Capacity \in Nat
  BY BlocksWithin, CapacityFits DEF Placed, Undisturbed
<1>2. CASE position >= End
  BY <1>2 DEF SliceAnswers, Answer
<1>3. CASE ~(position >= End)
  <2> DEFINE n == SmallerOf(length, End - position)
  <2>1. a \in Answers(position, n)
    BY <1>3 DEF SliceAnswers
  <2>2. position \in Nat /\ n \in Nat /\ n <= length /\ position + n <= Capacity
    BY <1>1, <1>3 DEF SmallerOf
  <2> HIDE DEF n
  <2>3. n <= BufferLength
    BY <2>2, Sizes
  <2>4. Fits(n)
    BY <2>2, <2>3, FitsBelow DEF Undisturbed
  <2>5. QED
    BY <2>1, <2>2, <2>4, Works DEF Placed
<1>4. QED
  BY <1>2, <1>3

LEMMA OpenWorks ==
  ASSUME Placed, Undisturbed, NEW a \in OpenAnswers, Takes(a), faults' = 0
  PROVE  a.kind = "ok"
<1>1. Start \in Nat /\ End \in Nat /\ Start < End /\ End <= Capacity /\ Capacity \in Nat
  BY BlocksWithin, CapacityFits DEF Placed, Undisturbed
<1> DEFINE n == SmallerOf(BlockLength, End - Start)
<1>2. a \in Answers(Start, n)
  BY DEF OpenAnswers
<1>3. n \in Nat /\ n <= BlockLength /\ Start + n <= Capacity
  BY <1>1, Sizes DEF SmallerOf
<1> HIDE DEF n
<1>4. Fits(n)
  BY <1>3, FitsBelow DEF Undisturbed
<1>5. QED
  BY <1>1, <1>2, <1>3, <1>4, Works DEF Placed

LEMMA BlockWorks ==
  ASSUME Placed, Undisturbed, NEW n \in {BlockLength, SectorLength},
         NEW where \in Nat, where + n <= Capacity,
         NEW a \in Answers(where, n), Takes(a), faults' = 0
  PROVE  a.kind = "ok"
<1>1. n \in Nat /\ n <= n
  BY Sizes
<1>2. Fits(n)
  BY <1>1, FitsBelow DEF Undisturbed
<1>3. QED
  BY <1>1, <1>2, Works DEF Placed

\* A file of a sound volume has the bytes it says.
LEMMA FileWorks ==
  ASSUME Placed, Undisturbed, pc = "read", NEW a \in FileAnswers(Wanted), Takes(a), faults' = 0
  PROVE  a.kind = "ok" /\ (Wanted # 0 => a.bytes # <<>>)
<1> DEFINE target == FileStart + Len(out)
           cluster == ClusterLength - (Len(out) % ClusterLength)
           length == SmallerOf(Wanted, cluster)
<1>1. Start \in Nat /\ End \in Nat /\ Start < End /\ End <= Capacity /\ Capacity \in Nat
  BY BlocksWithin, CapacityFits DEF Placed, Undisturbed
<1>2. /\ CurrentFile \in Files /\ Len(out) \in Nat /\ Len(out) < CurrentFile.size
      /\ item \in DOMAIN Items /\ file \in DOMAIN Items[item].files
  BY ItemTypes DEF Placed, CurrentFile
<1>3. FileInSlice(CurrentFile)
  BY <1>2 DEF Undisturbed, Sound, CurrentFile
<1>4. /\ CurrentFile.offset \in Nat /\ CurrentFile.size \in Nat
      /\ CurrentFile.offset + CurrentFile.size <= End - Start
  BY <1>2, <1>3 DEF Files, FileInSlice
<1>5. target \in Nat /\ Start <= target /\ target < End
  BY <1>1, <1>2, <1>4 DEF FileStart
<1>6. cluster \in Nat \ {0} /\ cluster <= ClusterLength /\ Wanted \in Nat
  <2>1. Len(out) % ClusterLength \in Nat /\ Len(out) % ClusterLength < ClusterLength
    BY <1>2, Sizes, Division
  <2>2. QED
    BY <2>1, Sizes, WantedIs
<1>7. a \in (IF ~InSlice(target) THEN {Answer("over", <<>>)}
             ELSE IF target = End THEN {Answer("ok", <<>>)}
             ELSE Answers(target, SmallerOf(length, End - target)))
  BY DEF FileAnswers
<1> HIDE DEF target, cluster
<1>8. length \in Nat /\ length <= ClusterLength /\ (Wanted # 0 => length # 0)
  BY <1>6, Sizes DEF SmallerOf
<1> HIDE DEF length
<1> DEFINE n == SmallerOf(length, End - target)
<1>9. a \in Answers(target, n)
  <2>1. InSlice(target) /\ target # End
    BY <1>1, <1>5 DEF InSlice
  <2>2. QED
    BY <1>7, <2>1
<1>10. n \in Nat /\ (Wanted # 0 => n # 0) /\ n <= ClusterLength /\ target + n <= Capacity
  BY <1>1, <1>5, <1>8, Sizes DEF SmallerOf
<1> HIDE DEF n
<1>11. Fits(n)
  BY <1>10, FitsBelow DEF Undisturbed
<1>12. a.kind = "ok" /\ Len(a.bytes) = n
  BY <1>5, <1>9, <1>10, <1>11, Works DEF Placed
<1>13. QED
  BY <1>10, <1>12

\* A throughput asks for a byte whenever there is a buffer.
LEMMA ReadWants ==
  ASSUME Placed, pc = "read", program = "throughput", Buffer > 0
  PROVE  Wanted # 0
<1>1. Buffer \in Nat /\ Len(out) \in Nat /\ (Wanted = 0 <=> Len(out) = Buffer)
  BY WantedIs
<1>2. Len(out) = 0 \/ Len(out) < Buffer
  <2>1. out = <<>> => Len(out) = 0
    OBVIOUS
  <2>2. QED
    BY <2>1 DEF Placed
<1>3. QED
  BY <1>1, <1>2

-----------------------------------------------------------------------------
(***************************************************************************)
(* What a throughput counts: in a round, whole items before the one it is  *)
(* at, and of that one the files before the one it is at.                  *)
(***************************************************************************)
OfSome(n, sum) == \E S \in SUBSET (1..n) : sum = SumOf(S)

Counted ==
  program = "throughput" =>
    /\ pc \in {"open", "read"} =>
         /\ total[2] = ReadTo(item, file)
         /\ OfSome(item - 1, total[1])
         /\ Undisturbed => total[1] = SumOf(1..(item - 1))
    /\ recorded \in Seq(Nat)
    /\ \A r \in DOMAIN recorded : \E S \in SUBSET DOMAIN Items : recorded[r] = SumOf(S)
    /\ Undisturbed => \A r \in DOMAIN recorded : recorded[r] = SumOf(DOMAIN Items)

\* A step within an item.
LEMMA CountedSame ==
  ASSUME Counted, Undisturbed' => Undisturbed, UNCHANGED <<program, recorded>>,
         program = "throughput" /\ pc' \in {"open", "read"} =>
           /\ total'[2] = ReadTo(item', file')
           /\ OfSome(item' - 1, total'[1])
           /\ Undisturbed => total'[1] = SumOf(1..(item' - 1))
  PROVE  Counted'
  BY DEF Counted

\* A round begins with nothing.
LEMMA CountedBegins ==
  ASSUME Counted, Undisturbed' => Undisturbed, UNCHANGED <<program, recorded>>,
         item' = 1, file' = 1, total' = <<0, 0>>
  PROVE  Counted'
<1>1. total'[1] = 0 /\ total'[2] = 0 /\ item' - 1 = 0 /\ 1..(item' - 1) = {}
  OBVIOUS
<1>2. ReadTo(1, 1) = 0 /\ SumOf({}) = 0
  BY FilesAdd, ItemsAdd, ItemTypes
<1>3. {} \in SUBSET (1..(item' - 1)) /\ total'[1] = SumOf({}) /\ total'[2] = ReadTo(item', file')
  BY <1>1, <1>2
<1>4. OfSome(item' - 1, total'[1])
  BY <1>3 DEF OfSome
<1>5. QED
  BY <1>1, <1>3, <1>4, CountedSame

\* An item more, counted whole or not at all.
LEMMA CountedMore ==
  ASSUME NEW i \in DOMAIN Items, NEW sum, NEW added \in {0, SizeOf(i)}, OfSome(i - 1, sum)
  PROVE  /\ sum + added \in Nat /\ OfSome(i, sum + added)
         /\ sum = SumOf(1..(i - 1)) /\ added = SizeOf(i) => sum + added = SumOf(1..i)
<1>1. Len(Items) \in Nat /\ DOMAIN Items = 1..Len(Items) /\ SizeOf(i) \in Nat
  BY ItemTypes, FilesAdd
<1>2. PICK S \in SUBSET (1..(i - 1)) : sum = SumOf(S)
  BY DEF OfSome
<1>3. /\ i \in 1..Len(Items) /\ 1..(i - 1) \in SUBSET DOMAIN Items /\ i \notin 1..(i - 1)
      /\ (1..(i - 1)) \cup {i} = 1..i
  BY <1>1
<1>4. S \in SUBSET DOMAIN Items /\ i \notin S /\ S \in SUBSET (1..i) /\ S \cup {i} \in SUBSET (1..i)
  BY <1>2, <1>3
<1>5. sum \in Nat /\ SumOf(S \cup {i}) = sum + SizeOf(i)
  BY <1>2, <1>4, ItemsAdd
<1>6. sum + added = SumOf(S) \/ sum + added = SumOf(S \cup {i})
  BY <1>1, <1>2, <1>5
<1>7. SumOf(1..i) = SumOf(1..(i - 1)) + SizeOf(i)
  BY <1>3, ItemsAdd
<1>8. sum + added \in Nat
  BY <1>1, <1>5
<1>9. OfSome(i, sum + added)
  BY <1>4, <1>6 DEF OfSome
<1>10. QED
  BY <1>7, <1>8, <1>9

LEMMA CountedNext ==
  ASSUME Placed, Counted, program = "throughput", pc = "read",
         UNCHANGED program, Undisturbed' => Undisturbed,
         NEW added \in {0, SizeOf(item)}, Undisturbed' => added = SizeOf(item),
         NextItem(added), file' = 1
  PROVE  Counted'
<1>1. /\ item \in DOMAIN Items /\ Len(Items) \in Nat /\ DOMAIN Items = 1..Len(Items)
  BY ItemTypes DEF Placed
<1>2. /\ OfSome(item - 1, total[1])
      /\ Undisturbed => total[1] = SumOf(1..(item - 1))
      /\ recorded \in Seq(Nat)
      /\ \A r \in DOMAIN recorded : \E S \in SUBSET DOMAIN Items : recorded[r] = SumOf(S)
      /\ Undisturbed => \A r \in DOMAIN recorded : recorded[r] = SumOf(DOMAIN Items)
  BY DEF Counted
<1> DEFINE sum == total[1] + added
<1>3. sum \in Nat /\ OfSome(item, sum) /\ (Undisturbed' => sum = SumOf(1..item))
  <2>1. /\ sum \in Nat /\ OfSome(item, sum)
        /\ total[1] = SumOf(1..(item - 1)) /\ added = SizeOf(item) => sum = SumOf(1..item)
    BY <1>1, <1>2, CountedMore
  <2>2. QED
    BY <1>2, <2>1
<1>4. CASE item < Len(Items)
  <2>1. item' = item + 1 /\ total' = <<sum, 0>> /\ UNCHANGED recorded
    BY <1>4 DEF NextItem
  <2>2. item' \in DOMAIN Items /\ item' - 1 = item
    BY <1>1, <1>4, <2>1
  <2> HIDE DEF sum
  <2>3. total'[2] = ReadTo(item', file')
    BY <2>1, <2>2, FilesAdd
  <2>4. QED
    BY <1>2, <1>3, <2>1, <2>2, <2>3 DEF Counted
<1>5. CASE ~(item < Len(Items))
  <2>1. 1..item = DOMAIN Items
    BY <1>1, <1>5
  <2>2. recorded' = Append(recorded, sum) /\ pc' \in {"slice", "done"}
    BY <1>5 DEF NextItem, Loops, Goes
  <2> HIDE DEF sum
  <2>3. /\ recorded' \in Seq(Nat)
        /\ \A r \in DOMAIN recorded' :
             recorded'[r] = sum \/ (r \in DOMAIN recorded /\ recorded'[r] = recorded[r])
    BY <1>2, <1>3, <2>2, Appended
  <2>4. \A r \in DOMAIN recorded' : \E S \in SUBSET DOMAIN Items : recorded'[r] = SumOf(S)
    <3>1. \E S \in SUBSET DOMAIN Items : sum = SumOf(S)
      BY <1>3, <2>1 DEF OfSome
    <3>2. QED
      BY <1>2, <2>3, <3>1
  <2>5. Undisturbed' => \A r \in DOMAIN recorded' : recorded'[r] = SumOf(DOMAIN Items)
    BY <1>2, <1>3, <2>1, <2>3
  <2>6. QED
    BY <2>2, <2>3, <2>4, <2>5 DEF Counted
<1>6. QED
  BY <1>4, <1>5

\* A file is counted whole,
LEMMA CountedFile ==
  ASSUME Placed, Counted, program = "throughput", pc = "read", UNCHANGED program,
         Undisturbed' => Undisturbed, FileCounts
  PROVE  Counted'
<1>1. /\ item \in DOMAIN Items /\ file \in DOMAIN Items[item].files
      /\ Len(Items[item].files) \in Nat /\ DOMAIN Items[item].files = 1..Len(Items[item].files)
  BY ItemTypes DEF Placed
<1>2. /\ total[2] = ReadTo(item, file)
      /\ OfSome(item - 1, total[1])
      /\ Undisturbed => total[1] = SumOf(1..(item - 1))
  BY DEF Counted
<1>3. total[2] + CurrentFile.size = ReadTo(item, file + 1)
  BY <1>1, <1>2, FilesAdd DEF CurrentFile
<1>4. CASE file < Len(Items[item].files)
  <2>1. /\ file' = file + 1 /\ total' = <<total[1], total[2] + CurrentFile.size>>
        /\ UNCHANGED <<item, recorded>>
    BY <1>4 DEF FileCounts
  <2>2. total'[1] = total[1] /\ total'[2] = ReadTo(item, file + 1)
    BY <1>3, <2>1
  <2>3. QED
    BY <1>2, <2>1, <2>2, CountedSame
<1>5. CASE ~(file < Len(Items[item].files))
  <2>1. NextItem(total[2] + CurrentFile.size) /\ file' = 1
    BY <1>5 DEF FileCounts
  <2>2. file = Len(Items[item].files)
    BY <1>1, <1>5
  <2>3. total[2] + CurrentFile.size = SizeOf(item)
    BY <1>1, <1>3, <2>2, FilesAdd
  <2>4. QED
    BY <2>1, <2>3, CountedNext
<1>6. QED
  BY <1>4, <1>5

\* and of an item that failed nothing.
LEMMA CountedRead ==
  ASSUME Placed, Counted, program = "throughput", ThroughputRead, Undisturbed' => Undisturbed /\ faults' = 0
  PROVE  Counted'
<1>1. UNCHANGED program /\ pc = "read"
  BY DEF ThroughputRead, FileRead
<1>2. /\ total[2] = ReadTo(item, file)
      /\ OfSome(item - 1, total[1])
      /\ Undisturbed => total[1] = SumOf(1..(item - 1))
  BY <1>1 DEF Counted
<1>3. CASE pc' = "failed" /\ UNCHANGED progress
  BY <1>1, <1>3, CountedSame DEF progress
<1>4. CASE FileCounts
  BY <1>1, <1>4, CountedFile
<1>5. ASSUME Buffer > 0, NEW a \in FileAnswers(Wanted), Takes(a), ThroughputReads(a)
      PROVE  Counted'
  <2>1. CASE ~Bytes(a) \/ a.bytes = <<>>
    <3>1. ~Undisturbed'
      <4>1. Wanted # 0
        BY <1>1, <1>5, ReadWants
      <4>2. QED
        BY <1>1, <1>5, <2>1, <4>1, FileWorks DEF Bytes
    <3>2. NextItem(0) /\ file' = 1 /\ 0 \in {0, SizeOf(item)}
      BY <1>5, <2>1 DEF ThroughputReads
    <3>3. QED
      BY <1>1, <3>1, <3>2, CountedNext
  <2>2. CASE UNCHANGED <<item, file, total, recorded>>
    BY <1>1, <1>2, <2>2, CountedSame
  <2>3. QED
    BY <1>4, <1>5, <2>1, <2>2 DEF ThroughputReads
<1>6. \/ pc' = "failed" /\ UNCHANGED progress
      \/ FileCounts
      \/ Buffer > 0 /\ \E a \in FileAnswers(Wanted) : Takes(a) /\ ThroughputReads(a)
  BY DEF ThroughputRead, FileRead, Then, Goes, Wanted
<1>7. QED
  BY <1>3, <1>4, <1>5, <1>6

LEMMA CountedStep == Placed /\ Counted /\ [Next]_vars => Counted'
<1> SUFFICES ASSUME Placed, Counted, [Next]_vars PROVE Counted'
  OBVIOUS
<1>1. CASE UNCHANGED vars
  <2>1. UNCHANGED <<native, partition, faults, program, pc, item, file, total, recorded>>
    BY <1>1 DEF vars, disk, slice, transport, progress
  <2>2. Undisturbed' <=> Undisturbed
    BY <2>1, StillSound DEF Undisturbed
  <2>3. QED
    BY <2>1, <2>2 DEF Counted
<1>2. CASE Next /\ program # "throughput"
  BY <1>2, Programmed DEF Counted
<1>3. CASE Next /\ program = "throughput"
  <2>1. UNCHANGED program /\ (Undisturbed' => Undisturbed /\ faults' = 0)
    BY <1>3, Programmed, UndisturbedBefore
  <2>2. CASE \/ \E next \in {"block", "mbr"} : Begins(next)
             \/ pc = "mbr" /\ ReadsFirstBlock({"ok"}, "slice")
             \/ pc = "block" /\ ReadsFirstBlock({"ok", "short"}, "mbr")
    <3>1. pc' \notin {"open", "read"}
      BY <2>2 DEF Begins, ReadsFirstBlock, Goes
    <3>2. UNCHANGED recorded
      BY <2>2, NothingRecorded
    <3>3. QED
      BY <2>1, <3>1, <3>2, CountedSame
  <2>3. CASE \E next \in {"copy", "warmup", "open", "any"} : MakesSlice(next)
    <3>1. item' = 1 /\ file' = 1 /\ total' = <<0, 0>> /\ UNCHANGED recorded
      BY <2>3 DEF MakesSlice
    <3>2. QED
      BY <2>1, <3>1, CountedBegins
  <2>4. CASE ThroughputOpen
    <3>1. UNCHANGED <<item, file, total, recorded>> /\ pc = "open"
      BY <2>4 DEF ThroughputOpen
    <3>2. QED
      BY <1>3, <2>1, <3>1, CountedSame DEF Counted
  <2>5. CASE ThroughputRead
    BY <1>3, <2>1, <2>5, CountedRead
  <2>6. QED
    BY <1>3, <2>2, <2>3, <2>4, <2>5, Steps
<1>4. QED
  BY <1>1, <1>2, <1>3

\* A recorded throughput is that of whole items, each of them counted once, whatever fails:
\* of an item that failed nothing counts (read_throughput.rs 606-676 and throughput.rs 398-513).
THEOREM WholeItems == Spec => []CountsWholeItems
<1>1. Init => Counted
  BY DEF Init, Counted
<1>2. Counted => CountsWholeItems
  BY DEF Counted, CountsWholeItems
<1>3. QED
  BY <1>1, <1>2, PlacedInit, PlacedStep, CountedStep, PTL DEF Spec

-----------------------------------------------------------------------------
(***************************************************************************)
(* Without a fault no program fails, unless throughput at a file for which *)
(* there can be no buffer, and every file has a hash.                      *)
(***************************************************************************)
Faultless ==
  Undisturbed =>
    /\ program # "filesystem" /\ pc = "failed" => program = "throughput" /\ ~Allocatable(Buffer)
    /\ program = "hash" => \A r \in DOMAIN recorded : recorded[r].hash # NoHash

LEMMA FaultlessBefore ==
  ASSUME Placed, Undisturbed, faults' = 0,
         \/ \E next \in {"block", "mbr"} : Begins(next)
         \/ pc = "mbr" /\ ReadsFirstBlock({"ok"}, "slice")
         \/ pc = "block" /\ ReadsFirstBlock({"ok", "short"}, "mbr")
         \/ \E next \in {"copy", "warmup", "open", "any"} : MakesSlice(next)
         \/ program = "throughput" /\ ThroughputOpen
         \/ program = "hash" /\ HashList
  PROVE  pc' # "failed"
<1>1. CASE \E next \in {"block", "mbr"} : Begins(next)
  <2>1. Takes(Answer("short", <<>>)) => faults' = faults + 1
    BY DEF Takes, Answer
  <2>2. faults = 0
    BY DEF Undisturbed
  <2>3. QED
    BY <1>1, <2>1, <2>2 DEF Begins, Goes
<1>2. CASE \/ pc = "mbr" /\ ReadsFirstBlock({"ok"}, "slice")
           \/ pc = "block" /\ ReadsFirstBlock({"ok", "short"}, "mbr")
  <2>1. PICK a \in Answers(0, BlockLength) :
          Takes(a) /\ (a.kind = "ok" => pc' \in {"slice", "mbr"})
    BY <1>2 DEF ReadsFirstBlock, Goes
  <2>2. 0 \in Nat /\ 0 + BlockLength <= Capacity
    BY BlocksWithin, Sizes DEF Placed, Undisturbed
  <2>3. QED
    BY <2>1, <2>2, BlockWorks
<1>3. CASE \E next \in {"copy", "warmup", "open", "any"} : MakesSlice(next)
  <2>1. Start < End
    BY DEF Undisturbed, Sound
  <2>2. QED
    BY <1>3, <2>1 DEF MakesSlice, Goes
<1>4. CASE \/ program = "throughput" /\ ThroughputOpen
           \/ program = "hash" /\ HashList
  <2>1. PICK a \in OpenAnswers : Takes(a) /\ (a.kind = "ok" => pc' \in {"read", "next"})
    BY <1>4 DEF ThroughputOpen, HashList, Opens, Goes
  <2>2. QED
    BY <2>1, OpenWorks
<1>5. QED
  BY <1>1, <1>2, <1>3, <1>4

LEMMA FaultlessSlice ==
  ASSUME Placed, Undisturbed, faults' = 0, Copy \/ OldReadWarmup \/ OldReadMeasure
  PROVE  pc' # "failed"
<1>1. pc \in {"copy", "warmup", "measure"} /\ Start < End /\ position \in Start..End
  BY DEF Copy, OldReadWarmup, OldReadMeasure, Placed, TypeInv
<1>2. Start \in Nat /\ End \in Nat /\ BufferLength \in Nat \ {0}
  BY SliceTypes, Sizes DEF Placed
<1>3. ASSUME NEW length \in Nat, length <= BufferLength, NEW a \in SliceAnswers(length), Takes(a),
             \/ a.kind = "panic" \/ Copies(a) \/ WarmsUp(a) \/ Measures(a)
      PROVE  pc' # "failed"
  <2>1. a.kind = "ok"
    BY <1>1, <1>3, SliceWorks
  <2>2. Bytes(a) /\ (Copies(a) \/ WarmsUp(a) \/ Measures(a))
    BY <1>3, <2>1 DEF Bytes
  <2>3. QED
    BY <2>2 DEF Copies, WarmsUp, Measures, Goes
<1>4. CASE Copy
  <2>1. BufferLength <= BufferLength
    BY <1>2
  <2>2. QED
    BY <1>2, <1>3, <1>4, <2>1 DEF Copy, SliceRead, Then
<1>5. CASE OldReadWarmup
  <2> DEFINE n == SmallerOf((End - Start) % Pointer, BufferLength)
  <2>1. n \in Nat /\ n <= BufferLength
    <3>1. End - Start \in Nat
      BY <1>1, <1>2
    <3>2. (End - Start) % Pointer \in Nat
      BY <3>1, PointerIs, Division
    <3>3. QED
      BY <1>2, <3>2 DEF SmallerOf
  <2>2. PICK a \in SliceAnswers(n) : Takes(a) /\ (a.kind = "panic" \/ WarmsUp(a))
    BY <1>5 DEF OldReadWarmup, SliceRead, Then
  <2> HIDE DEF n
  <2>3. QED
    BY <1>3, <2>1, <2>2
<1>6. CASE OldReadMeasure
  <2>1. BufferLength <= BufferLength
    BY <1>2
  <2>2. QED
    BY <1>2, <1>3, <1>6, <2>1 DEF OldReadMeasure, SliceRead, Then
<1>7. QED
  BY <1>4, <1>5, <1>6

LEMMA FaultlessLatency ==
  ASSUME Placed, Undisturbed, faults' = 0, program = "latency", LatencyWarmup \/ LatencyMeasure
  PROVE  pc' # "failed"
<1>1. count \in Nat /\ 0 \in Nat
  BY DEF Placed, TypeInv
<1>2. ~native
  <2>1. <<program, native>> \in Programs /\ <<program, native>>[1] = program
        /\ <<program, native>>[2] = native
    BY DEF Placed, TypeInv
  <2>2. QED
    BY <2>1, ProgramsAssumption
<1>3. /\ (count * SectorLength) % Capacity \in Nat
      /\ ((count * SectorLength) % Capacity) + SectorLength <= Capacity
      /\ 0 + SectorLength <= Capacity
  BY <1>1, <1>2, SectorsWithin DEF Placed
<1>4. ASSUME NEW where \in Nat, where + SectorLength <= Capacity,
             NEW a \in Answers(where, SectorLength), Takes(a),
             Bytes(a) => pc' # "failed"
      PROVE  pc' # "failed"
  BY <1>4, BlockWorks DEF Bytes
<1>5. CASE LatencyWarmup
  <2>1. PICK a \in Answers(0, SectorLength) : Takes(a) /\ (Bytes(a) => pc' # "failed")
    BY <1>5 DEF LatencyWarmup, DiskRead, Loops, Goes
  <2>2. QED
    BY <1>1, <1>3, <1>4, <2>1
<1>6. CASE LatencyMeasure
  <2> DEFINE where == (count * SectorLength) % Capacity
  <2>1. PICK a \in Answers(where, SectorLength) : Takes(a) /\ (Bytes(a) => pc' # "failed")
    BY <1>6 DEF LatencyMeasure, DiskRead, Loops, Goes
  <2> HIDE DEF where
  <2>2. where \in Nat /\ where + SectorLength <= Capacity
    BY <1>3 DEF where
  <2>3. QED
    BY <1>4, <2>1, <2>2
<1>7. QED
  BY <1>5, <1>6

LEMMA FaultlessThroughput ==
  ASSUME Placed, Undisturbed, faults' = 0, program = "throughput", ThroughputRead
  PROVE  pc' # "failed" \/ (~Allocatable(Buffer))'
<1>1. pc = "read" /\ UNCHANGED native
  BY DEF ThroughputRead, FileRead
<1>2. CASE ~Allocatable(Buffer) /\ UNCHANGED progress
  <2>1. Buffer' = Buffer /\ Pointer' = Pointer
    BY <1>1, <1>2 DEF progress, Buffer, CurrentFile, Pointer
  <2>2. QED
    BY <1>2, <2>1 DEF Allocatable
<1>3. CASE FileCounts
  BY <1>3 DEF FileCounts, NextItem, Loops, Goes
<1>4. ASSUME NEW a \in FileAnswers(Wanted), Takes(a), a.kind = "panic" \/ ThroughputReads(a)
      PROVE  pc' # "failed"
  <2>1. ThroughputReads(a)
    BY <1>1, <1>4, FileWorks
  <2>2. QED
    BY <2>1 DEF ThroughputReads, FileCounts, NextItem, Loops, Goes
<1>5. \/ ~Allocatable(Buffer) /\ UNCHANGED progress
      \/ FileCounts
      \/ \E a \in FileAnswers(Wanted) : Takes(a) /\ (a.kind = "panic" \/ ThroughputReads(a))
  BY DEF ThroughputRead, FileRead, Then, Wanted
<1>6. QED
  BY <1>2, <1>3, <1>4, <1>5

LEMMA FaultlessSame ==
  ASSUME Faultless, Undisturbed, UNCHANGED <<program, recorded>>,
         \/ program = "filesystem" \/ pc' # "failed"
         \/ program = "throughput" /\ (~Allocatable(Buffer))'
  PROVE  Faultless'
  BY DEF Faultless

\* The bytes of a file are no dash.
LEMMA FaultlessListed ==
  ASSUME Faultless, Undisturbed, UNCHANGED program, Hashed, item \in Int, NEW hash \in Seq(Int),
         hash # NoHash, Listed(hash), program = "hash"
  PROVE  Faultless'
<1> DEFINE entry == [of |-> item, hash |-> hash]
<1>1. entry \in Hashes /\ entry.hash = hash
  BY DEF Hashes
<1>2. recorded' = Append(recorded, entry) /\ pc' = "next"
  BY DEF Listed, Goes
<1> HIDE DEF entry
<1>3. recorded \in Seq(Hashes) /\ \A r \in DOMAIN recorded : recorded[r].hash # NoHash
  BY DEF Hashed, Faultless
<1>4. \A r \in DOMAIN recorded' :
        recorded'[r] = entry \/ (r \in DOMAIN recorded /\ recorded'[r] = recorded[r])
  BY <1>1, <1>2, <1>3, Appended
<1>5. \A r \in DOMAIN recorded' : recorded'[r].hash # NoHash
  BY <1>1, <1>3, <1>4
<1>6. QED
  BY <1>2, <1>5 DEF Faultless

LEMMA FaultlessHash ==
  ASSUME Placed, There, Hashed, Faultless, Undisturbed, faults' = 0, program = "hash",
         HashNext \/ HashRead
  PROVE  Faultless'
<1>1. UNCHANGED <<native, partition, program>>
  BY DEF HashNext, HashRead, FileRead, Opens
<1>2. CASE HashNext
  <2>1. UNCHANGED recorded /\ pc' # "failed"
    <3>1. CASE \E a \in OpenAnswers :
                 /\ Opens(a)
                 /\ IF a.kind = "ok" THEN Goes("read") /\ UNCHANGED progress
                    ELSE Listed(NoHash)
      <4>1. PICK a \in OpenAnswers :
              Takes(a) /\ (a.kind = "ok" => Goes("read") /\ UNCHANGED progress)
        BY <3>1 DEF Opens
      <4>2. a.kind = "ok"
        BY <4>1, OpenWorks
      <4>3. QED
        BY <4>1, <4>2 DEF Goes, progress
    <3>2. CASE UNCHANGED recorded /\ (pc' = pc \/ pc' = "done") /\ pc = "next"
      BY <3>2
    <3>3. QED
      BY <1>2, <3>1, <3>2 DEF HashNext, Goes, progress
  <2>2. QED
    BY <1>1, <2>1, FaultlessSame
<1>3. CASE HashRead
  <2>1. pc = "read"
    BY <1>3 DEF HashRead
  <2>2. PICK a \in FileAnswers(Wanted) : Takes(a) /\ FileMoves(a) /\ (a.kind = "panic" \/ HashReads(a))
    BY <1>3 DEF HashRead, FileRead, Then, FileMoves, Wanted
  <2>3. a.kind = "ok"
    BY <2>1, <2>2, FileWorks
  <2>4. HashReads(a) /\ Bytes(a)
    BY <2>2, <2>3 DEF Bytes
  <2>5. CASE Listed(out \o a.bytes)
    <3>1. /\ FileStart \in Nat /\ Len(out) \in Nat /\ a.bytes \in Seq(Int)
          /\ FromDisk(a.bytes, FileStart + Len(out), native)
      BY <2>1, <2>2, FileMovesIs
    <3>2. /\ out \in Seq(Int) /\ FromDisk(out, FileStart, native) /\ item \in DOMAIN Items
          /\ item <= Len(Items) /\ item \in Int
      <4>1. out \in Seq(Int) /\ item \in DOMAIN Items /\ item <= Len(Items) /\ item \in Int
        BY <2>1, ItemTypes DEF Placed
      <4>2. Base = FileStart
        BY DEF Base
      <4>3. QED
        BY <4>1, <4>2 DEF There
    <3> DEFINE hash == out \o a.bytes
    <3>3. hash \in Seq(Int) /\ FromDisk(hash, FileStart, native)
      BY <3>1, <3>2, Joined
    <3> HIDE DEF hash
    <3>4. hash # NoHash
      <4>1. SUFFICES ASSUME hash = <<-2>> PROVE FALSE
        BY DEF NoHash
      <4>2. 1 \in DOMAIN hash /\ hash[1] = -2
        BY <4>1
      <4>3. hash[1] \in {FileStart + 1 - 1, -1, -3}
        BY <3>3, <4>2 DEF FromDisk, Unknown, Zero, Foreign
      <4>4. QED
        BY <3>1, <4>2, <4>3
    <3>5. Listed(hash)
      BY <2>5 DEF hash
    <3>6. QED
      BY <1>1, <3>2, <3>3, <3>4, <3>5, FaultlessListed
  <2>6. CASE UNCHANGED recorded /\ pc' = "read"
    BY <1>1, <2>6, FaultlessSame
  <2>7. QED
    BY <2>4, <2>5, <2>6 DEF HashReads, Goes
<1>4. QED
  BY <1>2, <1>3

LEMMA FaultlessStep == Placed /\ There /\ Hashed /\ Faultless /\ [Next]_vars => Faultless'
<1> SUFFICES ASSUME Placed, There, Hashed, Faultless, [Next]_vars, Undisturbed' PROVE Faultless'
  BY DEF Faultless
<1>1. CASE UNCHANGED vars
  <2>1. UNCHANGED <<native, partition, faults, program, pc, item, file, recorded>>
    BY <1>1 DEF vars, disk, slice, transport, progress
  <2>2. Undisturbed
    BY <2>1, StillSound DEF Undisturbed
  <2>3. Buffer' = Buffer /\ Pointer' = Pointer
    BY <2>1 DEF Buffer, CurrentFile, Pointer
  <2>4. (~Allocatable(Buffer))' <=> ~Allocatable(Buffer)
    BY <2>3 DEF Allocatable
  <2>5. QED
    BY <2>1, <2>2, <2>4 DEF Faultless
<1>2. CASE Next
  <2>1. UNCHANGED program /\ Undisturbed /\ faults' = 0
    BY <1>2, Programmed, UndisturbedBefore
  <2>2. CASE program # "hash"
    <3>1. \/ program = "filesystem" \/ pc' # "failed"
          \/ program = "throughput" /\ (~Allocatable(Buffer))'
      BY <1>2, <2>1, <2>2, Steps, FaultlessBefore, FaultlessSlice, FaultlessLatency,
         FaultlessThroughput
    <3>2. QED
      BY <2>1, <2>2, <3>1 DEF Faultless
  <2>3. CASE program = "hash"
    <3>1. CASE HashNext \/ HashRead
      BY <2>1, <2>3, <3>1, FaultlessHash
    <3>2. CASE ~(HashNext \/ HashRead)
      <4>1. \/ \E next \in {"block", "mbr"} : Begins(next)
            \/ pc = "mbr" /\ ReadsFirstBlock({"ok"}, "slice")
            \/ pc = "block" /\ ReadsFirstBlock({"ok", "short"}, "mbr")
            \/ \E next \in {"copy", "warmup", "open", "any"} : MakesSlice(next)
            \/ HashList
        BY <1>2, <2>3, <3>2, Steps
      <4>2. pc' # "failed"
        BY <2>1, <2>3, <4>1, FaultlessBefore
      <4>3. UNCHANGED recorded
        BY <4>1, NothingRecorded
      <4>4. QED
        BY <2>1, <4>2, <4>3, FaultlessSame
    <3>3. QED
      BY <3>1, <3>2
  <2>4. QED
    BY <2>2, <2>3
<1>3. QED
  BY <1>1, <1>2

\* If what the programs read at a time is what a READ can ask for, every one of them gets
\* through a volume that is sound and within the capacity it computes, when no transfer fails:
\* it does not fail, unless throughput is at a file of which usize cannot count a buffer, its
\* throughput is of every file with its size, and every file has a hash (the mains of
\* read_and_hash.rs, read_throughput.rs, read_latency.rs, readlot.rs and old_read.rs).
THEOREM FaultlessRuns == ASSUME ReadsFit PROVE Spec => []FaultlessWorks
<1>1. Init => Counted /\ Hashed /\ Faultless
  BY DEF Init, Counted, Hashed, Faultless
<1>2. Counted /\ Faultless => FaultlessWorks
  BY DEF Counted, Faultless, Undisturbed, FaultlessWorks, FaultlessUpTo
<1>3. QED
  BY <1>1, <1>2, PlacedInit, PlacedStep, ThereInit, ThereStep, CountedStep, HashedStep,
     FaultlessStep, PTL DEF Spec
=============================================================================
