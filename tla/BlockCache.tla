----------------------------- MODULE BlockCache -----------------------------
(***************************************************************************)
(* The write-back cache of the mass-storage guest                          *)
(* (examples/mass-storage/src/mass_storage.rs): Read, Write, Seek, flush   *)
(* and drop of MassStorageDevice over an LRU of CACHE_SIZE blocks.         *)
(*                                                                         *)
(* A block is BlockSize bytes: the code's 512, which is also the           *)
(* block_size it is given by the device.  Slices are the code's: a copy    *)
(* between slices of different lengths, or beyond the end of one, panics,  *)
(* and with the guest gone so is its cache.  The build is a release build  *)
(* for wasm32: positions are u64 and wrap, addresses are usize and lose    *)
(* what is above Usize, block counts are u16; a negative index wraps and   *)
(* is beyond every end, so integers do for an index.                       *)
(*                                                                         *)
(* The transport below it is assumed to do what it is asked: read_blocks   *)
(* and write_blocks are accesses of disk.                                  *)
(***************************************************************************)
EXTENDS Integers, SequencesExt

CONSTANTS
  BlockSize,   \* bytes of a block
  LastBlock,   \* the address of the last block, what READ CAPACITY returns
  CacheSize,   \* CACHE_SIZE
  Usize,       \* one more than usize::MAX: 2^32
  Word,        \* one more than u64::MAX
  TransferUnit, \* one more than u16::MAX, the type of a block count
  Marks,       \* the bytes the guest writes
  Usages       \* bound: the guests checked; of each, the lengths of its reads and of its
               \* writes, the last block they touch, the positions it seeks from the start
               \* and the offsets it seeks by

ASSUME SizesAssumption ==
  /\ BlockSize \in Nat \ {0} /\ LastBlock \in Nat \ {0} /\ CacheSize \in Nat \ {0}
  /\ Usize \in Nat \ {0} /\ Word \in Nat /\ 2 * Usize <= Word
  /\ LastBlock * BlockSize < Word
  /\ TransferUnit \in Nat \ {0, 1}
  /\ \A u \in Usages :
       /\ u.reads \cup u.writes \subseteq 0..(Usize - 1)
       /\ u.seeks \subseteq 0..(Word - 1) /\ u.offsets \subseteq Int

VARIABLES
  disk,    \* the medium
  cache,   \* the LRU of CacheEntry, the most recent first
  cursor,  \* where the next access starts
  panic,   \* the guest panicked
  usage,   \* which guest it is
  \* history
  image,   \* what the guest wrote, over what was there before
  missed,  \* the blocks it ever wrote alone without having them in the cache
  spoiled, \* the blocks the code lost or confused in some other way: see each place
  reply    \* the last read that returned: where it was, what it got, whether the code
           \* is known to have mixed it up

store == <<disk, cache, panic>>
history == <<image, missed, spoiled>>
vars == <<store, cursor, usage, history, reply>>

Block == 0..LastBlock
BytesOf(b) == [i \in 1..BlockSize |-> b * BlockSize + i]
Byte == 0..((LastBlock + 1) * BlockSize) \cup Marks
Entry(b, data, dirty) == [block |-> b, data |-> data, dirty |-> dirty]

\* MassStorageDevice::new: the address of the last block times the block size.
Capacity == LastBlock * BlockSize

Answer(data, flawed) == [at |-> cursor, data |-> data, flawed |-> flawed]
NoRead == [at |-> -1, data |-> <<>>, flawed |-> FALSE]

Init ==
  /\ usage \in Usages
  /\ disk = [b \in Block |-> BytesOf(b)] /\ image = disk
  /\ cache = <<>> /\ cursor = 0 /\ panic = FALSE
  /\ missed = {} /\ spoiled = {} /\ reply = NoRead

-----------------------------------------------------------------------------
(***************************************************************************)
(* The cache and the copies, on a record m of cache, disk, spoiled, the    *)
(* guest's buf and ok, which is FALSE once the code panicked.              *)
(***************************************************************************)
Cached(c, b) == \E i \in DOMAIN c : c[i].block = b
Lookup(c, b) == c[SelectInSeq(c, LAMBDA e : e.block = b)]

\* LRUCache::find, and what the code stores through the reference it returns.
Touch(c, e) == <<e>> \o RemoveFirstMatch(c, LAMBDA f : f.block = e.block)

\* Slip: nothing is evicted.
InsertEntryUnbounded(m, e) == [m EXCEPT !.cache = <<e>> \o m.cache]

\* LRUCache::insert of an entry that is not there, which evicts the oldest.  A
\* dirty one is written out, at the address of the entry that came in, which spoils
\* both.
InsertEntry(m, e) ==
  LET full == Len(m.cache) = CacheSize
      oldest == Last(m.cache)
  IN [m EXCEPT
       !.cache = <<e>> \o (IF full THEN Front(m.cache) ELSE m.cache),
       !.disk = IF full /\ oldest.dirty THEN [m.disk EXCEPT ![e.block] = oldest.data]
                ELSE m.disk,
       !.spoiled = IF full /\ oldest.dirty THEN @ \cup {oldest.block, e.block} ELSE @]

\* buf[a..b].copy_from_slice(&src[c..d])
Copy(m, a, b, src, c, d) ==
  IF 0 <= a /\ a <= b /\ b <= Len(m.buf) /\ 0 <= c /\ d <= Len(src) /\ b - a = d - c
  THEN [m EXCEPT !.buf = [i \in DOMAIN m.buf |->
                            IF a < i /\ i <= b THEN src[i - a + c] ELSE m.buf[i]]]
  ELSE [m EXCEPT !.ok = FALSE]

\* read_blocks: n blocks from the disk.
ReadBlocks(d, first, n) ==
  [i \in 1..(n * BlockSize) |-> d[first + (i - 1) \div BlockSize][((i - 1) % BlockSize) + 1]]

\* The k-th block of data, from 1.
BlockOf(data, k) == [i \in 1..BlockSize |-> data[(k - 1) * BlockSize + i]]

Least(a, b) == IF a < b THEN a ELSE b

\* start_address and end_address of an access of n bytes, and num_bytes.
StartAddress == cursor % Usize
EndAddress(n) == Least((cursor + n) % Word, Capacity) % Usize
Clipped(n) == IF StartAddress < EndAddress(n) THEN EndAddress(n) - StartAddress ELSE 0

\* The blocks that k bytes from the start address touch.
Span(k) ==
  LET last == StartAddress + k - 1
      first == StartAddress \div BlockSize
  IN [from |-> first, off |-> StartAddress % BlockSize,
      to |-> last \div BlockSize, tail |-> (last % BlockSize) + 1,
      blocks |-> (last \div BlockSize) - first + 1]

\* The access is beyond what usize can address: it goes elsewhere.
Astray == cursor >= Usize

-----------------------------------------------------------------------------
(***************************************************************************)
(* Read::read.                                                             *)
(***************************************************************************)

\* Slip: the offset in the block is forgotten.
CopyCachedFromStart(m, s, b) ==
  LET data == Lookup(m.cache, b).data
      hit == [m EXCEPT !.cache = Touch(m.cache, Lookup(m.cache, b))]
      rest == BlockSize - s.off
  IN IF b = s.from /\ b = s.to THEN Copy(hit, 0, Len(m.buf), data, 0, Len(m.buf))
     ELSE IF b = s.from THEN Copy(hit, 0, rest, data, 0, rest)
     ELSE Copy(hit, rest, Len(m.buf), data, 0, s.tail)

\* A cached block goes into the buffer; the index of a middle block is counted
\* backwards from the start of the access.
CopyCached(m, s, b) ==
  LET data == Lookup(m.cache, b).data
      hit == [m EXCEPT !.cache = Touch(m.cache, Lookup(m.cache, b))]
      rest == BlockSize - s.off
      middle == rest + (s.from - b) * BlockSize
  IN IF b = s.from /\ b = s.to THEN Copy(hit, 0, Len(m.buf), data, s.off, s.tail)
     ELSE IF b = s.from THEN Copy(hit, 0, rest, data, s.off, BlockSize)
     ELSE IF b = s.to
       THEN Copy(hit, rest + (s.blocks - 2) * BlockSize, Len(m.buf), data, 0, s.tail)
     ELSE Copy(hit, middle, middle + BlockSize, data, 0, BlockSize)

\* The first loop: cached blocks are copied, and the ranges of the others are
\* noted.  A range ends at a cached block, but the next one starts where it did.
Scan(m, s, b) ==
  IF ~m.ok THEN m
  ELSE IF ~Cached(m.cache, b)
    THEN IF m.open THEN m ELSE [m EXCEPT !.open = TRUE, !.start = b]
  ELSE LET hit == CopyCached(m, s, b)
       IN IF m.open THEN [hit EXCEPT !.ranges = Append(@, <<m.start, b>>)] ELSE hit

\* One block of what was read, into the cache.
CacheRead(m, b, data) ==
  IF Cached(m.cache, b)
  THEN [m EXCEPT !.cache = Touch(m.cache, [Lookup(m.cache, b) EXCEPT !.data = data])]
  ELSE InsertEntry(m, Entry(b, data, FALSE))

\* The last CacheSize of n blocks of data, numbered from `first` on.
CacheRange(m, first, data, n) ==
  LET kept == Least(n, CacheSize)
      upTo[i \in 0..kept] ==
        IF i = 0 THEN m ELSE CacheRead(upTo[i - 1], first + i - 1, BlockOf(data, n - kept + i))
  IN upTo[kept]

\* What caching the n blocks read for the range r spoils: dirty entries of the blocks
\* read, and the blocks whose numbers are given to others.
Overwritten(m, s, n) == {b \in s.from..(s.from + n - 1) : Cached(m.cache, b) /\ Lookup(m.cache, b).dirty}
Mislabelled(s, r, n) ==
  LET kept == Least(n, CacheSize)
  IN IF s.from + n - kept = r[1] THEN {} ELSE r[1]..(r[1] + kept - 1)

\* The second loop, for the range r: read from the start of the access, cache and copy.
FetchRange(m, s, r) ==
  LET n == (r[2] - r[1]) % TransferUnit
      data == ReadBlocks(m.disk, s.from, n)
      marked == [m EXCEPT !.spoiled = @ \cup Overwritten(m, s, n) \cup Mislabelled(s, r, n)]
      cached == CacheRange(marked, r[1], data, n)
      rest == BlockSize - s.off
      start == rest + (r[1] - s.from - 1) * BlockSize
      end == rest + (r[2] - s.from - 1) * BlockSize
      lastByte == (s.blocks - 1) * BlockSize + s.tail
  IN IF ~m.ok THEN m
     ELSE IF r[1] = s.from /\ r[2] = s.to + 1
       THEN Copy(cached, 0, Len(m.buf), data, s.off, lastByte)
     ELSE IF r[1] = s.from
       THEN Copy(cached, 0, end, data, s.off, (s.blocks - 1) * BlockSize)
     ELSE IF r[2] = s.to + 1 THEN Copy(cached, start, Len(m.buf), data, 0, lastByte)
     ELSE Copy(cached, start, end, data, 0, Len(data))

Scanned(m, s) ==
  LET upTo[i \in 0..s.blocks] == IF i = 0 THEN m ELSE Scan(upTo[i - 1], s, s.from + i - 1)
  IN upTo[s.blocks]

FetchedRanges(m, s, ranges) ==
  LET upTo[i \in 0..Len(ranges)] == IF i = 0 THEN m ELSE FetchRange(upTo[i - 1], s, ranges[i])
  IN upTo[Len(ranges)]

Fetched(s, n) ==
  LET m == [cache |-> cache, disk |-> disk, spoiled |-> spoiled,
            buf |-> [i \in 1..n |-> 0], ok |-> TRUE, open |-> FALSE, start |-> 0, ranges |-> <<>>]
      scanned == Scanned(m, s)
      last == IF scanned.open THEN << <<scanned.start, s.to + 1>> >> ELSE <<>>
  IN FetchedRanges(scanned, s, scanned.ranges \o last)

\* A panic takes the cache with it, dirty entries and all, and leaves the disk as it is
\* by then.
Lost(m) == {b \in Block : Cached(m.cache, b) /\ Lookup(m.cache, b).dirty}
Settle(m) ==
  /\ disk' = m.disk /\ panic' = ~m.ok
  /\ cache' = IF m.ok THEN m.cache ELSE <<>>
  /\ spoiled' = IF m.ok THEN m.spoiled ELSE m.spoiled \cup Lost(m)

\* Three or more blocks that are all cached are mixed up by CopyCached.
MixedUp(s) == s.blocks > 2 /\ \A b \in s.from..s.to : Cached(cache, b)

Read(n) ==
  LET k == Clipped(n)
      s == Span(k)
      m == Fetched(s, n)
  IN /\ ~panic
     /\ IF k = 0
          THEN /\ UNCHANGED <<store, cursor, spoiled>>
               /\ reply' = Answer(<<>>, FALSE)
          ELSE /\ s.to <= usage.last
               /\ Settle(m)
               /\ IF m.ok
                    THEN /\ cursor' = (cursor + k) % Word
                         /\ reply' = Answer(SubSeq(m.buf, 1, Least(k, n)), Astray \/ MixedUp(s))
                    ELSE UNCHANGED cursor /\ reply' = NoRead
     /\ UNCHANGED <<usage, image, missed>>

-----------------------------------------------------------------------------
(***************************************************************************)
(* Write::write of n bytes v.                                              *)
(***************************************************************************)
Current(b) == IF Cached(cache, b) THEN Lookup(cache, b).data ELSE disk[b]
Found(c, b) == IF Cached(c, b) THEN Touch(c, Lookup(c, b)) ELSE c

\* Slip: a changed entry is not marked.
UpdatedEntryClean(m, b, data) ==
  IF Cached(m.cache, b) THEN [m EXCEPT !.cache = Touch(m.cache, Entry(b, data, FALSE))]
  ELSE InsertEntry(m, Entry(b, data, FALSE))

\* One block: read it, change it, and leave it in the cache.  Only an entry that
\* was there becomes dirty.
UpdatedEntry(m, b, data) ==
  IF Cached(m.cache, b) THEN [m EXCEPT !.cache = Touch(m.cache, Entry(b, data, TRUE))]
  ELSE InsertEntry(m, Entry(b, data, FALSE))

WriteOne(s, patch) ==
  LET m == Copy([cache |-> Found(cache, s.from), disk |-> disk, spoiled |-> spoiled,
                 buf |-> Current(s.from), ok |-> TRUE],
                s.off, s.off + Len(patch), patch, 0, Len(patch))
  IN IF m.ok THEN UpdatedEntry(m, s.from, m.buf) ELSE m

\* Slip: a block that is in the cache is left as it is there.
CacheWrittenStale(m, s, b) ==
  IF ~m.ok \/ Cached(m.cache, b) THEN m
  ELSE InsertEntry(m, Entry(b, BlockOf(m.buf, b - s.from + 1), FALSE))

\* Several blocks: write them through.  A block that is in the cache is then
\* overwritten with the data of all of them, which does not fit: a panic, of a write
\* that is on the disk.
CacheWritten(m, s, b) ==
  IF ~m.ok THEN m
  ELSE IF Cached(m.cache, b)
    THEN [m EXCEPT !.ok = FALSE, !.spoiled = @ \cup s.from..s.to]
  ELSE InsertEntry(m, Entry(b, BlockOf(m.buf, b - s.from + 1), FALSE))

CacheAllWritten(m, s) ==
  LET upTo[i \in 0..s.blocks] == IF i = 0 THEN m ELSE CacheWritten(upTo[i - 1], s, s.from + i - 1)
  IN upTo[s.blocks]

WriteMany(s, patch) ==
  LET around == [i \in 1..(s.blocks * BlockSize) |->
                   IF i <= BlockSize THEN Current(s.from)[i]
                   ELSE IF i > (s.blocks - 1) * BlockSize
                     THEN Current(s.to)[i - (s.blocks - 1) * BlockSize]
                   ELSE 0]
      found == Found(Found(cache, s.from), s.to)
      m == Copy([cache |-> found, disk |-> disk, spoiled |-> spoiled, buf |-> around,
                 ok |-> s.blocks > 0],
                s.off, s.off + Len(patch), patch, 0, Len(patch))
      through == [m EXCEPT !.disk = [b \in Block |->
                    IF b \in s.from..(s.from + s.blocks - 1)
                    THEN BlockOf(m.buf, b - s.from + 1) ELSE disk[b]]]
  IN IF m.ok THEN CacheAllWritten(through, s) ELSE m

\* The image with k bytes v from the cursor on.
Written(k, v) ==
  [b \in Block |-> [i \in 1..BlockSize |->
     IF b * BlockSize + i - 1 \in cursor..(cursor + k - 1) THEN v ELSE image[b][i]]]

\* The blocks of a write that goes astray, those it meant and those it hits.
Strayed(k, s) ==
  IF Astray THEN {b \in Block : b \in s.from..s.to
                                \/ \E a \in cursor..(cursor + k - 1) : a \div BlockSize = b}
  ELSE {}

\* The number of blocks is a u16.
Write(n, v) ==
  LET k == Clipped(n)
      s == [Span(k) EXCEPT !.blocks = @ % TransferUnit]
      patch == [i \in 1..n |-> v]
      m == IF s.blocks = 1 THEN WriteOne(s, patch) ELSE WriteMany(s, patch)
  IN /\ ~panic /\ k > 0 /\ s.to <= usage.last
     /\ Settle([m EXCEPT !.spoiled = @ \cup Strayed(k, s)])
     /\ IF m.ok THEN cursor' = (cursor + k) % Word /\ image' = Written(k, v)
        ELSE UNCHANGED <<cursor, image>>
     /\ missed' = IF m.ok /\ s.blocks = 1 /\ ~Cached(cache, s.from) THEN missed \cup {s.from} ELSE missed
     /\ reply' = NoRead
     /\ UNCHANGED usage

\* A write of no bytes, as at the end of the disk, is Ok(0).
WriteNothing(n) ==
  /\ ~panic /\ Clipped(n) = 0
  /\ reply' = NoRead
  /\ UNCHANGED <<store, cursor, usage, history>>

-----------------------------------------------------------------------------
\* SeekFrom::Start, End and Current; nothing keeps the cursor on the disk.
Seek ==
  /\ ~panic
  /\ \/ \E p \in usage.seeks : cursor' = p
     \/ \E offset \in usage.offsets : \/ cursor' = (Capacity + offset) % Word
                                       \/ cursor' = (cursor + offset) % Word
  /\ reply' = NoRead
  /\ UNCHANGED <<store, usage, history>>

\* What flush_cache leaves on the disk: each dirty entry, at its block.
FlushedDisk ==
  [b \in Block |-> IF Cached(cache, b) /\ Lookup(cache, b).dirty THEN Lookup(cache, b).data
                   ELSE disk[b]]

\* flush, and the drop of the device.
Flush ==
  /\ ~panic
  /\ disk' = FlushedDisk
  /\ cache' = <<>>
  /\ reply' = NoRead
  /\ UNCHANGED <<panic, cursor, usage, history>>

Next ==
  \/ \E n \in usage.reads : Read(n)
  \/ \E n \in usage.writes, v \in Marks : Write(n, v)
  \/ \E n \in usage.writes : WriteNothing(n)
  \/ Seek
  \/ Flush

Spec == Init /\ [][Next]_vars

-----------------------------------------------------------------------------
(***************************************************************************)
(* Properties.                                                             *)
(***************************************************************************)
Entries == [block : Block, data : [1..BlockSize -> Byte], dirty : BOOLEAN]

\* Every variable has its type and the cache its size.
TypeInv ==
  /\ disk \in [Block -> [1..BlockSize -> Byte]]
  /\ image \in [Block -> [1..BlockSize -> Byte]]
  /\ cache \in Seq(Entries) /\ Len(cache) <= CacheSize
  /\ cursor \in 0..(Word - 1) /\ panic \in BOOLEAN /\ usage \in Usages
  /\ missed \subseteq Block /\ spoiled \subseteq Block
  /\ reply.at \in -1..(Word - 1) /\ reply.data \in Seq(Byte) /\ reply.flawed \in BOOLEAN

Exempt == missed \cup spoiled

\* A read that returns has, byte for byte, what the guest wrote there or what was there
\* before, however its blocks were spread over the cache and the disk: unless the read
\* is mixed up or astray itself, it is wrong only in blocks lost or confused before.
ReadsAreTrue ==
  ~reply.flawed =>
    \A i \in DOMAIN reply.data :
      LET a == reply.at + i - 1
          b == a \div BlockSize
      IN b \notin Exempt => reply.data[i] = image[b][(a % BlockSize) + 1]

\* The cache over the disk holds every write, whatever is evicted, read around it,
\* written along with it or left behind by a panic: it is wrong only in the blocks
\* the code is known to have lost or confused, and no mistake spreads to others.
KeepsWrites == \A b \in Block \ Exempt : Current(b) = image[b]

\* A flush leaves on the disk all that was written to other blocks.
FlushIsDurable == [][Flush => \A b \in Block \ Exempt : disk'[b] = image[b]]_vars

(***************************************************************************)
(* What the code does not keep.                                            *)
(***************************************************************************)
\* mass_storage.rs 514: "We don't buffer anything ourselves so we don't need to
\* flush": after flush the disk has every write.
FlushPersists == [][Flush => disk' = image]_vars

\* mass_storage.rs 377: a dirty entry is written out when it is evicted, and nothing a
\* read does (371) loses what was written to a cached block.
LosesNothing == ~panic => \A b \in Block \ missed : Current(b) = image[b]

\* mass_storage.rs 290, 328, 368: a read returns the bytes at its position.
ReadsAreExact ==
  \A i \in DOMAIN reply.data :
    LET a == reply.at + i - 1
    IN a \div BlockSize \notin missed => reply.data[i] = image[a \div BlockSize][(a % BlockSize) + 1]

\* mass_storage.rs 486: a write that has updated the disk goes on to update the
\* cache.
NeverPanics == ~panic

\* mass_storage.rs 295: a read that finds nothing to do is at the end of the disk.
NothingOnlyAtTheEnd ==
  ~Astray => \A n \in 1..(Usize - 1) : Clipped(n) = 0 => cursor \div BlockSize \notin Block
=============================================================================
