# Verification of wasi-usb

wasi-usb gives WebAssembly components access to USB devices: a host program
(`usb-wasi-host`, Rust over wasmtime and libusb) implements the WIT interfaces of
`wit/`, and guest components in `usb-wasi-guest/examples` use them as drivers.
This directory holds TLA+ models of its parts, TLC configurations that check
them on small instances, and TLAPS proofs of theorems about them.

## The system

| component | source | state it keeps |
|---|---|---|
| transfer orchestration | `usb-wasi-host/src/main.rs` 161-284, 341-520, 693-812 | the `ResourceTable`, each `UsbTransfer` (buffer, receiver, packet results, `completed`), each boxed `TransferContext`, libusb's list of flying transfers |
| device registry and hotplug | `usb_backend.rs` 104-335, `main.rs` 126-159, 563-571, 814-866 | libusb's reference counts, `HOTPLUG_QUEUE`, `hotplug_enabled`, the guest's device and handle resources |
| mass-storage block cache | guest `mass-storage/src/mass_storage.rs` 29-73, 105-118, 161-185, 263-527 | an LRU of blocks with dirty bits, the cursor, the disk behind it |
| webcam frame reassembly | guest `webcam/src/webcam.rs` 33-37, 248-373 | `ReassemblyState`: the frame buffer, the last frame id |
| mass-storage bulk-only transport | guest `mass-storage/src/bulk_only/wasm.rs` | the tag of the next command; in the device, the phase it is in |
| benchmark transport | guests `read_and_hash.rs`, `old_read.rs`, `read_throughput.rs`, `readlot.rs`, `read_latency.rs`, each with its own copy, and `usb-native/src/throughput.rs`, `readlot.rs` | the tag of the last command; in the device, its phase and a command block that waits |
| benchmarks | the mains of the same files | the slice's position, the disk's position, totals and hashes |
| maze games | guests `ps5-maze`, `xbox-maze` | the board, the player, the score, the clocks of a pellet and of the last move, the held button |
| the rest | pass-through USB calls, command line, conversions, demonstration guests, generated bindings | none across calls |

**Interactions.** The guest is one thread and makes one host call at a time; the
host runs the call on its own thread and finds the guest's resources in
wasmtime's `ResourceTable` by index. Beside it one *event thread* loops in
`libusb_handle_events_timeout_completed`: it runs `transfer_callback` for every
transfer that ends and `hotplug_cb` for every device that comes or goes. The
threads share the atomic `completed`, the packet results, a oneshot channel per
transfer, the raw `libusb_transfer` pointers, and the mutex-guarded
`HOTPLUG_QUEUE`. Devices are shared by libusb's reference counts. Guests reach
the device by transfers only: the block cache over the bulk-only transport over
bulk transfers, the webcam over isochronous ones; the benchmarks bring their own driver
with a partition slice over it, and an exFAT reader over that; the games read a
controller with interrupt transfers.

**What is hard here.** A cancel races the callback that frees the transfer; the
callback may be through before `submit_transfer` has stored the receiver; slots
of the table are reused while the guest still has a handle on the old content;
`libusb_close` strands transfers in flight; hotplug events queue up around a
`list_devices` that works on a snapshot; references are taken in three places
and given back in three others; the block cache mixes cached, dirty and missing
blocks in one access and computes offsets in several cases; the webcam's
reassembly state survives a call that returned in the middle of a transfer; the
bulk-only transport ignores how two of a command's three transfers end; the driver
of the benchmarks returns at the first transfer that fails and leaves the device
in the middle of the command; the games act on reports that may come late, short
or not at all.

**What makes each part correct.**
 - *Transfers*: memory libusb writes to is not freed under it; a transfer is
   given to libusb once; every answer is that of this transfer, handed out once;
   nothing reaches libusb for a transfer the guest has the answer of; an await
   ends; what was cancelled is freed.
 - *Registry*: each holder has a reference and each reference a holder; the
   policy of the command line holds on every path; a guest that lists and polls
   ends up with the truth.
 - *Block cache*: a read returns what was written; the cache over the disk never
   loses a write; a flush makes it durable.
 - *Transport*: a command that returns Ok has its own status and its own data, and
   leaves the device ready for the next.
 - *Frames*: a frame has one camera frame's packets, in order, none twice.
 - *Benchmarks*: what is read is what the disk has there; what is reported is of
   whole files; without a fault every benchmark gets through.
 - *Games*: the board stays whole and the player inside it; a press moves once; what
   is eaten is scored once; a pellet lasts its time.

## Modules

| module | what it models |
|---|---|
| `TransferPromise` | abstract: a transfer is made, submitted once, answered once, the answer handed out once |
| `TransferLifecycle` | `main.rs`: the guest's calls and the event thread, interleaved; `KeepsPromise` is its refinement of `TransferPromise` |
| `DeviceRegistry` | listing, hotplug, polling, opening and dropping, with libusb's notifications |
| `BlockCache` | `MassStorageDevice`'s `Read`, `Write`, `Seek`, `flush`, `drop` |
| `FrameReassembly` | `capture_uvc_frame` |
| `BulkOnlyTransport` | `command_in` and `command_out` against a device that keeps the protocol's phases |
| `BenchmarkTransport` | the driver in the benchmarks, guest and native, against a device that may be left in the middle of a command |
| `PartitionReader` | `UsbMassStorage` as a reader of bytes, and the `IoSlice` of a partition over it |
| `BenchmarkPrograms` | the mains of the benchmarks over `PartitionReader` |
| `MazeGame` | both games: set-up, reports, moves, score, clocks |
| `MazeLevels` | the levels of the code |
| `MC...` | definitions that instantiate a module for TLC; a module without one needs none but its `.cfg` |
| `...Proofs` | theorems and their TLAPS proofs |

In a module an operator whose comment starts with *Slip* is a plausible mistake
in the code next to it; no specification uses it. Replacing its original by it
makes TLC find one of the properties violated, which shows what the property is
sensitive to.

### TransferLifecycle

One action per call of the guest, split where the other thread can get in
between: `submit_transfer` is `SubmitAccepted` (libusb has the transfer) and
`SubmitStoresReceiver` (432); `cancel_transfer` and `drop` are the load of
`completed` and the call of libusb (`CancelActs`); `await_transfer` takes the
receiver and later returns. The event thread's callback is four steps: `Reap`
(result and packet results), `CallbackStores` (`completed`), `CallbackSends`,
`CallbackFrees`. `op` and `cur` say which call is between its steps.

A guest handle is named by the transfer it was made for and holds a slot index;
a call acts on whatever the table has in that slot. The buffer's owner is one of
the transfer, the context or nobody (`buffer`); `phase` is where libusb and the
callback are. Data and lengths are abstracted to whether they fit.

External, and modelled from how `main.rs` uses it: libusb reports `TIMED_OUT`
only to a transfer with a timeout, `CANCELLED` only after an accepted cancel,
`NO_DEVICE` only after an unplug; `libusb_close` takes the event lock (so it
waits for a running callback) and takes flying transfers off the list without
completing them; wasmtime's `ResourceTable` reuses freed slots. A call on a
freed transfer is a possible step with no further effect; that it happens is
what `CancelSeesLiveTransfer` says. A panic ends the process.

### DeviceRegistry

A device is one `libusb_device`, one connection: replugging makes another, which
may get the same address (`InfoOf` need not be injective). `refs` counts
libusb's references. `list_devices` and `poll_events` are one step each: the
first works on the list libusb copied, the second and the callback hold the
queue's mutex. The event thread handles libusb's messages in order
(`HandleMessage`); libusb's own reference goes with the handling of the message
that the device left. `view` and `synced` are history: what a guest would know
that starts from the last list and replays the events, as `examples/hotplug.rs`
prints them. Bounds: `MaxHeld` resources and `MaxHandles` open handles of the guest
per device. `closed` counts the handles the guest called `close` on, which releases
nothing.

### BlockCache

The code is translated case by case, with Rust's slices: `Copy` fails where
`copy_from_slice` or the slicing panics, and a panic takes the cache with it.
Bytes are numbers, blocks have `BlockSize` of them; `image` is what a correct
disk would hold. Blocks of 512 bytes are assumed on both sides (`BLOCK_SIZE`
and the device's `block_size`). The transport is assumed to do what it is asked.
The guest is a release build for wasm32: the cursor is a u64 that wraps (`Word`), a
seek may put it anywhere, `StartAddress` and `EndAddress` are cast to a usize of 32
bits (`Usize`), and numbers of blocks to a u16 (`TransferUnit`).

The code loses or confuses data in several ways. Instead of keeping guests away from
them, the module lets every one happen and keeps the history of which blocks each may
have spoiled; the properties are about all the others, and say that no mistake
reaches further than its own blocks.

| history | where the code goes wrong |
|---|---|
| `missed` | a block written alone without being cached is inserted clean (457-463) and the write lost |
| `spoiled`, in `InsertEntry` | a dirty victim is written to the block that came in (377, 460, 500) |
| `Overwritten` | a range read from the disk covers dirty blocks (335, 371) |
| `Mislabelled` | the last blocks of a long range are kept under the first ones' numbers (368), or a range that does not start the access is given its first blocks (360) |
| `Lost` | a panic takes dirty entries with it |
| `CacheWritten` | a multi-block write that is on the disk panics at a cached block (491) |
| `Strayed` | the blocks a write beyond 4 GiB meant, and those it hit (411) |
| `reply.flawed` | a read beyond 4 GiB (290), or of three or more cached blocks (`MixedUp`, 328) |

`LosesNothing` and `ReadsAreExact` state the same without `spoiled` and `flawed`; they
are false, and a configuration shows each of the ways (see below).

### FrameReassembly

The camera numbers its packets; packet `p` belongs to frame `p \div PerFrame`.
`Passes` is a packet nobody takes, `Transfer(n, lost)` one `await_transfer` that
brought the next `n` packets but those in `lost` (length 0 or a bad header, which
the loop skips), `Packet` one turn of the loop. The two ways out of the loop, a
changed frame id and the end-of-frame bit, are `PacketToggles` and `PacketEnds`.
`Styles` are the ways a camera may mark the end of a frame. `frame_buffer` is a
sequence of packets, so `IsCompleteJpeg` looks at the packets at its ends. `before`
is history. A call fails at any error of a transfer, or after `MaxAttempts`
transfers (2000 in the code).

### BulkOnlyTransport

A command is a CBW, its data and a CSW, one transfer each. The guest is at one of
them (`pc`), the device waits in one of its phases (`phase`), and a packet or the
end of a transfer is a step. `command_in` and `command_out` share `Begin`,
`SendCbw`, `ReceiveStatus` and `StatusTimesOut`; data go by `ReceiveData` and
`EndData`, or `SendData` and `EndSend`. A transfer may end at any point, whatever
it moved: `EndData` keeps all the data or none (`unwrap_or_default`), `EndSend`
does not tell (`ok()`). A wrong tag or a short status is an `Err` that every
caller in `mass_storage.rs` unwraps, so the guest ends; `Restart` is the next
guest's `BulkOnlyTransportDevice::new`, with a reset that may fail. The commands
differ in what the transport can tell: whether they have data, which way, and
what follows a status that is not passed (`AfterStatus`).

The device is external: it takes a CBW only when it waits for one (or takes it for
outstanding data), sends data of its command in order, may cut them short or halt
its pipe, and passes no write it has not got the data of. A CBW is one packet;
the lengths of data are counted in packets.

### BenchmarkTransport, PartitionReader, BenchmarkPrograms

The five guest files carry one driver, the native ones another; `Drivers` says which
is checked. Where `BulkOnlyTransport` goes on after a transfer that fails, this
one returns at once (`?`): the device stays at the data or the status of that
command, and the next command block waits in its buffer (or, if one waits already,
is refused). `lost` is history: a command of the session began before the device
was ready. The native driver reads the data until a short packet and may take the
status for data, and the other way round; the guest's takes one transfer.

`PartitionReader` takes from that what a read may answer: its own data, whole or
short; an error; or an error after which driver and device are out of step and
every read fails (`lost`), which is what `NeverBackInStep` says of the guest. A
byte is its address, so the properties can tell whether it is the right one; a
byte that never came is `Zero`, and one that the native driver took from another read
`Foreign` (`BenchmarkTransport` exempts native short packets). The arithmetic is the
code's: the guests take the last address for the number of blocks, `transfer_length`
is cast to a u16 (`TransferUnit`), seeks add to a u64 (`Word`), sizes of files are cast
to a usize (`Usize`; 64 bits with usb-native), and a buffer of half of usize or more is
a panic (`Allocatable`). That memory suffices for smaller ones is assumed. A READ
CAPACITY that comes short is taken for a disk of no bytes (`Begins`). `BenchmarkPrograms` has an action per
loop of each main. exFAT is external: a file is a contiguous part of the
partition, read a cluster at a time; `filesystem` is no program but any use of a
slice.

### MazeGame

Set-up is `Choose` (the first supported controller), `XboxSetup` with the fixed
interface of xbox-maze or `Ps5Setup` with the search of ps5-maze, or `SetupFails`.
The loop is one action per turn: `Ps5Frame` with a report or without one,
`XboxReport`, `XboxReadFails`. A report is what the moves look at: the d-pad, the
side of the dead zone the stick is on, and whether it is too short to parse. Time
is in ticks of 50 ms and advances by a frame; ages are counted up to where the
code stops telling them apart. `since_meal`, `since_step`, `pace` and `released` are
history. Ghosts are drawn at the start and never move, and `lives` never changes,
so ps5-maze ends only when it traps: the ghosts' pursuit, the tiles they put back,
the lives and the win that its README and `update.md` describe are not in the code.

## Runs

| run | instance | what it shows |
|---|---|---|
| `transfer_safety` | 2 transfers, 2 slots, an OUT isochronous transfer with a timeout and an IN one without, four statuses, every fault | the memory, ordering and answer properties and the refinement, over all interleavings |
| `transfer_liveness` | the same with fairness, unplugging and refused submissions | an await of a timed transfer ends, a cancelled transfer is freed |
| `registry` | 3 devices on 2 infos: one replugged at its address, one the allow-list refuses; at most 2 resources and one open handle each; with fairness | reference counts both ways, policy, convergence of the guest's view, and that an arrival is reported |
| `cache` | 6 blocks of 2 bytes, a cache of 3, usize 10, u16 5; five guests (`MCUsages`): one or two blocks at any offset; single-block writes with reads of two to four blocks; small accesses of what fits the cache; accesses of more blocks than a u16 counts, seeks past the end and below 0; accesses beyond usize | a read, the cache over the disk and a flush are wrong in no block but those the code is known to have lost or confused |
| `bulk` | 3 guests, 5 commands each, reads of 1 or 2 packets, writes of 2, resets that work or fail | a command's status and data are its own, the device is in step with a live guest |
| `frames` | 4 frames of 3 packets, transfers of up to 3, all losses, three styles | order, no packet twice, wholeness without gaps |
| `benchmark_transport` | 2 sessions of 5 commands, guest and native, 1 or 2 packets, every transfer ending anywhere | status and data are the command's own; a guest out of step stays so |
| `benchmarks` | a disk of 7 blocks of 2 bytes, 5 partitions, 4 items with 6 files, usize 8 with files below, at and above it, 3 faults | bytes are the disk's, reports are of whole files up to the casts of their sizes, faultless runs get through, every benchmark but old_read ends |
| `mazes` | both games on 3 by 3 cells that can be eaten empty, and the first 2 or 4 moves on the levels of the code; every direction and chord of either controller, sticks and short reports; frames of 1 or 3 ticks | the board is whole, the score adds up, a pellet lasts its time, a press moves once |

**Why the bounds are enough.** Two transfers are what a stale slot or a mixed-up
answer needs; the callback of one runs at a time, so a third adds no new
neighbour. Two connections at one address and one device of another policy are
the cases `DeviceRegistry` tells apart. With blocks of two bytes an access can
start and end in the middle of a block; a cache of three of six blocks evicts, holds
three blocks of one access, and is smaller than the largest read. A usize of 10, just
below the capacity, lets accesses go past it, up to it and around it. Three guests let a status outlive a guest that never saw it, five
commands take one through its first command, a read, a failed write with its
sense, and a command after it. Four frames let the frame id come round, which three would not. `BlockCache`
takes its guest from `Usages` to keep the instance small, each guest for some of the
hazards; a guest may do any of its accesses in any order. One handle per device is
enough for `registry` because handles of a device differ in nothing (`RegistryClose`
has two); the theorems hold for any `MaxHandles`. In `benchmark_transport` two
sessions let a command block wait over a restart, five commands take one from the
loss past the command that waits to the one after it. In `benchmarks` a block has a
first and a second byte, the partitions end before, at and after the last block,
and three faults spoil a read, the one after it and one of another file. In `mazes`
the small levels have a wall in the middle, so that every step can be free or
blocked, and 9 moves are enough to eat all there is; the pellet lasts 6 ticks and
the delay is 3, so that a frame can end before, at and after either.

**Fairness.** `transfer_liveness`: the host finishes the call it is in; the event
thread, which polls every 20 ms while the process lives (`usb_backend.rs`
186-200), runs a callback to its end and reaps a transfer that is *due*: one
with a timeout, a cancel or a vanished device. Nothing is assumed of a transfer
without a timeout on a silent device: libusb owes it nothing, so
`AwaitTerminates` speaks of transfers with one. `registry`: the event
thread handles messages, and the guest polls and drops what it was given as
`examples/hotplug.rs` does; nothing makes it list or open. `benchmarks`: a program goes on
(`WF_vars(Next)`), since it is one thread whose every read has a timeout.

**Deadlock** is checked where the system always has a next step. The
configurations of transfers, of the cache, of both transports, of the benchmarks
and of the games say `CHECK_DEADLOCK FALSE`: a guest may stop with all transfers
used up and their handles dropped, an await whose device handle was closed never
returns, a program ends, and a panic is the guest's end.

### Where the code does not do what it says

These runs are expected to fail, each on one property taken from a comment or a
document of the repository:

| run | property | what happens |
|---|---|---|
| `transfer_stale_handle` | `HandleNamesItsTransfer` | after a successful await (main.rs 518) the handle names a free slot, which the next transfer gets; dropping the old handle cancels the new transfer |
| `transfer_cancel_race` | `CancelSeesLiveTransfer` | `completed` is loaded (443), the callback frees the transfer, libusb is called with it |
| `cache_flush` | `FlushPersists` | a write to a block that was not cached is never written |

More configurations reproduce further disagreements, with
`tlc -config <file> <module>`:

| configuration | property | what happens |
|---|---|---|
| `TransferClosedEarly` | `AwaitTerminates` | the device handle is dropped with a transfer in flight; its await never returns, against transfers.wit 36-37 |
| `TransferRetry` | `BufferAllocated` | a refused submission (main.rs 422-428) drops the buffer; the retry hits the `expect` of 408 |
| `TransferLoopStopped` | `AwaitTerminates` | one error of the event loop ends it for good |
| `RegistryClose` | `CloseReleases` | `close` releases nothing (main.rs 814; device.wit 85-86) |
| `CacheEviction` | `LosesNothing` | a dirty victim is written at the address of the block that came in (377, 460, 500) |
| `CacheReread` | `LosesNothing` | `new_range` is not reset (335): a read from the disk covers a dirty block |
| `CacheMiddle` | `ReadsAreExact` | the place of a cached middle block is counted backwards (328) |
| `CacheLargeRead` | `ReadsAreExact` | of a read longer than the cache the last blocks are kept under the first blocks' numbers (368-379) |
| `CacheFar` | `ReadsAreExact` | the cursor is cast to usize (290): a read at 2^32 is one at 0 |
| `CacheWriteThrough` | `NeverPanics` | a multi-block write over a cached block copies slices of different lengths (491) |
| `FramesGap` | `ReturnedIsComplete` | packets lost inside a frame, or from one frame to the next but one, leave both markers at its ends (webcam.rs 33): the frame is returned |
| `BulkStaleStatus` | `StatusIsThisCommands` | the tags of every guest start at 0 (91) and a failed reset is ignored (38): the first command gets the status of the earlier guest's first command |
| `BulkShortRead` | `PassedReadsAreWhole` | data that timed out are dropped (175), the status passes, the residue is not looked at: a read returns less than it was asked for |
| `CacheEnd` | `NothingOnlyAtTheEnd` | READ CAPACITY's last address is taken for the number of blocks (94): the last block is out of reach |
| `BenchmarkLastBlock` | `DiskIsReadable` | the same in the benchmark guests (read_and_hash.rs 206; the native copy corrects it, throughput.rs 152): a partition that reaches the last block cannot be read to its end |
| `BenchmarkOldRead` | `OldReadEnds` | the measurement of old_read ends only at an error (689): at the end of the partition it reads nothing for ever |
| `BenchmarkLargeRead` | `ReadsNeverPanic` | the number of blocks is cast to a u16 (497): a read of 65536 blocks slices past its data |
| `BenchmarkLargeFile` | `HashesAreWhole` | the rest of a file is cast to usize (774): of a file of 4 GiB or more only size mod 2^32 bytes are hashed |
| `BenchmarkShortRead` | `PassedReadsAreWhole` | a short transfer is only a warning (421): a read returns zeros for what did not come |
| `MazesHeld` | `HeldMovesOnce` | a report too short to parse counts as a release (xbox-maze lib.rs 112): a held button moves again |
| `MazesIdle` | `EndsOnlyOnError` | xbox-maze returns "if there was an actual communication error" (394) and also when the controller sent nothing for a second |

`RegistryLiveness` repeats `ArrivalReported` under a deny-list and with a device that
cannot be read, and passes.

## Proofs

`tlapm` checks every proof; nothing is assumed but the constants' assumptions
named in the modules. The theorems hold for every value of the constants: any
number of transfers, slots, devices, packets.

**TransferLifecycleProofs.** `TypeCorrect`, then the inductive invariant `IInv`.
`BufferOutlivesTransfer` and the others are not inductive: they need to know who
owns the buffer in *every* phase, which channel states go with which phases,
that `completed` is set exactly from `stored` on, that a receiver exists only for a
transfer that was submitted, and that the call between its two steps still finds
its transfer in the table. `IInv` is that catalogue, one named conjunct each, and
is preserved action by action. From it: `BufferSafe`, `CancelSafe`,
`AnswerCorrect`, the action property `SubmittedOnceHolds`, and `Refinement`: each
step of the detailed model is a step or a stutter of `TransferPromise`.

**DeviceRegistryProofs.** `OnlyAllowed`: that the guest holds only what the policy
allows needs that the queue does (`Screened`), for the events that were queued
by the callback reach the guest later. `TypeCorrect`, `HeldLive` and `ReleasedFreed`
come from `RefInv`: `refs` is *exactly* what the queue, the resources, the handles and
libusb account for (`Balanced`). That is inductive only with where events can be: none
of a device that was never attached (`Unseen`), so that an arrival starts from
nothing, and at most one departure of each that left (`Departures`), so that libusb's
reference is given back once. `Count` is a cardinality, and the lemmas say what one
event more, one less, or none does to it. `ViewRight` follows from `NewsInv`: for each
address, the newest event about it tells the truth, wherever that event is: still
at libusb, in the queue, or with the guest (`NewsOf`). Two connections never have one
address at once (`Distinct`), which is why the newest event decides.

**FrameReassemblyProofs.** `TypeCorrect` and `FramesOrdered`. A returned frame is in
order because the buffer is; it has nothing of the frame before because the
whole buffer was sent after that frame; and the rest of the transfer comes after
both. `Order` says this of `frame`, `frame_buffer`, `batch` and `next`. `GapFreeWhole` adds
that all in the buffer has one frame id (`OneId`): frames that follow each other have
different ones, so a returned frame with packets of two has a gap between them, and
one without a gap is of one frame, from its first payload to its last.

**BulkOnlyTransportProofs.** `TypeCorrect`, `StatusOwn`, `DataOwn`, `DeviceInStep`.
What makes a lost transfer harmless is `Matched`: past its first command, a guest's
command is the one the device works on, or the device never got it and waits (or
has halted). Hence a status with the right tag is the command's own. At the
first command the device may be anywhere an earlier guest left it; the tag 0 then
says that its work is a first command too (`FirstWork`), which has no data. `Prefix`
says that what the guest has read is the start of the data of its command.

**BenchmarkTransportProofs.** `TypeCorrect`, `StatusOwn`, `DataOwn`, `StaysBehind`. The
invariant says which commands the device can hold: those of this session, none
later than the driver's (`Ahead`, `KnownDevice`), and of a guest that is out of step,
that its own command block is the one that waits, or that the device is stuck in
its data (`GuestInv`). So what such a guest reads is never the end of its own
command, and no command returns Ok until the reset of the next start.

**MazeGameProofs.** `TypeCorrect`, `BoardIntact`, `PowerLasts`, `Apart`, `MovesOnce`,
`ShownTrue`, for every level with a wall around it and every kind of report. One
lemma says that a step keeps the board whole, and with it the up to four of one
report; the index of a neighbour is then always in range. `Apart` needs that the
code's `last_move` is never older than the last move (`since_move <= since_step`),
`MovesOnce` that a button not seen up is down. `ScoreAdds`: the cells of one kind
change by the one cell the player enters, which was scored; what lies under a
ghost is not on the board and cannot be entered.

**BenchmarkProgramsProofs.** Five theorems, each on the invariant of the one before.
`Placed` says where a program is, which file it reads and how much of it; from it
`TypeCorrect`, hence that no read or seek leaves the partition. `There`: what has been
read ends where the next read begins, so its bytes are joined without a gap
(`ReadingIsThere`). `Hashed`: an entry of the listing is of all that was to be read of
the file, which is its size as usize has it (`HashesWhole`). `Counted`: in a round, the total is of the sizes of whole items before the
one at hand and of that one the files before the one at hand, so that an item that
fails is left out as a whole (`WholeItems`). `Faultless`: as long as nothing has failed
and the partition holds its files (`Undisturbed`), every read answers with all it was
asked for (`FaultlessRuns`): only the buffer of a file may be impossible to have. The assumptions are those the modules name: a disk whose
bytes are counted in a `u64`, partitions and files of any place and size, at least one
item. `FaultlessRuns` has one more, `ReadsFit`: no read asks for more than the u16 of
READ (10) counts. The code's constants satisfy it, and so does the checked instance
(an `ASSUME` of `MCBenchmarkPrograms`); without it a read may
panic, as `BenchmarkLargeRead` shows.

**BlockCacheProofs.** `TypeCorrect` holds for every guest, wherever its seeks go and
whatever its accesses do to the data: no access leaves the types, and no block is in
the cache twice (`Distinct`), so that an entry is found wherever it lies. It needs that
the casts keep an access on the disk (`SpanIs`: the clipped end is at most the
capacity) and that each loop keeps the types turn by turn (`ScannedReads`,
`CacheRangeReads`, `FetchedRangesReads`, `CacheAllWrites`).

`WritesKept` and `FlushDurable` are `KeepsWrites` and `FlushIsDurable` for every guest,
with no hypothesis on what it does: the reads of many blocks, the evictions of dirty
entries, the accesses beyond 4 GiB and the panics are all among its steps. The inductive
invariant `IInv` has `KeepsWrites` with one thing more (`Holds`): outside the exempt
blocks a clean entry is not only right but on the disk, since it may be evicted without
being written out. Every way the cache is changed keeps `Holds` (`InsertHolds`,
`StoreHolds`), so each loop of an access does, turn by turn: `CacheRangeHolds` and
`FetchHolds` for a read, `CacheAllHolds` for a write, where a panic leaves the disk and
the blocks of that write (`SettleHolds`). For a write it takes besides that the bytes
are put where the guest meant them: `WholePatch` (a write that does not panic has
counted all of its blocks and writes all of its bytes, unless it is astray),
`PatchedManyIs` (what it does not write of its first and last block it has read) and
`WrittenElsewhere`. `ReadsAreTrue` is model-checked only.

**Induction over data.** The loops of an access over its blocks are recursive functions
over numbers, defined where they are used; `Unrolls` shows that such a function exists
and `StaysIn` that what every turn keeps holds at the end. A sum over files is a
recursive function over a sequence. The library's induction theorems take an operator,
which the provers cannot instantiate; `Induction` (in the modules that need it) says the
same of a set of numbers and is proved from the well-foundedness of the naturals. With
it `SumsExist` shows that the function is defined and `TotalAdds` what one more term
does.

**Model-checked only.** Liveness (`AwaitTerminates`, `CancelledIsFreed`, `ArrivalReported`,
`ProgramsEnd`), which tlapm's rules cannot take from fairness and `ENABLED`; and what the code does
not do, which a run shows.

## Not modelled

The pass-through calls of `main.rs` 534-691 (one libusb call each, no state of
the host's own), the command line and wasmtime set-up, the conversions of
`host.rs`, the UVC negotiation, the SCSI commands that only ask the device
something, the demonstration guests, the generated bindings, and of the native
benchmarks `bulk.rs` and `inter.rs`, which time single transfers in a straight line.
`PROJECT.json` lists each with its reason.

## Plan

Done, in order of importance: transfers, registry, block cache, frames, bulk-only
transport, the benchmarks and their driver, the games. Next:

 1. The pass-through calls of `main.rs` 534-691 with their error mapping, as the
    guest's side of a device handle: claims, configurations, alternate settings.
 2. Pure operators: the lengths and packets `new_transfer` computes, `host.rs`'s
    conversions, each against a reference definition.
 3. `BlockCache` over `BulkOnlyTransport`: a transport that fails under the cache.
 4. Proofs: `ReadsAreTrue` of the block cache for every guest.
