# sf_daq_buffer in TLA+

sf_daq_buffer receives the UDP packets of Jungfrau detectors at SwissFEL, keeps
the frames in shared memory and in binary files, streams assembled images live
and writes them to HDF5 files. It is a set of small programs that share little:
a ring in shared memory without locks, ZeroMQ sockets that drop what does not
fit, files that are read while they are written, and, inside one program, two
arrays of atomics. This directory models those places, checks them with TLC and
proves the central ones with TLAPS. `PROJECT.json` is the machine-readable
index: components, runs, mutants, the source lines of every definition,
findings, hazards and theorems.

## 1. The system

```
 detector --UDP--> jf_udp_recv (one per module) --write_frame--> RAM buffer (shared ring)
                        |  announces pulse ids (PUB)                |
                        +-----------> jf_buffer_writer (per module) +--> binary files --> sf_writer --> HDF5
                        +-----------> jf_assembler (per detector) --+
                                          | image metadata (PUB)    |
                                          +--> sf_stream  <---------+--> live analysis
 writer agent --store stream (PUB)--> jf_live_writer (MPI ranks) <--+--> parallel HDF5
 JungfrauJoch --UDP--> jfj_udp_recv --> RAM buffer + image metadata
```

| Component | State | Operations | What is hard | What makes it correct |
|---|---|---|---|---|
| **jf_udp_recv** (`jf-udp-recv`) | packet batch with offset and loaded flag, the frame in progress, previous pulse and frame | `process_packets`, `get_frame_from_udp`, main loop | batches do not respect frames; last packets get lost | frames are those of the packet stream; bad frames are those after a gap |
| **RAM buffer** (`core-buffer`) | slot, module -> metadata, pixels | `write_frame`, `read_frame`, `read_image`, `assemble_image` | no locks; slots are reused after 1000 pulses; two copies per frame | an image has the frames and pixels of its own pulse; judged good exactly if complete and of one frame index and daq_rec |
| **jf_assembler** | last pulse per module, retry round, lost count | `get_next_pulse_id`, main loop | modules run ahead, stop, miss pulses; queues drop | common pulses, in order, none skipped; gives up only with cause |
| **sf_stream** | image in hand, two sockets | main loop, `send` with its reduction factors | the pixels are fetched long after the announcement, twice; one header serves two messages; a client may come, leave or be full between two parts | whole messages in order, pixels of the right pulse, nobody holds up the public stream |
| **jf_buffer_writer** | open file, frame buffer, LATEST | `write`, `open_file`, `close_current_file` | death and restart, write errors, readers of unfinished files | every frame in its place and whole; LATEST finished |
| **sf_writer** readers and assembler | slots: occupant, modules missing, frames | `get_block`, `is_slot_free`, `process`, `is_slot_full`, `free_slot` | one thread per module, relaxed atomics, everyone waits by polling | whole blocks in order; no lost decrement; termination |
| **sf_writer** HDF5 | range, write indices, metadata buffers | alignment, `write`, `write_metadata` | block and step boundaries, positional correspondence | the images asked for, each with its row |
| **jf_live_writer** | per rank: open file, run, counter | `open_run`, `close_run`, `write_data`, `write_meta` | collective calls decided rank by rank | ranks meet; a closed run is handled |
| **jfj_udp_recv** | packet buffer, `m_frame_index`, frame | as jf_udp_recv | uninitialised index, batches thrown away, a ring made for one module | frames are pure; only a beginning is dropped, less than two batches; what is published is in the ring |
| statistics, JSON configuration, socket set-up, python tools, scripts | counters; none | printing, reading, `bind`/`setsockopt` | - | not modelled: no influence on the data, or pure I/O |

## 2. The modules

| Module | Models | Extends / instantiates |
|---|---|---|
| `UdpNetwork` | external: detector, network, kernel socket | - |
| `FrameReceiver` | what the two receivers have in common: the frame being made, the frame before, histories | `UdpNetwork` |
| `FrameUdpReceiver` | `jf-udp-recv/src/FrameUdpReceiver.cpp`, its `main.cpp` | `FrameReceiver` |
| `PacketBuffer` | `jfj-udp-recv/include/PacketBuffer.hpp`: container, two indices, operations | - |
| `JfjFrameUdpReceiver` | `jfj-udp-recv/src/JfjFrameUdpReceiver.cpp`, its `main.cpp` with what it stores and publishes | `FrameReceiver`, instantiates `PacketBuffer` |
| `ImageMetadata` | `RamBuffer::assemble_image` as a function: the image that the frames of a pulse make | - |
| `RamBuffer` | `core-buffer/src/RamBuffer.cpp`: slots, the two copies of a frame | `ImageMetadata` |
| `AssembleImage` | the loop of `RamBuffer::assemble_image`, one turn per step | `RamBuffer` |
| `ZmqPulseSyncReceiver` | `jf-assembler/src/ZmqPulseSyncReceiver.cpp` | - |
| `LiveImages` | jf_udp_recv's main loop, jf_assembler and sf_stream over one ring | instantiates `ZmqPulseSyncReceiver`, `RamBuffer` |
| `ZmqLiveSender` | sf_stream: `main.cpp` and `ZmqLiveSender.cpp`, one call of a socket per step | instantiates `RamBuffer` |
| `BufferFiles` | jf_buffer_writer, the ring before it, sf_writer's reader behind it | instantiates `RamBuffer` |
| `BlockFile` | what sf_writer promises: a file that grows by whole blocks, without threads | - |
| `ImageAssembler` | sf_writer's threads, one access to an atomic per step | instantiates `BlockFile` (refinement) |
| `OfflineFile` | sf_writer's main thread: range, verdicts, chunks, rows | `ImageMetadata` (what the live path says) |
| `LiveWriter` | jf_live_writer | - |
| `FrameUdpReceiver_proofs` | theorems about both receivers | `FrameUdpReceiver`, `JfjFrameUdpReceiver` |
| `Images_proofs` | theorems about the two makers of images | `AssembleImage`, `OfflineFile` |
| `ZmqPulseSyncReceiver_proofs`, `LiveImages_proofs`, `ZmqLiveSender_proofs`, `BufferFiles_proofs`, `ImageAssembler_proofs`, `LiveWriter_proofs` | theorems about the module in the name (`ImageAssembler_proofs`, `LiveImages_proofs`: the refinements too) | that module; `LiveImages_proofs` instantiates `ZmqPulseSyncReceiver_proofs` |
| `MC*` | constants for TLC | the module they are named after |

Names follow the code: an action has the name of the function or of the step of
it that it models, a variable the name of the member. Where a function is cut
into several steps, that is where another thread or process may come between:

- `ImageAssembler`: `is_slot_free` is a compare-exchange (`ClaimEmpty`,
  `ClaimOccupied`) and a load (`CheckStatus`); `process` copies frame by frame;
  `free_slot` is two stores. The atomics are relaxed, and the model is of the
  x86-64 build, where locked operations and stores keep their program order.
- `LiveImages`, `BufferFiles`: `write_frame` copies metadata, then pixels, then
  the main loop announces; readers copy likewise; the stream reads the pixels of
  one module per step, when they are sent (`read_image` only computes an address).
  In `LiveImages` `assemble_image` reads the metadata of a module where they are, not
  a copy: first the number of packets (`ReadCount`), then the other fields
  (`ReadFields`), each of which may be of the frame before or after a reuse of the slot.
  Two things are coarser than the code: the three loads of `pulse_id` at
  `RamBuffer.cpp:110`, `128` and `136` are one, and the `memcpy` of a frame's metadata
  in `write_frame` is one step.
- `ZmqPulseSyncReceiver`: one `zmq_recv` per step.
- `FrameUdpReceiver`, `JfjFrameUdpReceiver`: one pass of `process_packets` over a
  batch, which depends on nothing that others change.
- `OfflineFile`: a block is judged, its pixels are written image by image, then its
  metadata are copied; nothing runs beside it.
- `ZmqLiveSender`: each of the four `zmq_send` of an image; the copy of the pixels
  module by module, since the receivers go on storing meanwhile. `LiveImages`
  models what comes before sf_stream in detail and takes a message for one step,
  `ZmqLiveSender` the other way round.
- `LiveWriter`: the code between two blocking calls; a collective call is one
  step of all ranks.

The proofs extend two modules together, of which one carries a prefix where the
names would meet: `JfjInit`, `JfjNext`, `JfjSpec`, `jfj_process_packets` ... in
`JfjFrameUdpReceiver`, and `LoopInit`, `LoopNext`, `LoopSpec`, `loop_pc` in `AssembleImage`.

Definitions whose comment begins with "Fault:" (in `ImageAssembler`, those under
the heading of faults) are mutated forms of the definition that follows. They
are part of no specification: with one of them in the place of its original the
property named in `PROJECT.json` fails.

**Abstractions.** Pixels are the pulse or frame they belong to; packets carry
frame number and packet number; an address is a slot; file names are what
`get_filename` computes of a pulse, `pulse \div FILE_MOD`. Pulse ids are compared
modulo `PulseModulus` where the code subtracts unsigned numbers. Logging and
statistics are left out, with one exception: `WriterStats::print_stats` can end
its process. History variables (`received`, `frames`, `accepted`, `stored`,
`images`, `sent`, `written`, `taken`, `streamvis`, `live`) record what happened,
and five of them what went wrong where the code has no guard: `misread` (a
`read()` that failed or ended early, unnoticed), `failed` (the same of a `write()`), `torn` (a
frame the writer died on), `lapped` (a pulse whose slot was reused while a reader
still had to look it up), `lost` (a store-stream message a rank did not get). No
guard of the programs reads them; properties except exactly what they name.

**Refinement.** `ImageAssembler!ImplementsBlockFile` maps the threads to the
sequential job of `BlockFile`: its `file` is `written` with each block reduced to
the modules that are its own, `spoiled` is `misread`, `state` follows
`terminated` and the end of the writer. Four things are steps of the job: the writer's
hand-over of a block, a read error that nobody notices, the exception that ends
the process, and the end of the writer after its last block. Everything else -
claiming slots, counting down, copying, polling, freeing - stutters. The mapping is checked on the run `assembler` and proved in
`ImageAssembler_proofs`.

`LiveImages!SyncSpec` says that `LiveImages` implements `ZmqPulseSyncReceiver`:
storing the metadata of a frame and announcing it are the receiver's steps of
that module, the turns of `get_next_pulse_id` and the death on its exceptions are the
same actions, and pixels, images and the stream stutter. What is checked and proved of the
synchronisation with an arbitrary environment holds therefore with the receivers
that the system has. It is checked on the run `live` and proved in `LiveImages_proofs`.

## 3. The runs

| Run | What it asks | Instance |
|---|---|---|
| `assembler` | whole blocks in order; no lost or misplaced decrement; no slot shared by two blocks or with the writer; every job ends; the threads implement `BlockFile` | 2 readers, 2 slots, 3 blocks of 2 frames, reads that throw, and that fail or end early unnoticed |
| `frames` | frames = packet stream cut without batches; verdicts; a complete frame does not wait for the next | 3 frames of 2 packets, loss, delay, doubling, process started late, batches up to 3 |
| `sync` | common pulses, in order, none skipped; retries and losses accounted; synchronisation is reached | 3 modules, 4 pulses, queue of 2, offset and retry limits of 2 |
| `live` | right pixels, right verdict, death only of lapping, a synchronised pulse is sent; receivers and assembler implement `ZmqPulseSyncReceiver` | 2 modules, 3 pulses, 2 slots; complete and incomplete frames, and complete ones of another frame index or `daq_rec` than the other module's |
| `assemble_image` | the loop against the definition | every content of a slot of 3 modules |
| `files` | frames in place and whole, finished LATEST, final reads, announced is written | 4 pulses, 3 files, 2 slots, 1 death anywhere, both write errors |
| `stream` | messages are whole, in order, with their own pixels; the public stream waits for nobody | 2 modules, 3 pulses, 2 slots, live queue of 1, both reduction factors 2, a client that comes and goes |
| `jfj_loss` | pure frames, only beginnings dropped and less than two batches, what was published is in the ring | 2 frames of 6 packets, loss, batches up to 2, 2 slots that take 2 packets of a frame |
| `offline` | the images asked for, each with its row and verdict; the verdict of the live path; refusals with reason | all starts, stops and steps on 3 blocks of 2 pulses in 2 slots, 5 kinds of image of 2 modules at every pulse |
| `live_writer` | ranks meet; files are closed, and late enough | 2 ranks, queue of 1, 3 runs of 1 to 3 images, any of them given up, messages lost |

**Why the bounds are enough.** A ring is interesting when it wraps: 2 slots and
3 blocks wrap once, so that a reader waits for the slot of the block a turn
before its own, the writer frees it, and the other reader, on either block,
meets the new occupant; the proofs take over where the instance ends. Three
frames contain every pair of neighbours with one before; batches of up to three
packets cut frames of two everywhere and hold packets of two or three frames.
The frames of `jfj_loss` have 6 packets, more than the `2 * BatchSize - 1` = 3 that the receiver
may drop, so that a returned frame has a beginning that is missing and a rest that is not; the
second has the slot of the first and is rejected for its pulse, so that a bad frame
that left a trace in the ring would show. The proofs cover longer streams and other rings.
Four pulses exceed the offset limit, the queue and the retry limit of their run.
Two slots are lapped by three pulses. In `stream` a queue of one
message is full after one, and factors of 2 make every pair of shapes possible.
Two ranks with a queue of one message lose any subset of messages
independently. Three files let LATEST name a file that is
neither the first nor the last. Requests are exhaustive on three blocks: start,
stop and step meet block boundaries in all ways, a block lies wholly inside, and
the third uses the slot of the first again; `FullRate` = `BUFFER_BLOCK_SIZE` as
in the code, where both are 100. With both 2, though, an aligned start is never inside a
block when the step is above 1; there the proofs take over (`FileHasRequested`, `RowsOfImages`).
In `live` pulse 1, whose slot pulse 3 reuses, may have two frame indices, and pulse 2, whose
slot nobody reuses, two values of `daq_rec`: a disagreement with and without lapping.
The bounds that are not of the code are named
constants: `MaxDeaths`, `NRuns`, `LastPulse`, `RcvBuf`, `BatchSize`, the sets `Pulses`,
`Blocks`, `Requests`, and the last frame. No symmetry is used.

Two more runs expect a violation; section 4 has them. `offline_stop` is the instance of `offline`,
`jfj_noloss` has a network without faults.

**Deadlock** is checked for the offline writer (`ImageAssembler`, `OfflineFile`;
a finished or dead process stutters explicitly). The other specifications have
it off because they may really stop: the detector or the writer agent ends its
stream, or the process has died of an exception.

**Lapping.** The ring has no flow control: that nobody is a whole turn behind
(10 s in the code) is an assumption about speed that nothing enforces. The models
make no such assumption. A receiver may store at any time; what it overwrites too
early is recorded in `lapped`, and the properties say what is lost with it and
that nothing else is.

**Fairness.** Weak fairness per thread or process, of its whole step, and none
of the environment: the threads of sf_writer poll with a sleep and are
preemptively scheduled; the receivers, jf_assembler, sf_stream, jf_buffer_writer
are endless loops over blocking calls, enabled while there is something to take;
a receiver that has begun to store a frame goes on to announce it. In
`ZmqLiveSender` only sf_stream is fair: that `StreamvisServed` holds without
fairness of the client is the point of it. The network,
the detector, the writer agent, the client and the dying of a process have no fairness. A
collective call of `LiveWriter` returns once all ranks are in it.

## 4. Findings

Two runs expect a violation; each is something a comment, a README or a test
says otherwise (quoted with lines in `PROJECT.json`).

| Run | Property | The code does |
|---|---|---|
| `jfj_noloss` | `AllPacketsInFrame` | without any loss the beginning of a frame is thrown away, in general up to `2 * BatchSize - 1` packets of it |
| `offline_stop` | `StopAlignedDown` | `sf-writer/src/main.cpp:92` lowers the stop by the rest of the start, which was aligned before and has none: a stop the steps do not reach is refused by the constructor, after the threads were started |

`RequestedImages`, in the run `offline`, says what holds of requests that end on a multiple of the
step. Other places where the code differs from what is said of it, or where nothing is said, are
part of the models and show in how the properties are worded:

- **The rank of a writer.** `jf-live-writer/src/main.cpp:36` takes `MPI_Comm_size` for
  `MPI_Comm_rank`: `i_image % n_writers` never equals it and it is never 0, so that no rank
  writes an image or its metadata, where `jf-live-writer/README.md:23-25` has each process decide
  by its rank and rank 0 write the metadata. `LiveWriter` does the same: its `data` and
  `metadata` stay empty, and no property speaks of them. The collective calls and the runs
  do not depend on it.
- **Block 0.** `IA_EMPTY_SLOT_VALUE` is 0, also the id of the block of pulses 0 to
  99. With `StartBlock = 0` in `MCImageAssembler_all.cfg`, `StatusCountsMissing` and
  `WrittenBlocksWhole` fail: a claimed slot still looks empty, a reader that is ahead claims it
  for a later block, and the slot counts as full with a module missing. The test
  `sf-writer/test/test_ImageAssembler.cpp:12` uses block 0 as any other. The
  theorems assume `StartBlock # EMPTY` for this reason.
- **The good flag.** `sf-stream/README.md:129` says of `is_good_frame` "true if all packets for
  this frame are present". `RamBuffer.cpp:141-147` calls an image bad also where nothing is missing, if
  its modules' frames differ in `frame_index` or `daq_rec`. `GoodMeansComplete` has
  both conditions: unless the slot was lapped, an image is good exactly if all frames are complete
  and agree.
- **Images without a complete frame** get pulse id 0 (`RamBuffer.cpp:153`), and
  sf_stream sends the pixels of slot 0 with them; `jf-assembler/README.md:97-99`
  says they are assembled like others. `PixelsOfThePulse` and `PulseSent` leave
  these images out.
- **Failed reads and writes.** `n_bytes < sizeof(...)` compares signed with
  unsigned (`BufferBinaryReader.cpp:61`, `BufferBinaryWriter.cpp:64`): the -1 of
  a failed call passes, although the exception behind it speaks of exactly this
  case. A read of a frame or more but less than a block passes likewise, since the size
  compared with is that of a frame. Both leave frames of the previous block of that module in
  the image (`misread`), a failed write leaves a hole (`failed`).
- **`PULSE_OFFSET_LIMIT`** is 100, the comment above it
  (`jf-assembler/include/assembler_config.hpp:6`) says 1000.
- **The offset limit itself** has no property: one that says when the exception is thrown
  would repeat the only test there is. `RetriesJustified` is about the retry limit.
- **Stale metadata in the file.** `get_metadata_buffer` leaves the frame index and `daq_rec` of
  an image without a complete frame as an earlier block left them in the slot. Nothing says what they
  should be; `RowsDescribeImages` says nothing of them.
- **Reduced and missing images.** `sf-stream/README.md:105-108` and `:138-150` call the stream for
  data processing "full data full meta" and "a complete copy of the detector image stream". By its reduction
  factors an image may go out with empty data, and its sends do not block, so that images are
  missing when the client is not there or full. `MessagesWhole` says that each message is whole in
  itself and that this stream is a subsequence of the images, in order.
- **Division by zero images.** `WriterStats.cpp:54` divides by the images the rank
  wrote; where the division traps the rank dies. `DivisionTraps` has both
  outcomes, `RunsClosed` excepts a dead rank.
- **`daq_rec`.** The live path calls an image bad whose modules differ in
  `daq_rec`, the offline assembler (`ImageAssembler.cpp:158`) does not look.
  `VerdictsAgree` says that this is the only difference between the two verdicts.
- **Lost store-stream messages.** A rank that misses the first message of a run
  is not in the collective call in which the others then wait, for ever;
  `jf-live-writer/README.md:104-106` says such messages are ignored. A rank that
  misses the last one closes the file with the first message of the next run.
  `CollectivesMatch` holds as long as first messages reach all ranks or none.
- **JungfrauJoch frames.** The main loop sets `is_good_image` of what it publishes
  whatever packets were lost; `write_frame` stores `MODULE_N_BYTES`, the first 128
  of the 4096 packets of a frame; and nobody in `src/` subscribes to the address
  it publishes on, "jungfraujoch". `PublishedInRing` says what the ring does hold.

## 5. What is proved

Checked by TLAPS, for every value of the constants that satisfies the named
assumptions of the modules:

- **`TypeCorrect`**: `TypeOK` of `ImageAssembler`, from `TypeInv`, which adds that
  a reader that is not done has a block of the range.
- **`BlocksWhole`, `StatusExact`, `SlotsOwned`**: `WrittenBlocksWhole`,
  `StatusCountsMissing`, `SlotOwnership` of `ImageAssembler`, for any number of
  reader threads, slots, frames and blocks and any read errors, under one
  assumption that section 4 shows to be necessary: `StartBlock # EMPTY`.
- **`ThreadsImplementBlockFile`**: the refinement of section 2, under the same
  assumption. It is where the atomics, the counters and the two arrays of slots
  are shown to amount to a loop over blocks.
- **`InPlace`, `WholeFrames`, `LatestDone`, `FinalReads`**: `FramesInPlace`,
  `FramesWhole`, `LatestIsDone`, `ReadsAreFinal` of `BufferFiles`, for any finite
  set of pulses, any `FILE_MOD`, ring and queue, any write errors and any number
  of deaths.
- **`CommonAndIncreasing`, `NoneSkipped`, `RetriesWithCause`, `LossesAccounted`**:
  `ResultsCommonAndIncreasing`, `NoCommonPulseSkipped`, `RetriesJustified` and
  `LostCounted` of `ZmqPulseSyncReceiver`, all its invariants, for any number of
  modules, any finite set of pulses, any queue length and any limits.
- **`OwnPixelsSent`, `WholeMessages`**: `PixelsOfTheImage` and `MessagesWhole` of
  `ZmqLiveSender`, for any number of modules, slots and pulses, any queues,
  reduction factors and client.
- **`LiveSynchronises`, `PixelsAreOfThePulse`, `GoodIsComplete`, `DiesOfLapping`,
  `LiveTypes`**: `SyncSpec`, `PixelsOfThePulse`, `GoodMeansComplete`,
  `DeadOnlyIfLapped` and `TypeOK` of `LiveImages`, all its invariants and the
  refinement, for any number of modules and slots, any finite set of pulses, any
  queues and limits, any order of the processes, and frames of any index, `daq_rec` and number
  of packets (`ModuleFrames`).
- **`ClosedBehindImages`, `SameCollectives`, `WriterTypes`**: `ClosedAfterImages`,
  `CollectivesMatch` and `TypeOK` of `LiveWriter`, all its invariants,
  for any number of ranks, runs and images, any queues and any messages lost.
- **`StreamCut`, `BadOnlyAtGaps`**: `FramesMatchStream` and `BadIffGap` of
  `FrameUdpReceiver`, all its invariants, for any number of frames and of packets per
  frame, any batches, any pulse ids that increase with the frame and fit their type, and
  any faults of the network.
- **`JfjInvariant`, `JfjRing`, `JfjFramesArePure`, `JfjDropsLittle`**: `PublishedInRing`,
  `FramesPure` and `DropsOnlyBeginning` of `JfjFrameUdpReceiver`, all its invariants that the
  code keeps, for any number of frames and of packets per frame, any batches and ring, any
  value that `m_frame_index` may start with, and any faults of the network.
- **`LossesInOrder`, `JfjLossesInOrder`**: a network that only loses packets delivers in
  order. `BadIffGap`, `FramesPure` and `DropsOnlyBeginning` have `InOrder` as their premise,
  which is what the README of jf_udp_recv expects of the network; these theorems say
  that it holds in every behaviour in which nothing is delayed or doubled.
- **`LoopInvariant`, `LoopComputesImage`**: the loop of `assemble_image` returns
  what an image is defined to be (`ImageMetadata!AssembledImage`), for any number of
  modules and any metadata.
- **`FileInvariant`, `FileHasRequested`, `RowsOfImages`, `SameVerdicts`, `BuffersSuffice`**:
  `RequestedImages`, `RowsDescribeImages`, `VerdictsAgree` and `BuffersFit` of `OfflineFile`,
  all its invariants, for any request, block size, number of slots, number of modules and any
  frames in the files. Two assumptions relate the constants: `BlockOfRate`, that a block has a
  whole number of the largest steps (both are 100 in the code), without which the
  steps, which are counted within a block, would not meet at its end; and `FilesThere`, that there
  are files of the blocks of a request, since sf_writer dies of the first that is missing.

**The argument for the assembler.** None of the three properties is inductive.
`IInv` says how far apart the threads can be. `OccupantsInWindow`: a slot's
occupant is at most one turn of the ring ahead of the writer.
`DeliveredOccupy`: a block of which some module is delivered, or being
delivered, occupies its slot until it is freed; with the first, that keeps
different blocks of the window in different slots (`SameSlot`, by modular
arithmetic) and keeps a reader from getting more than a turn
ahead (`ReadersWithinTurn`). `StatusOfWindow`: the status of every slot of the
window counts the modules missing in its block, also for blocks nobody has
claimed yet, which is why `free_slot` has to store the status first.
`ReadersAhead`: while the writer serves a block no reader is on it.
`DeliveredInSlot` and `WriterWhole` carry the contents to the file. There is one
lemma per action (readers' private steps and the writer's first three steps
together) and `IInvStep` combines them.

**The refinement.** Given `IInv`, three steps need an argument. When the writer
hands a block over, `WriterWhole` gives its number and its metadata, `ReadersAhead`
that all modules are delivered, and `DeliveredInSlot` that the pixels of those not
misread are its own: the guard of `AppendBlock`. `ReadersAhead` also keeps a read
error away from blocks the file has (`Spoil`), and an exception from a closed file
(`Abort`).

**The argument for the files.** The invariant of `BufferFiles_proofs` comes in
layers, each proved with those before it. *Types.* *Order* (`Ordered`): what waits
in the queue is increasing, behind the pulse in hand, and what is being stored is
behind what was announced. *Ring* (`RingKeeps`): what is pending has its pixels in
its slot unless it is in `lapped`; without the second conjunct, that the frame
being stored shares no slot with it, the step that stores the pixels would break
it. *Files* (`FilesInv`): the frame in hand is the one asked for and belongs into
the open file, files are opened in the order of their pulses (`FilesOrdered`, from
which `LatestIsDone`), and metadata are written before pixels. *Reader*
(`ReadsInv`): what was read behind the writer equals what the file has.

**The argument for the synchronisation.** *Types*; *sockets* (`Queues`): what waits
is increasing, behind what was read, and all that was accepted since; *loop*
(`Loop`): which sockets were read since the last result, and that a round's target
was reached by a module; *results*. `NoCommonPulseSkipped` alone is not inductive,
since a module may be read past a pulse that others still have to announce. The
strengthening is `PassedOver`: a pulse that some module was read past is one that
some module, perhaps another, has skipped for good, having read beyond it without
ever having accepted it; such a pulse is common no more. *Rounds*: the target of a
round that ends without a result was announced by some module and, by `PassedOver`,
skipped by another, so that every such round adds a pulse to `Skipped`; it is a new
one, since those of the earlier rounds are below the target. *Losses*: in a round the
count so far plus what a module has discarded in it lies between what that module
discarded since the last result and what all modules discarded below where that
module is; the last bound is what the maximum taken at the end of a round needs.

**The argument for the live stream.** *Types*; *place in `send()`* (`InHand`): the
header has the shape of the image in hand, and a part that waits for its rest has a
client and is the header, so that no message begins with data; *ring* (`RingKeeps`);
*messages* (`Sent`); *order* (`Order`): to streamvis went all images received but the
one in hand, and the messages to the client have increasing places among them.

**The argument for the live path.** `LiveInv` has the invariants of
`ZmqPulseSyncReceiver` under the mapping of `SyncSpec`: `LiveImages_proofs`
instantiates `ZmqPulseSyncReceiver_proofs` and uses its step lemmas, so that nothing
about sockets, rounds or losses is proved twice. What is its own is the ring. What a
module stores comes after what it announced (`AllStoring`); what is announced, being
asked for, or on its way to the stream has its metadata and pixels in its slot unless its
pulse is in `lapped`, and the frame being stored shares no slot with such a pulse, which
is what the second half of a store needs (`RingKeeps`). The assembler only
looks up a pulse of the synchronisation, which every module has announced: if a slot
does not hold it, it was lapped (`Read`), and so the image is right (`ImagesSound`) or the
exception has its cause. That an image called good is complete needs more, since it is claimed
of lapped slots too, where the fields read may be of two frames: a slot never has an older frame
than was stored for it (`Buffered`), so that between the number of packets and the other fields
the pulse of a slot only grows (`Reading`); if the pulse read is the one asked for, the frame that was
seen to be whole was of it. The stream copies pixels by pulse id alone; `Copied` follows
them module by module.

**The argument for the parallel writer.** The ranks share nothing but the stream, so
the invariant says what the stream makes of them. *Messages*: what waits for a rank is
in the order of the stream, behind what it handles, and was not lost. *File*: it is the
same for all ranks, since they open and close it together (`Files`). `AllBegun` is the
centre: every rank has the first message of a run behind it, or a message of a later run,
once its file is open or closed. A rank that gets the first message of a run therefore
has another run open or none, and closes and creates; and a rank at the last message of
a run, or at the first of another, is past every image of the file it closes
(`ClosedAfterImages`, which also needs that nothing more of a closed run can be
published, `ClosedOver`). `FirstsHandled` accounts for first messages: whoever got one has
it waiting, is at it, or has the run's file. Two ranks that wait to create different
files would be a rank at the first message of the earlier run, and one that is past it
without all having begun it: it can only have lost the message, and the premise of
`CollectivesMatch` excludes that one lost it and the other did not.

**The argument for the module receiver.** `FramesMatchStream` speaks of all ends of
the stream and of how many there are before each; that is what a reader wants to know and
not what a pass over a batch preserves. The invariant therefore has a witness: a *cut*,
the increasing sequence of the places where the returned frames end (`CutOf`), behind
whose last is the frame in progress (`OpenIn`). `BatchInv` says that what is left of a
batch is exactly what was received last (`EndOf`), so that a pass over a batch from its
offset and a pass over a new one are the same step, the stream having grown first
(`LongerCut`, `PassCuts`, `PassInv`). It also says that no frame is in progress while a
rest is kept: a batch that is not used up has ended one. At the end, the cut of an
invariant state is the enumeration of the ends (`EndsCounted`), since it leaves none out.
For the verdicts (`Verdicts`) each frame is compared with the one returned before it;
when the stream is in order, the frames before a cut have smaller numbers than those
behind it (`OrderedStream`), so that the frame before is the neighbour exactly if that one
was received at all; `UnsignedStep` is the arithmetic of the pulse ids.

**The argument for the JungfrauJoch receiver.** Its `PacketBuffer` is an array with two
indices, `reset` when it is used up or given up. `JfjBufferInv` says that what is unread in it
is exactly what was received last, so that a pass over a rest and a pass over a new batch are
again the same step (`JfjPass`), and the packets before the unread ones are gone
(`Consumed`). That is enough for `PublishedInRing`, whatever the network does. In a stream in order
(`JfjStreamInv`) every returned frame is a *part* of the stream: the packets from one position to
another, all of one frame number, and each part begins behind the end of the one before
(`ReturnedParts`); the frame in progress is the next part (`OpenPart`). The bound on what is
dropped is about `m_frame_index`, which nobody initialises and which is corrected only when a
packet of another frame is met. `Awaits` says how far it can be behind between two frames: packets that
are gone and lie a batch back have numbers up to the index, so that a wrong index is found
out within a batch of the new frame; `BeginsAt`, that a frame that begins at a position
has no packet two batches before it. The one batch is the one in which the frame began
behind an older one, whose rest is reset with it; the other is the one in which the
index is corrected.

**The argument for the offline file.** Images are picked by their index in a block, rows by
their distance from the start, and both meet in the file by position only. `FileInv` says where
each is. *Range* (`AlignedRange`): the start is the first multiple of the step in the request,
and the stop is what was asked for. *Blocks* (`BlocksInTurn`): the pulse after the kept metadata
is the first that `write()` copies of the next block, and it is the stop's successor after the last;
`BlockBounds` computes from it what `write()` does in a first, inner and last block, that its two tests do not throw
and that its unsigned differences are not negative. *Chunks* (`ChunksInStep`): chunk `k` is of
pulse `start + (k - 1) * step`, and the pulse of the image that is next is at most a step behind the last;
since a block begins at a multiple of the step, the index in the block is one exactly if the pulse is
(`SumOfMultiples`), and the next multiple behind the last chunk is the next chunk
(`ChunksGoOn`). *Metadata* (`MetadataInPlace`): element `j` of the buffers describes pulse
`start + j - 1`, whatever an earlier block left in the slot. A closed file then has as many
chunks as `get_n_pulses_in_range` computed, and row `k` is of element
`(k - 1) * step + 1`, which describes the pulse of chunk `k` (`ClosedFile`). What a
row says of the frames is compared with `AssembledImage` in `SameVerdictOf`.

**Only model-checked:** the liveness properties, since fairness and `ENABLED` are outside the
prover's reach: `JobEnds`, `CompleteFrameReturned`, `CommonPulseReturned`, `PulseSent`,
`AnnouncedIsWritten`, `StreamvisServed`, `RunsClosed`. Every invariant that a passing run checks is
proved, and so are both refinements. No induction over data is needed: sequences are
reasoned about by index, and least elements come from the well-foundedness of the numbers.

## 6. What is not modelled, and why

- Statistics, usage messages, logging, JSON configuration, socket options,
  `recvmmsg`, creation of shared memory: I/O without influence on the order of
  steps, or behaviour of libraries.
- Of the JSON header of a live message all but the image and the shape.
- Weak memory: relaxed atomics could be reordered on other processors.
- HDF5 errors and layout, and what MPI does when a rank has died, beyond hanging.
- `sf-stream/src/ZmqPulseSyncReceiver.cpp`, which `main()` does not use: the same
  text as the copy in jf-assembler but for the configuration header it includes.

## 7. Plan

Done, in this order: the offline assembler (the only shared-memory concurrency
inside one program) with its proofs; the module receiver; the synchronisation;
the ring and the live path; the loop of `assemble_image` with its proof; the
binary files; the JungfrauJoch receiver; the offline file; the parallel writer;
the live sender; the abstract `BlockFile` and its refinement; lost messages of the
store stream; `daq_rec`; the proofs about the binary files, the synchronisation,
the live sender, the live path, the parallel writer, both receivers and the offline file.

Left:

1. Liveness has no proof: it would need a prover that knows fairness and `ENABLED`.
2. jfj_udp_recv composed with a stream behind it, should `src/` get a subscriber.
