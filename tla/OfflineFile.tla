----------------------------- MODULE OfflineFile -----------------------------
(***************************************************************************)
(* What sf_writer puts into its HDF5 file: the requested range of pulses   *)
(* is aligned with the step, block after block get_metadata_buffer names   *)
(* and judges the images, JFH5Writer writes the pixels of every step-th    *)
(* pulse at once and keeps the metadata of every pulse, of which the       *)
(* destructor writes every step-th.  Pixels and metadata of an image meet  *)
(* again in the file, by position only.                                    *)
(*                                                                         *)
(* This is the main thread; ImageAssembler shows that the blocks it is     *)
(* given are whole.                                                        *)
(***************************************************************************)
EXTENDS Integers, Sequences, ImageMetadata

CONSTANTS
    BUFFER_BLOCK_SIZE,
    FullRate,        \* 100, the rate that pulse_id_step has to divide
    WRITER_IA_N_SLOTS,
    Blocks,          \* blocks there are files of
    ImageContents,   \* what the frames of an image may be: module -> quality
    Requests         \* <<start_pulse_id, stop_pulse_id, pulse_id_step>> of the command line

Index   == 0 .. BUFFER_BLOCK_SIZE - 1
Pulse   == {b * BUFFER_BLOCK_SIZE + i : b \in Blocks, i \in Index}
Quality == {"hole", "incomplete", "complete", "shifted", "recoded"}

ASSUME OfflineAssumption ==
    /\ BUFFER_BLOCK_SIZE \in Nat \ {0} /\ FullRate \in Nat \ {0}
    /\ WRITER_IA_N_SLOTS \in Nat \ {0}
    /\ Blocks \subseteq Nat \ {0}
    /\ ImageContents \subseteq [Module -> Quality]
    /\ Requests \subseteq Pulse \X Pulse \X (Nat \ {0})

\* A missing file ends the process while it reads: BufferBinaryReader.
ASSUME FilesThere ==
    \A r \in Requests : (r[1] \div BUFFER_BLOCK_SIZE) .. (r[2] \div BUFFER_BLOCK_SIZE) \subseteq Blocks

\* Both are 100: a block has a whole number of the largest steps.
ASSUME BlockOfRate == BUFFER_BLOCK_SIZE % FullRate = 0

VARIABLES
    content,       \* pulse of the requested blocks -> what its frames in the buffer files are
    asked,         \* the request
    start_pulse_id, stop_pulse_id, pulse_id_step,
    pc,
    block_id,
    i_image,       \* in write(): the image of the block whose chunk is next
    meta_blocks,   \* meta_buffer_: slot -> the image metadata of its block
    images,        \* the image dataset: the pulses the chunks are of
    b_metadata,    \* b_pulse_id_, b_frame_index_, b_daq_rec_, b_is_good_frame_
    rows           \* the metadata datasets

rangeVars == <<start_pulse_id, stop_pulse_id, pulse_id_step>>
fileVars  == <<images, b_metadata, rows>>
vars == <<content, asked, rangeVars, pc, block_id, i_image, meta_blocks, fileVars>>

\* The pulses in the blocks that the request touches.
AskedPulses ==
    {p \in Pulse : p \div BUFFER_BLOCK_SIZE \in
                      (asked[1] \div BUFFER_BLOCK_SIZE) .. (asked[2] \div BUFFER_BLOCK_SIZE)}

\* Memory that was never written.
Unset == [pulse_id |-> -1, frame_index |-> -1, daq_rec |-> -1, is_good_image |-> -1]

Init ==
    /\ asked \in Requests
    /\ content \in [AskedPulses -> ImageContents]
    /\ start_pulse_id = asked[1] /\ stop_pulse_id = asked[2] /\ pulse_id_step = asked[3]
    /\ pc = "align"
    /\ block_id = 0
    /\ i_image = 0
    /\ meta_blocks = [s \in 0 .. WRITER_IA_N_SLOTS - 1 |-> [i \in Index |-> Unset]]
    /\ images = <<>> /\ b_metadata = <<>> /\ rows = <<>>

-----------------------------------------------------------------------------
(* main() and the constructor of JFH5Writer.                                *)

\* Fault: the start is moved down.
AlignStartDown ==
    /\ pc = "align"
    /\ start_pulse_id' = start_pulse_id - (start_pulse_id % pulse_id_step)
    /\ stop_pulse_id' = stop_pulse_id
    /\ pc' = "construct"
    /\ UNCHANGED <<content, asked, pulse_id_step, block_id, i_image, meta_blocks, fileVars>>

\* The start goes up to a multiple of the step; the stop goes down by the rest of
\* the start that was aligned already.
Align ==
    /\ pc = "align"
    /\ start_pulse_id' = IF start_pulse_id % pulse_id_step = 0 THEN start_pulse_id
                         ELSE start_pulse_id + pulse_id_step - (start_pulse_id % pulse_id_step)
    /\ stop_pulse_id' = IF stop_pulse_id % pulse_id_step = 0 THEN stop_pulse_id
                        ELSE stop_pulse_id - (start_pulse_id' % pulse_id_step)
    /\ pc' = "construct"
    /\ UNCHANGED <<content, asked, pulse_id_step, block_id, i_image, meta_blocks, fileVars>>

start_block == start_pulse_id \div BUFFER_BLOCK_SIZE
stop_block  == stop_pulse_id \div BUFFER_BLOCK_SIZE

\* Fault: a range of one pulse is refused.
RefuseOnePulse ==
    /\ stop_pulse_id > start_pulse_id
    /\ FullRate % pulse_id_step = 0
    /\ start_pulse_id % pulse_id_step = 0
    /\ stop_pulse_id % pulse_id_step = 0

\* What get_n_pulses_in_range() accepts.
RangeAccepted ==
    /\ stop_pulse_id >= start_pulse_id
    /\ FullRate % pulse_id_step = 0
    /\ start_pulse_id % pulse_id_step = 0
    /\ stop_pulse_id % pulse_id_step = 0

n_images == 1 + (stop_pulse_id \div pulse_id_step) - (start_pulse_id \div pulse_id_step)
n_total_pulses == stop_pulse_id - start_pulse_id + 1

\* The constructor throws what get_n_pulses_in_range() throws: nothing catches it.
Construct ==
    /\ pc = "construct"
    /\ pc' = IF RangeAccepted THEN "meta" ELSE "refused"
    /\ block_id' = start_block
    /\ UNCHANGED <<content, asked, rangeVars, i_image, meta_blocks, fileVars>>

-----------------------------------------------------------------------------
(* A block of the loop in main().                                           *)

\* The frame of module m at pulse p, whole but for a hole, which was never written by
\* jf_buffer_writer, and for a part of the packets; frame_index or daq_rec may differ
\* from that of the other modules.
FrameMeta(p, m) ==
    LET q == content[p][m] IN
    IF q = "hole" THEN [pulse_id |-> 0, frame_index |-> 0, daq_rec |-> 0, n_recv_packets |-> 0]
    ELSE [pulse_id       |-> p,
          frame_index    |-> IF q = "shifted" THEN p + 1 ELSE p,
          daq_rec        |-> IF q = "recoded" THEN 1 ELSE 0,
          n_recv_packets |-> IF q = "incomplete" THEN NPackets - 1 ELSE NPackets]

Frames(p) == [m \in Module |-> FrameMeta(p, m)]
CompleteAt(p) == Complete(Frames(p))

\* Fault: incomplete frames are passed over.
GoodIfAgreed(p, first) ==
    \A m \in CompleteAt(p) : FrameMeta(p, m).frame_index = first.frame_index

\* daq_rec is not compared.
IsGoodImage(p, first) ==
    \A m \in Module : /\ m \in CompleteAt(p)
                      /\ FrameMeta(p, m).pulse_id = first.pulse_id
                      /\ FrameMeta(p, m).frame_index = first.frame_index

\* The image as its first complete frame has it.
NamedBy(p, first) ==
    [pulse_id |-> first.pulse_id, frame_index |-> first.frame_index, daq_rec |-> first.daq_rec,
     is_good_image |-> IF IsGoodImage(p, first) THEN 1 ELSE 0]

\* Fault: the image is named by its last complete frame.
NamedByLast(p, old) ==
    IF CompleteAt(p) = {} THEN [old EXCEPT !.pulse_id = 0, !.is_good_image = 0]
    ELSE NamedBy(p, FrameMeta(p, Max(CompleteAt(p))))

\* Without a complete frame the image has no pulse id, and the frame index and daq_rec
\* that the slot had before.
ImageOf(p, old) ==
    IF CompleteAt(p) = {} THEN [old EXCEPT !.pulse_id = 0, !.is_good_image = 0]
    ELSE NamedBy(p, FrameMeta(p, Min(CompleteAt(p))))

BlockSlot(b) == b % WRITER_IA_N_SLOTS
block_start_pulse_id == block_id * BUFFER_BLOCK_SIZE
block_stop_pulse_id  == block_start_pulse_id + BUFFER_BLOCK_SIZE - 1

GetMetadataBuffer ==
    /\ pc = "meta"
    /\ meta_blocks' = [meta_blocks EXCEPT ![BlockSlot(block_id)] =
                         [i \in Index |-> ImageOf(block_start_pulse_id + i, @[i])]]
    /\ pc' = "write"
    /\ UNCHANGED <<content, asked, rangeVars, block_id, i_image, fileVars>>

\* JFH5Writer::write(): the part of the block that is in the range.
n_images_offset ==
    IF start_pulse_id > block_start_pulse_id THEN start_pulse_id - block_start_pulse_id ELSE 0

\* Fault: the stop itself is left out.
CopyBeforeStop ==
    BUFFER_BLOCK_SIZE - n_images_offset
      - (IF stop_pulse_id < block_stop_pulse_id THEN block_stop_pulse_id - stop_pulse_id + 1 ELSE 0)

n_images_to_copy ==
    BUFFER_BLOCK_SIZE - n_images_offset
      - (IF stop_pulse_id < block_stop_pulse_id THEN block_stop_pulse_id - stop_pulse_id ELSE 0)

\* Fault: off by one, the image before every step.
EveryStepThIndex(i) == (i + 1) % pulse_id_step = 0

InStep(i) == i % pulse_id_step = 0

\* The tests throw; they are of unsigned numbers, so a difference below 0 would pass.
BeginWrite ==
    /\ pc = "write"
    /\ pc' = IF n_images_offset > BUFFER_BLOCK_SIZE \/ n_images_to_copy = 0 THEN "threw" ELSE "chunks"
    /\ i_image' = n_images_offset
    /\ UNCHANGED <<content, asked, rangeVars, block_id, meta_blocks, fileVars>>

ChunksDone == i_image = n_images_offset + n_images_to_copy

\* One turn of the loop over the images of the block: the next chunk, or nothing.
WriteChunk ==
    /\ pc = "chunks" /\ ~ChunksDone
    /\ images' = IF InStep(i_image) THEN Append(images, block_start_pulse_id + i_image) ELSE images
    /\ i_image' = i_image + 1
    /\ UNCHANGED <<content, asked, rangeVars, pc, block_id, meta_blocks, b_metadata, rows>>

\* The four memcpy; then the next block.
CopyMetadata ==
    /\ pc = "chunks" /\ ChunksDone
    /\ b_metadata' = b_metadata
         \o [k \in 1 .. n_images_to_copy |-> meta_blocks[BlockSlot(block_id)][n_images_offset + k - 1]]
    /\ block_id' = block_id + 1
    /\ pc' = IF block_id = stop_block THEN "close" ELSE "meta"
    /\ UNCHANGED <<content, asked, rangeVars, i_image, meta_blocks, images, rows>>

\* The destructor: the hyperslab of every step-th element of the metadata buffers,
\* whose elements from meta_write_index_ on were never set.
WriteMetadata ==
    /\ pc = "close"
    /\ rows' = [k \in 1 .. n_images |->
                  LET i == (k - 1) * pulse_id_step + 1 IN
                  IF i <= Len(b_metadata) THEN b_metadata[i] ELSE Unset]
    /\ pc' = "closed"
    /\ UNCHANGED <<content, asked, rangeVars, block_id, i_image, meta_blocks, images, b_metadata>>

Ended == pc \in {"closed", "refused", "threw"} /\ UNCHANGED vars

Next ==
    \/ Align \/ Construct
    \/ GetMetadataBuffer \/ BeginWrite \/ WriteChunk \/ CopyMetadata
    \/ WriteMetadata \/ Ended

Spec == Init /\ [][Next]_vars

-----------------------------------------------------------------------------
(* Properties. *)

\* Why there may be no file: the step does not divide the rate, or there is nothing to write.
Refusable == FullRate % asked[3] # 0 \/ \A p \in asked[1] .. asked[2] : p % asked[3] # 0

\* sf-writer/README.md: the file has an image for every pulse from the start to the
\* stop in steps of pulse_id_step, in order: none is left out or doubled where two
\* blocks meet.  A request that ends on a multiple of the step is refused only if the
\* step does not divide the rate or there is no multiple of the step in the request.
RequestedImages ==
    /\ pc = "closed" =>
          LET pulses == {p \in Pulse : /\ asked[1] <= p /\ p <= asked[2]
                                       /\ p % pulse_id_step = 0} IN
          /\ {images[k] : k \in 1 .. Len(images)} = pulses
          /\ \A k \in 2 .. Len(images) : images[k - 1] < images[k]
    /\ pc = "refused" /\ asked[2] % asked[3] = 0 => Refusable

\* sf-writer/README.md:40-42 says that a stop that the steps do not reach "will not be
\* included in the final file", and the comment at main.cpp:87 that it is aligned down:
\* such a request is refused for no other reasons than the rest.
StopAlignedDown == pc = "refused" => Refusable

\* Row k of the metadata describes image k of the pixels, although the one is picked
\* by its index in a block and the other by its distance from the start, and although
\* the slot holds what an earlier block left: the pulse id is that of the image or 0,
\* the frame index is one a module has for it, and good is what is whole.
RowsDescribeImages ==
    pc = "closed" =>
        /\ Len(rows) = Len(images)
        /\ \A k \in 1 .. Len(rows) :
              LET p == images[k] IN
              /\ rows[k].pulse_id = IF CompleteAt(p) = {} THEN 0 ELSE p
              /\ CompleteAt(p) # {} =>
                    \E m \in CompleteAt(p) : rows[k].frame_index = FrameMeta(p, m).frame_index
              /\ rows[k].is_good_image = 1 <=>
                    \/ \A m \in Module : content[p][m] = "shifted"
                    \/ \A m \in Module : content[p][m] \in {"complete", "recoded"}

\* The file and the live stream, whose images are made by RamBuffer::assemble_image, give
\* the same account of an image: its name and whether it is good, for any mixture of
\* frames.  They differ on two things: an image good but for daq_rec, which the file
\* takes for good, and what an image without a complete frame is called besides pulse 0.
VerdictsAgree ==
    pc = "closed" => \A k \in 1 .. Len(rows) :
        LET p       == images[k]
            live    == AssembledImage(Frames(p))
            recoded == \E m, n \in Module : FrameMeta(p, m).daq_rec # FrameMeta(p, n).daq_rec
        IN
        /\ rows[k].pulse_id = live.pulse_id
        /\ live.pulse_id # 0 => rows[k].frame_index = live.frame_index /\ rows[k].daq_rec = live.daq_rec
        /\ live.is_good_image => rows[k].is_good_image = 1
        /\ rows[k].is_good_image = 1 => live.is_good_image \/ recoded

\* write() neither meets a block it does not expect nor computes a negative number of
\* images, which is unsigned in the code, and it fills the metadata buffers without
\* going beyond them.
BuffersFit ==
    /\ pc # "threw"
    /\ pc \in {"meta", "write", "chunks"} => block_id \in Blocks /\ Len(b_metadata) < n_total_pulses
    /\ pc = "write" => n_images_to_copy >= 0
    /\ pc = "chunks" => Len(b_metadata) + n_images_to_copy <= n_total_pulses
    /\ pc \in {"close", "closed"} => Len(b_metadata) = n_total_pulses
=============================================================================
