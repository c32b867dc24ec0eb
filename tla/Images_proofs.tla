---------------------------- MODULE Images_proofs ----------------------------
(***************************************************************************)
(* The two makers of images.  assemble_image computes the image it is      *)
(* meant to, for any number of modules and any content of the slot; and    *)
(* sf_writer puts the images asked for into its file, each with its own    *)
(* metadata, for any range and step, any size of blocks and any frames.    *)
(***************************************************************************)
EXTENDS AssembleImage, OfflineFile, WellFoundedInduction, TLAPS

USE ImageAssumption, RamBufferAssumption, LoopAssumption

\* The least element of a set of integers, named by what it is.
LEMMA MinIsLeast ==
    ASSUME NEW S \in SUBSET Int, NEW x \in S, \A y \in S : x <= y
    PROVE  Min(S) = x
  <1>1. \A y \in S : (\A z \in S : y <= z) => y = x
    OBVIOUS
  <1>2. Min(S) \in S /\ \A y \in S : Min(S) <= y
    BY DEF Min
  <1>. QED
    BY <1>1, <1>2

\* A set of naturals has a least element.
LEMMA MinOfNat ==
    ASSUME NEW T \in SUBSET Nat, T # {}
    PROVE  Min(T) \in T /\ \A y \in T : Min(T) <= y
<1> DEFINE R == OpToRel(<, Nat)
<1>1. IsWellFoundedOn(R, Nat)
  BY NatLessThanWellFounded, Zenon
<1>2. \A x, y \in Nat : x < y => <<x, y>> \in R
  BY DEF OpToRel
<1> HIDE DEF R
<1>3. PICK x \in T : \A y \in T : <<y, x>> \notin R
  BY <1>1, WFMin
<1>4. ASSUME NEW y \in T PROVE x <= y
  <2>1. ~(y < x)
    BY <1>2, <1>3
  <2> QED
    BY <2>1
<1> QED
  BY <1>4 DEF Min

\* Slots are slots: the remainder is in range.
LEMMA SlotInRange == ASSUME NEW p \in Nat PROVE SlotOf(p) \in Slot
  BY DEF SlotOf, Slot

LEMMA MetasType == TypeOK => Metas \in [Module -> FrameMetas]
  BY SlotInRange DEF TypeOK, Metas

\* What the loop tests is the metadata of module i_module in the slot.
LEMMA FrameOfSlot ==
    ASSUME TypeOK, InLoop
    PROVE  /\ i_module \in Module
           /\ frame_meta = Metas[i_module]
           /\ IsGoodFrame <=> i_module \in Complete(Metas)
           /\ frame_meta.pulse_id \in Nat /\ frame_meta.frame_index \in Nat
           /\ frame_meta.daq_rec \in Nat
  <1>1. i_module \in Module
    BY DEF TypeOK, InLoop, Module
  <1>2. frame_meta = Metas[i_module]
    BY DEF frame_meta, MetaAt, Metas
  <1>3. Metas[i_module] \in FrameMetas
    BY <1>1, MetasType
  <1>. QED
    BY <1>1, <1>2, <1>3 DEF IsGoodFrame, Complete

LEMMA InitInv == LoopInit => LoopInv
  <1>. SUFFICES ASSUME LoopInit PROVE LoopInv
    OBVIOUS
  <1>1. TypeOK
    <2>1. image_meta \in [pulse_id : Nat, frame_index : Nat, daq_rec : Nat, is_good_image : BOOLEAN]
      BY DEF LoopInit
    <2>2. i_module \in 0 .. NModules
      BY DEF LoopInit
    <2>. QED
      BY <2>1, <2>2, Zenon DEF LoopInit, TypeOK
  <1>2. Seen = {}
    BY DEF LoopInit, Seen, Complete, Module
  <1>3. NamedByFirst /\ GoodSoFar
    BY <1>2 DEF LoopInit, NamedByFirst, GoodSoFar, Module
  <1>. QED
    BY <1>1, <1>3 DEF LoopInit, LoopInv, ComputesImage

\* After SkipFrame: nothing more is seen, and the image is not good.
LEMMA SkipFrameInv == ASSUME LoopInv, SkipFrame PROVE LoopInv'
  <1>. USE DEF SkipFrame
  <1>1. TypeOK /\ InLoop /\ loop_pc = "loop" /\ NamedByFirst /\ GoodSoFar
    BY DEF LoopInv, InLoop
  <1>2. i_module \in Module /\ i_module \notin Complete(Metas)
    BY <1>1, FrameOfSlot
  <1>3. TypeOK'
    <2>1. i_module' \in 0 .. NModules
      BY <1>1 DEF TypeOK, InLoop
    <2>. QED
      BY <2>1, <1>1, Zenon DEF TypeOK, ramVars
  <1>4. Metas' = Metas
    BY DEF Metas, ramVars
  <1>5. Seen' = Seen
    BY <1>1, <1>2, <1>4 DEF Seen, Complete, TypeOK, Module
  <1>6. NamedByFirst'
    BY <1>1, <1>4, <1>5 DEF NamedByFirst
  <1>7. GoodSoFar'
    BY <1>1, <1>2, <1>4 DEF GoodSoFar, TypeOK, Module
  <1>. QED
    BY <1>1, <1>3, <1>6, <1>7 DEF LoopInv, ComputesImage

LEMMA ThrowInv == ASSUME LoopInv, Throw PROVE LoopInv'
  <1>. USE DEF Throw
  <1>1. TypeOK /\ InLoop /\ loop_pc = "loop" /\ NamedByFirst
    BY DEF LoopInv, InLoop
  <1>2. i_module \in Complete(Metas) /\ Metas[i_module].pulse_id # pulse_id
    BY <1>1, FrameOfSlot
  <1>3. \A m \in Complete(Metas) : i_module <= m
    <2>1. Seen = {}
      BY <1>1 DEF NamedByFirst
    <2>2. \A m \in Complete(Metas) : ~(m < i_module)
      BY <2>1 DEF Seen
    <2>. QED
      BY <2>2, <1>1 DEF TypeOK, Complete, Module
  <1>4. Min(Complete(Metas)) = i_module
    BY <1>2, <1>3, MinIsLeast DEF Complete, Module
  <1>5. IsUnexpected(pulse_id, Metas)
    BY <1>2, <1>4 DEF IsUnexpected
  <1>6. Metas' = Metas /\ pulse_id' = pulse_id
    BY DEF Metas, ramVars
  <1>7. TypeOK'
    BY <1>1 DEF TypeOK, ramVars
  <1>8. ComputesImage'
    BY <1>5, <1>6 DEF ComputesImage
  <1>. QED
    BY <1>7, <1>8 DEF LoopInv

\* After UseFrame: the frame is seen; it is the first if none was before.
LEMMA UseFrameInv == ASSUME LoopInv, UseFrame PROVE LoopInv'
  <1>. USE DEF UseFrame
  <1>1. TypeOK /\ InLoop /\ loop_pc = "loop" /\ NamedByFirst /\ GoodSoFar
    BY DEF LoopInv, InLoop
  <1>2. /\ i_module \in Module /\ i_module \in Complete(Metas)
        /\ frame_meta = Metas[i_module]
        /\ frame_meta.pulse_id \in Nat /\ frame_meta.frame_index \in Nat
        /\ frame_meta.daq_rec \in Nat
    BY <1>1, FrameOfSlot
  <1>3. image_meta' \in [pulse_id : Nat, frame_index : Nat, daq_rec : Nat, is_good_image : BOOLEAN]
    BY <1>1, <1>2 DEF TypeOK, Named, ImageNamedBy
  <1>4. TypeOK'
    BY <1>1, <1>2, <1>3 DEF TypeOK, Module, ramVars
  <1>5. Metas' = Metas /\ pulse_id' = pulse_id
    BY DEF Metas, ramVars
  <1>6. Seen' = Seen \union {i_module}
    BY <1>1, <1>2, <1>5 DEF Seen, Complete, TypeOK, Module
  <1>7. CASE is_pulse_init
    <2>1. image_meta' = image_meta
      BY <1>7
    <2>2. PICK first \in Seen : /\ \A m \in Seen : first <= m
                                /\ Metas[first].pulse_id = pulse_id
                                /\ SameImage(Metas[first], image_meta)
      BY <1>1, <1>7 DEF NamedByFirst
    <2>3. \A m \in Seen' : first <= m
      BY <2>2, <1>2, <1>6 DEF Seen, Complete, Module
    <2>4. NamedByFirst'
      BY <2>1, <2>2, <2>3, <1>5, <1>6 DEF NamedByFirst
    <2>5. is_good_image' <=> is_good_image /\ SameImage(Metas[i_module], image_meta)
      BY <2>1, <1>2
    <2>6. \A m \in Module : m < i_module' <=> m < i_module \/ m = i_module
      BY <1>2 DEF Module
    <2>7. GoodSoFar'
      BY <2>1, <2>5, <2>6, <1>1, <1>2, <1>5 DEF GoodSoFar
    <2>. QED
      BY <2>4, <2>7, <1>1, <1>4 DEF LoopInv, ComputesImage
  <1>8. CASE ~is_pulse_init
    <2>1. image_meta' = Named /\ frame_meta.pulse_id = pulse_id
      BY <1>8
    <2>2. SameImage(frame_meta, image_meta')
      BY <2>1, <1>1 DEF Named, ImageNamedBy, SameImage
    <2>3. Seen = {}
      BY <1>1, <1>8 DEF NamedByFirst
    <2>4. NamedByFirst'
      BY <2>1, <2>2, <2>3, <1>2, <1>5, <1>6 DEF NamedByFirst, Module
    <2>5. is_good_image => i_module = 0
      BY <2>3, <1>1, <1>2 DEF GoodSoFar, Seen, TypeOK, Module
    <2>6. ~is_good_image => i_module # 0 /\ ~(\A m \in Module : m < i_module => m \in Complete(Metas))
      BY <2>3, <1>1, <1>2 DEF GoodSoFar, Seen, TypeOK, Module
    <2>7. GoodSoFar'
      <3>1. CASE is_good_image
        <4>1. \A m \in Module : m < i_module' <=> m = i_module
          BY <3>1, <2>5, <1>2 DEF Module
        <4>. QED
          BY <4>1, <3>1, <2>2, <1>2, <1>5 DEF GoodSoFar
      <3>2. CASE ~is_good_image
        <4>1. PICK m \in Module : m < i_module /\ m \notin Complete(Metas)
          BY <3>2, <2>6
        <4>2. m < i_module'
          BY <4>1, <1>2 DEF Module
        <4>. QED
          BY <3>2, <4>1, <4>2, <1>5 DEF GoodSoFar
      <3>. QED
        BY <3>1, <3>2
    <2>. QED
      BY <2>4, <2>7, <1>1, <1>4 DEF LoopInv, ComputesImage
  <1>. QED
    BY <1>7, <1>8

\* At the end everything was seen: the loop's name is that of the first complete
\* frame, its verdict that on all modules.
LEMMA FinishInv == ASSUME LoopInv, Finish PROVE LoopInv'
  <1>. USE DEF Finish
  <1>1. TypeOK /\ NamedByFirst /\ GoodSoFar /\ i_module = NModules
    BY DEF LoopInv
  <1>2. Metas' = Metas /\ pulse_id' = pulse_id
    BY DEF Metas, ramVars
  <1>3. Seen = Complete(Metas)
    BY <1>1 DEF Seen, Complete, Module
  <1>4. TypeOK'
    BY <1>1 DEF TypeOK, ramVars, NoImage, ImageNamedBy
  <1>5. CASE is_pulse_init
    <2>1. PICK first \in Complete(Metas) : /\ \A m \in Complete(Metas) : first <= m
                                           /\ Metas[first].pulse_id = pulse_id
                                           /\ SameImage(Metas[first], image_meta)
      BY <1>1, <1>3, <1>5 DEF NamedByFirst
    <2>2. Min(Complete(Metas)) = first
      BY <2>1, MinIsLeast DEF Complete, Module
    <2>3. ~IsUnexpected(pulse_id, Metas)
      BY <2>1, <2>2 DEF IsUnexpected
    <2>4. is_good_image <=> \A m \in Module : m \in Complete(Metas) /\ SameImage(Metas[m], Metas[first])
      BY <2>1, <1>1 DEF GoodSoFar, Module, SameImage
    <2>5. image_meta' = ImageNamedBy(Metas[first], is_good_image)
      BY <2>1, <1>1, <1>5 DEF ImageNamedBy, SameImage, TypeOK
    <2>6. image_meta' = AssembledImage(Metas)
      BY <2>1, <2>2, <2>4, <2>5, <1>1 DEF AssembledImage, TypeOK, ImageNamedBy
    <2>. QED
      BY <2>3, <2>6, <1>2, <1>4 DEF LoopInv, ComputesImage
  <1>6. CASE ~is_pulse_init
    <2>1. Complete(Metas) = {}
      BY <1>1, <1>3, <1>6 DEF NamedByFirst
    <2>2. is_good_image = FALSE
      <3>1. 0 \in Module /\ 0 < i_module
        BY <1>1 DEF Module
      <3>2. ~is_good_image
        BY <3>1, <2>1, <1>1, Zenon DEF GoodSoFar
      <3>3. is_good_image \in BOOLEAN
        BY <1>1 DEF TypeOK
      <3>. QED
        BY <3>2, <3>3, Zenon
    <2>3. image_meta' = NoImage
      <3>1. image_meta' = ImageNamedBy(NoImage, is_good_image)
        BY <1>6
      <3>. QED
        BY <3>1, <2>2 DEF NoImage, ImageNamedBy
    <2>. QED
      BY <2>1, <2>3, <1>2, <1>4 DEF LoopInv, ComputesImage, AssembledImage, IsUnexpected
  <1>. QED
    BY <1>5, <1>6

\* The loop invariant holds before every turn.
THEOREM LoopInvariant == LoopSpec => []LoopInv
  <1>1. LoopInv /\ [LoopNext]_assembleVars => LoopInv'
    <2>. SUFFICES ASSUME LoopInv, [LoopNext]_assembleVars PROVE LoopInv'
      OBVIOUS
    <2>1. CASE UNCHANGED assembleVars
      BY <2>1 DEF assembleVars, ramVars, loopVars, LoopInv, TypeOK, NamedByFirst, GoodSoFar,
                  ComputesImage, Seen, Metas
    <2>. QED
      BY <2>1, SkipFrameInv, ThrowInv, UseFrameInv, FinishInv DEF LoopNext
  <1>. QED
    BY <1>1, InitInv, PTL DEF LoopSpec

\* RamBuffer::assemble_image returns the image as it is defined, and throws exactly
\* when the first complete frame is of another pulse than the one asked for.
THEOREM LoopComputesImage == LoopSpec => []ComputesImage
  BY LoopInvariant, PTL DEF LoopInv

-----------------------------------------------------------------------------
(* Division with remainder, of which the file is made.                       *)

\* Quotient and remainder.
LEMMA Division ==
    ASSUME NEW s \in Nat \ {0}, NEW x \in Nat
    PROVE  x \div s \in Nat /\ x % s \in 0 .. s - 1 /\ x = (x \div s) * s + (x % s)
  OBVIOUS

\* Multiplication respects the order.
LEMMA Multiplying ==
    ASSUME NEW s \in Nat, NEW a \in Nat, NEW b \in Nat, a < b
    PROVE  a * s \in Nat /\ b * s \in Nat /\ a * s + s <= b * s
  <1>1. PICK d \in Nat : b = a + 1 + d
    <2>1. b - a - 1 \in Nat /\ b = a + 1 + (b - a - 1)
      OBVIOUS
    <2>. QED
      BY <2>1
  <1>2. b * s = a * s + s + d * s /\ d * s \in Nat /\ a * s \in Nat
    BY <1>1
  <1>. QED
    BY <1>2

\* They are unique.
LEMMA OneQuotient ==
    ASSUME NEW s \in Nat \ {0}, NEW q \in Nat, NEW k \in Nat,
           NEW r \in 0 .. s - 1, NEW t \in 0 .. s - 1, q * s + r = k * s + t
    PROVE  q = k /\ r = t
  <1>2. q * s \in Nat /\ k * s \in Nat
    OBVIOUS
  <1>3. ~(q < k)
    <2>1. q < k => q * s + s <= k * s
      BY Multiplying
    <2>. QED
      BY <2>1, <1>2
  <1>4. ~(k < q)
    <2>1. k < q => k * s + s <= q * s
      BY Multiplying
    <2>. QED
      BY <2>1, <1>2
  <1>. QED
    BY <1>3, <1>4

\* Whoever writes a number as a multiple and a rest has found them.
LEMMA QuotientIs ==
    ASSUME NEW s \in Nat \ {0}, NEW x \in Nat, NEW q \in Nat, NEW r \in 0 .. s - 1, x = q * s + r
    PROVE  x \div s = q /\ x % s = r
  <1> DEFINE k == x \div s
             t == x % s
  <1>1. k \in Nat /\ t \in 0 .. s - 1 /\ x = k * s + t
    BY Division
  <1> HIDE DEF k, t
  <1>2. q * s + r = k * s + t
    BY <1>1
  <1>3. q = k /\ r = t
    BY <1>1, <1>2, OneQuotient
  <1>. QED
    BY <1>3 DEF k, t

\* A multiple leaves no remainder.
LEMMA Multiples ==
    ASSUME NEW s \in Nat \ {0}, NEW q \in Nat
    PROVE  (q * s) % s = 0 /\ (q * s) \div s = q
  <1>1. q * s \in Nat /\ 0 \in 0 .. s - 1 /\ q * s = q * s + 0
    OBVIOUS
  <1>. QED
    BY <1>1, QuotientIs

\* A multiple takes no part in the remainder of a sum.
LEMMA SumOfMultiples ==
    ASSUME NEW s \in Nat \ {0}, NEW x \in Nat, NEW i \in Nat, x % s = 0
    PROVE  (x + i) % s = i % s
  <1> DEFINE q == x \div s
             k == i \div s
             r == i % s
  <1>1. q \in Nat /\ x = q * s
    BY Division
  <1>2. k \in Nat /\ r \in 0 .. s - 1 /\ i = k * s + r
    BY Division
  <1> HIDE DEF q, k, r
  <1>3. x + i \in Nat /\ q + k \in Nat /\ x + i = (q + k) * s + r
    BY <1>1, <1>2
  <1>4. (x + i) % s = r
    BY <1>2, <1>3, QuotientIs
  <1>. QED
    BY <1>4 DEF r

\* Two multiples are a step apart.
LEMMA NextMultiple ==
    ASSUME NEW s \in Nat \ {0}, NEW x \in Nat, NEW y \in Nat, x % s = 0, y % s = 0, x < y
    PROVE  x + s <= y
  <1>1. PICK d \in Nat : y = x + d /\ d # 0
    <2>1. y - x \in Nat /\ y = x + (y - x) /\ y - x # 0
      OBVIOUS
    <2>. QED
      BY <2>1
  <1>2. d % s = 0
    BY <1>1, SumOfMultiples
  <1>3. d \notin 1 .. s - 1
    <2>1. \A i \in 1 .. s - 1 : i % s = i
      <3>. SUFFICES ASSUME NEW i \in 1 .. s - 1 PROVE i % s = i
        OBVIOUS
      <3>1. i \in Nat /\ 0 * s + i = i /\ i \in 0 .. s - 1
        OBVIOUS
      <3>2. i \div s \in Nat /\ i % s \in 0 .. s - 1 /\ i = (i \div s) * s + (i % s)
        BY <3>1, Division
      <3>. QED
        BY <3>1, <3>2, OneQuotient
    <2>. QED
      BY <2>1, <1>2
  <1>. QED
    BY <1>1, <1>3

\* Divisibility is transitive.
LEMMA Divides ==
    ASSUME NEW s \in Nat \ {0}, NEW t \in Nat \ {0}, NEW x \in Nat, x % t = 0, t % s = 0
    PROVE  x % s = 0
  <1> DEFINE q == x \div t
             k == t \div s
  <1>1. q \in Nat /\ k \in Nat /\ x = q * t /\ t = k * s
    BY Division
  <1> HIDE DEF q, k
  <1>2. x = (q * k) * s /\ q * k \in Nat
    BY <1>1
  <1>. QED
    BY <1>2, Multiples

\* Quotients respect the order.
LEMMA DivMonotone ==
    ASSUME NEW s \in Nat \ {0}, NEW x \in Nat, NEW y \in Nat, x <= y
    PROVE  x \div s <= y \div s
  <1> DEFINE q == x \div s
             k == y \div s
  <1>1. q \in Nat /\ x % s \in 0 .. s - 1 /\ x = q * s + (x % s)
    BY Division
  <1>2. k \in Nat /\ y % s \in 0 .. s - 1 /\ y = k * s + (y % s)
    BY Division
  <1> HIDE DEF q, k
  <1>3. k < q => k * s + s <= q * s /\ k * s \in Nat /\ q * s \in Nat
    BY <1>1, <1>2, Multiplying
  <1>4. ~(k < q)
    BY <1>1, <1>2, <1>3
  <1>. QED
    BY <1>1, <1>2, <1>4 DEF q, k

-----------------------------------------------------------------------------
(* sf_writer: the state of its main thread.                                  *)

ImageRow == [pulse_id : Int, frame_index : Int, daq_rec : Int, is_good_image : Int]

Working == {"meta", "write", "chunks"}
Opened  == Working \union {"close", "closed"}

OfflineTypeOK ==
    /\ asked \in Requests
    /\ content \in [AskedPulses -> ImageContents]
    /\ start_pulse_id \in Nat
    /\ stop_pulse_id = asked[2]
    /\ pulse_id_step = asked[3]
    /\ pc \in Opened \union {"align", "construct", "refused"}
    /\ block_id \in Nat
    /\ i_image \in Nat
    /\ meta_blocks \in [0 .. WRITER_IA_N_SLOTS - 1 -> [Index -> ImageRow]]
    /\ images \in Seq(Nat)
    /\ b_metadata \in Seq(ImageRow)

\* The start is the first multiple of the step that was asked for, and a file is only
\* begun for a range that is accepted.
AlignedRange ==
    /\ pc = "align" => start_pulse_id = asked[1]
    /\ pc # "align" =>
          /\ asked[1] <= start_pulse_id /\ start_pulse_id % pulse_id_step = 0
          /\ \A p \in asked[1] .. start_pulse_id - 1 : p % pulse_id_step # 0
    /\ pc \in Opened => RangeAccepted
    /\ pc = "refused" => ~RangeAccepted
    /\ pc \notin Opened => images = <<>> /\ b_metadata = <<>>

\* The pulse after those whose metadata is kept, and after those whose chunk is written.
NextMetadata == start_pulse_id + Len(b_metadata)
NextChunk    == IF pc = "chunks" THEN block_start_pulse_id + i_image ELSE NextMetadata

\* The blocks follow each other without gap or overlap.
BlocksInTurn ==
    /\ pc \in Working =>
          /\ block_id \in start_block .. stop_block
          /\ NextMetadata = block_start_pulse_id + n_images_offset
    /\ pc = "chunks" => i_image \in n_images_offset .. n_images_offset + n_images_to_copy
    /\ pc \in {"close", "closed"} => NextMetadata = stop_pulse_id + 1

\* The chunks are those of the multiples of the step before a pulse.
ChunksBefore(chunks, start, step, next) ==
    /\ \A k \in 1 .. Len(chunks) : chunks[k] = start + (k - 1) * step
    /\ Len(chunks) = 0 => next = start
    /\ Len(chunks) > 0 => chunks[Len(chunks)] < next /\ next <= chunks[Len(chunks)] + step

ChunksInStep == pc \in Opened => ChunksBefore(images, start_pulse_id, pulse_id_step, NextChunk)

\* A row says of an image what get_metadata_buffer makes of it.
Describes(row, p) ==
    IF CompleteAt(p) = {} THEN row.pulse_id = 0 /\ row.is_good_image = 0
    ELSE row = NamedBy(p, FrameMeta(p, Min(CompleteAt(p))))

MetadataInPlace ==
    /\ pc \in {"write", "chunks"} =>
          \A i \in Index : Describes(meta_blocks[BlockSlot(block_id)][i], block_start_pulse_id + i)
    /\ pc \in Opened =>
          \A j \in 1 .. Len(b_metadata) : Describes(b_metadata[j], start_pulse_id + (j - 1))
    /\ pc = "closed" =>
          rows = [k \in 1 .. n_images |->
                    LET i == (k - 1) * pulse_id_step + 1 IN
                    IF i <= Len(b_metadata) THEN b_metadata[i] ELSE Unset]

FileInv == OfflineTypeOK /\ AlignedRange /\ BlocksInTurn /\ ChunksInStep /\ MetadataInPlace

\* A request is a range of pulses and a step.
LEMMA RequestTypes ==
    ASSUME asked \in Requests
    PROVE  asked[1] \in Pulse /\ asked[2] \in Pulse /\ asked[1] \in Nat /\ asked[2] \in Nat /\ asked[3] \in Nat \ {0}
<1>1. Pulse \subseteq Nat
  BY OfflineAssumption DEF Pulse, Index
<1>2. asked \in Pulse \X Pulse \X (Nat \ {0})
  BY OfflineAssumption
<1> QED
  BY <1>1, <1>2

\* A pulse is in the block that its quotient names.
LEMMA PulseOfBlock ==
    ASSUME NEW p \in Nat, p \div BUFFER_BLOCK_SIZE \in Blocks
    PROVE  p \in Pulse
<1>1. /\ p % BUFFER_BLOCK_SIZE \in 0 .. BUFFER_BLOCK_SIZE - 1
      /\ p = (p \div BUFFER_BLOCK_SIZE) * BUFFER_BLOCK_SIZE + (p % BUFFER_BLOCK_SIZE)
  BY OfflineAssumption, Division
<1> QED
  BY <1>1 DEF Pulse, Index

\* The frames of a request are there, up to its last pulse.
LEMMA AskedThere ==
    ASSUME asked \in Requests, NEW p \in Nat, asked[1] <= p, p <= asked[2]
    PROVE  p \in AskedPulses /\ p \in Pulse
<1>1. asked[1] \in Nat /\ asked[2] \in Nat /\ BUFFER_BLOCK_SIZE \in Nat \ {0}
  BY RequestTypes, OfflineAssumption
<1> DEFINE first == asked[1] \div BUFFER_BLOCK_SIZE
           last == asked[2] \div BUFFER_BLOCK_SIZE
           block == p \div BUFFER_BLOCK_SIZE
<1>2. first <= block /\ block <= last
  BY <1>1, DivMonotone
<1>3. first \in Nat /\ last \in Nat /\ block \in Nat
  BY <1>1, Division
<1>4. first .. last \subseteq Blocks
  BY FilesThere
<1> HIDE DEF first, last, block
<1>5. block \in first .. last
  BY <1>2, <1>3
<1>6. p \in Pulse
  BY <1>4, <1>5, PulseOfBlock DEF block
<1> QED
  BY <1>5, <1>6 DEF AskedPulses, first, last, block

\* Where a block lies, and what write() copies of it.
LEMMA BlockBounds ==
    ASSUME OfflineTypeOK, AlignedRange, BlocksInTurn, pc \in Working
    PROVE  /\ block_start_pulse_id \in Nat /\ block_start_pulse_id % pulse_id_step = 0
           /\ n_images_offset \in 0 .. BUFFER_BLOCK_SIZE - 1
           /\ n_images_to_copy \in 1 .. BUFFER_BLOCK_SIZE - n_images_offset
           /\ block_start_pulse_id + n_images_offset <= stop_pulse_id
           /\ block_id \in Blocks
           /\ block_id # stop_block =>
                 /\ block_start_pulse_id + n_images_offset + n_images_to_copy =
                       block_start_pulse_id + BUFFER_BLOCK_SIZE
                 /\ block_start_pulse_id + BUFFER_BLOCK_SIZE <= stop_pulse_id
                 /\ start_pulse_id < block_start_pulse_id + BUFFER_BLOCK_SIZE
                 /\ (block_id + 1) * BUFFER_BLOCK_SIZE = block_start_pulse_id + BUFFER_BLOCK_SIZE
                 /\ block_id + 1 \in start_block .. stop_block
           /\ block_id = stop_block =>
                 block_start_pulse_id + n_images_offset + n_images_to_copy = stop_pulse_id + 1
<1> DEFINE B == BUFFER_BLOCK_SIZE
           a == start_pulse_id
           z == stop_pulse_id
           s == pulse_id_step
           L == block_start_pulse_id
           first == start_block
           last == stop_block
<1>1. /\ a \in Nat /\ z \in Nat /\ s \in Nat \ {0} /\ a <= z /\ asked[1] \in Nat /\ asked[1] <= a /\ z = asked[2]
      /\ FullRate % s = 0 /\ B \in Nat \ {0} /\ FullRate \in Nat \ {0} /\ block_id \in Nat
  BY RequestTypes, OfflineAssumption DEF OfflineTypeOK, AlignedRange, Working, Opened, RangeAccepted
<1>2. /\ first \in Nat /\ a % B \in 0 .. B - 1 /\ a = first * B + (a % B)
      /\ last \in Nat /\ z % B \in 0 .. B - 1 /\ z = last * B + (z % B)
  BY <1>1, Division DEF start_block, stop_block
<1>3. first <= block_id /\ block_id <= last /\ L = block_id * B
  BY <1>2 DEF BlocksInTurn, block_start_pulse_id
<1>4. L \in Nat /\ L % s = 0
  <2>1. B % s = 0
    BY <1>1, BlockOfRate, Divides
  <2>2. L \in Nat /\ L % B = 0
    BY <1>1, <1>3, Multiples
  <2> QED
    BY <1>1, <2>1, <2>2, Divides
<1>5. block_id \in Blocks
  <2>1. asked[1] \div B <= first
    BY <1>1, DivMonotone DEF start_block
  <2>2. asked[1] \div B \in Nat
    BY <1>1, Division
  <2>3. (asked[1] \div B) .. last \subseteq Blocks
    BY <1>1, FilesThere DEF OfflineTypeOK, stop_block
  <2> HIDE DEF first, last
  <2>4. block_id \in (asked[1] \div B) .. last
    BY <1>1, <1>2, <1>3, <2>1, <2>2
  <2> QED
    BY <2>3, <2>4
<1>6. first * B \in Nat /\ last * B \in Nat
  BY <1>1, <1>2
<1> HIDE DEF B, a, z, s, L, first, last
<1>7. IF block_id = first THEN L <= a /\ a < L + B ELSE a < L
  <2>1. CASE block_id = first
    BY <2>1, <1>1, <1>2, <1>3, <1>6
  <2>2. CASE block_id # first
    <3>1. first * B + B <= L
      BY <2>2, <1>1, <1>2, <1>3, Multiplying
    <3> QED
      BY <3>1, <2>2, <1>1, <1>2, <1>4, <1>6
  <2> QED
    BY <2>1, <2>2
<1>8. IF block_id = last THEN L <= z /\ z < L + B ELSE L + B <= z
  <2>1. CASE block_id = last
    BY <2>1, <1>1, <1>2, <1>3, <1>6
  <2>2. CASE block_id # last
    <3>1. L + B <= last * B
      BY <2>2, <1>1, <1>2, <1>3, Multiplying
    <3> QED
      BY <3>1, <2>2, <1>1, <1>2, <1>4, <1>6
  <2> QED
    BY <2>1, <2>2
<1>9. /\ n_images_offset = (IF a > L THEN a - L ELSE 0)
      /\ block_stop_pulse_id = L + B - 1
      /\ n_images_to_copy = B - n_images_offset
                              - (IF z < block_stop_pulse_id THEN block_stop_pulse_id - z ELSE 0)
  <2>1. n_images_offset = (IF a > L THEN a - L ELSE 0)
    BY DEF n_images_offset, a, L
  <2>2. block_stop_pulse_id = L + B - 1
    BY DEF block_stop_pulse_id, B, L
  <2>3. n_images_to_copy = B - n_images_offset - (IF z < block_stop_pulse_id THEN block_stop_pulse_id - z ELSE 0)
    BY Zenon DEF n_images_to_copy, B, z
  <2> QED
    BY <2>1, <2>2, <2>3
<1>10. /\ n_images_offset \in 0 .. B - 1 /\ L + n_images_offset <= z /\ a < L + B
  BY <1>1, <1>4, <1>7, <1>8, <1>9
<1>11. /\ n_images_to_copy \in 1 .. B - n_images_offset
       /\ L + n_images_offset + n_images_to_copy = IF block_id = last THEN z + 1 ELSE L + B
  BY <1>1, <1>4, <1>8, <1>9, <1>10
<1>12. block_id # last => /\ (block_id + 1) * B = L + B
                          /\ block_id + 1 \in first .. last /\ L + B <= z
  BY <1>1, <1>2, <1>3, <1>8
<1> QED
  BY <1>4, <1>5, <1>10, <1>11, <1>12 DEF B, a, z, s, L, first, last

-----------------------------------------------------------------------------
(* sf_writer: every step keeps the invariant.                                *)

\* Before the alignment nothing is in the file.
LEMMA FileInit == Init => FileInv
<1> SUFFICES ASSUME Init PROVE FileInv
  OBVIOUS
<1>1. /\ start_pulse_id = asked[1] /\ stop_pulse_id = asked[2] /\ pulse_id_step = asked[3]
      /\ pc = "align" /\ block_id = 0 /\ i_image = 0 /\ asked \in Requests
      /\ images = <<>> /\ b_metadata = <<>>
      /\ content \in [AskedPulses -> ImageContents]
  BY DEF Init
<1>2. meta_blocks \in [0 .. WRITER_IA_N_SLOTS - 1 -> [Index -> ImageRow]]
  BY DEF Init, Unset, ImageRow
<1>3. OfflineTypeOK
  BY <1>1, <1>2, RequestTypes DEF OfflineTypeOK
<1> QED
  BY <1>1, <1>3 DEF FileInv, AlignedRange, BlocksInTurn, ChunksInStep, MetadataInPlace, Opened, Working

\* The first multiple of the step from a pulse on.
LEMMA FirstMultiple ==
    ASSUME NEW s \in Nat \ {0}, NEW a \in Nat
    PROVE  LET b == IF a % s = 0 THEN a ELSE a + s - (a % s) IN
           b \in Nat /\ a <= b /\ b % s = 0 /\ \A p \in a .. b - 1 : p % s # 0
<1> DEFINE q == a \div s
           r == a % s
           b == IF r = 0 THEN a ELSE a + s - r
<1>0. q \in Nat /\ r \in 0 .. s - 1 /\ a = q * s + r
  BY Division
<1> HIDE DEF q, r
<1>1. q \in Nat /\ r \in 0 .. s - 1 /\ a = q * s + r /\ q * s \in Nat
  BY <1>0
<1>2. CASE r = 0
  <2>1. b = a /\ b % s = 0
    BY <1>2 DEF r
  <2> QED
    BY <2>1, <1>1 DEF r
<1>3. CASE r # 0
  <2>1. b = (q + 1) * s /\ q + 1 \in Nat /\ b = q * s + s
    BY <1>1, <1>3
  <2>2. b % s = 0
    BY <2>1, Multiples
  <2>3. ASSUME NEW p \in a .. b - 1 PROVE p % s # 0
    <3>1. p - q * s \in 1 .. s - 1 /\ p \in Nat /\ p = q * s + (p - q * s)
      BY <1>1, <1>3, <2>1
    <3>2. PICK t \in 1 .. s - 1 : p = q * s + t
      BY <3>1
    <3>3. t \in 0 .. s - 1
      OBVIOUS
    <3>4. p % s = t
      BY <1>1, <3>1, <3>2, <3>3, QuotientIs
    <3> QED
      BY <3>4
  <2> QED
    BY <2>1, <2>2, <2>3, <1>1, <1>3 DEF r
<1> QED
  BY <1>2, <1>3

\* Alignment finds the first multiple of the step, and leaves the stop alone.
LEMMA AlignKeeps == ASSUME FileInv, Align PROVE FileInv'
<1>1. /\ OfflineTypeOK /\ pc = "align" /\ start_pulse_id = asked[1] /\ images = <<>> /\ b_metadata = <<>>
      /\ stop_pulse_id = asked[2] /\ pulse_id_step = asked[3] /\ asked \in Requests
  BY DEF FileInv, OfflineTypeOK, AlignedRange, Align, Opened, Working
<1>2. asked[1] \in Nat /\ asked[2] \in Nat /\ asked[3] \in Nat \ {0}
  BY <1>1, RequestTypes
<1>3. /\ UNCHANGED <<content, asked, pulse_id_step, block_id, i_image, meta_blocks, images, b_metadata>>
      /\ pc' = "construct"
      /\ start_pulse_id' = IF asked[1] % asked[3] = 0 THEN asked[1]
                           ELSE asked[1] + asked[3] - (asked[1] % asked[3])
      /\ stop_pulse_id' = IF asked[2] % asked[3] = 0 THEN asked[2]
                          ELSE asked[2] - (start_pulse_id' % asked[3])
  BY <1>1 DEF Align, fileVars
<1>4. /\ start_pulse_id' \in Nat /\ asked[1] <= start_pulse_id' /\ start_pulse_id' % asked[3] = 0
      /\ \A p \in asked[1] .. start_pulse_id' - 1 : p % asked[3] # 0
  BY <1>2, <1>3, FirstMultiple
<1>5. stop_pulse_id' = asked[2]
  BY <1>2, <1>3, <1>4
<1>6. AskedPulses' = AskedPulses
  BY <1>3 DEF AskedPulses
<1>7. OfflineTypeOK'
  BY <1>1, <1>3, <1>4, <1>5, <1>6 DEF OfflineTypeOK
<1>8. AlignedRange'
  BY <1>1, <1>3, <1>4 DEF AlignedRange, Opened, Working
<1> QED
  BY <1>3, <1>7, <1>8 DEF FileInv, BlocksInTurn, ChunksInStep, MetadataInPlace, Opened, Working

\* The first block is that of the start.
LEMMA ConstructKeeps == ASSUME FileInv, Construct PROVE FileInv'
<1> DEFINE a == start_pulse_id
           B == BUFFER_BLOCK_SIZE
<1>1. /\ OfflineTypeOK /\ AlignedRange /\ pc = "construct" /\ images = <<>> /\ b_metadata = <<>>
      /\ a \in Nat /\ B \in Nat \ {0} /\ stop_pulse_id \in Nat
  BY RequestTypes, OfflineAssumption DEF FileInv, OfflineTypeOK, AlignedRange, Construct, Opened, Working
<1>2. /\ UNCHANGED <<content, asked, start_pulse_id, stop_pulse_id, pulse_id_step, i_image, meta_blocks,
                    images, b_metadata>>
      /\ block_id' = start_block
      /\ pc' = IF RangeAccepted THEN "meta" ELSE "refused"
  BY DEF Construct, rangeVars, fileVars
<1>3. start_block \in Nat /\ a % B \in 0 .. B - 1 /\ a = start_block * B + (a % B)
  BY <1>1, Division DEF start_block
<1>4. AskedPulses' = AskedPulses /\ (RangeAccepted' <=> RangeAccepted)
  BY <1>2 DEF AskedPulses, RangeAccepted
<1>5. OfflineTypeOK'
  BY <1>1, <1>2, <1>3, <1>4 DEF OfflineTypeOK, Opened, Working
<1>6. AlignedRange'
  BY <1>1, <1>2, <1>4 DEF AlignedRange, Opened, Working
<1>7. CASE ~RangeAccepted
  BY <1>2, <1>5, <1>6, <1>7 DEF FileInv, BlocksInTurn, ChunksInStep, MetadataInPlace, Opened, Working
<1>8. CASE RangeAccepted
  <2>1. pc' = "meta" /\ Len(b_metadata') = 0 /\ Len(images') = 0
    BY <1>1, <1>2, <1>8
  <2>2. start_block <= stop_block /\ stop_block \in Nat
    <3>1. a <= stop_pulse_id
      BY <1>1, <1>8 DEF RangeAccepted
    <3> QED
      BY <3>1, <1>1, DivMonotone, Division DEF start_block, stop_block
  <2>3. start_block' = start_block /\ stop_block' = stop_block /\ NextMetadata' = a
    BY <1>1, <1>2, <2>1 DEF start_block, stop_block, NextMetadata
  <2>4. block_start_pulse_id' = start_block * B /\ start_block * B \in Nat
    BY <1>1, <1>2, <1>3 DEF block_start_pulse_id
  <2>5. n_images_offset' = a - start_block * B
    <3>1. n_images_offset' = IF a > start_block * B THEN a - start_block * B ELSE 0
      BY <1>2, <2>4 DEF n_images_offset
    <3> HIDE DEF a, B
    <3> QED
      BY <3>1, <1>1, <1>3, <2>4
  <2>6. BlocksInTurn'
    <3>1. a = start_block * B + (a - start_block * B)
      BY <1>1, <2>4
    <3>2. block_id' \in start_block .. stop_block
      BY <1>2, <1>3, <2>2
    <3> QED
      BY <2>1, <2>3, <2>4, <2>5, <3>1, <3>2, Zenon DEF BlocksInTurn
  <2>7. NextChunk' = a
    BY <2>1, <2>3 DEF NextChunk
  <2>8. ChunksInStep'
    BY <1>2, <2>1, <2>7 DEF ChunksInStep, ChunksBefore
  <2>9. MetadataInPlace'
    BY <2>1 DEF MetadataInPlace
  <2> QED
    BY <1>5, <1>6, <2>6, <2>8, <2>9 DEF FileInv
<1> QED
  BY <1>7, <1>8

\* What does not change with the block and the range.
LEMMA SameBlock ==
    ASSUME UNCHANGED <<start_pulse_id, stop_pulse_id, pulse_id_step, block_id>>
    PROVE  /\ block_start_pulse_id' = block_start_pulse_id
           /\ n_images_offset' = n_images_offset /\ n_images_to_copy' = n_images_to_copy
           /\ start_block' = start_block /\ stop_block' = stop_block
           /\ n_images' = n_images /\ (RangeAccepted' <=> RangeAccepted)
<1>1. block_start_pulse_id' = block_start_pulse_id
  BY DEF block_start_pulse_id
<1>2. n_images_offset' = n_images_offset
  BY <1>1 DEF n_images_offset
<1>3. n_images_to_copy' = n_images_to_copy
  BY <1>1, <1>2 DEF n_images_to_copy, block_stop_pulse_id
<1> QED
  BY <1>1, <1>2, <1>3 DEF start_block, stop_block, n_images, RangeAccepted

\* The files do not change.
LEMMA SameDescriptions ==
    ASSUME content' = content
    PROVE  \A row, p : Describes(row, p)' <=> Describes(row, p)
<1> QED
  BY DEF Describes, CompleteAt, Complete, Frames, FrameMeta, NamedBy, IsGoodImage

\* get_metadata_buffer describes the image, whatever the slot held.
LEMMA ImageDescribes ==
    ASSUME NEW p \in Nat, NEW old \in ImageRow
    PROVE  ImageOf(p, old) \in ImageRow /\ Describes(ImageOf(p, old), p)
<1>1. CASE CompleteAt(p) = {}
  <2>1. ImageOf(p, old) = [old EXCEPT !.pulse_id = 0, !.is_good_image = 0]
    BY <1>1 DEF ImageOf
  <2> DEFINE row == [old EXCEPT !.pulse_id = 0, !.is_good_image = 0]
  <2>2. row \in ImageRow /\ row.pulse_id = 0 /\ row.is_good_image = 0
    <3>1. [old EXCEPT !.pulse_id = 0] \in ImageRow
      BY DEF ImageRow
    <3>2. row = [[old EXCEPT !.pulse_id = 0] EXCEPT !.is_good_image = 0]
      BY DEF ImageRow
    <3>3. row.pulse_id = 0 /\ row.is_good_image = 0
      BY DEF ImageRow
    <3>4. row \in ImageRow
      <4> DEFINE o == [old EXCEPT !.pulse_id = 0]
      <4> HIDE DEF o
      <4>1. [o EXCEPT !.is_good_image = 0] \in ImageRow
        BY <3>1 DEF ImageRow, o
      <4> QED
        BY <4>1, <3>2 DEF o
    <3> QED
      BY <3>3, <3>4
  <2> HIDE DEF row
  <2>3. ImageOf(p, old) = row
    BY <2>1 DEF row
  <2> QED
    BY <1>1, <2>2, <2>3 DEF Describes
<1>2. CASE CompleteAt(p) # {}
  <2> DEFINE first == FrameMeta(p, Min(CompleteAt(p)))
  <2>1. first.pulse_id \in Int /\ first.frame_index \in Int /\ first.daq_rec \in Int
    BY DEF FrameMeta
  <2>2. ImageOf(p, old) = NamedBy(p, first)
    BY <1>2 DEF ImageOf
  <2> HIDE DEF first
  <2>3. NamedBy(p, first) \in ImageRow
    BY <2>1 DEF NamedBy, ImageRow
  <2> QED
    BY <1>2, <2>2, <2>3 DEF Describes, first
<1> QED
  BY <1>1, <1>2

\* The chunks go on in steps: the next one is written at the next multiple.
LEMMA ChunksGoOn ==
    ASSUME NEW s \in Nat \ {0}, NEW a \in Nat, a % s = 0, NEW chunks \in Seq(Nat), NEW cur \in Nat,
           ChunksBefore(chunks, a, s, cur)
    PROVE  /\ cur % s = 0 => ChunksBefore(Append(chunks, cur), a, s, cur + 1)
           /\ cur % s # 0 => ChunksBefore(chunks, a, s, cur + 1)
<1> DEFINE n == Len(chunks)
<1>1. n \in Nat /\ \A k \in 1 .. n : chunks[k] = a + (k - 1) * s
  BY DEF ChunksBefore
<1>2. CASE n = 0
  <2>1. cur = a
    BY <1>2 DEF ChunksBefore
  <2>2. Len(Append(chunks, cur)) = 1 /\ Append(chunks, cur)[1] = cur
    BY <1>2
  <2>3. a + (1 - 1) * s = a
    OBVIOUS
  <2> QED
    BY <2>1, <2>2, <2>3 DEF ChunksBefore
<1>3. CASE n # 0
  <2> DEFINE d == n - 1
             last == a + d * s
  <2>1. d \in Nat /\ n = d + 1
    BY <1>1, <1>3
  <2>2. chunks[n] = last /\ last < cur /\ cur <= last + s
    BY <1>1, <1>3 DEF ChunksBefore
  <2> HIDE DEF d, n
  <2>3. d * s \in Nat /\ (d * s) % s = 0
    BY <2>1, Multiples
  <2> DEFINE e == d * s
  <2>4. last \in Nat /\ last % s = 0
    <3>1. e \in Nat /\ e % s = 0
      BY <2>3
    <3> HIDE DEF e
    <3>2. (a + e) % s = (e % s)
      BY <3>1, SumOfMultiples
    <3>3. (a + e) \in Nat /\ (a + e) % s = 0
      BY <3>1, <3>2
    <3> QED
      BY <3>3, Zenon DEF e
  <2>5. a + n * s = last + s
    <3>1. n * s = d * s + s
      BY <2>1
    <3> QED
      BY <3>1, <2>3
  <2> HIDE DEF last
  <2>6. (last + s) % s = 0
    <3>1. 1 * s = s /\ (1 * s) % s = 0
      BY Multiples
    <3>2. s % s = 0
      BY <3>1
    <3>3. (last + s) % s = (s % s)
      BY <2>4, SumOfMultiples
    <3> QED
      BY <3>2, <3>3
  <2>7. CASE cur % s = 0
    <3>1. cur = last + s
      BY <2>2, <2>4, <2>7, NextMultiple
    <3>2. Append(chunks, cur) \in Seq(Nat) /\ Len(Append(chunks, cur)) = n + 1
      BY DEF n
    <3>3. \A k \in 1 .. n + 1 : Append(chunks, cur)[k] = IF k = n + 1 THEN cur ELSE chunks[k]
      BY DEF n
    <3>4. \A k \in 1 .. n + 1 : Append(chunks, cur)[k] = a + (k - 1) * s
      <4> SUFFICES ASSUME NEW k \in 1 .. n + 1 PROVE Append(chunks, cur)[k] = a + (k - 1) * s
        OBVIOUS
      <4>1. CASE k = n + 1
        <5>1. k - 1 = n
          BY <4>1, <1>1 DEF n
        <5> QED
          BY <5>1, <4>1, <3>1, <3>3, <2>5
      <4>2. CASE k # n + 1
        <5>1. k \in 1 .. n /\ n \in Nat
          BY <4>2, <1>1 DEF n
        <5> QED
          BY <5>1, <4>2, <3>3, <1>1 DEF n
      <4> QED
        BY <4>1, <4>2
    <3>5. Append(chunks, cur)[n + 1] = cur /\ n + 1 \in Nat /\ n + 1 > 0
      BY <3>3, <1>1 DEF n
    <3> QED
      BY <2>7, <3>2, <3>4, <3>5 DEF ChunksBefore
  <2>8. CASE cur % s # 0
    <3>1. cur # last + s
      BY <2>6, <2>8
    <3>2. last < cur + 1 /\ cur + 1 <= last + s
      BY <3>1, <2>2, <2>4
    <3> QED
      BY <1>1, <1>3, <2>2, <2>8, <3>2 DEF ChunksBefore, n
  <2> QED
    BY <2>7, <2>8
<1> QED
  BY <1>2, <1>3

\* The block is judged, whatever its slot held.
LEMMA MetadataKeeps == ASSUME FileInv, GetMetadataBuffer PROVE FileInv'
<1> DEFINE slot == BlockSlot(block_id)
           L == block_start_pulse_id
<1>1. /\ OfflineTypeOK /\ AlignedRange /\ BlocksInTurn /\ ChunksInStep /\ MetadataInPlace
      /\ pc = "meta" /\ pc' = "write"
      /\ UNCHANGED <<content, asked, start_pulse_id, stop_pulse_id, pulse_id_step, block_id, i_image,
                    images, b_metadata, rows>>
  BY DEF FileInv, GetMetadataBuffer, rangeVars, fileVars
<1>2. meta_blocks' = [meta_blocks EXCEPT ![slot] = [i \in Index |-> ImageOf(L + i, @[i])]]
  BY DEF GetMetadataBuffer
<1>3. L \in Nat
  BY <1>1, BlockBounds DEF Working
<1>4. slot \in 0 .. WRITER_IA_N_SLOTS - 1
  BY <1>1, OfflineAssumption, Division DEF OfflineTypeOK, BlockSlot
<1>5. Index \subseteq Nat /\ meta_blocks[slot] \in [Index -> ImageRow]
  BY <1>1, <1>4 DEF OfflineTypeOK, Index
<1> HIDE DEF slot, L
<1>6. \A i \in Index : /\ ImageOf(L + i, meta_blocks[slot][i]) \in ImageRow
                       /\ Describes(ImageOf(L + i, meta_blocks[slot][i]), L + i)
  <2> SUFFICES ASSUME NEW i \in Index
               PROVE  /\ ImageOf(L + i, meta_blocks[slot][i]) \in ImageRow
                      /\ Describes(ImageOf(L + i, meta_blocks[slot][i]), L + i)
    OBVIOUS
  <2>1. L + i \in Nat /\ meta_blocks[slot][i] \in ImageRow
    BY <1>3, <1>5
  <2> QED
    BY <2>1, ImageDescribes
<1>7. /\ meta_blocks' \in [0 .. WRITER_IA_N_SLOTS - 1 -> [Index -> ImageRow]]
      /\ \A i \in Index : meta_blocks'[slot][i] = ImageOf(L + i, meta_blocks[slot][i])
  BY <1>1, <1>2, <1>4, <1>5, <1>6 DEF OfflineTypeOK
<1>8. /\ L' = L /\ n_images_offset' = n_images_offset /\ n_images_to_copy' = n_images_to_copy
      /\ start_block' = start_block /\ stop_block' = stop_block /\ (RangeAccepted' <=> RangeAccepted)
      /\ AskedPulses' = AskedPulses /\ NextMetadata' = NextMetadata /\ NextChunk' = NextChunk
      /\ BlockSlot(block_id)' = slot
  <2>1. NextMetadata' = NextMetadata
    BY <1>1 DEF NextMetadata
  <2>2. NextChunk' = NextChunk
    BY <1>1, <2>1 DEF NextChunk
  <2> QED
    BY <1>1, <2>1, <2>2, SameBlock DEF AskedPulses, L, slot, BlockSlot
<1>9. OfflineTypeOK'
  BY <1>1, <1>7, <1>8 DEF OfflineTypeOK, Opened, Working
<1>10. AlignedRange'
  BY <1>1, <1>8 DEF AlignedRange, Opened, Working
<1>11. BlocksInTurn'
  BY <1>1, <1>8 DEF BlocksInTurn, Working, L
<1>12. ChunksInStep'
  BY <1>1, <1>8 DEF ChunksInStep, Opened, Working
<1>13. MetadataInPlace'
  <2>1. \A row, p : Describes(row, p)' <=> Describes(row, p)
    BY <1>1, SameDescriptions
  <2>2. \A i \in Index : Describes(meta_blocks[BlockSlot(block_id)][i], block_start_pulse_id + i)'
    <3>1. \A i \in Index : Describes(meta_blocks'[slot][i], L + i)
      BY <1>6, <1>7
    <3> QED
      BY <3>1, <2>1, <1>8 DEF L
  <2>3. \A j \in 1 .. Len(b_metadata) : Describes(b_metadata[j], start_pulse_id + (j - 1))
    BY <1>1 DEF MetadataInPlace, Opened, Working
  <2>4. (\A j \in 1 .. Len(b_metadata) : Describes(b_metadata[j], start_pulse_id + (j - 1)))'
    BY <2>1, <2>3, <1>1
  <2> QED
    BY <2>2, <2>4, <1>1 DEF MetadataInPlace
<1> QED
  BY <1>9, <1>10, <1>11, <1>12, <1>13 DEF FileInv

\* Steps of write() leave the metadata where it is.
LEMMA MetadataStays ==
    ASSUME MetadataInPlace, pc \in Working, pc' \in {"write", "chunks"}, pc # "meta",
           UNCHANGED <<content, start_pulse_id, block_id, meta_blocks, b_metadata>>
    PROVE  MetadataInPlace'
<1>1. \A row, p : Describes(row, p)' <=> Describes(row, p)
  BY SameDescriptions
<1>2. block_start_pulse_id' = block_start_pulse_id /\ BlockSlot(block_id)' = BlockSlot(block_id)
  BY DEF block_start_pulse_id, BlockSlot
<1>3. \A i \in Index : Describes(meta_blocks[BlockSlot(block_id)][i], block_start_pulse_id + i)
  BY DEF MetadataInPlace, Working
<1>4. (\A i \in Index : Describes(meta_blocks[BlockSlot(block_id)][i], block_start_pulse_id + i))'
  BY <1>1, <1>2, <1>3
<1>5. \A j \in 1 .. Len(b_metadata) : Describes(b_metadata[j], start_pulse_id + (j - 1))
  BY DEF MetadataInPlace, Opened
<1>6. (\A j \in 1 .. Len(b_metadata) : Describes(b_metadata[j], start_pulse_id + (j - 1)))'
  BY <1>1, <1>5
<1> QED
  BY <1>4, <1>6 DEF MetadataInPlace

\* write() finds the block it expects.
LEMMA BeginKeeps == ASSUME FileInv, BeginWrite PROVE FileInv'
<1>1. /\ OfflineTypeOK /\ AlignedRange /\ BlocksInTurn /\ ChunksInStep /\ MetadataInPlace
      /\ pc = "write" /\ i_image' = n_images_offset
      /\ UNCHANGED <<content, asked, start_pulse_id, stop_pulse_id, pulse_id_step, block_id, meta_blocks,
                    images, b_metadata, rows>>
  BY DEF FileInv, BeginWrite, rangeVars, fileVars
<1>2. /\ n_images_offset \in 0 .. BUFFER_BLOCK_SIZE - 1 /\ BUFFER_BLOCK_SIZE \in Nat
      /\ n_images_to_copy \in 1 .. BUFFER_BLOCK_SIZE - n_images_offset
      /\ NextMetadata = block_start_pulse_id + n_images_offset
  BY <1>1, BlockBounds, OfflineAssumption DEF Working, BlocksInTurn
<1>3. pc' = "chunks"
  <2>1. ~(n_images_offset > BUFFER_BLOCK_SIZE \/ n_images_to_copy = 0)
    BY <1>2
  <2> QED
    BY <2>1 DEF BeginWrite
<1>4. /\ block_start_pulse_id' = block_start_pulse_id
      /\ n_images_offset' = n_images_offset /\ n_images_to_copy' = n_images_to_copy
      /\ start_block' = start_block /\ stop_block' = stop_block /\ (RangeAccepted' <=> RangeAccepted)
      /\ AskedPulses' = AskedPulses /\ NextMetadata' = NextMetadata
  BY <1>1, SameBlock DEF AskedPulses, NextMetadata
<1>5. NextChunk' = NextChunk
  <2>1. NextChunk = NextMetadata
    BY <1>1 DEF NextChunk
  <2>2. NextChunk' = block_start_pulse_id + n_images_offset
    BY <1>1, <1>3, <1>4 DEF NextChunk
  <2> QED
    BY <2>1, <2>2, <1>2
<1>6. OfflineTypeOK'
  BY <1>1, <1>2, <1>3, <1>4 DEF OfflineTypeOK, Opened, Working
<1>7. AlignedRange'
  BY <1>1, <1>3, <1>4 DEF AlignedRange, Opened, Working
<1>8. BlocksInTurn'
  <2>1. i_image' \in n_images_offset .. n_images_offset + n_images_to_copy
    BY <1>1, <1>2
  <2> QED
    BY <1>1, <1>2, <1>3, <1>4, <2>1 DEF BlocksInTurn, Working
<1>9. ChunksInStep'
  BY <1>1, <1>3, <1>5 DEF ChunksInStep, Opened, Working
<1>10. MetadataInPlace'
  BY <1>1, <1>3, MetadataStays DEF Working
<1> QED
  BY <1>6, <1>7, <1>8, <1>9, <1>10 DEF FileInv

\* The chunk of an image is written if the image is a multiple of the step: its block is.
LEMMA ChunkKeeps == ASSUME FileInv, WriteChunk PROVE FileInv'
<1> DEFINE s == pulse_id_step
           L == block_start_pulse_id
           cur == L + i_image
<1>1. /\ OfflineTypeOK /\ AlignedRange /\ BlocksInTurn /\ ChunksInStep /\ MetadataInPlace
      /\ pc = "chunks" /\ pc' = pc /\ i_image' = i_image + 1 /\ ~ChunksDone
      /\ UNCHANGED <<content, asked, start_pulse_id, stop_pulse_id, pulse_id_step, block_id, meta_blocks,
                    b_metadata, rows>>
  BY DEF FileInv, WriteChunk, rangeVars
<1>2. images' = IF i_image % s = 0 THEN Append(images, cur) ELSE images
  BY DEF WriteChunk, InStep
<1>3. /\ L \in Nat /\ L % s = 0
      /\ n_images_offset \in 0 .. BUFFER_BLOCK_SIZE - 1
      /\ n_images_to_copy \in 1 .. BUFFER_BLOCK_SIZE - n_images_offset
  BY <1>1, BlockBounds DEF Working
<1>4. /\ s \in Nat \ {0} /\ start_pulse_id \in Nat /\ start_pulse_id % s = 0 /\ images \in Seq(Nat)
      /\ i_image \in Nat
  BY <1>1, RequestTypes DEF OfflineTypeOK, AlignedRange
<1>5. ChunksBefore(images, start_pulse_id, s, cur)
  BY <1>1 DEF ChunksInStep, Opened, Working, NextChunk
<1> HIDE DEF s, L
<1>6. cur \in Nat /\ cur % s = i_image % s
  <2>1. (L + i_image) % s = (i_image % s)
    BY <1>3, <1>4, SumOfMultiples
  <2> QED
    BY <2>1, <1>3, <1>4
<1> HIDE DEF cur
<1>7. images' \in Seq(Nat) /\ ChunksBefore(images', start_pulse_id, s, cur + 1)
  BY <1>2, <1>4, <1>5, <1>6, ChunksGoOn
<1>8. /\ L' = L /\ n_images_offset' = n_images_offset /\ n_images_to_copy' = n_images_to_copy
      /\ start_block' = start_block /\ stop_block' = stop_block /\ (RangeAccepted' <=> RangeAccepted)
      /\ AskedPulses' = AskedPulses /\ NextMetadata' = NextMetadata
  BY <1>1, SameBlock DEF AskedPulses, NextMetadata, L
<1>9. NextChunk' = cur + 1
  <2>1. NextChunk' = L + (i_image + 1)
    BY <1>1, <1>8 DEF NextChunk, L
  <2> QED
    BY <2>1, <1>3, <1>4 DEF cur
<1>10. OfflineTypeOK'
  BY <1>1, <1>4, <1>7, <1>8 DEF OfflineTypeOK
<1>11. AlignedRange'
  BY <1>1, <1>8 DEF AlignedRange, Opened, Working
<1>12. BlocksInTurn'
  <2>1. i_image + 1 \in n_images_offset .. n_images_offset + n_images_to_copy
    <3>1. i_image \in n_images_offset .. n_images_offset + n_images_to_copy
      BY <1>1 DEF BlocksInTurn
    <3>2. i_image # n_images_offset + n_images_to_copy
      BY <1>1 DEF ChunksDone
    <3> QED
      BY <3>1, <3>2, <1>3
  <2> QED
    BY <1>1, <1>8, <2>1 DEF BlocksInTurn, Working, L
<1>13. ChunksInStep'
  BY <1>1, <1>7, <1>9 DEF ChunksInStep, s
<1>14. MetadataInPlace'
  BY <1>1, MetadataStays DEF Working
<1> QED
  BY <1>10, <1>11, <1>12, <1>13, <1>14 DEF FileInv

\* Once the chunks of a block are written its metadata is kept, and the next block follows.
LEMMA CopyKeeps == ASSUME FileInv, CopyMetadata PROVE FileInv'
<1> DEFINE a == start_pulse_id
           z == stop_pulse_id
           B == BUFFER_BLOCK_SIZE
           L == block_start_pulse_id
           o == n_images_offset
           n == n_images_to_copy
           slot == BlockSlot(block_id)
           copied == [k \in 1 .. n |-> meta_blocks[slot][o + k - 1]]
           kept == Len(b_metadata)
<1>1. /\ OfflineTypeOK /\ AlignedRange /\ BlocksInTurn /\ ChunksInStep /\ MetadataInPlace
      /\ pc = "chunks" /\ i_image = o + n /\ block_id' = block_id + 1
      /\ pc' = IF block_id = stop_block THEN "close" ELSE "meta"
      /\ b_metadata' = b_metadata \o copied
      /\ UNCHANGED <<content, asked, start_pulse_id, stop_pulse_id, pulse_id_step, i_image, meta_blocks,
                    images, rows>>
  BY DEF FileInv, CopyMetadata, ChunksDone, rangeVars
<1>2. /\ L \in Nat /\ o \in 0 .. B - 1 /\ n \in 1 .. B - o /\ B \in Nat \ {0}
      /\ a \in Nat /\ z \in Nat /\ block_id \in Nat
      /\ block_id # stop_block =>
            /\ L + o + n = L + B /\ a < L + B
            /\ (block_id + 1) * B = L + B /\ block_id + 1 \in start_block .. stop_block
      /\ block_id = stop_block => L + o + n = z + 1
  BY <1>1, BlockBounds, RequestTypes, OfflineAssumption DEF Working, OfflineTypeOK
<1>3. slot \in 0 .. WRITER_IA_N_SLOTS - 1
  BY <1>1, OfflineAssumption, Division DEF OfflineTypeOK, BlockSlot
<1>4. /\ meta_blocks[slot] \in [Index -> ImageRow] /\ b_metadata \in Seq(ImageRow) /\ kept \in Nat
      /\ a + kept = L + o
  BY <1>1, <1>3 DEF OfflineTypeOK, BlocksInTurn, NextMetadata, Working
<1>5. start_block' = start_block /\ stop_block' = stop_block
  BY <1>1 DEF start_block, stop_block
<1>6. AskedPulses' = AskedPulses /\ (RangeAccepted' <=> RangeAccepted)
  BY <1>1 DEF AskedPulses, RangeAccepted
<1>7. pc' \in {"meta", "close"} /\ (pc' = "meta" <=> block_id # stop_block)
  BY <1>1
<1> HIDE DEF a, z, L, o, n, slot, kept, B
<1>8. \A k \in 1 .. n : o + k - 1 \in Index
  BY <1>2 DEF Index, B
<1>9. copied \in Seq(ImageRow) /\ Len(copied) = n /\ \A k \in 1 .. n : copied[k] = meta_blocks[slot][o + k - 1]
  <2>1. n \in Nat
    BY <1>2
  <2> DEFINE row(k) == meta_blocks[slot][o + k - 1]
  <2>2. \A k \in 1 .. n : row(k) \in ImageRow
    BY <1>4, <1>8
  <2>3. copied = [k \in 1 .. n |-> row(k)]
    OBVIOUS
  <2> HIDE DEF copied, row
  <2>4. copied \in Seq(ImageRow) /\ Len(copied) = n /\ \A k \in 1 .. n : copied[k] = row(k)
    BY <2>1, <2>2, <2>3
  <2> QED
    BY <2>4 DEF row
<1> HIDE DEF copied
<1>10. /\ b_metadata' \in Seq(ImageRow) /\ Len(b_metadata') = kept + n
       /\ \A j \in 1 .. kept + n :
             b_metadata'[j] = IF j <= kept THEN b_metadata[j] ELSE copied[j - kept]
  <2> DEFINE both == b_metadata \o copied
  <2>1. both \in Seq(ImageRow)
    BY <1>4, <1>9
  <2>4. Len(both) = kept + n
    <3>1. b_metadata \in Seq(ImageRow) /\ copied \in Seq(ImageRow)
      BY <1>4, <1>9
    <3>2. Len(both) = Len(b_metadata) + Len(copied)
      BY <3>1
    <3> QED
      BY <3>2, <1>9, Zenon DEF kept
  <2>2. \A j \in 1 .. kept + n : both[j] = IF j <= kept THEN b_metadata[j] ELSE copied[j - kept]
    BY <1>4, <1>9 DEF kept
  <2>3. b_metadata' = both
    BY <1>1
  <2> HIDE DEF both
  <2> QED
    BY <2>1, <2>2, <2>3, <2>4
<1>11. OfflineTypeOK'
  <2>1. block_id' \in Nat
    BY <1>1, <1>2
  <2> QED
    BY <1>1, <1>6, <1>7, <1>10, <2>1 DEF OfflineTypeOK, Opened, Working
<1>12. AlignedRange'
  BY <1>1, <1>6, <1>7 DEF AlignedRange, Opened, Working
<1>13. NextMetadata' = L + o + n
  <2>1. NextMetadata' = a + (kept + n)
    BY <1>1, <1>10 DEF NextMetadata, a
  <2> QED
    BY <2>1, <1>2, <1>4
<1>14. BlocksInTurn'
  <2>1. CASE pc' = "meta"
    <3>1. block_start_pulse_id' = L + B
      BY <1>1, <1>2, <1>7, <2>1 DEF block_start_pulse_id, B
    <3>2. n_images_offset' = 0
      BY <1>1, <1>2, <1>7, <2>1, <3>1 DEF n_images_offset, a
    <3>3. NextMetadata' = block_start_pulse_id' + n_images_offset'
      BY <1>2, <1>7, <1>13, <2>1, <3>1, <3>2
    <3>4. block_id' \in start_block' .. stop_block'
      BY <1>1, <1>2, <1>5, <1>7, <2>1
    <3> QED
      BY <2>1, <3>3, <3>4 DEF BlocksInTurn
  <2>2. CASE pc' = "close"
    <3>1. NextMetadata' = stop_pulse_id' + 1
      BY <1>1, <1>2, <1>7, <1>13, <2>2 DEF z
    <3> QED
      BY <2>2, <3>1 DEF BlocksInTurn, Working
  <2> QED
    BY <1>7, <2>1, <2>2
<1>15. ChunksInStep'
  <2>1. NextChunk = L + (o + n)
    BY <1>1 DEF NextChunk, L
  <2>2. NextChunk' = L + o + n
    BY <1>7, <1>13 DEF NextChunk
  <2>3. NextChunk' = NextChunk
    BY <2>1, <2>2, <1>2
  <2> QED
    BY <1>1, <1>7, <2>3 DEF ChunksInStep, Opened, Working
<1>16. MetadataInPlace'
  <2>1. \A row, p : Describes(row, p)' <=> Describes(row, p)
    BY <1>1, SameDescriptions
  <2>2. /\ \A i \in Index : Describes(meta_blocks[slot][i], L + i)
        /\ \A j \in 1 .. kept : Describes(b_metadata[j], a + (j - 1))
    BY <1>1 DEF MetadataInPlace, Opened, Working, slot, L, kept, a
  <2>3. ASSUME NEW j \in 1 .. kept + n PROVE Describes(b_metadata'[j], a + (j - 1))
    <3>1. CASE j <= kept
      <4>1. j \in 1 .. kept /\ b_metadata'[j] = b_metadata[j]
        BY <3>1, <1>10, <1>4, <1>2
      <4> QED
        BY <4>1, <2>2
    <3>2. CASE ~(j <= kept)
      <4>1. PICK k \in 1 .. n : k = j - kept
        BY <3>2, <1>2, <1>4
      <4>2. b_metadata'[j] = meta_blocks[slot][o + k - 1]
        BY <3>2, <4>1, <1>9, <1>10
      <4>3. L + (o + k - 1) = a + (j - 1)
        BY <4>1, <1>2, <1>4
      <4>4. Describes(meta_blocks[slot][o + k - 1], L + (o + k - 1))
        BY <1>8, <2>2
      <4> QED
        BY <4>2, <4>3, <4>4
    <3> QED
      BY <3>1, <3>2
  <2>4. \A j \in 1 .. Len(b_metadata') : Describes(b_metadata'[j], start_pulse_id' + (j - 1))
    BY <2>3, <1>1, <1>10 DEF a
  <2>5. (\A j \in 1 .. Len(b_metadata) : Describes(b_metadata[j], start_pulse_id + (j - 1)))'
    BY <2>1, <2>4
  <2> QED
    BY <1>7, <2>5 DEF MetadataInPlace
<1> QED
  BY <1>11, <1>12, <1>14, <1>15, <1>16 DEF FileInv

\* The rows are taken from the metadata that was kept.
LEMMA WriteMetadataKeeps == ASSUME FileInv, WriteMetadata PROVE FileInv'
<1>1. /\ OfflineTypeOK /\ AlignedRange /\ BlocksInTurn /\ ChunksInStep /\ MetadataInPlace
      /\ pc = "close" /\ pc' = "closed"
      /\ UNCHANGED <<content, asked, start_pulse_id, stop_pulse_id, pulse_id_step, block_id, i_image,
                    meta_blocks, images, b_metadata>>
  BY DEF FileInv, WriteMetadata, rangeVars
<1>2. /\ n_images' = n_images /\ (RangeAccepted' <=> RangeAccepted) /\ AskedPulses' = AskedPulses
      /\ NextMetadata' = NextMetadata
  BY <1>1, SameBlock DEF AskedPulses, NextMetadata
<1>3. NextChunk' = NextChunk
  BY <1>1, <1>2 DEF NextChunk
<1>4. OfflineTypeOK'
  BY <1>1, <1>2 DEF OfflineTypeOK, Opened
<1>5. AlignedRange'
  BY <1>1, <1>2 DEF AlignedRange, Opened
<1>6. BlocksInTurn'
  BY <1>1, <1>2 DEF BlocksInTurn, Working
<1>7. ChunksInStep'
  BY <1>1, <1>3 DEF ChunksInStep, Opened
<1>8. MetadataInPlace'
  <2>1. \A row, p : Describes(row, p)' <=> Describes(row, p)
    BY <1>1, SameDescriptions
  <2>2. \A j \in 1 .. Len(b_metadata) : Describes(b_metadata[j], start_pulse_id + (j - 1))
    BY <1>1 DEF MetadataInPlace, Opened
  <2>3. (\A j \in 1 .. Len(b_metadata) : Describes(b_metadata[j], start_pulse_id + (j - 1)))'
    BY <2>1, <2>2, <1>1
  <2>4. (rows = [k \in 1 .. n_images |->
                   LET i == (k - 1) * pulse_id_step + 1 IN
                   IF i <= Len(b_metadata) THEN b_metadata[i] ELSE Unset])'
    BY <1>1, <1>2 DEF WriteMetadata, Unset
  <2> QED
    BY <1>1, <2>3, <2>4 DEF MetadataInPlace
<1> QED
  BY <1>4, <1>5, <1>6, <1>7, <1>8 DEF FileInv

\* A step that changes nothing keeps what speaks of the state alone.
LEMMA StutterKeeps == ASSUME FileInv, UNCHANGED vars PROVE FileInv'
<1>1. UNCHANGED <<content, asked, start_pulse_id, stop_pulse_id, pulse_id_step, pc, block_id, i_image,
                  meta_blocks, images, b_metadata, rows>>
  BY DEF vars, rangeVars, fileVars
<1>2. /\ block_start_pulse_id' = block_start_pulse_id
      /\ n_images_offset' = n_images_offset /\ n_images_to_copy' = n_images_to_copy
      /\ start_block' = start_block /\ stop_block' = stop_block
      /\ n_images' = n_images /\ (RangeAccepted' <=> RangeAccepted)
      /\ AskedPulses' = AskedPulses /\ NextMetadata' = NextMetadata
      /\ BlockSlot(block_id)' = BlockSlot(block_id)
  BY <1>1, SameBlock DEF AskedPulses, NextMetadata, BlockSlot
<1>3. NextChunk' = NextChunk
  BY <1>1, <1>2 DEF NextChunk
<1>4. OfflineTypeOK' /\ AlignedRange' /\ BlocksInTurn' /\ ChunksInStep'
  BY <1>1, <1>2, <1>3 DEF FileInv, OfflineTypeOK, AlignedRange, BlocksInTurn, ChunksInStep
<1>5. MetadataInPlace'
  <2>1. \A row, p : Describes(row, p)' <=> Describes(row, p)
    BY <1>1, SameDescriptions
  <2>2. MetadataInPlace
    BY DEF FileInv
  <2>3. (pc \in {"write", "chunks"} =>
           \A i \in Index : Describes(meta_blocks[BlockSlot(block_id)][i], block_start_pulse_id + i))'
    BY <2>1, <2>2, <1>1, <1>2 DEF MetadataInPlace
  <2>4. (pc \in Opened =>
           \A j \in 1 .. Len(b_metadata) : Describes(b_metadata[j], start_pulse_id + (j - 1)))'
    BY <2>1, <2>2, <1>1 DEF MetadataInPlace
  <2>5. (pc = "closed" =>
           rows = [k \in 1 .. n_images |->
                     LET i == (k - 1) * pulse_id_step + 1 IN
                     IF i <= Len(b_metadata) THEN b_metadata[i] ELSE Unset])'
    BY <2>2, <1>1, <1>2 DEF MetadataInPlace, Unset
  <2> QED
    BY <2>3, <2>4, <2>5 DEF MetadataInPlace
<1> QED
  BY <1>4, <1>5 DEF FileInv

\* The invariant of sf_writer's main thread, of the range, the blocks, the chunks and the
\* metadata, holds for any request, block size, step and frames.
THEOREM FileInvariant == Spec => []FileInv
<1>1. FileInv /\ [Next]_vars => FileInv'
  <2> SUFFICES ASSUME FileInv, [Next]_vars PROVE FileInv'
    OBVIOUS
  <2>1. CASE Align
    BY <2>1, AlignKeeps
  <2>2. CASE Construct
    BY <2>2, ConstructKeeps
  <2>3. CASE GetMetadataBuffer
    BY <2>3, MetadataKeeps
  <2>4. CASE BeginWrite
    BY <2>4, BeginKeeps
  <2>5. CASE WriteChunk
    BY <2>5, ChunkKeeps
  <2>6. CASE CopyMetadata
    BY <2>6, CopyKeeps
  <2>7. CASE WriteMetadata
    BY <2>7, WriteMetadataKeeps
  <2>8. CASE Ended \/ UNCHANGED vars
    BY <2>8, StutterKeeps DEF Ended
  <2> QED
    BY <2>1, <2>2, <2>3, <2>4, <2>5, <2>6, <2>7, <2>8 DEF Next
<1> QED
  BY <1>1, FileInit, PTL DEF Spec

-----------------------------------------------------------------------------
(* sf_writer: what the invariant says of the file.                           *)

\* A closed file has an image and a row for every multiple of the step in the range.
LEMMA ClosedFile ==
    ASSUME FileInv, pc = "closed"
    PROVE  /\ n_images \in Nat \ {0} /\ Len(images) = n_images /\ Len(rows) = n_images
           /\ stop_pulse_id = start_pulse_id + (n_images - 1) * pulse_id_step
           /\ \A k \in 1 .. n_images :
                 /\ images[k] = start_pulse_id + (k - 1) * pulse_id_step
                 /\ images[k] \in start_pulse_id .. stop_pulse_id
                 /\ Describes(rows[k], images[k])
<1> DEFINE a == start_pulse_id
           z == stop_pulse_id
           s == pulse_id_step
           N == n_images
           M == Len(images)
<1>1. /\ OfflineTypeOK /\ AlignedRange /\ BlocksInTurn /\ ChunksInStep /\ MetadataInPlace
  BY DEF FileInv
<1>2. /\ a \in Nat /\ z \in Nat /\ s \in Nat \ {0} /\ a <= z /\ a % s = 0 /\ z % s = 0
      /\ images \in Seq(Nat) /\ b_metadata \in Seq(ImageRow)
  BY <1>1, RequestTypes DEF OfflineTypeOK, AlignedRange, RangeAccepted, Opened
<1>3. a + Len(b_metadata) = z + 1 /\ NextChunk = z + 1
  BY <1>1 DEF BlocksInTurn, NextMetadata, NextChunk
<1>4. ChunksBefore(images, a, s, z + 1)
  BY <1>1, <1>3 DEF ChunksInStep, Opened
<1> DEFINE qa == a \div s
           qz == z \div s
<1>5. qa \in Nat /\ qz \in Nat /\ a = qa * s /\ z = qz * s /\ qa <= qz
  <2>1. qa \in Nat /\ qz \in Nat /\ a = qa * s + (a % s) /\ z = qz * s + (z % s)
    BY <1>2, Division
  <2>2. qa <= qz
    BY <1>2, DivMonotone
  <2> HIDE DEF qa, qz
  <2> QED
    BY <2>1, <2>2, <1>2
<1>6. N = 1 + qz - qa
  BY DEF n_images
<1> HIDE DEF a, z, s, qa, qz, N
<1>7. N \in Nat \ {0} /\ (N - 1) * s = z - a /\ N - 1 \in Nat
  <2>1. N \in Nat \ {0} /\ N - 1 = qz - qa
    BY <1>5, <1>6
  <2>2. (qz - qa) * s = qz * s - qa * s
    BY <1>2, <1>5
  <2> QED
    BY <2>1, <2>2, <1>5
<1>8. M \in Nat \ {0} /\ images[M] = a + (M - 1) * s /\ images[M] < z + 1 /\ z + 1 <= images[M] + s
  <2>1. M \in Nat /\ M # 0
    BY <1>2, <1>4 DEF ChunksBefore
  <2>2. M > 0 /\ M \in 1 .. M
    BY <2>1
  <2> HIDE DEF M
  <2>3. images[M] = a + (M - 1) * s
    BY <2>2, <1>4 DEF ChunksBefore, M
  <2> QED
    BY <2>1, <2>2, <2>3, <1>4 DEF ChunksBefore, M
<1> HIDE DEF M
<1>9. M = N
  <2> DEFINE m == M - 1
             n == N - 1
             e == m * s
  <2>1. m \in Nat /\ n \in Nat /\ images[M] = a + e /\ n * s = z - a
    BY <1>7, <1>8
  <2> HIDE DEF m, n
  <2>2. e \in Nat
    BY <2>1, <1>2
  <2>3. ~(m < n)
    <3>1. m < n => e + s <= n * s
      BY <2>1, <1>2, Multiplying
    <3> HIDE DEF e
    <3> QED
      BY <3>1, <2>1, <2>2, <1>2, <1>8
  <2>4. ~(n < m)
    <3>1. n < m => n * s + s <= e
      BY <2>1, <1>2, Multiplying
    <3> HIDE DEF e
    <3> QED
      BY <3>1, <2>1, <2>2, <1>2, <1>8
  <2> QED
    BY <2>1, <2>3, <2>4, <1>7, <1>8 DEF m, n
<1>10. ASSUME NEW k \in 1 .. N
       PROVE  /\ images[k] = a + (k - 1) * s /\ images[k] \in a .. z
              /\ (k - 1) * s \in Nat /\ (k - 1) * s + 1 <= Len(b_metadata)
  <2> DEFINE j == k - 1
             n == N - 1
             e == j * s
  <2>1. images[k] = a + e
    BY <1>4, <1>9 DEF ChunksBefore, M
  <2>2. j \in Nat /\ n \in Nat /\ j <= n /\ n * s = z - a
    BY <1>7
  <2> HIDE DEF j, n
  <2>3. e \in Nat
    BY <2>2, <1>2
  <2>4. e <= z - a
    <3>1. j < n => e + s <= n * s
      BY <2>2, <1>2, Multiplying
    <3>2. j = n => e = n * s
      OBVIOUS
    <3> HIDE DEF e
    <3> QED
      BY <3>1, <3>2, <2>2, <2>3, <1>2
  <2> HIDE DEF e
  <2>5. e + 1 <= Len(b_metadata) /\ a + e \in a .. z
    BY <2>3, <2>4, <1>2, <1>3 DEF a
  <2> QED
    BY <2>1, <2>3, <2>5 DEF e, j
<1>11. rows = [k \in 1 .. N |-> LET i == (k - 1) * s + 1 IN IF i <= Len(b_metadata) THEN b_metadata[i] ELSE Unset]
  BY <1>1, Zenon DEF MetadataInPlace, N, s
<1>12. Len(rows) = N
  <2> DEFINE row(k) == LET i == (k - 1) * s + 1 IN IF i <= Len(b_metadata) THEN b_metadata[i] ELSE Unset
  <2>1. rows = [k \in 1 .. N |-> row(k)]
    BY <1>11
  <2> HIDE DEF row
  <2> QED
    BY <2>1, <1>7
<1>13. ASSUME NEW k \in 1 .. N PROVE Describes(rows[k], images[k])
  <2> DEFINE e == (k - 1) * s
  <2>1. /\ images[k] = a + e /\ e \in Nat /\ e + 1 <= Len(b_metadata)
    BY <1>10
  <2>2. rows[k] = IF e + 1 <= Len(b_metadata) THEN b_metadata[e + 1] ELSE Unset
    BY <1>11, Zenon
  <2> HIDE DEF e
  <2>3. rows[k] = b_metadata[e + 1]
    BY <2>1, <2>2
  <2>4. e + 1 \in 1 .. Len(b_metadata) /\ (e + 1) - 1 = e
    BY <2>1, <1>2
  <2>5. Describes(b_metadata[e + 1], a + ((e + 1) - 1))
    BY <2>4, <1>1 DEF MetadataInPlace, Opened, a
  <2>6. a + ((e + 1) - 1) = images[k]
    BY <2>1, <2>4
  <2> QED
    BY <2>3, <2>5, <2>6
<1>14. z = a + (N - 1) * s
  BY <1>2, <1>7
<1> QED
  BY <1>7, <1>9, <1>10, <1>12, <1>13, <1>14 DEF a, z, s, N, M

\* What a frame of the files says, by what it is.
LEMMA FrameQuality ==
    ASSUME NEW p, content[p] \in [Module -> Quality]
    PROVE  /\ CompleteAt(p) \subseteq Module
           /\ \A m \in Module :
                 /\ m \in CompleteAt(p) <=> content[p][m] \in {"complete", "shifted", "recoded"}
                 /\ m \in CompleteAt(p) =>
                       /\ FrameMeta(p, m).pulse_id = p
                       /\ FrameMeta(p, m).frame_index = IF content[p][m] = "shifted" THEN p + 1 ELSE p
<1>1. CompleteAt(p) = {m \in Module : FrameMeta(p, m).n_recv_packets = NPackets}
  BY DEF CompleteAt, Complete, Frames
<1>2. ASSUME NEW m \in Module
      PROVE  /\ FrameMeta(p, m).n_recv_packets = NPackets
                   <=> content[p][m] \in {"complete", "shifted", "recoded"}
             /\ FrameMeta(p, m).n_recv_packets = NPackets =>
                   /\ FrameMeta(p, m).pulse_id = p
                   /\ FrameMeta(p, m).frame_index = IF content[p][m] = "shifted" THEN p + 1 ELSE p
  <2>1. content[p][m] \in Quality
    OBVIOUS
  <2>2. NPackets \in Nat \ {0} /\ NPackets - 1 # NPackets /\ 0 # NPackets
    BY ImageAssumption
  <2> QED
    BY <2>1, <2>2 DEF FrameMeta, Quality
<1> QED
  BY <1>1, <1>2

\* The first complete frame is one of them.
LEMMA FirstIsComplete ==
    ASSUME NEW p, CompleteAt(p) # {}
    PROVE  Min(CompleteAt(p)) \in CompleteAt(p)
<1>1. CompleteAt(p) \in SUBSET Nat
  BY ImageAssumption DEF CompleteAt, Complete, Module
<1> QED
  BY <1>1, MinOfNat

\* The frames of a written image.
LEMMA WrittenImage ==
    ASSUME FileInv, pc = "closed", NEW k \in 1 .. n_images
    PROVE  /\ images[k] \in Nat /\ asked[1] <= images[k] /\ images[k] <= asked[2]
           /\ images[k] \in Pulse /\ content[images[k]] \in [Module -> Quality]
<1>1. /\ asked \in Requests /\ content \in [AskedPulses -> ImageContents] /\ start_pulse_id \in Nat
      /\ stop_pulse_id = asked[2] /\ asked[1] <= start_pulse_id
  BY DEF FileInv, OfflineTypeOK, AlignedRange
<1>2. asked[1] \in Nat /\ asked[2] \in Nat
  BY <1>1, RequestTypes
<1>3. images[k] \in start_pulse_id .. stop_pulse_id
  BY ClosedFile
<1>4. images[k] \in Nat /\ asked[1] <= images[k] /\ images[k] <= asked[2]
  BY <1>1, <1>2, <1>3
<1>5. images[k] \in AskedPulses /\ images[k] \in Pulse
  BY <1>1, <1>4, AskedThere
<1> QED
  BY <1>1, <1>4, <1>5, OfflineAssumption

\* The chunks in the file are the multiples of the step in the request.
LEMMA ImagesOfRequest == FileInv => RequestedImages
<1> SUFFICES ASSUME FileInv PROVE RequestedImages
  OBVIOUS
<1> DEFINE a == start_pulse_id
           z == stop_pulse_id
           s == pulse_id_step
<1>1. /\ OfflineTypeOK /\ AlignedRange
  BY DEF FileInv
<1>2. /\ asked \in Requests /\ a \in Nat /\ z = asked[2] /\ s = asked[3]
      /\ asked[1] \in Nat /\ asked[2] \in Nat /\ s \in Nat \ {0}
  BY <1>1, RequestTypes DEF OfflineTypeOK
<1>3. ASSUME pc = "closed"
      PROVE  /\ {images[k] : k \in 1 .. Len(images)} =
                   {p \in Pulse : asked[1] <= p /\ p <= asked[2] /\ p % s = 0}
             /\ \A k \in 2 .. Len(images) : images[k - 1] < images[k]
  <2> DEFINE N == n_images
             chunk(k) == a + (k - 1) * s
  <2>1. /\ N \in Nat \ {0} /\ Len(images) = N /\ z = a + (N - 1) * s
        /\ \A k \in 1 .. N : images[k] = chunk(k)
    BY <1>3, ClosedFile
  <2>2. /\ a % s = 0 /\ asked[1] <= a /\ \A p \in asked[1] .. a - 1 : p % s # 0
    BY <1>1, <1>3 DEF AlignedRange
  <2> HIDE DEF a, z, s, N
  <2>3. ASSUME NEW k \in 1 .. N
        PROVE  images[k] \in Pulse /\ asked[1] <= images[k] /\ images[k] <= asked[2] /\ images[k] % s = 0
    <3>1. images[k] \in Pulse /\ asked[1] <= images[k] /\ images[k] <= asked[2]
      BY <1>3, WrittenImage DEF N
    <3> DEFINE j == k - 1
               e == j * s
    <3>2. j \in Nat /\ images[k] = a + e
      BY <2>1
    <3> HIDE DEF j
    <3>3. e \in Nat /\ e % s = 0
      BY <3>2, <1>2, Multiples
    <3> HIDE DEF e
    <3>4. (a + e) % s = (e % s)
      <4>1. a \in Nat /\ s \in Nat \ {0} /\ e \in Nat /\ a % s = 0
        BY <3>3, <2>2, <1>2
      <4> QED
        BY <4>1, SumOfMultiples, Zenon
    <3> QED
      BY <3>1, <3>2, <3>3, <3>4
  <2>4. ASSUME NEW p \in Pulse, asked[1] <= p, p <= asked[2], p % s = 0
        PROVE  \E k \in 1 .. N : images[k] = p
    <3>1. p \in Nat
      BY OfflineAssumption DEF Pulse, Index
    <3>2. a <= p
      <4>1. p \notin asked[1] .. a - 1
        BY <2>2, <2>4
      <4> QED
        BY <4>1, <3>1, <1>2, <2>4
    <3> DEFINE q == a \div s
               r == p \div s
    <3>3. q \in Nat /\ r \in Nat /\ a = q * s + (a % s) /\ p = r * s + (p % s) /\ q <= r
      BY <3>1, <3>2, <1>2, Division, DivMonotone
    <3> HIDE DEF q, r
    <3>4. PICK d \in Nat : r = q + d
      <4>1. r - q \in Nat /\ r = q + (r - q)
        BY <3>3
      <4> QED
        BY <4>1
    <3>5. p = a + d * s /\ d * s \in Nat
      <4>1. r * s = q * s + d * s /\ d * s \in Nat /\ q * s \in Nat
        BY <3>3, <3>4, <1>2
      <4> QED
        BY <4>1, <3>3, <2>2, <2>4
    <3>6. d <= N - 1
      <4> DEFINE n == N - 1
      <4>1. n \in Nat /\ z = a + n * s /\ p <= z
        BY <2>1, <2>4, <1>2
      <4> HIDE DEF n
      <4>2. n < d => n * s + s <= d * s /\ n * s \in Nat
        BY <4>1, <1>2, Multiplying
      <4>3. ~(n < d)
        BY <4>1, <4>2, <3>5, <1>2
      <4> QED
        BY <4>1, <4>3 DEF n
    <3>7. d + 1 \in 1 .. N /\ (d + 1) - 1 = d
      BY <3>6, <2>1
    <3>8. images[d + 1] = p
      BY <3>5, <3>7, <2>1
    <3> QED
      BY <3>7, <3>8
  <2>5. ASSUME NEW k \in 2 .. N PROVE images[k - 1] < images[k]
    <3> DEFINE i == k - 2
               j == k - 1
    <3>1. i \in Nat /\ j \in Nat /\ i < j /\ (k - 1) - 1 = i /\ k - 1 \in 1 .. N /\ k \in 1 .. N
      BY <2>1
    <3>2. images[k - 1] = a + i * s /\ images[k] = a + j * s
      <4>1. images[k - 1] = a + ((k - 1) - 1) * s
        BY <3>1, <2>1
      <4> QED
        BY <4>1, <3>1, <2>1
    <3> HIDE DEF i, j
    <3>3. i * s \in Nat /\ j * s \in Nat /\ i * s + s <= j * s
      BY <3>1, <1>2, Multiplying
    <3> QED
      BY <3>2, <3>3, <1>2
  <2> QED
    BY <2>1, <2>3, <2>4, <2>5
<1>4. ASSUME pc = "refused", asked[2] % asked[3] = 0
      PROVE  Refusable
  <2>1. /\ ~RangeAccepted /\ a % s = 0 /\ \A p \in asked[1] .. a - 1 : p % s # 0
    BY <1>1, <1>4 DEF AlignedRange, Opened, Working
  <2>2. ~(z >= a) \/ FullRate % s # 0 \/ z % s # 0
    BY <2>1 DEF RangeAccepted
  <2>3. CASE ~(z >= a)
    <3>1. \A p \in asked[1] .. asked[2] : p \in asked[1] .. a - 1
      BY <2>3, <1>2
    <3> QED
      BY <3>1, <2>1, <1>2 DEF Refusable
  <2> QED
    BY <1>4, <2>2, <2>3, <1>2 DEF Refusable
<1> QED
  BY <1>3, <1>4 DEF RequestedImages

\* What the row of an image says of it.
LEMMA RowOfImage ==
    ASSUME NEW p \in Nat, content[p] \in [Module -> Quality], NEW row, Describes(row, p)
    PROVE  /\ row.pulse_id = IF CompleteAt(p) = {} THEN 0 ELSE p
           /\ CompleteAt(p) # {} =>
                 \E m \in CompleteAt(p) : row.frame_index = FrameMeta(p, m).frame_index
           /\ row.is_good_image = 1 <=>
                 \/ \A m \in Module : content[p][m] = "shifted"
                 \/ \A m \in Module : content[p][m] \in {"complete", "recoded"}
<1>1. 0 \in Module
  BY ImageAssumption DEF Module
<1>2. CASE CompleteAt(p) = {}
  <2>1. row.pulse_id = 0 /\ row.is_good_image = 0
    BY <1>2 DEF Describes
  <2>2. content[p][0] \notin {"complete", "shifted", "recoded"}
    BY <1>1, <1>2, FrameQuality
  <2> QED
    BY <1>1, <1>2, <2>1, <2>2
<1>3. CASE CompleteAt(p) # {}
  <2> DEFINE f == Min(CompleteAt(p))
             first == FrameMeta(p, f)
             shifted(m) == content[p][m] = "shifted"
  <2>1. f \in CompleteAt(p) /\ f \in Module
    BY <1>3, FirstIsComplete, FrameQuality
  <2>2. row = NamedBy(p, first)
    BY <1>3 DEF Describes
  <2>3. first.pulse_id = p /\ first.frame_index = IF shifted(f) THEN p + 1 ELSE p
    BY <2>1, FrameQuality
  <2> HIDE DEF f, first
  <2>4. /\ row.pulse_id = p /\ row.frame_index = first.frame_index
        /\ row.is_good_image = IF IsGoodImage(p, first) THEN 1 ELSE 0
    BY <2>2, <2>3 DEF NamedBy
  <2>5. IsGoodImage(p, first) <=>
          \A m \in Module : m \in CompleteAt(p) /\ (shifted(m) <=> shifted(f))
    <3>1. ASSUME NEW m \in Module
          PROVE  m \in CompleteAt(p) =>
                    /\ FrameMeta(p, m).pulse_id = first.pulse_id
                    /\ FrameMeta(p, m).frame_index = first.frame_index <=> (shifted(m) <=> shifted(f))
      <4>1. m \in CompleteAt(p) =>
              FrameMeta(p, m).pulse_id = p /\ FrameMeta(p, m).frame_index = IF shifted(m) THEN p + 1 ELSE p
        BY FrameQuality
      <4> QED
        BY <4>1, <2>3
    <3> HIDE DEF shifted
    <3> QED
      BY <3>1, Zenon DEF IsGoodImage
  <2>6. IsGoodImage(p, first) <=>
          \/ \A m \in Module : content[p][m] = "shifted"
          \/ \A m \in Module : content[p][m] \in {"complete", "recoded"}
    <3>1. \A m \in Module : m \in CompleteAt(p) <=> content[p][m] \in {"complete", "shifted", "recoded"}
      BY FrameQuality
    <3> QED
      BY <3>1, <2>1, <2>5
  <2>7. row.is_good_image = 1 <=> IsGoodImage(p, first)
    BY <2>4
  <2>8. \E m \in CompleteAt(p) : row.frame_index = FrameMeta(p, m).frame_index
    BY <2>1, <2>4 DEF first
  <2> QED
    BY <1>3, <2>4, <2>6, <2>7, <2>8
<1> QED
  BY <1>2, <1>3

\* Each row says of its image what the frames say.
LEMMA DescribedRows == FileInv => RowsDescribeImages
<1> SUFFICES ASSUME FileInv, pc = "closed"
             PROVE  /\ Len(rows) = Len(images)
                    /\ \A k \in 1 .. Len(rows) :
                          LET p == images[k] IN
                          /\ rows[k].pulse_id = IF CompleteAt(p) = {} THEN 0 ELSE p
                          /\ CompleteAt(p) # {} =>
                                \E m \in CompleteAt(p) : rows[k].frame_index = FrameMeta(p, m).frame_index
                          /\ rows[k].is_good_image = 1 <=>
                                \/ \A m \in Module : content[p][m] = "shifted"
                                \/ \A m \in Module : content[p][m] \in {"complete", "recoded"}
  BY DEF RowsDescribeImages
<1>1. Len(rows) = n_images /\ Len(images) = n_images
  BY ClosedFile
<1>2. \A k \in 1 .. n_images :
        images[k] \in Nat /\ content[images[k]] \in [Module -> Quality] /\ Describes(rows[k], images[k])
  BY ClosedFile, WrittenImage
<1> QED
  BY <1>1, <1>2, RowOfImage, Zenon

\* The file and the live stream judge the same frames.
LEMMA SameVerdictOf ==
    ASSUME NEW p \in Nat, NEW row, Describes(row, p)
    PROVE  LET live    == AssembledImage(Frames(p))
               recoded == \E m, n \in Module : FrameMeta(p, m).daq_rec # FrameMeta(p, n).daq_rec
           IN
           /\ row.pulse_id = live.pulse_id
           /\ live.pulse_id # 0 => row.frame_index = live.frame_index /\ row.daq_rec = live.daq_rec
           /\ live.is_good_image => row.is_good_image = 1
           /\ row.is_good_image = 1 => live.is_good_image \/ recoded
<1> DEFINE live == AssembledImage(Frames(p))
           recoded == \E m, n \in Module : FrameMeta(p, m).daq_rec # FrameMeta(p, n).daq_rec
<1>1. CASE CompleteAt(p) = {}
  <2>1. row.pulse_id = 0 /\ row.is_good_image = 0
    BY <1>1 DEF Describes
  <2>2. live.pulse_id = 0 /\ ~live.is_good_image
    BY <1>1 DEF AssembledImage, NoImage, CompleteAt
  <2> QED
    BY <2>1, <2>2
<1>2. CASE CompleteAt(p) # {}
  <2> DEFINE f == Min(CompleteAt(p))
             first == FrameMeta(p, f)
             good == \A m \in Module : m \in CompleteAt(p) /\ SameImage(FrameMeta(p, m), first)
  <2>1. f \in Module
    BY <1>2, FirstIsComplete DEF CompleteAt, Complete
  <2>2. row = NamedBy(p, first)
    BY <1>2 DEF Describes
  <2>3. live = ImageNamedBy(first, good)
    <3>1. \A m \in Module : Frames(p)[m] = FrameMeta(p, m)
      BY DEF Frames
    <3> QED
      BY <3>1, <1>2, <2>1, Zenon DEF AssembledImage, CompleteAt
  <2>4. first = FrameMeta(p, f)
    OBVIOUS
  <2> HIDE DEF f, first
  <2>5. good => IsGoodImage(p, first)
    BY DEF SameImage, IsGoodImage
  <2>6. IsGoodImage(p, first) => good \/ recoded
    <3>1. ASSUME IsGoodImage(p, first), ~recoded PROVE good
      <4>1. \A m \in Module : FrameMeta(p, m).daq_rec = first.daq_rec
        BY <3>1, <2>1, <2>4
      <4> QED
        BY <3>1, <4>1 DEF IsGoodImage, SameImage
    <3> QED
      BY <3>1
  <2> HIDE DEF good, recoded
  <2>7. /\ row.pulse_id = first.pulse_id /\ row.frame_index = first.frame_index /\ row.daq_rec = first.daq_rec
        /\ row.is_good_image = IF IsGoodImage(p, first) THEN 1 ELSE 0
    BY <2>2 DEF NamedBy
  <2>8. /\ live.pulse_id = first.pulse_id /\ live.frame_index = first.frame_index
        /\ live.daq_rec = first.daq_rec /\ live.is_good_image = good
    BY <2>3 DEF ImageNamedBy
  <2> HIDE DEF live
  <2> QED
    BY <2>5, <2>6, <2>7, <2>8 DEF live, recoded
<1> QED
  BY <1>1, <1>2

\* Each row says of its image what assemble_image would.
LEMMA VerdictsOfRows == FileInv => VerdictsAgree
<1> SUFFICES ASSUME FileInv, pc = "closed", NEW k \in 1 .. Len(rows)
             PROVE  LET p       == images[k]
                        live    == AssembledImage(Frames(p))
                        recoded == \E m, n \in Module : FrameMeta(p, m).daq_rec # FrameMeta(p, n).daq_rec
                    IN
                    /\ rows[k].pulse_id = live.pulse_id
                    /\ live.pulse_id # 0 =>
                          rows[k].frame_index = live.frame_index /\ rows[k].daq_rec = live.daq_rec
                    /\ live.is_good_image => rows[k].is_good_image = 1
                    /\ rows[k].is_good_image = 1 => live.is_good_image \/ recoded
  BY DEF VerdictsAgree
<1>1. k \in 1 .. n_images
  BY ClosedFile
<1>2. images[k] \in Nat /\ Describes(rows[k], images[k])
  BY <1>1, ClosedFile, WrittenImage
<1> QED
  BY <1>2, SameVerdictOf, Zenon

\* What write() copies fits into what the constructor allocates.
LEMMA BuffersOfRange == FileInv => BuffersFit
<1> SUFFICES ASSUME FileInv PROVE BuffersFit
  OBVIOUS
<1>1. OfflineTypeOK /\ AlignedRange /\ BlocksInTurn
  BY DEF FileInv
<1>2. start_pulse_id \in Nat /\ stop_pulse_id \in Nat /\ Len(b_metadata) \in Nat
  BY <1>1, RequestTypes DEF OfflineTypeOK
<1>3. pc # "threw"
  BY <1>1 DEF OfflineTypeOK, Opened, Working
<1>4. ASSUME pc \in Working
      PROVE  /\ block_id \in Blocks /\ Len(b_metadata) < n_total_pulses
             /\ n_images_to_copy >= 0 /\ Len(b_metadata) + n_images_to_copy <= n_total_pulses
  <2> DEFINE L == block_start_pulse_id
             o == n_images_offset
             n == n_images_to_copy
             B == BUFFER_BLOCK_SIZE
  <2>1. /\ L \in Nat /\ o \in 0 .. B - 1 /\ n \in 1 .. B - o /\ L + o <= stop_pulse_id /\ block_id \in Blocks
        /\ (L + o + n = L + B /\ L + B <= stop_pulse_id) \/ L + o + n = stop_pulse_id + 1
    BY <1>1, <1>4, BlockBounds
  <2>2. start_pulse_id + Len(b_metadata) = L + o
    BY <1>1, <1>4 DEF BlocksInTurn, NextMetadata
  <2>3. BUFFER_BLOCK_SIZE \in Nat
    BY OfflineAssumption
  <2> HIDE DEF L, o, n
  <2>4. Len(b_metadata) < n_total_pulses /\ n >= 0 /\ Len(b_metadata) + n <= n_total_pulses
    BY <2>1, <2>2, <2>3, <1>2 DEF n_total_pulses
  <2> QED
    BY <2>1, <2>4 DEF n
<1>5. ASSUME pc \in {"close", "closed"} PROVE Len(b_metadata) = n_total_pulses
  <2>1. start_pulse_id + Len(b_metadata) = stop_pulse_id + 1
    BY <1>1, <1>5 DEF BlocksInTurn, NextMetadata
  <2> QED
    BY <2>1, <1>2 DEF n_total_pulses
<1> QED
  BY <1>3, <1>4, <1>5 DEF BuffersFit, Working

\* The file has the images that were asked for, each once and in order; a request that
\* ends on a multiple of the step is refused only if the step does not divide the rate
\* or there is nothing to write.
THEOREM FileHasRequested == Spec => []RequestedImages
  BY FileInvariant, ImagesOfRequest, PTL

\* Row k of the metadata is that of image k, however the range lies in the blocks.
THEOREM RowsOfImages == Spec => []RowsDescribeImages
  BY FileInvariant, DescribedRows, PTL

\* The file and the live stream give the same account of every image, but for daq_rec.
THEOREM SameVerdicts == Spec => []VerdictsAgree
  BY FileInvariant, VerdictsOfRows, PTL

\* write() never throws, and the metadata buffers are filled exactly.
THEOREM BuffersSuffice == Spec => []BuffersFit
  BY FileInvariant, BuffersOfRange, PTL
=============================================================================
