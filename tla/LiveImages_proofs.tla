-------------------------- MODULE LiveImages_proofs --------------------------
(***************************************************************************)
(* The live path for any number of modules, slots and pulses, any lengths  *)
(* of queues and any limits: what the slots of the ring have of the pulses *)
(* that are still to be looked up, what the assembler and the stream make  *)
(* of them, and that the synchronisation inside is that of                 *)
(* ZmqPulseSyncReceiver, whose invariants it keeps.                        *)
(***************************************************************************)
EXTENDS LiveImages, FiniteSetTheorems, SequenceTheorems, WellFoundedInduction, TLAPS

S == INSTANCE ZmqPulseSyncReceiver_proofs

\* What a receiver stores, and what there may be in a slot.
Frames == [pulse_id : Pulses, frame_index : Nat, daq_rec : Nat, n_recv_packets : 1 .. NPackets]
Metas  == Frames \union {Ram!ZeroMeta}
Pixels == Pulses \union {0}

\* What assemble_image may read of a slot, of one frame or of two, and what it makes of it.
ReadMetas  == [pulse_id : Pixels, frame_index : Nat, daq_rec : Nat, n_recv_packets : 0 .. NPackets]
ImageMetas == [pulse_id : Pixels, frame_index : Nat, daq_rec : Nat, is_good_image : BOOLEAN]

Types ==
    /\ meta_buffer \in [Ram!Slot -> [Module -> Metas]]
    /\ image_buffer \in [Ram!Slot -> [Module -> Pixels]]
    /\ storing \in [Module -> [step : {"idle", "data", "announce"}, meta : Metas]]
    /\ stored \in [Module -> SUBSET Frames]
    /\ lapped \in SUBSET Pulses
    /\ asm_pc \in {"sync", "assemble", "fields", "dead"}
    /\ asm_metas \in [Module -> ReadMetas]
    /\ n_metas \in 0 .. NModules
    /\ images \in Seq([asked : Pulses, image : ImageMetas])
    /\ image_queue \in Seq(ImageMetas) /\ Len(image_queue) <= HWM
    /\ stream_pc \in {"recv", "copy"}
    /\ image \in ImageMetas
    /\ pixels \in Seq(Pixels) /\ Len(pixels) <= NModules
    /\ sent \in Seq([image : ImageMetas, pixels : [1 .. NModules -> Pixels]])

\* The synchronisation inside.
Synchronises == S!Types /\ S!Queues /\ S!Loop /\ S!Results

Busy(m) == storing[m].step # "idle"

\* What a module stores is later than what it announced; it stored what it announced,
\* and every pulse once.
Storing(m) ==
    /\ Busy(m) => storing[m].meta \in stored[m] /\ announced[m] < storing[m].meta.pulse_id
    /\ \A meta \in stored[m] :
          meta.pulse_id <= announced[m] \/ (Busy(m) /\ meta = storing[m].meta)
    /\ \A a, b \in stored[m] : a.pulse_id = b.pulse_id => a = b
    /\ \A p \in accepted[m] : \E meta \in stored[m] : meta.pulse_id = p
AllStoring == \A m \in Module : Storing(m)

\* While an image is assembled the modules are at its pulse.
Assembling ==
    /\ asm_pc = "sync" => n_metas = 0
    /\ asm_pc # "sync" => pc = "first" /\ n_read = 0 /\ synced # <<>>
    /\ asm_pc = "fields" => n_metas \in Module

\* Images on their way are of pulses that all modules announced.
OnTheWay ==
    /\ \A k \in 1 .. Len(image_queue) : image_queue[k].pulse_id \in S!Common \union {0}
    /\ stream_pc = "copy" => image.pulse_id \in S!Common \union {0}

\* The pulses of module m that are to be looked up by the assembler, and in its slots
\* by anybody.
ToAssemble(m) ==
    Range(queue[m])
    \union {p \in {pulses[m]} : asm_pc # "sync" \/ pc # "first" \/ m < n_read}
    \union {p \in {storing[m].meta.pulse_id} : Busy(m)}
ToSend ==
    {image_queue[k].pulse_id : k \in 1 .. Len(image_queue)}
    \union {p \in {image.pulse_id} : stream_pc = "copy"}
ToLookUp(m) == (ToAssemble(m) \union ToSend) \ ({0} \union lapped)

\* The ring has the metadata and the pixels of what is to be looked up; pixels that are
\* still to be stored overwrite none of them.
Unstored(m) == {p \in {storing[m].meta.pulse_id} : storing[m].step = "data"}
Ring(m) ==
    /\ \A p \in ToAssemble(m) \ ({0} \union lapped) :
          Ram!MetaAt(p, m) \in stored[m] /\ Ram!MetaAt(p, m).pulse_id = p
    /\ \A p \in ToLookUp(m) \ Unstored(m) :
          /\ Ram!DataAt(p, m) = p
          /\ \A q \in Unstored(m) : Ram!SlotOf(p) # Ram!SlotOf(q)
RingKeeps == \A m \in Module : Ring(m)

\* A slot has a frame of the module or nothing, and never an older one than was stored.
Buffered ==
    /\ \A slot \in Ram!Slot, m \in Module : meta_buffer[slot][m] \in stored[m] \union {Ram!ZeroMeta}
    /\ \A m \in Module : \A meta \in stored[m] : Ram!MetaAt(meta.pulse_id, m).pulse_id >= meta.pulse_id

\* What assemble_image has read of a module is a frame of the pulse asked for, unless that
\* lost a slot; and even then, what is read as whole and of the pulse asked for is.
ReadOf(m) ==
    /\ asm_metas[m].n_recv_packets = NPackets /\ asm_metas[m].pulse_id = S!LastResult
          => WholeFrame(m, S!LastResult)
    /\ S!LastResult \notin lapped =>
          asm_metas[m] \in stored[m] /\ asm_metas[m].pulse_id = S!LastResult

\* Of the module it is reading it has seen a whole frame, and there may be a later one.
Reading(m) ==
    /\ asm_metas[m] \in stored[m] /\ asm_metas[m].n_recv_packets = NPackets
    /\ S!LastResult <= asm_metas[m].pulse_id
    /\ asm_metas[m].pulse_id <= Ram!MetaAt(S!LastResult, m).pulse_id
    /\ S!LastResult \notin lapped => asm_metas[m].pulse_id = S!LastResult

Read ==
    /\ asm_pc # "sync" => \A m \in Module : m < n_metas => ReadOf(m)
    /\ asm_pc = "fields" => Reading(n_metas)

ImagesSound ==
    /\ \A k \in 1 .. Len(images) : images[k].asked \in S!Common
    /\ GoodMeansComplete
    /\ DeadOnlyIfLapped

Copied ==
    stream_pc = "copy" /\ image.pulse_id \notin {0} \union lapped =>
        \A i \in 1 .. Len(pixels) : pixels[i] = image.pulse_id

LiveInv ==
    /\ Types /\ Synchronises /\ AllStoring /\ Assembling /\ OnTheWay
    /\ Buffered /\ RingKeeps /\ Read /\ ImagesSound /\ Copied /\ PixelsOfThePulse

-----------------------------------------------------------------------------
(* The synchronisation inside. *)

LEMMA Constants ==
    /\ PULSE_OFFSET_LIMIT \in Nat /\ SYNC_RETRY_LIMIT \in Nat \ {0}
    /\ NModules \in Nat \ {0} /\ NSlots \in Nat \ {0} /\ NPackets \in Nat \ {0} /\ HWM \in Nat \ {0}
    /\ Pulses \subseteq Nat \ {0} /\ IsFiniteSet(Pulses)
    /\ S!IsFiniteSet(Pulses) /\ \A p \in Pulses \union {0} : p \in Nat
    /\ Module = 0 .. NModules - 1 /\ S!Module = Module
    /\ ModuleFrames \in [Module -> SUBSET Frames]
  BY LiveAssumption DEF Module, Ram!Module, S!Module, IsFiniteSet, S!IsFiniteSet, Frames

\* The module of the synchronisation and that of its theorems, of which the one extends
\* the other, are instantiated here both: their actions are the same.
LEMMA SameSync ==
    /\ Sync!Receiver <=> S!Receiver
    /\ \A m, p : Sync!AnnouncePulse(m, p) <=> S!AnnouncePulse(m, p)
<1>1. Sync!ReadFirst <=> S!ReadFirst
  BY DEF S!ReadFirst, Sync!ReadFirst, S!zmq_recv, Sync!zmq_recv, S!InSync, Sync!InSync,
         S!Module, Sync!Module, S!Return, Sync!Return
<1>2. Sync!BeginRound <=> S!BeginRound
  BY DEF S!BeginRound, Sync!BeginRound, S!Max, Sync!Max, S!Min, Sync!Min, S!Range, Sync!Range,
         S!Module, Sync!Module, S!sendVars, Sync!sendVars
<1>3. Sync!Drain <=> S!Drain
  BY DEF S!Drain, Sync!Drain, S!zmq_recv, Sync!zmq_recv, S!Min, Sync!Min, S!Behind, Sync!Behind,
         S!Module, Sync!Module
<1>4. Sync!EndRound <=> S!EndRound
  BY DEF S!EndRound, Sync!EndRound, S!Behind, Sync!Behind, S!Max, Sync!Max, S!Range, Sync!Range,
         S!InSync, Sync!InSync, S!Return, Sync!Return, S!Module, Sync!Module, S!sendVars, Sync!sendVars
<1>5. \A m, p : Sync!AnnouncePulse(m, p) <=> S!AnnouncePulse(m, p)
  BY DEF Sync!AnnouncePulse, S!AnnouncePulse, Sync!recvVars, S!recvVars
<1> QED
  BY <1>1, <1>2, <1>3, <1>4, <1>5 DEF S!Receiver, Sync!Receiver

LEMMA SyncInit == Init => S!Init
  BY Constants DEF Init, Sync!Init, S!Init, Sync!Module

\* Every step of the live path is one of the synchronisation, or leaves it alone.
LEMMA SyncStep ==
    ASSUME Types, AllStoring, [Next]_vars
    PROVE  [S!Next]_S!vars
<1>1. ASSUME NEW m \in Module, AnnounceFrame(m)
      PROVE  S!Next
  <2>1. S!AnnouncePulse(m, storing[m].meta.pulse_id)
    BY <1>1, SameSync DEF AnnounceFrame
  <2>2. storing[m].meta.pulse_id \in Pulses /\ storing[m].meta.pulse_id > announced[m]
    BY <1>1 DEF AnnounceFrame, AllStoring, Storing, Busy, Types, Frames
  <2> QED
    BY <2>1, <2>2, Constants DEF S!Next, S!Announce
<1>2. CASE GetNextPulseId
  <2>1. S!Receiver
    BY <1>2, SameSync DEF GetNextPulseId
  <2> QED
    BY <2>1 DEF S!Next
<1>3. ASSUME UNCHANGED syncVars
      PROVE  UNCHANGED S!vars
  BY <1>3 DEF syncVars, syncRecv, S!vars, S!sendVars, S!recvVars
<1>4. CASE UNCHANGED vars
  BY <1>3, <1>4 DEF vars
<1>5. ASSUME NEW m \in Module, StoreMeta(m) \/ StoreData(m)
      PROVE  UNCHANGED S!vars
  BY <1>3, <1>5 DEF StoreMeta, StoreData
<1>6. CASE ReadCount \/ ReadFields \/ UnexpectedPulse \/ SendImageMeta \/ Stream
  BY <1>3, <1>6 DEF ReadCount, ReadFields, UnexpectedPulse, SendImageMeta, Assembled, Stream, RecvImageMeta, CopyPixels, SendImage
<1> QED
  BY <1>1, <1>2, <1>4, <1>5, <1>6 DEF Next, Assembler

LEMMA SynchronisesStep ==
    ASSUME Types, AllStoring, Synchronises, [Next]_vars
    PROVE  Synchronises'
<1>1. [S!Next]_S!vars /\ S!Types /\ S!Queues /\ S!Loop /\ S!Results
  BY SyncStep DEF Synchronises
<1>2. S!Types'
  BY <1>1, Constants, S!TypeStep
<1>3. S!Queues'
  BY <1>1, Constants, S!QueuesStep
<1>4. S!Loop'
  BY <1>1, Constants, S!LoopStep
<1>5. S!Results'
  BY <1>1, Constants, S!ResultsStep
<1> QED
  BY <1>2, <1>3, <1>4, <1>5 DEF Synchronises

-----------------------------------------------------------------------------
(* Least elements, remainders and queues. *)

\* A set of naturals has a least element.
LEMMA MinOfNat ==
    ASSUME NEW T \in SUBSET Nat, T # {}
    PROVE  Min(T) \in T /\ \A y \in T : Min(T) <= y
<1> DEFINE R == OpToRel(<, Nat)
<1>1. IsWellFoundedOn(R, Nat)
  BY NatLessThanWellFounded, Zenon
<1>2. \A x, y \in Nat : x < y => <<x, y>> \in R
  BY DEF OpToRel
<1> HIDE DEF R
<1>3. PICK x \in T : \A y \in T : <<y, x>> \notin R
  BY <1>1, WFMin
<1>4. ASSUME NEW y \in T PROVE x <= y
  <2>1. ~(y < x)
    BY <1>2, <1>3
  <2> QED
    BY <2>1
<1> QED
  BY <1>4 DEF Min

\* Quotient and remainder.
LEMMA ModEq ==
    ASSUME NEW n \in Nat \ {0}, NEW a \in Nat
    PROVE  /\ a = n * (a \div n) + (a % n)
           /\ a \div n \in Nat
           /\ a % n \in 0 .. n - 1
  OBVIOUS

\* What a sequence holds after an element was appended.
LEMMA RangeOfAppend ==
    ASSUME NEW T, NEW s \in Seq(T), NEW x \in T
    PROVE  Range(Append(s, x)) \subseteq Range(s) \union {x}
<1>1. \A i \in 1 .. Len(s) + 1 : (i \in 1 .. Len(s) /\ Append(s, x)[i] = s[i]) \/ Append(s, x)[i] = x
  OBVIOUS
<1>2. DOMAIN Append(s, x) = 1 .. Len(s) + 1 /\ DOMAIN s = 1 .. Len(s)
  OBVIOUS
<1> QED
  BY <1>1, <1>2 DEF Range

\* What it held before its first was taken.
LEMMA RangeOfTail ==
    ASSUME NEW T, NEW s \in Seq(T), s # <<>>
    PROVE  Range(Tail(s)) \union {Head(s)} \subseteq Range(s)
<1>1. Len(s) \in Nat /\ Len(s) > 0 /\ Head(s) = s[1]
  OBVIOUS
<1>2. \A i \in 1 .. Len(s) - 1 : Tail(s)[i] = s[i + 1] /\ i + 1 \in 1 .. Len(s)
  BY <1>1
<1>3. DOMAIN Tail(s) = 1 .. Len(s) - 1 /\ DOMAIN s = 1 .. Len(s)
  BY <1>1
<1> QED
  BY <1>1, <1>2, <1>3 DEF Range

-----------------------------------------------------------------------------
(* What the parts of the invariant give.                                    *)

\* A slot of the ring, and what may be in it.
LEMMA Slots ==
    ASSUME NEW p \in Nat
    PROVE  Ram!SlotOf(p) \in Ram!Slot
  BY Constants, ModEq DEF Ram!SlotOf, Ram!Slot

LEMMA SlotContents ==
    ASSUME Types, NEW p \in Nat, NEW m \in Module
    PROVE  Ram!MetaAt(p, m) \in Metas /\ Ram!DataAt(p, m) \in Pixels
  BY Slots DEF Types, Ram!MetaAt, Ram!DataAt

LEMMA MetasRead == Metas \subseteq ReadMetas
  BY Constants DEF Metas, Frames, ReadMetas, Pixels, Ram!ZeroMeta

LEMMA MetaPulses == \A x \in Metas : x.pulse_id \in Nat
<1> SUFFICES ASSUME NEW x \in Metas
             PROVE  x.pulse_id \in Nat
  OBVIOUS
<1>1. x.pulse_id \in Pulses \union {0}
  BY DEF Metas, Frames, Ram!ZeroMeta
<1> QED
  BY <1>1, Constants

\* The image is assembled of the last result, at which all modules are.
LEMMA Asked ==
    ASSUME Synchronises, Assembling, asm_pc # "sync"
    PROVE  /\ Sync!LastResult = S!LastResult /\ S!LastResult \in Pulses /\ S!LastResult \in Nat \ {0}
           /\ S!LastResult \in S!Common
           /\ \A m \in Module : pulses[m] = S!LastResult
<1>1. Sync!LastResult = S!LastResult /\ synced # <<>>
  BY DEF Sync!LastResult, S!LastResult, Assembling
<1>2. synced \in Seq([pulse_id : Pulses, n_lost_pulses : Nat])
  BY DEF Synchronises, S!Types, S!TypeOK
<1>3. Len(synced) \in 1 .. Len(synced)
  BY <1>1, <1>2
<1>4. S!LastResult \in S!Common
  BY <1>1, <1>3 DEF Synchronises, S!Results, S!ResultsCommonAndIncreasing, S!LastResult
<1>5. S!LastResult \in Pulses
  BY <1>4 DEF S!Common
<1>6. \A m \in Module : pulses[m] = S!LastResult
  BY Constants DEF Assembling, Synchronises, S!Loop
<1> QED
  BY <1>1, <1>4, <1>5, <1>6, Constants

\* The first of the complete frames is one of them.
LEMMA FirstComplete ==
    ASSUME NEW metas, Ram!Complete(metas) # {}
    PROVE  Ram!Min(Ram!Complete(metas)) \in Ram!Complete(metas)
<1>1. Ram!Complete(metas) \subseteq Module /\ IsFiniteSet(Module) /\ Module \subseteq Nat
  BY Constants, FS_Interval DEF Ram!Complete, Ram!Module, Module
<1>2. IsFiniteSet(Ram!Complete(metas)) /\ Ram!Complete(metas) \in SUBSET Nat
  BY <1>1, FS_Subset
<1>3. Ram!Min(Ram!Complete(metas)) = Min(Ram!Complete(metas))
  BY DEF Ram!Min, Min
<1> QED
  BY <1>2, <1>3, MinOfNat

\* What assemble_image makes of the frames: an image of the pulse asked for, or of none.
LEMMA ImageOfFrames ==
    ASSUME NEW metas \in [Module -> ReadMetas]
    PROVE  /\ Ram!AssembledImage(metas) \in ImageMetas
           /\ \A p : ~Ram!IsUnexpected(p, metas) => Ram!AssembledImage(metas).pulse_id \in {0, p}
<1>1. CASE Ram!Complete(metas) = {}
  BY <1>1 DEF Ram!AssembledImage, Ram!NoImage, ImageMetas, Pixels
<1>2. CASE Ram!Complete(metas) # {}
  <2> DEFINE first == metas[Ram!Min(Ram!Complete(metas))]
             good  == \A m \in Ram!Module : m \in Ram!Complete(metas) /\ Ram!SameImage(metas[m], first)
  <2>1. first \in ReadMetas
    BY <1>2, FirstComplete DEF Ram!Complete, Ram!Module, Module
  <2>2. Ram!AssembledImage(metas) = Ram!ImageNamedBy(first, good) /\ good \in BOOLEAN
    BY <1>2 DEF Ram!AssembledImage
  <2> HIDE DEF good
  <2>3. Ram!ImageNamedBy(first, good) \in ImageMetas
    BY <2>1, <2>2 DEF Ram!ImageNamedBy, ImageMetas, ReadMetas
  <2>4. Ram!AssembledImage(metas).pulse_id = first.pulse_id
    BY <2>2 DEF Ram!ImageNamedBy
  <2> QED
    BY <1>2, <2>2, <2>3, <2>4 DEF Ram!IsUnexpected
<1> QED
  BY <1>1, <1>2

LEMMA AnnouncedNumbers ==
    ASSUME Synchronises
    PROVE  announced \in [Module -> Nat]
<1>1. announced \in [Module -> Pulses \union {0}]
  BY Constants DEF Synchronises, S!Types, S!TypeOK
<1> QED
  BY <1>1, Constants

LEMMA StoredNumbers ==
    ASSUME Types, NEW m \in Module
    PROVE  \A meta \in stored[m] : meta \in Frames /\ meta.pulse_id \in Pulses /\ meta.pulse_id \in Nat
<1>1. \A meta \in Frames : meta.pulse_id \in Pulses
  BY DEF Frames
<1> QED
  BY <1>1, Constants DEF Types

\* What waits for the assembler was announced, and what a module stores was not yet.
LEMMA WaitingAnnounced ==
    ASSUME Types, Synchronises, AllStoring, OnTheWay, NEW m \in Module
    PROVE  /\ announced[m] \in Nat
           /\ \A p \in Range(queue[m]) \union {pulses[m]} \union ToSend : p \in Nat /\ p <= announced[m]
           /\ Busy(m) => announced[m] < storing[m].meta.pulse_id /\ storing[m].meta.pulse_id \in Pulses
<1>1. /\ announced[m] \in Nat /\ pulses[m] \in Nat /\ pulses[m] <= announced[m] /\ queue[m] \in Seq(Pulses)
      /\ \A i \in 1 .. Len(queue[m]) : queue[m][i] \in accepted[m]
      /\ \A p \in accepted[m] : p \in Nat /\ p <= announced[m]
  <2>1. m \in S!Module
    BY Constants
  <2>2. /\ announced[m] \in Nat /\ pulses[m] \in Nat /\ queue[m] \in Seq(Pulses)
        /\ \A p \in accepted[m] : p \in Nat
    <3>1. /\ announced \in [S!Module -> Pulses \union {0}] /\ pulses \in [S!Module -> Pulses \union {0}]
          /\ queue \in [S!Module -> Seq(Pulses)] /\ accepted \in [S!Module -> SUBSET Pulses]
      BY DEF Synchronises, S!Types, S!TypeOK
    <3>2. \A p \in Pulses \union {0} : p \in Nat
      BY Constants
    <3>3. announced[m] \in Pulses \union {0} /\ pulses[m] \in Pulses \union {0}
      BY <2>1, <3>1
    <3>4. queue[m] \in Seq(Pulses) /\ accepted[m] \in SUBSET Pulses
      BY <2>1, <3>1
    <3> QED
      BY <3>2, <3>3, <3>4
  <2>3. S!Queue(m)
    BY <2>1 DEF Synchronises, S!Queues
  <2> QED
    BY <2>2, <2>3 DEF S!Queue
<1>2. \A p \in Range(queue[m]) : p \in accepted[m]
  BY <1>1 DEF Range
<1>3. \A p \in ToSend : p \in accepted[m] \union {0}
  BY Constants DEF ToSend, OnTheWay, S!Common
<1>4. Busy(m) => announced[m] < storing[m].meta.pulse_id /\ storing[m].meta.pulse_id \in Pulses
  BY DEF AllStoring, Storing, Types, Frames
<1> QED
  BY <1>1, <1>2, <1>3, <1>4

-----------------------------------------------------------------------------
(* What the steps do.                                                       *)

\* An announcement moves a pulse from what is stored to what waits, or loses it.
LEMMA Announcement ==
    ASSUME Types, Synchronises, NEW m \in Module, AnnounceFrame(m)
    PROVE  /\ storing[m].step = "announce" /\ storing' = [storing EXCEPT ![m] = Idle]
           /\ announced' = [announced EXCEPT ![m] = storing[m].meta.pulse_id]
           /\ \A n \in Module : accepted[n] \subseteq accepted'[n]
           /\ \A n \in Module : n # m => accepted'[n] = accepted[n] /\ queue'[n] = queue[n]
           /\ accepted'[m] \subseteq accepted[m] \union {storing[m].meta.pulse_id}
           /\ Range(queue'[m]) \subseteq Range(queue[m]) \union {storing[m].meta.pulse_id}
           /\ UNCHANGED <<syncRecv, ramVars, stored, lapped, asmVars, image_queue, streamVars>>
<1> DEFINE p == storing[m].meta.pulse_id
<1>1. /\ storing[m].step = "announce" /\ storing' = [storing EXCEPT ![m] = Idle]
      /\ announced' = [announced EXCEPT ![m] = p]
      /\ UNCHANGED <<syncRecv, ramVars, stored, lapped, asmVars, image_queue, streamVars>>
  BY DEF AnnounceFrame, Sync!AnnouncePulse, Sync!recvVars, syncRecv
<1>2. \/ queue' = [queue EXCEPT ![m] = Append(@, p)] /\ accepted' = [accepted EXCEPT ![m] = @ \union {p}]
      \/ UNCHANGED <<queue, accepted>>
  BY DEF AnnounceFrame, Sync!AnnouncePulse
<1>3. queue \in [Module -> Seq(Pulses)] /\ accepted \in [Module -> SUBSET Pulses]
  BY Constants DEF Synchronises, S!Types, S!TypeOK
<1>4. queue[m] \in Seq(Pulses \union {p}) /\ p \in Pulses \union {p}
  BY <1>3
<1> HIDE DEF p
<1>5. Range(Append(queue[m], p)) \subseteq Range(queue[m]) \union {p}
  BY <1>4, RangeOfAppend
<1>6. /\ \A n \in Module : accepted[n] \subseteq accepted'[n]
      /\ \A n \in Module : n # m => accepted'[n] = accepted[n] /\ queue'[n] = queue[n]
      /\ accepted'[m] \subseteq accepted[m] \union {p}
  BY <1>2, <1>3
<1>7. Range(queue'[m]) \subseteq Range(queue[m]) \union {p}
  BY <1>2, <1>3, <1>5
<1> QED
  BY <1>1, <1>6, <1>7 DEF p

\* A step of the synchronisation takes a pulse from one queue; a result is a change of
\* synced.
LEMMA SyncReads ==
    ASSUME Types, Synchronises, GetNextPulseId
    PROVE  /\ UNCHANGED <<announced, accepted, ramVars, recvVars, asm_metas, n_metas, images, image_queue, streamVars>>
           /\ asm_pc = "sync" /\ asm_pc' \in {"sync", "assemble"}
           /\ asm_pc' # "sync" => pc' = "first" /\ n_read' = 0 /\ synced' # <<>>
           /\ \A m \in Module : ToAssemble(m)' \subseteq ToAssemble(m)
<1>1. /\ UNCHANGED <<ramVars, recvVars, asm_metas, n_metas, images, image_queue, streamVars>>
      /\ asm_pc = "sync" /\ asm_pc' = IF synced' # synced THEN "assemble" ELSE "sync"
  BY DEF GetNextPulseId
<1>2. /\ queue \in [Module -> Seq(Pulses)] /\ pulses \in [Module -> Pulses \union {0}]
      /\ n_read \in Module /\ synced \in Seq([pulse_id : Pulses, n_lost_pulses : Nat])
  BY Constants DEF Synchronises, S!Types, S!TypeOK
<1>3. ASSUME NEW m \in Module, Sync!zmq_recv(m)
      PROVE  /\ UNCHANGED <<announced, accepted>> /\ pulses'[m] \in Range(queue[m])
             /\ Range(queue'[m]) \subseteq Range(queue[m])
             /\ \A n \in Module \ {m} : pulses'[n] = pulses[n] /\ queue'[n] = queue[n]
  <2>1. /\ UNCHANGED <<announced, accepted>> /\ queue[m] # <<>> /\ queue[m] \in Seq(Pulses)
        /\ pulses'[m] = Head(queue[m]) /\ queue'[m] = Tail(queue[m])
        /\ \A n \in Module \ {m} : pulses'[n] = pulses[n] /\ queue'[n] = queue[n]
    BY <1>2, <1>3 DEF Sync!zmq_recv
  <2> QED
    BY <2>1, RangeOfTail
<1>4. ASSUME NEW p, NEW k, Sync!Return(p, k)
      PROVE  pc' = "first" /\ n_read' = 0 /\ synced' # <<>> /\ synced' # synced
  BY <1>2, <1>4 DEF Sync!Return
<1>5. CASE Sync!ReadFirst
  <2>1. pc = "first" /\ Sync!zmq_recv(n_read) /\ n_read \in Nat /\ NModules \in Nat
    BY <1>2, <1>5, Constants DEF Sync!ReadFirst
  <2>2. \/ n_read < NModules - 1 /\ n_read' = n_read + 1 /\ pc' = pc /\ synced' = synced
        \/ ~(n_read < NModules - 1) /\ Sync!Return(pulses'[0], 0)
        \/ ~(n_read < NModules - 1) /\ pc' = "round" /\ synced' = synced
    BY <1>5 DEF Sync!ReadFirst
  <2>3. asm_pc' # "sync" => pc' = "first" /\ n_read' = 0 /\ synced' # <<>>
    BY <1>1, <1>4, <2>2
  <2>4. \A m \in Module \ {n_read} : (asm_pc' # "sync" \/ pc' # "first" \/ m < n_read') => m < n_read
    BY <1>1, <2>1, <2>2, Constants
  <2>5. \A m \in Module \ {n_read} : ToAssemble(m)' \subseteq ToAssemble(m)
    <3> SUFFICES ASSUME NEW m \in Module \ {n_read}
                 PROVE  ToAssemble(m)' \subseteq ToAssemble(m)
      OBVIOUS
    <3>1. pulses'[m] = pulses[m] /\ queue'[m] = queue[m]
      BY <1>2, <1>3, <2>1
    <3> QED
      BY <1>1, <2>4, <3>1 DEF ToAssemble, Busy, recvVars
  <2>6. ASSUME NEW m \in Module, m = n_read
        PROVE  ToAssemble(m)' \subseteq ToAssemble(m)
    <3>1. pulses'[m] \in Range(queue[m]) /\ Range(queue'[m]) \subseteq Range(queue[m])
      BY <1>3, <2>1, <2>6
    <3> QED
      BY <1>1, <3>1 DEF ToAssemble, Busy, recvVars
  <2>7. \A m \in Module : ToAssemble(m)' \subseteq ToAssemble(m)
    BY <2>5, <2>6
  <2>8. UNCHANGED <<announced, accepted>>
    BY <1>2, <1>3, <2>1
  <2> QED
    BY <1>1, <2>3, <2>7, <2>8
<1>6. CASE Sync!BeginRound
  <2>1. UNCHANGED <<announced, accepted, queue, pulses, synced>> /\ pc # "first"
    BY <1>6 DEF Sync!BeginRound, Sync!sendVars
  <2>2. asm_pc' = "sync"
    BY <1>1, <2>1
  <2> QED
    BY <1>1, <2>1, <2>2 DEF ToAssemble, Busy, recvVars
<1>7. CASE Sync!Drain
  <2>1. PICK m \in Module : Sync!zmq_recv(m)
    <3>1. Sync!Behind = S!Behind /\ Sync!Min(Sync!Behind) = S!Min(S!Behind)
      BY DEF Sync!Behind, S!Behind, Sync!Module, S!Module, Sync!Min, S!Min
    <3>2. Sync!Behind # {} /\ Sync!zmq_recv(Sync!Min(Sync!Behind))
      BY <1>7 DEF Sync!Drain
    <3> QED
      BY <3>1, <3>2, Constants, S!FirstBehind
  <2>2. UNCHANGED <<pc, synced>> /\ pc = "drain"
    BY <1>7 DEF Sync!Drain
  <2>3. asm_pc' = "sync"
    BY <1>1, <2>2
  <2>4. \A n \in Module \ {m} : ToAssemble(n)' \subseteq ToAssemble(n)
    BY <1>1, <1>3, <2>1, <2>2 DEF ToAssemble, Busy, recvVars
  <2>5. ToAssemble(m)' \subseteq ToAssemble(m)
    BY <1>1, <1>3, <2>1, <2>2 DEF ToAssemble, Busy, recvVars
  <2> QED
    BY <1>1, <1>3, <2>1, <2>3, <2>4, <2>5
<1>8. CASE Sync!EndRound
  <2>1. UNCHANGED <<announced, accepted, queue, pulses>> /\ pc = "drain"
    BY <1>8 DEF Sync!EndRound, Sync!sendVars
  <2>2. \/ Sync!Return(pulses[0], n_lost_pulses')
        \/ synced' = synced
    BY <1>8 DEF Sync!EndRound
  <2>3. asm_pc' # "sync" => pc' = "first" /\ n_read' = 0 /\ synced' # <<>>
    BY <1>1, <1>4, <2>2
  <2> QED
    BY <1>1, <2>1, <2>3 DEF ToAssemble, Busy, recvVars
<1> QED
  BY <1>5, <1>6, <1>7, <1>8 DEF GetNextPulseId, Sync!Receiver

\* Whatever is pending is a pulse or the zero of an image without one.
LEMMA PendingPulses ==
    ASSUME Types, Synchronises
    PROVE  Pending \subseteq Pulses \union {0}
<1>1. /\ queue \in [Module -> Seq(Pulses)] /\ pulses \in [Module -> Pulses \union {0}] /\ n_read \in Module
  BY Constants DEF Synchronises, S!Types, S!TypeOK
<1>2. \A m \in Module : Range(queue[m]) \subseteq Pulses
  BY <1>1 DEF Range
<1>3. UNION {Range(queue[m]) : m \in Module} \subseteq Pulses
  BY ONLY <1>2
<1>4. Range(pulses) \subseteq Pulses \union {0} /\ {pulses[m] : m \in 0 .. n_read - 1} \subseteq Pulses \union {0}
  <2>1. \A m \in 0 .. n_read - 1 : m \in Module
    BY <1>1, Constants
  <2> QED
    BY <1>1, <2>1 DEF Range
<1>5. \A i \in ImageMetas : i.pulse_id \in Pulses \union {0}
  BY DEF ImageMetas, Pixels
<1>6. {image_queue[k].pulse_id : k \in 1 .. Len(image_queue)} \subseteq Pulses \union {0}
  <2>1. \A k \in 1 .. Len(image_queue) : image_queue[k] \in ImageMetas
    BY DEF Types
  <2> QED
    BY <1>5, <2>1
<1>7. (IF stream_pc = "copy" THEN {image.pulse_id} ELSE {}) \subseteq Pulses \union {0}
  BY <1>5 DEF Types
<1>8. {storing[m].meta.pulse_id : m \in {n \in Module : storing[n].step # "idle"}} \subseteq Pulses \union {0}
  <2>1. \A meta \in Metas : meta.pulse_id \in Pulses \union {0}
    BY DEF Metas, Frames, Ram!ZeroMeta
  <2>2. \A m \in Module : storing[m].meta \in Metas
    BY DEF Types
  <2> QED
    BY <2>1, <2>2
<1>9. (IF asm_pc = "sync" /\ pc = "first" THEN {pulses[m] : m \in 0 .. n_read - 1} ELSE Range(pulses))
         \subseteq Pulses \union {0}
  BY <1>4
<1> QED
  BY ONLY <1>3, <1>6, <1>7, <1>8, <1>9 DEF Pending

\* A module stores the metadata of a later pulse; what this costs others is lapped.
LEMMA Storage ==
    ASSUME Types, Synchronises, NEW m \in Module, StoreMeta(m)
    PROVE  \E p \in Pulses, meta \in Frames :
              /\ meta.pulse_id = p /\ announced[m] < p /\ ~Busy(m)
              /\ meta_buffer' = [meta_buffer EXCEPT ![Ram!SlotOf(p)][m] = meta]
              /\ storing' = [storing EXCEPT ![m] = [step |-> "data", meta |-> meta]]
              /\ stored' = [stored EXCEPT ![m] = @ \union {meta}]
              /\ lapped' = lapped \union LappedBy(p)
              /\ UNCHANGED <<image_buffer, syncVars, asmVars, image_queue, streamVars>>
<1>1. PICK meta \in ModuleFrames[m] :
         /\ meta.pulse_id > announced[m]
         /\ Ram!WriteMeta(m, meta)
         /\ storing' = [storing EXCEPT ![m] = [step |-> "data", meta |-> meta]]
         /\ stored' = [stored EXCEPT ![m] = @ \union {meta}]
         /\ lapped' = lapped \union LappedBy(meta.pulse_id)
  BY DEF StoreMeta
<1>2. storing[m].step = "idle" /\ UNCHANGED <<syncVars, asmVars, image_queue, streamVars>>
  BY DEF StoreMeta
<1>3. meta \in Frames /\ meta.pulse_id \in Pulses
  BY Constants DEF Frames
<1>4. meta_buffer' = [meta_buffer EXCEPT ![Ram!SlotOf(meta.pulse_id)][m] = meta] /\ UNCHANGED image_buffer
  BY <1>1 DEF Ram!WriteMeta
<1>5. announced[m] < meta.pulse_id
  BY <1>1, <1>3, AnnouncedNumbers, Constants
<1> QED
  BY <1>1, <1>2, <1>3, <1>4, <1>5 DEF Busy

LEMMA TypesStep ==
    ASSUME Types, Synchronises, AllStoring, Assembling, OnTheWay, [Next]_vars
    PROVE  Types'
<1>1. CASE UNCHANGED vars
  BY <1>1 DEF vars, ramVars, recvVars, asmVars, streamVars, Types
<1>2. ASSUME NEW m \in Module, StoreMeta(m)
      PROVE  Types'
  <2>1. PICK p \in Pulses, meta \in Frames :
           /\ meta_buffer' = [meta_buffer EXCEPT ![Ram!SlotOf(p)][m] = meta]
           /\ storing' = [storing EXCEPT ![m] = [step |-> "data", meta |-> meta]]
           /\ stored' = [stored EXCEPT ![m] = @ \union {meta}]
           /\ lapped' = lapped \union LappedBy(p)
           /\ UNCHANGED <<image_buffer, syncVars, asmVars, image_queue, streamVars>>
    BY <1>2, Storage
  <2>2. LappedBy(p) \subseteq Pulses
    BY PendingPulses DEF LappedBy
  <2>3. meta_buffer' \in [Ram!Slot -> [Module -> Metas]]
    BY <2>1 DEF Types, Metas
  <2>4. /\ storing' \in [Module -> [step : {"idle", "data", "announce"}, meta : Metas]]
        /\ stored' \in [Module -> SUBSET Frames]
    BY <2>1 DEF Types, Metas
  <2> QED
    BY <2>1, <2>2, <2>3, <2>4 DEF Types, asmVars, streamVars
<1>3. ASSUME NEW m \in Module, StoreData(m)
      PROVE  Types'
  <2>1. /\ image_buffer' = [image_buffer EXCEPT ![Ram!SlotOf(storing[m].meta.pulse_id)][m] = storing[m].meta.pulse_id]
        /\ storing' = [storing EXCEPT ![m].step = "announce"]
        /\ UNCHANGED <<meta_buffer, stored, lapped, asmVars, image_queue, streamVars>>
    BY <1>3 DEF StoreData, Ram!WriteData
  <2>2. storing[m].meta.pulse_id \in Pixels
    BY DEF Types, Metas, Frames, Pixels, Ram!ZeroMeta
  <2>3. image_buffer' \in [Ram!Slot -> [Module -> Pixels]]
    BY <2>1, <2>2 DEF Types
  <2>4. storing' \in [Module -> [step : {"idle", "data", "announce"}, meta : Metas]]
    BY <2>1 DEF Types
  <2> QED
    BY <2>1, <2>3, <2>4 DEF Types, asmVars, streamVars
<1>4. ASSUME NEW m \in Module, AnnounceFrame(m)
      PROVE  Types'
  <2>1. /\ storing' = [storing EXCEPT ![m] = Idle]
        /\ UNCHANGED <<ramVars, stored, lapped, asmVars, image_queue, streamVars>>
    BY <1>4 DEF AnnounceFrame
  <2>2. storing' \in [Module -> [step : {"idle", "data", "announce"}, meta : Metas]]
    BY <2>1 DEF Types, Idle, Metas
  <2> QED
    BY <2>1, <2>2 DEF Types, ramVars, asmVars, streamVars
<1>5. CASE GetNextPulseId
  BY <1>5, SyncReads DEF Types, ramVars, recvVars, streamVars
<1>6. CASE ReadCount
  <2>1. /\ asm_pc = "assemble" /\ n_metas < NModules /\ n_metas' \in {n_metas, n_metas + 1}
        /\ asm_pc' \in {"assemble", "fields"}
        /\ asm_metas' = [asm_metas EXCEPT ![n_metas] = Ram!MetaAt(Sync!LastResult, n_metas)]
        /\ UNCHANGED <<ramVars, recvVars, images, image_queue, streamVars>>
    BY <1>6 DEF ReadCount
  <2>2. n_metas \in Module /\ n_metas' \in 0 .. NModules
    BY <2>1, Constants DEF Types
  <2>3. Ram!MetaAt(Sync!LastResult, n_metas) \in ReadMetas
    BY <2>1, <2>2, Asked, SlotContents, MetasRead
  <2>4. asm_metas' \in [Module -> ReadMetas]
    BY <2>1, <2>2, <2>3 DEF Types
  <2> QED
    BY <2>1, <2>2, <2>4 DEF Types, ramVars, recvVars, streamVars
<1>7. CASE UnexpectedPulse
  BY <1>7 DEF UnexpectedPulse, Types, ramVars, recvVars, streamVars
<1>8. CASE SendImageMeta
  <2> DEFINE new == Ram!AssembledImage(asm_metas)
  <2>1. new \in ImageMetas /\ asm_metas \in [Module -> ReadMetas]
    BY ImageOfFrames DEF Types
  <2>2. /\ asm_pc = "assemble" /\ asm_pc' = "sync" /\ asm_metas' = NoMeta /\ n_metas' = 0
        /\ images' = Append(images, [asked |-> Sync!LastResult, image |-> new])
        /\ image_queue' = IF Len(image_queue) < HWM THEN Append(image_queue, new) ELSE image_queue
        /\ UNCHANGED <<ramVars, recvVars, streamVars>>
    BY <1>8 DEF SendImageMeta, Assembled
  <2> HIDE DEF new
  <2>3. images' \in Seq([asked : Pulses, image : ImageMetas])
    <3>1. [asked |-> Sync!LastResult, image |-> new] \in [asked : Pulses, image : ImageMetas]
      BY <2>1, <2>2, Asked
    <3> QED
      BY <2>2, <3>1 DEF Types
  <2>4. image_queue' \in Seq(ImageMetas) /\ Len(image_queue') <= HWM
    BY <2>1, <2>2, Constants DEF Types
  <2>5. asm_metas' \in [Module -> ReadMetas] /\ n_metas' \in 0 .. NModules
    BY <2>2, Constants, MetasRead DEF NoMeta, Metas
  <2> QED
    BY <2>2, <2>3, <2>4, <2>5 DEF Types, ramVars, recvVars, streamVars
<1>9. CASE RecvImageMeta
  <2>1. /\ image_queue # <<>> /\ image' = Head(image_queue) /\ image_queue' = Tail(image_queue)
        /\ pixels' = <<>> /\ stream_pc' = "copy"
        /\ UNCHANGED <<ramVars, recvVars, asmVars, sent>>
    BY <1>9 DEF RecvImageMeta
  <2>2. image' \in ImageMetas /\ image_queue' \in Seq(ImageMetas) /\ Len(image_queue') <= HWM
    BY <2>1, Constants DEF Types
  <2>3. pixels' \in Seq(Pixels) /\ Len(pixels') <= NModules
    BY <2>1, Constants
  <2> QED
    BY <2>1, <2>2, <2>3 DEF Types, ramVars, recvVars, asmVars
<1>10. CASE CopyPixels
  <2>1. /\ stream_pc = "copy" /\ Len(pixels) < NModules
        /\ pixels' = Append(pixels, Ram!DataAt(image.pulse_id, Len(pixels)))
        /\ UNCHANGED <<ramVars, recvVars, asmVars, image_queue, stream_pc, image, sent>>
    BY <1>10 DEF CopyPixels
  <2>2. image.pulse_id \in Nat /\ Len(pixels) \in Module
    <3>1. image.pulse_id \in Pixels
      BY DEF Types, ImageMetas
    <3>2. Len(pixels) \in Nat
      BY DEF Types
    <3>3. image.pulse_id \in Nat
      BY <3>1, Constants DEF Pixels
    <3> QED
      BY <2>1, <3>2, <3>3, Constants
  <2>3. pixels \in Seq(Pixels) /\ Ram!DataAt(image.pulse_id, Len(pixels)) \in Pixels
    BY <2>2, SlotContents DEF Types
  <2>4. pixels' \in Seq(Pixels) /\ Len(pixels') <= NModules
    BY <2>1, <2>3, Constants
  <2> QED
    BY <2>1, <2>4 DEF Types, ramVars, recvVars, asmVars
<1>11. CASE SendImage
  <2>1. /\ Len(pixels) = NModules /\ sent' = Append(sent, [image |-> image, pixels |-> pixels])
        /\ stream_pc' = "recv"
        /\ UNCHANGED <<ramVars, recvVars, asmVars, image_queue, image, pixels>>
    BY <1>11 DEF SendImage
  <2>2. pixels \in [1 .. NModules -> Pixels] /\ image \in ImageMetas
    BY <2>1 DEF Types
  <2>3. [image |-> image, pixels |-> pixels] \in [image : ImageMetas, pixels : [1 .. NModules -> Pixels]]
    BY <2>2
  <2>4. sent' \in Seq([image : ImageMetas, pixels : [1 .. NModules -> Pixels]])
    BY <2>1, <2>3 DEF Types
  <2> QED
    BY <2>1, <2>4 DEF Types, ramVars, recvVars, asmVars
<1>12. CASE ReadFields
  <2> DEFINE seen == asm_metas[n_metas]
             now  == Ram!MetaAt(Sync!LastResult, n_metas)
  <2>1. PICK meta \in [pulse_id : {seen.pulse_id, now.pulse_id}, frame_index : {seen.frame_index, now.frame_index},
                       daq_rec : {seen.daq_rec, now.daq_rec}, n_recv_packets : {seen.n_recv_packets}] :
           asm_metas' = [asm_metas EXCEPT ![n_metas] = meta]
    BY <1>12 DEF ReadFields
  <2>2. /\ asm_pc = "fields" /\ asm_pc' = "assemble" /\ n_metas' = n_metas + 1
        /\ UNCHANGED <<ramVars, recvVars, images, image_queue, streamVars>>
    BY <1>12 DEF ReadFields
  <2>3. n_metas \in Module /\ n_metas' \in 0 .. NModules
    BY <2>2, Constants DEF Assembling
  <2>4. seen \in ReadMetas /\ now \in ReadMetas
    BY <2>2, <2>3, Asked, SlotContents, MetasRead DEF Types
  <2> HIDE DEF seen, now
  <2>5. meta \in ReadMetas
    BY <2>4 DEF ReadMetas
  <2>6. asm_metas' \in [Module -> ReadMetas]
    BY <2>1, <2>3, <2>5 DEF Types
  <2> QED
    BY <2>2, <2>3, <2>6 DEF Types, ramVars, recvVars, streamVars
<1> QED
  BY <1>1, <1>2, <1>3, <1>4, <1>5, <1>6, <1>7, <1>8, <1>9, <1>10, <1>11, <1>12 DEF Next, Assembler, Stream

-----------------------------------------------------------------------------
(* The receivers. *)

\* The assembler and the stream change nothing of what the receivers have.
LEMMA OthersOnlyRead ==
    ASSUME Types, Synchronises, Assembler \/ Stream \/ UNCHANGED vars
    PROVE  UNCHANGED <<announced, accepted, ramVars, recvVars>>
<1>1. CASE GetNextPulseId
  BY <1>1, SyncReads
<1>2. CASE ReadCount \/ ReadFields \/ UnexpectedPulse \/ SendImageMeta \/ Stream \/ UNCHANGED vars
  BY <1>2 DEF ReadCount, ReadFields, UnexpectedPulse, SendImageMeta, Assembled, Stream, RecvImageMeta, CopyPixels, SendImage,
              vars, syncVars
<1> QED
  BY <1>1, <1>2 DEF Assembler

LEMMA StoringStep ==
    ASSUME Types, Synchronises, AllStoring, [Next]_vars
    PROVE  AllStoring'
<1>1. CASE Assembler \/ Stream \/ UNCHANGED vars
  BY <1>1, OthersOnlyRead DEF AllStoring, Storing, Busy, recvVars
<1>2. ASSUME NEW m \in Module, StoreMeta(m)
      PROVE  AllStoring'
  <2>1. PICK p \in Pulses, meta \in Frames :
           /\ meta.pulse_id = p /\ announced[m] < p /\ ~Busy(m)
           /\ storing' = [storing EXCEPT ![m] = [step |-> "data", meta |-> meta]]
           /\ stored' = [stored EXCEPT ![m] = @ \union {meta}]
           /\ UNCHANGED <<announced, accepted>>
    BY <1>2, Storage DEF syncVars
  <2>2. \A n \in Module : n # m => storing'[n] = storing[n] /\ stored'[n] = stored[n]
    BY <2>1 DEF Types
  <2>3. storing'[m] = [step |-> "data", meta |-> meta] /\ stored'[m] = stored[m] \union {meta}
    BY <2>1 DEF Types
  <2>4. \A n \in Module \ {m} : Storing(n)'
    BY <2>1, <2>2 DEF AllStoring, Storing, Busy
  <2>5. \A a \in stored[m] : a.pulse_id < p
    <3>1. \A a \in stored[m] : a.pulse_id <= announced[m]
      BY <2>1 DEF AllStoring, Storing
    <3> QED
      BY <2>1, <3>1, AnnouncedNumbers, StoredNumbers, Constants
  <2>6. Storing(m)'
    <3>1. \A a, b \in stored'[m] : a.pulse_id = b.pulse_id => a = b
      BY <2>1, <2>3, <2>5, Constants DEF AllStoring, Storing
    <3>2. \A a \in stored'[m] : a.pulse_id <= announced[m] \/ a = meta
      BY <2>1, <2>3 DEF AllStoring, Storing
    <3> QED
      BY <2>1, <2>3, <3>1, <3>2 DEF AllStoring, Storing, Busy
  <2> QED
    BY <2>4, <2>6 DEF AllStoring
<1>3. ASSUME NEW m \in Module, StoreData(m)
      PROVE  AllStoring'
  <2>1. /\ storing[m].step = "data" /\ storing' = [storing EXCEPT ![m].step = "announce"]
        /\ UNCHANGED <<announced, accepted, stored>>
    BY <1>3 DEF StoreData, syncVars
  <2>2. /\ \A n \in Module : storing'[n].meta = storing[n].meta
        /\ \A n \in Module : (storing'[n].step # "idle") = (storing[n].step # "idle")
    BY <2>1 DEF Types
  <2> QED
    BY <2>1, <2>2 DEF AllStoring, Storing, Busy
<1>4. ASSUME NEW m \in Module, AnnounceFrame(m)
      PROVE  AllStoring'
  <2> DEFINE p == storing[m].meta.pulse_id
  <2>1. /\ storing[m].step = "announce" /\ storing' = [storing EXCEPT ![m] = Idle]
        /\ announced' = [announced EXCEPT ![m] = p] /\ stored' = stored
        /\ \A n \in Module : n # m => accepted'[n] = accepted[n]
        /\ accepted'[m] \subseteq accepted[m] \union {p}
    BY <1>4, Announcement
  <2>2. Busy(m) /\ announced[m] < p /\ storing[m].meta \in stored[m] /\ p \in Nat
    <3>1. Busy(m)
      BY <2>1 DEF Busy
    <3>2. announced[m] < p /\ storing[m].meta \in stored[m]
      BY <3>1 DEF AllStoring, Storing
    <3> QED
      BY <3>1, <3>2, StoredNumbers
  <2>3. /\ announced'[m] = p /\ ~Busy(m)'
        /\ \A n \in Module : n # m => storing'[n] = storing[n] /\ announced'[n] = announced[n]
    BY <2>1, AnnouncedNumbers DEF Types, Busy, Idle
  <2>4. \A n \in Module \ {m} : Storing(n)'
    BY <2>1, <2>3 DEF AllStoring, Storing, Busy
  <2>5. \A meta \in stored[m] : meta.pulse_id <= p
    <3>1. \A meta \in stored[m] : meta.pulse_id <= announced[m] \/ meta = storing[m].meta
      BY DEF AllStoring, Storing
    <3> QED
      BY <2>2, <3>1, AnnouncedNumbers, StoredNumbers
  <2>6. \A q \in accepted'[m] : \E meta \in stored[m] : meta.pulse_id = q
    BY <2>1, <2>2 DEF AllStoring, Storing
  <2>7. Storing(m)'
    BY <2>1, <2>3, <2>5, <2>6 DEF AllStoring, Storing
  <2> QED
    BY <2>4, <2>7 DEF AllStoring
<1> QED
  BY <1>1, <1>2, <1>3, <1>4 DEF Next

\* What comes into a slot is later than anything its module stored before.
LEMMA SlotsRenewed ==
    ASSUME Types, Synchronises, AllStoring, [Next]_vars, NEW slot \in Ram!Slot, NEW m \in Module
    PROVE  \/ meta_buffer'[slot][m] = meta_buffer[slot][m]
           \/ \A a \in stored[m] : a.pulse_id < meta_buffer'[slot][m].pulse_id
<1>1. CASE Assembler \/ Stream \/ UNCHANGED vars
  BY <1>1, OthersOnlyRead DEF ramVars
<1>2. ASSUME NEW n \in Module, StoreMeta(n)
      PROVE  \/ meta_buffer'[slot][m] = meta_buffer[slot][m]
             \/ \A a \in stored[m] : a.pulse_id < meta_buffer'[slot][m].pulse_id
  <2>1. PICK p \in Pulses, meta \in Frames :
           /\ meta.pulse_id = p /\ announced[n] < p /\ ~Busy(n)
           /\ meta_buffer' = [meta_buffer EXCEPT ![Ram!SlotOf(p)][n] = meta]
    BY <1>2, Storage
  <2>2. meta_buffer'[slot][m] = meta_buffer[slot][m] \/ (m = n /\ meta_buffer'[slot][m] = meta)
    BY <2>1 DEF Types
  <2>3. \A a \in stored[n] : a.pulse_id < p
    <3>1. \A a \in stored[n] : a.pulse_id <= announced[n]
      BY <2>1 DEF AllStoring, Storing
    <3> QED
      BY <2>1, <3>1, AnnouncedNumbers, StoredNumbers, Constants
  <2> QED
    BY <2>1, <2>2, <2>3
<1>3. ASSUME NEW n \in Module, StoreData(n) \/ AnnounceFrame(n)
      PROVE  meta_buffer' = meta_buffer
  BY <1>3 DEF StoreData, AnnounceFrame, Ram!WriteData, ramVars
<1> QED
  BY <1>1, <1>2, <1>3 DEF Next

LEMMA BufferedStep ==
    ASSUME Types, Synchronises, AllStoring, Buffered, [Next]_vars
    PROVE  Buffered'
<1>1. CASE Assembler \/ Stream \/ UNCHANGED vars
  BY <1>1, OthersOnlyRead DEF Buffered, recvVars, ramVars, Ram!MetaAt
<1>2. ASSUME NEW m \in Module, StoreMeta(m)
      PROVE  Buffered'
  <2>1. PICK p \in Pulses, meta \in Frames :
           /\ meta.pulse_id = p /\ announced[m] < p /\ ~Busy(m)
           /\ meta_buffer' = [meta_buffer EXCEPT ![Ram!SlotOf(p)][m] = meta]
           /\ stored' = [stored EXCEPT ![m] = @ \union {meta}]
    BY <1>2, Storage
  <2>2. /\ stored'[m] = stored[m] \union {meta}
        /\ \A n \in Module \ {m} : stored'[n] = stored[n]
    BY <2>1 DEF Types
  <2>3. \A slot \in Ram!Slot, n \in Module :
           meta_buffer'[slot][n] = meta_buffer[slot][n] \/ (n = m /\ meta_buffer'[slot][n] = meta)
    BY <2>1 DEF Types
  <2>4. p \in Nat /\ Ram!SlotOf(p) \in Ram!Slot /\ Ram!MetaAt(p, m)' = meta
    <3>1. p \in Nat /\ Ram!SlotOf(p) \in Ram!Slot
      BY Constants, Slots
    <3> QED
      BY <2>1, <3>1 DEF Ram!MetaAt, Types
  <2>5. ASSUME NEW n \in Module, NEW a \in stored[n]
        PROVE  Ram!MetaAt(a.pulse_id, n)'.pulse_id >= a.pulse_id
    <3>1. a.pulse_id \in Nat /\ Ram!SlotOf(a.pulse_id) \in Ram!Slot
      BY StoredNumbers, Slots
    <3>2. Ram!MetaAt(a.pulse_id, n).pulse_id >= a.pulse_id
      BY DEF Buffered
    <3>3. \/ Ram!MetaAt(a.pulse_id, n)' = Ram!MetaAt(a.pulse_id, n)
          \/ a.pulse_id < Ram!MetaAt(a.pulse_id, n)'.pulse_id
      BY <3>1, SlotsRenewed DEF Ram!MetaAt
    <3>4. Ram!MetaAt(a.pulse_id, n)'.pulse_id \in Nat
      <4>1. Ram!MetaAt(a.pulse_id, n)' \in {Ram!MetaAt(a.pulse_id, n), meta}
        BY <2>3, <3>1 DEF Ram!MetaAt
      <4>2. meta \in Metas /\ Ram!MetaAt(a.pulse_id, n) \in Metas
        BY <3>1, SlotContents DEF Metas
      <4> QED
        BY <4>1, <4>2, MetaPulses
    <3> QED
      BY <3>1, <3>2, <3>3, <3>4
  <2>6. \A n \in Module : \A a \in stored'[n] : Ram!MetaAt(a.pulse_id, n)'.pulse_id >= a.pulse_id
    BY <2>1, <2>2, <2>4, <2>5
  <2> QED
    BY <2>2, <2>3, <2>6 DEF Buffered
<1>3. ASSUME NEW m \in Module, StoreData(m) \/ AnnounceFrame(m)
      PROVE  Buffered'
  BY <1>3 DEF Buffered, StoreData, AnnounceFrame, Ram!WriteData, ramVars, Ram!MetaAt
<1> QED
  BY <1>1, <1>2, <1>3 DEF Next

-----------------------------------------------------------------------------
(* The assembler and the queue to the stream. *)

\* What the modules have announced stays announced.
LEMMA CommonStays ==
    ASSUME Types, Synchronises, [Next]_vars
    PROVE  S!Common \subseteq S!Common'
<1>1. \A m \in Module : accepted[m] \subseteq accepted'[m]
  <2>1. CASE Assembler \/ Stream \/ UNCHANGED vars
    BY <2>1, OthersOnlyRead
  <2>2. ASSUME NEW m \in Module, StoreMeta(m) \/ StoreData(m)
        PROVE  UNCHANGED accepted
    BY <2>2 DEF StoreMeta, StoreData, syncVars
  <2>3. ASSUME NEW m \in Module, AnnounceFrame(m)
        PROVE  \A n \in Module : accepted[n] \subseteq accepted'[n]
    BY <2>3, Announcement
  <2> QED
    BY <2>1, <2>2, <2>3 DEF Next
<1> QED
  BY <1>1, Constants DEF S!Common

LEMMA AssemblingStep ==
    ASSUME Types, Synchronises, Assembling, [Next]_vars
    PROVE  Assembling'
<1>1. CASE GetNextPulseId
  BY <1>1, SyncReads DEF Assembling
<1>2. ASSUME NEW m \in Module, StoreMeta(m) \/ StoreData(m)
      PROVE  Assembling'
  BY <1>2 DEF StoreMeta, StoreData, syncVars, syncRecv, asmVars, Assembling
<1>3. ASSUME NEW m \in Module, AnnounceFrame(m)
      PROVE  Assembling'
  BY <1>3, Announcement DEF syncRecv, asmVars, Assembling
<1>4. CASE ReadCount \/ ReadFields
  <2>1. ReadCount => n_metas \in Module
    BY Constants DEF ReadCount, Types
  <2> QED
    BY <1>4, <2>1 DEF ReadCount, ReadFields, syncVars, syncRecv, Assembling
<1>5. CASE UnexpectedPulse \/ SendImageMeta \/ Stream \/ UNCHANGED vars
  BY <1>5 DEF UnexpectedPulse, SendImageMeta, Assembled, Stream, RecvImageMeta, CopyPixels, SendImage,
              vars, syncVars, syncRecv, asmVars, Assembling
<1> QED
  BY <1>1, <1>2, <1>3, <1>4, <1>5 DEF Next, Assembler

\* What becomes of an image: appended, for the assembler and perhaps for the stream.
LEMMA NewImage ==
    ASSUME Types, Synchronises, Assembling, SendImageMeta
    PROVE  LET new == Ram!AssembledImage(asm_metas) IN
           /\ asm_pc = "assemble" /\ n_metas = NModules /\ asm_pc' = "sync"
           /\ ~Ram!IsUnexpected(S!LastResult, asm_metas)
           /\ new \in ImageMetas /\ new.pulse_id \in {0, S!LastResult}
           /\ images' = Append(images, [asked |-> S!LastResult, image |-> new])
           /\ image_queue' \in {image_queue, Append(image_queue, new)}
           /\ UNCHANGED <<syncVars, ramVars, recvVars, streamVars>>
<1>1. /\ asm_pc = "assemble" /\ n_metas = NModules /\ asm_pc' = "sync"
      /\ ~Ram!IsUnexpected(Sync!LastResult, asm_metas)
      /\ images' = Append(images, [asked |-> Sync!LastResult, image |-> Ram!AssembledImage(asm_metas)])
      /\ image_queue' \in {image_queue, Append(image_queue, Ram!AssembledImage(asm_metas))}
      /\ UNCHANGED <<syncVars, ramVars, recvVars, streamVars>>
  BY DEF SendImageMeta, Assembled
<1>2. Sync!LastResult = S!LastResult
  BY <1>1, Asked
<1>3. asm_metas \in [Module -> ReadMetas]
  BY DEF Types
<1>4. /\ Ram!AssembledImage(asm_metas) \in ImageMetas
      /\ Ram!AssembledImage(asm_metas).pulse_id \in {0, S!LastResult}
  BY <1>1, <1>2, <1>3, ImageOfFrames
<1> QED
  BY <1>1, <1>2, <1>4

LEMMA OnTheWayStep ==
    ASSUME Types, Synchronises, Assembling, OnTheWay, [Next]_vars
    PROVE  OnTheWay'
<1>0. S!Common \subseteq S!Common'
  BY CommonStays
<1>1. CASE GetNextPulseId
  BY <1>0, <1>1, SyncReads DEF OnTheWay, streamVars
<1>2. ASSUME NEW m \in Module, StoreMeta(m) \/ StoreData(m) \/ AnnounceFrame(m)
      PROVE  OnTheWay'
  BY <1>0, <1>2 DEF StoreMeta, StoreData, AnnounceFrame, streamVars, OnTheWay
<1>3. CASE ReadCount \/ ReadFields \/ UnexpectedPulse \/ CopyPixels \/ SendImage \/ UNCHANGED vars
  BY <1>0, <1>3 DEF ReadCount, ReadFields, UnexpectedPulse, CopyPixels, SendImage, vars, streamVars, OnTheWay
<1>4. CASE SendImageMeta
  <2> DEFINE new == Ram!AssembledImage(asm_metas)
  <2>1. /\ new \in ImageMetas /\ new.pulse_id \in S!Common \union {0}
        /\ image_queue' \in {image_queue, Append(image_queue, new)}
        /\ UNCHANGED streamVars
    BY <1>4, NewImage, Asked
  <2> HIDE DEF new
  <2>2. \A k \in 1 .. Len(image_queue') :
           (k \in 1 .. Len(image_queue) /\ image_queue'[k] = image_queue[k]) \/ image_queue'[k] = new
    <3>1. image_queue \in Seq(ImageMetas)
      BY DEF Types
    <3> QED
      BY <2>1, <3>1
  <2> QED
    BY <1>0, <2>1, <2>2 DEF OnTheWay, streamVars
<1>5. CASE RecvImageMeta
  <2>1. image_queue # <<>> /\ image' = Head(image_queue) /\ image_queue' = Tail(image_queue)
    BY <1>5 DEF RecvImageMeta
  <2>2. /\ image' = image_queue[1] /\ 1 \in 1 .. Len(image_queue)
        /\ \A k \in 1 .. Len(image_queue') : k + 1 \in 1 .. Len(image_queue) /\ image_queue'[k] = image_queue[k + 1]
    BY <2>1 DEF Types
  <2> QED
    BY <1>0, <2>2 DEF OnTheWay
<1> QED
  BY <1>1, <1>2, <1>3, <1>4, <1>5 DEF Next, Assembler, Stream

-----------------------------------------------------------------------------
(* The ring. *)

\* What is to be looked up of a module is pending, and older than what it stores next.
LEMMA LookUpsPending ==
    ASSUME Types, Synchronises, AllStoring, OnTheWay, NEW m \in Module, NEW q \in ToLookUp(m)
    PROVE  /\ q \in Nat /\ q \in Pending \ {0}
           /\ q <= announced[m] \/ (Busy(m) /\ q = storing[m].meta.pulse_id)
<1>1. q \in Range(queue[m]) \union {pulses[m]} \union ToSend \/ (Busy(m) /\ q = storing[m].meta.pulse_id)
  BY DEF ToLookUp, ToAssemble
<1>2. q \in Nat /\ (q <= announced[m] \/ (Busy(m) /\ q = storing[m].meta.pulse_id))
  BY <1>1, WaitingAnnounced, Constants
<1>3. q \in Pending
  <2>1. ASSUME q \in Range(queue[m])
        PROVE  q \in Pending
    BY <2>1 DEF Pending
  <2>2. ASSUME q \in {p \in {pulses[m]} : asm_pc # "sync" \/ pc # "first" \/ m < n_read}
        PROVE  q \in Pending
    <3>1. pulses[m] \in Range(pulses) /\ (m < n_read => m \in 0 .. n_read - 1)
      BY Constants DEF Range, Synchronises, S!Types, S!TypeOK
    <3> QED
      BY <2>2, <3>1 DEF Pending
  <2>3. ASSUME Busy(m), q = storing[m].meta.pulse_id
        PROVE  q \in Pending
    BY <2>3 DEF Pending, Busy
  <2>4. ASSUME q \in ToSend
        PROVE  q \in Pending
    BY <2>4 DEF Pending, ToSend
  <2> QED
    BY <2>1, <2>2, <2>3, <2>4 DEF ToLookUp, ToAssemble
<1> QED
  BY <1>2, <1>3 DEF ToLookUp

\* Steps that store nothing and add nothing to look up leave the ring as it is.
LEMMA RingStays ==
    ASSUME NEW m \in Module, Ring(m), UNCHANGED <<ramVars, lapped, stored>>,
           Unstored(m)' = Unstored(m),
           ToAssemble(m)' \subseteq ToAssemble(m), ToLookUp(m)' \subseteq ToLookUp(m)
    PROVE  Ring(m)'
  BY DEF Ring, ramVars, Ram!MetaAt, Ram!DataAt

LEMMA RingStep ==
    ASSUME Types, Synchronises, AllStoring, Assembling, OnTheWay, RingKeeps, [Next]_vars
    PROVE  RingKeeps'
<1>1. CASE GetNextPulseId
  <2> SUFFICES ASSUME NEW m \in Module
               PROVE  Ring(m)'
    BY DEF RingKeeps
  <2>1. /\ UNCHANGED <<ramVars, lapped, stored, storing, image_queue, stream_pc, image>>
        /\ ToAssemble(m)' \subseteq ToAssemble(m)
    BY <1>1, SyncReads DEF recvVars, streamVars
  <2>2. ToSend' = ToSend /\ Unstored(m)' = Unstored(m)
    BY <2>1 DEF ToSend, Unstored
  <2> QED
    BY <2>1, <2>2, RingStays DEF ToLookUp, RingKeeps
<1>2. ASSUME NEW m \in Module, StoreMeta(m)
      PROVE  RingKeeps'
  <2>1. PICK p \in Pulses, meta \in Frames :
           /\ meta.pulse_id = p /\ announced[m] < p /\ ~Busy(m)
           /\ meta_buffer' = [meta_buffer EXCEPT ![Ram!SlotOf(p)][m] = meta]
           /\ storing' = [storing EXCEPT ![m] = [step |-> "data", meta |-> meta]]
           /\ stored' = [stored EXCEPT ![m] = @ \union {meta}]
           /\ lapped' = lapped \union LappedBy(p)
           /\ UNCHANGED <<image_buffer, syncVars, asmVars, image_queue, streamVars>>
    BY <1>2, Storage
  <2>2. /\ UNCHANGED <<image_buffer, queue, pulses, pc, n_read, asm_pc, image_queue, stream_pc, image>>
        /\ lapped \subseteq lapped' /\ ToSend' = ToSend
    BY <2>1 DEF syncVars, syncRecv, asmVars, streamVars, ToSend
  <2>3. /\ storing'[m] = [step |-> "data", meta |-> meta] /\ stored'[m] = stored[m] \union {meta}
        /\ \A n \in Module \ {m} : storing'[n] = storing[n] /\ stored'[n] = stored[n]
    BY <2>1 DEF Types
  <2>4. /\ \A slot \in Ram!Slot, n \in Module :
              n # m \/ slot # Ram!SlotOf(p) => meta_buffer'[slot][n] = meta_buffer[slot][n]
        /\ meta_buffer'[Ram!SlotOf(p)][m] = meta
    BY <2>1, Slots, Constants DEF Types
  <2>5. ASSUME NEW n \in Module \ {m}
        PROVE  Ring(n)'
    <3>1. ToAssemble(n)' = ToAssemble(n) /\ Unstored(n)' = Unstored(n)
      BY <2>2, <2>3 DEF ToAssemble, Busy, Unstored
    <3>2. ToAssemble(n)' \ ({0} \union lapped') \subseteq ToAssemble(n) \ ({0} \union lapped)
      BY <2>2, <3>1
    <3>3. ToLookUp(n)' \subseteq ToLookUp(n)
      BY <2>2, <3>1 DEF ToLookUp
    <3>4. \A q \in ToAssemble(n) \ ({0} \union lapped) : Ram!SlotOf(q) \in Ram!Slot
      BY LookUpsPending, Slots DEF ToLookUp
    <3>5. \A q \in ToAssemble(n) \ ({0} \union lapped) : Ram!MetaAt(q, n)' = Ram!MetaAt(q, n)
      BY <2>4, <3>4 DEF Ram!MetaAt
    <3> QED
      BY <2>2, <2>3, <3>1, <3>2, <3>3, <3>5 DEF RingKeeps, Ring, Ram!DataAt
  <2>6. Ring(m)'
    <3>1. Unstored(m) = {} /\ Unstored(m)' = {p}
      BY <2>1, <2>3 DEF Unstored, Busy
    <3>2. ToAssemble(m)' = ToAssemble(m) \union {p}
      BY <2>1, <2>2, <2>3 DEF ToAssemble, Busy
    <3>3. ToLookUp(m)' \subseteq ToLookUp(m) \union {p}
      BY <2>2, <3>2 DEF ToLookUp
    <3>4. ASSUME NEW q \in ToLookUp(m), q \notin lapped'
          PROVE  q # p /\ Ram!SlotOf(q) \in Ram!Slot /\ Ram!SlotOf(q) # Ram!SlotOf(p)
      <4>1. q \in Nat /\ q \in Pending \ {0} /\ q < p
        BY <2>1, LookUpsPending, AnnouncedNumbers, Constants
      <4>2. q \notin LappedBy(p)
        BY <2>1, <3>4
      <4> QED
        BY <4>1, <4>2, Slots DEF LappedBy
    <3>5. \A q \in ToAssemble(m)' \ ({0} \union lapped') :
             Ram!MetaAt(q, m)' \in stored'[m] /\ Ram!MetaAt(q, m)'.pulse_id = q
      <4>1. \A q \in ToAssemble(m) \ ({0} \union lapped') : q \in ToLookUp(m)
        BY <2>2 DEF ToLookUp
      <4>2. \A q \in ToAssemble(m) \ ({0} \union lapped') : Ram!MetaAt(q, m)' = Ram!MetaAt(q, m)
        BY <2>4, <3>4, <4>1 DEF Ram!MetaAt
      <4>3. Ram!MetaAt(p, m)' = meta
        BY <2>4 DEF Ram!MetaAt
      <4> QED
        BY <2>1, <2>2, <2>3, <3>2, <4>2, <4>3 DEF RingKeeps, Ring
    <3>6. \A q \in ToLookUp(m)' \ Unstored(m)' :
             Ram!DataAt(q, m)' = q /\ \A r \in Unstored(m)' : Ram!SlotOf(q) # Ram!SlotOf(r)
      <4>1. \A q \in ToLookUp(m)' \ {p} : q \in ToLookUp(m) /\ q \notin lapped'
        BY <3>3 DEF ToLookUp
      <4>2. \A q \in ToLookUp(m)' \ {p} : Ram!SlotOf(q) # Ram!SlotOf(p)
        BY <3>4, <4>1
      <4>3. \A q \in ToLookUp(m)' \ {p} : Ram!DataAt(q, m)' = q
        BY <2>2, <3>1, <4>1 DEF RingKeeps, Ring, Ram!DataAt
      <4> QED
        BY <3>1, <4>2, <4>3
    <3> QED
      BY <3>5, <3>6 DEF Ring
  <2> QED
    BY <2>5, <2>6 DEF RingKeeps
<1>3. ASSUME NEW m \in Module, StoreData(m)
      PROVE  RingKeeps'
  <2> DEFINE p == storing[m].meta.pulse_id
  <2>1. /\ storing[m].step = "data" /\ storing' = [storing EXCEPT ![m].step = "announce"]
        /\ image_buffer' = [image_buffer EXCEPT ![Ram!SlotOf(p)][m] = p]
        /\ UNCHANGED <<meta_buffer, stored, lapped, queue, pulses, pc, n_read, asm_pc, image_queue, stream_pc, image>>
    BY <1>3 DEF StoreData, Ram!WriteData, syncVars, syncRecv, asmVars, streamVars
  <2>2. /\ storing'[m].step = "announce" /\ storing'[m].meta = storing[m].meta
        /\ \A n \in Module \ {m} : storing'[n] = storing[n]
    BY <2>1 DEF Types
  <2>3. ToSend' = ToSend /\ \A n \in Module : ToAssemble(n)' = ToAssemble(n)
    BY <2>1, <2>2 DEF ToSend, ToAssemble, Busy
  <2>4. \A n \in Module : ToLookUp(n)' = ToLookUp(n)
    BY <2>1, <2>3 DEF ToLookUp
  <2>5. \A n \in Module : \A q \in ToLookUp(n) : Ram!SlotOf(q) \in Ram!Slot
    BY LookUpsPending, Slots
  <2>6. p \in Nat /\ Ram!SlotOf(p) \in Ram!Slot
    <3>1. Busy(m)
      BY <2>1 DEF Busy
    <3> QED
      BY <3>1, WaitingAnnounced, Slots, Constants
  <2> HIDE DEF p
  <2>7. /\ \A slot \in Ram!Slot, n \in Module :
              n # m \/ slot # Ram!SlotOf(p) => image_buffer'[slot][n] = image_buffer[slot][n]
        /\ image_buffer'[Ram!SlotOf(p)][m] = p
    BY <2>1, <2>6 DEF Types
  <2>8. ASSUME NEW n \in Module \ {m}
        PROVE  Ring(n)'
    <3>1. Unstored(n)' = Unstored(n)
      BY <2>2 DEF Unstored
    <3>2. \A q \in ToLookUp(n) : Ram!DataAt(q, n)' = Ram!DataAt(q, n)
      BY <2>5, <2>7 DEF Ram!DataAt
    <3> QED
      BY <2>1, <2>3, <2>4, <3>1, <3>2 DEF RingKeeps, Ring, Ram!MetaAt
  <2>9. Ring(m)'
    <3>1. Unstored(m) = {p} /\ Unstored(m)' = {}
      BY <2>1, <2>2 DEF Unstored, p
    <3>2. \A q \in ToLookUp(m) : Ram!DataAt(q, m)' = q
      <4>1. \A q \in ToLookUp(m) \ {p} : Ram!DataAt(q, m) = q /\ Ram!SlotOf(q) # Ram!SlotOf(p)
        BY <3>1 DEF RingKeeps, Ring
      <4> QED
        BY <2>5, <2>7, <4>1 DEF Ram!DataAt
    <3> QED
      BY <2>1, <2>3, <2>4, <3>1, <3>2 DEF RingKeeps, Ring, Ram!MetaAt
  <2> QED
    BY <2>8, <2>9 DEF RingKeeps
<1>4. ASSUME NEW m \in Module, AnnounceFrame(m)
      PROVE  RingKeeps'
  <2> SUFFICES ASSUME NEW n \in Module
               PROVE  Ring(n)'
    BY DEF RingKeeps
  <2>1. /\ UNCHANGED <<ramVars, lapped, stored, pulses, pc, n_read, asm_pc, image_queue, stream_pc, image>>
        /\ storing[m].step = "announce" /\ storing' = [storing EXCEPT ![m] = Idle]
        /\ n # m => queue'[n] = queue[n]
        /\ Range(queue'[m]) \subseteq Range(queue[m]) \union {storing[m].meta.pulse_id}
    BY <1>4, Announcement DEF syncRecv, asmVars, streamVars
  <2>2. storing'[m].step = "idle" /\ (n # m => storing'[n] = storing[n])
    BY <2>1 DEF Types, Idle
  <2>3. ToSend' = ToSend /\ Unstored(n)' = Unstored(n)
    BY <2>1, <2>2 DEF ToSend, Unstored
  <2>4. ToAssemble(n)' \subseteq ToAssemble(n)
    <3>1. CASE n = m
      BY <2>1, <2>2, <3>1 DEF ToAssemble, Busy
    <3>2. CASE n # m
      BY <2>1, <2>2, <3>2 DEF ToAssemble, Busy
    <3> QED
      BY <3>1, <3>2
  <2> QED
    BY <2>1, <2>3, <2>4, RingStays DEF ToLookUp, RingKeeps
<1>5. CASE ReadCount \/ ReadFields \/ UnexpectedPulse \/ CopyPixels \/ SendImage \/ UNCHANGED vars
  <2> SUFFICES ASSUME NEW m \in Module
               PROVE  Ring(m)'
    BY DEF RingKeeps
  <2>1. /\ UNCHANGED <<ramVars, lapped, stored, storing, image_queue, image, queue, pulses, pc, n_read>>
        /\ (asm_pc' # "sync") = (asm_pc # "sync")
        /\ stream_pc' \in {stream_pc, "recv"}
    BY <1>5 DEF ReadCount, ReadFields, UnexpectedPulse, CopyPixels, SendImage, vars, recvVars, asmVars, streamVars, syncVars, syncRecv
  <2>2. ToSend' \subseteq ToSend /\ Unstored(m)' = Unstored(m)
    BY <2>1 DEF ToSend, Unstored
  <2>3. ToAssemble(m)' = ToAssemble(m)
    BY <2>1 DEF ToAssemble, Busy
  <2> QED
    BY <2>1, <2>2, <2>3, RingStays DEF ToLookUp, RingKeeps
<1>6. CASE SendImageMeta
  <2> SUFFICES ASSUME NEW m \in Module
               PROVE  Ring(m)'
    BY DEF RingKeeps
  <2> DEFINE new == Ram!AssembledImage(asm_metas)
  <2>1. /\ UNCHANGED <<ramVars, lapped, stored, storing, image, queue, pulses, pc, n_read, stream_pc>>
        /\ asm_pc = "assemble" /\ asm_pc' = "sync"
        /\ image_queue' \in {image_queue, Append(image_queue, new)}
        /\ new \in ImageMetas /\ new.pulse_id \in {0, S!LastResult}
    BY <1>6, NewImage DEF recvVars, streamVars, syncVars, syncRecv
  <2> HIDE DEF new
  <2>2. pulses[m] = S!LastResult
    BY <2>1, Asked
  <2>3. ToAssemble(m)' \subseteq ToAssemble(m) /\ new.pulse_id \in ToAssemble(m) \union {0}
    BY <2>1, <2>2 DEF ToAssemble, Busy
  <2>4. \A k \in 1 .. Len(image_queue') :
           (k \in 1 .. Len(image_queue) /\ image_queue'[k] = image_queue[k]) \/ image_queue'[k] = new
    <3>1. image_queue \in Seq(ImageMetas)
      BY DEF Types
    <3> QED
      BY <2>1, <3>1
  <2>5. ToSend' \subseteq ToSend \union {new.pulse_id} /\ Unstored(m)' = Unstored(m)
    BY <2>1, <2>4 DEF ToSend, Unstored
  <2> QED
    BY <2>1, <2>3, <2>5, RingStays DEF ToLookUp, RingKeeps
<1>7. CASE RecvImageMeta
  <2> SUFFICES ASSUME NEW m \in Module
               PROVE  Ring(m)'
    BY DEF RingKeeps
  <2>1. /\ UNCHANGED <<ramVars, lapped, stored, storing, queue, pulses, pc, n_read, asm_pc>>
        /\ image_queue # <<>> /\ image' = Head(image_queue) /\ image_queue' = Tail(image_queue)
    BY <1>7 DEF RecvImageMeta, recvVars, asmVars, syncVars, syncRecv
  <2>2. /\ image' = image_queue[1] /\ 1 \in 1 .. Len(image_queue)
        /\ \A k \in 1 .. Len(image_queue') : k + 1 \in 1 .. Len(image_queue) /\ image_queue'[k] = image_queue[k + 1]
    BY <2>1 DEF Types
  <2>3. ToSend' \subseteq ToSend /\ Unstored(m)' = Unstored(m)
    BY <2>1, <2>2 DEF ToSend, Unstored
  <2>4. ToAssemble(m)' = ToAssemble(m)
    BY <2>1 DEF ToAssemble, Busy
  <2> QED
    BY <2>1, <2>3, <2>4, RingStays DEF ToLookUp, RingKeeps
<1> QED
  BY <1>1, <1>2, <1>3, <1>4, <1>5, <1>6, <1>7 DEF Next, Assembler, Stream

-----------------------------------------------------------------------------
(* What the assembler reads and makes of it. *)

\* What is stored stays, and so does what is lapped; a step that ends no synchronisation
\* leaves the last result alone.
LEMMA HistoryStays ==
    ASSUME Types, Synchronises, [Next]_vars
    PROVE  /\ lapped \subseteq lapped' /\ \A m \in Module : stored[m] \subseteq stored'[m]
           /\ asm_pc # "sync" => S!LastResult' = S!LastResult
<1>1. ASSUME NEW m \in Module, StoreMeta(m)
      PROVE  lapped \subseteq lapped' /\ (\A n \in Module : stored[n] \subseteq stored'[n]) /\ synced' = synced
  <2>1. PICK p \in Pulses, meta \in Frames :
           /\ stored' = [stored EXCEPT ![m] = @ \union {meta}] /\ lapped' = lapped \union LappedBy(p)
           /\ UNCHANGED <<image_buffer, syncVars, asmVars, image_queue, streamVars>>
    BY <1>1, Storage
  <2> QED
    BY <2>1 DEF Types, syncVars, syncRecv
<1>2. ASSUME NEW m \in Module, StoreData(m)
      PROVE  UNCHANGED <<lapped, stored, synced>>
  BY <1>2 DEF StoreData, syncVars, syncRecv
<1>3. ASSUME NEW m \in Module, AnnounceFrame(m)
      PROVE  UNCHANGED <<lapped, stored, synced>>
  BY <1>3, Announcement DEF syncRecv
<1>4. CASE Assembler \/ Stream \/ UNCHANGED vars
  <2>1. UNCHANGED <<lapped, stored>>
    BY <1>4, OthersOnlyRead DEF recvVars
  <2>2. asm_pc # "sync" => synced' = synced
    BY <1>4 DEF Assembler, GetNextPulseId, ReadCount, ReadFields, UnexpectedPulse, SendImageMeta, Assembled, Stream,
                RecvImageMeta, CopyPixels, SendImage, vars, syncVars, syncRecv
  <2> QED
    BY <2>1, <2>2 DEF S!LastResult
<1> QED
  BY <1>1, <1>2, <1>3, <1>4 DEF Next, S!LastResult

\* Where assemble_image looks there is a frame of the module or nothing; it is of the
\* pulse asked for, unless that lost a slot.
LEMMA FrameRead ==
    ASSUME Types, Synchronises, Assembling, Buffered, RingKeeps, asm_pc # "sync", NEW m \in Module
    PROVE  /\ Ram!MetaAt(S!LastResult, m) \in stored[m] \union {Ram!ZeroMeta}
           /\ S!LastResult \notin lapped =>
                 Ram!MetaAt(S!LastResult, m) \in stored[m] /\ Ram!MetaAt(S!LastResult, m).pulse_id = S!LastResult
<1>1. S!LastResult \in Nat \ {0} /\ pulses[m] = S!LastResult
  BY Asked
<1>2. Ram!MetaAt(S!LastResult, m) \in stored[m] \union {Ram!ZeroMeta}
  BY <1>1, Slots DEF Buffered, Ram!MetaAt
<1>3. S!LastResult \in ToAssemble(m)
  BY <1>1 DEF ToAssemble
<1> QED
  BY <1>1, <1>2, <1>3 DEF RingKeeps, Ring

\* What a step leaves of the module the assembler is reading.
LEMMA ReadingStays ==
    ASSUME Types, Synchronises, AllStoring, Assembling, OnTheWay, Read, [Next]_vars,
           asm_pc = "fields", UNCHANGED <<asm_pc, asm_metas, n_metas>>
    PROVE  Reading(n_metas)'
<1>0. /\ lapped \subseteq lapped' /\ \A m \in Module : stored[m] \subseteq stored'[m]
      /\ S!LastResult' = S!LastResult /\ n_metas \in Module /\ Reading(n_metas)
  BY HistoryStays DEF Assembling, Read
<1>1. S!LastResult \in Nat
  BY Asked
<1> DEFINE seen == asm_metas[n_metas]
<1>2. seen \in stored[n_metas] /\ seen.pulse_id \in Nat /\ Ram!SlotOf(S!LastResult) \in Ram!Slot
  BY <1>0, <1>1, StoredNumbers, Slots DEF Reading
<1>3. \/ Ram!MetaAt(S!LastResult, n_metas)' = Ram!MetaAt(S!LastResult, n_metas)
      \/ seen.pulse_id < Ram!MetaAt(S!LastResult, n_metas)'.pulse_id
  BY <1>0, <1>2, SlotsRenewed DEF Ram!MetaAt
<1>4. Ram!MetaAt(S!LastResult, n_metas)'.pulse_id \in Nat
  <2>1. Types'
    BY TypesStep
  <2>2. meta_buffer'[Ram!SlotOf(S!LastResult)][n_metas] \in Metas
    BY <1>0, <1>2, <2>1 DEF Types
  <2> QED
    BY <1>0, <2>2, MetaPulses DEF Ram!MetaAt
<1>5. seen.pulse_id <= Ram!MetaAt(S!LastResult, n_metas)'.pulse_id
  BY <1>0, <1>2, <1>3, <1>4 DEF Reading
<1> QED
  BY <1>0, <1>2, <1>5 DEF Reading

LEMMA ReadStep ==
    ASSUME Types, Synchronises, AllStoring, Assembling, OnTheWay, Buffered, RingKeeps, Read, [Next]_vars
    PROVE  Read'
<1>0. /\ lapped \subseteq lapped' /\ \A m \in Module : stored[m] \subseteq stored'[m]
      /\ asm_pc # "sync" => S!LastResult' = S!LastResult
  BY HistoryStays
<1>1. ASSUME NEW m \in Module, asm_pc # "sync", ReadOf(m), asm_metas'[m] = asm_metas[m]
      PROVE  ReadOf(m)'
  BY <1>0, <1>1 DEF ReadOf, WholeFrame
<1>2. CASE UNCHANGED <<asm_pc, asm_metas, n_metas>>
  BY <1>1, <1>2, ReadingStays DEF Read
<1>3. CASE GetNextPulseId
  BY <1>3, SyncReads DEF Assembling, Read, Types, Module, Ram!Module
<1>4. CASE ReadCount
  <2> DEFINE meta == Ram!MetaAt(S!LastResult, n_metas)
  <2>1. /\ asm_pc = "assemble" /\ n_metas < NModules /\ Sync!LastResult = S!LastResult /\ S!LastResult \in Nat
        /\ S!LastResult \in S!Common
    BY <1>4, Asked DEF ReadCount
  <2>2. /\ asm_metas' = [asm_metas EXCEPT ![n_metas] = meta]
        /\ \/ meta.n_recv_packets = NPackets /\ asm_pc' = "fields" /\ n_metas' = n_metas
           \/ meta.n_recv_packets # NPackets /\ n_metas' = n_metas + 1 /\ asm_pc' = asm_pc
        /\ UNCHANGED <<meta_buffer, stored, lapped>>
    BY <1>4, <2>1 DEF ReadCount, ramVars, recvVars
  <2>3. n_metas \in Module
    BY <2>1, Constants DEF Types
  <2>4. /\ meta \in stored[n_metas] \union {Ram!ZeroMeta}
        /\ S!LastResult \notin lapped => meta \in stored[n_metas] /\ meta.pulse_id = S!LastResult
    BY <2>1, <2>3, FrameRead
  <2>5. meta.pulse_id >= S!LastResult
    <3>1. PICK a \in stored[n_metas] : a.pulse_id = S!LastResult
      BY <2>1, <2>3, Constants DEF S!Common, AllStoring, Storing
    <3> QED
      BY <2>3, <3>1 DEF Buffered
  <2>6. n_metas' = n_metas => Ram!MetaAt(S!LastResult, n_metas)' = meta
    BY <1>0, <2>1, <2>2 DEF Ram!MetaAt
  <2> HIDE DEF meta
  <2>7. asm_metas'[n_metas] = meta /\ \A m \in Module \ {n_metas} : asm_metas'[m] = asm_metas[m]
    BY <2>2, <2>3 DEF Types
  <2>8. \A m \in Module : m < n_metas => ReadOf(m)'
    BY <1>1, <2>1, <2>3, <2>7, Constants DEF Read
  <2>9. CASE meta.n_recv_packets = NPackets
    <3>1. meta \in stored[n_metas] /\ meta.pulse_id \in Nat
      BY <2>3, <2>4, <2>9, StoredNumbers, Constants DEF Ram!ZeroMeta
    <3>2. Reading(n_metas)'
      BY <1>0, <2>1, <2>2, <2>4, <2>5, <2>6, <2>7, <2>9, <3>1 DEF Reading
    <3> QED
      BY <2>2, <2>8, <2>9, <3>2 DEF Read
  <2>10. CASE meta.n_recv_packets # NPackets
    <3>1. ASSUME NEW m \in Module, m = n_metas
          PROVE  ReadOf(m)'
      BY <1>0, <2>1, <2>2, <2>4, <2>7, <2>10, <3>1 DEF ReadOf
    <3>2. \A m \in Module : m < n_metas' => m < n_metas \/ m = n_metas
      BY <2>2, <2>3, <2>10, Constants
    <3> QED
      BY <2>1, <2>2, <2>8, <2>10, <3>1, <3>2 DEF Read
  <2> QED
    BY <2>9, <2>10
<1>5. CASE ReadFields
  <2> DEFINE seen == asm_metas[n_metas]
             now  == Ram!MetaAt(S!LastResult, n_metas)
  <2>1. /\ asm_pc = "fields" /\ Sync!LastResult = S!LastResult /\ S!LastResult \in Nat
        /\ n_metas \in Module /\ Reading(n_metas)
    BY <1>5, Asked DEF ReadFields, Assembling, Read
  <2>2. PICK meta \in [pulse_id : {seen.pulse_id, now.pulse_id}, frame_index : {seen.frame_index, now.frame_index},
                       daq_rec : {seen.daq_rec, now.daq_rec}, n_recv_packets : {seen.n_recv_packets}] :
           asm_metas' = [asm_metas EXCEPT ![n_metas] = meta]
    BY <1>5, <2>1 DEF ReadFields
  <2>3. /\ n_metas' = n_metas + 1 /\ asm_pc' = "assemble" /\ UNCHANGED <<stored, lapped>>
    BY <1>5 DEF ReadFields, recvVars
  <2>4. asm_metas'[n_metas] = meta /\ \A m \in Module \ {n_metas} : asm_metas'[m] = asm_metas[m]
    BY <2>1, <2>2 DEF Types
  <2>5. /\ seen \in stored[n_metas] /\ seen.n_recv_packets = NPackets
        /\ S!LastResult <= seen.pulse_id /\ seen.pulse_id <= now.pulse_id
        /\ S!LastResult \notin lapped => seen.pulse_id = S!LastResult
    BY <2>1 DEF Reading
  <2>6. seen \in Frames /\ seen.pulse_id \in Nat /\ now.pulse_id \in Nat
    <3>1. now \in Metas
      BY <2>1, SlotContents
    <3> QED
      BY <2>1, <2>5, <3>1, MetaPulses, StoredNumbers
  <2>7. S!LastResult \notin lapped => now = seen
    <3>1. S!LastResult \notin lapped => now \in stored[n_metas] /\ now.pulse_id = S!LastResult
      BY <2>1, FrameRead
    <3> QED
      BY <2>1, <2>5, <3>1 DEF AllStoring, Storing
  <2> HIDE DEF seen, now
  <2>8. meta.pulse_id = S!LastResult => seen.pulse_id = S!LastResult
    BY <2>1, <2>5, <2>6
  <2>9. S!LastResult \notin lapped => meta = seen
    BY <2>6, <2>7 DEF Frames
  <2>10. ASSUME NEW m \in Module, m = n_metas
         PROVE  ReadOf(m)'
    <3>1. meta.pulse_id = S!LastResult => WholeFrame(m, S!LastResult)
      BY <2>5, <2>8, <2>10 DEF WholeFrame
    <3>2. WholeFrame(m, S!LastResult) => WholeFrame(m, S!LastResult)'
      BY <1>0, <2>1 DEF WholeFrame
    <3>3. asm_metas'[m] = meta /\ stored'[m] = stored[m] /\ lapped' = lapped /\ S!LastResult' = S!LastResult
      BY <1>0, <2>1, <2>3, <2>4, <2>10
    <3>4. S!LastResult \notin lapped => meta \in stored[m] /\ meta.pulse_id = S!LastResult
      BY <2>5, <2>9, <2>10
    <3> QED
      BY <3>1, <3>2, <3>3, <3>4 DEF ReadOf
  <2>11. \A m \in Module : m < n_metas' => m = n_metas \/ m < n_metas
    BY <2>1, <2>3, Constants
  <2>12. \A m \in Module : m < n_metas => ReadOf(m)'
    BY <1>1, <2>1, <2>4, Constants DEF Read
  <2> QED
    BY <2>3, <2>10, <2>11, <2>12 DEF Read
<1>6. CASE UnexpectedPulse
  <2>1. asm_pc = "assemble" /\ asm_pc' = "dead" /\ UNCHANGED <<asm_metas, n_metas>>
    BY <1>6 DEF UnexpectedPulse
  <2> QED
    BY <1>1, <2>1 DEF Read
<1>7. CASE SendImageMeta
  BY <1>7 DEF SendImageMeta, Assembled, Read
<1>8. ASSUME NEW m \in Module, StoreMeta(m) \/ StoreData(m) \/ AnnounceFrame(m)
      PROVE  UNCHANGED <<asm_pc, asm_metas, n_metas>>
  BY <1>8 DEF StoreMeta, StoreData, AnnounceFrame, asmVars
<1>9. CASE Stream \/ UNCHANGED vars
  BY <1>2, <1>9 DEF Stream, RecvImageMeta, CopyPixels, SendImage, asmVars, vars
<1> QED
  BY <1>2, <1>3, <1>4, <1>5, <1>6, <1>7, <1>8, <1>9 DEF Next, Assembler

\* The verdict on an image: good means that all modules stored the whole frame; and unless
\* the pulse lost a slot it is good exactly if they did, with one index and one daq_rec.
LEMMA Verdict ==
    ASSUME Types, Synchronises, AllStoring, Assembling, Read,
           asm_pc = "assemble", n_metas = NModules, ~Ram!IsUnexpected(S!LastResult, asm_metas)
    PROVE  LET good == Ram!AssembledImage(asm_metas).is_good_image IN
           /\ good => AllWhole(S!LastResult)
           /\ S!LastResult \notin lapped => (good <=> AllWhole(S!LastResult) /\ Agree(S!LastResult))
<1> DEFINE good  == Ram!AssembledImage(asm_metas).is_good_image
           first == asm_metas[Ram!Min(Ram!Complete(asm_metas))]
<1>1. \A m \in Module : ReadOf(m)
  BY Constants DEF Read
<1>2. Ram!Complete(asm_metas) # {} =>
         /\ Ram!AssembledImage(asm_metas) = Ram!ImageNamedBy(first,
                \A m \in Ram!Module : m \in Ram!Complete(asm_metas) /\ Ram!SameImage(asm_metas[m], first))
         /\ first.pulse_id = S!LastResult
  BY DEF Ram!AssembledImage, Ram!IsUnexpected
<1>3. ASSUME good
      PROVE  /\ \A m \in Module : m \in Ram!Complete(asm_metas) /\ Ram!SameImage(asm_metas[m], first)
             /\ first.pulse_id = S!LastResult
  <2>1. Ram!Complete(asm_metas) # {}
    BY <1>3 DEF Ram!AssembledImage, Ram!NoImage
  <2> QED
    BY <1>2, <1>3, <2>1 DEF Ram!ImageNamedBy, Module
<1>4. ASSUME good
      PROVE  AllWhole(S!LastResult)
  BY <1>1, <1>3, <1>4 DEF Ram!SameImage, Ram!Complete, ReadOf, AllWhole
<1>5. ASSUME S!LastResult \notin lapped
      PROVE  /\ \A m \in Module : asm_metas[m] \in stored[m] /\ asm_metas[m].pulse_id = S!LastResult
             /\ \A m \in Module : \A a \in stored[m] : a.pulse_id = S!LastResult => a = asm_metas[m]
  BY <1>1, <1>5 DEF ReadOf, AllStoring, Storing
<1>6. ASSUME good, S!LastResult \notin lapped
      PROVE  Agree(S!LastResult)
  <2>1. \A m \in Module : asm_metas[m].frame_index = first.frame_index /\ asm_metas[m].daq_rec = first.daq_rec
    BY <1>3, <1>6 DEF Ram!SameImage
  <2> QED
    BY <1>5, <1>6, <2>1 DEF Agree
<1>7. ASSUME AllWhole(S!LastResult), Agree(S!LastResult), S!LastResult \notin lapped
      PROVE  good
  <2>1. \A m \in Module : asm_metas[m].n_recv_packets = NPackets
    BY <1>5, <1>7 DEF AllWhole, WholeFrame
  <2>2. Ram!Complete(asm_metas) = Module /\ 0 \in Module /\ Ram!Module = Module
    BY <2>1, Constants DEF Ram!Complete, Ram!Module, Module
  <2>3. PICK n \in Module : first = asm_metas[n]
    BY <2>2, FirstComplete
  <2> HIDE DEF first
  <2>4. \A m \in Module : Ram!SameImage(asm_metas[m], first)
    BY <1>5, <1>7, <2>3 DEF Ram!SameImage, Agree
  <2> QED
    BY <1>2, <2>2, <2>4 DEF Ram!ImageNamedBy
<1> QED
  BY <1>4, <1>6, <1>7

\* A pulse that was announced has its frame already: nothing stored later is of it.
LEMMA FramesStay ==
    ASSUME Types, Synchronises, AllStoring, AllStoring', [Next]_vars,
           NEW p \in S!Common, NEW m \in Module
    PROVE  \A meta : meta.pulse_id = p => (meta \in stored'[m] <=> meta \in stored[m])
<1>1. stored[m] \subseteq stored'[m]
  BY HistoryStays
<1>2. PICK meta \in stored[m] : meta.pulse_id = p
  BY Constants DEF S!Common, AllStoring, Storing
<1>3. \A other \in stored'[m] : other.pulse_id = p => other = meta
  BY <1>1, <1>2 DEF AllStoring, Storing
<1> QED
  BY <1>1, <1>2, <1>3

\* The verdict on an image, of the frames stored and the pulses lapped.
Whole(frames, p) == \A m \in Module : \E meta \in frames[m] : meta.pulse_id = p /\ meta.n_recv_packets = NPackets
Agreed(frames, p) ==
    \A m, n \in Module : \A a \in frames[m], b \in frames[n] :
        a.pulse_id = p /\ b.pulse_id = p => a.frame_index = b.frame_index /\ a.daq_rec = b.daq_rec
Sound(i, frames, gone) ==
    /\ i.image.is_good_image => Whole(frames, i.asked)
    /\ i.asked \notin gone => (i.image.is_good_image <=> Whole(frames, i.asked) /\ Agreed(frames, i.asked))

LEMMA ImagesStep ==
    ASSUME Types, Synchronises, AllStoring, AllStoring', Assembling, Read, ImagesSound, [Next]_vars
    PROVE  ImagesSound'
<1>0. /\ lapped \subseteq lapped' /\ S!Common \subseteq S!Common'
      /\ asm_pc # "sync" => S!LastResult' = S!LastResult
  BY HistoryStays, CommonStays
<1>1. ASSUME NEW p \in S!Common
      PROVE  (Whole(stored', p) <=> Whole(stored, p)) /\ (Agreed(stored', p) <=> Agreed(stored, p))
  <2>1. \A m \in Module : \A meta : meta.pulse_id = p => (meta \in stored'[m] <=> meta \in stored[m])
    BY FramesStay
  <2> QED
    BY <2>1 DEF Whole, Agreed
<1>2. ASSUME NEW i, i.asked \in S!Common, Sound(i, stored, lapped)
      PROVE  i.asked \in S!Common' /\ Sound(i, stored', lapped')
  BY <1>0, <1>1, <1>2 DEF Sound
<1>3. \A k \in 1 .. Len(images) : images[k].asked \in S!Common /\ Sound(images[k], stored, lapped)
  BY DEF ImagesSound, GoodMeansComplete, Sound, Whole, Agreed, AllWhole, Agree, WholeFrame
<1>4. (\A k \in 1 .. Len(images') : images'[k].asked \in S!Common' /\ Sound(images'[k], stored', lapped'))
        /\ DeadOnlyIfLapped' => ImagesSound'
  BY DEF ImagesSound, GoodMeansComplete, Sound, Whole, Agreed, AllWhole, Agree, WholeFrame
<1>5. asm_pc # "sync" => Sync!LastResult = S!LastResult /\ S!LastResult \in S!Common
  BY Asked
<1>6. Sync!LastResult' = S!LastResult'
  BY DEF Sync!LastResult, S!LastResult
<1>7. CASE UNCHANGED <<images, asm_pc>>
  <2>1. DeadOnlyIfLapped'
    BY <1>0, <1>5, <1>6, <1>7 DEF ImagesSound, DeadOnlyIfLapped
  <2> QED
    BY <1>2, <1>3, <1>4, <1>7, <2>1
<1>8. CASE GetNextPulseId
  <2>1. images' = images /\ asm_pc' # "dead"
    BY <1>8, SyncReads
  <2> QED
    BY <1>2, <1>3, <1>4, <2>1 DEF DeadOnlyIfLapped
<1>9. CASE UnexpectedPulse
  <2>1. /\ asm_pc = "assemble" /\ n_metas = NModules /\ images' = images /\ lapped' = lapped
        /\ Ram!IsUnexpected(Sync!LastResult, asm_metas)
    BY <1>9 DEF UnexpectedPulse, recvVars
  <2>2. PICK m \in Module : asm_metas[m].pulse_id # S!LastResult
    BY <1>5, <2>1, FirstComplete DEF Ram!IsUnexpected, Ram!Complete, Ram!Module, Module
  <2>3. S!LastResult \in lapped
    BY <2>1, <2>2, Constants DEF Read, ReadOf
  <2>4. DeadOnlyIfLapped'
    BY <1>0, <1>6, <2>1, <2>3 DEF DeadOnlyIfLapped
  <2> QED
    BY <1>2, <1>3, <1>4, <2>1, <2>4
<1>10. CASE SendImageMeta
  <2> DEFINE new == [asked |-> S!LastResult, image |-> Ram!AssembledImage(asm_metas)]
  <2>1. /\ asm_pc = "assemble" /\ n_metas = NModules /\ asm_pc' = "sync"
        /\ ~Ram!IsUnexpected(S!LastResult, asm_metas)
        /\ Ram!AssembledImage(asm_metas) \in ImageMetas
        /\ images' = Append(images, new)
    BY <1>10, NewImage
  <2>2. new \in [asked : Pulses, image : ImageMetas]
    BY <2>1, Asked
  <2>3. new.asked \in S!Common /\ Sound(new, stored, lapped)
    BY <1>5, <2>1, Verdict DEF Sound, Whole, Agreed, AllWhole, Agree, WholeFrame
  <2> HIDE DEF new
  <2>4. \A k \in 1 .. Len(images') : (k \in 1 .. Len(images) /\ images'[k] = images[k]) \/ images'[k] = new
    <3>1. images \in Seq([asked : Pulses, image : ImageMetas])
      BY DEF Types
    <3> QED
      BY <2>1, <2>2, <3>1
  <2>5. \A k \in 1 .. Len(images') : images'[k].asked \in S!Common /\ Sound(images'[k], stored, lapped)
    BY <1>3, <2>3, <2>4
  <2>6. DeadOnlyIfLapped'
    BY <2>1 DEF DeadOnlyIfLapped
  <2> QED
    BY <1>2, <1>4, <2>5, <2>6
<1>11. ASSUME NEW m \in Module, StoreMeta(m) \/ StoreData(m) \/ AnnounceFrame(m)
       PROVE  UNCHANGED <<images, asm_pc>>
  BY <1>11 DEF StoreMeta, StoreData, AnnounceFrame, asmVars
<1>12. CASE Stream \/ UNCHANGED vars
  BY <1>7, <1>12 DEF Stream, RecvImageMeta, CopyPixels, SendImage, asmVars, vars
<1>13. CASE ReadCount \/ ReadFields
  <2>1. images' = images /\ asm_pc' # "dead"
    BY <1>13 DEF ReadCount, ReadFields
  <2> QED
    BY <1>2, <1>3, <1>4, <2>1 DEF DeadOnlyIfLapped
<1> QED
  BY <1>7, <1>8, <1>9, <1>10, <1>11, <1>12, <1>13 DEF Next, Assembler

-----------------------------------------------------------------------------
(* What the stream picks up. *)

\* The pixels of an image that is being sent are in the ring, unless it lost a slot.
LEMMA PixelsFound ==
    ASSUME Types, Synchronises, AllStoring, OnTheWay, RingKeeps,
           stream_pc = "copy", image.pulse_id \notin {0} \union lapped, NEW m \in Module
    PROVE  Ram!DataAt(image.pulse_id, m) = image.pulse_id
<1>1. image.pulse_id \in ToSend /\ image.pulse_id \in ToLookUp(m)
  BY DEF ToSend, ToLookUp
<1>2. image.pulse_id \notin Unstored(m)
  BY <1>1, WaitingAnnounced DEF Unstored, Busy
<1> QED
  BY <1>1, <1>2 DEF RingKeeps, Ring

LEMMA CopiedStep ==
    ASSUME Types, Synchronises, AllStoring, OnTheWay, RingKeeps, Copied, PixelsOfThePulse, [Next]_vars
    PROVE  Copied' /\ PixelsOfThePulse'
<1>0. lapped \subseteq lapped'
  BY HistoryStays
<1>1. CASE UNCHANGED streamVars
  BY <1>0, <1>1 DEF streamVars, Copied, PixelsOfThePulse
<1>2. CASE RecvImageMeta
  BY <1>0, <1>2 DEF RecvImageMeta, Copied, PixelsOfThePulse
<1>3. CASE CopyPixels
  <2> DEFINE new == Ram!DataAt(image.pulse_id, Len(pixels))
  <2>1. /\ stream_pc = "copy" /\ Len(pixels) < NModules /\ pixels' = Append(pixels, new)
        /\ UNCHANGED <<stream_pc, image, sent>>
    BY <1>3 DEF CopyPixels
  <2>2. pixels \in Seq(Pixels) /\ Len(pixels) \in Module /\ image.pulse_id \in Nat
    <3>1. pixels \in Seq(Pixels) /\ image.pulse_id \in Pixels
      BY DEF Types, ImageMetas
    <3>2. \A p \in Pixels : p \in Nat
      BY Constants DEF Pixels
    <3> QED
      BY <2>1, <3>1, <3>2, Constants
  <2>3. image.pulse_id \notin {0} \union lapped' => new = image.pulse_id
    BY <1>0, <2>1, <2>2, PixelsFound
  <2>4. new \in Pixels
    BY <2>2, SlotContents
  <2> HIDE DEF new
  <2>5. \A i \in 1 .. Len(pixels') : (i \in 1 .. Len(pixels) /\ pixels'[i] = pixels[i]) \/ pixels'[i] = new
    BY <2>1, <2>2, <2>4
  <2> QED
    BY <1>0, <2>1, <2>3, <2>5 DEF Copied, PixelsOfThePulse
<1>4. CASE SendImage
  <2> DEFINE new == [image |-> image, pixels |-> pixels]
  <2>1. /\ stream_pc = "copy" /\ Len(pixels) = NModules /\ stream_pc' = "recv" /\ sent' = Append(sent, new)
    BY <1>4 DEF SendImage
  <2>2. new \in [image : ImageMetas, pixels : [1 .. NModules -> Pixels]]
    BY <2>1 DEF Types
  <2>3. new.image.pulse_id \notin {0} \union lapped => \A m \in 1 .. NModules : new.pixels[m] = new.image.pulse_id
    BY <2>1 DEF Copied
  <2> HIDE DEF new
  <2>4. \A k \in 1 .. Len(sent') : (k \in 1 .. Len(sent) /\ sent'[k] = sent[k]) \/ sent'[k] = new
    <3>1. sent \in Seq([image : ImageMetas, pixels : [1 .. NModules -> Pixels]])
      BY DEF Types
    <3> QED
      BY <2>1, <2>2, <3>1
  <2> QED
    BY <1>0, <2>1, <2>3, <2>4 DEF Copied, PixelsOfThePulse
<1>5. ASSUME NEW m \in Module, StoreMeta(m) \/ StoreData(m) \/ AnnounceFrame(m)
      PROVE  UNCHANGED streamVars
  BY <1>5 DEF StoreMeta, StoreData, AnnounceFrame
<1>6. CASE Assembler \/ UNCHANGED vars
  BY <1>1, <1>6 DEF Assembler, GetNextPulseId, ReadCount, ReadFields, UnexpectedPulse, SendImageMeta, Assembled, vars
<1> QED
  BY <1>1, <1>2, <1>3, <1>4, <1>5, <1>6 DEF Next, Stream

-----------------------------------------------------------------------------
(* The invariant and what follows. *)

LEMMA LiveInit == Init => LiveInv
<1> SUFFICES ASSUME Init
             PROVE  LiveInv
  OBVIOUS
<1>1. S!Init
  BY SyncInit
<1>2. Synchronises
  BY <1>1, Constants, S!TypeInit, S!QueuesInit, S!LoopInit, S!ResultsInit DEF Synchronises
<1>3. /\ queue = [m \in Module |-> <<>>] /\ accepted = [m \in Module |-> {}] /\ pc = "first" /\ n_read = 0
      /\ meta_buffer = [slot \in Ram!Slot |-> [m \in Module |-> Ram!ZeroMeta]]
      /\ image_buffer = [slot \in Ram!Slot |-> [m \in Module |-> 0]]
      /\ storing = [m \in Module |-> Idle] /\ stored = [m \in Module |-> {}] /\ lapped = {}
      /\ asm_pc = "sync" /\ asm_metas = NoMeta /\ n_metas = 0 /\ images = <<>> /\ image_queue = <<>>
      /\ stream_pc = "recv" /\ image = Ram!NoImage /\ pixels = <<>> /\ sent = <<>>
  BY <1>1, Constants DEF Init, S!Init, Ram!RamInit, Module
<1>4. Types
  BY <1>3, Constants, MetasRead DEF Types, Metas, Pixels, Idle, NoMeta, Ram!NoImage, ImageMetas
<1>5. AllStoring /\ Assembling /\ OnTheWay /\ Buffered
  BY <1>3 DEF AllStoring, Storing, Busy, Idle, Assembling, OnTheWay, Buffered
<1>6. RingKeeps
  <2>1. ToSend = {} /\ \A m \in Module : ToAssemble(m) = {} /\ Unstored(m) = {}
    BY <1>3, Constants DEF ToSend, ToAssemble, Unstored, Busy, Idle, Range
  <2> QED
    BY <2>1 DEF RingKeeps, Ring, ToLookUp
<1>7. Read /\ ImagesSound /\ Copied /\ PixelsOfThePulse
  BY <1>3 DEF Read, ImagesSound, GoodMeansComplete, DeadOnlyIfLapped, Copied, PixelsOfThePulse
<1> QED
  BY <1>2, <1>4, <1>5, <1>6, <1>7 DEF LiveInv

LEMMA LiveStep == LiveInv /\ [Next]_vars => LiveInv'
<1> SUFFICES ASSUME LiveInv, [Next]_vars
             PROVE  LiveInv'
  OBVIOUS
<1>1. /\ Types /\ Synchronises /\ AllStoring /\ Assembling /\ OnTheWay /\ Buffered /\ RingKeeps
      /\ Read /\ ImagesSound /\ Copied /\ PixelsOfThePulse
  BY DEF LiveInv
<1>2. Types' /\ Synchronises' /\ AllStoring'
  BY <1>1, TypesStep, SynchronisesStep, StoringStep
<1>3. Assembling' /\ OnTheWay' /\ Buffered' /\ RingKeeps'
  BY <1>1, AssemblingStep, OnTheWayStep, BufferedStep, RingStep
<1>4. Read' /\ ImagesSound'
  BY <1>1, <1>2, ReadStep, ImagesStep
<1>5. Copied' /\ PixelsOfThePulse'
  BY <1>1, CopiedStep
<1> QED
  BY <1>2, <1>3, <1>4, <1>5 DEF LiveInv

\* The slots of the ring have what is to be looked up in them, whatever the lengths of
\* the ring and of the queues: a slot fails a pulse only by being reused first.
THEOREM LiveInvKept == Spec => []LiveInv
  BY LiveInit, LiveStep, PTL DEF Spec

\* The receivers and the assembler of the live path behave to each other as the module of
\* the synchronisation says: what is proved of it holds on the live path.
THEOREM LiveSynchronises == Spec => SyncSpec
<1>1. Init => Sync!Init
  BY DEF Init
<1>2. [S!Next]_S!vars => [Sync!Next]_Sync!vars
  BY SameSync DEF S!Next, Sync!Next, S!Announce, Sync!Announce, S!Module, Sync!Module, S!vars, Sync!vars,
                  S!sendVars, Sync!sendVars, S!recvVars, Sync!recvVars
<1>3. LiveInv /\ [Next]_vars => [Sync!Next]_Sync!vars
  BY <1>2, SyncStep DEF LiveInv
<1> QED
  BY <1>1, <1>3, LiveInvKept, PTL DEF Spec, SyncSpec, Sync!Spec

\* The variables keep their types.
THEOREM LiveTypes == Spec => []TypeOK
<1>1. LiveInv => TypeOK
  <2> SUFFICES ASSUME LiveInv
               PROVE  TypeOK
    OBVIOUS
  <2>1. Sync!TypeOK
    BY DEF LiveInv, Synchronises, S!Types, S!TypeOK, Sync!TypeOK, S!Module, Sync!Module
  <2> QED
    BY <2>1 DEF LiveInv, Types, TypeOK
<1> QED
  BY <1>1, LiveInvKept, PTL

\* An image is sent with the pixels of its own pulse, unless a slot was reused before:
\* sf_stream looks the pixels up by pulse id alone, long after the image was assembled.
THEOREM PixelsAreOfThePulse == Spec => []PixelsOfThePulse
  BY LiveInvKept, PTL DEF LiveInv

\* assemble_image calls an image good only if all modules have stored their whole frame
\* of it; and unless its slot was reused, exactly if they have and the frames agree in
\* frame_index and daq_rec.
THEOREM GoodIsComplete == Spec => []GoodMeansComplete
  BY LiveInvKept, PTL DEF LiveInv, ImagesSound

\* The exception of assemble_image ends jf_assembler for no other reason than that.
THEOREM DiesOfLapping == Spec => []DeadOnlyIfLapped
  BY LiveInvKept, PTL DEF LiveInv, ImagesSound
=============================================================================
