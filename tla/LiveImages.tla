----------------------------- MODULE LiveImages -----------------------------
(***************************************************************************)
(* The live path: the module receivers (jf_udp_recv) store frames in the   *)
(* RAM buffer and announce them, jf_assembler synchronises the announced   *)
(* pulses and judges the image, sf_stream picks the pixels up and sends    *)
(* them.  Pixels never travel in a message: from the announcement to the   *)
(* send everything hangs on a slot of the ring not being reused.           *)
(***************************************************************************)
EXTENDS Naturals, FiniteSets, Sequences, FiniteSetsExt, Functions

CONSTANTS
    NModules, Pulses, HWM, PULSE_OFFSET_LIMIT, SYNC_RETRY_LIMIT,  \* see ZmqPulseSyncReceiver
    NSlots, NPackets,                                             \* see RamBuffer
    ModuleFrames    \* module -> the frames its packets may make: whole or not, any index and daq_rec

VARIABLES
    announced, queue, accepted, pc, pulses, n_read, i_sync, max_pulse_id, lost,
    n_lost_pulses, synced,        \* ZmqPulseSyncReceiver
    meta_buffer, image_buffer,    \* RamBuffer
    storing,        \* what each receiver is storing, and how far it is
    stored,         \* history: every frame a receiver has begun to store
    lapped,         \* history: pulses that lost a slot while they were to be looked up
    asm_pc,         \* the loop of jf_assembler
    asm_metas,      \* the metadata assemble_image has read, field by field
    n_metas,        \* modules it is done with
    image_queue,    \* image metadata on their way to sf_stream
    images,         \* history: the images assembled
    stream_pc,      \* the loop of sf_stream
    image,          \* the image it sends
    pixels,         \* the pixels it has picked up, module by module
    sent            \* history: the images sent

Sync == INSTANCE ZmqPulseSyncReceiver
Ram  == INSTANCE RamBuffer

\* Those of the two modules.
ASSUME LiveAssumption ==
    /\ NModules \in Nat \ {0} /\ NSlots \in Nat \ {0} /\ NPackets \in Nat \ {0}
    /\ Pulses \subseteq Nat \ {0} /\ IsFiniteSet(Pulses)
    /\ HWM \in Nat \ {0}
    /\ PULSE_OFFSET_LIMIT \in Nat
    /\ SYNC_RETRY_LIMIT \in Nat \ {0}
    /\ ModuleFrames \in [0 .. NModules - 1 -> SUBSET
          [pulse_id : Pulses, frame_index : Nat, daq_rec : Nat, n_recv_packets : 1 .. NPackets]]

syncRecv   == <<pc, pulses, n_read, i_sync, max_pulse_id, lost, n_lost_pulses, synced>>
syncVars   == <<announced, queue, accepted, syncRecv>>
ramVars    == <<meta_buffer, image_buffer>>
recvVars   == <<storing, stored, lapped>>
asmVars    == <<asm_pc, asm_metas, n_metas, images>>
streamVars == <<stream_pc, image, pixels, sent>>
vars == <<syncVars, ramVars, recvVars, asmVars, image_queue, streamVars>>

Module == Ram!Module
Idle   == [step |-> "idle", meta |-> Ram!ZeroMeta]
NoMeta == [m \in Module |-> Ram!ZeroMeta]

Init ==
    /\ Sync!Init
    /\ Ram!RamInit
    /\ storing = [m \in Module |-> Idle]
    /\ stored  = [m \in Module |-> {}]
    /\ lapped = {}
    /\ asm_pc = "sync"
    /\ asm_metas = NoMeta
    /\ n_metas = 0
    /\ images = <<>>
    /\ image_queue = <<>>
    /\ stream_pc = "recv"
    /\ image = Ram!NoImage
    /\ pixels = <<>>
    /\ sent = <<>>

-----------------------------------------------------------------------------
(* When a slot is reused.                                                   *)

\* The pulses the assembler or the stream still have to look up.
Pending ==
    (UNION {Range(queue[m]) : m \in Module})
    \union (IF asm_pc = "sync" /\ pc = "first"
            THEN {pulses[m] : m \in 0 .. n_read - 1} ELSE Range(pulses))
    \union {image_queue[k].pulse_id : k \in 1 .. Len(image_queue)}
    \union (IF stream_pc = "copy" THEN {image.pulse_id} ELSE {})
    \union {storing[m].meta.pulse_id : m \in {n \in Module : storing[n].step # "idle"}}

\* The ring is ten seconds long and has no flow control: the code takes it for
\* granted that nobody is further behind.  These pulses are, when p is stored.
LappedBy(p) == {q \in Pending \ {0} : q < p /\ Ram!SlotOf(q) = Ram!SlotOf(p)}

-----------------------------------------------------------------------------
(* jf_udp_recv: write_frame and zmq_send in the main loop.                   *)

\* Fault: frames that arrive late are stored as well.
StoreAnyMeta(m) ==
    /\ storing[m].step = "idle"
    /\ \E meta \in ModuleFrames[m] :
          /\ Ram!WriteMeta(m, meta)
          /\ storing' = [storing EXCEPT ![m] = [step |-> "data", meta |-> meta]]
          /\ stored' = [stored EXCEPT ![m] = @ \union {meta}]
          /\ lapped' = lapped \union LappedBy(meta.pulse_id)
    /\ UNCHANGED <<syncVars, asmVars, image_queue, streamVars>>

\* A frame of a later pulse, whole or not; pulses this module missed are skipped.
StoreMeta(m) ==
    /\ storing[m].step = "idle"
    /\ \E meta \in ModuleFrames[m] :
          /\ meta.pulse_id > announced[m]
          /\ Ram!WriteMeta(m, meta)
          /\ storing' = [storing EXCEPT ![m] = [step |-> "data", meta |-> meta]]
          /\ stored' = [stored EXCEPT ![m] = @ \union {meta}]
          /\ lapped' = lapped \union LappedBy(meta.pulse_id)
    /\ UNCHANGED <<syncVars, asmVars, image_queue, streamVars>>

StoreData(m) ==
    /\ storing[m].step = "data"
    /\ Ram!WriteData(m, storing[m].meta.pulse_id)
    /\ storing' = [storing EXCEPT ![m].step = "announce"]
    /\ UNCHANGED <<syncVars, stored, lapped, asmVars, image_queue, streamVars>>

AnnounceFrame(m) ==
    /\ storing[m].step = "announce"
    /\ Sync!AnnouncePulse(m, storing[m].meta.pulse_id)
    /\ storing' = [storing EXCEPT ![m] = Idle]
    /\ UNCHANGED <<ramVars, stored, lapped, asmVars, image_queue, streamVars>>

-----------------------------------------------------------------------------
(* jf_assembler: the main loop.                                              *)

\* get_next_pulse_id(), until it returns.
GetNextPulseId ==
    /\ asm_pc = "sync"
    /\ Sync!Receiver
    /\ asm_pc' = IF synced' # synced THEN "assemble" ELSE "sync"
    /\ UNCHANGED <<ramVars, recvVars, asm_metas, n_metas, images, image_queue, streamVars>>

\* Fault: the loop over the modules goes one too far.
ReadFieldsPastEnd ==
    /\ asm_pc = "fields"
    /\ n_metas' = n_metas + 1
    /\ asm_pc' = IF n_metas' <= NModules THEN "fields" ELSE "assemble"
    /\ UNCHANGED <<syncVars, ramVars, recvVars, asm_metas, images, image_queue, streamVars>>

\* assemble_image() goes through the modules: a frame that is not whole is passed over, ...
ReadCount ==
    LET meta == Ram!MetaAt(Sync!LastResult, n_metas) IN
    /\ asm_pc = "assemble" /\ n_metas < NModules
    /\ asm_metas' = [asm_metas EXCEPT ![n_metas] = meta]
    /\ \/ meta.n_recv_packets = NPackets /\ asm_pc' = "fields" /\ UNCHANGED n_metas
       \/ meta.n_recv_packets # NPackets /\ n_metas' = n_metas + 1 /\ UNCHANGED asm_pc
    /\ UNCHANGED <<syncVars, ramVars, recvVars, images, image_queue, streamVars>>

\* ... of the others the other fields are read where they are: if the slot is reused
\* meanwhile, each is of the one frame or of the other.  (The loads of pulse_id, three
\* in the source, are one.)
ReadFields ==
    LET seen == asm_metas[n_metas]
        now  == Ram!MetaAt(Sync!LastResult, n_metas) IN
    /\ asm_pc = "fields"
    /\ \E meta \in [pulse_id       : {seen.pulse_id, now.pulse_id},
                    frame_index    : {seen.frame_index, now.frame_index},
                    daq_rec        : {seen.daq_rec, now.daq_rec},
                    n_recv_packets : {seen.n_recv_packets}] :
          asm_metas' = [asm_metas EXCEPT ![n_metas] = meta]
    /\ n_metas' = n_metas + 1
    /\ asm_pc' = "assemble"
    /\ UNCHANGED <<syncVars, ramVars, recvVars, images, image_queue, streamVars>>

\* ... and throws if a frame it builds on is of another pulse: main does not catch it.
UnexpectedPulse ==
    /\ asm_pc = "assemble" /\ n_metas = NModules
    /\ Ram!IsUnexpected(Sync!LastResult, asm_metas)
    /\ asm_pc' = "dead"
    /\ UNCHANGED <<syncVars, ramVars, recvVars, asm_metas, n_metas, images, image_queue, streamVars>>

Assembled ==
    /\ asm_pc = "assemble" /\ n_metas = NModules
    /\ ~Ram!IsUnexpected(Sync!LastResult, asm_metas)
    /\ images' = Append(images, [asked |-> Sync!LastResult, image |-> Ram!AssembledImage(asm_metas)])
    /\ asm_pc' = "sync"
    /\ asm_metas' = NoMeta
    /\ n_metas' = 0
    /\ UNCHANGED <<syncVars, ramVars, recvVars, streamVars>>

\* Fault: only good images are published.
SendGoodOnly ==
    LET new == Ram!AssembledImage(asm_metas) IN
    /\ Assembled
    /\ image_queue' = IF new.is_good_image /\ Len(image_queue) < HWM
                      THEN Append(image_queue, new) ELSE image_queue

\* The metadata of the image are published; a full queue drops them.
SendImageMeta ==
    LET new == Ram!AssembledImage(asm_metas) IN
    /\ Assembled
    /\ image_queue' = IF Len(image_queue) < HWM THEN Append(image_queue, new) ELSE image_queue

Assembler == GetNextPulseId \/ ReadCount \/ ReadFields \/ UnexpectedPulse \/ SendImageMeta

-----------------------------------------------------------------------------
(* sf_stream: the main loop.                                                 *)

RecvImageMeta ==
    /\ stream_pc = "recv" /\ image_queue # <<>>
    /\ image' = Head(image_queue)
    /\ image_queue' = Tail(image_queue)
    /\ pixels' = <<>>
    /\ stream_pc' = "copy"
    /\ UNCHANGED <<syncVars, ramVars, recvVars, asmVars, sent>>

\* Fault: the pixels are those of the pulse assembled last.
CopyLatest ==
    /\ stream_pc = "copy" /\ Len(pixels) < NModules
    /\ pixels' = Append(pixels, Ram!DataAt(Sync!LastResult, Len(pixels)))
    /\ UNCHANGED <<syncVars, ramVars, recvVars, asmVars, image_queue, stream_pc, image, sent>>

\* read_image() only computes an address; the pixels are read when they are sent.
CopyPixels ==
    /\ stream_pc = "copy" /\ Len(pixels) < NModules
    /\ pixels' = Append(pixels, Ram!DataAt(image.pulse_id, Len(pixels)))
    /\ UNCHANGED <<syncVars, ramVars, recvVars, asmVars, image_queue, stream_pc, image, sent>>

SendImage ==
    /\ stream_pc = "copy" /\ Len(pixels) = NModules
    /\ sent' = Append(sent, [image |-> image, pixels |-> pixels])
    /\ stream_pc' = "recv"
    /\ UNCHANGED <<syncVars, ramVars, recvVars, asmVars, image_queue, image, pixels>>

Stream == RecvImageMeta \/ CopyPixels \/ SendImage

-----------------------------------------------------------------------------

Next ==
    \/ \E m \in Module : StoreMeta(m) \/ StoreData(m) \/ AnnounceFrame(m)
    \/ Assembler
    \/ Stream

Spec == Init /\ [][Next]_vars

\* The three programs are loops over blocking calls; the detector may stop at any
\* time, but a receiver completes what it has begun.
FairSpec ==
    /\ Spec
    /\ WF_vars(Assembler) /\ WF_vars(Stream)
    /\ \A m \in Module : WF_vars(StoreData(m) \/ AnnounceFrame(m))

-----------------------------------------------------------------------------
(* Properties. *)

TypeOK ==
    /\ Sync!TypeOK
    /\ \A m \in Module : storing[m].step \in {"idle", "data", "announce"}
    /\ lapped \subseteq Pulses
    /\ asm_pc \in {"sync", "assemble", "fields", "dead"}
    /\ n_metas \in 0 .. NModules
    /\ Len(image_queue) <= HWM
    /\ stream_pc \in {"recv", "copy"}
    /\ Len(pixels) <= NModules

\* An image is sent with the pixels of its own pulse from every module, unless a slot
\* was reused before: pixels are fetched long after the metadata, by pulse id alone.
PixelsOfThePulse ==
    \A k \in 1 .. Len(sent) :
        sent[k].image.pulse_id \notin {0} \union lapped =>
            \A m \in 1 .. NModules : sent[k].pixels[m] = sent[k].image.pulse_id

WholeFrame(m, p) == \E meta \in stored[m] : meta.pulse_id = p /\ meta.n_recv_packets = NPackets

AllWhole(p) == \A m \in Module : WholeFrame(m, p)

\* The modules' frames of a pulse have one frame_index and one daq_rec.
Agree(p) ==
    \A m, n \in Module : \A a \in stored[m], b \in stored[n] :
        a.pulse_id = p /\ b.pulse_id = p => a.frame_index = b.frame_index /\ a.daq_rec = b.daq_rec

\* An image is called good only if every module has stored a complete frame of its
\* pulse, however late the assembler is; and, unless a slot was reused before, exactly
\* if they have and their frames agree in frame_index and daq_rec, of which
\* sf-stream/README.md:129 says nothing: "true if all packets for this frame are present".
GoodMeansComplete ==
    \A k \in 1 .. Len(images) :
        LET p    == images[k].asked
            good == images[k].image.is_good_image
        IN (good => AllWhole(p)) /\ (p \notin lapped => (good <=> AllWhole(p) /\ Agree(p)))

\* The assembler asks for synchronised pulses only, and so dies of nothing but a slot
\* that was reused before it looked.
DeadOnlyIfLapped == asm_pc = "dead" => Sync!LastResult \in lapped

\* The receivers store, announce and are read as the module of the synchronisation says:
\* what it promises of announced pulses and of results holds of stored frames and images.
SyncSpec == Sync!Spec

\* A pulse the modules were synchronised on is sent if some module has a complete
\* frame of it, unless a slot was reused before that or had the assembler die; the
\* queue to the stream is long enough to drop nothing.
PulseSent ==
    \A p \in Pulses :
        (Sync!Result(p) /\ \E m \in Module : WholeFrame(m, p))
            ~> (p \in lapped \/ asm_pc = "dead" \/ \E k \in 1 .. Len(sent) : sent[k].image.pulse_id = p)
=============================================================================
