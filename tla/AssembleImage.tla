---------------------------- MODULE AssembleImage ----------------------------
(***************************************************************************)
(* RamBuffer::assemble_image as the loop it is: one pass over the modules, *)
(* which names the image after the first complete frame and drops it from  *)
(* the good ones at the first frame that is missing or different.  The     *)
(* other modules use what it computes, AssembledImage and IsUnexpected.    *)
(***************************************************************************)
EXTENDS RamBuffer

CONSTANTS
    FrameMetas,   \* the metadata that may be in a slot
    PulseId,      \* the pulse ids that may be asked for
    LeftOver      \* what image_meta may hold from the call before

ASSUME LoopAssumption ==
    /\ FrameMetas \subseteq [pulse_id : Nat, frame_index : Nat, daq_rec : Nat, n_recv_packets : Nat]
    /\ PulseId \subseteq Nat
    /\ LeftOver \subseteq [pulse_id : Nat, frame_index : Nat, daq_rec : Nat, is_good_image : BOOLEAN]

VARIABLES
    pulse_id,         \* the argument
    i_module,
    is_pulse_init,    \* the image has a name
    is_good_image,
    image_meta,       \* the result, filled as the loop goes on
    loop_pc           \* in the loop, or how it ended

loopVars     == <<pulse_id, i_module, is_pulse_init, is_good_image, image_meta, loop_pc>>
assembleVars == <<ramVars, loopVars>>

LoopInit ==
    /\ meta_buffer \in [Slot -> [Module -> FrameMetas]]
    /\ image_buffer = [s \in Slot |-> [m \in Module |-> 0]]
    /\ pulse_id \in PulseId
    /\ i_module = 0
    /\ is_pulse_init = FALSE
    /\ is_good_image = TRUE
    /\ image_meta \in LeftOver
    /\ loop_pc = "loop"

frame_meta == MetaAt(pulse_id, i_module)
IsGoodFrame == frame_meta.n_recv_packets = NPackets
InLoop == loop_pc = "loop" /\ i_module < NModules

SkipFrame ==
    /\ InLoop /\ ~IsGoodFrame
    /\ is_good_image' = FALSE
    /\ i_module' = i_module + 1
    /\ UNCHANGED <<ramVars, pulse_id, is_pulse_init, image_meta, loop_pc>>

\* The frame that would name the image is of another pulse.
Throw ==
    /\ InLoop /\ IsGoodFrame
    /\ ~is_pulse_init /\ frame_meta.pulse_id # pulse_id
    /\ loop_pc' = "threw"
    /\ UNCHANGED <<ramVars, pulse_id, i_module, is_pulse_init, is_good_image, image_meta>>

\* image_meta with the name of the frame.
Named == ImageNamedBy(frame_meta, image_meta.is_good_image)

\* Fault: the image is named anew by every complete frame.
RenameByFrame ==
    /\ InLoop /\ IsGoodFrame
    /\ is_pulse_init \/ frame_meta.pulse_id = pulse_id
    /\ image_meta' = Named
    /\ is_pulse_init' = TRUE
    /\ is_good_image' = (is_good_image /\ SameImage(frame_meta, image_meta'))
    /\ i_module' = i_module + 1
    /\ UNCHANGED <<ramVars, pulse_id, loop_pc>>

UseFrame ==
    /\ InLoop /\ IsGoodFrame
    /\ is_pulse_init \/ frame_meta.pulse_id = pulse_id
    /\ image_meta' = IF is_pulse_init THEN image_meta ELSE Named
    /\ is_pulse_init' = TRUE
    /\ is_good_image' = (is_good_image /\ SameImage(frame_meta, image_meta'))
    /\ i_module' = i_module + 1
    /\ UNCHANGED <<ramVars, pulse_id, loop_pc>>

Finish ==
    /\ loop_pc = "loop" /\ i_module = NModules
    /\ image_meta' = IF is_pulse_init
                     THEN ImageNamedBy(image_meta, is_good_image)
                     ELSE ImageNamedBy(NoImage, is_good_image)
    /\ loop_pc' = "done"
    /\ UNCHANGED <<ramVars, pulse_id, i_module, is_pulse_init, is_good_image>>

LoopNext == SkipFrame \/ Throw \/ UseFrame \/ Finish

LoopSpec == LoopInit /\ [][LoopNext]_assembleVars

-----------------------------------------------------------------------------
(* Properties. *)

Metas == meta_buffer[SlotOf(pulse_id)]

\* The loop, with its two flags and its early continue, computes what the image is
\* defined to be: the result does not depend on what image_meta held before, on the
\* order in which modules are incomplete or different, or on frames after the last
\* complete one; and it throws exactly on an unexpected pulse.
ComputesImage ==
    /\ loop_pc = "done"  => image_meta = AssembledImage(Metas) /\ ~IsUnexpected(pulse_id, Metas)
    /\ loop_pc = "threw" => IsUnexpected(pulse_id, Metas)

-----------------------------------------------------------------------------
(* Why: before every turn, what the loop knows of the modules it has seen.    *)

Seen == {m \in Complete(Metas) : m < i_module}

TypeOK ==
    /\ meta_buffer \in [Slot -> [Module -> FrameMetas]]
    /\ pulse_id \in PulseId
    /\ i_module \in 0 .. NModules
    /\ is_pulse_init \in BOOLEAN /\ is_good_image \in BOOLEAN
    /\ image_meta \in [pulse_id : Nat, frame_index : Nat, daq_rec : Nat, is_good_image : BOOLEAN]
    /\ loop_pc \in {"loop", "done", "threw"}

\* The image has the name of the first complete frame seen, if there was one.
NamedByFirst ==
    /\ is_pulse_init <=> Seen # {}
    /\ is_pulse_init =>
          \E first \in Seen :
              /\ \A m \in Seen : first <= m
              /\ Metas[first].pulse_id = pulse_id
              /\ SameImage(Metas[first], image_meta)

GoodSoFar ==
    is_good_image <=> \A m \in Module : m < i_module =>
                          m \in Complete(Metas) /\ SameImage(Metas[m], image_meta)

LoopInv ==
    /\ TypeOK
    /\ loop_pc = "loop" => NamedByFirst /\ GoodSoFar
    /\ ComputesImage
=============================================================================
