------------------------------ MODULE RamBuffer ------------------------------
(***************************************************************************)
(* The shared-memory ring between the receivers of a detector and the      *)
(* processes that read its frames.  The slot of a frame is its pulse id    *)
(* modulo the number of slots; nothing is locked and nobody waits.  A      *)
(* frame is written in two copies, first its metadata and then its pixels, *)
(* and read in two: each copy is a step of the process that makes it.      *)
(***************************************************************************)
EXTENDS ImageMetadata

CONSTANT NSlots    \* RAM_BUFFER_N_SLOTS

ASSUME RamBufferAssumption == NSlots \in Nat \ {0}

VARIABLES
    meta_buffer,    \* slot -> module -> ModuleFrame
    image_buffer    \* slot -> module -> the pulse its pixels are of

ramVars == <<meta_buffer, image_buffer>>

Slot   == 0 .. NSlots - 1
SlotOf(pulse_id) == pulse_id % NSlots

\* shm_open and ftruncate give zeroes.
ZeroMeta == [pulse_id |-> 0, frame_index |-> 0, daq_rec |-> 0, n_recv_packets |-> 0]
RamInit ==
    /\ meta_buffer  = [s \in Slot |-> [m \in Module |-> ZeroMeta]]
    /\ image_buffer = [s \in Slot |-> [m \in Module |-> 0]]

\* write_frame()
WriteMeta(m, meta) ==
    /\ meta_buffer' = [meta_buffer EXCEPT ![SlotOf(meta.pulse_id)][m] = meta]
    /\ UNCHANGED image_buffer
WriteData(m, pulse_id) ==
    /\ image_buffer' = [image_buffer EXCEPT ![SlotOf(pulse_id)][m] = pulse_id]
    /\ UNCHANGED meta_buffer

\* read_frame(), assemble_image() and read_image() look here.
MetaAt(pulse_id, m) == meta_buffer[SlotOf(pulse_id)][m]
DataAt(pulse_id, m) == image_buffer[SlotOf(pulse_id)][m]
=============================================================================
