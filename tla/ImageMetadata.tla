---------------------------- MODULE ImageMetadata ----------------------------
(***************************************************************************)
(* The image that the frames of all modules for a pulse make, judged by    *)
(* the metadata of the frames (metas: module -> ModuleFrame), as           *)
(* RamBuffer::assemble_image makes it.  AssembleImage has the loop.        *)
(***************************************************************************)
EXTENDS Naturals, FiniteSets, FiniteSetsExt

CONSTANTS
    NModules,   \* modules of the detector
    NPackets    \* JF_N_PACKETS_PER_FRAME

ASSUME ImageAssumption == NModules \in Nat \ {0} /\ NPackets \in Nat \ {0}

Module == 0 .. NModules - 1

Complete(metas) == {m \in Module : metas[m].n_recv_packets = NPackets}

\* The first complete frame names the image; it must be of the pulse asked for.
IsUnexpected(pulse_id, metas) ==
    Complete(metas) # {} /\ metas[Min(Complete(metas))].pulse_id # pulse_id

\* Fault: daq_rec is not compared, as sf_writer does not.
SameIndex(a, b) == a.pulse_id = b.pulse_id /\ a.frame_index = b.frame_index

SameImage(a, b) ==
    a.pulse_id = b.pulse_id /\ a.frame_index = b.frame_index /\ a.daq_rec = b.daq_rec

NoImage == [pulse_id |-> 0, frame_index |-> 0, daq_rec |-> 0, is_good_image |-> FALSE]

ImageNamedBy(first, is_good) ==
    [pulse_id |-> first.pulse_id, frame_index |-> first.frame_index,
     daq_rec |-> first.daq_rec, is_good_image |-> is_good]

\* The image is good if every frame is complete and all agree; an image without a
\* complete frame has no pulse id.
AssembledImage(metas) ==
    IF Complete(metas) = {} THEN NoImage
    ELSE LET first == metas[Min(Complete(metas))] IN
         ImageNamedBy(first, \A m \in Module : m \in Complete(metas) /\ SameImage(metas[m], first))
=============================================================================
