--------------------------- MODULE MCAssembleImage ---------------------------
(* assemble_image for every slot that three modules can make up between them. *)
EXTENDS AssembleImage

Frames == [pulse_id : {1, 2}, frame_index : {1, 2}, daq_rec : {0, 1}, n_recv_packets : {1, 2}]
PulseOne == {1}
Stale == {NoImage, [pulse_id |-> 2, frame_index |-> 2, daq_rec |-> 1, is_good_image |-> TRUE]}
=============================================================================
