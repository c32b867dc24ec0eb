---------------------------- MODULE MCBufferFiles ----------------------------
(* Four pulses in three files of two frames: the first and the last file are *)
(* half outside of the range.                                                *)
EXTENDS BufferFiles

FourPulses == 1 .. 4
AnyErrors  == {"short", "failed"}
=============================================================================
