------------------------- MODULE MCFrameUdpReceiver -------------------------
(* The module receiver on a short packet stream.                            *)
EXTENDS FrameUdpReceiver, TLC

\* The longest step between pulses that is allowed, then one more.
PulseOf123 == 1 :> 2 @@ 2 :> 5 @@ 3 :> 9

AnyFaults == {"lost", "delayed", "doubled"}
=============================================================================
