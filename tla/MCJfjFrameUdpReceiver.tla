----------------------- MODULE MCJfjFrameUdpReceiver -----------------------
(* The JungfrauJoch receiver on short packet streams.                       *)
EXTENDS JfjFrameUdpReceiver, TLC

PulseOf123 == 1 :> 2 @@ 2 :> 5 @@ 3 :> 9

PulseOf12  == 1 :> 2 @@ 2 :> 6

NoFaults == {}
LossOnly == {"lost"}
=============================================================================
