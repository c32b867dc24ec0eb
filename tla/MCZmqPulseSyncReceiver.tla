----------------------- MODULE MCZmqPulseSyncReceiver -----------------------
(* The synchronisation of the modules on short announcement streams.        *)
EXTENDS ZmqPulseSyncReceiver

FourPulses == 1 .. 4
=============================================================================
