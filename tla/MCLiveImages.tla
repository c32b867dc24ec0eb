---------------------------- MODULE MCLiveImages ----------------------------
(* The live path with two modules and a ring of two slots.                  *)
EXTENDS LiveImages

ThreePulses == 1 .. 3

Frame(p, index, rec, n) == [pulse_id |-> p, frame_index |-> index, daq_rec |-> rec, n_recv_packets |-> n]

\* Module 0 has whole frames and parts.  Module 1 may also have another index for pulse
\* 1, whose slot pulse 3 reuses, and another daq_rec for pulse 2, whose slot nobody reuses.
TwoModules ==
    [m \in 0 .. 1 |->
        IF m = 0 THEN {Frame(1, 1, 0, 1), Frame(1, 1, 0, 2), Frame(2, 2, 0, 2),
                       Frame(3, 3, 0, 1), Frame(3, 3, 0, 2)}
        ELSE {Frame(1, 1, 0, 1), Frame(1, 1, 0, 2), Frame(1, 2, 0, 2),
              Frame(2, 2, 0, 2), Frame(2, 2, 1, 2), Frame(3, 3, 0, 2)}]
=============================================================================
