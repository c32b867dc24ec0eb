---------------------------- MODULE FrameReceiver ----------------------------
(***************************************************************************)
(* What jf_udp_recv and jfj_udp_recv have in common: the frame they make   *)
(* of the packets from the socket, the frame that came before, and what is *)
(* recorded of the packets read and of the frames returned.  How packets   *)
(* become frames is FrameUdpReceiver and JfjFrameUdpReceiver.              *)
(***************************************************************************)
EXTENDS UdpNetwork

CONSTANTS
    BatchSize,       \* BUFFER_UDP_N_RECV_MSG
    MaxPulseStep,    \* 1000 in main.cpp
    PulseModulus     \* 2^64: pulse ids are unsigned

ASSUME ReceiverAssumption ==
    /\ BatchSize \in Nat \ {0}
    /\ MaxPulseStep \in Nat /\ PulseModulus \in Nat
    /\ \A f \in FrameNum : PulseOf[f] < PulseModulus

VARIABLES
    metadata,        \* ModuleFrame of the frame being received
    frame_buffer,    \* packetnum -> the frame its pixels are of, 0 if blank
    pc,              \* inside get_frame_from_udp, or in the main loop
    previous,        \* pulse_id_previous, frame_index_previous
    received,        \* history: every packet read from the socket
    frames           \* history: every frame returned, with the verdict on it

NoFrame  == [pulse_id |-> 0, frame_index |-> 0, n_recv_packets |-> 0]
NoPixels == [p \in PacketNum |-> 0]

FrameInit ==
    /\ metadata = NoFrame
    /\ frame_buffer = NoPixels
    /\ pc = "collect"
    /\ previous = [pulse_id |-> 0, frame_index |-> 0]
    /\ received = <<>>
    /\ frames = <<>>

\* In unsigned arithmetic nothing is below 0.
PulseStep == (metadata.pulse_id + PulseModulus - previous.pulse_id) % PulseModulus

\* jf-udp-recv/README.md: "We expect all packets to come in order or not come at all."
InOrder ==
    \A i, j \in 1 .. Len(received) : i < j =>
        \/ received[i].framenum < received[j].framenum
        \/ /\ received[i].framenum = received[j].framenum
           /\ received[i].packetnum < received[j].packetnum
=============================================================================
