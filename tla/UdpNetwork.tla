----------------------------- MODULE UdpNetwork -----------------------------
(***************************************************************************)
(* The detector and the network in front of a UDP receiver: not part of    *)
(* this code, but what its receivers are written against.  The detector    *)
(* sends the packets of one frame after the other, in order; on the way a  *)
(* packet may be lost, overtaken by later ones, or doubled.  What arrives  *)
(* waits in the receive buffer of the socket.                              *)
(***************************************************************************)
EXTENDS Naturals, FiniteSets, Sequences, FiniteSetsExt

CONSTANTS
    FirstFrame,   \* framenum of the first and of the last frame sent
    LastFrame,
    NPackets,     \* JF_N_PACKETS_PER_FRAME: the packets of a frame
    PulseOf,      \* framenum -> bunchid
    Faults,       \* what the network may do to a packet
    RcvBuf        \* packets the receive buffer of the socket holds

FrameNum  == FirstFrame .. LastFrame
PacketNum == 0 .. NPackets - 1
Packet    == [framenum : FrameNum, packetnum : PacketNum]

ASSUME NetworkAssumption ==
    /\ FirstFrame \in Nat \ {0} /\ LastFrame \in Nat /\ FirstFrame <= LastFrame
    /\ NPackets \in Nat \ {0}
    /\ RcvBuf \in Nat \ {0}
    /\ Faults \subseteq {"lost", "delayed", "doubled"}

\* 0 is no bunchid: the receivers use it for "no frame".
ASSUME PulseAssumption ==
    /\ PulseOf \in [FrameNum -> Nat \ {0}]
    /\ \A f, g \in FrameNum : f < g => PulseOf[f] < PulseOf[g]

VARIABLES
    sent,     \* packets the detector has sent
    held,     \* packets on a slower path
    socket    \* the receive buffer

netVars == <<sent, held, socket>>

\* The packets in the order the detector sends them.
NSent == NPackets * (LastFrame - FirstFrame + 1)
PacketAt(k) == [framenum |-> FirstFrame + (k \div NPackets), packetnum |-> k % NPackets]

NetInit == sent = 0 /\ held = {} /\ socket = <<>>

Receive(p) == Len(socket) < RcvBuf /\ socket' = Append(socket, p)
Send       == sent < NSent /\ sent' = sent + 1

Deliver == Send /\ Receive(PacketAt(sent)) /\ UNCHANGED held
Lose    == "lost" \in Faults /\ Send /\ UNCHANGED <<held, socket>>
Delay   == "delayed" \in Faults /\ held = {} /\ Send
           /\ held' = {PacketAt(sent)} /\ UNCHANGED socket
Double  == "doubled" \in Faults /\ held = {} /\ Send
           /\ Receive(PacketAt(sent)) /\ held' = {PacketAt(sent)}
Arrive  == \E p \in held : Receive(p) /\ held' = held \ {p} /\ UNCHANGED sent

Network == Deliver \/ Lose \/ Delay \/ Double \/ Arrive
=============================================================================
