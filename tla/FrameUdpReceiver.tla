-------------------------- MODULE FrameUdpReceiver --------------------------
(***************************************************************************)
(* jf_udp_recv: one process per detector module.  FrameUdpReceiver turns   *)
(* the UDP packets, read in batches that do not respect frame boundaries,  *)
(* into frames; the main loop checks that a frame follows the previous one *)
(* and then stores and announces it.                                       *)
(*                                                                         *)
(* The process is one thread.  A step is one pass of process_packets over  *)
(* a batch, or one turn of the main loop; the network moves in between.    *)
(***************************************************************************)
EXTENDS FrameReceiver

VARIABLES
    packet_buffer,           \* the batch in memory
    packet_buffer_offset,    \* packets of it that are processed
    packet_buffer_loaded     \* the rest belongs to the next frame

recvVars == <<packet_buffer, packet_buffer_offset, packet_buffer_loaded, metadata,
              frame_buffer, pc, previous, received, frames>>
vars == <<netVars, recvVars>>

Init ==
    /\ NetInit
    /\ FrameInit
    /\ packet_buffer = <<>>
    /\ packet_buffer_offset = 0
    /\ packet_buffer_loaded = FALSE

-----------------------------------------------------------------------------
(* process_packets(): the packets of batch from offset start on.            *)

\* The frame in progress: the first packet decides when there is none.
CurrentFrame(batch, start) ==
    IF metadata.pulse_id = 0 THEN batch[start + 1].framenum ELSE metadata.frame_index

\* Packets of another frame: the last packet of this one was lost.
Foreign(batch, start) ==
    {i \in start + 1 .. Len(batch) : batch[i].framenum # CurrentFrame(batch, start)}

\* Packets that are the last of their frame.
Closing(batch, start) ==
    {i \in start + 1 .. Len(batch) : batch[i].packetnum = NPackets - 1}

\* Fault: the first packet of the next frame is counted as processed.
SkipForeign(batch, start) ==
    Min(Foreign(batch, start) \union Closing(batch, start) \union {Len(batch)})

\* How far one pass gets: to before the first foreign packet, to behind the
\* first closing one, or through the batch.
ProcessedUpTo(batch, start) ==
    Min({i - 1 : i \in Foreign(batch, start)} \union Closing(batch, start) \union {Len(batch)})

\* Fault: a frame is finished only by a packet of another one.
FinishedByForeignOnly(batch, start) == Foreign(batch, start) # {}

FrameFinished(batch, start) == Foreign(batch, start) \union Closing(batch, start) # {}

\* One pass: the packets start + 1 .. stop join the frame, the rest is kept.
ProcessPackets(batch, start, stop, rest) ==
    LET frame == CurrentFrame(batch, start) IN
    /\ packet_buffer' = batch
    /\ metadata' = [pulse_id |-> PulseOf[frame], frame_index |-> frame,
                    n_recv_packets |-> metadata.n_recv_packets + (stop - start)]
    /\ frame_buffer' = [p \in PacketNum |->
                          IF \E i \in start + 1 .. stop : batch[i].packetnum = p
                          THEN frame ELSE frame_buffer[p]]
    /\ packet_buffer_loaded' = rest
    /\ packet_buffer_offset' = IF rest THEN stop ELSE 0
    /\ pc' = IF FrameFinished(batch, start) THEN "frame" ELSE "collect"

process_packets(batch, start) ==
    LET stop == ProcessedUpTo(batch, start) IN
    ProcessPackets(batch, start, stop, FrameFinished(batch, start) /\ stop < Len(batch))

-----------------------------------------------------------------------------

\* get_frame_from_udp(): first what is left of the last batch ...
ContinueBatch ==
    /\ pc = "collect" /\ packet_buffer_loaded
    /\ process_packets(packet_buffer, packet_buffer_offset)
    /\ UNCHANGED <<netVars, previous, received, frames>>

\* ... then new batches.  recvmmsg returns the packets that are there, up to the
\* batch size, or fewer when its timeout ends the wait; an empty result or an
\* error leaves everything as it is.
ReceiveBatch ==
    /\ pc = "collect" /\ ~packet_buffer_loaded
    /\ \E n \in 1 .. BatchSize :
          /\ n <= Len(socket)
          /\ LET batch == SubSeq(socket, 1, n) IN
             /\ process_packets(batch, 0)
             /\ received' = received \o batch
          /\ socket' = SubSeq(socket, n + 1, Len(socket))
    /\ UNCHANGED <<sent, held, previous, frames>>

\* Fault: the largest step allowed is rejected.
BadAtMaxStep ==
    \/ metadata.frame_index # previous.frame_index + 1
    \/ PulseStep <= 0
    \/ PulseStep >= MaxPulseStep

\* main(): a frame is bad unless it has the next frame index and a pulse id at most
\* MaxPulseStep behind the previous one, in unsigned arithmetic.
BadPulseId ==
    \/ metadata.frame_index # previous.frame_index + 1
    \/ PulseStep <= 0
    \/ PulseStep > MaxPulseStep

TakeFrame ==
    /\ pc = "frame"
    /\ frames' = Append(frames, [meta |-> metadata, data |-> frame_buffer, bad |-> BadPulseId])
    /\ previous' = [pulse_id |-> metadata.pulse_id, frame_index |-> metadata.frame_index]
    /\ pc' = "collect"
    /\ UNCHANGED <<netVars, packet_buffer, packet_buffer_offset, packet_buffer_loaded, received>>

\* Fault: the pixels of one frame are left to the next.
KeepPixels ==
    /\ TakeFrame
    /\ metadata' = [metadata EXCEPT !.pulse_id = 0, !.n_recv_packets = 0]
    /\ UNCHANGED frame_buffer

\* main(): a good frame is written to the RAM buffer and its pulse id published;
\* every frame is the next one's previous.  The next get_frame_from_udp() starts
\* by clearing metadata and pixels.
HandleFrame ==
    /\ TakeFrame
    /\ metadata' = [metadata EXCEPT !.pulse_id = 0, !.n_recv_packets = 0]
    /\ frame_buffer' = NoPixels

Receiver == ContinueBatch \/ ReceiveBatch \/ HandleFrame

Next == (Network /\ UNCHANGED recvVars) \/ Receiver

Spec == Init /\ [][Next]_vars

\* The process polls the socket for ever; nothing is assumed of the network.
FairSpec == Spec /\ WF_vars(Receiver)
-----------------------------------------------------------------------------
(* What the receiver promises: the stream of packets, cut into frames as if   *)
(* there were no batches.                                                     *)

\* Packets in memory that no frame has yet.
Leftover ==
    IF packet_buffer_loaded
    THEN Len(packet_buffer) - packet_buffer_offset ELSE 0

NProcessed == Len(received) - Leftover

\* A frame ends with its last packet, or before a packet of another frame.
Ends ==
    {i \in 1 .. Len(received) :
        \/ received[i].packetnum = NPackets - 1
        \/ i < Len(received) /\ received[i + 1].framenum # received[i].framenum}

PastEnds == {e \in Ends : e <= NProcessed}

\* The packets before the frame that packet i is in.
Before(i) == Max({0} \union {e \in Ends : e < i})

\* What a frame made of the packets behind from, through to, looks like in the end.
IsFrameOf(meta, data, from, to) ==
    LET frame == received[to].framenum IN
    /\ meta = [pulse_id |-> PulseOf[frame], frame_index |-> frame, n_recv_packets |-> to - from]
    /\ data = [p \in PacketNum |->
                  IF \E i \in from + 1 .. to : received[i].packetnum = p THEN frame ELSE 0]

-----------------------------------------------------------------------------
(* Properties. *)

\* However the packets are batched, and whatever the network did to them, the
\* frames the receiver returns and the one it is filling are those of the packet
\* stream: no packet is dropped between two batches or two frames, none is
\* counted twice, no frame has pixels of two, and none is held back once it has ended.
FramesMatchStream ==
    /\ \A e \in PastEnds :
          LET k == Cardinality({d \in PastEnds : d <= e}) IN
          \/ k <= Len(frames) /\ IsFrameOf(frames[k].meta, frames[k].data, Before(e), e)
          \/ /\ k = Len(frames) + 1 /\ e = NProcessed /\ pc = "frame"
             /\ IsFrameOf(metadata, frame_buffer, Before(e), e)
    /\ Cardinality(PastEnds) = Len(frames) + (IF pc = "frame" THEN 1 ELSE 0)
    /\ pc = "collect" =>
          LET begin == Before(NProcessed + 1) IN
          IF begin = NProcessed
          THEN metadata.pulse_id = 0 /\ metadata.n_recv_packets = 0 /\ frame_buffer = NoPixels
          ELSE IsFrameOf(metadata, frame_buffer, begin, NProcessed)

\* In a stream that only loses packets, a frame is thrown away exactly if the one
\* before it never reached the process, or the detector itself skipped more than
\* MaxPulseStep pulses before it, counted from 0 before frame 1: every loss costs the
\* frame it hit and, when it hit all of it, the next one, no more.
PulseBefore(f) == IF f = 1 THEN 0 ELSE PulseOf[f - 1]

BadIffGap ==
    InOrder =>
        \A k \in 1 .. Len(frames) :
            LET f == frames[k].meta.frame_index IN
            frames[k].bad <=>
                \/ f > 1 /\ \A i \in 1 .. Len(received) : received[i].framenum # f - 1
                \/ f - 1 \in {0} \union FrameNum /\ PulseOf[f] - PulseBefore(f) > MaxPulseStep

\* A frame whose packets wait in the socket one after the other, and of which none
\* came before, is returned, whole: it does not wait for later frames.
Arrived(f) ==
    \E k \in 0 .. Len(socket) - NPackets :
        /\ \A p \in PacketNum : socket[k + 1 + p] = [framenum |-> f, packetnum |-> p]
        /\ \A i \in 1 .. k : socket[i].framenum # f
        /\ \A i \in 1 .. Len(received) : received[i].framenum # f
Returned(f) == \E k \in 1 .. Len(frames) :
                  frames[k].meta.frame_index = f /\ frames[k].meta.n_recv_packets = NPackets
CompleteFrameReturned == \A f \in FrameNum : Arrived(f) ~> Returned(f)
=============================================================================
