------------------------ MODULE JfjFrameUdpReceiver ------------------------
(***************************************************************************)
(* jfj_udp_recv: one process for a whole JungfrauJoch detector.  Its       *)
(* receiver has the task of FrameUdpReceiver but keeps the packets in a    *)
(* PacketBuffer, decides by m_frame_index alone when a frame begins, and   *)
(* its main loop stores the frame and publishes the image metadata itself. *)
(*                                                                         *)
(* The process is one thread.  A step is one pass of process_packets, or   *)
(* one turn of the main loop; the network moves in between.                *)
(***************************************************************************)
EXTENDS FrameReceiver

CONSTANTS
    NSlots,          \* RAM_BUFFER_N_SLOTS
    NStored          \* packets of a frame that fit into MODULE_N_BYTES

ASSUME JfjAssumption == NSlots \in Nat \ {0} /\ NStored \in 1 .. NPackets

VARIABLES
    m_buffer,         \* the PacketBuffer
    m_frame_index,    \* the frame expected next from the buffer
    ram_buffer,       \* slot -> the metadata and the pixels stored there
    published         \* the image metadata sent

jfjRecvVars == <<m_buffer, m_frame_index, metadata, frame_buffer, pc, previous, ram_buffer, published, received, frames>>
jfjVars == <<netVars, jfjRecvVars>>

PB == INSTANCE PacketBuffer WITH CAPACITY <- BatchSize, Blank <- [framenum |-> 0, packetnum |-> 0]

\* The constructor leaves m_frame_index as it finds it.
JfjInit ==
    /\ NetInit
    /\ FrameInit
    /\ m_buffer = PB!NewBuffer
    /\ m_frame_index \in {0} \union FrameNum
    /\ ram_buffer = [s \in 0 .. NSlots - 1 |-> [meta |-> NoFrame, data |-> NoPixels]]
    /\ published = <<>>

-----------------------------------------------------------------------------
(* process_packets() on the unread packets of the buffer.                   *)

ForeignIn(buffer) == {i \in 1 .. Len(buffer) : buffer[i].framenum # m_frame_index}

\* Fault: off by one, the packet before the last ends the frame.
ClosingEarly(buffer) == {i \in 1 .. Len(buffer) : buffer[i].packetnum >= NPackets - 2}

ClosingIn(buffer) == {i \in 1 .. Len(buffer) : buffer[i].packetnum = NPackets - 1}

\* Packets popped: up to the first of another frame, or through the last of this one.
Popped(buffer) ==
    Min({i - 1 : i \in ForeignIn(buffer)} \union ClosingIn(buffer) \union {Len(buffer)})

AtForeign(buffer) == Popped(buffer) \notin ClosingIn(buffer) /\ Popped(buffer) < Len(buffer)

\* The result is the pulse id of the frame if it is finished, and 0 otherwise: also
\* for a frame that a packet of another one finishes before it has any packet itself.
\* On 0 get_frame_from_udp() resets the buffer, which drops what is left in it.
jfj_process_packets(b) ==
    LET buffer == PB!Unread(b)
        n      == Popped(buffer)
        meta   == IF n = 0 THEN metadata
                  ELSE [pulse_id |-> PulseOf[m_frame_index], frame_index |-> m_frame_index,
                        n_recv_packets |-> metadata.n_recv_packets + n]
        ended  == (AtForeign(buffer) \/ n \in ClosingIn(buffer)) /\ meta.pulse_id # 0
    IN
    /\ metadata' = meta
    /\ frame_buffer' = [p \in PacketNum |->
                          IF \E i \in 1 .. n : buffer[i].packetnum = p
                          THEN m_frame_index ELSE frame_buffer[p]]
    /\ m_frame_index' = IF AtForeign(buffer) THEN buffer[n + 1].framenum ELSE m_frame_index
    /\ m_buffer' = IF ended THEN PB!pop_front(b, n) ELSE PB!reset(b)
    /\ pc' = IF ended THEN "frame" ELSE "collect"

-----------------------------------------------------------------------------

mainVars == <<previous, ram_buffer, published, frames>>

\* get_frame_from_udp(): first what is left in the buffer ...
ContinueBuffer ==
    /\ pc = "collect" /\ ~PB!is_empty(m_buffer)
    /\ jfj_process_packets(m_buffer)
    /\ UNCHANGED <<netVars, mainVars, received>>

\* ... then a full or partial batch from the socket.
FillBuffer ==
    /\ pc = "collect" /\ PB!is_empty(m_buffer)
    /\ \E n \in 1 .. BatchSize :
          /\ n <= Len(socket)
          /\ jfj_process_packets(PB!fill_from(PB!reset(m_buffer), n, socket))
          /\ received' = received \o SubSeq(socket, 1, n)
          /\ socket' = SubSeq(socket, n + 1, Len(socket))
    /\ UNCHANGED <<sent, held, mainVars>>

\* recvmmsg() times out or has nothing: the loop goes on.
ReceiveNothing ==
    /\ pc = "collect" /\ PB!is_empty(m_buffer) /\ socket = <<>>
    /\ m_buffer' = PB!fill_from(PB!reset(m_buffer), -1, <<>>)
    /\ UNCHANGED <<netVars, m_frame_index, metadata, frame_buffer, pc, mainVars, received>>

\* main(): a frame is bad unless it has the next frame index and its pulse id is at
\* most MaxPulseStep ahead, in unsigned arithmetic, in which nothing is below 0.
JfjBadPulseId ==
    \/ metadata.frame_index # previous.frame_index + 1
    \/ PulseStep > MaxPulseStep

\* write_frame() copies MODULE_N_BYTES into the slot, the first packets of a frame that
\* has the pixels of many modules.
Stored == [meta |-> metadata,
           data |-> [p \in PacketNum |-> IF p < NStored THEN frame_buffer[p] ELSE 0]]

write_frame == ram_buffer' = [ram_buffer EXCEPT ![metadata.pulse_id % NSlots] = Stored]

ImageMeta == [pulse_id |-> metadata.pulse_id, frame_index |-> metadata.frame_index, is_good_image |-> TRUE]

JfjTakeFrame ==
    /\ pc = "frame"
    /\ frames' = Append(frames, [meta |-> metadata, data |-> frame_buffer, bad |-> JfjBadPulseId])
    /\ previous' = [pulse_id |-> metadata.pulse_id, frame_index |-> metadata.frame_index]
    /\ published' = IF JfjBadPulseId THEN published ELSE Append(published, ImageMeta)
    /\ pc' = "collect"
    /\ metadata' = [metadata EXCEPT !.pulse_id = 0, !.n_recv_packets = 0]
    /\ UNCHANGED <<netVars, m_buffer, m_frame_index, received>>

\* Fault: the pixels of one frame are left to the next.
JfjKeepPixels ==
    /\ JfjTakeFrame
    /\ IF JfjBadPulseId THEN UNCHANGED ram_buffer ELSE write_frame
    /\ UNCHANGED frame_buffer

\* Fault: a bad frame is stored as well.
StoreBad ==
    /\ JfjTakeFrame
    /\ write_frame
    /\ frame_buffer' = NoPixels

\* main(): a good frame is written to the RAM buffer and published; the next
\* get_frame_from_udp() clears pulse id, count and pixels.
JfjHandleFrame ==
    /\ JfjTakeFrame
    /\ IF JfjBadPulseId THEN UNCHANGED ram_buffer ELSE write_frame
    /\ frame_buffer' = NoPixels

JfjReceiver == ContinueBuffer \/ FillBuffer \/ ReceiveNothing \/ JfjHandleFrame

JfjNext == (Network /\ UNCHANGED jfjRecvVars) \/ JfjReceiver

JfjSpec == JfjInit /\ [][JfjNext]_jfjVars

-----------------------------------------------------------------------------
(* Properties. *)

\* The received packets that the frame has / should have.
Has(frame)    == {p \in PacketNum : frame.data[p] # 0}
Should(frame) == {p \in PacketNum : \E i \in 1 .. Len(received) :
                      received[i] = [framenum |-> frame.meta.frame_index, packetnum |-> p]}

\* In a stream that only loses packets, a returned frame is made of packets of that frame
\* only, its count is the number of packets in it, and frames come in the order of their
\* numbers, each once.
FramesPure ==
    InOrder => \A k \in 1 .. Len(frames) :
        /\ \A p \in Has(frames[k]) : frames[k].data[p] = frames[k].meta.frame_index
        /\ frames[k].meta.pulse_id = PulseOf[frames[k].meta.frame_index]
        /\ frames[k].meta.n_recv_packets = Cardinality(Has(frames[k]))
        /\ Has(frames[k]) \subseteq Should(frames[k])
        /\ k > 1 => frames[k - 1].meta.frame_index < frames[k].meta.frame_index

\* What the receiver drops of a frame it returns is its beginning, and less than two
\* batches: it may lose the frame's part of a batch that began with an older frame, and
\* a batch in which it finds out that the frame is not the one expected.
DropsOnlyBeginning ==
    InOrder => \A k \in 1 .. Len(frames) :
        LET dropped == Should(frames[k]) \ Has(frames[k]) IN
        /\ Cardinality(dropped) < 2 * BatchSize
        /\ \A p \in dropped, q \in Has(frames[k]) : p < q

\* What was published last for a slot is what the slot holds, the beginning of that frame
\* as it was returned: the bad frames in between, whose pulses may share the slot, leave
\* no trace.
PublishedInRing ==
    \A k \in 1 .. Len(frames) :
        LET p == frames[k].meta.pulse_id IN
        ~frames[k].bad /\ (\A l \in k + 1 .. Len(frames) :
                               frames[l].meta.pulse_id % NSlots = p % NSlots => frames[l].bad)
        => LET slot == ram_buffer[p % NSlots] IN
           /\ slot.meta = frames[k].meta
           /\ \A i \in PacketNum : i < NStored => slot.data[i] = frames[k].data[i]
           /\ \E i \in 1 .. Len(published) : published[i].pulse_id = p

\* test_FrameUdpReceiver.cpp: when no packet is lost, every frame is returned with all
\* its packets.
AllPacketsInFrame ==
    \A k \in 1 .. Len(frames) : frames[k].meta.n_recv_packets = NPackets
=============================================================================
