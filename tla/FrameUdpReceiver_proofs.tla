----------------------- MODULE FrameUdpReceiver_proofs -----------------------
(***************************************************************************)
(* The module receiver cuts the packet stream as it should, for any number *)
(* of frames and packets, any batches and any network.  The cut of the     *)
(* packets processed so far is a sequence of ends: one per returned frame. *)
(*                                                                         *)
(* The second half is about the JungfrauJoch receiver, J, which shares the *)
(* packets, the stream and much of the argument: it cuts the stream too,   *)
(* but leaves something out of it.                                         *)
(***************************************************************************)
EXTENDS FrameUdpReceiver, JfjFrameUdpReceiver, FiniteSetTheorems, SequenceTheorems, WellFoundedInduction, TLAPS

USE NetworkAssumption, PulseAssumption, ReceiverAssumption

Meta == [pulse_id : Nat, frame_index : Nat, n_recv_packets : Nat]

TypeInv ==
    /\ sent \in Nat
    /\ held \subseteq Packet
    /\ socket \in Seq(Packet)
    /\ packet_buffer \in Seq(Packet)
    /\ packet_buffer_offset \in 0 .. Len(packet_buffer)
    /\ packet_buffer_loaded \in BOOLEAN
    /\ metadata \in Meta
    /\ metadata.pulse_id # 0 => metadata.frame_index \in FrameNum
    /\ frame_buffer \in [PacketNum -> Nat]
    /\ pc \in {"collect", "frame"}
    /\ previous \in [pulse_id : Nat, frame_index : Nat]
    /\ received \in Seq(Packet)
    /\ frames \in Seq([meta : Meta, data : [PacketNum -> Nat], bad : BOOLEAN])

\* The packets of the batch behind start are those of the stream behind to.
EndOf(stream, to, batch, start) ==
    /\ Len(stream) - to = Len(batch) - start
    /\ \A i \in start + 1 .. Len(batch) : batch[i] = stream[(to - start) + i]

\* What is left of a batch is what was received last, and no frame is begun with it.
BatchInv ==
    /\ NProcessed \in 0 .. Len(received)
    /\ packet_buffer_loaded =>
          /\ packet_buffer_offset < Len(packet_buffer)
          /\ EndOf(received, NProcessed, packet_buffer, packet_buffer_offset)
          /\ pc = "collect" => metadata.pulse_id = 0

\* The definitions of the component, for a given stream of packets.
EndsIn(stream) ==
    {i \in 1 .. Len(stream) :
        \/ stream[i].packetnum = NPackets - 1
        \/ i < Len(stream) /\ stream[i + 1].framenum # stream[i].framenum}

FrameIn(stream, meta, data, from, to) ==
    /\ from < to
    /\ \A i \in from + 1 .. to : stream[i].framenum = stream[to].framenum
    /\ meta = [pulse_id |-> PulseOf[stream[to].framenum], frame_index |-> stream[to].framenum,
               n_recv_packets |-> to - from]
    /\ data = [p \in PacketNum |->
                  IF \E i \in from + 1 .. to : stream[i].packetnum = p THEN stream[to].framenum ELSE 0]

\* Where the frames fs end: at cut[1], cut[2], ..., and nowhere in between.
CutOf(stream, fs, cut) ==
    /\ cut \in [0 .. Len(fs) -> 0 .. Len(stream)]
    /\ cut[0] = 0
    /\ \A j, k \in 0 .. Len(fs) : j < k => cut[j] < cut[k]
    /\ \A k \in 1 .. Len(fs) : /\ cut[k] \in EndsIn(stream)
                               /\ FrameIn(stream, fs[k].meta, fs[k].data, cut[k - 1], cut[k])
    /\ \A e \in EndsIn(stream) : e <= cut[Len(fs)] => \E k \in 1 .. Len(fs) : cut[k] = e

\* The packets behind from, through to, are those of the frame that is filled.
OpenIn(stream, meta, data, from, to) ==
    /\ IF from = to
       THEN meta.pulse_id = 0 /\ meta.n_recv_packets = 0 /\ data = NoPixels
       ELSE FrameIn(stream, meta, data, from, to)
    /\ \A e \in EndsIn(stream) : from < e => to <= e

\* The receiver returns a frame exactly when it has ended.
CutInv ==
    \E cut \in [0 .. Len(frames) -> 0 .. NProcessed] :
        LET from == cut[Len(frames)] IN
        /\ CutOf(received, frames, cut)
        /\ OpenIn(received, metadata, frame_buffer, from, NProcessed)
        /\ pc = "frame" => from < NProcessed /\ NProcessed \in EndsIn(received)
        /\ pc = "collect" /\ from < NProcessed => NProcessed \notin EndsIn(received)

Inv == TypeInv /\ BatchInv /\ CutInv

\* What frame k was compared with, and the verdict on it.
PreviousOf(fs, k) ==
    IF k = 1 THEN [pulse_id |-> 0, frame_index |-> 0]
    ELSE [pulse_id |-> fs[k - 1].meta.pulse_id, frame_index |-> fs[k - 1].meta.frame_index]

BadAfter(meta, before) ==
    LET step == (meta.pulse_id + PulseModulus - before.pulse_id) % PulseModulus IN
    \/ meta.frame_index # before.frame_index + 1
    \/ step <= 0
    \/ step > MaxPulseStep

Verdicts ==
    /\ previous = PreviousOf(frames, Len(frames) + 1)
    /\ \A k \in 1 .. Len(frames) : frames[k].bad = BadAfter(frames[k].meta, PreviousOf(frames, k))

-----------------------------------------------------------------------------
(* Least elements. *)

\* A set of naturals has a least element.
LEMMA MinOfNat ==
    ASSUME NEW S \in SUBSET Nat, S # {}
    PROVE  Min(S) \in S /\ \A y \in S : Min(S) <= y
<1> DEFINE R == OpToRel(<, Nat)
<1>1. IsWellFoundedOn(R, Nat)
  BY NatLessThanWellFounded, Zenon
<1>2. \A x, y \in Nat : x < y => <<x, y>> \in R
  BY DEF OpToRel
<1> HIDE DEF R
<1>3. PICK x \in S : \A y \in S : <<y, x>> \notin R
  BY <1>1, WFMin
<1>4. ASSUME NEW y \in S PROVE x <= y
  <2>1. ~(y < x)
    BY <1>2, <1>3
  <2> QED
    BY <2>1
<1> QED
  BY <1>4 DEF Min

\* An element that is above all others is the maximum.
LEMMA MaxIsGreatest ==
    ASSUME NEW S \in SUBSET Nat, NEW x \in S, \A y \in S : y <= x
    PROVE  Max(S) = x
<1>1. \A y \in S : (\A z \in S : y >= z) => y = x
  OBVIOUS
<1>2. \E y \in S : \A z \in S : y >= z
  OBVIOUS
<1>3. Max(S) \in S /\ \A y \in S : Max(S) >= y
  BY <1>2 DEF Max
<1> QED
  BY <1>1, <1>3

-----------------------------------------------------------------------------
(* More packets behind the stream change nothing of what was processed.     *)

\* The packets of a stream with a batch behind it.
LEMMA LongerStream ==
    ASSUME NEW stream \in Seq(Packet), NEW batch \in Seq(Packet)
    PROVE  LET longer == stream \o batch IN
           /\ longer \in Seq(Packet)
           /\ Len(longer) = Len(stream) + Len(batch)
           /\ \A i \in 1 .. Len(stream) : longer[i] = stream[i]
           /\ \A i \in 1 .. Len(batch) : longer[Len(stream) + i] = batch[i]
  OBVIOUS

\* A batch adds ends from the last packet of the stream on.
LEMMA LongerEnds ==
    ASSUME NEW stream \in Seq(Packet), NEW batch \in Seq(Packet)
    PROVE  /\ EndsIn(stream) \subseteq EndsIn(stream \o batch)
           /\ \A e \in EndsIn(stream \o batch) : e < Len(stream) => e \in EndsIn(stream)
<1> DEFINE longer == stream \o batch
<1>1. /\ longer \in Seq(Packet)
      /\ Len(longer) = Len(stream) + Len(batch) /\ Len(stream) \in Nat /\ Len(batch) \in Nat
      /\ \A i \in 1 .. Len(stream) : longer[i] = stream[i]
  BY LongerStream
<1> HIDE DEF longer
<1>2. \A i \in 1 .. Len(stream) : i < Len(stream) => i + 1 \in 1 .. Len(stream)
  BY <1>1
<1>3. EndsIn(stream) \subseteq EndsIn(longer)
  BY <1>1, <1>2 DEF EndsIn
<1>4. \A e \in EndsIn(longer) : e < Len(stream) => e \in EndsIn(stream)
  BY <1>1, <1>2 DEF EndsIn
<1> QED
  BY <1>3, <1>4 DEF longer

\* A frame of the stream is one of the longer stream.
LEMMA LongerFrame ==
    ASSUME NEW stream \in Seq(Packet), NEW batch \in Seq(Packet),
           NEW from \in Nat, NEW to \in Nat, to <= Len(stream),
           NEW meta, NEW data, FrameIn(stream, meta, data, from, to)
    PROVE  FrameIn(stream \o batch, meta, data, from, to)
<1> DEFINE longer == stream \o batch
<1>1. \A i \in 1 .. Len(stream) : longer[i] = stream[i]
  BY LongerStream
<1>2. Len(stream) \in Nat
  OBVIOUS
<1> HIDE DEF longer
<1>3. \A i \in from + 1 .. to : longer[i] = stream[i]
  BY <1>1, <1>2
<1>4. from < to /\ longer[to] = stream[to]
  BY <1>1, <1>2 DEF FrameIn
<1>5. data = [p \in PacketNum |->
                IF \E i \in from + 1 .. to : longer[i].packetnum = p THEN longer[to].framenum ELSE 0]
  BY <1>3, <1>4 DEF FrameIn
<1> QED
  BY <1>3, <1>4, <1>5 DEF FrameIn, longer

\* A cut of the stream is one of the longer stream.
LEMMA LongerCut ==
    ASSUME NEW stream \in Seq(Packet), NEW batch \in Seq(Packet),
           NEW fs \in Seq([meta : Meta, data : [PacketNum -> Nat], bad : BOOLEAN]),
           NEW cut, CutOf(stream, fs, cut)
    PROVE  CutOf(stream \o batch, fs, cut)
<1> DEFINE longer == stream \o batch
           n == Len(fs)
<1>0. n \in Nat /\ Len(stream) \in Nat
  OBVIOUS
<1>1. Len(longer) \in Nat /\ Len(stream) <= Len(longer)
  BY LongerStream
<1>2. cut \in [0 .. n -> 0 .. Len(stream)] /\ cut[0] = 0
  BY DEF CutOf
<1>3. cut \in [0 .. n -> 0 .. Len(longer)]
  BY <1>0, <1>1, <1>2
<1>4. ASSUME NEW k \in 1 .. n
      PROVE  cut[k] \in EndsIn(longer) /\ FrameIn(longer, fs[k].meta, fs[k].data, cut[k - 1], cut[k])
  <2>1. cut[k] \in EndsIn(stream) /\ FrameIn(stream, fs[k].meta, fs[k].data, cut[k - 1], cut[k])
    BY <1>4 DEF CutOf
  <2>2. k \in 0 .. n /\ k - 1 \in 0 .. n
    BY <1>0
  <2>3. cut[k] \in 0 .. Len(stream) /\ cut[k - 1] \in 0 .. Len(stream)
    BY <1>2, <2>2
  <2> QED
    BY <2>1, <2>3, <1>0, LongerFrame, LongerEnds
<1>5. ASSUME NEW e \in EndsIn(longer), e <= cut[n]
      PROVE  \E k \in 1 .. n : cut[k] = e
  <2>0. e \in Nat /\ e > 0
    BY DEF EndsIn
  <2>1. CASE e = cut[n]
    <3>1. n # 0
      BY <2>0, <2>1, <1>2
    <3> QED
      BY <3>1, <2>1, <1>0
  <2>2. CASE e # cut[n]
    <3>1. e < Len(stream)
      <4>1. n \in 0 .. n
        BY <1>0
      <4>2. e <= cut[n]
        BY <1>5
      <4> HIDE DEF n, longer
      <4> QED
        BY <4>1, <4>2, <2>0, <2>2, <1>0, <1>2
    <3>2. e \in EndsIn(stream)
      BY <3>1, LongerEnds
    <3> QED
      BY <3>2, <1>5 DEF CutOf
  <2> QED
    BY <2>1, <2>2
<1> HIDE DEF longer
<1>6. \A j, k \in 0 .. n : j < k => cut[j] < cut[k]
  BY DEF CutOf
<1>7. CutOf(longer, fs, cut)
  BY <1>2, <1>3, <1>4, <1>5, <1>6 DEF CutOf
<1> QED
  BY <1>7 DEF longer

\* So is the frame in progress.
LEMMA LongerOpen ==
    ASSUME NEW stream \in Seq(Packet), NEW batch \in Seq(Packet),
           NEW from \in Nat, NEW to \in Nat, to <= Len(stream),
           NEW meta, NEW data, OpenIn(stream, meta, data, from, to)
    PROVE  OpenIn(stream \o batch, meta, data, from, to)
<1>1. ASSUME NEW e \in EndsIn(stream \o batch), from < e
      PROVE  to <= e
  <2>1. CASE e < Len(stream)
    BY <2>1, <1>1, LongerEnds DEF OpenIn
  <2>2. CASE ~(e < Len(stream))
    <3>1. e \in Nat
      BY DEF EndsIn
    <3> QED
      BY <3>1, <2>2
  <2> QED
    BY <2>1, <2>2
<1> QED
  BY <1>1, LongerFrame DEF OpenIn

-----------------------------------------------------------------------------
(* One pass of process_packets.                                             *)

\* Where it stops: it takes packets of the current frame only, and stops at the first
\* reason to.
LEMMA PassStops ==
    ASSUME NEW batch \in Seq(Packet), NEW start \in 0 .. Len(batch) - 1
    PROVE  LET stop  == ProcessedUpTo(batch, start)
               frame == CurrentFrame(batch, start)
           IN
           /\ stop \in start .. Len(batch)
           /\ \A i \in start + 1 .. stop : batch[i].framenum = frame
           /\ \A i \in start + 1 .. stop - 1 : batch[i].packetnum # NPackets - 1
           /\ FrameFinished(batch, start) =>
                 \/ stop > start /\ batch[stop].packetnum = NPackets - 1
                 \/ stop < Len(batch) /\ batch[stop + 1].framenum # frame
           /\ ~FrameFinished(batch, start) =>
                 stop = Len(batch) /\ batch[stop].packetnum # NPackets - 1
<1> DEFINE stop  == ProcessedUpTo(batch, start)
           frame == CurrentFrame(batch, start)
           foreign == Foreign(batch, start)
           closing == Closing(batch, start)
           stops == {i - 1 : i \in foreign} \union closing \union {Len(batch)}
<1>0. Len(batch) \in Nat /\ start \in Nat /\ start < Len(batch)
  OBVIOUS
<1>1. foreign = {i \in start + 1 .. Len(batch) : batch[i].framenum # frame}
  BY DEF Foreign
<1>2. closing = {i \in start + 1 .. Len(batch) : batch[i].packetnum = NPackets - 1}
  BY DEF Closing
<1>3. stop = Min(stops)
  BY DEF ProcessedUpTo
<1>4. FrameFinished(batch, start) <=> foreign \union closing # {}
  BY DEF FrameFinished
<1> HIDE DEF foreign, closing, frame, stop
<1>5. stops \subseteq start .. Len(batch) /\ stops # {}
  BY <1>0, <1>1, <1>2
<1>6. stop \in stops /\ \A i \in stops : stop <= i
  <2> HIDE DEF stops
  <2>1. stops \in SUBSET Nat
    BY <1>0, <1>5
  <2> QED
    BY <1>3, <1>5, <2>1, MinOfNat
<1>7. stop \in start .. Len(batch)
  BY <1>5, <1>6
<1>8. ASSUME NEW i \in start + 1 .. stop
      PROVE  batch[i].framenum = frame
  <2>1. i \notin foreign
    <3>1. i \in foreign => stop <= i - 1
      BY <1>6
    <3> QED
      BY <3>1, <1>0, <1>7
  <2> QED
    BY <2>1, <1>0, <1>1, <1>7
<1>9. ASSUME NEW i \in start + 1 .. stop - 1
      PROVE  batch[i].packetnum # NPackets - 1
  <2>1. i \notin closing
    <3>1. i \in closing => stop <= i
      BY <1>6
    <3> QED
      BY <3>1, <1>0, <1>7
  <2> QED
    BY <2>1, <1>0, <1>2, <1>7
<1>10. ASSUME foreign \union closing # {}
       PROVE  \/ stop > start /\ batch[stop].packetnum = NPackets - 1
              \/ stop < Len(batch) /\ batch[stop + 1].framenum # frame
  <2>1. CASE stop \in closing
    BY <2>1, <1>0, <1>2
  <2>2. CASE stop \in {i - 1 : i \in foreign}
    <3>1. PICK i \in foreign : stop = i - 1
      BY <2>2
    <3>2. i \in start + 1 .. Len(batch) /\ batch[i].framenum # frame
      BY <1>1, <3>1
    <3>3. i = stop + 1 /\ stop < Len(batch)
      BY <3>1, <3>2, <1>0
    <3> QED
      BY <3>2, <3>3
  <2>3. CASE stop = Len(batch)
    <3>1. \A i \in foreign : FALSE
      <4>1. ASSUME NEW i \in foreign PROVE FALSE
        <5>1. stop <= i - 1 /\ i \in start + 1 .. Len(batch)
          BY <1>1, <1>6
        <5> QED
          BY <5>1, <2>3, <1>0
      <4> QED
        BY <4>1
    <3>2. PICK i \in closing : TRUE
      BY <1>10, <3>1
    <3>3. i \in start + 1 .. Len(batch) /\ stop <= i
      BY <3>2, <1>2, <1>6
    <3>4. i = stop
      BY <3>3, <2>3, <1>0
    <3> QED
      BY <2>1, <3>2, <3>4
  <2> QED
    BY <2>1, <2>2, <2>3, <1>6
<1>11. ASSUME foreign \union closing = {}
       PROVE  stop = Len(batch) /\ batch[stop].packetnum # NPackets - 1
  <2>1. stop = Len(batch)
    BY <1>6, <1>11
  <2>2. Len(batch) \notin closing
    BY <1>11
  <2> QED
    BY <2>1, <2>2, <1>0, <1>2
<1> QED
  BY <1>4, <1>7, <1>8, <1>9, <1>10, <1>11 DEF stop, frame

\* The metadata and the pixels after the pass.
PassMakes(batch, start, meta, data) ==
    LET stop  == ProcessedUpTo(batch, start)
        frame == CurrentFrame(batch, start)
    IN
    /\ meta = [pulse_id |-> PulseOf[frame], frame_index |-> frame,
               n_recv_packets |-> metadata.n_recv_packets + (stop - start)]
    /\ data = [p \in PacketNum |->
                 IF \E i \in start + 1 .. stop : batch[i].packetnum = p
                 THEN frame ELSE frame_buffer[p]]

\* A pass over the rest of a batch, which is the end of the stream, continues the cut: the
\* frame grows up to where it ends, or to the end of the stream.
LEMMA PassCuts ==
    ASSUME metadata \in Meta, frame_buffer \in [PacketNum -> Nat],
           NEW stream \in Seq(Packet), NEW batch \in Seq(Packet),
           NEW start \in 0 .. Len(batch) - 1,
           NEW from \in Nat, NEW to \in Nat, from <= to, EndOf(stream, to, batch, start),
           OpenIn(stream, metadata, frame_buffer, from, to),
           from < to => stream[to].packetnum # NPackets - 1,
           NEW meta, NEW data, PassMakes(batch, start, meta, data)
    PROVE  LET end == to + (ProcessedUpTo(batch, start) - start) IN
           /\ end \in from + 1 .. Len(stream)
           /\ OpenIn(stream, meta, data, from, end)
           /\ FrameFinished(batch, start) <=> end \in EndsIn(stream)
<1> DEFINE stop  == ProcessedUpTo(batch, start)
           frame == CurrentFrame(batch, start)
           end   == to + (stop - start)
           base  == to - start
           done  == FrameFinished(batch, start)
<1>1. /\ Len(batch) \in Nat /\ Len(stream) \in Nat /\ start \in Nat /\ start < Len(batch)
      /\ base \in Int /\ to = base + start /\ Len(stream) = base + Len(batch)
  <2>1. Len(batch) \in Nat /\ Len(stream) \in Nat /\ start \in 0 .. Len(batch) - 1
    OBVIOUS
  <2>2. Len(stream) - to = Len(batch) - start
    BY DEF EndOf
  <2> HIDE DEF stop, frame, end, done
  <2>3. start \in Nat /\ start < Len(batch) /\ base \in Int
    BY <2>1
  <2>4. to = base + start
    BY <2>3
  <2>5. Len(stream) = base + Len(batch)
    BY <2>1, <2>2, <2>3
  <2> QED
    BY <2>1, <2>3, <2>4, <2>5
<1>2. /\ stop \in start .. Len(batch)
      /\ \A i \in start + 1 .. stop : batch[i].framenum = frame
      /\ \A i \in start + 1 .. stop - 1 : batch[i].packetnum # NPackets - 1
      /\ done => \/ stop > start /\ batch[stop].packetnum = NPackets - 1
                 \/ stop < Len(batch) /\ batch[stop + 1].framenum # frame
      /\ ~done => stop = Len(batch) /\ batch[stop].packetnum # NPackets - 1
  BY PassStops
<1>3. meta = [pulse_id |-> PulseOf[frame], frame_index |-> frame,
              n_recv_packets |-> metadata.n_recv_packets + (stop - start)]
  BY DEF PassMakes
<1>4. data = [p \in PacketNum |->
                IF \E i \in start + 1 .. stop : batch[i].packetnum = p THEN frame ELSE frame_buffer[p]]
  BY DEF PassMakes
<1>5. \A i \in start + 1 .. Len(batch) : batch[i] = stream[base + i]
  BY DEF EndOf
<1>6. from < to \/ from = to
  OBVIOUS
\* The current frame is that of the open packets, or of the next.
<1>7. /\ from < to => FrameIn(stream, metadata, frame_buffer, from, to) /\ frame = stream[to].framenum
      /\ from = to => /\ metadata.n_recv_packets = 0 /\ frame_buffer = NoPixels
                      /\ frame = batch[start + 1].framenum
  <2>1. CASE from < to
    <3>1. FrameIn(stream, metadata, frame_buffer, from, to)
      BY <2>1 DEF OpenIn
    <3>2. stream[to].framenum \in FrameNum
      <4>1. to \in 1 .. Len(stream)
        BY <2>1, <1>1
      <4>2. stream[to] \in Packet
        BY <4>1
      <4> QED
        BY <4>2 DEF Packet
    <3>3. metadata.pulse_id # 0 /\ metadata.frame_index = stream[to].framenum
      BY <3>1, <3>2 DEF FrameIn
    <3> QED
      BY <2>1, <3>1, <3>3 DEF CurrentFrame
  <2>2. CASE from = to
    BY <2>2 DEF OpenIn, CurrentFrame
  <2> QED
    BY <2>1, <2>2
<1> HIDE DEF stop, frame, base, done
<1>8. ASSUME NEW i \in start + 1 .. stop
      PROVE  batch[i] = stream[base + i] /\ stream[base + i].framenum = frame
  <2>1. i \in start + 1 .. Len(batch)
    BY <1>1, <1>2
  <2> QED
    BY <2>1, <1>2, <1>5
<1>9. \A i \in to + 1 .. end : i - base \in start + 1 .. stop /\ i = base + (i - base)
  BY <1>1, <1>2
<1>10. \A i \in to + 1 .. end : stream[i].framenum = frame
  BY <1>8, <1>9
<1>11. \A i \in from + 1 .. to : stream[i].framenum = frame
  BY <1>7, <1>1 DEF FrameIn
\* It has at least one packet.
<1>12. end \in from + 1 .. Len(stream)
  <2>1. end \in from .. Len(stream)
    BY <1>1, <1>2
  <2>2. CASE from < to
    BY <2>1, <2>2, <1>1, <1>2
  <2>3. CASE from = to
    <3>1. frame = batch[start + 1].framenum
      BY <1>7, <2>3
    <3>2. stop > start
      BY <3>1, <1>1, <1>2
    <3> QED
      BY <2>1, <2>3, <3>2, <1>1, <1>2
  <2> QED
    BY <2>2, <2>3
<1>13. \A i \in from + 1 .. end : stream[i].framenum = frame
  <2>1. \A i \in from + 1 .. end : i \in from + 1 .. to \/ i \in to + 1 .. end
    BY <1>1, <1>2
  <2> QED
    BY <2>1, <1>10, <1>11
<1>14. stream[end].framenum = frame
  BY <1>12, <1>13
<1>15. end = base + stop /\ end \in Nat
  BY <1>1, <1>2
<1>16. meta = [pulse_id |-> PulseOf[frame], frame_index |-> frame, n_recv_packets |-> end - from]
  <2>1. metadata.n_recv_packets = to - from
    <3>1. CASE from < to
      BY <3>1, <1>7 DEF FrameIn
    <3>2. CASE from = to
      BY <3>2, <1>7
    <3> QED
      BY <3>1, <3>2
  <2>2. metadata.n_recv_packets + (stop - start) = end - from
    BY <2>1, <1>1, <1>2
  <2> QED
    BY <2>2, <1>3
<1>17. data = [p \in PacketNum |->
                 IF \E i \in from + 1 .. end : stream[i].packetnum = p THEN frame ELSE 0]
  <2>1. ASSUME NEW p \in PacketNum
        PROVE  (\E i \in start + 1 .. stop : batch[i].packetnum = p)
                  <=> \E i \in to + 1 .. end : stream[i].packetnum = p
    <3>1. ASSUME NEW i \in start + 1 .. stop, batch[i].packetnum = p
          PROVE  \E j \in to + 1 .. end : stream[j].packetnum = p
      <4>1. base + i \in to + 1 .. end
        BY <1>1, <1>2
      <4>2. stream[base + i] = batch[i]
        BY <1>8
      <4> QED
        BY <3>1, <4>1, <4>2
    <3>2. ASSUME NEW j \in to + 1 .. end, stream[j].packetnum = p
          PROVE  \E i \in start + 1 .. stop : batch[i].packetnum = p
      <4>1. j - base \in start + 1 .. stop /\ base + (j - base) = j
        BY <1>9
      <4>2. batch[j - base] = stream[j]
        BY <4>1, <1>8
      <4> QED
        BY <3>2, <4>1, <4>2
    <3> QED
      BY <3>1, <3>2
  <2>2. ASSUME NEW p \in PacketNum
        PROVE  frame_buffer[p] = IF \E i \in from + 1 .. to : stream[i].packetnum = p THEN frame ELSE 0
    <3>1. CASE from < to
      BY <3>1, <1>7 DEF FrameIn
    <3>2. CASE from = to
      <4>1. frame_buffer[p] = 0
        BY <3>2, <1>7 DEF NoPixels
      <4>2. from + 1 .. to = {}
        BY <3>2
      <4> QED
        BY <4>1, <4>2
    <3> QED
      BY <3>1, <3>2, <1>6, Zenon
  <2>3. from + 1 .. end = (from + 1 .. to) \union (to + 1 .. end)
    <3>1. to <= end
      BY <1>1, <1>2
    <3> HIDE DEF end
    <3> QED
      BY <3>1, <1>15
  <2>4. ASSUME NEW p \in PacketNum
        PROVE  (IF \E i \in start + 1 .. stop : batch[i].packetnum = p THEN frame ELSE frame_buffer[p])
               = IF \E i \in from + 1 .. end : stream[i].packetnum = p THEN frame ELSE 0
    <3> HIDE DEF end
    <3> QED
      BY <2>1, <2>2, <2>3
  <2> QED
    BY <2>4, <1>4
<1>18. FrameIn(stream, meta, data, from, end)
  <2> HIDE DEF end
  <2> QED
    BY <1>12, <1>13, <1>14, <1>16, <1>17 DEF FrameIn
\* It does not end before.
<1>19. ASSUME NEW e \in EndsIn(stream), from < e, e < end
       PROVE  FALSE
  <2>0. e \in Nat
    BY DEF EndsIn
  <2>1. e \in Nat /\ to <= e
    BY <2>0, <1>19 DEF OpenIn
  <2>2. e \in from + 1 .. end /\ e + 1 \in from + 1 .. end
    BY <1>19, <2>1, <1>15
  <2>3. stream[e].framenum = frame /\ stream[e + 1].framenum = frame
    BY <2>2, <1>13
  <2>4. stream[e].packetnum = NPackets - 1
    BY <2>3 DEF EndsIn
  <2>5. CASE e = to
    BY <2>4, <2>5, <1>19
  <2>6. CASE to < e
    <3>1. e \in to + 1 .. end
      BY <2>1, <2>2, <2>6
    <3>2. e - base \in start + 1 .. stop /\ e = base + (e - base)
      BY <3>1, <1>9
    <3>3. e - base \in start + 1 .. stop - 1
      BY <3>2, <1>19, <1>15, <2>1, <1>1, <1>2
    <3>4. batch[e - base] = stream[e]
      BY <3>2, <1>8
    <3> QED
      BY <3>3, <3>4, <2>4, <1>2
  <2> QED
    BY <2>1, <2>5, <2>6
<1>20. OpenIn(stream, meta, data, from, end)
  <2>1. \A e \in EndsIn(stream) : e \in Nat
    BY DEF EndsIn
  <2>2. \A e \in EndsIn(stream) : from < e => end <= e
    BY <2>1, <1>15, <1>19
  <2>3. from # end
    BY <1>12
  <2> HIDE DEF end
  <2> QED
    BY <1>18, <2>2, <2>3 DEF OpenIn
\* It ends there exactly if the pass says so.
<1>21. ASSUME done
       PROVE  end \in EndsIn(stream)
  <2>1. end \in 1 .. Len(stream)
    BY <1>12
  <2>2. CASE stop > start /\ batch[stop].packetnum = NPackets - 1
    <3>1. stream[end] = batch[stop]
      BY <2>2, <1>1, <1>2, <1>5, <1>15
    <3> QED
      BY <2>1, <2>2, <3>1 DEF EndsIn
  <2>3. CASE stop < Len(batch) /\ batch[stop + 1].framenum # frame
    <3>1. end < Len(stream) /\ end + 1 = base + (stop + 1) /\ stop + 1 \in start + 1 .. Len(batch)
      BY <2>3, <1>1, <1>2, <1>15
    <3>2. stream[end + 1] = batch[stop + 1]
      BY <3>1, <1>5
    <3> HIDE DEF end
    <3> QED
      BY <2>1, <2>3, <3>1, <3>2, <1>14 DEF EndsIn
  <2> QED
    BY <1>2, <1>21, <2>2, <2>3
<1>22. ASSUME ~done
       PROVE  end \notin EndsIn(stream)
  <2>1. stop = Len(batch) /\ batch[stop].packetnum # NPackets - 1
    BY <1>2, <1>22
  <2>2. end = Len(stream) /\ stream[end] = batch[stop]
    BY <2>1, <1>1, <1>5, <1>15
  <2> HIDE DEF end
  <2> QED
    BY <2>1, <2>2 DEF EndsIn
<1> QED
  BY <1>12, <1>20, <1>21, <1>22 DEF end, stop, done

-----------------------------------------------------------------------------
(* Types. *)

\* What the detector sends is a packet of one of its frames.
LEMMA PacketSent == ASSUME sent \in Nat, sent < NSent PROVE PacketAt(sent) \in Packet
<1> DEFINE q == sent \div NPackets
           r == sent % NPackets
           d == LastFrame - FirstFrame + 1
<1>1. sent = NPackets * q + r /\ q \in Nat /\ r \in 0 .. NPackets - 1
  OBVIOUS
<1>2. NSent = NPackets * d /\ d \in Nat
  BY DEF NSent
<1> HIDE DEF q, r, d
<1>3. q < d
  <2> SUFFICES ASSUME d <= q PROVE FALSE
    BY <1>1, <1>2
  <2>1. q = d + (q - d) /\ q - d \in Nat
    BY <1>1, <1>2
  <2>2. NPackets * q = NPackets * d + NPackets * (q - d)
    BY <2>1, <1>2
  <2>3. NPackets * (q - d) \in Nat /\ NPackets * d \in Nat
    BY <2>1, <1>2
  <2> QED
    BY <1>1, <1>2, <2>2, <2>3
<1>4. FirstFrame + q \in FrameNum
  BY <1>1, <1>3 DEF FrameNum, d
<1>5. r \in PacketNum
  BY <1>1 DEF PacketNum
<1> QED
  BY <1>4, <1>5 DEF PacketAt, Packet, q, r

\* A packet that arrives leaves packets in the socket.
LEMMA SocketType ==
    ASSUME socket \in Seq(Packet), NEW p \in Packet, Receive(p)
    PROVE  socket' \in Seq(Packet)
  BY DEF Receive

\* What the network moves are packets.
LEMMA NetworkTypes ==
    ASSUME sent \in Nat, held \subseteq Packet, socket \in Seq(Packet), Network
    PROVE  sent' \in Nat /\ held' \subseteq Packet /\ socket' \in Seq(Packet)
<1> USE DEF Send
<1>1. CASE Deliver
  BY <1>1, PacketSent, SocketType DEF Deliver
<1>2. CASE Lose
  BY <1>2 DEF Lose
<1>3. CASE Delay
  BY <1>3, PacketSent DEF Delay
<1>4. CASE Double
  BY <1>4, PacketSent, SocketType DEF Double
<1>5. CASE Arrive
  <2>1. PICK p \in held : Receive(p) /\ held' = held \ {p} /\ UNCHANGED sent
    BY <1>5 DEF Arrive
  <2> QED
    BY <2>1, SocketType
<1> QED
  BY <1>1, <1>2, <1>3, <1>4, <1>5 DEF Network

\* The types hold at first ...
LEMMA TypeInit == Init => TypeInv
<1> SUFFICES ASSUME Init PROVE TypeInv
  OBVIOUS
<1>1. NoPixels \in [PacketNum -> Nat] /\ NoFrame \in Meta /\ NoFrame.pulse_id = 0
  BY DEF NoPixels, NoFrame, Meta
<1>2. \A S : <<>> \in Seq(S)
  OBVIOUS
<1>3. sent \in Nat /\ held \subseteq Packet /\ socket \in Seq(Packet)
  BY <1>2 DEF Init, NetInit, FrameInit
<1>4. packet_buffer \in Seq(Packet) /\ packet_buffer_offset \in 0 .. Len(packet_buffer)
  BY <1>2 DEF Init
<1>5. /\ previous \in [pulse_id : Nat, frame_index : Nat]
      /\ metadata \in Meta /\ metadata.pulse_id = 0
  BY <1>1 DEF Init, FrameInit
<1> QED
  BY <1>1, <1>2, <1>3, <1>4, <1>5, Zenon DEF Init, FrameInit, TypeInv

\* ... and the network keeps them.
LEMMA TypeNetwork == ASSUME TypeInv, Network, UNCHANGED recvVars PROVE TypeInv'
<1>1. sent' \in Nat /\ held' \subseteq Packet /\ socket' \in Seq(Packet)
  BY NetworkTypes DEF TypeInv
<1> QED
  BY <1>1 DEF TypeInv, recvVars

\* What a pass leaves, given the packets of the batch.
LEMMA PassTypes ==
    ASSUME TypeInv, NEW batch \in Seq(Packet), NEW start \in 0 .. Len(batch) - 1,
           process_packets(batch, start)
    PROVE  /\ CurrentFrame(batch, start) \in FrameNum
           /\ PassMakes(batch, start, metadata', frame_buffer')
           /\ packet_buffer' = batch
           /\ packet_buffer_offset' \in 0 .. Len(batch)
           /\ packet_buffer_loaded' \in BOOLEAN
           /\ pc' = IF FrameFinished(batch, start) THEN "frame" ELSE "collect"
           /\ packet_buffer_loaded' <=>
                 FrameFinished(batch, start) /\ ProcessedUpTo(batch, start) < Len(batch)
           /\ packet_buffer_loaded' => packet_buffer_offset' = ProcessedUpTo(batch, start)
<1>1. ProcessedUpTo(batch, start) \in start .. Len(batch)
  BY PassStops
<1>2. ProcessedUpTo(batch, start) \in 0 .. Len(batch) /\ 0 \in 0 .. Len(batch)
  BY <1>1
<1>3. CurrentFrame(batch, start) \in FrameNum
  <2>1. batch[start + 1] \in Packet
    OBVIOUS
  <2> QED
    BY <2>1 DEF CurrentFrame, TypeInv, Packet
<1> QED
  BY <1>2, <1>3 DEF process_packets, ProcessPackets, PassMakes

\* The frame in progress after a pass is of the right types.
LEMMA PassMakesTypes ==
    ASSUME TypeInv, NEW batch \in Seq(Packet), NEW start \in 0 .. Len(batch) - 1,
           CurrentFrame(batch, start) \in FrameNum,
           NEW meta, NEW data, PassMakes(batch, start, meta, data)
    PROVE  /\ meta \in Meta /\ meta.frame_index \in FrameNum
           /\ data \in [PacketNum -> Nat]
<1> DEFINE stop  == ProcessedUpTo(batch, start)
           frame == CurrentFrame(batch, start)
<1>1. frame \in Nat /\ PulseOf[frame] \in Nat
  BY DEF FrameNum
<1>2. metadata.n_recv_packets + (stop - start) \in Nat
  <2>1. stop \in start .. Len(batch)
    BY PassStops
  <2>2. metadata.n_recv_packets \in Nat
    BY DEF TypeInv, Meta
  <2> QED
    BY <2>1, <2>2
<1>3. meta = [pulse_id |-> PulseOf[frame], frame_index |-> frame,
              n_recv_packets |-> metadata.n_recv_packets + (stop - start)]
  BY DEF PassMakes
<1>4. data = [p \in PacketNum |->
                IF \E i \in start + 1 .. stop : batch[i].packetnum = p THEN frame ELSE frame_buffer[p]]
  BY DEF PassMakes
<1>5. frame_buffer \in [PacketNum -> Nat]
  BY DEF TypeInv
<1> HIDE DEF stop, frame
<1>6. meta \in Meta /\ meta.frame_index = frame
  BY <1>1, <1>2, <1>3 DEF Meta
<1>7. data \in [PacketNum -> Nat]
  BY <1>1, <1>4, <1>5
<1> QED
  BY <1>6, <1>7 DEF frame

-----------------------------------------------------------------------------
(* The invariant holds at first, and every step keeps it. *)

\* Nothing is received yet: the cut is empty.
LEMMA CutInit == Init => BatchInv /\ CutInv
<1> SUFFICES ASSUME Init PROVE BatchInv /\ CutInv
  OBVIOUS
<1> USE DEF Init, FrameInit
<1>1. NProcessed = 0 /\ Len(received) = 0 /\ Len(frames) = 0
  BY DEF NProcessed, Leftover
<1>2. EndsIn(received) = {}
  BY <1>1 DEF EndsIn
<1> DEFINE cut == [k \in 0 .. 0 |-> 0]
<1>3. CutOf(received, frames, cut)
  BY <1>1, <1>2 DEF CutOf
<1>4. OpenIn(received, metadata, frame_buffer, cut[0], 0)
  BY <1>2 DEF OpenIn, NoFrame
<1>5. cut \in [0 .. Len(frames) -> 0 .. NProcessed] /\ cut[Len(frames)] = 0
  BY <1>1
<1>6. pc = "collect"
  OBVIOUS
<1> HIDE DEF cut
<1>7. CutInv
  BY <1>1, <1>3, <1>4, <1>5, <1>6 DEF CutInv
<1> QED
  BY <1>1, <1>7 DEF BatchInv

\* The network moves only what is not received yet.
LEMMA NetworkInv == ASSUME Inv, Network, UNCHANGED recvVars PROVE Inv'
<1>1. TypeInv'
  BY TypeNetwork DEF Inv
<1>2. BatchInv'
  BY DEF Inv, BatchInv, recvVars, NProcessed, Leftover
<1>3. NProcessed' = NProcessed
  BY DEF recvVars, NProcessed, Leftover
<1>4. CutInv'
  BY <1>3 DEF Inv, CutInv, recvVars
<1> QED
  BY <1>1, <1>2, <1>4 DEF Inv

\* A frame that has packets has a pulse id.
LEMMA OpenNamed ==
    ASSUME NEW stream \in Seq(Packet), NEW from \in Nat, NEW to \in 0 .. Len(stream), from <= to,
           NEW meta, NEW data, OpenIn(stream, meta, data, from, to), meta.pulse_id = 0
    PROVE  from = to
<1> SUFFICES ASSUME from # to PROVE FALSE
  OBVIOUS
<1>1. stream[to] \in Packet
  <2>1. to \in 1 .. Len(stream)
    OBVIOUS
  <2> QED
    BY <2>1
<1>2. FrameIn(stream, meta, data, from, to)
  BY DEF OpenIn
<1>3. meta.pulse_id = PulseOf[stream[to].framenum]
  BY <1>2 DEF FrameIn
<1> QED
  BY <1>1, <1>3 DEF Packet

\* A pass over the packets that come next in the stream.
LEMMA PassInv ==
    ASSUME TypeInv, pc = "collect",
           NEW stream \in Seq(Packet), received' = stream, frames' = frames, previous' = previous,
           sent' \in Nat, held' \subseteq Packet, socket' \in Seq(Packet),
           NEW batch \in Seq(Packet), NEW start \in 0 .. Len(batch) - 1,
           process_packets(batch, start),
           NEW to \in 0 .. Len(stream), EndOf(stream, to, batch, start),
           NEW cut \in [0 .. Len(frames) -> 0 .. to], CutOf(stream, frames, cut),
           OpenIn(stream, metadata, frame_buffer, cut[Len(frames)], to),
           cut[Len(frames)] < to => stream[to].packetnum # NPackets - 1
    PROVE  Inv'
<1> DEFINE stop == ProcessedUpTo(batch, start)
           done == FrameFinished(batch, start)
           from == cut[Len(frames)]
           end  == to + (stop - start)
<1>1. /\ CurrentFrame(batch, start) \in FrameNum
      /\ PassMakes(batch, start, metadata', frame_buffer')
      /\ packet_buffer' = batch
      /\ packet_buffer_offset' \in 0 .. Len(batch)
      /\ packet_buffer_loaded' \in BOOLEAN
      /\ pc' = IF done THEN "frame" ELSE "collect"
      /\ packet_buffer_loaded' <=> done /\ stop < Len(batch)
      /\ packet_buffer_loaded' => packet_buffer_offset' = stop
  BY PassTypes
<1>2. TypeInv'
  <2>1. /\ metadata' \in Meta /\ metadata'.frame_index \in FrameNum
        /\ frame_buffer' \in [PacketNum -> Nat]
    BY <1>1, PassMakesTypes
  <2> HIDE DEF stop, done
  <2> QED
    BY <1>1, <2>1 DEF TypeInv
<1>3. stop \in start .. Len(batch) /\ (~done => stop = Len(batch))
  BY PassStops
<1>4. /\ Len(stream) \in Nat /\ Len(batch) \in Nat /\ start \in Nat /\ to \in Nat /\ to <= Len(stream)
      /\ stop \in Nat /\ start <= stop /\ stop <= Len(batch)
  BY <1>3
<1>5. from \in Nat /\ from <= to
  <2>1. Len(frames) \in 0 .. Len(frames)
    BY DEF TypeInv
  <2>2. from \in 0 .. to
    BY <2>1
  <2> HIDE DEF from
  <2> QED
    BY <2>2
<1>6. /\ end \in from + 1 .. Len(stream)
      /\ OpenIn(stream, metadata', frame_buffer', from, end)
      /\ done <=> end \in EndsIn(stream)
  <2>1. metadata \in Meta /\ frame_buffer \in [PacketNum -> Nat]
    BY DEF TypeInv
  <2>2. /\ OpenIn(stream, metadata, frame_buffer, from, to)
        /\ from < to => stream[to].packetnum # NPackets - 1
    OBVIOUS
  <2> HIDE DEF from, stop, done
  <2>3. /\ to + (ProcessedUpTo(batch, start) - start) \in from + 1 .. Len(stream)
        /\ OpenIn(stream, metadata', frame_buffer', from, to + (ProcessedUpTo(batch, start) - start))
        /\ FrameFinished(batch, start) <=>
              to + (ProcessedUpTo(batch, start) - start) \in EndsIn(stream)
    BY <1>4, <1>1, <1>5, <2>1, <2>2, PassCuts
  <2> QED
    BY <2>3, Zenon DEF stop, done
<1>7. Len(stream) - to = Len(batch) - start
  BY DEF EndOf
<1>8. /\ Len(stream) - (Len(batch) - stop) = end
      /\ Len(stream) - end = Len(batch) - stop /\ end - stop = to - start
  <2> DEFINE l == Len(stream)
             b == Len(batch)
  <2>1. l \in Int /\ to \in Int /\ b \in Int /\ start \in Int /\ stop \in Int
    BY <1>4
  <2>2. l - to = b - start
    BY <1>7
  <2> HIDE DEF l, b, stop
  <2>3. l - (b - stop) = end /\ l - end = b - stop /\ end - stop = to - start
    BY <2>1, <2>2
  <2> QED
    BY <2>3 DEF l, b
<1>9. NProcessed' = end
  <2>1. Leftover' = IF packet_buffer_loaded' THEN Len(batch) - packet_buffer_offset' ELSE 0
    BY <1>1 DEF Leftover
  <2>2. NProcessed' = Len(stream) - Leftover'
    BY DEF NProcessed
  <2>3. CASE packet_buffer_loaded'
    <3>1. NProcessed' = Len(stream) - (Len(batch) - stop)
      BY <1>1, <2>1, <2>2, <2>3
    <3> QED
      BY <3>1, <1>8
  <2>4. CASE ~packet_buffer_loaded'
    <3>1. stop = Len(batch)
      <4> HIDE DEF stop, done
      <4> QED
        BY <1>1, <1>3, <2>4
    <3>2. NProcessed' = Len(stream)
      BY <2>1, <2>2, <2>4
    <3> QED
      BY <3>1, <3>2, <1>4, <1>8
  <2> QED
    BY <2>3, <2>4
<1> HIDE DEF stop, done
<1>10. BatchInv'
  <2>1. end \in 0 .. Len(stream)
    BY <1>5, <1>6
  <2>2. ASSUME packet_buffer_loaded'
        PROVE  /\ packet_buffer_offset' < Len(batch)
               /\ EndOf(stream, end, batch, packet_buffer_offset')
               /\ pc' # "collect"
    <3>1. packet_buffer_offset' = stop /\ stop < Len(batch) /\ pc' = "frame"
      BY <1>1, <2>2
    <3>2. Len(stream) - end = Len(batch) - stop /\ end - stop = to - start
      BY <1>8
    <3>3. \A i \in stop + 1 .. Len(batch) : i \in start + 1 .. Len(batch)
      BY <1>3
    <3>4. EndOf(stream, end, batch, stop)
      <4> HIDE DEF end
      <4> QED
        BY <3>2, <3>3 DEF EndOf
    <3> QED
      BY <3>1, <3>4
  <2> HIDE DEF end
  <2> QED
    BY <2>1, <2>2, <1>1, <1>9 DEF BatchInv
<1>11. CutInv'
  <2>1. cut \in [0 .. Len(frames) -> 0 .. end]
    <3>1. to <= end /\ end \in Nat
      BY <1>3
    <3> HIDE DEF end
    <3> QED
      BY <3>1
  <2>2. pc' = "frame" => from < end /\ end \in EndsIn(stream)
    BY <1>1, <1>5, <1>6
  <2>3. pc' = "collect" => end \notin EndsIn(stream)
    BY <1>1, <1>6
  <2> HIDE DEF end
  <2> QED
    BY <2>1, <2>2, <2>3, <1>6, <1>9 DEF CutInv, from
<1> QED
  BY <1>2, <1>10, <1>11 DEF Inv

\* A pass over what is left of a batch keeps the invariant.
LEMMA ContinueInv == ASSUME Inv, ContinueBatch PROVE Inv'
<1>1. TypeInv /\ BatchInv
  BY DEF Inv
<1>2. PICK cut \in [0 .. Len(frames) -> 0 .. NProcessed] :
         /\ CutOf(received, frames, cut)
         /\ OpenIn(received, metadata, frame_buffer, cut[Len(frames)], NProcessed)
  BY DEF Inv, CutInv
<1>3. /\ pc = "collect" /\ packet_buffer_loaded
      /\ process_packets(packet_buffer, packet_buffer_offset)
      /\ received' = received /\ frames' = frames /\ previous' = previous
      /\ sent' = sent /\ held' = held /\ socket' = socket
  BY DEF ContinueBatch, netVars
<1>4. /\ sent \in Nat /\ held \subseteq Packet /\ socket \in Seq(Packet)
      /\ received \in Seq(Packet) /\ packet_buffer \in Seq(Packet)
      /\ Len(frames) \in 0 .. Len(frames)
  BY <1>1 DEF TypeInv
<1>5. /\ NProcessed \in 0 .. Len(received)
      /\ packet_buffer_offset \in 0 .. Len(packet_buffer) - 1
      /\ EndOf(received, NProcessed, packet_buffer, packet_buffer_offset)
      /\ metadata.pulse_id = 0
  BY <1>1, <1>3 DEF BatchInv, TypeInv
<1>6. cut[Len(frames)] \in 0 .. NProcessed
  BY <1>2, <1>4
<1>7. ~(cut[Len(frames)] < NProcessed)
  <2> HIDE DEF NProcessed
  <2>1. cut[Len(frames)] \in Nat /\ cut[Len(frames)] <= NProcessed /\ NProcessed \in Nat
    BY <1>5, <1>6
  <2>2. cut[Len(frames)] = NProcessed
    BY <2>1, <1>2, <1>4, <1>5, OpenNamed
  <2> QED
    BY <2>1, <2>2
<1> QED
  BY <1>1, <1>2, <1>3, <1>4, <1>5, <1>7, PassInv

\* So does one over a new batch, which makes the stream longer.
LEMMA ReceiveInv == ASSUME Inv, ReceiveBatch PROVE Inv'
<1>1. TypeInv /\ BatchInv
  BY DEF Inv
<1>2. PICK cut \in [0 .. Len(frames) -> 0 .. NProcessed] :
         /\ CutOf(received, frames, cut)
         /\ OpenIn(received, metadata, frame_buffer, cut[Len(frames)], NProcessed)
         /\ pc = "collect" /\ cut[Len(frames)] < NProcessed => NProcessed \notin EndsIn(received)
  BY DEF Inv, CutInv
<1>3. PICK n \in 1 .. BatchSize :
         /\ n <= Len(socket)
         /\ process_packets(SubSeq(socket, 1, n), 0)
         /\ received' = received \o SubSeq(socket, 1, n)
         /\ socket' = SubSeq(socket, n + 1, Len(socket))
  BY DEF ReceiveBatch
<1>4. /\ sent \in Nat /\ held \subseteq Packet /\ socket \in Seq(Packet)
      /\ received \in Seq(Packet) /\ Len(frames) \in 0 .. Len(frames)
  BY <1>1 DEF TypeInv
<1>5. /\ pc = "collect" /\ ~packet_buffer_loaded
      /\ sent' = sent /\ held' = held /\ frames' = frames /\ previous' = previous
  BY DEF ReceiveBatch
<1> DEFINE batch  == SubSeq(socket, 1, n)
           stream == received \o batch
           to == Len(received)
<1>6. batch \in Seq(Packet) /\ Len(batch) = n /\ n \in Nat \ {0} /\ 0 \in 0 .. Len(batch) - 1
  BY <1>3, <1>4
<1>7. socket' \in Seq(Packet)
  BY <1>3, <1>4
<1>8. NProcessed = to
  BY <1>4, <1>5 DEF NProcessed, Leftover
<1>9. process_packets(batch, 0) /\ received' = stream
  BY <1>3
<1> HIDE DEF batch
<1>10. /\ stream \in Seq(Packet) /\ Len(stream) = to + Len(batch) /\ to \in Nat /\ Len(batch) \in Nat
       /\ \A i \in 1 .. to : stream[i] = received[i]
       /\ \A i \in 1 .. Len(batch) : stream[to + i] = batch[i]
  <2>1. to \in Nat /\ Len(batch) \in Nat
    BY <1>4, <1>6
  <2>2. /\ received \o batch \in Seq(Packet)
        /\ Len(received \o batch) = Len(received) + Len(batch)
        /\ \A i \in 1 .. Len(received) : (received \o batch)[i] = received[i]
        /\ \A i \in 1 .. Len(batch) : (received \o batch)[Len(received) + i] = batch[i]
    BY <1>4, <1>6, LongerStream
  <2> QED
    BY <2>1, <2>2, Zenon
<1>11. CutOf(stream, frames, cut)
  BY <1>1, <1>2, <1>4, <1>6, LongerCut DEF TypeInv
<1>12. cut[Len(frames)] \in 0 .. to
  BY <1>2, <1>4, <1>8
<1>13. OpenIn(stream, metadata, frame_buffer, cut[Len(frames)], to)
  BY <1>2, <1>4, <1>6, <1>8, <1>10, <1>12, LongerOpen
<1>14. cut[Len(frames)] < to => stream[to].packetnum # NPackets - 1
  <2> SUFFICES ASSUME cut[Len(frames)] < to PROVE stream[to].packetnum # NPackets - 1
    OBVIOUS
  <2>1. to \in 1 .. to
    BY <1>10, <1>12
  <2>2. to \notin EndsIn(received)
    BY <1>2, <1>5, <1>8
  <2>3. received[to].packetnum # NPackets - 1
    BY <2>1, <2>2 DEF EndsIn
  <2> QED
    BY <2>1, <2>3, <1>10
<1>15. to \in 0 .. Len(stream) /\ cut \in [0 .. Len(frames) -> 0 .. to]
  BY <1>2, <1>8, <1>10
<1> HIDE DEF stream, to
<1>16. EndOf(stream, to, batch, 0)
  <2>1. Len(stream) - to = Len(batch) - 0
    BY <1>10
  <2>2. \A i \in 0 + 1 .. Len(batch) : batch[i] = stream[(to - 0) + i]
    BY <1>10
  <2> QED
    BY <2>1, <2>2 DEF EndOf
<1> QED
  BY <1>1, <1>4, <1>5, <1>6, <1>7, <1>9, <1>10, <1>11, <1>13, <1>14, <1>15, <1>16, PassInv

\* A frame is returned: the cut has one end more, and nothing is open behind it.
LEMMA HandleInv == ASSUME Inv, HandleFrame PROVE Inv'
<1> DEFINE n == Len(frames)
           frame == [meta |-> metadata, data |-> frame_buffer, bad |-> BadPulseId]
           fs == Append(frames, frame)
           to == NProcessed
<1>1. TypeInv /\ BatchInv /\ pc = "frame"
  BY DEF Inv, HandleFrame, TakeFrame
<1>2. PICK cut \in [0 .. n -> 0 .. to] :
         /\ CutOf(received, frames, cut)
         /\ OpenIn(received, metadata, frame_buffer, cut[n], to)
         /\ cut[n] < to /\ to \in EndsIn(received)
  BY <1>1 DEF Inv, CutInv
<1>3. /\ frames' = fs
      /\ previous' = [pulse_id |-> metadata.pulse_id, frame_index |-> metadata.frame_index]
      /\ pc' = "collect"
      /\ metadata' = [metadata EXCEPT !.pulse_id = 0, !.n_recv_packets = 0]
      /\ frame_buffer' = NoPixels
      /\ received' = received
      /\ packet_buffer' = packet_buffer /\ packet_buffer_offset' = packet_buffer_offset
      /\ packet_buffer_loaded' = packet_buffer_loaded
      /\ sent' = sent /\ held' = held /\ socket' = socket
  BY DEF HandleFrame, TakeFrame, netVars
<1>4. NProcessed' = to
  BY <1>3 DEF NProcessed, Leftover
<1>5. frame \in [meta : Meta, data : [PacketNum -> Nat], bad : BOOLEAN]
  <2>1. BadPulseId \in BOOLEAN
    BY DEF BadPulseId
  <2> QED
    BY <1>1, <2>1 DEF TypeInv
<1>6. /\ n \in Nat /\ fs \in Seq([meta : Meta, data : [PacketNum -> Nat], bad : BOOLEAN])
      /\ Len(fs) = n + 1 /\ fs[n + 1] = frame
      /\ \A k \in 1 .. n : fs[k] = frames[k]
  BY <1>1, <1>5 DEF TypeInv
<1>7. TypeInv'
  <2>1. /\ metadata' \in Meta /\ metadata'.pulse_id = 0 /\ metadata'.n_recv_packets = 0
        /\ previous' \in [pulse_id : Nat, frame_index : Nat]
    BY <1>1, <1>3 DEF TypeInv, Meta
  <2>2. frame_buffer' \in [PacketNum -> Nat]
    BY <1>3 DEF NoPixels
  <2> HIDE DEF fs
  <2> QED
    BY <1>1, <1>3, <1>6, <2>1, <2>2 DEF TypeInv
<1>8. BatchInv'
  <2>1. metadata'.pulse_id = 0
    BY <1>1, <1>3 DEF TypeInv, Meta
  <2> HIDE DEF to
  <2> QED
    BY <1>1, <1>3, <1>4, <2>1 DEF BatchInv, to
<1> DEFINE next == [k \in 0 .. n + 1 |-> IF k = n + 1 THEN to ELSE cut[k]]
<1>9. to \in Nat /\ to <= Len(received) /\ Len(received) \in Nat
  BY <1>1 DEF BatchInv, TypeInv
<1> HIDE DEF fs, frame, to
<1>10. /\ next \in [0 .. n + 1 -> 0 .. to] /\ next[n + 1] = to
       /\ \A k \in 0 .. n : next[k] = cut[k] /\ cut[k] \in 0 .. to
  <2>1. n + 1 \in 0 .. n + 1 /\ \A k \in 0 .. n : k \in 0 .. n + 1 /\ k # n + 1
    BY <1>6
  <2>2. \A k \in 0 .. n : cut[k] \in 0 .. to
    BY <1>2
  <2>3. to \in 0 .. to
    BY <1>9
  <2>4. \A k \in 0 .. n + 1 : k # n + 1 => k \in 0 .. n
    BY <1>6
  <2> HIDE DEF n
  <2> QED
    BY <2>1, <2>2, <2>3, <2>4
<1> HIDE DEF next, n
<1>11. CutOf(received, fs, next)
  <2>0. /\ cut[0] = 0
        /\ \A j, k \in 0 .. n : j < k => cut[j] < cut[k]
        /\ \A k \in 1 .. n : /\ cut[k] \in EndsIn(received)
                             /\ FrameIn(received, frames[k].meta, frames[k].data, cut[k - 1], cut[k])
        /\ \A e \in EndsIn(received) : e <= cut[n] => \E k \in 1 .. n : cut[k] = e
    BY <1>2 DEF CutOf, n
  <2>1. next \in [0 .. Len(fs) -> 0 .. Len(received)] /\ next[0] = 0
    <3>1. 0 .. to \subseteq 0 .. Len(received) /\ 0 \in 0 .. n
      BY <1>6, <1>9
    <3> QED
      BY <1>6, <1>10, <2>0, <3>1
  <2>2. ASSUME NEW j \in 0 .. n + 1, NEW k \in 0 .. n + 1, j < k
        PROVE  next[j] < next[k]
    <3>1. j \in 0 .. n /\ n \in 0 .. n
      BY <1>6, <2>2
    <3>2. CASE k = n + 1
      <4>1. cut[j] <= cut[n]
        <5>1. j = n \/ j < n
          BY <3>1, <1>6
        <5>2. cut[j] \in Nat /\ cut[n] \in Nat
          BY <1>10, <3>1
        <5> QED
          BY <5>1, <5>2, <3>1, <2>0
      <4>2. next[j] = cut[j] /\ next[k] = to /\ cut[j] \in Nat /\ cut[n] \in Nat
        BY <3>1, <3>2, <1>10
      <4> QED
        BY <4>1, <4>2, <1>2, <1>9
    <3>3. CASE k # n + 1
      <4>1. k \in 0 .. n
        BY <3>3, <1>6
      <4> QED
        BY <4>1, <3>1, <2>0, <2>2, <1>10
    <3> QED
      BY <3>2, <3>3
  <2>3. ASSUME NEW k \in 1 .. n + 1
        PROVE  /\ next[k] \in EndsIn(received)
               /\ FrameIn(received, fs[k].meta, fs[k].data, next[k - 1], next[k])
    <3>1. CASE k = n + 1
      <4>1. n \in 0 .. n /\ k - 1 = n
        <5>1. n \in Nat
          BY <1>6
        <5> QED
          BY <5>1, <3>1
      <4>2. next[k] = to /\ next[k - 1] = cut[n]
        BY <3>1, <4>1, <1>10
      <4>3. fs[k].meta = metadata /\ fs[k].data = frame_buffer
        BY <3>1, <1>6 DEF frame
      <4>4. FrameIn(received, metadata, frame_buffer, cut[n], to)
        <5>1. cut[n] # to
          BY <1>2, <1>9
        <5> QED
          BY <5>1, <1>2 DEF OpenIn
      <4> QED
        BY <4>2, <4>3, <4>4, <1>2
    <3>2. CASE k # n + 1
      <4>1. k \in 1 .. n /\ k \in 0 .. n /\ k - 1 \in 0 .. n
        BY <3>2, <1>6
      <4> QED
        BY <4>1, <2>0, <1>6, <1>10
    <3> QED
      BY <3>1, <3>2
  <2>4. ASSUME NEW e \in EndsIn(received), e <= to
        PROVE  \E k \in 1 .. n + 1 : next[k] = e
    <3>0. e \in Nat /\ n \in 0 .. n
      BY <1>6 DEF EndsIn
    <3>1. CASE e <= cut[n]
      <4>1. PICK k \in 1 .. n : cut[k] = e
        BY <3>1, <2>0
      <4>2. k \in 0 .. n /\ k \in 1 .. n + 1
        BY <1>6
      <4> QED
        BY <4>1, <4>2, <1>10
    <3>2. CASE ~(e <= cut[n])
      <4>1. cut[n] < e
        BY <3>0, <3>2, <1>10
      <4>2. to <= e
        BY <4>1, <1>2 DEF OpenIn
      <4>3. e = to
        BY <4>2, <2>4, <3>0, <1>9
      <4>4. n + 1 \in 1 .. n + 1
        BY <1>6
      <4> QED
        BY <4>3, <4>4, <1>10
    <3> QED
      BY <3>1, <3>2
  <2> QED
    BY <2>1, <2>2, <2>3, <2>4, <1>6, <1>10 DEF CutOf
<1>12. OpenIn(received, metadata', frame_buffer', to, to)
  <2>1. metadata'.pulse_id = 0 /\ metadata'.n_recv_packets = 0
    BY <1>1, <1>3 DEF TypeInv, Meta
  <2>2. \A e \in EndsIn(received) : to < e => to <= e
    BY <1>9 DEF EndsIn
  <2> QED
    BY <2>1, <2>2, <1>3 DEF OpenIn
<1>13. CutInv'
  <2>1. next[Len(fs)] = to /\ next \in [0 .. Len(fs) -> 0 .. to]
    BY <1>6, <1>10
  <2>2. ~(to < to)
    BY <1>9
  <2> QED
    BY <2>1, <2>2, <1>3, <1>4, <1>11, <1>12 DEF CutInv
<1> QED
  BY <1>7, <1>8, <1>13 DEF Inv

\* All of the invariant holds at first ...
LEMMA InvInit == Init => Inv
  BY TypeInit, CutInit DEF Inv

\* ... and after every step.
LEMMA InvStep == Inv /\ [Next]_vars => Inv'
<1> SUFFICES ASSUME Inv, [Next]_vars PROVE Inv'
  OBVIOUS
<1>1. CASE Network /\ UNCHANGED recvVars
  BY <1>1, NetworkInv
<1>2. CASE ContinueBatch
  BY <1>2, ContinueInv
<1>3. CASE ReceiveBatch
  BY <1>3, ReceiveInv
<1>4. CASE HandleFrame
  BY <1>4, HandleInv
<1>5. CASE UNCHANGED vars
  <2>1. NProcessed' = NProcessed
    BY <1>5 DEF vars, recvVars, NProcessed, Leftover
  <2> QED
    BY <1>5, <2>1 DEF vars, netVars, recvVars, Inv, TypeInv, BatchInv, CutInv
<1> QED
  BY <1>1, <1>2, <1>3, <1>4, <1>5 DEF Next, Receiver

\* The receiver's types, the place of what is left of a batch, and the cut.
THEOREM Invariant == Spec => []Inv
<1> QED
  BY InvInit, InvStep, PTL DEF Spec

-----------------------------------------------------------------------------
(* Frames are those of the stream. *)

\* Counting the values of an increasing function.
LEMMA Counting ==
    ASSUME NEW m \in Nat, NEW cut \in [0 .. m -> Nat],
           \A j, k \in 0 .. m : j < k => cut[j] < cut[k], NEW n \in 0 .. m
    PROVE  Cardinality({cut[k] : k \in 1 .. n}) = n
<1> DEFINE S == {cut[k] : k \in 1 .. n}
           f == [k \in 1 .. n |-> cut[k]]
<1>1. 1 .. n \subseteq 0 .. m /\ n \in Nat
  OBVIOUS
<1>2. \A j, k \in 1 .. n : cut[j] = cut[k] => j = k
  <2>1. ASSUME NEW j \in 1 .. n, NEW k \in 1 .. n, cut[j] = cut[k], j # k
        PROVE  FALSE
    <3>1. j \in 0 .. m /\ k \in 0 .. m /\ (j < k \/ k < j)
      BY <1>1, <2>1
    <3>2. cut[j] \in Nat /\ cut[k] \in Nat
      BY <3>1
    <3>3. cut[j] < cut[k] \/ cut[k] < cut[j]
      BY <3>1
    <3> QED
      BY <3>2, <3>3, <2>1
  <2> QED
    BY <2>1
<1>3. f \in Injection(1 .. n, S)
  BY <1>2 DEF Injection, IsInjective
<1>4. f \in Surjection(1 .. n, S)
  BY DEF Surjection
<1>5. ExistsBijection(1 .. n, S)
  BY <1>3, <1>4 DEF ExistsBijection, Bijection
<1>6. IsFiniteSet(1 .. n) /\ Cardinality(1 .. n) = n
  <2>1. IsFiniteSet(1 .. n) /\ Cardinality(1 .. n) = IF 1 > n THEN 0 ELSE n - 1 + 1
    <3>1. 1 \in Int /\ n \in Int
      BY <1>1
    <3> QED
      BY <3>1, FS_Interval, Zenon
  <2> QED
    BY <1>1, <2>1
<1> HIDE DEF S
<1>7. Cardinality(S) = n
  BY <1>5, <1>6, FS_Bijection
<1> QED
  BY <1>7 DEF S

\* A frame made of packets of one number looks as promised.
LEMMA FrameLooks ==
    ASSUME NEW meta, NEW data, NEW from, NEW to, FrameIn(received, meta, data, from, to)
    PROVE  IsFrameOf(meta, data, from, to)
  BY DEF FrameIn, IsFrameOf

\* What an increasing sequence of all ends says of the ends before one of them.
LEMMA EndsCounted ==
    ASSUME TypeInv, BatchInv, NEW m \in Nat, NEW cut \in [0 .. m -> 0 .. NProcessed], cut[0] = 0,
           \A j, k \in 0 .. m : j < k => cut[j] < cut[k],
           PastEnds = {cut[k] : k \in 1 .. m}
    PROVE  /\ Cardinality(PastEnds) = m
           /\ \A k \in 1 .. m : /\ Cardinality({d \in PastEnds : d <= cut[k]}) = k
                                /\ Before(cut[k]) = cut[k - 1]
           /\ Before(NProcessed + 1) = cut[m]
<1>1. NProcessed \in Nat
  BY DEF BatchInv, TypeInv
<1>2. \A k \in 0 .. m : cut[k] \in Nat /\ cut[k] <= NProcessed
  BY <1>1
<1>3. cut \in [0 .. m -> Nat]
  BY <1>1
<1>4. Cardinality(PastEnds) = m
  BY <1>3, Counting, m \in 0 .. m
<1>5. ASSUME NEW k \in 1 .. m
      PROVE  Cardinality({d \in PastEnds : d <= cut[k]}) = k
  <2>1. k \in 0 .. m
    OBVIOUS
  <2>2. \A j \in 1 .. m : cut[j] <= cut[k] <=> j \in 1 .. k
    <3>1. ASSUME NEW j \in 1 .. m
          PROVE  cut[j] <= cut[k] <=> j <= k
      <4>1. j \in 0 .. m /\ cut[j] \in Nat /\ cut[k] \in Nat
        BY <1>2, <2>1
      <4>2. CASE j < k
        BY <4>1, <4>2, <2>1
      <4>3. CASE j = k
        BY <4>1, <4>3
      <4>4. CASE k < j
        <5>1. cut[k] < cut[j]
          BY <4>1, <4>4, <2>1
        <5> QED
          BY <5>1, <4>1, <4>4
      <4> QED
        BY <4>2, <4>3, <4>4
    <3> QED
      BY <3>1
  <2>3. {d \in PastEnds : d <= cut[k]} = {cut[j] : j \in 1 .. k}
    <3>1. 1 .. k \subseteq 1 .. m
      OBVIOUS
    <3> QED
      BY <2>2, <3>1
  <2>4. Cardinality({cut[j] : j \in 1 .. k}) = k
    BY <2>1, <1>3, Counting
  <2> QED
    BY <2>3, <2>4, Zenon
\* The ends before i, when cut[k] is the last of them.
<1>6. ASSUME NEW i \in Nat, i <= NProcessed + 1, NEW k \in 0 .. m, cut[k] < i,
             \A j \in 0 .. m : k < j => i <= cut[j]
      PROVE  Before(i) = cut[k]
  <2> DEFINE S == {0} \union {e \in Ends : e < i}
  <2>1. S \in SUBSET Nat
    BY DEF Ends
  <2>2. cut[k] \in S
    <3>1. CASE k = 0
      BY <3>1
    <3>2. CASE k # 0
      <4>1. cut[k] \in PastEnds
        BY <3>2
      <4> QED
        BY <4>1, <1>6 DEF PastEnds
    <3> QED
      BY <3>1, <3>2
  <2>3. ASSUME NEW e \in S
        PROVE  e <= cut[k]
    <3>1. CASE e = 0
      BY <3>1, <1>2
    <3>2. CASE e # 0
      <4>1. e \in PastEnds /\ e < i
        BY <3>2, <2>1, <1>1, <1>6 DEF PastEnds
      <4>2. PICK j \in 1 .. m : e = cut[j]
        BY <4>1
      <4>3. j \in 0 .. m /\ cut[j] \in Nat /\ cut[k] \in Nat
        BY <1>2
      <4>4. ~(k < j)
        BY <4>1, <4>2, <4>3, <1>6
      <4> QED
        BY <4>2, <4>3, <4>4
    <3> QED
      BY <3>1, <3>2
  <2> HIDE DEF S
  <2>4. Max(S) = cut[k]
    BY <2>1, <2>2, <2>3, MaxIsGreatest
  <2> QED
    BY <2>4 DEF S, Before
<1>7. ASSUME NEW k \in 1 .. m
      PROVE  Before(cut[k]) = cut[k - 1]
  <2>1. k \in 0 .. m /\ k - 1 \in 0 .. m /\ k - 1 < k
    OBVIOUS
  <2>2. cut[k - 1] < cut[k] /\ cut[k] \in Nat /\ cut[k] <= NProcessed + 1
    BY <2>1, <1>1, <1>2
  <2>3. ASSUME NEW j \in 0 .. m, k - 1 < j
        PROVE  cut[k] <= cut[j]
    <3>1. j = k \/ k < j
      BY <2>3
    <3>2. cut[j] \in Nat /\ cut[k] \in Nat
      BY <1>2, <2>1
    <3>3. CASE j = k
      BY <3>2, <3>3
    <3>4. CASE k < j
      <4>1. cut[k] < cut[j]
        BY <3>4, <2>1
      <4> QED
        BY <4>1, <3>2
    <3> QED
      BY <3>1, <3>3, <3>4
  <2> QED
    BY <2>1, <2>2, <2>3, <1>6
<1>8. Before(NProcessed + 1) = cut[m]
  <2>1. m \in 0 .. m /\ cut[m] < NProcessed + 1 /\ NProcessed + 1 \in Nat
    BY <1>1, <1>2
  <2>2. \A j \in 0 .. m : ~(m < j)
    OBVIOUS
  <2> QED
    BY <2>1, <2>2, <1>1, <1>6
<1> QED
  BY <1>4, <1>5, <1>7, <1>8

\* The cut is the one the ends of the stream define.
LEMMA CutMatches == Inv => FramesMatchStream
<1> SUFFICES ASSUME Inv PROVE FramesMatchStream
  OBVIOUS
<1> DEFINE n == Len(frames)
           to == NProcessed
           m == n + (IF pc = "frame" THEN 1 ELSE 0)
<1>1. TypeInv /\ BatchInv
  BY DEF Inv
<1>2. PICK cut \in [0 .. n -> 0 .. to] :
         /\ CutOf(received, frames, cut)
         /\ OpenIn(received, metadata, frame_buffer, cut[n], to)
         /\ pc = "frame" => cut[n] < to /\ to \in EndsIn(received)
         /\ pc = "collect" /\ cut[n] < to => to \notin EndsIn(received)
  BY DEF Inv, CutInv
<1>3. /\ n \in Nat /\ to \in Nat /\ to <= Len(received) /\ pc \in {"collect", "frame"}
      /\ received \in Seq(Packet)
  BY <1>1 DEF TypeInv, BatchInv
<1>4. Ends = EndsIn(received)
  BY DEF Ends, EndsIn
<1>5. /\ cut[0] = 0
      /\ \A j, k \in 0 .. n : j < k => cut[j] < cut[k]
      /\ \A k \in 1 .. n : /\ cut[k] \in Ends
                           /\ FrameIn(received, frames[k].meta, frames[k].data, cut[k - 1], cut[k])
      /\ \A e \in Ends : e <= cut[n] => \E k \in 1 .. n : cut[k] = e
  BY <1>2, <1>4 DEF CutOf
<1> HIDE DEF n, to
<1>6. m \in Nat /\ n <= m /\ (pc = "frame" => m = n + 1) /\ (pc = "collect" => m = n)
  BY <1>3
<1> HIDE DEF m
<1>7. \A k \in 0 .. n : cut[k] \in Nat /\ cut[k] <= to
  BY <1>2, <1>3
\* The frame that is being returned ends at the last of the ends.
<1> DEFINE all == [k \in 0 .. m |-> IF k = n + 1 THEN to ELSE cut[k]]
<1>8. /\ \A k \in 0 .. n : k \in 0 .. m /\ all[k] = cut[k]
      /\ \A k \in 0 .. m : k \in 0 .. n \/ (k = n + 1 /\ pc = "frame" /\ all[k] = to)
      /\ all \in [0 .. m -> 0 .. to]
  <2>1. \A k \in 0 .. n : k \in 0 .. m /\ k # n + 1
    BY <1>3, <1>6
  <2>2. \A k \in 0 .. m : k \in 0 .. n \/ (k = n + 1 /\ pc = "frame")
    BY <1>3, <1>6
  <2>3. to \in 0 .. to /\ \A k \in 0 .. n : cut[k] \in 0 .. to
    BY <1>3, <1>7
  <2> QED
    BY <2>1, <2>2, <2>3
<1> HIDE DEF all
<1>9. all[0] = 0
  BY <1>3, <1>5, <1>8
<1>10. \A j, k \in 0 .. m : j < k => all[j] < all[k]
  <2>1. ASSUME NEW j \in 0 .. m, NEW k \in 0 .. m, j < k
        PROVE  all[j] < all[k]
    <3>1. CASE k \in 0 .. n
      <4>1. j \in 0 .. n
        BY <2>1, <3>1, <1>3, <1>6
      <4> QED
        BY <2>1, <3>1, <4>1, <1>5, <1>8
    <3>2. CASE k = n + 1 /\ pc = "frame" /\ all[k] = to
      <4>1. j \in 0 .. n /\ n \in 0 .. n
        BY <2>1, <3>2, <1>3
      <4>2. cut[j] <= cut[n]
        <5>1. j = n \/ j < n
          BY <4>1, <1>3
        <5> QED
          BY <5>1, <4>1, <1>5, <1>7
      <4> QED
        BY <4>1, <4>2, <3>2, <1>2, <1>3, <1>7, <1>8
    <3> QED
      BY <3>1, <3>2, <1>8
  <2> QED
    BY <2>1
<1>11. PastEnds = {all[k] : k \in 1 .. m}
  <2>1. ASSUME NEW e \in PastEnds
        PROVE  \E k \in 1 .. m : e = all[k]
    <3>1. e \in Ends /\ e <= to /\ e \in Nat
      BY DEF PastEnds, Ends, to
    <3>2. CASE e <= cut[n]
      <4>1. PICK k \in 1 .. n : cut[k] = e
        BY <3>1, <3>2, <1>5
      <4>2. k \in 0 .. n /\ k \in 1 .. m
        BY <1>3, <1>6
      <4> QED
        BY <4>1, <4>2, <1>8
    <3>3. CASE ~(e <= cut[n])
      <4>1. cut[n] \in Nat /\ cut[n] < e
        BY <3>1, <3>3, <1>3, <1>7
      <4>2. e = to
        BY <3>1, <4>1, <1>2, <1>3, <1>4 DEF OpenIn
      <4>3. pc = "frame"
        BY <3>1, <4>1, <4>2, <1>2, <1>3, <1>4
      <4>4. n + 1 \in 1 .. m /\ n + 1 \in 0 .. m /\ n + 1 \notin 0 .. n
        BY <4>3, <1>3, <1>6
      <4>5. all[n + 1] = to
        BY <4>4, <1>8
      <4> QED
        BY <4>2, <4>4, <4>5
    <3> QED
      BY <3>2, <3>3
  <2>2. ASSUME NEW k \in 1 .. m
        PROVE  all[k] \in PastEnds
    <3>1. all[k] \in Ends
      <4>1. CASE k \in 0 .. n
        <5>1. k \in 1 .. n
          BY <4>1
        <5> QED
          BY <5>1, <4>1, <1>5, <1>8
      <4>2. CASE k = n + 1 /\ pc = "frame" /\ all[k] = to
        BY <4>2, <1>2, <1>4
      <4> QED
        BY <4>1, <4>2, <1>8, k \in 0 .. m
    <3>2. all[k] <= to
      BY <1>3, <1>8, k \in 0 .. m
    <3> QED
      BY <3>1, <3>2 DEF PastEnds, to
  <2> QED
    BY <2>1, <2>2
<1>12. /\ Cardinality(PastEnds) = m
       /\ \A k \in 1 .. m : /\ Cardinality({d \in PastEnds : d <= all[k]}) = k
                            /\ Before(all[k]) = all[k - 1]
       /\ Before(NProcessed + 1) = all[m]
  BY <1>1, <1>6, <1>8, <1>9, <1>10, <1>11, EndsCounted DEF to
<1>13. ASSUME NEW e \in PastEnds
       PROVE  LET k == Cardinality({d \in PastEnds : d <= e}) IN
              \/ k <= n /\ IsFrameOf(frames[k].meta, frames[k].data, Before(e), e)
              \/ /\ k = n + 1 /\ e = to /\ pc = "frame"
                 /\ IsFrameOf(metadata, frame_buffer, Before(e), e)
  <2>1. PICK k \in 1 .. m : e = all[k]
    BY <1>11
  <2>2. k \in 0 .. m /\ Cardinality({d \in PastEnds : d <= e}) = k /\ Before(e) = all[k - 1]
    BY <2>1, <1>12
  <2>3. CASE k \in 0 .. n
    <3>1. k \in 1 .. n /\ k - 1 \in 0 .. n /\ k <= n
      BY <2>3, <1>3, <1>6
    <3>2. e = cut[k] /\ Before(e) = cut[k - 1]
      BY <2>1, <2>2, <2>3, <3>1, <1>8
    <3>3. FrameIn(received, frames[k].meta, frames[k].data, Before(e), e)
      BY <3>1, <3>2, <1>5
    <3>4. IsFrameOf(frames[k].meta, frames[k].data, Before(e), e)
      BY <3>3, FrameLooks
    <3> QED
      BY <2>2, <3>1, <3>4
  <2>4. CASE k = n + 1 /\ pc = "frame" /\ all[k] = to
    <3>1. e = to /\ Before(e) = cut[n]
      <4>1. k - 1 = n /\ n \in 0 .. n
        BY <2>4, <1>3
      <4> QED
        BY <4>1, <2>1, <2>2, <2>4, <1>8
    <3>2. FrameIn(received, metadata, frame_buffer, cut[n], to)
      <4>1. cut[n] # to
        BY <2>4, <1>2, <1>3
      <4> QED
        BY <4>1, <1>2 DEF OpenIn
    <3>3. IsFrameOf(metadata, frame_buffer, Before(e), e)
      BY <3>1, <3>2, FrameLooks
    <3> QED
      BY <2>2, <2>4, <3>1, <3>3
  <2> QED
    BY <2>2, <2>3, <2>4, <1>8
<1>14. ASSUME pc = "collect"
       PROVE  LET begin == Before(NProcessed + 1) IN
              IF begin = NProcessed
              THEN metadata.pulse_id = 0 /\ metadata.n_recv_packets = 0 /\ frame_buffer = NoPixels
              ELSE IsFrameOf(metadata, frame_buffer, begin, NProcessed)
  <2>1. Before(NProcessed + 1) = cut[n]
    <3>1. m = n /\ n \in 0 .. n
      BY <1>3, <1>6, <1>14
    <3> QED
      BY <3>1, <1>8, <1>12
  <2>2. CASE cut[n] = to
    BY <2>1, <2>2, <1>2 DEF OpenIn, to
  <2>3. CASE cut[n] # to
    <3>1. FrameIn(received, metadata, frame_buffer, cut[n], to)
      BY <2>3, <1>2 DEF OpenIn
    <3> QED
      BY <2>1, <2>3, <3>1, FrameLooks DEF to
  <2> QED
    BY <2>2, <2>3
<1>15. Cardinality(PastEnds) = Len(frames) + (IF pc = "frame" THEN 1 ELSE 0)
  BY <1>12 DEF m, n
<1> QED
  BY <1>13, <1>14, <1>15 DEF FramesMatchStream, n, to

\* The frames the receiver returns, and the one it fills, are those of the packet stream,
\* whatever the batches and the network.
THEOREM StreamCut == Spec => []FramesMatchStream
<1> QED
  BY Invariant, CutMatches, PTL

-----------------------------------------------------------------------------
(* Verdicts. *)

\* The unsigned difference of two pulse ids in order is their difference.
LEMMA UnsignedStep ==
    ASSUME NEW a \in Nat, NEW b \in Nat, b <= a, a < PulseModulus
    PROVE  (a + PulseModulus - b) % PulseModulus = a - b
<1> DEFINE n == PulseModulus
           x == a - b
           q == (a + n - b) \div n
           r == (a + n - b) % n
<1>1. n \in Nat \ {0} /\ x \in 0 .. n - 1 /\ a + n - b = x + n
  OBVIOUS
<1>2. x + n = n * q + r /\ q \in Nat /\ r \in 0 .. n - 1
  BY <1>1
<1> HIDE DEF x, q, r
<1>3. q # 0
  <2>1. q = 0 => n * q = 0
    BY <1>1
  <2> QED
    BY <2>1, <1>1, <1>2
<1>4. q < 2
  <2> SUFFICES ASSUME 2 <= q PROVE FALSE
    BY <1>2
  <2>1. q = 2 + (q - 2) /\ q - 2 \in Nat
    BY <1>2
  <2>2. n * q = n + n + n * (q - 2)
    BY <2>1, <1>1
  <2>3. n * (q - 2) \in Nat
    BY <2>1, <1>1
  <2> QED
    BY <2>2, <2>3, <1>1, <1>2
<1>5. q = 1
  BY <1>2, <1>3, <1>4
<1>6. n * q = n
  BY <1>1, <1>5
<1>7. r = x
  BY <1>1, <1>2, <1>6
<1> QED
  BY <1>7 DEF x, r

\* No frame has a verdict yet.
LEMMA VerdictsInit == Init => Verdicts
  BY DEF Init, FrameInit, Verdicts, PreviousOf

\* A frame is compared with the one returned before it.
LEMMA VerdictsStep == Inv /\ Verdicts /\ [Next]_vars => Verdicts'
<1> SUFFICES ASSUME Inv, Verdicts, [Next]_vars PROVE Verdicts'
  OBVIOUS
<1>1. CASE frames' = frames /\ previous' = previous
  BY <1>1 DEF Verdicts
<1>2. CASE HandleFrame
  <2> DEFINE n == Len(frames)
             frame == [meta |-> metadata, data |-> frame_buffer, bad |-> BadPulseId]
  <2>1. frames' = Append(frames, frame)
    BY <1>2 DEF HandleFrame, TakeFrame
  <2>2. previous' = [pulse_id |-> metadata.pulse_id, frame_index |-> metadata.frame_index]
    BY <1>2 DEF HandleFrame, TakeFrame
  <2>3. frames \in Seq([meta : Meta, data : [PacketNum -> Nat], bad : BOOLEAN])
    BY DEF Inv, TypeInv
  <2>4. /\ n \in Nat /\ Len(frames') = n + 1 /\ frames'[n + 1] = frame
        /\ \A k \in 1 .. n : frames'[k] = frames[k]
    BY <2>1, <2>3
  <2>5. \A k \in 1 .. n + 1 : PreviousOf(frames', k) = PreviousOf(frames, k)
    <3>1. \A k \in 1 .. n + 1 : k # 1 => k - 1 \in 1 .. n
      BY <2>4
    <3> QED
      BY <2>4, <3>1 DEF PreviousOf
  <2>6. BadPulseId = BadAfter(metadata, previous)
    BY DEF BadPulseId, PulseStep, BadAfter
  <2>7. frames'[n + 1].bad = BadAfter(frames'[n + 1].meta, PreviousOf(frames', n + 1))
    <3>1. n + 1 \in 1 .. n + 1
      BY <2>4
    <3>2. previous = PreviousOf(frames', n + 1)
      BY <2>5, <3>1 DEF Verdicts
    <3>3. frame.meta = metadata /\ frame.bad = BadPulseId
      OBVIOUS
    <3> HIDE DEF frame
    <3> QED
      BY <2>4, <2>6, <3>2, <3>3
  <2>8. previous' = PreviousOf(frames', n + 1 + 1)
    <3>1. n + 1 + 1 # 1 /\ n + 1 + 1 - 1 = n + 1
      BY <2>4
    <3>2. frame.meta = metadata
      OBVIOUS
    <3> HIDE DEF frame
    <3> QED
      BY <2>2, <2>4, <3>1, <3>2 DEF PreviousOf
  <2>9. \A k \in 1 .. n : frames'[k].bad = BadAfter(frames'[k].meta, PreviousOf(frames', k))
    <3>1. \A k \in 1 .. n : k \in 1 .. n + 1
      BY <2>4
    <3> QED
      BY <2>4, <2>5, <3>1 DEF Verdicts
  <2>10. \A k \in 1 .. n + 1 : k \in 1 .. n \/ k = n + 1
    BY <2>4
  <2> HIDE DEF n, frame
  <2> QED
    BY <2>4, <2>7, <2>8, <2>9, <2>10 DEF Verdicts
<1>3. CASE Network /\ UNCHANGED recvVars
  BY <1>1, <1>3 DEF recvVars
<1>4. CASE ContinueBatch
  BY <1>1, <1>4 DEF ContinueBatch
<1>5. CASE ReceiveBatch
  BY <1>1, <1>5 DEF ReceiveBatch
<1>6. CASE UNCHANGED vars
  BY <1>1, <1>6 DEF vars, recvVars
<1> QED
  BY <1>2, <1>3, <1>4, <1>5, <1>6 DEF Next, Receiver

\* In a stream in order, the frames up to the one that ends at b have numbers up to its
\* own, and those behind it larger ones.
LEMMA OrderedStream ==
    ASSUME TypeInv, InOrder, NEW b \in Ends, b < Len(received)
    PROVE  /\ received[b].framenum < received[b + 1].framenum
           /\ \A i \in 1 .. b : received[i].framenum <= received[b].framenum
           /\ \A i \in b + 1 .. Len(received) : received[b + 1].framenum <= received[i].framenum
<1>1. \A i \in 1 .. Len(received) : received[i].framenum \in Nat /\ received[i].packetnum \in 0 .. NPackets - 1
  <2>1. \A i \in 1 .. Len(received) : received[i] \in Packet
    BY DEF TypeInv
  <2> QED
    BY <2>1 DEF Packet, FrameNum, PacketNum
<1>2. b \in 1 .. Len(received) /\ b + 1 \in 1 .. Len(received) /\ b \in Nat /\ Len(received) \in Nat
  BY DEF Ends, TypeInv
<1>3. \A i, j \in 1 .. Len(received) : i < j => received[i].framenum <= received[j].framenum
  BY <1>1 DEF InOrder
<1>4. received[b].framenum < received[b + 1].framenum
  <2>1. \/ received[b].framenum < received[b + 1].framenum
        \/ /\ received[b].framenum = received[b + 1].framenum
           /\ received[b].packetnum < received[b + 1].packetnum
    BY <1>2 DEF InOrder
  <2>2. received[b].packetnum = NPackets - 1 \/ received[b + 1].framenum # received[b].framenum
    BY DEF Ends
  <2>3. received[b + 1].packetnum <= NPackets - 1
    BY <1>1, <1>2
  <2>4. received[b].packetnum \in Nat /\ received[b + 1].packetnum \in Nat
    BY <1>1, <1>2
  <2> QED
    BY <2>1, <2>2, <2>3, <2>4
<1>5. ASSUME NEW i \in 1 .. b
      PROVE  received[i].framenum <= received[b].framenum
  <2>1. i \in 1 .. Len(received) /\ (i = b \/ i < b)
    BY <1>2
  <2> QED
    BY <2>1, <1>1, <1>2, <1>3
<1>6. ASSUME NEW i \in b + 1 .. Len(received)
      PROVE  received[b + 1].framenum <= received[i].framenum
  <2>1. i \in 1 .. Len(received) /\ (i = b + 1 \/ b + 1 < i)
    BY <1>2
  <2> QED
    BY <2>1, <1>1, <1>2, <1>3
<1> QED
  BY <1>4, <1>5, <1>6

\* What is known of the frames of a cut: the number of each is the one of the packet it
\* ends at, and the first packet behind an end is of the frame that ends next.
LEMMA FramesOfCut ==
    ASSUME Inv
    PROVE  \E cut \in [0 .. Len(frames) -> 0 .. Len(received)] :
              /\ cut[0] = 0
              /\ \A k \in 1 .. Len(frames) :
                    /\ cut[k] \in Ends
                    /\ cut[k - 1] < cut[k]
                    /\ received[cut[k - 1] + 1].framenum = received[cut[k]].framenum
                    /\ frames[k].meta.frame_index = received[cut[k]].framenum
                    /\ frames[k].meta.pulse_id = PulseOf[received[cut[k]].framenum]
<1>1. PICK cut \in [0 .. Len(frames) -> 0 .. NProcessed] : CutOf(received, frames, cut)
  BY DEF Inv, CutInv
<1>2. cut \in [0 .. Len(frames) -> 0 .. Len(received)] /\ cut[0] = 0
  BY <1>1 DEF CutOf
<1>3. Ends = EndsIn(received)
  BY DEF Ends, EndsIn
<1>4. ASSUME NEW k \in 1 .. Len(frames)
      PROVE  /\ cut[k] \in Ends
             /\ cut[k - 1] < cut[k]
             /\ received[cut[k - 1] + 1].framenum = received[cut[k]].framenum
             /\ frames[k].meta.frame_index = received[cut[k]].framenum
             /\ frames[k].meta.pulse_id = PulseOf[received[cut[k]].framenum]
  <2>1. cut[k] \in Ends /\ FrameIn(received, frames[k].meta, frames[k].data, cut[k - 1], cut[k])
    BY <1>1, <1>3 DEF CutOf
  <2>2. k \in 0 .. Len(frames) /\ k - 1 \in 0 .. Len(frames)
    BY DEF Inv, TypeInv
  <2>3. cut[k] \in Nat /\ cut[k - 1] \in Nat
    BY <1>2, <2>2
  <2>4. cut[k - 1] < cut[k]
    BY <2>1 DEF FrameIn
  <2>5. cut[k - 1] + 1 \in cut[k - 1] + 1 .. cut[k]
    BY <2>3, <2>4
  <2> QED
    BY <2>1, <2>4, <2>5 DEF FrameIn
<1> QED
  BY <1>2, <1>4

\* The verdict on a frame f whose previous one is g, or 0 before the first frame, and that is
\* thus compared with pulse before: bad if frames are missing in between or the step is large.
LEMMA VerdictOn ==
    ASSUME NEW f \in FrameNum, NEW g \in {0} \union FrameNum, g < f,
           NEW meta, meta.frame_index = f, meta.pulse_id = PulseOf[f],
           NEW before, before.frame_index = g,
           before.pulse_id = IF g = 0 THEN 0 ELSE PulseOf[g]
    PROVE  BadAfter(meta, before) <=>
              g # f - 1 \/ PulseOf[f] - PulseBefore(f) > MaxPulseStep
<1>1. /\ f \in Nat \ {0} /\ g \in Nat
      /\ PulseOf[f] \in Nat \ {0} /\ PulseOf[f] < PulseModulus
      /\ PulseModulus \in Nat /\ MaxPulseStep \in Nat
  BY DEF FrameNum
<1>2. CASE g # f - 1
  BY <1>1, <1>2 DEF BadAfter
<1>3. CASE g = f - 1
  <2>1. before.pulse_id = PulseBefore(f)
    BY <1>1, <1>3 DEF PulseBefore
  <2>2. before.pulse_id \in Nat /\ before.pulse_id < PulseOf[f]
    BY <1>1 DEF FrameNum
  <2> DEFINE b == before.pulse_id
             step == (PulseOf[f] + PulseModulus - b) % PulseModulus
  <2>3. step = PulseOf[f] - b
    BY <1>1, <2>2, UnsignedStep
  <2>4. BadAfter(meta, before) <=> step <= 0 \/ step > MaxPulseStep
    BY <1>1, <1>3 DEF BadAfter
  <2> HIDE DEF step
  <2>5. BadAfter(meta, before) <=> PulseOf[f] - b > MaxPulseStep
    BY <2>2, <2>3, <2>4, <1>1
  <2> QED
    BY <2>1, <2>5, <1>3
<1> QED
  BY <1>2, <1>3

\* The verdicts on a stream in order.
LEMMA GapsAreBad == Inv /\ Verdicts => BadIffGap
<1> SUFFICES ASSUME Inv, Verdicts, InOrder, NEW k \in 1 .. Len(frames)
             PROVE  LET f == frames[k].meta.frame_index IN
                    frames[k].bad <=>
                      \/ f > 1 /\ \A i \in 1 .. Len(received) : received[i].framenum # f - 1
                      \/ f - 1 \in {0} \union FrameNum /\ PulseOf[f] - PulseBefore(f) > MaxPulseStep
  BY DEF BadIffGap
<1>1. TypeInv /\ k \in Nat /\ k > 0
  BY DEF Inv
<1>2. PICK cut \in [0 .. Len(frames) -> 0 .. Len(received)] :
         /\ cut[0] = 0
         /\ \A j \in 1 .. Len(frames) :
               /\ cut[j] \in Ends
               /\ cut[j - 1] < cut[j]
               /\ received[cut[j - 1] + 1].framenum = received[cut[j]].framenum
               /\ frames[j].meta.frame_index = received[cut[j]].framenum
               /\ frames[j].meta.pulse_id = PulseOf[received[cut[j]].framenum]
  BY FramesOfCut
<1> DEFINE a == cut[k - 1]
           e == cut[k]
           f == received[e].framenum
           Missing == \A i \in 1 .. Len(received) : received[i].framenum # f - 1
<1>3. /\ a \in 0 .. Len(received) /\ e \in 1 .. Len(received) /\ a < e
      /\ a \in Nat /\ e \in Nat /\ Len(received) \in Nat
      /\ received[a + 1].framenum = f
      /\ frames[k].meta.frame_index = f /\ frames[k].meta.pulse_id = PulseOf[f]
  <2>1. k \in 0 .. Len(frames) /\ k - 1 \in 0 .. Len(frames) /\ Len(received) \in Nat
    BY <1>1 DEF TypeInv
  <2>2. a \in 0 .. Len(received) /\ e \in 0 .. Len(received) /\ a < e
    BY <1>2, <2>1
  <2>3. a \in Nat /\ e \in 1 .. Len(received)
    BY <2>1, <2>2
  <2>4. /\ received[a + 1].framenum = f
        /\ frames[k].meta.frame_index = f /\ frames[k].meta.pulse_id = PulseOf[f]
    BY <1>2
  <2> HIDE DEF a, e, f
  <2> QED
    BY <2>1, <2>2, <2>3, <2>4
<1>4. \A i \in 1 .. Len(received) : received[i].framenum \in FrameNum
  <2>1. \A i \in 1 .. Len(received) : received[i] \in Packet
    BY <1>1 DEF TypeInv
  <2> QED
    BY <2>1 DEF Packet
<1>5. f \in FrameNum /\ f \in Nat \ {0} /\ FrameNum \subseteq Nat \ {0}
  <2>1. f \in FrameNum
    BY <1>3, <1>4
  <2>2. FrameNum \subseteq Nat \ {0}
    BY DEF FrameNum
  <2> QED
    BY <2>1, <2>2
<1>6. frames[k].bad = BadAfter(frames[k].meta, PreviousOf(frames, k))
  BY DEF Verdicts
<1> HIDE DEF f
\* Behind an end come frame f and later ones only.
<1>7. \A i \in 1 .. Len(received) : a < i => f <= received[i].framenum
  <2>1. CASE a = 0
    <3>1. \A i \in 1 .. Len(received) : i = 1 \/ 1 < i
      BY <1>3
    <3>2. received[1].framenum = f /\ 1 \in 1 .. Len(received)
      BY <2>1, <1>3
    <3>3. \A i \in 1 .. Len(received) : 1 < i => received[1].framenum <= received[i].framenum
      <4>1. \A i \in 1 .. Len(received) : received[i].framenum \in Nat
        BY <1>4, <1>5
      <4> QED
        BY <3>2, <4>1 DEF InOrder
    <3> QED
      BY <3>1, <3>2, <3>3, <1>5
  <2>2. CASE a # 0
    <3>1. a \in Ends
      <4>1. k # 1
        BY <2>2, <1>2
      <4>2. k - 1 \in 1 .. Len(frames)
        BY <4>1, <1>1
      <4> QED
        BY <4>2, <1>2
    <3>2. \A i \in 1 .. Len(received) : a < i => i \in a + 1 .. Len(received)
      BY <1>3
    <3> QED
      BY <3>1, <3>2, <1>1, <1>3, OrderedStream
  <2> QED
    BY <2>1, <2>2
<1>8. CASE k = 1
  <2>1. a = 0 /\ PreviousOf(frames, k) = [pulse_id |-> 0, frame_index |-> 0]
    BY <1>8, <1>2 DEF PreviousOf
  <2>2. frames[k].bad <=> 0 # f - 1 \/ PulseOf[f] - PulseBefore(f) > MaxPulseStep
    BY <2>1, <1>3, <1>5, <1>6, VerdictOn
  <2>3. Missing
    <3>1. \A i \in 1 .. Len(received) : f <= received[i].framenum
      BY <1>3, <1>7, <2>1
    <3> QED
      BY <3>1, <1>4, <1>5
  <2> QED
    BY <2>2, <2>3, <1>3, <1>5
<1>9. CASE k # 1
  <2> DEFINE g == received[a].framenum
  <2>1. k - 1 \in 1 .. Len(frames)
    BY <1>1, <1>9
  <2>2. /\ a \in Ends /\ a \in 1 .. Len(received)
        /\ frames[k - 1].meta.frame_index = g /\ frames[k - 1].meta.pulse_id = PulseOf[g]
    BY <2>1, <1>2 DEF Ends
  <2>3. /\ g < f /\ g \in FrameNum /\ g \in Nat \ {0}
        /\ \A i \in 1 .. a : received[i].framenum <= g
    <3>1. g < received[a + 1].framenum /\ \A i \in 1 .. a : received[i].framenum <= g
      <4>1. a < Len(received)
        BY <1>3
      <4> QED
        BY <2>2, <4>1, <1>1, <1>3, OrderedStream
    <3>2. g \in FrameNum
      BY <2>2, <1>4
    <3> QED
      BY <3>1, <3>2, <1>3, <1>5
  <2>4. PreviousOf(frames, k) = [pulse_id |-> PulseOf[g], frame_index |-> g]
    BY <1>9, <2>2 DEF PreviousOf
  <2> HIDE DEF g
  <2>5. frames[k].bad <=> g # f - 1 \/ PulseOf[f] - PulseBefore(f) > MaxPulseStep
    <3> DEFINE before == PreviousOf(frames, k)
    <3>1. before.frame_index = g /\ before.pulse_id = IF g = 0 THEN 0 ELSE PulseOf[g]
      BY <2>3, <2>4
    <3> HIDE DEF before
    <3> DEFINE meta == frames[k].meta
    <3>2. meta.frame_index = f /\ meta.pulse_id = PulseOf[f]
      BY <1>3
    <3> HIDE DEF meta
    <3>3. BadAfter(meta, before) <=> g # f - 1 \/ PulseOf[f] - PulseBefore(f) > MaxPulseStep
      BY <2>3, <3>1, <3>2, <1>5, VerdictOn
    <3> QED
      BY <3>3, <1>6 DEF before, meta
  <2>6. CASE g = f - 1
    <3>1. ~Missing /\ f - 1 \in FrameNum
      BY <2>2, <2>3, <2>6 DEF g
    <3> QED
      BY <3>1, <2>5, <2>6, <1>3
  <2>7. CASE g # f - 1
    <3>1. ASSUME NEW i \in 1 .. Len(received)
          PROVE  received[i].framenum # f - 1
      <4>1. received[i].framenum \in Nat /\ i \in 1 .. Len(received) /\ i \in Nat
        <5>1. received[i].framenum \in FrameNum
          BY <1>4
        <5>2. i \in Nat
          BY <1>3
        <5> QED
          BY <5>1, <5>2, <1>5
      <4>2. CASE a < i
        BY <4>1, <4>2, <1>5, <1>7
      <4>3. CASE ~(a < i)
        <5>1. i \in 1 .. a
          BY <4>3, <1>3
        <5> QED
          BY <5>1, <4>1, <2>3, <2>7, <1>5
      <4> QED
        BY <4>2, <4>3
    <3>2. f > 1
      BY <2>3, <1>5
    <3> QED
      BY <3>1, <3>2, <2>5, <2>7, <1>3
  <2> QED
    BY <2>6, <2>7
<1> QED
  BY <1>8, <1>9

\* In a stream that only loses packets the main loop rejects a frame exactly when the frame
\* before it left no packet, or its pulse is too far from the one before.
THEOREM BadOnlyAtGaps == Spec => []BadIffGap
<1>1. Spec => [](Inv /\ Verdicts)
  <2>1. Init => Inv /\ Verdicts
    BY InvInit, VerdictsInit
  <2>2. Inv /\ Verdicts /\ [Next]_vars => (Inv /\ Verdicts)'
    BY InvStep, VerdictsStep
  <2> QED
    BY <2>1, <2>2, PTL DEF Spec
<1> QED
  BY <1>1, GapsAreBad, PTL

-----------------------------------------------------------------------------
(* jfj_udp_recv: the receiver of JfjFrameUdpReceiver.                         *)

USE JfjAssumption

ImageMetadata == [pulse_id : Nat, frame_index : Nat, is_good_image : BOOLEAN]

\* The types of the state, and of its history.
JfjTypeInv ==
    /\ socket \in Seq(Packet) /\ held \subseteq Packet /\ sent \in Nat
    /\ m_buffer.container \in [0 .. BatchSize - 1 -> [framenum : Nat, packetnum : Nat]]
    /\ m_buffer.idx_write \in 0 .. BatchSize /\ m_buffer.idx_read \in 0 .. m_buffer.idx_write
    /\ m_frame_index \in Nat
    /\ metadata \in Meta
    /\ frame_buffer \in [PacketNum -> Nat]
    /\ pc \in {"collect", "frame"}
    /\ previous \in [pulse_id : Nat, frame_index : Nat]
    /\ ram_buffer \in [0 .. NSlots - 1 -> [meta : Meta, data : [PacketNum -> Nat]]]
    /\ published \in Seq(ImageMetadata)
    /\ received \in Seq(Packet)
    /\ frames \in Seq([meta : Meta, data : [PacketNum -> Nat], bad : BOOLEAN])

\* Packets of the stream that no longer wait in the buffer.
Consumed == Len(received) - PB!size(m_buffer)

\* What waits in the buffer is what was received last.
JfjBufferInv ==
    /\ Consumed \in Nat
    /\ \A k \in 1 .. PB!size(m_buffer) : PB!Unread(m_buffer)[k] = received[Consumed + k]

\* Not more than what was received is consumed.
LEMMA ConsumedIs ==
    ASSUME JfjTypeInv, JfjBufferInv
    PROVE  Consumed \in 0 .. Len(received)
<1>1. m_buffer.idx_write \in 0 .. BatchSize /\ m_buffer.idx_read \in 0 .. m_buffer.idx_write
  BY DEF JfjTypeInv
<1>2. Len(received) \in Nat /\ Consumed \in Nat
  <2>1. received \in Seq(Packet)
    BY DEF JfjTypeInv
  <2> QED
    BY <2>1 DEF JfjBufferInv
<1>3. Consumed = Len(received) - (m_buffer.idx_write - m_buffer.idx_read)
  BY DEF Consumed, PB!size
<1> QED
  BY <1>1, <1>2, <1>3

\* A buffer that holds the packets of the stream behind n.
RestOf(b, stream, n) ==
    /\ b.container \in [0 .. BatchSize - 1 -> [framenum : Nat, packetnum : Nat]]
    /\ b.idx_write \in 0 .. BatchSize /\ b.idx_read \in 0 .. b.idx_write
    /\ Len(stream) - n = PB!size(b)
    /\ \A k \in 1 .. PB!size(b) : PB!Unread(b)[k] = stream[n + k]

\* Where one pass over the buffer stops, and why.
LEMMA PopStops ==
    ASSUME NEW b, NEW stream \in Seq(Packet), NEW n \in Nat, n < Len(stream), RestOf(b, stream, n)
    PROVE  LET buffer == PB!Unread(b)
               stop   == Popped(buffer)
           IN
           /\ stop \in 0 .. Len(stream) - n
           /\ \A i \in n + 1 .. n + stop : stream[i].framenum = m_frame_index
           /\ \A i \in 1 .. stop : buffer[i] = stream[n + i]
           /\ \/ stop \in ClosingIn(buffer) /\ ~AtForeign(buffer)
                 /\ stop > 0 /\ stream[n + stop].packetnum = NPackets - 1
              \/ stop \notin ClosingIn(buffer) /\ AtForeign(buffer)
                 /\ n + stop < Len(stream) /\ buffer[stop + 1] = stream[n + stop + 1]
                 /\ stream[n + stop + 1].framenum # m_frame_index
              \/ stop \notin ClosingIn(buffer) /\ ~AtForeign(buffer)
                 /\ n + stop = Len(stream) /\ stream[n + stop].packetnum # NPackets - 1
<1> DEFINE buffer == PB!Unread(b)
           stop == Popped(buffer)
           len == Len(stream) - n
           foreign == ForeignIn(buffer)
           closing == ClosingIn(buffer)
           stops == {i - 1 : i \in foreign} \union closing \union {len}
<1>1. len \in Nat /\ len > 0 /\ len = PB!size(b)
  BY DEF RestOf
<1>2. Len(buffer) = len /\ \A i \in 1 .. len : buffer[i] = stream[n + i]
  <2>1. buffer = [k \in 1 .. len |-> b.container[b.idx_read + k - 1]]
    BY <1>1 DEF PB!Unread
  <2>2. Len(buffer) = len
    <3> HIDE DEF len
    <3> QED
      BY <2>1, <1>1
  <2> QED
    BY <2>2, <1>1 DEF RestOf
<1>3. foreign = {i \in 1 .. len : stream[n + i].framenum # m_frame_index}
  BY <1>2 DEF ForeignIn
<1>4. closing = {i \in 1 .. len : stream[n + i].packetnum = NPackets - 1}
  BY <1>2 DEF ClosingIn
<1>5. stop = Min(stops)
  BY <1>2 DEF Popped
<1>6. AtForeign(buffer) <=> stop \notin closing /\ stop < len
  BY <1>2 DEF AtForeign
<1> HIDE DEF foreign, closing, stop, len, buffer
<1>7. stops \subseteq 0 .. len /\ stops # {}
  BY <1>1, <1>3, <1>4
<1>8. stop \in stops /\ \A i \in stops : stop <= i
  <2> HIDE DEF stops
  <2>1. stops \in SUBSET Nat
    BY <1>1, <1>7
  <2> QED
    BY <1>5, <1>7, <2>1, MinOfNat
<1>9. stop \in 0 .. len
  BY <1>7, <1>8
<1>10. ASSUME NEW i \in n + 1 .. n + stop
       PROVE  stream[i].framenum = m_frame_index
  <2>1. i - n \in 1 .. stop /\ i - n \in 1 .. len /\ n + (i - n) = i
    BY <1>1, <1>9
  <2>2. i - n \in foreign => stop <= (i - n) - 1
    BY <1>8
  <2>3. i - n \notin foreign
    BY <2>1, <2>2, <1>9
  <2> QED
    BY <2>1, <2>3, <1>3
<1>11. CASE stop \in closing
  <2>1. stop \in 1 .. len /\ stream[n + stop].packetnum = NPackets - 1
    BY <1>4, <1>11
  <2> QED
    BY <2>1, <1>1, <1>2, <1>6, <1>9, <1>10, <1>11 DEF len, closing, buffer, stop
<1>12. CASE stop \notin closing /\ stop < len
  <2>1. PICK i \in foreign : stop = i - 1
    <3>1. stop # len
      BY <1>12, <1>1, <1>9
    <3> QED
      BY <3>1, <1>8, <1>12
  <2>2. i \in 1 .. len /\ stream[n + i].framenum # m_frame_index
    BY <2>1, <1>3
  <2>3. i = stop + 1 /\ n + i = n + stop + 1
    BY <2>1, <2>2, <1>1
  <2>4. stream[n + stop + 1].framenum # m_frame_index /\ buffer[stop + 1] = stream[n + stop + 1]
    BY <2>2, <2>3, <1>2
  <2>5. n + stop < Len(stream)
    BY <1>12, <1>9, <1>1 DEF len
  <2> QED
    BY <2>4, <2>5, <1>1, <1>2, <1>6, <1>9, <1>10, <1>12 DEF len, closing, buffer, stop
<1>13. CASE stop \notin closing /\ ~(stop < len)
  <2>1. stop = len /\ n + stop = Len(stream)
    BY <1>13, <1>9, <1>1 DEF len
  <2>2. stream[n + stop].packetnum # NPackets - 1
    BY <2>1, <1>13, <1>1, <1>4
  <2> QED
    BY <2>1, <2>2, <1>1, <1>2, <1>6, <1>9, <1>10, <1>13 DEF len, closing, buffer, stop
<1> QED
  BY <1>11, <1>12, <1>13

\* What one pass makes of the frame in progress.
Filled(stream, n, stop) ==
    /\ \A i \in n + 1 .. n + stop : stream[i].framenum = m_frame_index
    /\ metadata' = IF stop = 0 THEN metadata
                   ELSE [pulse_id |-> PulseOf[m_frame_index], frame_index |-> m_frame_index,
                         n_recv_packets |-> metadata.n_recv_packets + stop]
    /\ frame_buffer' = [p \in PacketNum |->
                          IF \E i \in n + 1 .. n + stop : stream[i].packetnum = p
                          THEN m_frame_index ELSE frame_buffer[p]]

\* How it may end: with the last packet of the frame, at a packet of another frame that
\* finishes it, at one that only shows that the frame expected is not there, which costs
\* the batch, or with the batch.
ClosedBy(stream, n, stop) ==
    /\ stop > 0 /\ stream[n + stop].packetnum = NPackets - 1
    /\ metadata'.pulse_id # 0 /\ pc' = "frame" /\ m_frame_index' = m_frame_index
    /\ RestOf(m_buffer', stream, n + stop)

FinishedAt(stream, n, stop) ==
    /\ n + stop < Len(stream)
    /\ stream[n + stop + 1].framenum # m_frame_index
    /\ m_frame_index' = stream[n + stop + 1].framenum
    /\ metadata'.pulse_id # 0 /\ pc' = "frame"
    /\ RestOf(m_buffer', stream, n + stop)

BatchDropped(stream, n, stop) ==
    /\ stop = 0 /\ metadata.pulse_id = 0
    /\ stream[n + 1].framenum # m_frame_index
    /\ m_frame_index' = stream[n + 1].framenum
    /\ pc' = "collect"
    /\ RestOf(m_buffer', stream, Len(stream))

BatchUsedUp(stream, n, stop) ==
    /\ stop > 0 /\ n + stop = Len(stream)
    /\ stream[n + stop].packetnum # NPackets - 1
    /\ m_frame_index' = m_frame_index /\ pc' = "collect"
    /\ RestOf(m_buffer', stream, Len(stream))

\* A buffer that is reset holds nothing.
LEMMA RestOfReset ==
    ASSUME NEW b, NEW stream \in Seq(Packet), NEW n \in Nat, RestOf(b, stream, n)
    PROVE  RestOf(PB!reset(b), stream, Len(stream))
<1> DEFINE c == PB!reset(b)
<1>1. c.container = b.container /\ c.idx_write = 0 /\ c.idx_read = 0
  BY DEF RestOf, PB!reset
<1> HIDE DEF c
<1>2. PB!size(c) = 0 /\ Len(stream) \in Nat
  BY <1>1 DEF PB!size
<1>3. RestOf(c, stream, Len(stream))
  BY <1>1, <1>2 DEF RestOf
<1> QED
  BY <1>3 DEF c

\* Popping packets leaves the rest behind them.
LEMMA RestOfPop ==
    ASSUME NEW b, NEW stream \in Seq(Packet), NEW n \in Nat, RestOf(b, stream, n),
           NEW stop \in 0 .. Len(stream) - n
    PROVE  RestOf(PB!pop_front(b, stop), stream, n + stop)
<1> DEFINE c == PB!pop_front(b, stop)
<1>1. c.container = b.container /\ c.idx_write = b.idx_write /\ c.idx_read = b.idx_read + stop
  BY DEF PB!pop_front, RestOf
<1> HIDE DEF c
<1>2. /\ b.idx_write \in Nat /\ b.idx_read \in Nat /\ b.idx_read <= b.idx_write
      /\ Len(stream) - n = b.idx_write - b.idx_read /\ PB!size(b) = b.idx_write - b.idx_read
  BY DEF RestOf, PB!size
<1>3. c.idx_read \in 0 .. c.idx_write
  BY <1>1, <1>2
<1>4. PB!size(c) = PB!size(b) - stop /\ Len(stream) - (n + stop) = PB!size(c)
  <2>1. stop \in Nat /\ Len(stream) \in Nat
    OBVIOUS
  <2>2. PB!size(c) = b.idx_write - (b.idx_read + stop)
    BY <1>1 DEF PB!size
  <2> QED
    BY <2>1, <2>2, <1>2
<1>5. ASSUME NEW k \in 1 .. PB!size(c)
      PROVE  PB!Unread(c)[k] = stream[n + stop + k]
  <2>1. stop + k \in 1 .. PB!size(b) /\ k \in Nat
    BY <1>2, <1>4
  <2>2. c.idx_read + k - 1 = b.idx_read + (stop + k) - 1 /\ n + (stop + k) = n + stop + k
    BY <1>1, <1>2, <2>1
  <2>3. PB!Unread(c)[k] = c.container[c.idx_read + k - 1]
    BY DEF PB!Unread
  <2>4. PB!Unread(b)[stop + k] = b.container[b.idx_read + (stop + k) - 1]
    BY <2>1 DEF PB!Unread
  <2>5. PB!Unread(b)[stop + k] = stream[n + (stop + k)]
    BY <2>1 DEF RestOf
  <2> QED
    BY <2>2, <2>3, <2>4, <2>5, <1>1
<1>6. c.container \in [0 .. BatchSize - 1 -> [framenum : Nat, packetnum : Nat]] /\ c.idx_write \in 0 .. BatchSize
  BY <1>1 DEF RestOf
<1> QED
  BY <1>3, <1>4, <1>5, <1>6 DEF RestOf, c

\* A pass finishes a frame, drops the rest of the buffer, or uses it up.
LEMMA PassTakes ==
    ASSUME metadata \in Meta, NEW b, NEW stream \in Seq(Packet), NEW n \in Nat, n < Len(stream),
           RestOf(b, stream, n), jfj_process_packets(b)
    PROVE  \E stop \in 0 .. Len(stream) - n :
              /\ Filled(stream, n, stop)
              /\ \/ ClosedBy(stream, n, stop) \/ FinishedAt(stream, n, stop)
                 \/ BatchDropped(stream, n, stop) \/ BatchUsedUp(stream, n, stop)
<1> DEFINE buffer == PB!Unread(b)
           stop == Popped(buffer)
           meta == IF stop = 0 THEN metadata
                   ELSE [pulse_id |-> PulseOf[m_frame_index], frame_index |-> m_frame_index,
                         n_recv_packets |-> metadata.n_recv_packets + stop]
           ended == (AtForeign(buffer) \/ stop \in ClosingIn(buffer)) /\ meta.pulse_id # 0
           next == stream[n + stop + 1].framenum
           data == [p \in PacketNum |->
                      IF \E i \in 1 .. stop : buffer[i].packetnum = p THEN m_frame_index ELSE frame_buffer[p]]
<1>1. /\ stop \in 0 .. Len(stream) - n
      /\ \A i \in n + 1 .. n + stop : stream[i].framenum = m_frame_index
      /\ \A i \in 1 .. stop : buffer[i] = stream[n + i]
      /\ \/ stop \in ClosingIn(buffer) /\ ~AtForeign(buffer)
            /\ stop > 0 /\ stream[n + stop].packetnum = NPackets - 1
         \/ stop \notin ClosingIn(buffer) /\ AtForeign(buffer)
            /\ n + stop < Len(stream) /\ buffer[stop + 1] = stream[n + stop + 1]
            /\ next # m_frame_index
         \/ stop \notin ClosingIn(buffer) /\ ~AtForeign(buffer)
            /\ n + stop = Len(stream) /\ stream[n + stop].packetnum # NPackets - 1
  BY PopStops
<1>2. /\ metadata' = meta
      /\ m_frame_index' = IF AtForeign(buffer) THEN buffer[stop + 1].framenum ELSE m_frame_index
      /\ m_buffer' = IF ended THEN PB!pop_front(b, stop) ELSE PB!reset(b)
      /\ pc' = IF ended THEN "frame" ELSE "collect"
  BY DEF jfj_process_packets
<1>3. frame_buffer' = data
  BY DEF jfj_process_packets, PacketNum
<1> HIDE DEF stop, buffer, meta, ended, next, data
<1>4. stop \in Nat /\ n + stop \in Nat
  BY <1>1
<1>5. stop > 0 => meta.pulse_id # 0
  <2>1. ASSUME stop > 0 PROVE m_frame_index \in FrameNum
    <3>1. n + 1 \in n + 1 .. n + stop /\ n + 1 \in 1 .. Len(stream)
      BY <2>1, <1>4
    <3>2. stream[n + 1].framenum = m_frame_index /\ stream[n + 1] \in Packet
      BY <3>1, <1>1
    <3> QED
      BY <3>2 DEF Packet
  <2>2. m_frame_index \in FrameNum => PulseOf[m_frame_index] # 0
    OBVIOUS
  <2> QED
    BY <2>1, <2>2, <1>4 DEF meta
<1>6. Filled(stream, n, stop)
  <2>1. \A p \in PacketNum : (\E i \in 1 .. stop : buffer[i].packetnum = p)
                             <=> (\E i \in n + 1 .. n + stop : stream[i].packetnum = p)
    <3>1. \A i \in n + 1 .. n + stop : i - n \in 1 .. stop /\ n + (i - n) = i
      BY <1>4
    <3>2. \A i \in 1 .. stop : n + i \in n + 1 .. n + stop
      BY <1>4
    <3>3. ASSUME NEW i \in n + 1 .. n + stop PROVE buffer[i - n] = stream[i] /\ i - n \in 1 .. stop
      BY <3>1, <1>1
    <3>4. ASSUME NEW i \in 1 .. stop PROVE buffer[i] = stream[n + i] /\ n + i \in n + 1 .. n + stop
      BY <3>2, <1>1
    <3> QED
      BY <3>3, <3>4, Zenon
  <2>2. data = [p \in PacketNum |->
                  IF \E i \in n + 1 .. n + stop : stream[i].packetnum = p THEN m_frame_index ELSE frame_buffer[p]]
    BY <2>1 DEF data
  <2> QED
    BY <2>2, <1>1, <1>2, <1>3 DEF Filled, meta
<1>7. RestOf(PB!pop_front(b, stop), stream, n + stop) /\ RestOf(PB!reset(b), stream, Len(stream))
  BY <1>1, RestOfPop, RestOfReset
<1>8. CASE stop \in ClosingIn(buffer) /\ ~AtForeign(buffer)
  BY <1>1, <1>2, <1>5, <1>6, <1>7, <1>8 DEF ended, ClosedBy
<1>9. CASE stop \notin ClosingIn(buffer) /\ AtForeign(buffer) /\ meta.pulse_id # 0
  BY <1>1, <1>2, <1>6, <1>7, <1>9 DEF ended, FinishedAt, next
<1>10. CASE stop \notin ClosingIn(buffer) /\ AtForeign(buffer) /\ meta.pulse_id = 0
  <2>1. stop = 0 /\ n + stop + 1 = n + 1
    BY <1>4, <1>5, <1>10
  <2> QED
    BY <2>1, <1>1, <1>2, <1>6, <1>7, <1>10 DEF ended, BatchDropped, next, meta
<1>11. CASE stop \notin ClosingIn(buffer) /\ ~AtForeign(buffer)
  <2>1. n + stop = Len(stream) /\ stream[n + stop].packetnum # NPackets - 1
    BY <1>1, <1>11
  <2>2. stop > 0
    BY <2>1, <1>4
  <2> QED
    BY <2>1, <2>2, <1>1, <1>2, <1>6, <1>7, <1>11 DEF ended, BatchUsedUp
<1> QED
  BY <1>1, <1>8, <1>9, <1>10, <1>11

\* One pass over what is left in the buffer, or over a new batch.
JfjPass(b, batch) ==
    /\ pc = "collect"
    /\ batch \in Seq(Packet) /\ received' = received \o batch
    /\ batch # <<>> => Consumed = Len(received)
    /\ Consumed < Len(received')
    /\ RestOf(b, received', Consumed)
    /\ jfj_process_packets(b)

\* The packet buffer holds what was received last.
LEMMA BufferIsRest ==
    JfjTypeInv => (JfjBufferInv <=> Consumed \in Nat /\ RestOf(m_buffer, received, Consumed))
<1> SUFFICES ASSUME JfjTypeInv PROVE JfjBufferInv <=> Consumed \in Nat /\ RestOf(m_buffer, received, Consumed)
  OBVIOUS
<1>1. Len(received) - Consumed = PB!size(m_buffer)
  BY DEF Consumed, PB!size, JfjTypeInv
<1> QED
  BY <1>1 DEF JfjBufferInv, RestOf, JfjTypeInv

\* The two ways to a pass: over what is left in the buffer ...
LEMMA ContinueBatchPasses ==
    ASSUME JfjTypeInv, JfjBufferInv, ContinueBuffer
    PROVE  JfjPass(m_buffer, <<>>)
<1>1. pc = "collect" /\ jfj_process_packets(m_buffer) /\ received' = received
  BY DEF ContinueBuffer
<1>2. received' = received \o <<>> /\ <<>> \in Seq(Packet)
  BY <1>1 DEF JfjTypeInv
<1>3. Consumed < Len(received)
  <2>1. ~(m_buffer.idx_write <= m_buffer.idx_read)
    BY DEF ContinueBuffer, PB!is_empty
  <2>2. m_buffer.idx_write \in Nat /\ m_buffer.idx_read \in Nat /\ Len(received) \in Nat
    BY DEF JfjTypeInv
  <2>3. Consumed = Len(received) - (m_buffer.idx_write - m_buffer.idx_read)
    BY DEF Consumed, PB!size
  <2> QED
    BY <2>1, <2>2, <2>3
<1> QED
  BY <1>1, <1>2, <1>3, BufferIsRest DEF JfjPass

\* ... and over a new batch.
LEMMA ReceiveBatchPasses ==
    ASSUME JfjTypeInv, JfjBufferInv, FillBuffer
    PROVE  /\ \E b, batch : JfjPass(b, batch)
           /\ socket' \in Seq(Packet)
<1>1. PICK n \in 1 .. BatchSize :
         /\ n <= Len(socket)
         /\ jfj_process_packets(PB!fill_from(PB!reset(m_buffer), n, socket))
         /\ received' = received \o SubSeq(socket, 1, n)
         /\ socket' = SubSeq(socket, n + 1, Len(socket))
  BY DEF FillBuffer
<1> DEFINE b == PB!fill_from(PB!reset(m_buffer), n, socket)
           batch == SubSeq(socket, 1, n)
<1>2. socket \in Seq(Packet) /\ n \in Nat /\ n > 0 /\ received \in Seq(Packet)
  BY DEF JfjTypeInv
<1>3. batch \in Seq(Packet) /\ Len(batch) = n /\ \A i \in 1 .. n : batch[i] = socket[i]
  BY <1>1, <1>2
<1>4. socket' \in Seq(Packet)
  BY <1>1, <1>2
<1>5. pc = "collect"
  BY DEF FillBuffer
<1>6. Consumed = Len(received)
  <2>1. m_buffer.idx_write <= m_buffer.idx_read
    BY DEF FillBuffer, PB!is_empty
  <2>2. m_buffer.idx_write - m_buffer.idx_read = 0
    BY <2>1 DEF JfjTypeInv
  <2> QED
    BY <2>2, <1>2 DEF Consumed, PB!size
<1>7. /\ b.idx_write = n /\ b.idx_read = 0
      /\ b.container = [i \in 0 .. BatchSize - 1 |-> IF i < n THEN socket[i + 1] ELSE m_buffer.container[i]]
  BY <1>2 DEF PB!fill_from, PB!reset, PB!Index, JfjTypeInv
<1> HIDE DEF b, batch
<1>8. /\ Len(received') = Len(received) + n
      /\ \A i \in 1 .. n : received'[Len(received) + i] = batch[i]
  BY <1>1, <1>2, <1>3, LongerStream DEF batch
<1>9. PB!size(b) = n
  BY <1>2, <1>7 DEF PB!size
<1>10. b.container \in [0 .. BatchSize - 1 -> [framenum : Nat, packetnum : Nat]]
  <2>1. ASSUME NEW i \in 0 .. BatchSize - 1
        PROVE  b.container[i] \in [framenum : Nat, packetnum : Nat]
    <3>1. CASE i < n
      <4>1. i + 1 \in 1 .. Len(socket)
        BY <1>1, <1>2, <3>1
      <4>2. socket[i + 1] \in Packet
        BY <1>2, <4>1
      <4>3. Packet \subseteq [framenum : Nat, packetnum : Nat]
        BY DEF Packet, FrameNum, PacketNum
      <4> QED
        BY <3>1, <4>2, <4>3, <1>7
    <3>2. CASE ~(i < n)
      BY <3>2, <1>7 DEF JfjTypeInv
    <3> QED
      BY <3>1, <3>2
  <2> QED
    BY <2>1, <1>7
<1>11. ASSUME NEW k \in 1 .. n
       PROVE  PB!Unread(b)[k] = received'[Len(received) + k]
  <2>1. k - 1 \in 0 .. BatchSize - 1 /\ k - 1 < n /\ (k - 1) + 1 = k /\ 0 + k - 1 = k - 1
    OBVIOUS
  <2>2. PB!Unread(b)[k] = b.container[k - 1]
    BY <2>1, <1>7, <1>9 DEF PB!Unread
  <2>3. b.container[k - 1] = socket[k]
    BY <2>1, <1>7
  <2> QED
    BY <2>2, <2>3, <1>3, <1>8
<1>12. RestOf(b, received', Consumed)
  <2>1. Len(received') - Len(received) = n
    BY <1>2, <1>8
  <2>2. b.idx_write \in 0 .. BatchSize /\ b.idx_read \in 0 .. b.idx_write
    BY <1>2, <1>7
  <2>3. RestOf(b, received', Len(received))
    BY <2>1, <2>2, <1>9, <1>10, <1>11 DEF RestOf
  <2> QED
    BY <2>3, <1>6
<1>13. Consumed < Len(received')
  BY <1>2, <1>6, <1>8
<1>14. jfj_process_packets(b) /\ received' = received \o batch
  BY <1>1 DEF b, batch
<1>15. JfjPass(b, batch)
  BY <1>3, <1>5, <1>6, <1>12, <1>13, <1>14 DEF JfjPass
<1> QED
  BY <1>4, <1>15

\* What a pass leaves alone, or at least well typed.
LEMMA JfjPassTypes ==
    ASSUME JfjTypeInv, JfjBufferInv, NEW b, NEW batch, JfjPass(b, batch)
    PROVE  /\ received' \in Seq(Packet)
           /\ m_frame_index' \in Nat /\ metadata' \in Meta
           /\ frame_buffer' \in [PacketNum -> Nat] /\ pc' \in {"collect", "frame"}
           /\ m_buffer'.container \in [0 .. BatchSize - 1 -> [framenum : Nat, packetnum : Nat]]
           /\ m_buffer'.idx_write \in 0 .. BatchSize /\ m_buffer'.idx_read \in 0 .. m_buffer'.idx_write
           /\ \E n \in Nat : RestOf(m_buffer', received', n)
<1> DEFINE stream == received'
           n == Consumed
<1>1. stream \in Seq(Packet) /\ Len(stream) \in Nat
  BY LongerStream DEF JfjPass, JfjTypeInv
<1>2. n \in Nat /\ n < Len(stream) /\ RestOf(b, stream, n) /\ jfj_process_packets(b)
  BY DEF JfjPass, JfjBufferInv
<1> HIDE DEF stream, n
<1>3. metadata \in Meta /\ frame_buffer \in [PacketNum -> Nat] /\ m_frame_index \in Nat
  BY DEF JfjTypeInv
<1>4. PICK stop \in 0 .. Len(stream) - n :
         /\ Filled(stream, n, stop)
         /\ \/ ClosedBy(stream, n, stop) \/ FinishedAt(stream, n, stop)
            \/ BatchDropped(stream, n, stop) \/ BatchUsedUp(stream, n, stop)
  BY <1>1, <1>2, <1>3, PassTakes
<1>5. stop \in Nat /\ n + stop \in Nat
  BY <1>1, <1>2
<1>6. \A i \in 1 .. Len(stream) : stream[i].framenum \in FrameNum /\ stream[i].framenum \in Nat
  <2>1. \A i \in 1 .. Len(stream) : stream[i] \in Packet
    BY <1>1
  <2> QED
    BY <2>1 DEF Packet, FrameNum
<1>7. metadata' \in Meta
  <2>1. CASE stop = 0
    BY <2>1, <1>3, <1>4 DEF Filled
  <2>2. CASE stop # 0
    <3>1. n + 1 \in n + 1 .. n + stop /\ n + 1 \in 1 .. Len(stream)
      BY <2>2, <1>1, <1>2, <1>5
    <3>2. m_frame_index \in FrameNum
      BY <3>1, <1>4, <1>6 DEF Filled
    <3>3. PulseOf[m_frame_index] \in Nat
      BY <3>2
    <3>4. metadata.n_recv_packets + stop \in Nat
      BY <1>3, <1>5 DEF Meta
    <3> QED
      BY <2>2, <3>3, <3>4, <1>3, <1>4 DEF Filled, Meta
  <2> QED
    BY <2>1, <2>2
<1>8. frame_buffer' \in [PacketNum -> Nat]
  BY <1>3, <1>4 DEF Filled
<1>9. \E k \in Nat : RestOf(m_buffer', stream, k)
  BY <1>1, <1>4, <1>5 DEF ClosedBy, FinishedAt, BatchDropped, BatchUsedUp
<1>10. pc' \in {"collect", "frame"} /\ m_frame_index' \in Nat
  <2>1. CASE ClosedBy(stream, n, stop)
    BY <2>1, <1>3 DEF ClosedBy
  <2>2. CASE FinishedAt(stream, n, stop)
    <3>1. n + stop + 1 \in 1 .. Len(stream)
      BY <2>2, <1>1, <1>5 DEF FinishedAt
    <3> QED
      BY <2>2, <3>1, <1>6 DEF FinishedAt
  <2>3. CASE BatchDropped(stream, n, stop)
    <3>1. n + 1 \in 1 .. Len(stream)
      BY <1>1, <1>2
    <3> QED
      BY <2>3, <3>1, <1>6 DEF BatchDropped
  <2>4. CASE BatchUsedUp(stream, n, stop)
    BY <2>4, <1>3 DEF BatchUsedUp
  <2> QED
    BY <2>1, <2>2, <2>3, <2>4, <1>4
<1> QED
  BY <1>1, <1>7, <1>8, <1>9, <1>10 DEF RestOf, stream

\* The network is the one of the module receivers.
LEMMA JfjNetworkTypes ==
    ASSUME JfjTypeInv, Network
    PROVE  sent' \in Nat /\ held' \subseteq Packet /\ socket' \in Seq(Packet)
<1>1. Network
  BY DEF Network, Deliver, Lose, Delay, Double, Arrive, Send, Receive, NSent, PacketAt
<1> QED
  BY <1>1, NetworkTypes DEF JfjTypeInv

\* Types and buffer hold at first ...
LEMMA JfjTypeInit == ASSUME JfjInit PROVE JfjTypeInv /\ JfjBufferInv
<1>1. /\ m_buffer.container = [i \in 0 .. BatchSize - 1 |-> [framenum |-> 0, packetnum |-> 0]]
      /\ m_buffer.idx_write = 0 /\ m_buffer.idx_read = 0
  BY DEF JfjInit, FrameInit, PB!NewBuffer, PB!Index
<1>2. \A S : <<>> \in Seq(S)
  OBVIOUS
<1>3. /\ sent = 0 /\ held = {} /\ socket = <<>> /\ received = <<>> /\ frames = <<>> /\ published = <<>>
      /\ pc = "collect" /\ previous = [pulse_id |-> 0, frame_index |-> 0]
      /\ metadata = [pulse_id |-> 0, frame_index |-> 0, n_recv_packets |-> 0]
      /\ frame_buffer = [p \in PacketNum |-> 0]
      /\ m_frame_index \in {0} \union FrameNum
      /\ ram_buffer = [s \in 0 .. NSlots - 1 |-> [meta |-> metadata, data |-> frame_buffer]]
  BY DEF JfjInit, FrameInit, NetInit, NoFrame, NoPixels
<1>4. metadata \in Meta /\ frame_buffer \in [PacketNum -> Nat]
  BY <1>3 DEF Meta
<1>5. ram_buffer \in [0 .. NSlots - 1 -> [meta : Meta, data : [PacketNum -> Nat]]]
  BY <1>3, <1>4
<1>6. m_frame_index \in Nat
  BY <1>3 DEF FrameNum
<1>7. /\ m_buffer.container \in [0 .. BatchSize - 1 -> [framenum : Nat, packetnum : Nat]]
      /\ m_buffer.idx_write \in 0 .. BatchSize /\ m_buffer.idx_read \in 0 .. m_buffer.idx_write
  BY <1>1
<1>8. previous \in [pulse_id : Nat, frame_index : Nat] /\ sent \in Nat /\ pc \in {"collect", "frame"}
  BY <1>3
<1>9. /\ published \in Seq(ImageMetadata)
      /\ socket \in Seq(Packet) /\ held \subseteq Packet /\ received \in Seq(Packet)
      /\ frames \in Seq([meta : Meta, data : [PacketNum -> Nat], bad : BOOLEAN])
  BY <1>2, <1>3, Zenon
<1>10. JfjTypeInv
  BY <1>4, <1>5, <1>6, <1>7, <1>8, <1>9 DEF JfjTypeInv
<1>11. Consumed = 0 /\ PB!size(m_buffer) = 0
  BY <1>1, <1>3 DEF Consumed, PB!size
<1> QED
  BY <1>10, <1>11 DEF JfjBufferInv

\* A frame is handled: what is appended, what is stored.
LEMMA JfjHandled ==
    ASSUME JfjTypeInv, JfjHandleFrame
    PROVE  \E bad \in BOOLEAN :
              LET frame == [meta |-> metadata, data |-> frame_buffer, bad |-> bad] IN
              /\ frames' = Append(frames, frame)
              /\ frame \in [meta : Meta, data : [PacketNum -> Nat], bad : BOOLEAN]
              /\ metadata' = [metadata EXCEPT !.pulse_id = 0, !.n_recv_packets = 0]
              /\ metadata' \in Meta
              /\ frame_buffer' = NoPixels
              /\ pc = "frame" /\ pc' = "collect"
              /\ previous' \in [pulse_id : Nat, frame_index : Nat]
              /\ UNCHANGED <<sent, held, socket, m_buffer, m_frame_index, received>>
              /\ published' = IF bad THEN published
                              ELSE Append(published, [pulse_id |-> metadata.pulse_id,
                                      frame_index |-> metadata.frame_index, is_good_image |-> TRUE])
              /\ ram_buffer' = IF bad THEN ram_buffer
                               ELSE [ram_buffer EXCEPT ![metadata.pulse_id % NSlots] =
                                       [meta |-> metadata,
                                        data |-> [p \in PacketNum |-> IF p < NStored THEN frame_buffer[p] ELSE 0]]]
<1> DEFINE frame == [meta |-> metadata, data |-> frame_buffer, bad |-> JfjBadPulseId]
<1>1. JfjBadPulseId \in BOOLEAN
  BY DEF JfjBadPulseId
<1>2. metadata \in Meta /\ frame_buffer \in [PacketNum -> Nat]
  BY DEF JfjTypeInv
<1>3. frames' = Append(frames, frame) /\ frame \in [meta : Meta, data : [PacketNum -> Nat], bad : BOOLEAN]
  <2>1. frames' = Append(frames, frame)
    BY DEF JfjHandleFrame, JfjTakeFrame
  <2> QED
    BY <2>1, <1>1, <1>2
<1>4. /\ metadata' = [metadata EXCEPT !.pulse_id = 0, !.n_recv_packets = 0]
      /\ metadata' \in Meta
      /\ pc = "frame" /\ pc' = "collect"
      /\ previous' \in [pulse_id : Nat, frame_index : Nat]
  BY <1>2 DEF JfjHandleFrame, JfjTakeFrame, Meta
<1>5. frame_buffer' = NoPixels
  BY DEF JfjHandleFrame, NoPixels, PacketNum
<1>6. UNCHANGED <<sent, held, socket, m_buffer, m_frame_index, received>>
  BY DEF JfjHandleFrame, JfjTakeFrame, netVars
<1>7. published' = IF JfjBadPulseId THEN published ELSE Append(published, ImageMeta)
  BY DEF JfjHandleFrame, JfjTakeFrame
<1>8. ram_buffer' = IF JfjBadPulseId THEN ram_buffer
                    ELSE [ram_buffer EXCEPT ![metadata.pulse_id % NSlots] = Stored]
  BY DEF JfjHandleFrame, write_frame
<1> QED
  BY <1>1, <1>3, <1>4, <1>5, <1>6, <1>7, <1>8 DEF ImageMeta, Stored, PacketNum

\* What holds for any network.
JfjTypes == JfjTypeInv /\ JfjBufferInv

\* ... and in every step.
LEMMA JfjTypeStep == JfjTypes /\ [JfjNext]_jfjVars => JfjTypes'
<1> SUFFICES ASSUME JfjTypeInv, JfjBufferInv, [JfjNext]_jfjVars PROVE JfjTypeInv' /\ JfjBufferInv'
  BY DEF JfjTypes
<1>1. CASE Network /\ UNCHANGED jfjRecvVars
  <2>1. sent' \in Nat /\ held' \subseteq Packet /\ socket' \in Seq(Packet)
    BY <1>1, JfjNetworkTypes
  <2> QED
    BY <2>1, <1>1 DEF JfjTypeInv, JfjBufferInv, Consumed, jfjRecvVars
<1>2. ASSUME NEW b, NEW batch, JfjPass(b, batch),
             sent' \in Nat, held' \subseteq Packet, socket' \in Seq(Packet),
             UNCHANGED <<previous, ram_buffer, published, frames>>
      PROVE  JfjTypeInv' /\ JfjBufferInv'
  <2>1. /\ received' \in Seq(Packet)
        /\ m_frame_index' \in Nat /\ metadata' \in Meta
        /\ frame_buffer' \in [PacketNum -> Nat] /\ pc' \in {"collect", "frame"}
        /\ m_buffer'.container \in [0 .. BatchSize - 1 -> [framenum : Nat, packetnum : Nat]]
        /\ m_buffer'.idx_write \in 0 .. BatchSize /\ m_buffer'.idx_read \in 0 .. m_buffer'.idx_write
        /\ \E n \in Nat : RestOf(m_buffer', received', n)
    BY <1>2, JfjPassTypes
  <2>2. JfjTypeInv'
    BY <1>2, <2>1 DEF JfjTypeInv
  <2>3. PICK n \in Nat : RestOf(m_buffer', received', n)
    BY <2>1
  <2>4. Consumed' = n
    <3>1. Len(received') \in Nat /\ Len(received') - n = PB!size(m_buffer')
      BY <2>1, <2>3 DEF RestOf
    <3> QED
      BY <3>1 DEF Consumed
  <2> QED
    BY <2>2, <2>3, <2>4 DEF RestOf, JfjBufferInv
<1>3. CASE ContinueBuffer
  <2>1. UNCHANGED <<sent, held, socket, previous, ram_buffer, published, frames>>
    BY <1>3 DEF ContinueBuffer, netVars, mainVars
  <2>2. sent' \in Nat /\ held' \subseteq Packet /\ socket' \in Seq(Packet)
    BY <2>1 DEF JfjTypeInv
  <2> QED
    BY <2>1, <2>2, <1>2, <1>3, ContinueBatchPasses
<1>4. CASE FillBuffer
  <2>1. UNCHANGED <<sent, held, previous, ram_buffer, published, frames>>
    BY <1>4 DEF FillBuffer, mainVars
  <2>2. sent' \in Nat /\ held' \subseteq Packet
    BY <2>1 DEF JfjTypeInv
  <2> QED
    BY <2>1, <2>2, <1>2, <1>4, ReceiveBatchPasses
<1>5. CASE ReceiveNothing
  <2>1. m_buffer' = PB!fill_from(PB!reset(m_buffer), -1, <<>>)
    BY <1>5 DEF ReceiveNothing
  <2>2. /\ m_buffer'.idx_write = 0 /\ m_buffer'.idx_read = 0
        /\ m_buffer'.container = [i \in 0 .. BatchSize - 1 |-> m_buffer.container[i]]
    <3>1. \A i \in 0 .. BatchSize - 1 : ~(i < -1)
      OBVIOUS
    <3>2. PB!reset(m_buffer).container = m_buffer.container
      BY DEF PB!reset, JfjTypeInv
    <3> QED
      BY <2>1, <3>1, <3>2 DEF PB!fill_from, PB!Index
  <2>3. /\ m_buffer'.container \in [0 .. BatchSize - 1 -> [framenum : Nat, packetnum : Nat]]
        /\ m_buffer'.idx_write \in 0 .. BatchSize /\ m_buffer'.idx_read \in 0 .. m_buffer'.idx_write
    BY <2>2 DEF JfjTypeInv
  <2>4. /\ UNCHANGED <<sent, held, socket, m_frame_index, metadata, frame_buffer, pc, previous,
                       ram_buffer, published, frames, received>>
    BY <1>5 DEF ReceiveNothing, netVars, mainVars
  <2>5. JfjTypeInv'
    BY <2>3, <2>4 DEF JfjTypeInv
  <2>6. PB!size(m_buffer') = 0 /\ Consumed' = Len(received') /\ Len(received') \in Nat
    BY <2>2, <2>5 DEF Consumed, PB!size, JfjTypeInv
  <2> QED
    BY <2>5, <2>6 DEF JfjBufferInv
<1>6. CASE JfjHandleFrame
  <2>1. PICK frame, slot, s, image :
           /\ frame \in [meta : Meta, data : [PacketNum -> Nat], bad : BOOLEAN]
           /\ image \in ImageMetadata
           /\ published' = published \/ published' = Append(published, image)
           /\ frames' = Append(frames, frame)
           /\ metadata' \in Meta /\ frame_buffer' = NoPixels /\ pc' = "collect"
           /\ previous' \in [pulse_id : Nat, frame_index : Nat]
           /\ UNCHANGED <<sent, held, socket, m_buffer, m_frame_index, received>>
           /\ slot \in [meta : Meta, data : [PacketNum -> Nat]]
           /\ ram_buffer' = ram_buffer \/ ram_buffer' = [ram_buffer EXCEPT ![s] = slot]
    <3> DEFINE slot == [meta |-> metadata,
                        data |-> [p \in PacketNum |-> IF p < NStored THEN frame_buffer[p] ELSE 0]]
    <3>1. slot \in [meta : Meta, data : [PacketNum -> Nat]]
      BY DEF JfjTypeInv
    <3>2. [pulse_id |-> metadata.pulse_id, frame_index |-> metadata.frame_index,
           is_good_image |-> TRUE] \in ImageMetadata
      BY DEF JfjTypeInv, Meta, ImageMetadata
    <3> QED
      BY <3>1, <3>2, <1>6, JfjHandled
  <2>2. frames' \in Seq([meta : Meta, data : [PacketNum -> Nat], bad : BOOLEAN])
    BY <2>1 DEF JfjTypeInv
  <2>3. ram_buffer' \in [0 .. NSlots - 1 -> [meta : Meta, data : [PacketNum -> Nat]]]
    BY <2>1 DEF JfjTypeInv
  <2>4. frame_buffer' \in [PacketNum -> Nat]
    BY <2>1 DEF NoPixels
  <2>5. published' \in Seq(ImageMetadata)
    <3>1. published \in Seq(ImageMetadata) /\ image \in ImageMetadata
      BY <2>1 DEF JfjTypeInv
    <3>2. Append(published, image) \in Seq(ImageMetadata)
      BY <3>1
    <3> QED
      BY <3>1, <3>2, <2>1
  <2> QED
    BY <2>1, <2>2, <2>3, <2>4, <2>5 DEF JfjTypeInv, JfjBufferInv, Consumed
<1>7. CASE UNCHANGED jfjVars
  BY <1>7 DEF jfjVars, netVars, jfjRecvVars, JfjTypeInv, JfjBufferInv, Consumed
<1> QED
  BY <1>1, <1>3, <1>4, <1>5, <1>6, <1>7 DEF JfjNext, JfjReceiver

-----------------------------------------------------------------------------
(* What it publishes.                                                        *)

\* At first no frame is returned.
LEMMA JfjPublishedInit == JfjInit => PublishedInRing
  BY DEF JfjInit, FrameInit, PublishedInRing

\* What is published stays in the ring as long as nothing is published or stored.
LEMMA JfjPublishedStays ==
    ASSUME PublishedInRing, frames' = frames, ram_buffer' = ram_buffer, published' = published
    PROVE  PublishedInRing'
  BY DEF PublishedInRing

\* A good frame fills its slot and is published; nothing else touches the slots.
LEMMA JfjPublishedStep == JfjTypes /\ PublishedInRing /\ [JfjNext]_jfjVars => PublishedInRing'
<1> SUFFICES ASSUME JfjTypeInv, PublishedInRing, [JfjNext]_jfjVars PROVE PublishedInRing'
  BY DEF JfjTypes
<1>1. CASE UNCHANGED <<frames, ram_buffer, published>>
  BY <1>1, JfjPublishedStays
<1>2. CASE JfjHandleFrame
  <2>1. PICK bad \in BOOLEAN :
              LET frame == [meta |-> metadata, data |-> frame_buffer, bad |-> bad] IN
              /\ frames' = Append(frames, frame)
              /\ published' = IF bad THEN published
                              ELSE Append(published, [pulse_id |-> metadata.pulse_id,
                                      frame_index |-> metadata.frame_index, is_good_image |-> TRUE])
              /\ ram_buffer' = IF bad THEN ram_buffer
                               ELSE [ram_buffer EXCEPT ![metadata.pulse_id % NSlots] =
                                       [meta |-> metadata,
                                        data |-> [p \in PacketNum |-> IF p < NStored THEN frame_buffer[p] ELSE 0]]]
    BY <1>2, JfjHandled
  <2> DEFINE n == Len(frames)
             frame == [meta |-> metadata, data |-> frame_buffer, bad |-> bad]
             s == metadata.pulse_id % NSlots
             stored == [meta |-> metadata,
                        data |-> [p \in PacketNum |-> IF p < NStored THEN frame_buffer[p] ELSE 0]]
             image == [pulse_id |-> metadata.pulse_id, frame_index |-> metadata.frame_index, is_good_image |-> TRUE]
             SlotOf(k, fs) == fs[k].meta.pulse_id % NSlots
             Kept(k, fs) == ~fs[k].bad /\ \A l \in k + 1 .. Len(fs) : SlotOf(l, fs) = SlotOf(k, fs) => fs[l].bad
             InRing(k, fs, ram, pub) ==
                /\ ram[SlotOf(k, fs)].meta = fs[k].meta
                /\ \A i \in PacketNum : i < NStored => ram[SlotOf(k, fs)].data[i] = fs[k].data[i]
                /\ \E i \in 1 .. Len(pub) : pub[i].pulse_id = fs[k].meta.pulse_id
  <2>2. /\ \A k \in 1 .. n : Kept(k, frames) => InRing(k, frames, ram_buffer, published)
        /\ n \in Nat
    <3>1. \A k \in 1 .. n : Kept(k, frames) => InRing(k, frames, ram_buffer, published)
      BY Zenon DEF PublishedInRing, PacketNum
    <3>2. n \in Nat
      BY DEF JfjTypeInv
    <3> QED
      BY <3>1, <3>2
  <2>3. PublishedInRing' <=>
          \A k \in 1 .. Len(frames') : Kept(k, frames') => InRing(k, frames', ram_buffer', published')
    BY DEF PublishedInRing, PacketNum
  <2>4. /\ Len(frames') = n + 1 /\ frames'[n + 1] = frame
        /\ \A k \in 1 .. n : frames'[k] = frames[k]
    BY <2>1 DEF JfjTypeInv
  <2>5. /\ \A i \in 1 .. Len(published) : i \in 1 .. Len(published') /\ published'[i] = published[i]
        /\ ~bad => \E i \in 1 .. Len(published') : published'[i].pulse_id = metadata.pulse_id
    <3>1. published \in Seq(ImageMetadata) /\ Len(published) \in Nat
      BY DEF JfjTypeInv
    <3>2. CASE bad
      BY <3>2, <2>1
    <3>3. CASE ~bad
      <4>1. published' = Append(published, image)
        BY <3>3, <2>1
      <4>2. image.pulse_id = metadata.pulse_id
        OBVIOUS
      <4> HIDE DEF image
      <4>3. /\ Len(published') = Len(published) + 1 /\ published'[Len(published) + 1] = image
            /\ \A i \in 1 .. Len(published) : published'[i] = published[i]
        BY <4>1, <3>1
      <4>4. Len(published) + 1 \in 1 .. Len(published')
        BY <4>3, <3>1
      <4> QED
        BY <3>1, <4>2, <4>3, <4>4
    <3> QED
      BY <3>2, <3>3
  <2>6. /\ s \in 0 .. NSlots - 1
        /\ bad => ram_buffer' = ram_buffer
        /\ ~bad => /\ ram_buffer'[s] = stored
                   /\ \A r \in 0 .. NSlots - 1 : r # s => ram_buffer'[r] = ram_buffer[r]
    <3>1. s \in 0 .. NSlots - 1
      <4>1. metadata.pulse_id \in Nat
        BY DEF JfjTypeInv, Meta
      <4> QED
        BY <4>1
    <3>2. ~bad => ram_buffer' = [ram_buffer EXCEPT ![s] = stored]
      BY <2>1
    <3> HIDE DEF s, stored
    <3>3. ram_buffer \in [0 .. NSlots - 1 -> [meta : Meta, data : [PacketNum -> Nat]]]
      BY DEF JfjTypeInv
    <3> QED
      BY <2>1, <3>1, <3>2, <3>3
  <2>7. \A k \in 1 .. n : SlotOf(k, frames) \in 0 .. NSlots - 1
    <3> SUFFICES ASSUME NEW k \in 1 .. n PROVE SlotOf(k, frames) \in 0 .. NSlots - 1
      OBVIOUS
    <3>1. frames \in Seq([meta : Meta, data : [PacketNum -> Nat], bad : BOOLEAN])
      BY DEF JfjTypeInv
    <3>2. frames[k] \in [meta : Meta, data : [PacketNum -> Nat], bad : BOOLEAN]
      BY <3>1, ElementOfSeq
    <3>3. frames[k].meta \in Meta
      BY <3>2
    <3>4. frames[k].meta.pulse_id \in Nat
      BY <3>3 DEF Meta
    <3> QED
      BY <3>4
  <2>8. /\ SlotOf(n + 1, frames') = s
        /\ \A k \in 1 .. n : SlotOf(k, frames') = SlotOf(k, frames)
        /\ frames'[n + 1].meta = metadata /\ frames'[n + 1].data = frame_buffer /\ frames'[n + 1].bad = bad
    BY <2>4
  <2> HIDE DEF frame, s, SlotOf, n, image
  <2>9. ASSUME Kept(n + 1, frames')
        PROVE  InRing(n + 1, frames', ram_buffer', published')
    <3>1. ~bad
      BY <2>8, <2>9
    <3>2. ram_buffer'[s] = stored /\ SlotOf(n + 1, frames') = s
      BY <2>6, <2>8, <3>1
    <3>3. stored.meta = metadata /\ \A i \in PacketNum : i < NStored => stored.data[i] = frame_buffer[i]
      OBVIOUS
    <3> HIDE DEF stored
    <3> QED
      BY <3>1, <3>2, <3>3, <2>5, <2>8
  <2> HIDE DEF stored
  <2>10. ASSUME NEW k \in 1 .. n, Kept(k, frames')
         PROVE  InRing(k, frames', ram_buffer', published')
    <3>1. \A l \in k + 1 .. n : l \in k + 1 .. n + 1 /\ l \in 1 .. n
      BY <2>2
    <3>2. n + 1 \in k + 1 .. n + 1
      BY <2>2
    <3>3. Kept(k, frames)
      BY <2>4, <2>8, <2>10, <3>1 DEF n
    <3>4. InRing(k, frames, ram_buffer, published)
      BY <2>2, <3>3
    <3>5. SlotOf(k, frames) # s \/ bad
      BY <2>4, <2>8, <2>10, <3>2
    <3>6. ram_buffer'[SlotOf(k, frames)] = ram_buffer[SlotOf(k, frames)]
      BY <2>6, <2>7, <3>5
    <3> QED
      BY <2>4, <2>5, <2>8, <3>4, <3>6
  <2>11. \A k \in 1 .. n + 1 : k \in 1 .. n \/ k = n + 1
    BY <2>2
  <2> QED
    BY <2>3, <2>4, <2>9, <2>10, <2>11
<1>3. CASE Network /\ UNCHANGED jfjRecvVars
  BY <1>1, <1>3 DEF jfjRecvVars
<1>4. CASE ContinueBuffer
  BY <1>1, <1>4 DEF ContinueBuffer, mainVars
<1>5. CASE FillBuffer
  BY <1>1, <1>5 DEF FillBuffer, mainVars
<1>6. CASE ReceiveNothing
  BY <1>1, <1>6 DEF ReceiveNothing, mainVars
<1>7. CASE UNCHANGED jfjVars
  BY <1>1, <1>7 DEF jfjVars, jfjRecvVars
<1> QED
  BY <1>2, <1>3, <1>4, <1>5, <1>6, <1>7 DEF JfjNext, JfjReceiver

\* The types hold, and what is in the buffer was received last.
LEMMA JfjTypesKept == JfjSpec => []JfjTypes
<1>1. JfjInit => JfjTypes
  BY JfjTypeInit DEF JfjTypes
<1> QED
  BY <1>1, JfjTypeStep, PTL DEF JfjSpec

\* What the JungfrauJoch receiver published last for a slot is what the slot holds, for any
\* ring and whatever the network does.
THEOREM JfjRing == JfjSpec => []PublishedInRing
<1>1. JfjTypes /\ PublishedInRing /\ [JfjNext]_jfjVars => PublishedInRing'
  BY JfjPublishedStep
<1> QED
  BY <1>1, JfjTypesKept, JfjPublishedInit, PTL DEF JfjSpec

-----------------------------------------------------------------------------
(* What it drops.  In a stream that only loses packets, a returned frame is   *)
(* a part of the stream: its packets from some position on, through to its    *)
(* end.  The packets before that position were dropped, and there is room     *)
(* for less than two batches of them: m_frame_index, once it is a frame       *)
(* number of the stream, stays so close behind.                               *)

OrderedIn(stream) ==
    \A i, j \in 1 .. Len(stream) : i < j =>
        \/ stream[i].framenum < stream[j].framenum
        \/ /\ stream[i].framenum = stream[j].framenum
           /\ stream[i].packetnum < stream[j].packetnum

\* A frame that is begun behind from has nothing two batches before.
BeginsAt(stream, from, frame) ==
    \A i \in 1 .. from : i <= from - (2 * BatchSize - 1) => stream[i].framenum # frame

\* Every returned frame is a part of the stream, and the parts are in order.
ReturnedParts(stream, fs, n) ==
    /\ \A k \in 1 .. Len(fs) : \E from \in 0 .. n, to \in 1 .. n :
          /\ FrameIn(stream, fs[k].meta, fs[k].data, from, to)
          /\ BeginsAt(stream, from, stream[to].framenum)
          /\ to \in EndsIn(stream)
    /\ \A k \in 1 .. Len(fs) : k > 1 => fs[k - 1].meta.frame_index < fs[k].meta.frame_index

\* The frame in progress is the next part.
OpenPart(stream, fs, meta, data, n) ==
    \E from \in 0 .. n :
        /\ IF from = n THEN meta.pulse_id = 0 /\ meta.n_recv_packets = 0 /\ data = NoPixels
           ELSE FrameIn(stream, meta, data, from, n) /\ BeginsAt(stream, from, stream[n].framenum)
        /\ Len(fs) > 0 => \E b \in 1 .. from : /\ b \in EndsIn(stream)
                                              /\ stream[b].framenum = fs[Len(fs)].meta.frame_index

\* Without a frame in progress: what the number index tells of the packets gone.
Awaits(stream, n, index) ==
    /\ \A i \in 1 .. n : i <= n - (BatchSize - 1) => stream[i].framenum <= index
    /\ n > 0 => \/ n < Len(stream) /\ stream[n + 1].framenum = index
                \/ \E i \in 1 .. n : stream[i].framenum = index
    /\ \/ n > 0 /\ stream[n] = [framenum |-> index, packetnum |-> NPackets - 1]
       \/ BeginsAt(stream, n, index)

\* Between two frames one is awaited; within a frame its last packet has not come.
ReadyFor(stream, n, index, meta) ==
    IF meta.pulse_id = 0 THEN Awaits(stream, n, index)
    ELSE n > 0 /\ stream[n].framenum = index /\ stream[n].packetnum # NPackets - 1

\* A frame ends with its last packet, or before a packet of the next one.
Complete(stream, n, index) ==
    /\ n > 0
    /\ \/ stream[n] = [framenum |-> index, packetnum |-> NPackets - 1]
       \/ /\ n < Len(stream) /\ stream[n + 1].framenum = index
          /\ stream[n].framenum # index

\* The frames returned and the one in progress, in the part of the stream read so far.
StreamInv(stream, fs, meta, data, index, where, n) ==
    /\ ReturnedParts(stream, fs, n)
    /\ OpenPart(stream, fs, meta, data, n)
    /\ where = "collect" => /\ ReadyFor(stream, n, index, meta)
                            /\ meta.pulse_id # 0 => n = Len(stream)
    /\ where = "frame" => Complete(stream, n, index) /\ meta.pulse_id # 0

JfjStreamInv ==
    OrderedIn(received) =>
        StreamInv(received, frames, metadata, frame_buffer, m_frame_index, pc, Consumed)

\* Numbers in a stream in order.
LEMMA OrderedNumbers ==
    ASSUME NEW stream \in Seq(Packet), OrderedIn(stream)
    PROVE  /\ \A i \in 1 .. Len(stream) : stream[i].framenum \in FrameNum /\ stream[i].framenum \in Nat \ {0}
                                           /\ stream[i].packetnum \in 0 .. NPackets - 1
           /\ \A i, j \in 1 .. Len(stream) : i <= j => stream[i].framenum <= stream[j].framenum
           /\ \A b \in EndsIn(stream), j \in 1 .. Len(stream) : b < j => stream[b].framenum < stream[j].framenum
<1>1. \A i \in 1 .. Len(stream) : stream[i].framenum \in FrameNum /\ stream[i].framenum \in Nat \ {0}
                                   /\ stream[i].packetnum \in 0 .. NPackets - 1
  <2>1. \A i \in 1 .. Len(stream) : stream[i] \in Packet
    OBVIOUS
  <2>2. FrameNum \subseteq Nat \ {0}
    BY DEF FrameNum
  <2> QED
    BY <2>1, <2>2 DEF Packet, PacketNum
<1>2. ASSUME NEW i \in 1 .. Len(stream), NEW j \in 1 .. Len(stream), i <= j
      PROVE  stream[i].framenum <= stream[j].framenum
  <2>1. CASE i = j
    BY <2>1, <1>1
  <2>2. CASE i # j
    <3>1. i < j
      BY <2>2, <1>2
    <3> QED
      BY <3>1, <1>1 DEF OrderedIn
  <2> QED
    BY <2>1, <2>2
<1>3. ASSUME NEW b \in EndsIn(stream), NEW j \in 1 .. Len(stream), b < j
      PROVE  stream[b].framenum < stream[j].framenum
  <2>1. b \in 1 .. Len(stream) /\ b + 1 \in 1 .. Len(stream) /\ b + 1 <= j /\ b < b + 1
    BY <1>3 DEF EndsIn
  <2>2. stream[b].packetnum = NPackets - 1 \/ stream[b + 1].framenum # stream[b].framenum
    BY DEF EndsIn
  <2>3. \/ stream[b].framenum < stream[b + 1].framenum
        \/ /\ stream[b].framenum = stream[b + 1].framenum
           /\ stream[b].packetnum < stream[b + 1].packetnum
    BY <2>1 DEF OrderedIn
  <2>4. stream[b].packetnum \in Nat /\ stream[b + 1].packetnum \in 0 .. NPackets - 1
        /\ stream[b].framenum \in Nat /\ stream[b + 1].framenum \in Nat /\ stream[j].framenum \in Nat
    BY <2>1, <1>1
  <2>5. stream[b].framenum < stream[b + 1].framenum
    BY <2>2, <2>3, <2>4
  <2>6. stream[b + 1].framenum <= stream[j].framenum
    BY <2>1, <1>2
  <2> QED
    BY <2>4, <2>5, <2>6
<1> QED
  BY <1>1, <1>2, <1>3

\* More packets change nothing.
LEMMA LongerOrdered ==
    ASSUME NEW stream \in Seq(Packet), NEW batch \in Seq(Packet), OrderedIn(stream \o batch)
    PROVE  OrderedIn(stream)
<1> DEFINE longer == stream \o batch
<1>1. /\ Len(longer) = Len(stream) + Len(batch) /\ Len(stream) \in Nat /\ Len(batch) \in Nat
      /\ \A i \in 1 .. Len(stream) : longer[i] = stream[i]
  BY LongerStream
<1>2. OrderedIn(longer)
  OBVIOUS
<1> HIDE DEF longer
<1>3. \A i \in 1 .. Len(stream) : i \in 1 .. Len(longer)
  BY <1>1
<1> QED
  BY <1>1, <1>2, <1>3 DEF OrderedIn

\* What is said of parts of the stream stays true when the stream grows.
LEMMA LongerBegin ==
    ASSUME NEW stream \in Seq(Packet), NEW batch \in Seq(Packet),
           NEW from \in 0 .. Len(stream), NEW frame, BeginsAt(stream, from, frame)
    PROVE  BeginsAt(stream \o batch, from, frame)
<1>1. \A i \in 1 .. Len(stream) : (stream \o batch)[i] = stream[i]
  BY LongerStream
<1>2. \A i \in 1 .. from : i \in 1 .. Len(stream)
  OBVIOUS
<1> QED
  BY <1>1, <1>2 DEF BeginsAt

\* This holds of the returned parts ...
LEMMA LongerParts ==
    ASSUME NEW stream \in Seq(Packet), NEW batch \in Seq(Packet), NEW fs,
           NEW n \in 0 .. Len(stream), ReturnedParts(stream, fs, n)
    PROVE  ReturnedParts(stream \o batch, fs, n)
<1> DEFINE longer == stream \o batch
<1>1. ASSUME NEW k \in 1 .. Len(fs)
      PROVE  \E from \in 0 .. n, to \in 1 .. n :
               /\ FrameIn(longer, fs[k].meta, fs[k].data, from, to)
               /\ BeginsAt(longer, from, longer[to].framenum)
               /\ to \in EndsIn(longer)
  <2>1. PICK from \in 0 .. n, to \in 1 .. n :
           /\ FrameIn(stream, fs[k].meta, fs[k].data, from, to)
           /\ BeginsAt(stream, from, stream[to].framenum)
           /\ to \in EndsIn(stream)
    BY DEF ReturnedParts
  <2>2. /\ from \in 0 .. Len(stream) /\ to \in 1 .. Len(stream)
        /\ from \in Nat /\ to \in Nat /\ to <= Len(stream)
    OBVIOUS
  <2>3. longer[to] = stream[to]
    BY <2>2, LongerStream
  <2>4. to \in EndsIn(longer)
    BY <2>1, LongerEnds
  <2>5. BeginsAt(longer, from, longer[to].framenum)
    BY <2>1, <2>2, <2>3, LongerBegin
  <2>6. FrameIn(longer, fs[k].meta, fs[k].data, from, to)
    BY <2>1, <2>2, LongerFrame
  <2> QED
    BY <2>4, <2>5, <2>6
<1> HIDE DEF longer
<1>2. ReturnedParts(longer, fs, n)
  BY <1>1 DEF ReturnedParts
<1> QED
  BY <1>2 DEF longer

\* ... of the frame in progress ...
LEMMA LongerOpenPart ==
    ASSUME NEW stream \in Seq(Packet), NEW batch \in Seq(Packet), NEW fs, NEW meta, NEW data,
           NEW n \in 0 .. Len(stream), OpenPart(stream, fs, meta, data, n)
    PROVE  OpenPart(stream \o batch, fs, meta, data, n)
<1> DEFINE longer == stream \o batch
<1>1. PICK from \in 0 .. n :
        /\ IF from = n THEN meta.pulse_id = 0 /\ meta.n_recv_packets = 0 /\ data = NoPixels
           ELSE FrameIn(stream, meta, data, from, n) /\ BeginsAt(stream, from, stream[n].framenum)
        /\ Len(fs) > 0 => \E b \in 1 .. from : /\ b \in EndsIn(stream)
                                              /\ stream[b].framenum = fs[Len(fs)].meta.frame_index
  BY DEF OpenPart
<1>2. from \in 0 .. Len(stream) /\ from \in Nat /\ n \in Nat /\ n <= Len(stream)
  OBVIOUS
<1>3. \A i \in 1 .. n : longer[i] = stream[i]
  BY LongerStream
<1>4. EndsIn(stream) \subseteq EndsIn(longer)
  BY LongerEnds
<1>5. from # n => FrameIn(longer, meta, data, from, n) /\ BeginsAt(longer, from, longer[n].framenum)
  <2> SUFFICES ASSUME from # n
               PROVE  FrameIn(longer, meta, data, from, n) /\ BeginsAt(longer, from, longer[n].framenum)
    OBVIOUS
  <2>1. n \in 1 .. n
    BY <1>2
  <2> QED
    BY <2>1, <1>1, <1>2, <1>3, LongerFrame, LongerBegin
<1> HIDE DEF longer
<1>6. Len(fs) > 0 => \E b \in 1 .. from : /\ b \in EndsIn(longer)
                                         /\ longer[b].framenum = fs[Len(fs)].meta.frame_index
  <2>1. \A b \in 1 .. from : b \in 1 .. n
    BY <1>2
  <2> QED
    BY <2>1, <1>1, <1>3, <1>4
<1>7. OpenPart(longer, fs, meta, data, n)
  BY <1>1, <1>5, <1>6 DEF OpenPart
<1> QED
  BY <1>7 DEF longer

\* ... and of the frame that is awaited.
LEMMA LongerReady ==
    ASSUME NEW stream \in Seq(Packet), NEW batch \in Seq(Packet), NEW meta, NEW index,
           ReadyFor(stream, Len(stream), index, meta)
    PROVE  ReadyFor(stream \o batch, Len(stream), index, meta)
<1> DEFINE longer == stream \o batch
           n == Len(stream)
<1>1. n \in Nat /\ \A i \in 1 .. n : longer[i] = stream[i]
  BY LongerStream
<1>2. n > 0 => n \in 1 .. n
  BY <1>1
<1>3. n \in 0 .. Len(stream)
  BY <1>1
<1>4. BeginsAt(stream, n, index) => BeginsAt(longer, n, index)
  BY <1>3, LongerBegin
<1>5. ~(n < Len(stream))
  BY <1>1
<1> HIDE DEF longer
<1>6. CASE meta.pulse_id = 0
  <2>1. Awaits(stream, n, index)
    BY <1>6 DEF ReadyFor
  <2>2. Awaits(longer, n, index)
    BY <2>1, <1>1, <1>2, <1>4, <1>5 DEF Awaits
  <2> QED
    BY <2>2, <1>6 DEF ReadyFor, longer
<1>7. CASE meta.pulse_id # 0
  <2>1. n > 0 /\ stream[n].framenum = index /\ stream[n].packetnum # NPackets - 1
    BY <1>7 DEF ReadyFor
  <2>2. longer[n] = stream[n]
    BY <2>1, <1>1, <1>2
  <2> QED
    BY <2>1, <2>2, <1>7 DEF ReadyFor, longer
<1> QED
  BY <1>6, <1>7

\* A pass continues the frame in progress, or begins the one expected.
LEMMA PassGrows ==
    ASSUME NEW stream \in Seq(Packet), OrderedIn(stream), NEW n \in Nat, n < Len(stream),
           NEW stop \in 0 .. Len(stream) - n,
           metadata \in Meta, frame_buffer \in [PacketNum -> Nat], Filled(stream, n, stop),
           OpenPart(stream, frames, metadata, frame_buffer, n),
           ReadyFor(stream, n, m_frame_index, metadata)
    PROVE  OpenPart(stream, frames, metadata', frame_buffer', n + stop)
<1> DEFINE Named(from) ==
             Len(frames) > 0 => \E b \in 1 .. from : /\ b \in EndsIn(stream)
                                                   /\ stream[b].framenum = frames[Len(frames)].meta.frame_index
<1>1. PICK from \in 0 .. n :
        /\ IF from = n THEN metadata.pulse_id = 0 /\ metadata.n_recv_packets = 0 /\ frame_buffer = NoPixels
           ELSE FrameIn(stream, metadata, frame_buffer, from, n) /\ BeginsAt(stream, from, stream[n].framenum)
        /\ Named(from)
  BY DEF OpenPart
<1> HIDE DEF Named
<1>2. stop \in Nat /\ n + stop \in Nat /\ Len(stream) \in Nat /\ n + stop <= Len(stream) /\ from \in Nat /\ from <= n
  OBVIOUS
<1>3. CASE stop = 0
  <2>1. metadata' = metadata
    BY <1>3 DEF Filled
  <2>2. frame_buffer' = frame_buffer
    <3>1. \A i \in n + 1 .. n + stop : FALSE
      BY <1>2, <1>3
    <3> QED
      BY <3>1 DEF Filled
  <2>3. n + stop = n
    BY <1>3
  <2> QED
    BY <2>1, <2>2, <2>3
<1>4. CASE stop > 0
  <2> DEFINE to == n + stop
             index == m_frame_index
  <2>1. \A i \in n + 1 .. to : stream[i].framenum = index
    BY DEF Filled
  <2>2. /\ to \in n + 1 .. to /\ n + 1 \in n + 1 .. to /\ to \in 1 .. Len(stream) /\ n + 1 \in 1 .. Len(stream)
        /\ n < to /\ from < to
    BY <1>2, <1>4
  <2>3. stream[to].framenum = index /\ stream[n + 1].framenum = index
    BY <2>1, <2>2
  <2>4. /\ metadata' = [pulse_id |-> PulseOf[index], frame_index |-> index,
                        n_recv_packets |-> metadata.n_recv_packets + stop]
        /\ frame_buffer' = [p \in PacketNum |->
                              IF \E i \in n + 1 .. to : stream[i].packetnum = p THEN index ELSE frame_buffer[p]]
    BY <1>2, <1>4 DEF Filled
  <2>5. index \in FrameNum
    BY <2>2, <2>3, OrderedNumbers
  <2> HIDE DEF to
  <2>6. CASE from = n
    <3>1. metadata.pulse_id = 0 /\ metadata.n_recv_packets = 0 /\ frame_buffer = NoPixels
      BY <1>1, <2>6
    <3>2. BeginsAt(stream, n, index)
      <4>1. \/ n > 0 /\ stream[n] = [framenum |-> index, packetnum |-> NPackets - 1]
            \/ BeginsAt(stream, n, index)
        BY <3>1 DEF ReadyFor, Awaits
      <4>2. ASSUME n > 0, stream[n] = [framenum |-> index, packetnum |-> NPackets - 1] PROVE FALSE
        <5>1. n \in 1 .. Len(stream) /\ n < n + 1
          BY <4>2, <1>2
        <5>2. n \in EndsIn(stream)
          BY <4>2, <5>1 DEF EndsIn
        <5>3. stream[n].framenum < stream[n + 1].framenum
          BY <5>1, <5>2, <2>2, OrderedNumbers
        <5>4. index < index
          BY <5>3, <4>2, <2>3
        <5>5. index \in Nat
          BY <2>5 DEF FrameNum
        <5> HIDE DEF index
        <5> QED
          BY <5>4, <5>5
      <4> QED
        BY <4>1, <4>2
    <3>3. 0 + stop = to - n /\ stop = to - n
      BY <1>2 DEF to
    <3>4. frame_buffer' = [p \in PacketNum |->
                            IF \E i \in n + 1 .. to : stream[i].packetnum = p THEN index ELSE 0]
      BY <2>4, <3>1 DEF NoPixels
    <3>5. metadata' = [pulse_id |-> PulseOf[index], frame_index |-> index, n_recv_packets |-> to - n]
      BY <2>4, <3>1, <3>3
    <3>6. FrameIn(stream, metadata', frame_buffer', n, to)
      BY <2>1, <2>2, <2>3, <3>4, <3>5 DEF FrameIn
    <3>7. n \in 0 .. to /\ n # to
      BY <2>2, <1>2 DEF to
    <3>8. Named(n)
      BY <1>1, <2>6
    <3> QED
      BY <3>2, <3>6, <3>7, <3>8, <2>3 DEF OpenPart, Named, to
  <2>7. CASE from # n
    <3>1. FrameIn(stream, metadata, frame_buffer, from, n) /\ BeginsAt(stream, from, stream[n].framenum)
      BY <1>1, <2>7
    <3>2. n > 0 /\ n \in 1 .. Len(stream) /\ n \in from + 1 .. n /\ from < n
      BY <2>7, <1>2
    <3>3. stream[n].framenum = index
      <4>1. stream[n].framenum \in FrameNum
        BY <3>2, OrderedNumbers
      <4>2. metadata.pulse_id # 0
        BY <3>1, <4>1 DEF FrameIn
      <4> QED
        BY <4>2 DEF ReadyFor
    <3>4. \A i \in from + 1 .. to : i \in from + 1 .. n \/ i \in n + 1 .. to
      BY <1>2 DEF to
    <3>5. /\ \A i \in from + 1 .. n : i \in from + 1 .. to
          /\ \A i \in n + 1 .. to : i \in from + 1 .. to
      BY <1>2, <2>2 DEF to
    <3>6. \A i \in from + 1 .. to : stream[i].framenum = index
      BY <2>1, <3>1, <3>3, <3>4 DEF FrameIn
    <3>7. /\ metadata.n_recv_packets = n - from
          /\ frame_buffer = [p \in PacketNum |->
                               IF \E i \in from + 1 .. n : stream[i].packetnum = p THEN index ELSE 0]
      BY <3>1, <3>3 DEF FrameIn
    <3>8. metadata' = [pulse_id |-> PulseOf[index], frame_index |-> index, n_recv_packets |-> to - from]
      <4>1. (n - from) + stop = to - from
        BY <1>2 DEF to
      <4> QED
        BY <4>1, <2>4, <3>7
    <3>9. frame_buffer' = [p \in PacketNum |->
                            IF \E i \in from + 1 .. to : stream[i].packetnum = p THEN index ELSE 0]
      BY <2>4, <3>4, <3>5, <3>7
    <3>10. FrameIn(stream, metadata', frame_buffer', from, to)
      BY <2>2, <2>3, <3>6, <3>8, <3>9 DEF FrameIn
    <3>11. from \in 0 .. to /\ from # to
      BY <2>2, <1>2 DEF to
    <3> QED
      BY <3>1, <3>3, <3>10, <3>11, <2>3, <1>1 DEF OpenPart, Named, to
  <2> QED
    BY <2>6, <2>7
<1> QED
  BY <1>2, <1>3, <1>4

\* Parts of what was read so far stay that when more is read.
LEMMA PartsStay ==
    ASSUME NEW stream, NEW fs, NEW n \in Nat, NEW m \in Nat, n <= m, ReturnedParts(stream, fs, n)
    PROVE  ReturnedParts(stream, fs, m)
<1>1. 0 .. n \subseteq 0 .. m /\ 1 .. n \subseteq 1 .. m
  OBVIOUS
<1> QED
  BY <1>1 DEF ReturnedParts

\* A batch that is dropped leaves what Awaits says, of its first frame.
LEMMA DroppedAwaits ==
    ASSUME NEW stream \in Seq(Packet), OrderedIn(stream), NEW n \in Nat, n < Len(stream),
           Len(stream) - n <= BatchSize, NEW index \in Nat, Awaits(stream, n, index),
           stream[n + 1].framenum # index
    PROVE  Awaits(stream, Len(stream), stream[n + 1].framenum)
<1> DEFINE next == stream[n + 1].framenum
           len == Len(stream)
<1>1. len \in Nat /\ n + 1 \in 1 .. len /\ len <= n + BatchSize /\ BatchSize \in Nat \ {0}
  OBVIOUS
<1>2. \A i \in 1 .. len : stream[i].framenum \in Nat
  BY OrderedNumbers
<1>3. \A i \in 1 .. len : i <= n + 1 => stream[i].framenum <= next
  BY <1>1, OrderedNumbers
<1>4. next \in Nat
  BY <1>1, <1>2
<1> HIDE DEF next, len
<1>5. \A i \in 1 .. len : i <= len - (BatchSize - 1) => stream[i].framenum <= next
  <2>1. \A i \in 1 .. len : i <= len - (BatchSize - 1) => i <= n + 1
    BY <1>1
  <2> QED
    BY <2>1, <1>3
<1>6. n > 0 => index < next
  <2> SUFFICES ASSUME n > 0 PROVE index < next
    OBVIOUS
  <2>1. PICK i \in 1 .. n : stream[i].framenum = index
    BY DEF Awaits
  <2>2. i \in 1 .. len /\ i <= n + 1
    BY <1>1
  <2>3. index <= next /\ index # next
    BY <2>1, <2>2, <1>3 DEF next
  <2> QED
    BY <2>3, <1>4
<1>7. ASSUME NEW i \in 1 .. len, i <= len - (2 * BatchSize - 1)
      PROVE  stream[i].framenum # next
  <2>1. i <= n - (BatchSize - 1) /\ i \in 1 .. n /\ n > 0
    BY <1>1, <1>7
  <2>2. stream[i].framenum <= index
    BY <2>1 DEF Awaits
  <2> QED
    BY <2>1, <2>2, <1>2, <1>4, <1>6
<1>8. BeginsAt(stream, len, next)
  BY <1>7 DEF BeginsAt
<1>9. \E i \in 1 .. len : stream[i].framenum = next
  BY <1>1 DEF next
<1> QED
  BY <1>5, <1>8, <1>9 DEF Awaits, next, len

\* Whichever way a pass ends, the parts of the stream are as they should be.
LEMMA PassParts ==
    ASSUME NEW stream \in Seq(Packet), OrderedIn(stream), NEW n \in Nat, n < Len(stream),
           Len(stream) - n <= BatchSize, NEW stop \in 0 .. Len(stream) - n,
           metadata \in Meta, frame_buffer \in [PacketNum -> Nat], m_frame_index \in Nat,
           Filled(stream, n, stop),
           \/ ClosedBy(stream, n, stop) \/ FinishedAt(stream, n, stop)
           \/ BatchDropped(stream, n, stop) \/ BatchUsedUp(stream, n, stop),
           ReturnedParts(stream, frames, n),
           OpenPart(stream, frames, metadata, frame_buffer, n),
           ReadyFor(stream, n, m_frame_index, metadata),
           NEW m, m = Len(stream) - PB!size(m_buffer')
    PROVE  StreamInv(stream, frames, metadata', frame_buffer', m_frame_index', pc', m)
<1> DEFINE to == n + stop
           index == m_frame_index
<1>1. stop \in Nat /\ to \in Nat /\ Len(stream) \in Nat /\ n <= to /\ to <= Len(stream)
  OBVIOUS
<1>2. OpenPart(stream, frames, metadata', frame_buffer', to)
  BY PassGrows
<1>3. ReturnedParts(stream, frames, to) /\ ReturnedParts(stream, frames, Len(stream))
  BY <1>1, PartsStay
<1>4. /\ RestOf(m_buffer', stream, to) => m = to
      /\ RestOf(m_buffer', stream, Len(stream)) => m = Len(stream)
  <2>1. ASSUME NEW k \in Nat, RestOf(m_buffer', stream, k)
        PROVE  m = k
    <3>1. Len(stream) - k = PB!size(m_buffer')
      BY <2>1 DEF RestOf
    <3> QED
      BY <3>1, <1>1
  <2> QED
    BY <2>1, <1>1
<1>5. stop > 0 => to \in 1 .. Len(stream) /\ to > 0 /\ stream[to].framenum = index
  <2>1. stop > 0 => to \in n + 1 .. to
    BY <1>1
  <2> QED
    BY <2>1, <1>1 DEF Filled
<1>6. CASE ClosedBy(stream, n, stop)
  <2>1. /\ stop > 0 /\ stream[to].packetnum = NPackets - 1
        /\ metadata'.pulse_id # 0 /\ pc' = "frame" /\ m_frame_index' = index
        /\ m = to
    BY <1>4, <1>6 DEF ClosedBy
  <2>2. stream[to] = [framenum |-> index, packetnum |-> NPackets - 1]
    <3>1. stream[to] \in Packet
      BY <2>1, <1>5
    <3> QED
      BY <3>1, <2>1, <1>5 DEF Packet
  <2>3. Complete(stream, to, index)
    BY <2>1, <2>2, <1>5 DEF Complete
  <2> QED
    BY <2>1, <2>3, <1>2, <1>3 DEF StreamInv
<1>7. CASE FinishedAt(stream, n, stop)
  <2>1. /\ to < Len(stream) /\ stream[to + 1].framenum # index
        /\ m_frame_index' = stream[to + 1].framenum
        /\ metadata'.pulse_id # 0 /\ pc' = "frame" /\ m = to
    BY <1>4, <1>7 DEF FinishedAt
  <2>2. to > 0 /\ stream[to].framenum = index
    <3>1. CASE stop > 0
      BY <3>1, <1>5
    <3>2. CASE stop = 0
      <4>1. metadata'.pulse_id = metadata.pulse_id /\ to = n
        BY <3>2, <1>1 DEF Filled
      <4> QED
        BY <4>1, <2>1 DEF ReadyFor
    <3> QED
      BY <3>1, <3>2, <1>1
  <2>3. Complete(stream, to, m_frame_index')
    BY <2>1, <2>2 DEF Complete
  <2> QED
    BY <2>1, <2>3, <1>2, <1>3 DEF StreamInv
<1>8. CASE BatchDropped(stream, n, stop)
  <2>1. /\ stop = 0 /\ metadata.pulse_id = 0 /\ stream[n + 1].framenum # index
        /\ m_frame_index' = stream[n + 1].framenum /\ pc' = "collect" /\ m = Len(stream)
    BY <1>4, <1>8 DEF BatchDropped
  <2>2. metadata' = metadata /\ to = n
    BY <2>1, <1>1 DEF Filled
  <2>3. Awaits(stream, Len(stream), m_frame_index')
    <3>1. Awaits(stream, n, index)
      BY <2>1 DEF ReadyFor
    <3> QED
      BY <3>1, <2>1, DroppedAwaits
  <2>4. OpenPart(stream, frames, metadata', frame_buffer', Len(stream))
    <3>1. PICK from \in 0 .. n :
            /\ IF from = n
               THEN metadata'.pulse_id = 0 /\ metadata'.n_recv_packets = 0 /\ frame_buffer' = NoPixels
               ELSE FrameIn(stream, metadata', frame_buffer', from, n) /\ BeginsAt(stream, from, stream[n].framenum)
            /\ Len(frames) > 0 => \E b \in 1 .. from : /\ b \in EndsIn(stream)
                                            /\ stream[b].framenum = frames[Len(frames)].meta.frame_index
      BY <1>2, <2>2 DEF OpenPart
    <3>2. from = n
      <4> SUFFICES ASSUME from # n PROVE FALSE
        OBVIOUS
      <4>1. metadata'.pulse_id = PulseOf[stream[n].framenum]
        BY <3>1 DEF FrameIn
      <4>2. n \in 1 .. Len(stream)
        BY <1>1
      <4>3. stream[n].framenum \in FrameNum
        BY <4>2, OrderedNumbers
      <4> QED
        BY <4>1, <4>3, <2>1, <2>2
    <3>3. n \in 0 .. Len(stream) /\ Len(stream) \in 0 .. Len(stream) /\ 1 .. n \subseteq 1 .. Len(stream)
      BY <1>1
    <3> QED
      BY <3>1, <3>2, <3>3 DEF OpenPart
  <2> QED
    BY <2>1, <2>2, <2>3, <2>4, <1>3 DEF StreamInv, ReadyFor
<1>9. CASE BatchUsedUp(stream, n, stop)
  <2>1. /\ stop > 0 /\ to = Len(stream) /\ stream[to].packetnum # NPackets - 1
        /\ m_frame_index' = index /\ pc' = "collect" /\ m = to
    BY <1>4, <1>9 DEF BatchUsedUp
  <2>2. metadata'.pulse_id # 0
    <3>1. index \in FrameNum
      BY <2>1, <1>5, OrderedNumbers
    <3>2. metadata'.pulse_id = PulseOf[index]
      BY <2>1, <1>1 DEF Filled
    <3> QED
      BY <3>1, <3>2
  <2>3. ReadyFor(stream, to, index, metadata')
    BY <2>1, <2>2, <1>5 DEF ReadyFor
  <2> QED
    BY <2>1, <2>2, <2>3, <1>2, <1>3 DEF StreamInv
<1> QED
  BY <1>6, <1>7, <1>8, <1>9

\* A frame that is handled was the frame in progress: it becomes the last part returned.
LEMMA HandledParts ==
    ASSUME NEW stream \in Seq(Packet), OrderedIn(stream), NEW n \in 0 .. Len(stream),
           frames \in Seq([meta : Meta, data : [PacketNum -> Nat], bad : BOOLEAN]),
           StreamInv(stream, frames, metadata, frame_buffer, m_frame_index, "frame", n),
           NEW frame, frame.meta = metadata, frame.data = frame_buffer,
           NEW meta, meta.pulse_id = 0, meta.n_recv_packets = 0
    PROVE  StreamInv(stream, Append(frames, frame), meta, NoPixels, m_frame_index, "collect", n)
<1> DEFINE fs == Append(frames, frame)
           len == Len(frames)
           index == m_frame_index
<1>1. /\ len \in Nat /\ Len(fs) = len + 1 /\ fs[len + 1] = frame
      /\ \A k \in 1 .. len : fs[k] = frames[k]
  OBVIOUS
<1> HIDE DEF fs, len
<1>2. ReturnedParts(stream, frames, n) /\ Complete(stream, n, index) /\ metadata.pulse_id # 0
  BY DEF StreamInv
<1>3. PICK from \in 0 .. n :
        /\ IF from = n THEN metadata.pulse_id = 0 /\ metadata.n_recv_packets = 0 /\ frame_buffer = NoPixels
           ELSE FrameIn(stream, metadata, frame_buffer, from, n) /\ BeginsAt(stream, from, stream[n].framenum)
        /\ len > 0 => \E b \in 1 .. from : /\ b \in EndsIn(stream)
                                          /\ stream[b].framenum = frames[len].meta.frame_index
  BY DEF StreamInv, OpenPart, len
<1>4. /\ FrameIn(stream, metadata, frame_buffer, from, n) /\ BeginsAt(stream, from, stream[n].framenum)
      /\ from < n
  BY <1>2, <1>3 DEF FrameIn
<1>5. n \in 1 .. Len(stream) /\ n \in 1 .. n /\ n \in Nat /\ from \in Nat /\ Len(stream) \in Nat
  BY <1>4
<1>6. n \in EndsIn(stream)
  BY <1>2, <1>5 DEF Complete, EndsIn
<1>7. metadata.frame_index = stream[n].framenum
  BY <1>4 DEF FrameIn
<1>8. ReturnedParts(stream, fs, n)
  <2>1. ASSUME NEW k \in 1 .. len + 1
        PROVE  \E f \in 0 .. n, to \in 1 .. n :
                 /\ FrameIn(stream, fs[k].meta, fs[k].data, f, to)
                 /\ BeginsAt(stream, f, stream[to].framenum)
                 /\ to \in EndsIn(stream)
    <3>1. CASE k \in 1 .. len
      BY <3>1, <1>1, <1>2 DEF ReturnedParts, len
    <3>2. CASE k = len + 1
      BY <3>2, <1>1, <1>4, <1>5, <1>6
    <3> QED
      BY <3>1, <3>2, <1>1
  <2>2. ASSUME NEW k \in 1 .. len + 1, k > 1
        PROVE  fs[k - 1].meta.frame_index < fs[k].meta.frame_index
    <3>1. CASE k \in 1 .. len
      <4>1. k - 1 \in 1 .. len
        BY <2>2, <3>1, <1>1
      <4> QED
        BY <3>1, <4>1, <2>2, <1>1, <1>2 DEF ReturnedParts, len
    <3>2. CASE k = len + 1
      <4>1. len > 0 /\ len \in 1 .. len /\ k - 1 = len
        BY <2>2, <3>2, <1>1
      <4>2. PICK b \in 1 .. from : /\ b \in EndsIn(stream)
                                  /\ stream[b].framenum = frames[len].meta.frame_index
        BY <4>1, <1>3
      <4>3. b < n
        BY <1>4, <1>5
      <4>4. stream[b].framenum < stream[n].framenum
        BY <4>2, <4>3, <1>5, OrderedNumbers
      <4> QED
        BY <3>2, <4>1, <4>2, <4>4, <1>1, <1>7
    <3> QED
      BY <3>1, <3>2, <1>1
  <2> QED
    BY <2>1, <2>2, <1>1 DEF ReturnedParts
<1>9. OpenPart(stream, fs, meta, NoPixels, n)
  <2>1. n \in 0 .. n
    BY <1>5
  <2>2. stream[n].framenum = fs[Len(fs)].meta.frame_index
    BY <1>1, <1>7
  <2> QED
    BY <2>1, <2>2, <1>5, <1>6 DEF OpenPart
<1>10. Awaits(stream, n, index)
  <2>1. \A i \in 1 .. n : i \in 1 .. Len(stream) /\ i <= n
    BY <1>5
  <2>2. \A i \in 1 .. n : stream[i].framenum \in Nat /\ stream[i].framenum <= stream[n].framenum
    BY <2>1, <1>5, OrderedNumbers
  <2>3. CASE stream[n] = [framenum |-> index, packetnum |-> NPackets - 1]
    <3>1. stream[n].framenum = index
      BY <2>3
    <3> QED
      BY <3>1, <2>2, <2>3, <1>5 DEF Awaits
  <2>4. CASE /\ n < Len(stream) /\ stream[n + 1].framenum = index
             /\ stream[n].framenum # index
    <3>1. n + 1 \in 1 .. Len(stream) /\ n <= n + 1
      BY <2>4, <1>5
    <3>2. stream[n].framenum < index /\ index \in Nat /\ stream[n].framenum \in Nat
      <4>1. stream[n].framenum <= stream[n + 1].framenum /\ stream[n + 1].framenum \in Nat
            /\ stream[n].framenum \in Nat
        BY <3>1, <1>5, OrderedNumbers
      <4> QED
        BY <4>1, <2>4
    <3>3. \A i \in 1 .. n : stream[i].framenum < index
      BY <2>2, <3>2
    <3>4. BeginsAt(stream, n, index)
      BY <2>2, <3>2, <3>3 DEF BeginsAt
    <3> QED
      BY <3>2, <3>3, <3>4, <2>2, <2>4 DEF Awaits
  <2> QED
    BY <2>3, <2>4, <1>2 DEF Complete
<1> QED
  BY <1>8, <1>9, <1>10 DEF StreamInv, ReadyFor, fs

\* The parts of the stream: at first there are none ...
LEMMA JfjStreamInit == ASSUME JfjInit PROVE JfjStreamInv
<1>1. /\ received = <<>> /\ frames = <<>> /\ pc = "collect"
      /\ metadata.pulse_id = 0 /\ metadata.n_recv_packets = 0 /\ frame_buffer = NoPixels
      /\ m_buffer.idx_write = 0 /\ m_buffer.idx_read = 0
  BY DEF JfjInit, FrameInit, NoFrame, NoPixels, PacketNum, PB!NewBuffer
<1>2. Consumed = 0
  BY <1>1 DEF Consumed, PB!size
<1>3. \A i \in 1 .. 0 : FALSE
  OBVIOUS
<1>4. Len(frames) = 0
  BY <1>1
<1>5. ReturnedParts(received, frames, 0)
  BY <1>3, <1>4 DEF ReturnedParts
<1>6. OpenPart(received, frames, metadata, frame_buffer, 0)
  BY <1>1, <1>4 DEF OpenPart
<1>7. Awaits(received, 0, m_frame_index)
  BY <1>3 DEF Awaits, BeginsAt
<1> QED
  BY <1>1, <1>2, <1>5, <1>6, <1>7 DEF JfjStreamInv, StreamInv, ReadyFor

\* ... a pass keeps them ...
LEMMA JfjPassStream ==
    ASSUME JfjTypes, JfjStreamInv, NEW b, NEW batch, JfjPass(b, batch), frames' = frames
    PROVE  JfjStreamInv'
<1> SUFFICES ASSUME OrderedIn(received')
             PROVE  StreamInv(received', frames', metadata', frame_buffer', m_frame_index', pc', Consumed')
  BY DEF JfjStreamInv
<1> DEFINE stream == received'
           n == Consumed
           m == Consumed'
<1>1. /\ received \in Seq(Packet) /\ batch \in Seq(Packet) /\ stream = received \o batch
      /\ metadata \in Meta /\ frame_buffer \in [PacketNum -> Nat] /\ m_frame_index \in Nat
      /\ pc = "collect"
      /\ n < Len(stream) /\ RestOf(b, stream, n) /\ jfj_process_packets(b)
      /\ batch # <<>> => n = Len(received)
      /\ n \in Nat
  BY DEF JfjPass, JfjTypes, JfjTypeInv, JfjBufferInv
<1>2. stream \in Seq(Packet) /\ Len(stream) \in Nat /\ Len(received) \in Nat
  BY <1>1, LongerStream
<1>3. Len(stream) - n <= BatchSize
  <2>1. Len(stream) - n = b.idx_write - b.idx_read /\ b.idx_write \in 0 .. BatchSize /\ b.idx_read \in 0 .. b.idx_write
    BY <1>1 DEF RestOf, PB!size
  <2> HIDE DEF stream, n
  <2> QED
    BY <2>1, <1>1, <1>2
<1>4. n <= Len(received)
  BY ConsumedIs DEF JfjTypes
<1>5. m = Len(stream) - PB!size(m_buffer')
  BY DEF Consumed
<1>6. OrderedIn(stream)
  OBVIOUS
<1>7. OrderedIn(received)
  BY <1>1, <1>6, LongerOrdered
<1>8. /\ ReturnedParts(received, frames, n)
      /\ OpenPart(received, frames, metadata, frame_buffer, n)
      /\ ReadyFor(received, n, m_frame_index, metadata)
  BY <1>1, <1>7 DEF JfjStreamInv, StreamInv
<1> HIDE DEF stream, n, m
<1>9. /\ ReturnedParts(stream, frames, n)
      /\ OpenPart(stream, frames, metadata, frame_buffer, n)
  <2>1. n \in 0 .. Len(received)
    BY <1>1, <1>2, <1>4
  <2> QED
    BY <2>1, <1>1, <1>8, LongerParts, LongerOpenPart
<1>10. ReadyFor(stream, n, m_frame_index, metadata)
  <2>1. CASE batch = <<>>
    <3>1. stream = received
      BY <2>1, <1>1
    <3> QED
      BY <3>1, <1>8
  <2>2. CASE batch # <<>>
    BY <2>2, <1>1, <1>8, LongerReady
  <2> QED
    BY <2>1, <2>2
<1>11. PICK stop \in 0 .. Len(stream) - n :
         /\ Filled(stream, n, stop)
         /\ \/ ClosedBy(stream, n, stop) \/ FinishedAt(stream, n, stop)
            \/ BatchDropped(stream, n, stop) \/ BatchUsedUp(stream, n, stop)
  BY <1>1, <1>2, PassTakes
<1>12. StreamInv(stream, frames, metadata', frame_buffer', m_frame_index', pc', m)
  BY <1>1, <1>2, <1>3, <1>5, <1>6, <1>9, <1>10, <1>11, PassParts
<1> QED
  BY <1>12 DEF stream, m

\* ... and so does every step.
LEMMA JfjStreamStep == JfjTypes /\ JfjStreamInv /\ [JfjNext]_jfjVars => JfjStreamInv'
<1> SUFFICES ASSUME JfjTypes, JfjStreamInv, [JfjNext]_jfjVars PROVE JfjStreamInv'
  OBVIOUS
<1>0. JfjTypeInv /\ JfjBufferInv
  BY DEF JfjTypes
<1>1. CASE UNCHANGED <<received, frames, metadata, frame_buffer, m_frame_index, pc>> /\ Consumed' = Consumed
  BY <1>1 DEF JfjStreamInv
<1>2. CASE Network /\ UNCHANGED jfjRecvVars
  BY <1>1, <1>2 DEF jfjRecvVars, Consumed
<1>3. CASE ContinueBuffer
  <2>1. frames' = frames
    BY <1>3 DEF ContinueBuffer, mainVars
  <2> QED
    BY <2>1, <1>0, <1>3, ContinueBatchPasses, JfjPassStream
<1>4. CASE FillBuffer
  <2>1. frames' = frames
    BY <1>4 DEF FillBuffer, mainVars
  <2> QED
    BY <2>1, <1>0, <1>4, ReceiveBatchPasses, JfjPassStream
<1>5. CASE ReceiveNothing
  <2>1. UNCHANGED <<received, frames, metadata, frame_buffer, m_frame_index, pc>>
    BY <1>5 DEF ReceiveNothing, mainVars
  <2>2. m_buffer'.idx_write = 0 /\ m_buffer'.idx_read = 0 /\ m_buffer.idx_write <= m_buffer.idx_read
    BY <1>5 DEF ReceiveNothing, PB!fill_from, PB!reset, PB!is_empty
  <2>3. m_buffer.idx_write - m_buffer.idx_read = 0
    BY <2>2, <1>0 DEF JfjTypeInv
  <2>4. Consumed' = Consumed
    BY <2>1, <2>2, <2>3 DEF Consumed, PB!size
  <2> QED
    BY <2>1, <2>4, <1>1
<1>6. CASE JfjHandleFrame
  <2>1. PICK bad \in BOOLEAN :
          LET frame == [meta |-> metadata, data |-> frame_buffer, bad |-> bad] IN
          /\ frames' = Append(frames, frame)
          /\ metadata' = [metadata EXCEPT !.pulse_id = 0, !.n_recv_packets = 0]
          /\ frame_buffer' = NoPixels
          /\ pc = "frame" /\ pc' = "collect"
          /\ UNCHANGED <<m_buffer, m_frame_index, received>>
    BY <1>0, <1>6, JfjHandled
  <2> SUFFICES ASSUME OrderedIn(received)
               PROVE  StreamInv(received', frames', metadata', frame_buffer', m_frame_index', pc', Consumed')
    BY <2>1 DEF JfjStreamInv
  <2> DEFINE frame == [meta |-> metadata, data |-> frame_buffer, bad |-> bad]
             meta == [metadata EXCEPT !.pulse_id = 0, !.n_recv_packets = 0]
             n == Consumed
  <2>2. frame.meta = metadata /\ frame.data = frame_buffer
    OBVIOUS
  <2>3. meta.pulse_id = 0 /\ meta.n_recv_packets = 0
    BY <1>0 DEF JfjTypeInv, Meta
  <2>4. n \in 0 .. Len(received)
    BY <1>0, ConsumedIs
  <2>5. StreamInv(received, frames, metadata, frame_buffer, m_frame_index, "frame", n)
    BY <2>1 DEF JfjStreamInv
  <2>6. Consumed' = n
    BY <2>1 DEF Consumed
  <2>7. /\ received \in Seq(Packet)
        /\ frames \in Seq([meta : Meta, data : [PacketNum -> Nat], bad : BOOLEAN])
    BY <1>0 DEF JfjTypeInv
  <2>8. /\ frames' = Append(frames, frame) /\ metadata' = meta /\ frame_buffer' = NoPixels
        /\ m_frame_index' = m_frame_index /\ pc' = "collect" /\ received' = received
    BY <2>1
  <2> HIDE DEF frame, meta, n
  <2>9. StreamInv(received, Append(frames, frame), meta, NoPixels, m_frame_index, "collect", n)
    BY <2>2, <2>3, <2>4, <2>5, <2>7, HandledParts
  <2> QED
    BY <2>6, <2>8, <2>9
<1>7. CASE UNCHANGED jfjVars
  BY <1>1, <1>7 DEF jfjVars, jfjRecvVars, Consumed
<1> QED
  BY <1>2, <1>3, <1>4, <1>5, <1>6, <1>7 DEF JfjNext, JfjReceiver

\* The inductive invariant of the JungfrauJoch receiver.
JfjInv == JfjTypes /\ JfjStreamInv

\* In every state of the JungfrauJoch receiver the buffer holds what was received last and,
\* if packets come in order, every returned frame is a part of the stream.
THEOREM JfjInvariant == JfjSpec => []JfjInv
<1>1. JfjInit => JfjInv
  BY JfjTypeInit, JfjStreamInit DEF JfjInv, JfjTypes
<1>2. JfjInv /\ [JfjNext]_jfjVars => JfjInv'
  BY JfjTypeStep, JfjStreamStep DEF JfjInv
<1> QED
  BY <1>1, <1>2, PTL DEF JfjSpec

\* Counting the values of a function on an interval.
ValuesOn(f, a, b) == {f[i] : i \in a + 1 .. b}

\* There are at most as many as the interval is long, and as many if no two are the same.
LEMMA CountValues ==
    ASSUME NEW a \in Nat, NEW b \in Nat, a <= b, NEW f
    PROVE  /\ IsFiniteSet(ValuesOn(f, a, b))
           /\ Cardinality(ValuesOn(f, a, b)) \in Nat
           /\ Cardinality(ValuesOn(f, a, b)) <= b - a
           /\ (\A i, j \in a + 1 .. b : f[i] = f[j] => i = j)
              => Cardinality(ValuesOn(f, a, b)) = b - a
<1> DEFINE D == a + 1 .. b
           S == {f[i] : i \in D}
           g == [i \in D |-> f[i]]
<1>1. IsFiniteSet(D) /\ Cardinality(D) = b - a
  <2>1. a + 1 \in Int /\ b \in Int
    OBVIOUS
  <2>2. IsFiniteSet(D) /\ Cardinality(D) = IF a + 1 > b THEN 0 ELSE b - (a + 1) + 1
    BY <2>1, FS_Interval, Zenon
  <2> HIDE DEF D
  <2> QED
    BY <2>2
<1>2. g \in Surjection(D, S)
  BY DEF Surjection
<1>3. (\A i, j \in D : f[i] = f[j] => i = j) => g \in Injection(D, S)
  BY DEF Injection, IsInjective
<1> HIDE DEF D, S, g
<1>4. /\ IsFiniteSet(S) /\ Cardinality(S) <= Cardinality(D)
      /\ Cardinality(S) = Cardinality(D) <=> g \in Injection(D, S)
  BY <1>1, <1>2, FS_Surjection
<1>5. Cardinality(S) \in Nat
  BY <1>4, FS_CardinalityType
<1> QED
  BY <1>1, <1>3, <1>4, <1>5 DEF D, S, ValuesOn

\* The packets of a part of the stream.
NumbersIn(stream, from, to) == {stream[i].packetnum : i \in from + 1 .. to}

\* A frame that is a part of the stream has each of its packets once.
LEMMA PacketsOfPart ==
    ASSUME NEW stream \in Seq(Packet), OrderedIn(stream),
           NEW from \in 0 .. Len(stream), NEW to \in 1 .. Len(stream),
           NEW meta, NEW data, FrameIn(stream, meta, data, from, to)
    PROVE  /\ {p \in PacketNum : data[p] # 0} = NumbersIn(stream, from, to)
           /\ \A p \in PacketNum : data[p] # 0 => data[p] = meta.frame_index
           /\ meta.n_recv_packets = Cardinality(NumbersIn(stream, from, to))
<1> DEFINE frame == stream[to].framenum
           numbers == [i \in 1 .. Len(stream) |-> stream[i].packetnum]
<1>1. /\ from < to /\ from \in Nat /\ to \in Nat /\ Len(stream) \in Nat
      /\ \A i \in from + 1 .. to : i \in 1 .. Len(stream) /\ stream[i].framenum = frame
      /\ meta.frame_index = frame /\ meta.n_recv_packets = to - from
      /\ data = [p \in PacketNum |->
                   IF \E i \in from + 1 .. to : stream[i].packetnum = p THEN frame ELSE 0]
  BY DEF FrameIn
<1>2. frame # 0 /\ \A i \in 1 .. Len(stream) : stream[i].packetnum \in PacketNum /\ stream[i].packetnum \in Nat
  BY OrderedNumbers DEF PacketNum
<1> HIDE DEF frame
<1>3. {p \in PacketNum : data[p] # 0} = NumbersIn(stream, from, to)
  BY <1>1, <1>2 DEF NumbersIn
<1>4. ASSUME NEW i \in from + 1 .. to, NEW j \in from + 1 .. to, numbers[i] = numbers[j]
      PROVE  i = j
  <2>1. /\ i \in 1 .. Len(stream) /\ j \in 1 .. Len(stream) /\ i \in Nat /\ j \in Nat
        /\ stream[i].framenum = stream[j].framenum /\ stream[i].packetnum = stream[j].packetnum
    BY <1>1, <1>4
  <2>2. stream[i].framenum \in Nat /\ stream[i].packetnum \in Nat
    BY <2>1, <1>2, OrderedNumbers
  <2>3. ASSUME NEW l \in 1 .. Len(stream), NEW m \in 1 .. Len(stream), l < m
        PROVE  \/ stream[l].framenum < stream[m].framenum
               \/ stream[l].packetnum < stream[m].packetnum
    BY <2>3 DEF OrderedIn
  <2>4. \A x \in Nat : ~(x < x)
    OBVIOUS
  <2>5. ~(i < j)
    BY <2>1, <2>2, <2>3, <2>4
  <2>6. ~(j < i)
    BY <2>1, <2>2, <2>3, <2>4
  <2> QED
    BY <2>1, <2>5, <2>6
<1>5. NumbersIn(stream, from, to) = ValuesOn(numbers, from, to)
  BY <1>1 DEF NumbersIn, ValuesOn
<1> HIDE DEF numbers
<1>6. Cardinality(NumbersIn(stream, from, to)) = to - from
  <2>1. from <= to
    BY <1>1
  <2> QED
    BY <2>1, <1>1, <1>4, <1>5, CountValues
<1> QED
  BY <1>1, <1>3, <1>6

\* The frame k that was returned, and the part of the stream it is.
ReturnedAs(k, from, to) ==
    /\ FrameIn(received, frames[k].meta, frames[k].data, from, to)
    /\ BeginsAt(received, from, received[to].framenum)
    /\ to \in EndsIn(received)
    /\ frames[k].meta.frame_index = received[to].framenum
    /\ Has(frames[k]) = NumbersIn(received, from, to)
    /\ Should(frames[k]) =
          {p \in PacketNum : \E i \in 1 .. Len(received) :
              received[i] = [framenum |-> received[to].framenum, packetnum |-> p]}

\* There is one.
LEMMA ReturnedPart ==
    ASSUME JfjInv, OrderedIn(received), NEW k \in 1 .. Len(frames)
    PROVE  \E from \in 0 .. Len(received), to \in 1 .. Len(received) : ReturnedAs(k, from, to)
<1>1. received \in Seq(Packet) /\ Len(received) \in Nat
  BY DEF JfjInv, JfjTypes, JfjTypeInv
<1>2. Consumed \in 0 .. Len(received)
  BY ConsumedIs DEF JfjInv, JfjTypes
<1>3. Consumed \in Nat /\ Consumed <= Len(received)
  BY <1>1, <1>2
<1>4. PICK from \in 0 .. Consumed, to \in 1 .. Consumed :
        /\ FrameIn(received, frames[k].meta, frames[k].data, from, to)
        /\ BeginsAt(received, from, received[to].framenum)
        /\ to \in EndsIn(received)
  BY DEF JfjInv, JfjStreamInv, StreamInv, ReturnedParts
<1>5. from \in 0 .. Len(received) /\ to \in 1 .. Len(received)
  BY <1>1, <1>2, <1>3
<1>6. frames[k].meta.frame_index = received[to].framenum
  BY <1>4 DEF FrameIn
<1>7. Has(frames[k]) = NumbersIn(received, from, to)
  BY <1>1, <1>4, <1>5, PacketsOfPart DEF Has, PacketNum
<1> QED
  BY <1>4, <1>5, <1>6, <1>7 DEF ReturnedAs, Should, PacketNum

\* So it is made of packets of its frame, each counted once.
LEMMA JfjPure == JfjInv => FramesPure
<1> SUFFICES ASSUME JfjInv, OrderedIn(received), NEW k \in 1 .. Len(frames)
             PROVE  /\ \A p \in Has(frames[k]) : frames[k].data[p] = frames[k].meta.frame_index
                    /\ frames[k].meta.pulse_id = PulseOf[frames[k].meta.frame_index]
                    /\ frames[k].meta.n_recv_packets = Cardinality(Has(frames[k]))
                    /\ Has(frames[k]) \subseteq Should(frames[k])
                    /\ k > 1 => frames[k - 1].meta.frame_index < frames[k].meta.frame_index
  BY DEF FramesPure, InOrder, OrderedIn
<1>0. PICK from \in 0 .. Len(received), to \in 1 .. Len(received) : ReturnedAs(k, from, to)
  BY ReturnedPart
<1>1. /\ FrameIn(received, frames[k].meta, frames[k].data, from, to)
      /\ frames[k].meta.frame_index = received[to].framenum
      /\ Has(frames[k]) = NumbersIn(received, from, to)
      /\ Should(frames[k]) =
            {p \in PacketNum : \E i \in 1 .. Len(received) :
                received[i] = [framenum |-> received[to].framenum, packetnum |-> p]}
  BY <1>0 DEF ReturnedAs
<1>2. received \in Seq(Packet)
  BY DEF JfjInv, JfjTypes, JfjTypeInv
<1>3. /\ \A p \in Has(frames[k]) : frames[k].data[p] = frames[k].meta.frame_index
      /\ frames[k].meta.n_recv_packets = Cardinality(Has(frames[k]))
  <2>1. Has(frames[k]) = {p \in PacketNum : frames[k].data[p] # 0}
    BY DEF Has, PacketNum
  <2>2. /\ \A p \in PacketNum : frames[k].data[p] # 0 => frames[k].data[p] = frames[k].meta.frame_index
        /\ frames[k].meta.n_recv_packets = Cardinality(NumbersIn(received, from, to))
    BY <1>1, <1>2, PacketsOfPart
  <2> QED
    BY <1>1, <2>1, <2>2
<1>4. frames[k].meta.pulse_id = PulseOf[frames[k].meta.frame_index]
  BY <1>1 DEF FrameIn
<1>5. NumbersIn(received, from, to) \subseteq
        {p \in PacketNum : \E i \in 1 .. Len(received) :
            received[i] = [framenum |-> received[to].framenum, packetnum |-> p]}
  <2> SUFFICES ASSUME NEW i \in from + 1 .. to
               PROVE  /\ received[i].packetnum \in PacketNum
                      /\ i \in 1 .. Len(received)
                      /\ received[i] = [framenum |-> received[to].framenum, packetnum |-> received[i].packetnum]
    BY DEF NumbersIn
  <2>1. i \in 1 .. Len(received)
    OBVIOUS
  <2>2. received[i] \in Packet /\ received[i].framenum = received[to].framenum
    BY <2>1, <1>1, <1>2, ElementOfSeq DEF FrameIn
  <2> QED
    BY <2>1, <2>2 DEF Packet
<1>6. k > 1 => frames[k - 1].meta.frame_index < frames[k].meta.frame_index
  BY DEF JfjInv, JfjStreamInv, StreamInv, ReturnedParts
<1> QED
  BY <1>1, <1>3, <1>4, <1>5, <1>6

\* What it lacks lies before its part, less than two batches back.
LEMMA JfjDrops == JfjInv => DropsOnlyBeginning
<1> SUFFICES ASSUME JfjInv, OrderedIn(received), NEW k \in 1 .. Len(frames)
             PROVE  LET dropped == Should(frames[k]) \ Has(frames[k]) IN
                    /\ Cardinality(dropped) < 2 * BatchSize
                    /\ \A p \in dropped, q \in Has(frames[k]) : p < q
  BY DEF DropsOnlyBeginning, InOrder, OrderedIn
<1>0. PICK from \in 0 .. Len(received), to \in 1 .. Len(received) : ReturnedAs(k, from, to)
  BY ReturnedPart
<1>1. /\ FrameIn(received, frames[k].meta, frames[k].data, from, to)
      /\ BeginsAt(received, from, received[to].framenum)
      /\ to \in EndsIn(received)
      /\ Has(frames[k]) = NumbersIn(received, from, to)
      /\ Should(frames[k]) =
            {p \in PacketNum : \E i \in 1 .. Len(received) :
                received[i] = [framenum |-> received[to].framenum, packetnum |-> p]}
  BY <1>0 DEF ReturnedAs
<1> DEFINE stream == received
           len == Len(stream)
           dropped == Should(frames[k]) \ Has(frames[k])
           back == 2 * BatchSize - 1
           lo == IF from < back THEN 0 ELSE from - back
           numbers == [i \in 1 .. len |-> stream[i].packetnum]
<1>2. stream \in Seq(Packet) /\ len \in Nat /\ OrderedIn(stream)
  BY DEF JfjInv, JfjTypes, JfjTypeInv
<1>3. /\ from \in Nat /\ to \in Nat /\ from < to /\ back \in Nat /\ 2 * BatchSize \in Nat
      /\ back < 2 * BatchSize
  BY <1>1, <1>2 DEF FrameIn
<1>4. lo \in Nat /\ lo <= from /\ from - lo <= back
  <2> HIDE DEF back
  <2> QED
    BY <1>3
<1>5. ASSUME NEW p \in dropped
      PROVE  \E i \in lo + 1 .. from : /\ i \in 1 .. len /\ stream[i].packetnum = p
                                       /\ stream[i].framenum = stream[to].framenum
  <2>1. PICK i \in 1 .. len : stream[i] = [framenum |-> stream[to].framenum, packetnum |-> p]
    BY <1>1
  <2>2. stream[i].framenum = stream[to].framenum /\ stream[i].packetnum = p
    BY <2>1
  <2>3. i \notin from + 1 .. to
    <3> SUFFICES ASSUME i \in from + 1 .. to PROVE p \in NumbersIn(stream, from, to)
      BY <1>1
    <3> QED
      BY <2>2 DEF NumbersIn
  <2>4. ~(to < i)
    <3> SUFFICES ASSUME to < i PROVE FALSE
      OBVIOUS
    <3>1. stream[to].framenum < stream[i].framenum /\ stream[i].framenum \in Nat
      BY <1>1, <1>2, OrderedNumbers
    <3> QED
      BY <3>1, <2>2
  <2>5. i <= from /\ i \in 1 .. from
    BY <2>3, <2>4, <1>2, <1>3
  <2>6. ~(i <= from - back)
    BY <2>2, <2>5, <1>1 DEF BeginsAt
  <2>7. i \in lo + 1 .. from
    <3> HIDE DEF back
    <3> QED
      BY <2>5, <2>6, <1>3
  <2> QED
    BY <2>2, <2>7
<1> HIDE DEF lo, back, dropped
<1>6. Cardinality(dropped) < 2 * BatchSize
  <2> DEFINE S == ValuesOn(numbers, lo, from)
  <2>1. IsFiniteSet(S) /\ Cardinality(S) <= from - lo /\ Cardinality(S) \in Nat
    <3> HIDE DEF numbers
    <3> QED
      BY <1>3, <1>4, CountValues
  <2>2. dropped \subseteq S
    <3>1. ASSUME NEW p \in dropped
          PROVE  p \in ValuesOn(numbers, lo, from)
      <4>1. PICK i \in lo + 1 .. from : i \in 1 .. len /\ stream[i].packetnum = p
        BY <1>5
      <4> QED
        BY <4>1 DEF ValuesOn
    <3> QED
      BY <3>1
  <2> HIDE DEF S, numbers
  <2>3. Cardinality(dropped) <= Cardinality(S) /\ Cardinality(dropped) \in Nat
    BY <2>1, <2>2, FS_Subset, FS_CardinalityType
  <2> QED
    BY <2>1, <2>3, <1>3, <1>4
<1>7. ASSUME NEW p \in dropped, NEW q \in Has(frames[k])
      PROVE  p < q
  <2>1. PICK i \in lo + 1 .. from : /\ i \in 1 .. len /\ stream[i].packetnum = p
                                   /\ stream[i].framenum = stream[to].framenum
    BY <1>5
  <2>2. PICK j \in from + 1 .. to : stream[j].packetnum = q
    BY <1>1 DEF NumbersIn
  <2>3. stream[j].framenum = stream[to].framenum /\ j \in 1 .. len /\ i < j
    BY <1>1, <1>2, <1>3, <1>4, <2>1 DEF FrameIn
  <2>4. stream[i].framenum \in Nat
    BY <1>2, <2>1, OrderedNumbers
  <2> QED
    BY <1>2, <2>1, <2>2, <2>3, <2>4 DEF OrderedIn
<1> QED
  BY <1>6, <1>7 DEF dropped

\* In a stream that only loses packets, what the JungfrauJoch receiver returns is made of
\* packets of one frame each, all counted, frame after frame: for any number of frames and
\* packets and any batches.
THEOREM JfjFramesArePure == JfjSpec => []FramesPure
  BY JfjInvariant, JfjPure, PTL

\* What it drops of a frame it returns is the beginning, and less than two batches.
THEOREM JfjDropsLittle == JfjSpec => []DropsOnlyBeginning
  BY JfjInvariant, JfjDrops, PTL

-----------------------------------------------------------------------------
(* The premise InOrder: a network that only loses packets, whichever it loses, *)
(* keeps them in order, read and unread together.                              *)

\* p was sent before the packet number k.
SentBefore(p, k) ==
    \/ p.framenum < PacketAt(k).framenum
    \/ p.framenum = PacketAt(k).framenum /\ p.packetnum < PacketAt(k).packetnum

\* A stream of what was sent before packet number k, in order.
SentInOrder(stream, k) ==
    OrderedIn(stream) /\ \A i \in 1 .. Len(stream) : SentBefore(stream[i], k)

\* What is received and what waits in the socket, one behind the other, is what was sent
\* so far, less the losses.
NetOrder == held = {} /\ SentInOrder(received \o socket, sent)

\* The detector sends its packets in the order of frame and packet number.
LEMMA NextPacket ==
    ASSUME NEW k \in Nat
    PROVE  /\ PacketAt(k).framenum \in Nat /\ PacketAt(k).packetnum \in Nat
           /\ SentBefore(PacketAt(k), k + 1)
<1> DEFINE q == k \div NPackets
           r == k % NPackets
<1>1. k = NPackets * q + r /\ q \in Nat /\ r \in 0 .. NPackets - 1
  OBVIOUS
<1>2. CASE r < NPackets - 1
  <2>1. k + 1 = NPackets * q + (r + 1) /\ r + 1 \in 0 .. NPackets - 1
    BY <1>1, <1>2
  <2>2. (k + 1) \div NPackets = q /\ (k + 1) % NPackets = r + 1
    BY <2>1, <1>1
  <2> QED
    BY <2>2, <1>1 DEF SentBefore, PacketAt
<1>3. CASE r = NPackets - 1
  <2>1. k + 1 = NPackets * (q + 1) /\ q + 1 \in Nat
    BY <1>1, <1>3
  <2>2. (k + 1) \div NPackets = q + 1
    BY <2>1
  <2> QED
    BY <2>2, <1>1 DEF SentBefore, PacketAt
<1> QED
  BY <1>1, <1>2, <1>3

\* What was sent before a packet was sent before the next one.
LEMMA StillBefore ==
    ASSUME NEW k \in Nat, NEW p, p.framenum \in Nat, p.packetnum \in Nat, SentBefore(p, k)
    PROVE  SentBefore(p, k + 1)
<1> DEFINE this == PacketAt(k)
           next == PacketAt(k + 1)
<1>1. /\ this.framenum \in Nat /\ this.packetnum \in Nat
      /\ next.framenum \in Nat /\ next.packetnum \in Nat
      /\ \/ this.framenum < next.framenum
         \/ this.framenum = next.framenum /\ this.packetnum < next.packetnum
  BY NextPacket DEF SentBefore
<1>2. \/ p.framenum < this.framenum
      \/ p.framenum = this.framenum /\ p.packetnum < this.packetnum
  BY DEF SentBefore
<1> HIDE DEF this, next
<1>3. \/ p.framenum < next.framenum
      \/ p.framenum = next.framenum /\ p.packetnum < next.packetnum
  BY <1>1, <1>2
<1> QED
  BY <1>3 DEF SentBefore, next

\* A packet that is sent goes behind what was sent before.
LEMMA OrderedAppend ==
    ASSUME NEW stream \in Seq(Packet), OrderedIn(stream), NEW k \in Nat, k < NSent,
           \A i \in 1 .. Len(stream) : SentBefore(stream[i], k),
           NEW longer \in {stream, Append(stream, PacketAt(k))}
    PROVE  /\ OrderedIn(longer)
           /\ \A i \in 1 .. Len(longer) : SentBefore(longer[i], k + 1)
<1>1. /\ PacketAt(k).framenum \in Nat /\ PacketAt(k).packetnum \in Nat
      /\ PacketAt(k + 1).framenum \in Nat /\ PacketAt(k + 1).packetnum \in Nat
      /\ SentBefore(PacketAt(k), k + 1)
  BY NextPacket
<1>2. \A i \in 1 .. Len(stream) : stream[i].framenum \in Nat /\ stream[i].packetnum \in Nat
  BY OrderedNumbers
<1>3. \A i \in 1 .. Len(stream) : SentBefore(stream[i], k + 1)
  BY <1>2, StillBefore
<1>4. CASE longer = stream
  BY <1>3, <1>4
<1>5. CASE longer = Append(stream, PacketAt(k))
  <2>1. /\ Len(longer) = Len(stream) + 1 /\ Len(stream) \in Nat
        /\ \A i \in 1 .. Len(stream) : longer[i] = stream[i]
        /\ longer[Len(stream) + 1] = PacketAt(k)
    BY <1>5
  <2>2. \A i \in 1 .. Len(longer) : i \in 1 .. Len(stream) \/ i = Len(stream) + 1
    BY <2>1
  <2>3. \A i \in 1 .. Len(longer) : SentBefore(longer[i], k + 1)
    BY <2>1, <2>2, <1>1, <1>3
  <2>4. ASSUME NEW i \in 1 .. Len(longer), NEW j \in 1 .. Len(longer), i < j
        PROVE  \/ longer[i].framenum < longer[j].framenum
               \/ /\ longer[i].framenum = longer[j].framenum
                  /\ longer[i].packetnum < longer[j].packetnum
    <3>1. i \in 1 .. Len(stream) /\ longer[i] = stream[i]
      <4>1. \A m \in Nat : \A a, b \in 1 .. m + 1 : a < b => a \in 1 .. m
        OBVIOUS
      <4>2. i \in 1 .. Len(stream) + 1 /\ j \in 1 .. Len(stream) + 1
        BY <2>1
      <4>3. i \in 1 .. Len(stream)
        BY <2>1, <2>4, <4>1, <4>2
      <4> QED
        BY <2>1, <4>3
    <3>2. CASE j \in 1 .. Len(stream)
      <4>1. longer[j] = stream[j]
        BY <3>2, <2>1
      <4> QED
        BY <3>1, <3>2, <4>1, <2>4, SMTT(20) DEF OrderedIn
    <3>3. CASE j = Len(stream) + 1
      BY <3>1, <3>3, <2>1 DEF SentBefore
    <3> QED
      BY <3>2, <3>3, <2>2
  <2> QED
    BY <2>3, <2>4 DEF OrderedIn
<1> QED
  BY <1>4, <1>5

\* Without faults other than losses, nothing overtakes anything.
LEMMA NetworkOrders ==
    ASSUME Faults \subseteq {"lost"}, NetOrder, Network, received' = received,
           received \in Seq(Packet), socket \in Seq(Packet), sent \in Nat
    PROVE  NetOrder'
<1> DEFINE stream == received \o socket
<1>1. Deliver \/ Lose
  BY DEF NetOrder, Network, Delay, Double, Arrive
<1>2. /\ sent < NSent /\ sent' = sent + 1 /\ held' = {}
      /\ socket' = socket \/ socket' = Append(socket, PacketAt(sent))
  BY <1>1 DEF Deliver, Lose, Send, Receive, NetOrder
<1>3. PacketAt(sent) \in Packet /\ stream \in Seq(Packet)
  BY <1>2, PacketSent
<1>4. received' \o socket' \in {stream, Append(stream, PacketAt(sent))}
  <2>1. received \o Append(socket, PacketAt(sent)) = Append(received \o socket, PacketAt(sent))
    BY <1>3
  <2> QED
    BY <1>2, <2>1
<1>5. OrderedIn(stream) /\ \A i \in 1 .. Len(stream) : SentBefore(stream[i], sent)
  BY DEF NetOrder, SentInOrder
<1> DEFINE longer == received' \o socket'
<1> HIDE DEF stream, longer
<1>6. OrderedIn(longer) /\ \A i \in 1 .. Len(longer) : SentBefore(longer[i], sent + 1)
  BY <1>2, <1>3, <1>4, <1>5, OrderedAppend DEF longer
<1> QED
  BY <1>2, <1>6 DEF NetOrder, SentInOrder, longer

\* Joining sequences of packets is associative.
Joins(r, s, t) == (r \o s) \o t = r \o (s \o t)

\* It does not matter which two are joined first.
LEMMA Joining ==
    ASSUME NEW r \in Seq(Packet), NEW s \in Seq(Packet), NEW t \in Seq(Packet)
    PROVE  Joins(r, s, t)
  BY DEF Joins

\* Reading moves packets, and leaves them where they are in the stream.
LEMMA ReadingOrders ==
    ASSUME NetOrder, received \in Seq(Packet), socket \in Seq(Packet),
           NEW n \in 1 .. BatchSize, n <= Len(socket),
           received' = received \o SubSeq(socket, 1, n),
           socket' = SubSeq(socket, n + 1, Len(socket)),
           sent' = sent, held' = held
    PROVE  NetOrder'
<1> DEFINE read == SubSeq(socket, 1, n)
           rest == SubSeq(socket, n + 1, Len(socket))
<1>1. read \in Seq(Packet) /\ rest \in Seq(Packet)
  OBVIOUS
<1>2. read \o rest = socket
  <2>1. 1 \in 1 .. Len(socket) + 1 /\ n \in 1 - 1 .. Len(socket) /\ Len(socket) \in n .. Len(socket)
    OBVIOUS
  <2>2. read \o rest = SubSeq(socket, 1, Len(socket))
    BY <2>1, ConcatAdjacentSubSeq
  <2> QED
    BY <2>2, SubSeqFull
<1> HIDE DEF read, rest
<1>3. Joins(received, read, rest)
  BY <1>1, Joining
<1>4. received' \o socket' = received \o socket
  BY <1>2, <1>3 DEF Joins, read, rest
<1> QED
  BY <1>4 DEF NetOrder

\* What is in order with what follows it is in order.
LEMMA ReceivedInOrder ==
    ASSUME NetOrder, received \in Seq(Packet), socket \in Seq(Packet)
    PROVE  OrderedIn(received)
<1>1. /\ Len(received) \in Nat /\ Len(received \o socket) = Len(received) + Len(socket)
      /\ Len(socket) \in Nat
      /\ \A i \in 1 .. Len(received) : (received \o socket)[i] = received[i]
  OBVIOUS
<1>2. \A i \in 1 .. Len(received) : i \in 1 .. Len(received \o socket)
  BY <1>1
<1> QED
  BY <1>1, <1>2 DEF NetOrder, SentInOrder, OrderedIn

\* At first nothing is sent.
LEMMA NetOrderInit == ASSUME NetInit, received = <<>> PROVE NetOrder
<1>1. Len(received \o socket) = 0
  BY DEF NetInit
<1> QED
  BY <1>1 DEF NetInit, NetOrder, SentInOrder, OrderedIn

\* A network that only loses packets delivers to the module receiver in order: the premise
\* of BadIffGap holds there.
THEOREM LossesInOrder == ASSUME Faults \subseteq {"lost"} PROVE Spec => []InOrder
<1>1. Init => NetOrder
  BY NetOrderInit DEF Init, FrameInit
<1>2. Inv /\ NetOrder /\ [Next]_vars => NetOrder'
  <2> SUFFICES ASSUME Inv, NetOrder, [Next]_vars PROVE NetOrder'
    OBVIOUS
  <2>1. received \in Seq(Packet) /\ socket \in Seq(Packet) /\ sent \in Nat
    BY DEF Inv, TypeInv
  <2>2. CASE Network /\ UNCHANGED recvVars
    BY <2>1, <2>2, NetworkOrders DEF recvVars
  <2>3. CASE ReceiveBatch
    <3>1. PICK n \in 1 .. BatchSize :
            /\ n <= Len(socket)
            /\ received' = received \o SubSeq(socket, 1, n)
            /\ socket' = SubSeq(socket, n + 1, Len(socket))
      BY <2>3 DEF ReceiveBatch
    <3>2. sent' = sent /\ held' = held
      BY <2>3 DEF ReceiveBatch
    <3> QED
      BY <2>1, <3>1, <3>2, ReadingOrders
  <2>4. sent' = sent /\ held' = held /\ socket' = socket /\ received' = received => NetOrder'
    BY DEF NetOrder
  <2>5. CASE ContinueBatch
    <3>1. UNCHANGED netVars /\ received' = received
      BY <2>5, Zenon DEF ContinueBatch
    <3> QED
      BY <2>4, <3>1 DEF netVars
  <2>6. CASE HandleFrame
    BY <2>4, <2>6 DEF HandleFrame, TakeFrame, netVars
  <2>7. CASE UNCHANGED vars
    BY <2>4, <2>7 DEF vars, recvVars, netVars
  <2> QED
    BY <2>2, <2>3, <2>5, <2>6, <2>7 DEF Next, Receiver
<1>3. Inv /\ NetOrder => InOrder
  BY ReceivedInOrder DEF Inv, TypeInv, InOrder, OrderedIn
<1> QED
  BY <1>1, <1>2, <1>3, Invariant, PTL DEF Spec

\* The same for the JungfrauJoch receiver: the premise of FramesPure and DropsOnlyBeginning
\* holds there.
THEOREM JfjLossesInOrder == ASSUME Faults \subseteq {"lost"} PROVE JfjSpec => []InOrder
<1>1. JfjInit => NetOrder
  BY NetOrderInit DEF JfjInit, FrameInit, NetInit
<1>2. JfjTypes /\ NetOrder /\ [JfjNext]_jfjVars => NetOrder'
  <2> SUFFICES ASSUME JfjTypes, NetOrder, [JfjNext]_jfjVars PROVE NetOrder'
    OBVIOUS
  <2>1. received \in Seq(Packet) /\ socket \in Seq(Packet) /\ sent \in Nat
    BY DEF JfjTypes, JfjTypeInv
  <2>2. CASE Network /\ UNCHANGED jfjRecvVars
    BY <2>1, <2>2, NetworkOrders DEF jfjRecvVars
  <2>3. CASE FillBuffer
    <3>1. PICK n \in 1 .. BatchSize :
            /\ n <= Len(socket)
            /\ received' = received \o SubSeq(socket, 1, n)
            /\ socket' = SubSeq(socket, n + 1, Len(socket))
      BY <2>3 DEF FillBuffer
    <3>2. sent' = sent /\ held' = held
      BY <2>3 DEF FillBuffer
    <3> QED
      BY <2>1, <3>1, <3>2, ReadingOrders
  <2>4. sent' = sent /\ held' = held /\ socket' = socket /\ received' = received => NetOrder'
    BY DEF NetOrder
  <2>5. CASE ContinueBuffer \/ ReceiveNothing
    BY <2>4, <2>5 DEF ContinueBuffer, ReceiveNothing, netVars
  <2>6. CASE JfjHandleFrame
    BY <2>4, <2>6 DEF JfjHandleFrame, JfjTakeFrame, netVars
  <2>7. CASE UNCHANGED jfjVars
    BY <2>4, <2>7 DEF jfjVars, jfjRecvVars, netVars
  <2> QED
    BY <2>2, <2>3, <2>5, <2>6, <2>7 DEF JfjNext, JfjReceiver
<1>3. JfjTypes /\ NetOrder => InOrder
  BY ReceivedInOrder DEF JfjTypes, JfjTypeInv, InOrder, OrderedIn
<1> QED
  BY <1>1, <1>2, <1>3, JfjTypesKept, PTL DEF JfjSpec
=============================================================================
