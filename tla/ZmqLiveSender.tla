---------------------------- MODULE ZmqLiveSender ----------------------------
(***************************************************************************)
(* sf_stream: for every image announced by jf_assembler one message to the *)
(* public stream, streamvis, and one to the client of the live analysis.   *)
(* A message is a header and the pixels, which are read in the ring when   *)
(* they are handed to the socket: twice per image, while the receivers go  *)
(* on storing.  The header is built once and changed for the second        *)
(* message.  LiveImages models what comes before and takes a message for   *)
(* one step.                                                               *)
(*                                                                         *)
(* External: jf_udp_recv and jf_assembler, as what they store and announce;*)
(* the sockets, of which PUB never blocks and PUSH has the queue of one    *)
(* client; and that client, which comes, pulls and goes as it likes.       *)
(***************************************************************************)
EXTENDS Naturals, Sequences, FiniteSets, FiniteSetsExt, Functions

CONSTANTS
    n_modules, NSlots,
    LastPulse,                        \* bound: the pulses of the detector
    RcvHWM,                           \* BUFFER_ZMQ_RCVHWM
    PROCESSING_ZMQ_SNDHWM,
    reduction_factor_streamvis,
    reduction_factor_live_analysis

ASSUME SenderAssumption ==
    /\ n_modules \in Nat \ {0} /\ NSlots \in Nat \ {0} /\ LastPulse \in Nat
    /\ RcvHWM \in Nat \ {0} /\ PROCESSING_ZMQ_SNDHWM \in Nat \ {0}
    /\ reduction_factor_streamvis \in Nat /\ reduction_factor_live_analysis \in Nat

VARIABLES
    image_buffer,   \* the ring: slot -> module -> the pulse its pixels are of
    announced,      \* the pulse announced last
    image_queue,    \* image metadata in the SUB socket
    lapped,         \* history: pulses that lost a slot before they were sent
    pc,
    meta,           \* the image that is sent
    send_image,     \* send_streamvis or send_live_analysis is 0: with its pixels
    shape,          \* the shape in its header
    pixels,         \* what zmq_send has copied of the image so far
    taken,          \* history: the images received
    streamvis,      \* history: the messages that left on the PUB socket
    vis_part,       \* the part that waits there for the rest of its message
    client,         \* a client is connected to the PUSH socket
    live_queue,     \* the messages that wait for it
    live_part,      \* the part that waits for the rest of its message
    dropping,       \* the client left in the middle of a message
    live            \* history: the messages clients have pulled

ringVars   == <<image_buffer, announced, lapped>>
loopVars   == <<pc, meta, send_image, shape, pixels>>
visVars    == <<streamvis, vis_part>>
liveVars   == <<client, live_queue, live_part, dropping, live>>
vars == <<ringVars, image_queue, loopVars, taken, visVars, liveVars>>

\* The metadata in the ring are not looked at here.
Ram == INSTANCE RamBuffer WITH NModules <- n_modules, NPackets <- 1, meta_buffer <- <<>>

Module == Ram!Module
Nothing == <<>>
FullShape  == "n_modules*512 x 1024"
EmptyShape == "2 x 2"

Header(image, s) == [part |-> "header", image |-> image, shape |-> s]
Data(p)          == [part |-> "data", pixels |-> p]

Init ==
    /\ image_buffer = [s \in Ram!Slot |-> [m \in Module |-> 0]]
    /\ announced = 0
    /\ image_queue = <<>>
    /\ lapped = {}
    /\ pc = "recv"
    /\ meta = Ram!NoImage.pulse_id
    /\ send_image = TRUE
    /\ shape = FullShape
    /\ pixels = <<>>
    /\ taken = <<>>
    /\ streamvis = <<>> /\ vis_part = Nothing
    /\ client = FALSE
    /\ live_queue = <<>> /\ live_part = Nothing
    /\ dropping = FALSE
    /\ live = <<>>

-----------------------------------------------------------------------------
(* Before sf_stream: the receivers fill the ring, without regard for it, and *)
(* a pulse that all modules have is announced, or dropped by a full queue.   *)

Latest(m) == Max({image_buffer[s][m] : s \in Ram!Slot})

Pending == Range(image_queue) \union (IF pc = "recv" THEN {} ELSE {meta})

StorePixels(m) ==
    LET p == Latest(m) + 1 IN
    /\ p <= LastPulse
    /\ Ram!WriteData(m, p)
    /\ lapped' = lapped \union {q \in Pending \union ((announced + 1) .. p - 1) : Ram!SlotOf(q) = Ram!SlotOf(p)}
    /\ UNCHANGED <<announced, image_queue, loopVars, taken, visVars, liveVars>>

\* The metadata of an image without a complete frame have pulse id 0.
AnnounceImage ==
    /\ \A m \in Module : announced < Latest(m)
    /\ announced' = announced + 1
    /\ \E pulse_id \in {announced', Ram!NoImage.pulse_id} :
          image_queue' = IF Len(image_queue) < RcvHWM THEN Append(image_queue, pulse_id) ELSE image_queue
    /\ UNCHANGED <<image_buffer, lapped, loopVars, taken, visVars, liveVars>>

-----------------------------------------------------------------------------
(* The sockets.                                                             *)

\* PUB: a part that is the last one sends the message to whoever listens.
PubSend(part, more) ==
    IF more THEN vis_part' = Append(vis_part, part) /\ UNCHANGED streamvis
    ELSE streamvis' = Append(streamvis, Append(vis_part, part)) /\ vis_part' = Nothing

\* PUSH: a message is refused before its first part if there is no client or its
\* queue is full, never in the middle; what is left of a message that lost its client
\* is swallowed.
PushTakes == dropping \/ (client /\ (live_part # Nothing \/ Len(live_queue) < PROCESSING_ZMQ_SNDHWM))
PushSend(part, more) ==
    /\ PushTakes
    /\ dropping' = (dropping /\ more)
    /\ live_part'  = IF dropping \/ ~more THEN Nothing ELSE Append(live_part, part)
    /\ live_queue' = IF dropping \/ more THEN live_queue ELSE Append(live_queue, Append(live_part, part))
    /\ UNCHANGED <<client, live>>

ClientComes ==
    /\ ~client
    /\ client' = TRUE
    /\ UNCHANGED <<ringVars, image_queue, loopVars, taken, visVars, live_queue, live_part, dropping, live>>

ClientPulls ==
    /\ client /\ live_queue # <<>>
    /\ live' = Append(live, Head(live_queue))
    /\ live_queue' = Tail(live_queue)
    /\ UNCHANGED <<ringVars, image_queue, loopVars, taken, visVars, client, live_part, dropping>>

\* What waits for a client is lost with it: ZMQ_LINGER is 0.
ClientLeaves ==
    /\ client
    /\ client' = FALSE
    /\ live_queue' = <<>> /\ live_part' = Nothing
    /\ dropping' = (dropping \/ live_part # Nothing)
    /\ UNCHANGED <<ringVars, image_queue, loopVars, taken, visVars, live>>

-----------------------------------------------------------------------------
(* main() and send().                                                       *)

\* One image in reduction_factor is sent with its pixels, by chance; the others have
\* the shape of the empty buffer that is sent instead.
SendImage(reduction_factor) == IF reduction_factor > 1 THEN BOOLEAN ELSE {TRUE}
ShapeFor(with_pixels) == IF with_pixels THEN FullShape ELSE EmptyShape

\* read_image() only computes an address.

RecvImageMeta ==
    /\ pc = "recv" /\ image_queue # <<>>
    /\ meta' = Head(image_queue)
    /\ image_queue' = Tail(image_queue)
    /\ taken' = Append(taken, meta')
    /\ send_image' \in SendImage(reduction_factor_streamvis)
    /\ shape' = ShapeFor(send_image')
    /\ pc' = "vis_header"
    /\ UNCHANGED <<ringVars, pixels, visVars, liveVars>>

SendVisHeader ==
    /\ pc = "vis_header"
    /\ PubSend(Header(meta, shape), TRUE)
    /\ pixels' = <<>>
    /\ pc' = "vis_data"
    /\ UNCHANGED <<ringVars, image_queue, meta, send_image, shape, taken, liveVars>>

\* zmq_send copies the image module by module, or nothing of it.
Copying == pc \in {"vis_data", "live_data"} /\ send_image /\ Len(pixels) < n_modules
Copied  == ~send_image \/ Len(pixels) = n_modules

\* Fault: the address is that of the image announced last.
CopyAnnounced ==
    /\ Copying
    /\ pixels' = Append(pixels, Ram!DataAt(announced, Len(pixels)))
    /\ UNCHANGED <<ringVars, image_queue, pc, meta, send_image, shape, taken, visVars, liveVars>>

CopyPixels ==
    /\ Copying
    /\ pixels' = Append(pixels, Ram!DataAt(meta, Len(pixels)))
    /\ UNCHANGED <<ringVars, image_queue, pc, meta, send_image, shape, taken, visVars, liveVars>>

\* Fault: the header of the live analysis keeps the shape of the other.
KeepShape ==
    /\ pc = "vis_data" /\ Copied
    /\ PubSend(Data(pixels), FALSE)
    /\ send_image' \in SendImage(reduction_factor_live_analysis)
    /\ pixels' = <<>>
    /\ pc' = "live_header"
    /\ UNCHANGED <<ringVars, image_queue, meta, shape, taken, liveVars>>

\* Then the shape in the header is set anew.
SendVisData ==
    /\ pc = "vis_data" /\ Copied
    /\ PubSend(Data(pixels), FALSE)
    /\ send_image' \in SendImage(reduction_factor_live_analysis)
    /\ shape' = ShapeFor(send_image')
    /\ pixels' = <<>>
    /\ pc' = "live_header"
    /\ UNCHANGED <<ringVars, image_queue, meta, taken, liveVars>>

\* Fault: the header waits for the client.
SendLiveHeaderBlocking ==
    /\ pc = "live_header"
    /\ PushSend(Header(meta, shape), TRUE)
    /\ pc' = "live_data"
    /\ UNCHANGED <<ringVars, image_queue, meta, send_image, shape, pixels, taken, visVars>>

\* Without blocking: if the client does not take the header, it gets no data either.
SendLiveHeader ==
    /\ pc = "live_header"
    /\ IF PushTakes THEN PushSend(Header(meta, shape), TRUE) /\ pc' = "live_data"
       ELSE UNCHANGED liveVars /\ pc' = "recv"
    /\ UNCHANGED <<ringVars, image_queue, meta, send_image, shape, pixels, taken, visVars>>

SendLiveData ==
    /\ pc = "live_data" /\ Copied
    /\ IF PushTakes THEN PushSend(Data(pixels), FALSE) ELSE UNCHANGED liveVars
    /\ pc' = "recv"
    /\ UNCHANGED <<ringVars, image_queue, meta, send_image, shape, pixels, taken, visVars>>

Stream ==
    \/ RecvImageMeta
    \/ SendVisHeader
    \/ CopyPixels
    \/ SendVisData
    \/ SendLiveHeader
    \/ SendLiveData

-----------------------------------------------------------------------------

Environment ==
    \/ \E m \in Module : StorePixels(m)
    \/ AnnounceImage
    \/ ClientComes \/ ClientPulls \/ ClientLeaves

Next == Stream \/ Environment

Spec == Init /\ [][Next]_vars

\* sf_stream is a loop over calls of which only the receiving one may block.
FairSpec == Spec /\ WF_vars(Stream)

-----------------------------------------------------------------------------
(* Properties. *)

IsMessage(msg) ==
    /\ Len(msg) = 2 /\ msg[1].part = "header" /\ msg[2].part = "data"
    /\ Len(msg[2].pixels) = IF msg[1].shape = FullShape THEN n_modules ELSE 0

ImagesOf(messages) == [k \in 1 .. Len(messages) |-> messages[k][1].image]

IsSubsequence(s, t) ==
    \E place \in [1 .. Len(s) -> 1 .. Len(t)] :
        /\ \A k \in 1 .. Len(s) : s[k] = t[place[k]]
        /\ \A j, k \in 1 .. Len(s) : j < k => place[j] < place[k]

\* What arrives anywhere is a header with the data that its shape announces, although
\* the one header serves two messages of different shapes and a client may refuse it,
\* leave or come back between its parts.  streamvis gets every image received, the
\* live analysis some of them, both in order and none twice.
MessagesWhole ==
    /\ \A k \in 1 .. Len(streamvis) : IsMessage(streamvis[k])
    /\ \A k \in 1 .. Len(live) : IsMessage(live[k])
    /\ \A k \in 1 .. Len(live_queue) : IsMessage(live_queue[k])
    /\ ImagesOf(streamvis) = SubSeq(taken, 1, Len(streamvis))
    /\ Len(taken) - Len(streamvis) = IF pc \in {"vis_header", "vis_data"} THEN 1 ELSE 0
    /\ IsSubsequence(ImagesOf(live \o live_queue), taken)

OwnPixels(msg) ==
    msg[1].image \notin lapped \union {0} =>
        \A m \in 1 .. Len(msg[2].pixels) : msg[2].pixels[m] = msg[1].image

\* Both messages of an image have its own pixels from every module, although the second
\* is copied from the ring long after the first, unless a slot was reused before.
PixelsOfTheImage ==
    \A msg \in Range(streamvis) \union Range(live) \union Range(live_queue) : OwnPixels(msg)

\* The public stream gets every image received, whatever the client of the live
\* analysis does or leaves undone.
StreamvisServed ==
    \A p \in 1 .. LastPulse :
        p \in Range(image_queue) ~> p \in Range(ImagesOf(streamvis))
=============================================================================
