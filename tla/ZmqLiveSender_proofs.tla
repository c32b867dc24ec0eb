------------------------ MODULE ZmqLiveSender_proofs ------------------------
(***************************************************************************)
(* sf_stream for any number of modules, slots and pulses, any queues and   *)
(* reduction factors, and any client: its messages are whole and have the  *)
(* pixels of their image.  The invariant comes in layers: types; the place *)
(* in send(); the ring; the messages; and which images they are of.        *)
(***************************************************************************)
EXTENDS ZmqLiveSender, FiniteSetTheorems, SequenceTheorems, WellFoundedInduction, TLAPS

USE SenderAssumption

Shapes == {FullShape, EmptyShape}
Messages == {<<Header(i, s), Data(p)>> : i \in Nat, s \in Shapes, p \in Seq(Nat)}

TypeInv ==
    /\ image_buffer \in [Ram!Slot -> [Module -> Nat]]
    /\ announced \in Nat
    /\ image_queue \in Seq(Nat)
    /\ pc \in {"recv", "vis_header", "vis_data", "live_header", "live_data"}
    /\ meta \in Nat
    /\ send_image \in BOOLEAN
    /\ shape \in Shapes
    /\ pixels \in Seq(Nat)
    /\ taken \in Seq(Nat)
    /\ streamvis \in Seq(Messages)
    /\ client \in BOOLEAN /\ dropping \in BOOLEAN
    /\ live_queue \in Seq(Messages)
    /\ live \in Seq(Messages)
    /\ vis_part = IF pc = "vis_data" THEN <<Header(meta, shape)>> ELSE Nothing
    /\ live_part \in {Nothing, <<Header(meta, shape)>>}

\* What send() has in hand.
InHand ==
    /\ pc # "recv" => /\ Len(taken) > 0 /\ meta = taken[Len(taken)]
                      /\ shape = ShapeFor(send_image)
    /\ pc \in {"vis_data", "live_header", "live_data"} =>
          Len(pixels) <= n_modules /\ (~send_image => Len(pixels) = 0)
    /\ pc = "live_header" => Len(pixels) = 0
    /\ live_part # Nothing => pc = "live_data" /\ client /\ ~dropping
    /\ dropping => pc = "live_data"
    /\ pc = "live_data" => dropping \/ live_part # Nothing

\* The pixels of what waits, or is still to be announced, are in the ring, unless their
\* slot was reused; what was copied so far are pixels of the image in hand.
RingKeeps ==
    /\ \A m \in Module : announced <= Latest(m)
    /\ \A q \in Pending : q <= announced
    /\ \A m \in Module : \A q \in 1 .. Latest(m) :
          q \in Pending \/ announced < q => q \in lapped \/ Ram!DataAt(q, m) = q
    /\ pc \in {"vis_data", "live_data"} /\ meta \notin lapped \union {0} =>
          \A k \in 1 .. Len(pixels) : pixels[k] = meta

\* What was sent is whole.
Good(msg) == IsMessage(msg) /\ OwnPixels(msg)
Sent ==
    /\ \A k \in 1 .. Len(streamvis) : Good(streamvis[k])
    /\ \A k \in 1 .. Len(live_queue) : Good(live_queue[k])
    /\ \A k \in 1 .. Len(live) : Good(live[k])

\* What was sent, of the images received so far: to streamvis all but the one in hand, to
\* the client some of them.
Chosen(msgs, images, n) ==
    \E place \in [1 .. Len(msgs) -> 1 .. n] :
        /\ \A k \in 1 .. Len(msgs) : msgs[k][1].image = images[place[k]]
        /\ \A j, k \in 1 .. Len(msgs) : j < k => place[j] < place[k]
ToClient == live \o live_queue
NumDone == IF pc = "recv" THEN Len(taken) ELSE Len(taken) - 1
Order ==
    /\ Len(streamvis) = IF pc \in {"vis_header", "vis_data"} THEN Len(taken) - 1 ELSE Len(taken)
    /\ \A k \in 1 .. Len(streamvis) : streamvis[k][1].image = taken[k]
    /\ Chosen(ToClient, taken, NumDone)

-----------------------------------------------------------------------------
(* Greatest elements, queues and remainders. *)

\* The largest element of a finite set of numbers.
LEMMA MaxOfFinite ==
    ASSUME NEW S \in SUBSET Nat, IsFiniteSet(S), S # {}
    PROVE  Max(S) \in S /\ \A y \in S : y <= Max(S)
<1> DEFINE Above(x) == {y \in S : x < y}
           T == {Above(x) : x \in S}
<1>1. IsWellFoundedOn(StrictSubsetOrdering(S), FiniteSubsetsOf(S))
  BY FS_StrictSubsetOrderingWellFounded
<1>2. T \subseteq FiniteSubsetsOf(S) /\ T # {}
  <2>1. \A x \in S : Above(x) \in FiniteSubsetsOf(S)
    BY FS_Subset DEF FiniteSubsetsOf
  <2> QED
    BY <2>1
<1>3. \E U \in T : \A V \in T : <<V, U>> \notin StrictSubsetOrdering(S)
  <2> HIDE DEF T
  <2> QED
    BY <1>1, <1>2, WFMin
<1>4. PICK x \in S : \A V \in T : <<V, Above(x)>> \notin StrictSubsetOrdering(S)
  BY <1>3
<1>5. ASSUME NEW y \in Above(x)
      PROVE  FALSE
  <2>1. y \in S /\ x < y
    BY <1>5
  <2>2. Above(y) \in T
    BY <2>1
  <2>3. Above(y) \subseteq Above(x) /\ y \notin Above(y)
    <3>1. \A z \in S : y < z => x < z /\ z # y
      BY <2>1
    <3> QED
      BY <3>1
  <2>4. <<Above(y), Above(x)>> \in StrictSubsetOrdering(S)
    BY <1>5, <2>3 DEF StrictSubsetOrdering
  <2> QED
    BY <1>4, <2>2, <2>4
<1>6. \A y \in S : x >= y
  BY <1>5
<1> QED
  BY <1>6 DEF Max

\* What a sequence holds after an element was appended.
LEMMA RangeOfAppend ==
    ASSUME NEW S, NEW s \in Seq(S), NEW x \in S
    PROVE  Range(Append(s, x)) \subseteq Range(s) \union {x}
<1>1. \A i \in 1 .. Len(s) + 1 : (i \in 1 .. Len(s) /\ Append(s, x)[i] = s[i]) \/ Append(s, x)[i] = x
  OBVIOUS
<1>2. DOMAIN Append(s, x) = 1 .. Len(s) + 1 /\ DOMAIN s = 1 .. Len(s)
  OBVIOUS
<1> QED
  BY <1>1, <1>2 DEF Range

\* What it held before its first was taken.
LEMMA RangeOfTail ==
    ASSUME NEW S, NEW s \in Seq(S), s # <<>>
    PROVE  Range(Tail(s)) \union {Head(s)} \subseteq Range(s)
<1>1. Len(s) \in Nat /\ Len(s) > 0 /\ Head(s) = s[1]
  OBVIOUS
<1>2. \A i \in 1 .. Len(s) - 1 : Tail(s)[i] = s[i + 1] /\ i + 1 \in 1 .. Len(s)
  BY <1>1
<1>3. DOMAIN Tail(s) = 1 .. Len(s) - 1 /\ DOMAIN s = 1 .. Len(s)
  BY <1>1
<1> QED
  BY <1>1, <1>2, <1>3 DEF Range

\* Appending to short sequences.
LEMMA ShortSequences ==
    ASSUME NEW a, NEW b
    PROVE  Append(<<>>, a) = <<a>> /\ Append(<<a>>, b) = <<a, b>>
<1> DEFINE S == {a, b}
<1>1. /\ <<>> \in Seq(S) /\ <<a>> \in Seq(S) /\ <<a, b>> \in Seq(S)
      /\ Append(<<>>, a) \in Seq(S) /\ Append(<<a>>, b) \in Seq(S)
  OBVIOUS
<1>2. /\ Len(Append(<<>>, a)) = 1 /\ Len(<<a>>) = 1 /\ Append(<<>>, a)[1] = a
      /\ Len(Append(<<a>>, b)) = 2 /\ Len(<<a, b>>) = 2
      /\ Append(<<a>>, b)[1] = a /\ Append(<<a>>, b)[2] = b
  BY <1>1
<1>3. Append(<<>>, a) = <<a>>
  BY <1>1, <1>2, SeqEqual
<1>4. Append(<<a>>, b) = <<a, b>>
  <2> DEFINE s == Append(<<a>>, b)
             t == <<a, b>>
  <2>1. t[1] = a /\ t[2] = b
    OBVIOUS
  <2> HIDE DEF S, s, t
  <2>2. s \in Seq(S) /\ t \in Seq(S) /\ Len(s) = 2 /\ Len(t) = 2 /\ s[1] = a /\ s[2] = b
    BY <1>1, <1>2 DEF s, t
  <2>3. \A i \in 1 .. Len(s) : s[i] = t[i]
    BY <2>1, <2>2
  <2>4. s = t
    BY <2>2, <2>3, SeqEqual
  <2> QED
    BY <2>4 DEF s, t
<1> QED
  BY <1>3, <1>4

\* Quotient and remainder.
LEMMA ModEq ==
    ASSUME NEW n \in Nat \ {0}, NEW a \in Nat
    PROVE  /\ a = n * (a \div n) + (a % n)
           /\ a \div n \in Nat
           /\ a % n \in 0 .. n - 1
  OBVIOUS

-----------------------------------------------------------------------------
(* Types. *)

LEMMA MessageType ==
    ASSUME NEW i \in Nat, NEW s \in Shapes, NEW p \in Seq(Nat)
    PROVE  /\ <<Header(i, s), Data(p)>> \in Messages
           /\ Append(<<Header(i, s)>>, Data(p)) = <<Header(i, s), Data(p)>>
           /\ Append(<<Header(i, s)>>, Data(p)) \in Messages
<1>1. <<Header(i, s), Data(p)>> \in Messages
  BY SMT DEF Messages, Header, Data
<1> QED
  BY <1>1, ShortSequences, Zenon

LEMMA SlotType == \A p \in Nat : Ram!SlotOf(p) \in Ram!Slot
  BY ModEq DEF Ram!SlotOf, Ram!Slot

LEMMA MaxOfSlots ==
    ASSUME NEW buffer \in [Ram!Slot -> [Module -> Nat]], NEW m \in Module
    PROVE  LET max == Max({buffer[s][m] : s \in Ram!Slot}) IN
           /\ max \in Nat
           /\ \A s \in Ram!Slot : buffer[s][m] <= max
           /\ \E s \in Ram!Slot : buffer[s][m] = max
<1> DEFINE S == {buffer[s][m] : s \in Ram!Slot}
           f == [s \in Ram!Slot |-> buffer[s][m]]
<1>1. S \in SUBSET Nat
  OBVIOUS
<1>2. S # {}
  <2>1. 0 \in Ram!Slot
    BY DEF Ram!Slot
  <2> QED
    BY <2>1
<1>3. f \in Surjection(Ram!Slot, S)
  BY DEF Surjection
<1>4. IsFiniteSet(Ram!Slot)
  BY FS_Interval DEF Ram!Slot
<1>5. IsFiniteSet(S)
  BY <1>3, <1>4, FS_Surjection
<1> HIDE DEF S
<1>6. Max(S) \in S /\ Max(S) \in Nat /\ \A y \in S : y <= Max(S)
  BY <1>1, <1>2, <1>5, MaxOfFinite
<1> QED
  BY <1>6 DEF S

LEMMA LatestType ==
    ASSUME TypeInv, NEW m \in Module
    PROVE  /\ Latest(m) \in Nat
           /\ \A s \in Ram!Slot : image_buffer[s][m] <= Latest(m)
           /\ \E s \in Ram!Slot : image_buffer[s][m] = Latest(m)
  BY MaxOfSlots DEF TypeInv, Latest

LEMMA LatestTypeNext ==
    ASSUME TypeInv', NEW m \in Module
    PROVE  /\ Latest(m)' \in Nat
           /\ \A s \in Ram!Slot : image_buffer'[s][m] <= Latest(m)'
           /\ \E s \in Ram!Slot : image_buffer'[s][m] = Latest(m)'
  BY MaxOfSlots DEF TypeInv, Latest

LEMMA EmptyTypes == <<>> \in Seq(Nat) /\ <<>> \in Seq(Messages)
  OBVIOUS

LEMMA TypeInit == Init => TypeInv
<1> SUFFICES ASSUME Init
             PROVE  TypeInv
  OBVIOUS
<1>1. image_buffer \in [Ram!Slot -> [Module -> Nat]]
  BY DEF Init
<1>2. meta \in Nat /\ shape \in Shapes
  BY DEF Init, Ram!NoImage, Shapes
<1> QED
  BY <1>1, <1>2, EmptyTypes DEF Init, TypeInv, Nothing

LEMMA EnvironmentType == TypeInv /\ Environment => TypeInv'
<1> SUFFICES ASSUME TypeInv, Environment
             PROVE  TypeInv'
  OBVIOUS
<1>1. ASSUME NEW m \in Module, StorePixels(m)
      PROVE  TypeInv'
  <2>1. Latest(m) + 1 \in Nat /\ Ram!SlotOf(Latest(m) + 1) \in Ram!Slot
    BY LatestType, SlotType
  <2>2. image_buffer' = [image_buffer EXCEPT ![Ram!SlotOf(Latest(m) + 1)][m] = Latest(m) + 1]
    BY <1>1 DEF StorePixels, Ram!WriteData
  <2>3. image_buffer' \in [Ram!Slot -> [Module -> Nat]]
    BY <2>1, <2>2 DEF TypeInv
  <2> QED
    BY <1>1, <2>3 DEF StorePixels, TypeInv, loopVars, visVars, liveVars
<1>2. CASE AnnounceImage
  <2>1. announced' \in Nat /\ image_queue' \in Seq(Nat)
    BY <1>2 DEF AnnounceImage, TypeInv, Ram!NoImage
  <2> QED
    BY <1>2, <2>1 DEF AnnounceImage, TypeInv, loopVars, visVars, liveVars
<1>3. CASE ClientComes
  BY <1>3 DEF ClientComes, TypeInv, ringVars, loopVars, visVars
<1>4. CASE ClientPulls
  <2>1. Head(live_queue) \in Messages /\ Tail(live_queue) \in Seq(Messages)
    BY <1>4 DEF ClientPulls, TypeInv
  <2> QED
    BY <1>4, <2>1 DEF ClientPulls, TypeInv, ringVars, loopVars, visVars
<1>5. CASE ClientLeaves
  <2>1. live_queue' \in Seq(Messages) /\ client' \in BOOLEAN /\ dropping' \in BOOLEAN
    BY <1>5, EmptyTypes DEF ClientLeaves, TypeInv
  <2>2. live_part' = Nothing /\ UNCHANGED <<ringVars, image_queue, loopVars, taken, visVars, live>>
    BY <1>5 DEF ClientLeaves
  <2> QED
    BY <2>1, <2>2 DEF TypeInv, ringVars, loopVars, visVars
<1> QED
  BY <1>1, <1>2, <1>3, <1>4, <1>5 DEF Environment

LEMMA ShapeType ==
    /\ \A b \in BOOLEAN : ShapeFor(b) \in Shapes
    /\ \A r \in Nat : SendImage(r) \subseteq BOOLEAN
  BY DEF ShapeFor, Shapes, SendImage

LEMMA StreamType == TypeInv /\ InHand /\ Stream => TypeInv'
<1> SUFFICES ASSUME TypeInv, InHand, Stream
             PROVE  TypeInv'
  OBVIOUS
<1>1. CASE RecvImageMeta
  <2>1. Head(image_queue) \in Nat /\ Tail(image_queue) \in Seq(Nat)
    BY <1>1 DEF RecvImageMeta, TypeInv
  <2>2. send_image' \in BOOLEAN /\ shape' \in Shapes
    BY <1>1, ShapeType DEF RecvImageMeta
  <2>3. live_part = Nothing /\ vis_part = Nothing
    BY <1>1 DEF RecvImageMeta, InHand, TypeInv
  <2> QED
    BY <1>1, <2>1, <2>2, <2>3 DEF RecvImageMeta, TypeInv, ringVars, visVars, liveVars
<1>2. CASE SendVisHeader
  <2>1. vis_part' = <<Header(meta, shape)>>
    BY <1>2 DEF SendVisHeader, PubSend, TypeInv, Nothing
  <2> QED
    BY <1>2, <2>1 DEF SendVisHeader, PubSend, TypeInv, ringVars, liveVars
<1>3. CASE CopyPixels
  <2>1. Len(pixels) \in Module
    BY <1>3 DEF CopyPixels, Copying, TypeInv, Module, Ram!Module
  <2>2. Ram!DataAt(meta, Len(pixels)) \in Nat
    BY <2>1, SlotType DEF TypeInv, Ram!DataAt
  <2> QED
    BY <1>3, <2>2 DEF CopyPixels, TypeInv, ringVars, visVars, liveVars
<1>4. CASE SendVisData
  <2>1. streamvis' \in Seq(Messages) /\ vis_part' = Nothing
    <3>1. vis_part = <<Header(meta, shape)>> /\ meta \in Nat /\ shape \in Shapes /\ pixels \in Seq(Nat)
      BY <1>4 DEF SendVisData, TypeInv
    <3>2. Append(vis_part, Data(pixels)) \in Messages
      BY <3>1, MessageType
    <3>3. streamvis' = Append(streamvis, Append(vis_part, Data(pixels))) /\ vis_part' = Nothing
      BY <1>4 DEF SendVisData, PubSend
    <3> QED
      BY <3>2, <3>3 DEF TypeInv
  <2>2. send_image' \in BOOLEAN /\ shape' \in Shapes
    BY <1>4, ShapeType DEF SendVisData
  <2>3. live_part = Nothing
    BY <1>4 DEF SendVisData, InHand
  <2> QED
    BY <1>4, <2>1, <2>2, <2>3 DEF SendVisData, TypeInv, ringVars, liveVars
<1>5. CASE SendLiveHeader
  <2>1. live_part = Nothing
    BY <1>5 DEF SendLiveHeader, InHand
  <2> QED
    BY <1>5, <2>1 DEF SendLiveHeader, PushSend, TypeInv, ringVars, visVars, liveVars, Nothing
<1>6. CASE SendLiveData
  <2>1. live_queue' \in Seq(Messages) /\ dropping' \in BOOLEAN /\ live_part' \in {Nothing, <<Header(meta, shape)>>}
    <3>1. CASE dropping \/ ~PushTakes
      <4>1. live_queue' = live_queue /\ dropping' \in {dropping, FALSE} /\ live_part' \in {live_part, Nothing}
        BY <1>6, <3>1 DEF SendLiveData, PushSend, liveVars
      <4> QED
        BY <4>1 DEF TypeInv
    <3>2. CASE ~dropping /\ PushTakes
      <4>1. /\ live_part = <<Header(meta, shape)>> /\ meta \in Nat /\ shape \in Shapes
            /\ pixels \in Seq(Nat)
        BY <1>6, <3>2 DEF SendLiveData, InHand, TypeInv
      <4>2. Append(live_part, Data(pixels)) \in Messages
        <5>1. Append(<<Header(meta, shape)>>, Data(pixels)) \in Messages
          BY <4>1, MessageType, Zenon
        <5> QED
          BY <4>1, <5>1
      <4>3. /\ live_queue' = Append(live_queue, Append(live_part, Data(pixels)))
            /\ live_part' = Nothing /\ dropping' = FALSE
        BY <1>6, <3>2 DEF SendLiveData, PushSend
      <4>4. live_queue' \in Seq(Messages)
        BY <4>2, <4>3 DEF TypeInv
      <4> QED
        BY <4>3, <4>4
    <3> QED
      BY <3>1, <3>2
  <2> QED
    BY <1>6, <2>1 DEF SendLiveData, PushSend, TypeInv, ringVars, visVars, liveVars
<1> QED
  BY <1>1, <1>2, <1>3, <1>4, <1>5, <1>6 DEF Stream

-----------------------------------------------------------------------------
(* The place in send(). *)

LEMMA InHandInit == Init => InHand
  BY DEF Init, InHand

LEMMA InHandStep == TypeInv /\ InHand /\ [Next]_vars => InHand'
<1> SUFFICES ASSUME TypeInv, InHand, [Next]_vars
             PROVE  InHand'
  OBVIOUS
<1> USE DEF InHand
<1>1. CASE UNCHANGED vars
  BY <1>1 DEF vars, loopVars, liveVars
<1>2. ASSUME NEW m \in Module, StorePixels(m)
      PROVE  InHand'
  BY <1>2 DEF StorePixels, loopVars, liveVars
<1>3. CASE AnnounceImage
  BY <1>3 DEF AnnounceImage, loopVars, liveVars
<1>4. CASE ClientComes
  BY <1>4 DEF ClientComes, loopVars
<1>5. CASE ClientPulls
  BY <1>5 DEF ClientPulls, loopVars
<1>6. CASE ClientLeaves
  BY <1>6 DEF ClientLeaves, loopVars, TypeInv
<1>7. CASE RecvImageMeta
  <2>1. /\ meta' = Head(image_queue) /\ meta' \in Nat /\ taken' = Append(taken, meta')
        /\ taken \in Seq(Nat)
    BY <1>7 DEF RecvImageMeta, TypeInv
  <2>2. Len(taken') > 0 /\ meta' = taken'[Len(taken')]
    BY <2>1
  <2> QED
    BY <1>7, <2>2 DEF RecvImageMeta, liveVars
<1>8. CASE SendVisHeader
  BY <1>8 DEF SendVisHeader, liveVars
<1>9. CASE CopyPixels
  <2>1. Len(pixels') = Len(pixels) + 1 /\ Len(pixels) \in Nat
    BY <1>9 DEF CopyPixels, TypeInv
  <2>2. Len(pixels) < n_modules /\ send_image
    BY <1>9 DEF CopyPixels, Copying
  <2>3. Len(pixels') <= n_modules
    BY <2>1, <2>2
  <2>4. /\ pc \in {"vis_data", "live_data"}
        /\ UNCHANGED <<pc, meta, send_image, shape, taken, client, live_part, dropping>>
    BY <1>9 DEF CopyPixels, Copying, liveVars
  <2> QED
    BY <2>2, <2>3, <2>4
<1>10. CASE SendVisData
  BY <1>10 DEF SendVisData, liveVars
<1>11. CASE SendLiveHeader
  <2>1. CASE PushTakes
    <3>1. pc = "live_header" /\ ~dropping /\ live_part = Nothing /\ client
      BY <1>11, <2>1 DEF SendLiveHeader, PushTakes
    <3>2. live_part' = <<Header(meta, shape)>> /\ ~dropping' /\ client'
      <4>1. live_part' = Append(<<>>, Header(meta, shape)) /\ dropping' = FALSE /\ client' = client
        BY <1>11, <2>1, <3>1 DEF SendLiveHeader, PushSend, Nothing
      <4> QED
        BY <3>1, <4>1, ShortSequences, Zenon
    <3>3. live_part' # Nothing
      BY <3>2 DEF Nothing
    <3>4. pc' = "live_data" /\ UNCHANGED <<meta, send_image, shape, pixels, taken>>
      BY <1>11, <2>1 DEF SendLiveHeader
    <3> QED
      BY <3>1, <3>2, <3>3, <3>4
  <2>2. CASE ~PushTakes
    BY <1>11, <2>2 DEF SendLiveHeader, liveVars
  <2> QED
    BY <2>1, <2>2
<1>12. CASE SendLiveData
  BY <1>12 DEF SendLiveData, PushSend, PushTakes, TypeInv, liveVars
<1> QED
  BY <1>1, <1>2, <1>3, <1>4, <1>5, <1>6, <1>7, <1>8, <1>9, <1>10, <1>11, <1>12
     DEF Next, Stream, Environment

\* The variables keep their types, and send() its place.
THEOREM TypesKept == Spec => [](TypeInv /\ InHand)
<1>1. TypeInv /\ InHand /\ [Next]_vars => (TypeInv /\ InHand)'
  <2>1. TypeInv /\ UNCHANGED vars => TypeInv'
    BY DEF TypeInv, vars, ringVars, loopVars, visVars, liveVars
  <2> QED
    BY <2>1, InHandStep, EnvironmentType, StreamType DEF Next
<1> QED
  BY TypeInit, InHandInit, <1>1, PTL DEF Spec
-----------------------------------------------------------------------------
(* The ring. *)

LEMMA LatestWas ==
    ASSUME TypeInv, TypeInv', NEW m \in Module, \A s \in Ram!Slot : image_buffer'[s][m] = image_buffer[s][m]
    PROVE  Latest(m)' = Latest(m)
<1>1. /\ Latest(m) \in Nat /\ \A s \in Ram!Slot : image_buffer[s][m] <= Latest(m)
      /\ \E s \in Ram!Slot : image_buffer[s][m] = Latest(m)
  BY LatestType
<1>2. /\ Latest(m)' \in Nat /\ \A s \in Ram!Slot : image_buffer'[s][m] <= Latest(m)'
      /\ \E s \in Ram!Slot : image_buffer'[s][m] = Latest(m)'
  BY LatestTypeNext
<1> QED
  BY <1>1, <1>2

LEMMA PendingType == TypeInv => Pending \subseteq Nat
<1> SUFFICES ASSUME TypeInv
             PROVE  Range(image_queue) \subseteq Nat
  BY DEF Pending, TypeInv
<1> QED
  BY DEF Range, TypeInv

LEMMA RingInit == Init => RingKeeps
<1> SUFFICES ASSUME Init
             PROVE  RingKeeps
  OBVIOUS
<1>1. \A m \in Module : Latest(m) = 0
  <2> SUFFICES ASSUME NEW m \in Module
               PROVE  Latest(m) = 0
    OBVIOUS
  <2>1. \A s \in Ram!Slot : image_buffer[s][m] = 0
    BY DEF Init
  <2> QED
    BY <2>1, TypeInit, LatestType
<1>2. Pending = {}
  BY DEF Init, Pending, Range
<1> QED
  BY <1>1, <1>2 DEF Init, RingKeeps

\* A receiver stores the next pulse of its module.
LEMMA RingStored ==
    ASSUME TypeInv, TypeInv', RingKeeps, NEW m \in Module, StorePixels(m)
    PROVE  RingKeeps'
<1> DEFINE p == Latest(m) + 1
<1>1. p \in Nat /\ Latest(m) \in Nat /\ Ram!SlotOf(p) \in Ram!Slot
  BY LatestType, SlotType
<1>2. /\ image_buffer' = [image_buffer EXCEPT ![Ram!SlotOf(p)][m] = p]
      /\ lapped' = lapped \union {q \in Pending \union ((announced + 1) .. p - 1) : Ram!SlotOf(q) = Ram!SlotOf(p)}
      /\ UNCHANGED <<announced, image_queue, pc, meta, pixels>>
  BY DEF StorePixels, Ram!WriteData, loopVars
<1>3. Pending' = Pending
  BY <1>2 DEF Pending
<1>4. /\ \A t \in Ram!Slot, n \in Module : n # m => image_buffer'[t][n] = image_buffer[t][n]
      /\ \A t \in Ram!Slot : t # Ram!SlotOf(p) => image_buffer'[t][m] = image_buffer[t][m]
      /\ image_buffer'[Ram!SlotOf(p)][m] = p
  BY <1>1, <1>2 DEF TypeInv
<1>5. \A n \in Module : n # m => Latest(n)' = Latest(n)
  BY <1>4, LatestWas
<1>6. Latest(m)' = p
  <2>1. /\ Latest(m)' \in Nat /\ \A t \in Ram!Slot : image_buffer'[t][m] <= Latest(m)'
        /\ \E t \in Ram!Slot : image_buffer'[t][m] = Latest(m)'
    BY LatestTypeNext
  <2>2. \A t \in Ram!Slot : image_buffer[t][m] <= Latest(m) /\ image_buffer[t][m] \in Nat
    BY LatestType DEF TypeInv
  <2>3. p <= Latest(m)'
    BY <1>1, <1>4, <2>1
  <2>4. \A t \in Ram!Slot : image_buffer'[t][m] <= p
    BY <1>1, <1>4, <2>2
  <2> QED
    BY <1>1, <2>1, <2>3, <2>4
<1> HIDE DEF p
<1>7. \A n \in Module : announced' <= Latest(n)'
  <2>1. announced' = announced /\ announced \in Nat /\ p = Latest(m) + 1
    BY <1>2 DEF TypeInv, p
  <2>2. \A n \in Module : announced <= Latest(n)
    BY DEF RingKeeps
  <2>3. announced <= p
    BY <1>1, <2>1, <2>2
  <2>4. \A n \in Module : Latest(n)' = Latest(n) \/ Latest(n)' = p
    BY <1>5, <1>6
  <2> QED
    BY <2>1, <2>2, <2>3, <2>4
<1>8. ASSUME NEW n \in Module, NEW q \in 1 .. Latest(n)', q \in Pending \/ announced < q
      PROVE  q \in lapped' \/ Ram!DataAt(q, n)'= q
  <2>0. q \in Nat /\ Ram!SlotOf(q) \in Ram!Slot
    BY <1>8, LatestTypeNext, SlotType
  <2>1. CASE n # m
    <3>1. q \in lapped \/ Ram!DataAt(q, n) = q
      BY <1>5, <1>8, <2>1 DEF RingKeeps
    <3> QED
      BY <1>2, <1>4, <2>0, <2>1, <3>1 DEF Ram!DataAt
  <2>2. CASE n = m /\ q = p
    BY <1>4, <2>2 DEF Ram!DataAt
  <2>3. CASE n = m /\ q # p
    <3>1. q \in 1 .. Latest(m)
      BY <1>1, <1>6, <1>8, <2>3 DEF p
    <3>2. q \in lapped \/ Ram!DataAt(q, m) = q
      BY <1>8, <3>1 DEF RingKeeps
    <3>3. CASE Ram!SlotOf(q) # Ram!SlotOf(p)
      BY <1>2, <1>4, <2>0, <2>3, <3>2, <3>3 DEF Ram!DataAt
    <3>4. CASE Ram!SlotOf(q) = Ram!SlotOf(p)
      <4>1. q \in Pending \/ q \in (announced + 1) .. p - 1
        <5>1. announced \in Nat /\ p = Latest(m) + 1 /\ Latest(m) \in Nat /\ q \in 1 .. Latest(m)
          BY <3>1, LatestType DEF TypeInv, p
        <5> QED
          BY <1>8, <5>1
      <4> QED
        BY <1>2, <3>4, <4>1
    <3> QED
      BY <3>3, <3>4
  <2> QED
    BY <2>1, <2>2, <2>3
<1>9. lapped \subseteq lapped'
  BY <1>2
<1> QED
  BY <1>2, <1>3, <1>7, <1>8, <1>9 DEF RingKeeps

LEMMA RingStep == TypeInv /\ InHand /\ TypeInv' /\ RingKeeps /\ [Next]_vars => RingKeeps'
<1> SUFFICES ASSUME TypeInv, TypeInv', InHand, RingKeeps, [Next]_vars
             PROVE  RingKeeps'
  OBVIOUS
<1>0. announced \in Nat /\ Pending \subseteq Nat /\ \A m \in Module : Latest(m) \in Nat
  BY PendingType, LatestType DEF TypeInv
<1>1. ASSUME UNCHANGED ringVars, Pending' \subseteq Pending,
             pc' \in {"vis_data", "live_data"} /\ meta' \notin lapped \union {0} =>
                \A k \in 1 .. Len(pixels') : pixels'[k] = meta'
      PROVE  RingKeeps'
  BY <1>1 DEF RingKeeps, ringVars, Latest, Ram!DataAt
<1>2. CASE UNCHANGED <<ringVars, image_queue, pc, meta, pixels>>
  BY <1>1, <1>2 DEF Pending, RingKeeps
<1>3. CASE AnnounceImage
  <2>1. UNCHANGED <<image_buffer, lapped, pc, meta, pixels>> /\ announced' = announced + 1
    BY <1>3 DEF AnnounceImage, loopVars
  <2>2. Pending' \subseteq Pending \union {announced + 1, 0}
    <3>1. Range(image_queue') \subseteq Range(image_queue) \union {announced + 1, 0}
      <4>1. PICK i \in {announced + 1, 0} :
                image_queue' \in {Append(image_queue, i), image_queue}
        BY <1>3, <2>1 DEF AnnounceImage, Ram!NoImage
      <4>2. i \in Nat /\ image_queue \in Seq(Nat)
        BY <1>0 DEF TypeInv
      <4> QED
        BY <4>1, <4>2, RangeOfAppend
    <3> QED
      BY <2>1, <3>1 DEF Pending
  <2>3. \A m \in Module : announced' <= Latest(m)' /\ Latest(m)' = Latest(m)
    BY <1>0, <1>3, <2>1 DEF AnnounceImage, Latest
  <2>4. \A q \in Pending' : q <= announced'
    BY <1>0, <2>1, <2>2 DEF RingKeeps
  <2>5. \A m \in Module : \A q \in 1 .. Latest(m)' :
            q \in Pending' \/ announced' < q => q \in Pending \/ announced < q
    BY <1>0, <2>1, <2>2, <2>3
  <2> QED
    BY <2>1, <2>3, <2>4, <2>5 DEF RingKeeps, Ram!DataAt
<1>4. CASE RecvImageMeta
  <2>1. Range(image_queue') \union {meta'} \subseteq Range(image_queue)
    BY <1>4, RangeOfTail DEF RecvImageMeta, TypeInv
  <2> QED
    BY <1>1, <1>4, <2>1 DEF RecvImageMeta, Pending
<1>5. CASE SendVisHeader
  <2>1. Len(pixels') = 0
    BY <1>5 DEF SendVisHeader
  <2> QED
    BY <1>1, <1>5, <2>1 DEF SendVisHeader, Pending
<1>6. CASE CopyPixels
  <2>1. /\ pixels' = Append(pixels, Ram!DataAt(meta, Len(pixels))) /\ Len(pixels) \in Module
        /\ pc \in {"vis_data", "live_data"} /\ UNCHANGED <<ringVars, image_queue, pc, meta>>
    BY <1>6 DEF CopyPixels, Copying, TypeInv, Module, Ram!Module
  <2>2. Pending' = Pending /\ meta \in Pending
    BY <2>1 DEF Pending
  <2>3. ASSUME meta \notin lapped \union {0}
        PROVE  \A k \in 1 .. Len(pixels') : pixels'[k] = meta
    <3>1. meta \in 1 .. Latest(Len(pixels))
      <4>1. meta <= announced /\ announced <= Latest(Len(pixels))
        BY <2>1, <2>2 DEF RingKeeps
      <4> QED
        BY <1>0, <2>1, <2>2, <2>3, <4>1
    <3>2. Ram!DataAt(meta, Len(pixels)) = meta
      BY <2>1, <2>2, <2>3, <3>1 DEF RingKeeps
    <3>3. \A k \in 1 .. Len(pixels) : pixels[k] = meta
      BY <2>1, <2>3 DEF RingKeeps
    <3>4. pixels \in Seq(Nat) /\ meta \in Nat
      BY DEF TypeInv
    <3> QED
      BY <2>1, <3>2, <3>3, <3>4
  <2> QED
    BY <1>1, <2>1, <2>2, <2>3
<1>7. CASE SendVisData
  BY <1>1, <1>7 DEF SendVisData, Pending
<1>8. CASE SendLiveHeader
  <2>1. /\ UNCHANGED <<ringVars, image_queue, meta, pixels>> /\ Len(pixels) = 0
        /\ pc = "live_header"
    BY <1>8 DEF SendLiveHeader, InHand
  <2>2. Pending' \subseteq Pending
    BY <2>1 DEF Pending
  <2> QED
    BY <1>1, <2>1, <2>2
<1>9. CASE SendLiveData
  BY <1>1, <1>9 DEF SendLiveData, Pending
<1>10. CASE UNCHANGED vars \/ ClientComes \/ ClientPulls \/ ClientLeaves
  BY <1>2, <1>10 DEF vars, loopVars, ClientComes, ClientPulls, ClientLeaves
<1> QED
  BY <1>3, <1>4, <1>5, <1>6, <1>7, <1>8, <1>9, <1>10, RingStored DEF Next, Stream, Environment

\* The ring keeps the pixels that are still to be sent, but for those that were lapped.
THEOREM RingKept == Spec => []RingKeeps
  BY RingInit, RingStep, TypesKept, PTL DEF Spec

-----------------------------------------------------------------------------
(* The messages. *)

LEMMA SentInit == Init => Sent
  BY DEF Init, Sent

LEMMA GoodKept ==
    ASSUME lapped \subseteq lapped', NEW msg, Good(msg)
    PROVE  Good(msg)'
  BY DEF Good, OwnPixels, IsMessage

LEMMA GoodInHand ==
    ASSUME TypeInv, InHand, RingKeeps, pc \in {"vis_data", "live_data"}, Copied
    PROVE  Good(<<Header(meta, shape), Data(pixels)>>)
<1>1. Len(pixels) = IF shape = FullShape THEN n_modules ELSE 0
  BY DEF InHand, Copied, ShapeFor, FullShape, EmptyShape
<1>2. meta \notin lapped \union {0} => \A k \in 1 .. Len(pixels) : pixels[k] = meta
  BY DEF RingKeeps
<1> QED
  BY <1>1, <1>2 DEF Good, IsMessage, OwnPixels, Header, Data

LEMMA SentStep == TypeInv /\ InHand /\ RingKeeps /\ Sent /\ [Next]_vars => Sent'
<1> SUFFICES ASSUME TypeInv, InHand, RingKeeps, Sent, [Next]_vars
             PROVE  Sent'
  OBVIOUS
<1>0. streamvis \in Seq(Messages) /\ live_queue \in Seq(Messages) /\ live \in Seq(Messages)
  BY DEF TypeInv
<1>1. lapped \subseteq lapped'
  BY DEF Next, Stream, Environment, StorePixels, AnnounceImage, ClientComes, ClientPulls, ClientLeaves,
         RecvImageMeta, SendVisHeader, CopyPixels, SendVisData, SendLiveHeader, SendLiveData, vars, ringVars
<1>2. CASE UNCHANGED <<streamvis, live_queue, live>>
  BY <1>1, <1>2, GoodKept DEF Sent
<1>3. CASE ClientPulls
  <2>1. /\ live' = Append(live, live_queue[1]) /\ 1 \in 1 .. Len(live_queue)
        /\ live_queue' = Tail(live_queue) /\ streamvis' = streamvis
    BY <1>0, <1>3 DEF ClientPulls, visVars
  <2>2. \A k \in 1 .. Len(live') : (k \in 1 .. Len(live) /\ live'[k] = live[k]) \/ live'[k] = live_queue[1]
    BY <1>0, <2>1
  <2>3. \A k \in 1 .. Len(live_queue') : k + 1 \in 1 .. Len(live_queue) /\ live_queue'[k] = live_queue[k + 1]
    BY <1>0, <2>1
  <2> QED
    BY <1>1, <2>1, <2>2, <2>3, GoodKept DEF Sent
<1>4. CASE ClientLeaves
  <2>1. UNCHANGED <<live, streamvis>> /\ Len(live_queue') = 0
    BY <1>4 DEF ClientLeaves, visVars
  <2> QED
    BY <1>1, <2>1, GoodKept DEF Sent
<1>5. CASE SendVisData
  <2> DEFINE msg == <<Header(meta, shape), Data(pixels)>>
  <2>1. Good(msg) /\ msg \in Messages
    BY <1>5, GoodInHand, MessageType DEF SendVisData, TypeInv
  <2>2. streamvis' = Append(streamvis, msg) /\ UNCHANGED <<live, live_queue>>
    <3>1. vis_part = <<Header(meta, shape)>> /\ meta \in Nat /\ shape \in Shapes /\ pixels \in Seq(Nat)
      BY <1>5 DEF SendVisData, TypeInv
    <3>2. streamvis' = Append(streamvis, Append(vis_part, Data(pixels))) /\ UNCHANGED <<live, live_queue>>
      BY <1>5 DEF SendVisData, PubSend, liveVars
    <3>3. Append(vis_part, Data(pixels)) = msg
      BY <3>1, MessageType
    <3> QED
      BY <3>2, <3>3
  <2> HIDE DEF msg
  <2>3. \A k \in 1 .. Len(streamvis') :
            (k \in 1 .. Len(streamvis) /\ streamvis'[k] = streamvis[k]) \/ streamvis'[k] = msg
    BY <1>0, <2>1, <2>2
  <2> QED
    BY <1>1, <2>1, <2>2, <2>3, GoodKept DEF Sent
<1>6. CASE SendLiveData
  <2> DEFINE msg == <<Header(meta, shape), Data(pixels)>>
  <2>1. Good(msg) /\ msg \in Messages
    BY <1>6, GoodInHand, MessageType DEF SendLiveData, TypeInv
  <2>2. live_queue' \in {live_queue, Append(live_queue, msg)} /\ UNCHANGED <<live, streamvis>>
    <3>1. CASE dropping \/ ~PushTakes
      BY <1>6, <3>1 DEF SendLiveData, PushSend, liveVars, visVars
    <3>2. CASE ~dropping /\ PushTakes
      <4>1. /\ live_part = <<Header(meta, shape)>> /\ meta \in Nat /\ shape \in Shapes
            /\ pixels \in Seq(Nat)
        BY <1>6, <3>2 DEF SendLiveData, InHand, TypeInv
      <4>2. Append(live_part, Data(pixels)) = msg
        BY <4>1, MessageType
      <4>3. live_queue' = Append(live_queue, Append(live_part, Data(pixels))) /\ UNCHANGED <<live, streamvis>>
        BY <1>6, <3>2 DEF SendLiveData, PushSend, visVars
      <4> QED
        BY <4>2, <4>3
    <3> QED
      BY <3>1, <3>2
  <2> HIDE DEF msg
  <2>3. \A k \in 1 .. Len(live_queue') :
            (k \in 1 .. Len(live_queue) /\ live_queue'[k] = live_queue[k]) \/ live_queue'[k] = msg
    BY <1>0, <2>1, <2>2
  <2> QED
    BY <1>1, <2>1, <2>2, <2>3, GoodKept DEF Sent
<1>7. CASE SendLiveHeader
  <2>1. UNCHANGED <<streamvis, live_queue, live>>
    BY <1>7 DEF SendLiveHeader, PushSend, liveVars, visVars, InHand
  <2> QED
    BY <1>2, <2>1
<1>8. ASSUME NEW m \in Module, StorePixels(m)
      PROVE  Sent'
  BY <1>2, <1>8 DEF StorePixels, visVars, liveVars
<1>9. CASE UNCHANGED vars \/ AnnounceImage \/ ClientComes \/ RecvImageMeta \/ CopyPixels
  BY <1>2, <1>9 DEF vars, visVars, liveVars, AnnounceImage, ClientComes, RecvImageMeta, CopyPixels
<1>10. CASE SendVisHeader
  BY <1>2, <1>10 DEF SendVisHeader, PubSend, liveVars
<1> QED
  BY <1>3, <1>4, <1>5, <1>6, <1>7, <1>8, <1>9, <1>10 DEF Next, Stream, Environment

\* Every message, sent or waiting, is whole and has its own pixels.
THEOREM SentKept == Spec => []Sent
  BY SentInit, SentStep, TypesKept, RingKept, PTL DEF Spec

\* Both messages of an image have its own pixels from every module, unless a slot was
\* reused before (PixelsOfTheImage).
THEOREM OwnPixelsSent == Spec => []PixelsOfTheImage
<1>1. TypeInv /\ Sent => PixelsOfTheImage
  <2>1. \A msgs : (\A k \in 1 .. Len(msgs) : Good(msgs[k])) /\ DOMAIN msgs = 1 .. Len(msgs) =>
                    \A msg \in Range(msgs) : OwnPixels(msg)
    BY DEF Good, Range
  <2>2. TypeInv => /\ DOMAIN streamvis = 1 .. Len(streamvis) /\ DOMAIN live = 1 .. Len(live)
                   /\ DOMAIN live_queue = 1 .. Len(live_queue)
    BY DEF TypeInv
  <2> QED
    BY <2>1, <2>2 DEF Sent, PixelsOfTheImage
<1> QED
  BY <1>1, TypesKept, SentKept, PTL

-----------------------------------------------------------------------------
(* Which images the messages are of. *)

LEMMA OrderInit == Init => Order
<1> SUFFICES ASSUME Init
             PROVE  Order
  OBVIOUS
<1>1. Len(streamvis) = 0 /\ Len(taken) = 0 /\ Len(ToClient) = 0 /\ pc = "recv"
  BY DEF Init, ToClient
<1>2. [k \in 1 .. 0 |-> 1] \in [1 .. 0 -> 1 .. 0]
  OBVIOUS
<1>3. Chosen(ToClient, taken, 0)
  <2> DEFINE place == [k \in 1 .. 0 |-> 1]
  <2>1. place \in [1 .. Len(ToClient) -> 1 .. 0]
    BY <1>1, <1>2
  <2> HIDE DEF place
  <2>2. ~\E k \in 1 .. Len(ToClient) : TRUE
    BY <1>1
  <2> QED
    BY <2>1, <2>2 DEF Chosen
<1> QED
  BY <1>1, <1>3 DEF Order, NumDone

\* Fewer messages are in order as well, among more images.
LEMMA ChosenFewer ==
    ASSUME NEW msgs \in Seq(Messages), NEW images \in Seq(Nat), NEW n \in Nat, Chosen(msgs, images, n),
           NEW fewer \in Seq(Messages), NEW more \in Seq(Nat), NEW k \in Nat,
           Len(fewer) <= Len(msgs), \A i \in 1 .. Len(fewer) : fewer[i] = msgs[i],
           n <= k, \A i \in 1 .. n : more[i] = images[i]
    PROVE  Chosen(fewer, more, k)
<1>1. PICK place \in [1 .. Len(msgs) -> 1 .. n] :
        /\ \A i \in 1 .. Len(msgs) : msgs[i][1].image = images[place[i]]
        /\ \A i, j \in 1 .. Len(msgs) : i < j => place[i] < place[j]
  BY DEF Chosen
<1> DEFINE few == [i \in 1 .. Len(fewer) |-> place[i]]
<1>2. \A i \in 1 .. Len(fewer) :
        /\ i \in 1 .. Len(msgs) /\ place[i] \in 1 .. n /\ place[i] \in 1 .. k
        /\ few[i] = place[i]
  BY <1>1
<1>3. few \in [1 .. Len(fewer) -> 1 .. k]
  BY <1>2
<1> HIDE DEF few
<1>4. \A i \in 1 .. Len(fewer) : fewer[i][1].image = more[few[i]]
  <2> SUFFICES ASSUME NEW i \in 1 .. Len(fewer)
               PROVE  fewer[i][1].image = more[few[i]]
    OBVIOUS
  <2>1. fewer[i] = msgs[i] /\ few[i] = place[i] /\ place[i] \in 1 .. n /\ i \in 1 .. Len(msgs)
    BY <1>2
  <2>2. msgs[i][1].image = images[place[i]] /\ more[place[i]] = images[place[i]]
    BY <1>1, <2>1
  <2> QED
    BY <2>1, <2>2
<1>5. \A i, j \in 1 .. Len(fewer) : i < j => few[i] < few[j]
  BY <1>1, <1>2
<1> QED
  BY <1>3, <1>4, <1>5 DEF Chosen

\* The next message is of the next image.
LEMMA ChosenNext ==
    ASSUME NEW msgs \in Seq(Messages), NEW images \in Seq(Nat), NEW n \in Nat, Chosen(msgs, images, n),
           NEW msg \in Messages, msg[1].image = images[n + 1]
    PROVE  Chosen(Append(msgs, msg), images, n + 1)
<1>1. PICK place \in [1 .. Len(msgs) -> 1 .. n] :
        /\ \A i \in 1 .. Len(msgs) : msgs[i][1].image = images[place[i]]
        /\ \A i, j \in 1 .. Len(msgs) : i < j => place[i] < place[j]
  BY DEF Chosen
<1> DEFINE all == Append(msgs, msg)
           next == [i \in 1 .. Len(all) |-> IF i = Len(all) THEN n + 1 ELSE place[i]]
<1>2. /\ Len(all) = Len(msgs) + 1 /\ Len(msgs) \in Nat /\ all[Len(all)] = msg
      /\ \A i \in 1 .. Len(all) : i # Len(all) => i \in 1 .. Len(msgs) /\ all[i] = msgs[i]
  OBVIOUS
<1> HIDE DEF all
<1>3. /\ next[Len(all)] = n + 1
      /\ \A i \in 1 .. Len(all) : i # Len(all) => next[i] = place[i] /\ place[i] \in 1 .. n
  <2>1. Len(all) \in 1 .. Len(all)
    BY <1>2
  <2>2. next[Len(all)] = n + 1
    BY <2>1
  <2>3. \A i \in 1 .. Len(all) : i # Len(all) => next[i] = place[i]
    OBVIOUS
  <2> QED
    BY <1>1, <1>2, <2>2, <2>3
<1>4. next \in [1 .. Len(all) -> 1 .. n + 1]
  BY <1>1, <1>2
<1> HIDE DEF next
<1>5. \A i \in 1 .. Len(all) : all[i][1].image = images[next[i]]
  BY <1>1, <1>2, <1>3
<1>6. ASSUME NEW i \in 1 .. Len(all), NEW j \in 1 .. Len(all), i < j
      PROVE  next[i] < next[j]
  <2>1. i # Len(all) /\ next[i] = place[i] /\ place[i] \in 1 .. n /\ i \in 1 .. Len(msgs)
    BY <1>2, <1>3, <1>6
  <2>2. CASE j = Len(all)
    BY <1>3, <2>1, <2>2
  <2>3. CASE j # Len(all)
    BY <1>1, <1>2, <1>3, <1>6, <2>1, <2>3
  <2> QED
    BY <2>2, <2>3
<1> QED
  BY <1>4, <1>5, <1>6 DEF Chosen, all

LEMMA OrderStep == TypeInv /\ InHand /\ TypeInv' /\ Order /\ [Next]_vars => Order'
<1> SUFFICES ASSUME TypeInv, TypeInv', InHand, Order, [Next]_vars
             PROVE  Order'
  OBVIOUS
<1>0. /\ streamvis \in Seq(Messages) /\ live_queue \in Seq(Messages) /\ live \in Seq(Messages)
      /\ taken \in Seq(Nat) /\ Len(taken) \in Nat /\ NumDone \in Nat
      /\ taken' \in Seq(Nat) /\ live' \in Seq(Messages) /\ live_queue' \in Seq(Messages)
      /\ ToClient \in Seq(Messages) /\ ToClient' \in Seq(Messages)
  <2>1. Len(taken) \in Nat /\ (pc # "recv" => Len(taken) > 0)
    BY DEF TypeInv, InHand
  <2>2. NumDone \in Nat
    BY <2>1 DEF NumDone
  <2> QED
    BY <2>1, <2>2 DEF TypeInv, ToClient
<1>1. CASE UNCHANGED <<pc, taken, streamvis, live, live_queue>>
  BY <1>1 DEF Order, ToClient, NumDone
<1>2. CASE ClientPulls
  <2>1. /\ live' = Append(live, live_queue[1]) /\ Len(live_queue) > 0
        /\ live_queue' = Tail(live_queue) /\ UNCHANGED <<pc, taken, streamvis>>
    BY <1>0, <1>2 DEF ClientPulls, visVars, loopVars
  <2>2. Len(live') = Len(live) + 1 /\ Len(live_queue') = Len(live_queue) - 1
    BY <1>0, <2>1
  <2>3. Len(ToClient') = Len(ToClient) /\ Len(ToClient) = Len(live) + Len(live_queue)
    <3>1. Len(ToClient) = Len(live) + Len(live_queue)
      BY <1>0 DEF ToClient
    <3>2. Len(ToClient') = Len(live') + Len(live_queue')
      BY <1>0 DEF ToClient
    <3>3. Len(live) \in Nat /\ Len(live_queue) \in Nat
      BY <1>0
    <3> QED
      BY <2>2, <3>1, <3>2, <3>3
  <2>4. ASSUME NEW i \in 1 .. Len(ToClient)
        PROVE  ToClient'[i] = ToClient[i]
    <3>1. CASE i <= Len(live) + 1
      BY <1>0, <2>1, <2>2, <2>3, <3>1 DEF ToClient
    <3>2. CASE i > Len(live) + 1
      <4>1. i - Len(live') \in 1 .. Len(live_queue') /\ (i - Len(live')) + 1 = i - Len(live)
        BY <1>0, <2>2, <2>3, <3>2
      <4>2. live_queue'[i - Len(live')] = live_queue[i - Len(live)]
        BY <1>0, <2>1, <4>1
      <4>3. ToClient'[i] = live_queue'[i - Len(live')] /\ ToClient[i] = live_queue[i - Len(live)]
        BY SMTT(30), <1>0, <2>2, <2>3, <3>2 DEF ToClient
      <4> QED
        BY <4>2, <4>3
    <3> QED
      BY <1>0, <2>3, <3>1, <3>2
  <2>5. ToClient' = ToClient
    BY <1>0, <2>3, <2>4, SeqEqual
  <2> QED
    BY <2>1, <2>5 DEF Order, NumDone
<1>3. CASE ClientLeaves
  <2>1. UNCHANGED <<pc, taken, streamvis, live>> /\ live_queue' = <<>>
    BY <1>3 DEF ClientLeaves, visVars, loopVars
  <2>2. /\ Len(ToClient') <= Len(ToClient)
        /\ \A i \in 1 .. Len(ToClient') : ToClient'[i] = ToClient[i]
    BY <1>0, <2>1 DEF ToClient
  <2>3. NumDone' = NumDone
    BY <2>1 DEF NumDone
  <2>4. Chosen(ToClient', taken', NumDone')
    <3>1. Chosen(ToClient, taken, NumDone)
      BY DEF Order
    <3>2. Chosen(ToClient', taken, NumDone)
      BY <1>0, <2>2, <3>1, ChosenFewer
    <3> QED
      BY <2>1, <2>3, <3>2
  <2> QED
    BY <2>1, <2>4 DEF Order
<1>4. CASE RecvImageMeta
  <2>1. /\ pc = "recv" /\ pc' = "vis_header" /\ taken' = Append(taken, meta')
        /\ UNCHANGED <<streamvis, live, live_queue>>
    BY <1>4 DEF RecvImageMeta, visVars, liveVars
  <2>2. /\ Len(taken') = Len(taken) + 1 /\ NumDone = Len(taken) /\ NumDone' = Len(taken)
        /\ \A i \in 1 .. Len(taken) : taken'[i] = taken[i]
    BY <1>0, <2>1 DEF NumDone, TypeInv
  <2>3. Len(streamvis) = Len(taken)
    BY <2>1 DEF Order
  <2>4. ToClient' = ToClient
    BY <2>1 DEF ToClient
  <2>5. Chosen(ToClient', taken', NumDone')
    <3>1. Chosen(ToClient, taken, NumDone)
      BY DEF Order
    <3>2. /\ Len(ToClient) <= Len(ToClient) /\ NumDone <= NumDone
          /\ \A i \in 1 .. NumDone : taken'[i] = taken[i]
      BY <1>0, <2>2
    <3>3. Chosen(ToClient, taken', NumDone)
      BY <1>0, <3>1, <3>2, ChosenFewer
    <3> QED
      BY <2>2, <2>4, <3>3
  <2>6. \A k \in 1 .. Len(streamvis) : streamvis[k][1].image = taken'[k]
    BY <2>2, <2>3 DEF Order
  <2>7. Len(streamvis') = Len(taken') - 1
    BY <1>0, <2>1, <2>2, <2>3
  <2> QED
    BY <2>1, <2>5, <2>6, <2>7 DEF Order
<1>5. CASE SendVisData
  <2>1. /\ pc = "vis_data" /\ pc' = "live_header" /\ UNCHANGED <<taken, live, live_queue>>
        /\ streamvis' = Append(streamvis, Append(vis_part, Data(pixels)))
    BY <1>5 DEF SendVisData, PubSend, liveVars
  <2>2. /\ Len(taken) > 0 /\ meta = taken[Len(taken)] /\ vis_part = <<Header(meta, shape)>>
        /\ meta \in Nat /\ shape \in Shapes /\ pixels \in Seq(Nat)
    BY <2>1 DEF InHand, TypeInv
  <2>3. streamvis' = Append(streamvis, <<Header(meta, shape), Data(pixels)>>)
    BY <2>1, <2>2, MessageType
  <2>4. Len(streamvis) = Len(taken) - 1 /\ NumDone' = NumDone /\ ToClient' = ToClient
    BY <2>1 DEF Order, NumDone, ToClient
  <2>5. /\ Len(streamvis') = Len(taken) /\ streamvis'[Len(taken)][1] = Header(meta, shape)
        /\ \A k \in 1 .. Len(taken) : k # Len(taken) => k \in 1 .. Len(streamvis) /\ streamvis'[k] = streamvis[k]
    BY SMTT(30), <1>0, <2>2, <2>3, <2>4
  <2>6. \A k \in 1 .. Len(taken) : streamvis'[k][1].image = taken[k]
    <3> SUFFICES ASSUME NEW k \in 1 .. Len(taken)
                 PROVE  streamvis'[k][1].image = taken[k]
      OBVIOUS
    <3>1. CASE k = Len(taken)
      <4>1. Header(meta, shape).image = meta
        BY DEF Header
      <4> QED
        BY <2>2, <2>5, <3>1, <4>1
    <3>2. CASE k # Len(taken)
      BY <2>5, <3>2 DEF Order
    <3> QED
      BY <3>1, <3>2
  <2> QED
    BY <2>1, <2>4, <2>5, <2>6 DEF Order
<1>6. ASSUME pc \in {"live_header", "live_data"}, pc' = "recv", UNCHANGED <<taken, streamvis>>,
             \/ ToClient' = ToClient
             \/ \E msg \in Messages : msg[1].image = meta /\ ToClient' = Append(ToClient, msg)
      PROVE  Order'
  <2>1. NumDone' = Len(taken) /\ NumDone + 1 = Len(taken) /\ meta = taken[Len(taken)]
    BY <1>0, <1>6 DEF NumDone, InHand
  <2>2. Chosen(ToClient', taken', NumDone')
    <3>1. CASE ToClient' = ToClient
      BY <1>0, <1>6, <2>1, <3>1, ChosenFewer DEF Order
    <3>2. ASSUME NEW msg \in Messages, msg[1].image = meta, ToClient' = Append(ToClient, msg)
          PROVE  Chosen(ToClient', taken', NumDone')
      <4>1. Chosen(ToClient, taken, NumDone) /\ msg[1].image = taken[NumDone + 1]
        BY <2>1, <3>2 DEF Order
      <4>2. Chosen(Append(ToClient, msg), taken, NumDone + 1)
        BY <1>0, <4>1, ChosenNext
      <4> QED
        BY <1>6, <2>1, <3>2, <4>2
    <3> QED
      BY <1>6, <3>1, <3>2
  <2> QED
    BY <1>6, <2>2 DEF Order
<1>7. CASE SendLiveHeader
  <2>1. UNCHANGED <<taken, streamvis, live, live_queue>> /\ pc = "live_header" /\ pc' \in {"live_data", "recv"}
    BY <1>7 DEF SendLiveHeader, PushSend, liveVars, visVars, InHand
  <2>2. ToClient' = ToClient
    BY <2>1 DEF ToClient
  <2>3. CASE pc' = "live_data"
    BY <2>1, <2>2, <2>3 DEF Order, NumDone
  <2> QED
    BY <1>6, <2>1, <2>2, <2>3
<1>8. CASE SendLiveData
  <2>1. pc = "live_data" /\ pc' = "recv" /\ UNCHANGED <<taken, streamvis>>
    BY <1>8 DEF SendLiveData, visVars
  <2>2. CASE dropping \/ ~PushTakes
    <3>1. UNCHANGED <<live, live_queue>>
      BY <1>8, <2>2 DEF SendLiveData, PushSend, liveVars
    <3> QED
      BY <1>6, <2>1, <3>1 DEF ToClient
  <2>3. CASE ~dropping /\ PushTakes
    <3> DEFINE msg == <<Header(meta, shape), Data(pixels)>>
    <3>1. /\ live_part = <<Header(meta, shape)>> /\ meta \in Nat /\ shape \in Shapes
          /\ pixels \in Seq(Nat)
      BY <2>1, <2>3 DEF InHand, TypeInv
    <3>2. Append(live_part, Data(pixels)) = msg /\ msg \in Messages /\ msg[1].image = meta
      BY <3>1, MessageType DEF Header
    <3> HIDE DEF msg
    <3>3. live_queue' = Append(live_queue, msg) /\ UNCHANGED live
      BY <1>8, <2>3, <3>2 DEF SendLiveData, PushSend
    <3> DEFINE more == Append(ToClient, msg)
    <3>4. ToClient' \in Seq(Messages) /\ more \in Seq(Messages)
      BY <1>0, <3>2
    <3>5. Len(ToClient') = Len(more) /\ \A i \in 1 .. Len(ToClient') : ToClient'[i] = more[i]
      BY <1>0, <3>2, <3>3 DEF ToClient
    <3> HIDE DEF more
    <3>6. ToClient' = more
      BY <3>4, <3>5, SeqEqual
    <3> QED
      BY <1>6, <2>1, <3>2, <3>6 DEF more
  <2> QED
    BY <2>2, <2>3
<1>9. CASE SendVisHeader
  <2>1. /\ UNCHANGED <<taken, streamvis, live, live_queue>>
        /\ pc = "vis_header" /\ pc' = "vis_data"
    BY <1>9 DEF SendVisHeader, PubSend, liveVars
  <2> QED
    BY <2>1 DEF Order, NumDone, ToClient
<1>10. ASSUME NEW m \in Module, StorePixels(m)
       PROVE  Order'
  BY <1>1, <1>10 DEF StorePixels, visVars, liveVars, loopVars
<1>11. CASE UNCHANGED vars \/ AnnounceImage \/ ClientComes \/ CopyPixels
  BY <1>1, <1>11 DEF vars, visVars, liveVars, loopVars, AnnounceImage, ClientComes, CopyPixels
<1> QED
  BY <1>2, <1>3, <1>4, <1>5, <1>7, <1>8, <1>9, <1>10, <1>11 DEF Next, Stream, Environment

\* The messages are of the images received, in their order.
THEOREM OrderKept == Spec => []Order
  BY OrderInit, OrderStep, TypesKept, PTL DEF Spec

\* What arrives anywhere is whole, streamvis gets every image received, the live analysis
\* some of them, both in order and none twice (MessagesWhole).
THEOREM WholeMessages == Spec => []MessagesWhole
<1>1. TypeInv /\ InHand /\ Sent /\ Order => MessagesWhole
  <2> SUFFICES ASSUME TypeInv, InHand, Sent, Order
               PROVE  MessagesWhole
    OBVIOUS
  <2>0. /\ streamvis \in Seq(Messages) /\ ToClient \in Seq(Messages) /\ taken \in Seq(Nat)
        /\ Len(taken) \in Nat /\ (pc # "recv" => Len(taken) > 0)
    BY DEF TypeInv, InHand, ToClient
  <2>1. /\ \A k \in 1 .. Len(streamvis) : IsMessage(streamvis[k])
        /\ \A k \in 1 .. Len(live) : IsMessage(live[k])
        /\ \A k \in 1 .. Len(live_queue) : IsMessage(live_queue[k])
    BY DEF Sent, Good
  <2>2. \A msgs \in Seq(Messages) : ImagesOf(msgs) \in Seq(Nat) /\ Len(ImagesOf(msgs)) = Len(msgs)
    <3> SUFFICES ASSUME NEW msgs \in Seq(Messages)
                 PROVE  ImagesOf(msgs) \in Seq(Nat) /\ Len(ImagesOf(msgs)) = Len(msgs)
      OBVIOUS
    <3>1. \A k \in 1 .. Len(msgs) : msgs[k][1].image \in Nat
      BY DEF Messages, Header
    <3> QED
      BY <3>1 DEF ImagesOf
  <2>3. Len(streamvis) <= Len(taken) /\ Len(streamvis) \in Nat
    BY <2>0 DEF Order
  <2>4. ImagesOf(streamvis) = SubSeq(taken, 1, Len(streamvis))
    <3>1. /\ SubSeq(taken, 1, Len(streamvis)) \in Seq(Nat)
          /\ Len(SubSeq(taken, 1, Len(streamvis))) = Len(streamvis)
          /\ \A k \in 1 .. Len(streamvis) : SubSeq(taken, 1, Len(streamvis))[k] = taken[k]
      BY <2>0, <2>3
    <3>2. \A k \in 1 .. Len(streamvis) : ImagesOf(streamvis)[k] = taken[k]
      BY DEF Order, ImagesOf
    <3> QED
      BY <2>0, <2>2, <3>1, <3>2, SeqEqual
  <2>5. Len(taken) - Len(streamvis) = IF pc \in {"vis_header", "vis_data"} THEN 1 ELSE 0
    BY <2>0 DEF Order
  <2>6. IsSubsequence(ImagesOf(ToClient), taken)
    <3>1. NumDone \in Nat /\ NumDone <= Len(taken)
      BY <2>0 DEF NumDone
    <3>2. Chosen(ToClient, taken, Len(taken))
      BY <2>0, <3>1, ChosenFewer DEF Order
    <3>3. \A k \in 1 .. Len(ToClient) : ImagesOf(ToClient)[k] = ToClient[k][1].image
      BY DEF ImagesOf
    <3>4. Len(ImagesOf(ToClient)) = Len(ToClient)
      BY <2>0, <2>2
    <3> QED
      BY <3>2, <3>3, <3>4 DEF Chosen, IsSubsequence
  <2> QED
    BY <2>1, <2>4, <2>5, <2>6 DEF MessagesWhole, ToClient
<1> QED
  BY <1>1, TypesKept, SentKept, OrderKept, PTL
=============================================================================
