----------------------- MODULE ImageAssembler_proofs -----------------------
(***************************************************************************)
(* The offline writer for every number of modules, slots, frames and       *)
(* blocks: its types, that each block it writes is whole, and that it      *)
(* implements BlockFile.                                                   *)
(***************************************************************************)
EXTENDS ImageAssembler, FiniteSetTheorems, TLAPS

-----------------------------------------------------------------------------
(* Remainders: the ring addresses its slots by a block id modulo their number. *)

\* Quotient and remainder.
LEMMA ModEq ==
    ASSUME NEW n \in Nat \ {0}, NEW a \in Nat
    PROVE  /\ a = n * (a \div n) + (a % n)
           /\ a \div n \in Nat
           /\ a % n \in 0 .. n - 1
  OBVIOUS

\* Multiples of n are at least n apart.
LEMMA MultiplesApart ==
    ASSUME NEW n \in Nat \ {0}, NEW p \in Int, NEW q \in Int, p < q
    PROVE  n * p + n <= n * q
<1>1. q = p + 1 + (q - p - 1) /\ q - p - 1 \in Nat
  OBVIOUS
<1>2. n * q = n * p + n + n * (q - p - 1)
  BY <1>1
<1>3. n * (q - p - 1) \in Nat
  BY <1>1
<1>4. n * p \in Int
  OBVIOUS
<1> QED
  BY <1>2, <1>3, <1>4

\* Quotient and remainder are unique.
LEMMA ModUnique ==
    ASSUME NEW n \in Nat \ {0}, NEW p \in Int, NEW q \in Int,
           NEW r \in 0 .. n - 1, NEW s \in 0 .. n - 1, n * p + r = n * q + s
    PROVE  p = q /\ r = s
<1>0. n * p \in Int /\ n * q \in Int
  OBVIOUS
<1>1. ~ p < q
  BY MultiplesApart, <1>0
<1>2. ~ q < p
  BY MultiplesApart, <1>0
<1> QED
  BY <1>1, <1>2, <1>0

\* One turn of the ring later the slot is the same.
LEMMA ModShift ==
    ASSUME NEW n \in Nat \ {0}, NEW a \in Nat
    PROVE  (a + n) % n = a % n
<1> DEFINE p == a \div n
           q == (a + n) \div n
           r == a % n
           s == (a + n) % n
<1>1. a = n * p + r /\ p \in Nat /\ r \in 0 .. n - 1
  BY ModEq
<1>2. a + n = n * q + s /\ q \in Nat /\ s \in 0 .. n - 1
  BY ModEq, a + n \in Nat
<1>3. n * (p + 1) = n * p + n /\ n * p \in Int /\ p + 1 \in Int
  BY <1>1
<1> HIDE DEF p, q, r, s
<1>4. n * (p + 1) + r = n * q + s
  BY <1>1, <1>2, <1>3
<1>5. r = s
  BY <1>1, <1>2, <1>3, <1>4, ModUnique
<1> QED
  BY <1>5 DEF r, s

\* Within one turn of the ring two ids never share a slot.
LEMMA ModWindow ==
    ASSUME NEW n \in Nat \ {0}, NEW a \in Nat, NEW b \in Nat, a < b, b < a + n
    PROVE  a % n # b % n
<1> DEFINE p == a \div n
           q == b \div n
<1>1. a = n * p + (a % n) /\ p \in Nat /\ a % n \in 0 .. n - 1
  BY ModEq
<1>2. b = n * q + (b % n) /\ q \in Nat /\ b % n \in 0 .. n - 1
  BY ModEq
<1> HIDE DEF p, q
<1> SUFFICES ASSUME a % n = b % n PROVE FALSE
  OBVIOUS
<1>0. n * p \in Int /\ n * q \in Int
  BY <1>1, <1>2
<1>3. ~ p < q
  BY MultiplesApart, <1>0, <1>1, <1>2
<1>4. ~ q < p
  BY MultiplesApart, <1>0, <1>1, <1>2
<1> QED
  BY <1>3, <1>4, <1>1, <1>2

-----------------------------------------------------------------------------
(* Slots and modules. *)

LEMMA SlotType == \A b \in Nat : SlotOf(b) \in Slot
  BY ModEq, SlotsAssumption DEF SlotOf, Slot

LEMMA CountType == NModules \in Nat /\ NModules \in Int
  BY FS_CardinalityType, ModuleAssumption DEF NModules

-----------------------------------------------------------------------------
(* Types. *)

\* A thread that has left its loop is one past the range: what keeps the blocks
\* of the others inside it.
TypeInv ==
    /\ TypeOK
    /\ \A m \in Module : rpc[m] = "done" <=> rblock[m] = StopBlock + 1
    /\ wpc = "done" <=> wblock = StopBlock + 1

LEMMA TypeInvInit == Init => TypeInv
<1> SUFFICES ASSUME Init PROVE TypeInv
  OBVIOUS
<1> USE CountType, SlotsAssumption, RangeAssumption DEF Init
<1>1. NoFrames \in Contents
  BY DEF NoFrames, Contents
<1>2. buffer_status \in [Slot -> Int]
  OBVIOUS
<1>3. rcopied \in [Module -> 0 .. NFrames] /\ rblock \in [Module -> StartBlock .. StopBlock + 1]
  OBVIOUS
<1>4. buffer_bunch_id \in [Slot -> {EMPTY} \union Block] /\ rseen \in [Module -> {EMPTY} \union Block]
  OBVIOUS
<1>5. image_buffer \in [Slot -> Contents] /\ wmeta \in Contents
  BY <1>1
<1>6. rbuffer \in Contents /\ misread \subseteq Module \X Block
  BY <1>1
<1>7. wblock \in StartBlock .. StopBlock + 1
  OBVIOUS
<1>8. written \in Seq([block : Block, meta : Contents, data : Contents])
  OBVIOUS
<1>9. TypeOK
  BY <1>2, <1>3, <1>4, <1>5, <1>6, <1>7, <1>8 DEF TypeOK
<1> QED
  BY <1>9 DEF TypeInv

LEMMA TypeInvStep == TypeInv /\ [Next]_vars => TypeInv'
<1> SUFFICES ASSUME TypeInv, [Next]_vars PROVE TypeInv'
  OBVIOUS
<1> USE RangeAssumption, SlotsAssumption, CountType
<1> USE DEF TypeInv, TypeOK
<1>0. \A b \in StartBlock .. StopBlock + 1 : SlotOf(b) \in Slot
  BY SlotType
<1>1. ASSUME NEW m \in Module, ClaimEmpty(m) PROVE TypeInv'
  <2>1. rblock[m] \in Block
    BY <1>1 DEF ClaimEmpty, ReaderAt, Block
  <2> QED
    BY <1>1, <2>1 DEF ClaimEmpty, ReaderAt, writerVars
<1>2. ASSUME NEW m \in Module, ClaimOccupied(m) PROVE TypeInv'
  <2>1. buffer_bunch_id[SlotOf(rblock[m])] \in {EMPTY} \union Block
    BY <1>0
  <2> QED
    BY <1>2, <2>1 DEF ClaimOccupied, ReaderAt, writerVars, slotVars
<1>3. ASSUME NEW m \in Module, CheckStatus(m) PROVE TypeInv'
  BY <1>3 DEF CheckStatus, ReaderAt, writerVars, slotVars
<1>4. ASSUME NEW m \in Module, GetBlock(m) PROVE TypeInv'
  <2>1. rblock[m] \in Block
    BY <1>4 DEF GetBlock, ReaderAt, Block
  <2>2. rbuffer' \in Contents
    BY <1>4, <2>1 DEF GetBlock, Contents
  <2> QED
    BY <1>4, <2>2 DEF GetBlock, StartCopy, ReaderAt, writerVars, slotVars
<1>5. ASSUME NEW m \in Module, GetBlockThrows(m) PROVE TypeInv'
  BY <1>5 DEF GetBlockThrows, ReaderAt, writerVars, slotVars, readerVars
<1>6. ASSUME NEW m \in Module, GetBlockFails(m) PROVE TypeInv'
  <2>1. rblock[m] \in Block
    BY <1>6 DEF GetBlockFails, ReaderAt, Block
  <2>2. misread' \subseteq Module \X Block
    BY <1>6, <2>1 DEF GetBlockFails
  <2>3. PICK n_read \in 0 .. NFrames - 1 :
           rbuffer' = [rbuffer EXCEPT ![m] =
                         [i \in Frame |-> IF i <= n_read THEN rblock[m] ELSE rbuffer[m][i]]]
    BY <1>6 DEF GetBlockFails
  <2>4. rbuffer' \in Contents
    BY <2>1, <2>3 DEF Contents
  <2> QED
    BY <1>6, <2>2, <2>4 DEF GetBlockFails, StartCopy, ReaderAt, writerVars, slotVars
<1>7. ASSUME NEW m \in Module, CopyFrame(m) PROVE TypeInv'
  <2> DEFINE s == SlotOf(rblock[m])
             i == rcopied[m] + 1
  <2>1. s \in Slot /\ i \in Frame
    BY <1>0, <1>7 DEF CopyFrame, Frame
  <2>2. image_buffer' = [image_buffer EXCEPT ![s] =
                          [image_buffer[s] EXCEPT ![m] =
                            [image_buffer[s][m] EXCEPT ![i] = rbuffer[m][i]]]]
    BY <1>7 DEF CopyFrame
  <2>3. image_buffer' \in [Slot -> Contents]
    <3> HIDE DEF s, i
    <3>1. image_buffer[s][m] \in [Frame -> {Blank} \union Block]
      BY <2>1 DEF Contents
    <3>2. [image_buffer[s][m] EXCEPT ![i] = rbuffer[m][i]] \in [Frame -> {Blank} \union Block]
      BY <2>1, <3>1 DEF Contents
    <3>3. [image_buffer[s] EXCEPT ![m] = [image_buffer[s][m] EXCEPT ![i] = rbuffer[m][i]]] \in Contents
      BY <2>1, <3>2 DEF Contents
    <3> QED
      BY <2>2, <3>3
  <2> QED
    BY SMTT(30), <1>7, <2>3 DEF CopyFrame, ReaderAt, writerVars
<1>8. ASSUME NEW m \in Module, FinishBlock(m) PROVE TypeInv'
  <2>1. rblock[m] \in Block
    BY <1>8 DEF FinishBlock, ReaderAt, Block
  <2>2. buffer_status' \in [Slot -> Int]
    <3>1. SlotOf(rblock[m]) \in Slot
      BY <1>0
    <3>2. buffer_status[SlotOf(rblock[m])] - 1 \in Int
      BY <3>1
    <3> QED
      BY <1>8, <3>2 DEF FinishBlock
  <2> QED
    BY SMTT(30), <1>8, <2>1, <2>2 DEF FinishBlock, ReaderAt, writerVars, Block
<1>9. CASE WaitFull
  BY <1>9 DEF WaitFull, WriterAt, readerVars, slotVars
<1>10. CASE GetMetadataBuffer
  BY <1>0, <1>10 DEF GetMetadataBuffer, WriterAt, readerVars, slotVars
<1>11. CASE WriteBlock
  <2>1. wblock \in Block
    BY <1>11 DEF WriteBlock, WriterAt, Block
  <2>2. written' \in Seq([block : Block, meta : Contents, data : Contents])
    BY <1>0, <1>11, <2>1 DEF WriteBlock, WriterAt
  <2> QED
    BY <1>11, <2>2 DEF WriteBlock, WriterAt, readerVars, slotVars
<1>12. CASE FreeStatus
  <2>1. buffer_status' \in [Slot -> Int]
    BY <1>12 DEF FreeStatus
  <2>2. UNCHANGED <<buffer_bunch_id, image_buffer, rpc, rblock, rseen, rbuffer, rcopied,
                    misread, wblock, wmeta, written, terminated>>
    BY <1>12 DEF FreeStatus, readerVars
  <2>3. wpc = "status" /\ wpc' = "free"
    BY <1>12 DEF FreeStatus, WriterAt
  <2> QED
    BY <2>1, <2>2, <2>3
<1>13. CASE FreeBunchId
  <2>1. wblock \in Block
    BY <1>13 DEF FreeBunchId, WriterAt, Block
  <2>2. buffer_bunch_id' \in [Slot -> {EMPTY} \union Block]
    BY <1>13 DEF FreeBunchId
  <2>3. UNCHANGED <<buffer_status, image_buffer, rpc, rblock, rseen, rbuffer, rcopied,
                    misread, wmeta, written, terminated>>
    BY <1>13 DEF FreeBunchId, readerVars
  <2>4. wblock' = wblock + 1 /\ wpc' = IF wblock = StopBlock THEN "done" ELSE "wait"
    BY <1>13 DEF FreeBunchId
  <2>5. wblock' \in StartBlock .. StopBlock + 1 /\ (wpc' = "done" <=> wblock' = StopBlock + 1)
    BY <2>1, <2>4 DEF Block
  <2> QED
    BY <2>2, <2>3, <2>4, <2>5
<1>14. CASE UNCHANGED vars
  BY <1>14 DEF vars, slotVars, readerVars, writerVars
<1> QED
  BY <1>1, <1>2, <1>3, <1>4, <1>5, <1>6, <1>7, <1>8, <1>9, <1>10, <1>11, <1>12, <1>13, <1>14
     DEF Next, Reader, Writer, Halted

\* Every variable keeps its type, whatever reads fail and wherever the range starts:
\* no thread leaves the range, and no slot holds a block from outside it.
THEOREM TypeCorrect == Spec => []TypeOK
<1>1. TypeInv => TypeOK
  BY DEF TypeInv
<1> QED
  BY <1>1, TypeInvInit, TypeInvStep, PTL DEF Spec
-----------------------------------------------------------------------------
(* Slots. *)

\* Two blocks within one turn of the ring that share a slot are the same block.
LEMMA SameSlot ==
    \A a, b \in Nat : a < b + NSlots /\ b < a + NSlots /\ SlotOf(a) = SlotOf(b) => a = b
<1> SUFFICES ASSUME NEW a \in Nat, NEW b \in Nat, a < b + NSlots, b < a + NSlots,
                    SlotOf(a) = SlotOf(b), a # b
             PROVE  FALSE
  OBVIOUS
<1>1. CASE a < b
  BY <1>1, ModWindow, SlotsAssumption DEF SlotOf
<1>2. CASE b < a
  BY <1>2, ModWindow, SlotsAssumption DEF SlotOf
<1> QED
  BY <1>1, <1>2

LEMMA NextTurn == \A b \in Nat : SlotOf(b + NSlots) = SlotOf(b)
  BY ModShift, SlotsAssumption DEF SlotOf

\* What the invariant says of the slot of a block that is delivered, at least in
\* part: it is occupied by it, and the block is in the writer's window.
LEMMA DeliveredInWindow ==
    ASSUME IInv, StartBlock # EMPTY
    PROVE  /\ \A m \in Module : \A b \in Block :
                 wblock <= b /\ b < rblock[m] => b < wblock + NSlots
           /\ \A m \in Module : rpc[m] \in {"load", "copy"} =>
                 rblock[m] \in Block /\ wblock <= rblock[m] /\ rblock[m] < wblock + NSlots
<1> USE RangeAssumption, SlotsAssumption
<1>1. ASSUME NEW b \in Block, buffer_bunch_id[SlotOf(b)] = b PROVE b < wblock + NSlots
  <2>1. SlotOf(b) \in Slot /\ b # EMPTY
    BY SlotType DEF Block, EMPTY
  <2> QED
    BY <1>1, <2>1 DEF IInv, OccupantsInWindow
<1>2. ASSUME NEW m \in Module, rpc[m] \in {"load", "copy"} PROVE rblock[m] \in Block /\ wblock <= rblock[m]
  BY <1>2 DEF IInv, ReadersAhead, TypeOK, Block
<1> QED
  BY <1>1, <1>2 DEF IInv, DeliveredOccupy

\* A reader that has not passed the next block can only be as far as its slot lets it.
LEMMA ReadersWithinTurn ==
    ASSUME IInv, StartBlock # EMPTY
    PROVE  \A m \in Module : rblock[m] <= wblock + NSlots
<1> SUFFICES ASSUME NEW m \in Module, rblock[m] > wblock + NSlots PROVE FALSE
  BY RangeAssumption, SlotsAssumption DEF IInv, TypeOK
<1> DEFINE b == wblock + NSlots
<1>1. b \in Block /\ wblock <= b /\ b < rblock[m]
  BY RangeAssumption, SlotsAssumption DEF IInv, TypeOK, Block
<1>2. wblock \in Int
  BY RangeAssumption DEF IInv, TypeOK
<1>3. b < wblock + NSlots
  <2> HIDE DEF b
  <2> QED
    BY <1>1, DeliveredInWindow
<1> QED
  BY <1>2, <1>3, SlotsAssumption
-----------------------------------------------------------------------------
(* The invariant. *)

LEMMA IInvInit == Init => IInv
<1> SUFFICES ASSUME Init PROVE IInv
  OBVIOUS
<1> USE RangeAssumption, SlotsAssumption DEF Init
<1>1. TypeOK
  BY TypeInvInit DEF TypeInv
<1>2. ReadersAhead
  BY DEF ReadersAhead, Serving
<1>3. OccupantsInWindow
  BY DEF OccupantsInWindow
<1>4. DeliveredOccupy
  BY DEF DeliveredOccupy, Block
<1>5. StatusOfWindow
  <2> SUFFICES ASSUME NEW b \in wblock .. wblock + NSlots - 1
               PROVE  buffer_status[SlotOf(b)] = Cardinality(Missing(b))
    BY DEF StatusOfWindow
  <2>1. Missing(b) = Module
    BY DEF Missing
  <2>2. SlotOf(b) \in Slot
    BY SlotType
  <2> QED
    BY <2>1, <2>2 DEF NModules
<1>6. DeliveredInSlot
  BY DEF DeliveredInSlot, Block
<1>7. WriterWhole
  BY DEF WriterWhole, WrittenBlocksWhole
<1> QED
  BY <1>1, <1>2, <1>3, <1>4, <1>5, <1>6, <1>7 DEF IInv

\* A reader claims an empty slot: its block is within the window, because the block
\* a turn before it has been freed.
LEMMA ClaimEmptyStep ==
    ASSUME IInv, TypeOK', StartBlock # EMPTY, NEW m \in Module, ClaimEmpty(m)
    PROVE  IInv'
<1> DEFINE b == rblock[m]
<1> USE RangeAssumption, SlotsAssumption
<1>1. b \in Block /\ wblock \in Block /\ wblock <= b
  BY DEF ClaimEmpty, ReaderAt, IInv, ReadersAhead, TypeOK, Block
<1>2. SlotOf(b) \in Slot
  BY <1>1, SlotType DEF Block
<1>3. buffer_bunch_id[SlotOf(b)] = EMPTY
  BY DEF ClaimEmpty
<1>4. b < wblock + NSlots
  <2> SUFFICES ASSUME b >= wblock + NSlots PROVE FALSE
    BY <1>1 DEF Block
  <2> DEFINE c == b - NSlots
  <2>1. c \in Block /\ wblock <= c /\ c < rblock[m]
    BY <1>1 DEF Block
  <2>2. buffer_bunch_id[SlotOf(c)] = c
    BY <2>1 DEF IInv, DeliveredOccupy
  <2>3. SlotOf(c + NSlots) = SlotOf(c) /\ c + NSlots = b
    BY <1>1, <2>1, NextTurn DEF Block
  <2>4. c # EMPTY
    BY <2>1 DEF Block, EMPTY
  <2> QED
    BY <1>3, <2>2, <2>3, <2>4
<1>5. /\ buffer_bunch_id' = [buffer_bunch_id EXCEPT ![SlotOf(b)] = b]
      /\ rpc[m] = "claim" /\ rpc' = [rpc EXCEPT ![m] = "load"]
      /\ UNCHANGED <<buffer_status, image_buffer, rblock, rseen, rbuffer, rcopied, misread,
                     wpc, wblock, wmeta, written>>
  BY DEF ClaimEmpty, ReaderAt, writerVars
<1> HIDE DEF b
<1>6. ReadersAhead'
  BY <1>5 DEF IInv, ReadersAhead, Serving, TypeOK
<1>7. OccupantsInWindow'
  BY <1>1, <1>2, <1>4, <1>5 DEF IInv, OccupantsInWindow, TypeOK
<1>8. DeliveredOccupy'
  <2>1. ASSUME NEW n \in Module, NEW c \in Block, wblock <= c, c < rblock[n]
        PROVE  buffer_bunch_id'[SlotOf(c)] = c
    <3>1. buffer_bunch_id[SlotOf(c)] = c /\ c # EMPTY
      BY <2>1 DEF IInv, DeliveredOccupy, Block, EMPTY
    <3> QED
      BY <1>3, <1>5, <3>1 DEF IInv, TypeOK
  <2>2. ASSUME NEW n \in Module,
               rpc'[n] \in {"load", "copy"} \/ (rpc'[n] = "check" /\ rseen[n] = rblock[n])
        PROVE  buffer_bunch_id'[SlotOf(rblock[n])] = rblock[n]
    <3>1. CASE n = m
      BY <1>2, <1>5, <3>1 DEF IInv, TypeOK, b
    <3>2. CASE n # m
      <4>1. buffer_bunch_id[SlotOf(rblock[n])] = rblock[n]
        BY <1>5, <2>2, <3>2 DEF IInv, DeliveredOccupy, TypeOK
      <4>2. rblock[n] # EMPTY
        BY DEF IInv, TypeOK, EMPTY
      <4> QED
        BY <1>3, <1>5, <4>1, <4>2 DEF IInv, TypeOK
    <3> QED
      BY <3>1, <3>2
  <2> QED
    BY <1>5, <2>1, <2>2 DEF DeliveredOccupy
<1>9. StatusOfWindow'
  BY <1>5 DEF IInv, StatusOfWindow, Missing
<1>10. DeliveredInSlot'
  <2>1. \A n \in Module : rpc'[n] = "copy" => rpc[n] = "copy"
    BY <1>5 DEF IInv, TypeOK
  <2> QED
    BY <1>5, <2>1 DEF IInv, DeliveredInSlot
<1>11. WriterWhole'
  BY <1>5 DEF IInv, WriterWhole, WrittenBlocksWhole, IsBlock
<1> QED
  BY <1>6, <1>7, <1>8, <1>9, <1>10, <1>11 DEF IInv
\* The steps of a reader that change no slot.
LEMMA ReaderLocalStep ==
    ASSUME IInv, TypeOK', NEW m \in Module,
           ClaimOccupied(m) \/ CheckStatus(m) \/ GetBlock(m) \/ GetBlockThrows(m) \/ GetBlockFails(m)
    PROVE  IInv'
<1> USE RangeAssumption, SlotsAssumption
<1>1. /\ UNCHANGED <<buffer_bunch_id, buffer_status, image_buffer, rblock, wpc, wblock, wmeta, written>>
      /\ misread \subseteq misread'
  BY DEF ClaimOccupied, CheckStatus, GetBlock, GetBlockThrows, GetBlockFails, StartCopy,
         slotVars, readerVars, writerVars
<1>2. rpc[m] # "done" /\ rpc'[m] # "done" /\ \A n \in Module \ {m} : rpc'[n] = rpc[n]
  BY DEF ClaimOccupied, CheckStatus, GetBlock, GetBlockThrows, GetBlockFails, StartCopy,
         readerVars, ReaderAt, IInv, TypeOK
<1>3. ReadersAhead'
  BY <1>1, <1>2 DEF IInv, ReadersAhead, Serving
<1>4. OccupantsInWindow'
  BY <1>1 DEF IInv, OccupantsInWindow
<1>5. DeliveredOccupy'
  <2> SUFFICES ASSUME NEW n \in Module,
                      rpc'[n] \in {"load", "copy"} \/ (rpc'[n] = "check" /\ rseen'[n] = rblock[n])
               PROVE  buffer_bunch_id[SlotOf(rblock[n])] = rblock[n]
    BY <1>1 DEF IInv, DeliveredOccupy
  <2>1. CASE n # m
    <3>1. rpc'[n] = rpc[n] /\ rseen'[n] = rseen[n]
      BY <2>1 DEF ClaimOccupied, CheckStatus, GetBlock, GetBlockThrows, GetBlockFails, StartCopy,
                  readerVars, IInv, TypeOK
    <3> QED
      BY <3>1 DEF IInv, DeliveredOccupy
  <2>2. CASE n = m /\ ClaimOccupied(m)
    BY <2>2 DEF ClaimOccupied, IInv, TypeOK
  <2>3. CASE n = m /\ CheckStatus(m)
    BY <2>3 DEF CheckStatus, ReaderAt, IInv, TypeOK, DeliveredOccupy
  <2>4. CASE n = m /\ (GetBlock(m) \/ GetBlockThrows(m) \/ GetBlockFails(m))
    BY <2>4 DEF GetBlock, GetBlockThrows, GetBlockFails, ReaderAt, IInv, DeliveredOccupy
  <2> QED
    BY <2>1, <2>2, <2>3, <2>4
<1>6. StatusOfWindow'
  BY <1>1 DEF IInv, StatusOfWindow, Missing
<1>7. DeliveredInSlot'
  <2> SUFFICES ASSUME NEW n \in Module, rpc'[n] = "copy", <<n, rblock[n]>> \notin misread'
               PROVE  /\ \A i \in Frame : rbuffer'[n][i] = rblock[n]
                      /\ \A i \in 1 .. rcopied'[n] : image_buffer[SlotOf(rblock[n])][n][i] = rblock[n]
    BY <1>1 DEF IInv, DeliveredInSlot
  <2>1. CASE n = m /\ GetBlock(m)
    BY <2>1 DEF GetBlock, StartCopy, IInv, TypeOK, Contents
  <2>2. CASE n = m /\ GetBlockFails(m)
    BY <2>2 DEF GetBlockFails
  <2>3. CASE n # m \/ ~(GetBlock(m) \/ GetBlockFails(m))
    <3>1. rpc[n] = "copy" /\ rbuffer'[n] = rbuffer[n] /\ rcopied'[n] = rcopied[n]
      BY <2>3 DEF ClaimOccupied, CheckStatus, GetBlock, GetBlockThrows, GetBlockFails, StartCopy,
                  readerVars, ReaderAt, IInv, TypeOK, Contents
    <3> QED
      BY <1>1, <3>1 DEF IInv, DeliveredInSlot
  <2> QED
    BY <2>1, <2>2, <2>3
<1>8. WriterWhole'
  BY <1>1 DEF IInv, WriterWhole, WrittenBlocksWhole, IsBlock
<1> QED
  BY <1>3, <1>4, <1>5, <1>6, <1>7, <1>8 DEF IInv
\* A frame is copied: into the slot of the reader's own block, which no block
\* delivered already shares.
LEMMA CopyFrameStep ==
    ASSUME IInv, TypeOK', StartBlock # EMPTY, NEW m \in Module, CopyFrame(m)
    PROVE  IInv'
<1> DEFINE b == rblock[m]
           i == rcopied[m] + 1
<1> USE RangeAssumption, SlotsAssumption
<1>1. b \in Block /\ wblock \in Nat /\ wblock <= b /\ b < wblock + NSlots
  <2>1. rpc[m] = "copy" /\ wblock \in Nat
    BY DEF CopyFrame, ReaderAt, IInv, TypeOK
  <2> QED
    BY <2>1, DeliveredInWindow
<1>2. SlotOf(b) \in Slot /\ i \in Frame
  BY SMTT(30), <1>1, SlotType DEF Block, CopyFrame, Frame, IInv, TypeOK
<1>3. /\ rpc[m] = "copy" /\ (<<m, b>> \notin misread => rbuffer[m][i] = b)
      /\ UNCHANGED <<buffer_bunch_id, buffer_status, rpc, rblock, rseen, rbuffer, misread,
                     wpc, wblock, wmeta, written>>
  BY <1>2 DEF CopyFrame, ReaderAt, writerVars, IInv, DeliveredInSlot
<1>4. rcopied' = [rcopied EXCEPT ![m] = i]
  BY DEF CopyFrame
<1>5. \A s \in Slot : \A n \in Module : \A k \in Frame :
         image_buffer'[s][n][k] = IF s = SlotOf(b) /\ n = m /\ k = i THEN rbuffer[m][i]
                                 ELSE image_buffer[s][n][k]
  <2>1. image_buffer' = [image_buffer EXCEPT ![SlotOf(b)] =
                           [image_buffer[SlotOf(b)] EXCEPT ![m] =
                             [image_buffer[SlotOf(b)][m] EXCEPT ![i] = rbuffer[m][i]]]]
    BY <1>3 DEF CopyFrame
  <2> HIDE DEF b, i
  <2>2. image_buffer \in [Slot -> [Module -> [Frame -> {Blank} \union Block]]]
    BY DEF IInv, TypeOK, Contents
  <2> QED
    BY <1>2, <2>1, <2>2
<1> HIDE DEF b, i
<1>6. ReadersAhead'
  BY <1>3 DEF IInv, ReadersAhead, Serving
<1>7. OccupantsInWindow'
  BY <1>3 DEF IInv, OccupantsInWindow
<1>8. DeliveredOccupy'
  BY <1>3 DEF IInv, DeliveredOccupy
<1>9. StatusOfWindow'
  BY <1>3 DEF IInv, StatusOfWindow, Missing
<1>10. DeliveredInSlot'
  <2>1. ASSUME NEW n \in Module, NEW c \in Block, NEW k \in Frame, wblock <= c, c < rblock[n],
               <<n, c>> \notin misread
        PROVE  image_buffer'[SlotOf(c)][n][k] = c
    <3>1. image_buffer[SlotOf(c)][n][k] = c
      BY <2>1 DEF IInv, DeliveredInSlot
    <3>2. SlotOf(c) \in Slot
      BY SlotType DEF Block
    <3>3. ~(SlotOf(c) = SlotOf(b) /\ n = m)
      <4> SUFFICES ASSUME SlotOf(c) = SlotOf(b), n = m PROVE FALSE
        OBVIOUS
      <4>1. c < wblock + NSlots
        BY <2>1, DeliveredInWindow
      <4>2. c \in Nat /\ b \in Nat
        BY <1>1 DEF Block
      <4>3. c < b + NSlots /\ b < c + NSlots
        BY <1>1, <2>1, <4>1, <4>2
      <4>4. c = b
        BY <4>2, <4>3, SameSlot
      <4> QED
        BY <2>1, <4>2, <4>4 DEF b
    <3> QED
      BY <1>5, <3>1, <3>2, <3>3
  <2>2. ASSUME NEW n \in Module, rpc[n] = "copy", <<n, rblock[n]>> \notin misread
        PROVE  /\ \A k \in Frame : rbuffer[n][k] = rblock[n]
               /\ \A k \in 1 .. rcopied'[n] : image_buffer'[SlotOf(rblock[n])][n][k] = rblock[n]
    <3>1. /\ \A k \in Frame : rbuffer[n][k] = rblock[n]
          /\ \A k \in 1 .. rcopied[n] : image_buffer[SlotOf(rblock[n])][n][k] = rblock[n]
      BY <2>2 DEF IInv, DeliveredInSlot
    <3>2. SlotOf(rblock[n]) \in Slot
      BY SlotType DEF IInv, TypeOK
    <3>3. rcopied'[n] \in 0 .. NFrames /\ rcopied[n] \in 0 .. NFrames
      BY DEF IInv, TypeOK
    <3>4. ASSUME NEW k \in 1 .. rcopied'[n] PROVE image_buffer'[SlotOf(rblock[n])][n][k] = rblock[n]
      <4>1. k \in Frame
        BY <3>3 DEF Frame
      <4>2. CASE n = m /\ k = i
        BY <1>3, <1>5, <2>2, <3>2, <4>1, <4>2 DEF b
      <4>3. CASE n = m /\ k # i
        <5>1. k \in 1 .. rcopied[n]
          BY <1>4, <3>3, <4>3 DEF i, IInv, TypeOK
        <5> QED
          BY <1>5, <3>1, <3>2, <4>1, <4>3, <5>1
      <4>4. CASE n # m
        <5>1. k \in 1 .. rcopied[n]
          BY <1>4, <4>4 DEF IInv, TypeOK
        <5> QED
          BY <1>5, <3>1, <3>2, <4>1, <4>4, <5>1
      <4> QED
        BY <4>2, <4>3, <4>4
    <3> QED
      BY <3>1, <3>4
  <2> QED
    BY <1>3, <2>1, <2>2 DEF DeliveredInSlot
<1>11. WriterWhole'
  BY <1>3 DEF IInv, WriterWhole, WrittenBlocksWhole, IsBlock
<1> QED
  BY <1>6, <1>7, <1>8, <1>9, <1>10, <1>11 DEF IInv

\* A module is in: one fewer is missing, of this block only.
LEMMA FinishBlockStep ==
    ASSUME IInv, TypeOK', StartBlock # EMPTY, NEW m \in Module, FinishBlock(m)
    PROVE  IInv'
<1> DEFINE b == rblock[m]
<1> USE RangeAssumption, SlotsAssumption
<1>1. b \in Block /\ wblock \in Nat /\ wblock <= b /\ b < wblock + NSlots /\ b \in Nat
  <2>1. rpc[m] = "copy" /\ wblock \in Nat
    BY DEF FinishBlock, ReaderAt, IInv, TypeOK
  <2> QED
    BY <2>1, DeliveredInWindow DEF Block
<1>2. SlotOf(b) \in Slot
  BY <1>1, SlotType DEF Block
<1>3. /\ rpc[m] = "copy" /\ rcopied[m] = NFrames
      /\ rpc' = [rpc EXCEPT ![m] = IF b = StopBlock THEN "done" ELSE "claim"]
      /\ rblock' = [rblock EXCEPT ![m] = b + 1]
      /\ buffer_status' = [buffer_status EXCEPT ![SlotOf(b)] = buffer_status[SlotOf(b)] - 1]
      /\ UNCHANGED <<buffer_bunch_id, image_buffer, rseen, rbuffer, rcopied, misread,
                     wpc, wblock, wmeta, written>>
  BY DEF FinishBlock, ReaderAt, writerVars
<1>4. Serving => wblock < b
  BY DEF IInv, ReadersAhead
<1>5. buffer_bunch_id[SlotOf(b)] = b
  BY <1>3 DEF IInv, DeliveredOccupy
<1>6. b = rblock[m]
  OBVIOUS
<1> HIDE DEF b
<1>7. rblock'[m] = b + 1 /\ \A n \in Module \ {m} : rblock'[n] = rblock[n]
  BY <1>3 DEF IInv, TypeOK
<1>8. ReadersAhead'
  <2>1. \A n \in Module : wblock <= rblock'[n] /\ (Serving => wblock < rblock'[n])
    BY <1>1, <1>4, <1>7 DEF IInv, ReadersAhead
  <2>2. \A n \in Module : rpc'[n] = "done" <=> rblock'[n] = StopBlock + 1
    <3>1. rpc'[m] = "done" <=> rblock'[m] = StopBlock + 1
      <4>1. rpc'[m] = IF b = StopBlock THEN "done" ELSE "claim"
        BY <1>3 DEF IInv, TypeOK
      <4> QED
        BY <4>1, <1>1, <1>7
    <3>2. ASSUME NEW n \in Module \ {m}
          PROVE  rpc'[n] = "done" <=> rblock'[n] = StopBlock + 1
      <4>1. rpc'[n] = rpc[n]
        BY <1>3 DEF IInv, TypeOK
      <4> QED
        BY <4>1, <1>7 DEF IInv, ReadersAhead
    <3> QED
      BY <3>1, <3>2
  <2> QED
    BY <1>3, <2>1, <2>2 DEF IInv, ReadersAhead, Serving
<1>9. OccupantsInWindow'
  BY <1>3 DEF IInv, OccupantsInWindow
<1>10. DeliveredOccupy'
  <2>1. ASSUME NEW n \in Module, NEW c \in Block, wblock <= c, c < rblock'[n]
        PROVE  buffer_bunch_id[SlotOf(c)] = c
    <3>1. c < rblock[n] \/ c = b
      BY <1>1, <1>6, <1>7, <2>1 DEF Block
    <3> QED
      BY <1>5, <2>1, <3>1 DEF IInv, DeliveredOccupy
  <2>2. ASSUME NEW n \in Module,
               rpc'[n] \in {"load", "copy"} \/ (rpc'[n] = "check" /\ rseen[n] = rblock'[n])
        PROVE  buffer_bunch_id[SlotOf(rblock'[n])] = rblock'[n]
    <3>1. n # m /\ rpc'[n] = rpc[n]
      BY <1>3, <2>2 DEF IInv, TypeOK
    <3> QED
      BY <1>7, <2>2, <3>1 DEF IInv, DeliveredOccupy
  <2> QED
    BY <1>3, <2>1, <2>2 DEF DeliveredOccupy
<1>11. StatusOfWindow'
  <2> SUFFICES ASSUME NEW c \in wblock .. wblock + NSlots - 1
               PROVE  buffer_status'[SlotOf(c)]
                        = IF wpc = "free" /\ c = wblock THEN NModules ELSE Cardinality(Missing(c)')
    BY <1>3 DEF StatusOfWindow
  <2>0. c \in Nat /\ SlotOf(c) \in Slot
    BY <1>1, SlotType
  <2>1. buffer_status[SlotOf(c)]
          = IF wpc = "free" /\ c = wblock THEN NModules ELSE Cardinality(Missing(c))
    BY DEF IInv, StatusOfWindow
  <2>2. CASE c = b
    <3>1. ~(wpc = "free" /\ c = wblock)
      BY <1>1, <1>4, <2>2 DEF Serving
    <3>2. m \in Missing(c) /\ Missing(c)' = Missing(c) \ {m}
      BY <1>1, <1>6, <1>7, <2>2 DEF Missing
    <3>3. IsFiniteSet(Missing(c))
      BY FS_Subset, ModuleAssumption DEF Missing
    <3>4. Cardinality(Missing(c)') = Cardinality(Missing(c)) - 1
      BY <3>2, <3>3, FS_RemoveElement
    <3>5. buffer_status'[SlotOf(c)] = buffer_status[SlotOf(c)] - 1
      BY <1>2, <1>3, <2>2 DEF IInv, TypeOK
    <3> QED
      BY <2>1, <3>1, <3>4, <3>5
  <2>3. CASE c # b
    <3>1. SlotOf(c) # SlotOf(b)
      BY <1>1, <2>0, <2>3, SameSlot
    <3>2. Missing(c)' = Missing(c)
      BY <1>1, <1>6, <1>7, <2>0, <2>3 DEF Missing
    <3>3. buffer_status'[SlotOf(c)] = buffer_status[SlotOf(c)]
      BY <1>3, <2>0, <3>1 DEF IInv, TypeOK
    <3> QED
      BY <2>1, <3>2, <3>3
  <2> QED
    BY <2>2, <2>3
<1>12. DeliveredInSlot'
  <2>1. ASSUME NEW n \in Module, NEW c \in Block, NEW k \in Frame, wblock <= c, c < rblock'[n],
               <<n, c>> \notin misread
        PROVE  image_buffer[SlotOf(c)][n][k] = c
    <3>1. c < rblock[n] \/ (n = m /\ c = b)
      BY <1>1, <1>6, <1>7, <2>1 DEF Block
    <3>2. <<m, b>> \notin misread => \A j \in 1 .. NFrames : image_buffer[SlotOf(b)][m][j] = b
      BY <1>3, <1>6 DEF IInv, DeliveredInSlot
    <3> QED
      BY <2>1, <3>1, <3>2 DEF IInv, DeliveredInSlot, Frame
  <2>2. ASSUME NEW n \in Module, rpc'[n] = "copy", <<n, rblock'[n]>> \notin misread
        PROVE  /\ \A k \in Frame : rbuffer[n][k] = rblock'[n]
               /\ \A k \in 1 .. rcopied[n] : image_buffer[SlotOf(rblock'[n])][n][k] = rblock'[n]
    <3>1. n # m /\ rpc[n] = "copy"
      BY <1>3, <2>2 DEF IInv, TypeOK
    <3> QED
      BY <1>7, <2>2, <3>1 DEF IInv, DeliveredInSlot
  <2> QED
    BY <1>3, <2>1, <2>2 DEF DeliveredInSlot
<1>13. WriterWhole'
  BY <1>3 DEF IInv, WriterWhole, WrittenBlocksWhole, IsBlock
<1> QED
  BY <1>8, <1>9, <1>10, <1>11, <1>12, <1>13 DEF IInv
\* The slot of the block the writer serves holds that block, of every module.
LEMMA ServedSlotWhole ==
    ASSUME IInv, Serving, wpc # "free"
    PROVE  IsBlock(image_buffer[SlotOf(wblock)], wblock)
<1>1. wblock \in Block
  BY RangeAssumption DEF IInv, ReadersAhead, TypeOK, Block, Serving
<1>2. \A m \in Module : wblock < rblock[m]
  BY DEF IInv, ReadersAhead
<1>3. ASSUME NEW m \in Module, NEW i \in Frame, <<m, wblock>> \notin misread
      PROVE  image_buffer[SlotOf(wblock)][m][i] = wblock
  <2>1. wblock <= wblock
    BY <1>1, RangeAssumption DEF Block
  <2> QED
    BY <1>1, <1>2, <1>3, <2>1 DEF IInv, DeliveredInSlot
<1> QED
  BY <1>3 DEF IsBlock

\* The writer's steps up to the write: the slots stay as they are.
LEMMA ServeStep ==
    ASSUME IInv, TypeOK', StartBlock # EMPTY, WaitFull \/ GetMetadataBuffer \/ WriteBlock
    PROVE  IInv'
<1> USE RangeAssumption, SlotsAssumption
<1>1. /\ UNCHANGED <<buffer_bunch_id, buffer_status, image_buffer, rpc, rblock, rseen,
                      rbuffer, rcopied, misread, wblock>>
      /\ wpc \in {"wait", "meta", "write"} /\ wpc' \in {"meta", "write", "status"}
  BY DEF WaitFull, GetMetadataBuffer, WriteBlock, WriterAt, slotVars, readerVars
<1>2. ReadersAhead'
  <2>1. CASE WaitFull
    <3>1. wblock \in Nat /\ buffer_status[SlotOf(wblock)] = 0 /\ wpc = "wait"
      BY <2>1 DEF WaitFull, WriterAt, IInv, TypeOK
    <3>2. Cardinality(Missing(wblock)) = 0
      BY <3>1 DEF IInv, StatusOfWindow
    <3>3. Missing(wblock) = {}
      <4>1. IsFiniteSet(Missing(wblock))
        BY FS_Subset, ModuleAssumption DEF Missing
      <4> QED
        BY <3>2, <4>1, FS_EmptySet
    <3>4. \A m \in Module : wblock < rblock[m]
      BY <3>1, <3>3 DEF Missing, IInv, TypeOK
    <3> QED
      BY <1>1, <3>1, <3>4 DEF IInv, ReadersAhead
  <2>2. CASE GetMetadataBuffer \/ WriteBlock
    <3>1. Serving
      BY <2>2 DEF GetMetadataBuffer, WriteBlock, WriterAt, Serving
    <3> QED
      BY <1>1, <3>1 DEF IInv, ReadersAhead, Serving
  <2> QED
    BY <2>1, <2>2
<1>3. OccupantsInWindow'
  BY <1>1 DEF IInv, OccupantsInWindow
<1>4. DeliveredOccupy'
  BY <1>1 DEF IInv, DeliveredOccupy
<1>5. StatusOfWindow'
  <2>1. wpc # "free" /\ wpc' # "free"
    BY <1>1
  <2> QED
    BY <1>1, <2>1 DEF IInv, StatusOfWindow, Missing
<1>6. DeliveredInSlot'
  BY <1>1 DEF IInv, DeliveredInSlot
<1>7. WriterWhole'
  <2>1. CASE WaitFull
    BY <1>1, <2>1 DEF WaitFull, WriterAt, IInv, WriterWhole, WrittenBlocksWhole, IsBlock
  <2>2. CASE GetMetadataBuffer
    <3>1. IsBlock(wmeta', wblock)
      BY <2>2, ServedSlotWhole DEF GetMetadataBuffer, WriterAt, Serving
    <3> QED
      BY <1>1, <2>2, <3>1 DEF GetMetadataBuffer, WriterAt, IInv, WriterWhole, WrittenBlocksWhole, IsBlock
  <2>3. CASE WriteBlock
    <3> DEFINE new == [block |-> wblock, meta |-> wmeta, data |-> image_buffer[SlotOf(wblock)]]
    <3>1. /\ wpc = "write" /\ wpc' = "status" /\ wmeta' = wmeta
          /\ written' = Append(written, new)
      BY <2>3 DEF WriteBlock, WriterAt
    <3>2. IsBlock(new.meta, wblock) /\ IsBlock(new.data, wblock)
      BY <3>1, ServedSlotWhole DEF Serving, IInv, WriterWhole
    <3>3. new.block = StartBlock + (Len(written) + 1) - 1
      BY <3>1 DEF IInv, WriterWhole, TypeOK
    <3>4. written \in Seq([block : Block, meta : Contents, data : Contents])
      BY DEF IInv, TypeOK
    <3> HIDE DEF new
    <3>5. Len(written') = Len(written) + 1 /\ Len(written) \in Nat
      BY <3>1, <3>4
    <3>6. ASSUME NEW k \in 1 .. Len(written')
          PROVE  LET b == StartBlock + k - 1 IN
                   /\ written'[k].block = b
                   /\ IsBlock(written'[k].meta, b)
                   /\ IsBlock(written'[k].data, b)
      <4>1. CASE k \in 1 .. Len(written)
        <5>1. written'[k] = written[k]
          BY <3>1, <3>4, <4>1
        <5> QED
          BY <4>1, <5>1 DEF IInv, WriterWhole, WrittenBlocksWhole, IsBlock
      <4>2. CASE k = Len(written) + 1
        <5>1. written'[k] = new
          BY <3>1, <3>4, <4>2
        <5>2. new.block = wblock
          BY DEF new
        <5> QED
          BY <3>2, <3>3, <4>2, <5>1, <5>2
      <4> QED
        BY <3>5, <4>1, <4>2
    <3>7. WrittenBlocksWhole'
      BY <1>1, <3>6 DEF WrittenBlocksWhole, IsBlock
    <3> QED
      BY <1>1, <3>1, <3>5, <3>7 DEF IInv, WriterWhole, TypeOK
  <2> QED
    BY <2>1, <2>2, <2>3
<1> QED
  BY <1>2, <1>3, <1>4, <1>5, <1>6, <1>7 DEF IInv

\* free_slot, first half: nobody claims or counts in the slot between the halves.
LEMMA FreeStatusStep ==
    ASSUME IInv, TypeOK', StartBlock # EMPTY, FreeStatus
    PROVE  IInv'
<1> USE RangeAssumption, SlotsAssumption
<1>1. /\ wpc = "status" /\ wpc' = "free"
      /\ buffer_status' = [buffer_status EXCEPT ![SlotOf(wblock)] = NModules]
      /\ UNCHANGED <<buffer_bunch_id, image_buffer, rpc, rblock, rseen, rbuffer, rcopied,
                     misread, wblock, wmeta, written>>
  BY DEF FreeStatus, WriterAt, readerVars
<1>2. ReadersAhead'
  BY <1>1 DEF IInv, ReadersAhead, Serving
<1>3. OccupantsInWindow'
  BY <1>1 DEF IInv, OccupantsInWindow
<1>4. DeliveredOccupy'
  BY <1>1 DEF IInv, DeliveredOccupy
<1>5. StatusOfWindow'
  <2> SUFFICES ASSUME NEW b \in wblock .. wblock + NSlots - 1
               PROVE  buffer_status'[SlotOf(b)]
                        = IF b = wblock THEN NModules ELSE Cardinality(Missing(b))
    BY <1>1 DEF StatusOfWindow, Missing
  <2>1. b \in Nat /\ wblock \in Nat /\ SlotOf(b) \in Slot /\ SlotOf(wblock) \in Slot
    BY SMTT(30), SlotType DEF IInv, TypeOK
  <2>2. CASE b = wblock
    BY <1>1, <2>1, <2>2 DEF IInv, TypeOK
  <2>3. CASE b # wblock
    <3>1. SlotOf(b) # SlotOf(wblock)
      BY <2>1, <2>3, SameSlot
    <3>2. buffer_status'[SlotOf(b)] = buffer_status[SlotOf(b)]
      BY <1>1, <2>1, <3>1 DEF IInv, TypeOK
    <3> QED
      BY <1>1, <2>3, <3>2 DEF IInv, StatusOfWindow
  <2> QED
    BY <2>2, <2>3
<1>6. DeliveredInSlot'
  BY <1>1 DEF IInv, DeliveredInSlot
<1>7. WriterWhole'
  BY <1>1 DEF IInv, WriterWhole, WrittenBlocksWhole, IsBlock
<1> QED
  BY <1>2, <1>3, <1>4, <1>5, <1>6, <1>7 DEF IInv

\* free_slot, second half: the window moves on by one block, whose slot is the one
\* that was just freed.
LEMMA FreeBunchIdStep ==
    ASSUME IInv, TypeOK', StartBlock # EMPTY, FreeBunchId
    PROVE  IInv'
<1> USE RangeAssumption, SlotsAssumption
<1>1. /\ wpc = "free" /\ wpc' = (IF wblock = StopBlock THEN "done" ELSE "wait")
      /\ buffer_bunch_id' = [buffer_bunch_id EXCEPT ![SlotOf(wblock)] = EMPTY]
      /\ wblock' = wblock + 1
      /\ UNCHANGED <<buffer_status, image_buffer, rpc, rblock, rseen, rbuffer, rcopied,
                     misread, wmeta, written>>
  BY DEF FreeBunchId, WriterAt, readerVars
<1>2. wblock \in Block /\ wblock \in Nat /\ SlotOf(wblock) \in Slot
  BY <1>1, SlotType DEF IInv, ReadersAhead, TypeOK, Block
<1>3. \A m \in Module : wblock < rblock[m]
  BY <1>1 DEF IInv, ReadersAhead, Serving
<1>4. ReadersAhead'
  <2>1. \A m \in Module : wblock' <= rblock[m]
    BY <1>1, <1>2, <1>3 DEF IInv, TypeOK
  <2>2. wpc' = "done" <=> wblock' = StopBlock + 1
    BY <1>1, <1>2 DEF Block
  <2> QED
    BY <1>1, <2>1, <2>2 DEF IInv, ReadersAhead, Serving
<1>5. OccupantsInWindow'
  <2> SUFFICES ASSUME NEW s \in Slot, buffer_bunch_id'[s] # EMPTY
               PROVE  /\ wblock + 1 <= buffer_bunch_id'[s]
                      /\ buffer_bunch_id'[s] < wblock + 1 + NSlots
                      /\ SlotOf(buffer_bunch_id'[s]) = s
    BY <1>1 DEF OccupantsInWindow
  <2>1. s # SlotOf(wblock) /\ buffer_bunch_id'[s] = buffer_bunch_id[s]
    BY <1>1, <1>2 DEF IInv, TypeOK
  <2>2. /\ wblock <= buffer_bunch_id[s] /\ buffer_bunch_id[s] < wblock + NSlots
        /\ SlotOf(buffer_bunch_id[s]) = s /\ buffer_bunch_id[s] \in Nat
    BY <2>1 DEF IInv, OccupantsInWindow, TypeOK, Block
  <2> QED
    BY <1>2, <2>1, <2>2
<1>6. ASSUME NEW c \in Block, wblock < c, c < wblock + NSlots
      PROVE  buffer_bunch_id'[SlotOf(c)] = buffer_bunch_id[SlotOf(c)]
  <2>1. c \in Nat /\ SlotOf(c) \in Slot
    BY SlotType DEF Block
  <2>2. SlotOf(c) # SlotOf(wblock)
    BY <1>2, <1>6, <2>1, SameSlot
  <2> QED
    BY <1>1, <2>1, <2>2 DEF IInv, TypeOK
<1>7. DeliveredOccupy'
  <2>1. ASSUME NEW m \in Module, NEW c \in Block, wblock + 1 <= c, c < rblock[m]
        PROVE  buffer_bunch_id'[SlotOf(c)] = c
    <3>1. wblock < c /\ wblock <= c
      BY <1>2, <2>1 DEF Block
    <3>2. c < wblock + NSlots
      BY <2>1, <3>1, DeliveredInWindow
    <3> QED
      BY <1>6, <2>1, <3>1, <3>2 DEF IInv, DeliveredOccupy
  <2>2. ASSUME NEW m \in Module,
               rpc[m] \in {"load", "copy"} \/ (rpc[m] = "check" /\ rseen[m] = rblock[m])
        PROVE  buffer_bunch_id'[SlotOf(rblock[m])] = rblock[m]
    <3>1. buffer_bunch_id[SlotOf(rblock[m])] = rblock[m]
      BY <2>2 DEF IInv, DeliveredOccupy
    <3>2. rblock[m] \in Block /\ wblock < rblock[m]
      BY <1>3, <2>2 DEF IInv, ReadersAhead, TypeOK, Block
    <3>3. SlotOf(rblock[m]) \in Slot /\ rblock[m] # EMPTY
      BY <3>2, SlotType DEF Block, EMPTY
    <3>4. rblock[m] < wblock + NSlots
      BY <3>1, <3>3 DEF IInv, OccupantsInWindow
    <3> QED
      BY <1>6, <3>1, <3>2, <3>4
  <2> QED
    BY <1>1, <2>1, <2>2 DEF DeliveredOccupy
<1>8. StatusOfWindow'
  <2> SUFFICES ASSUME NEW b \in wblock + 1 .. wblock + NSlots
               PROVE  buffer_status[SlotOf(b)] = Cardinality(Missing(b))
    <3>1. wpc' # "free" /\ wblock' + NSlots - 1 = wblock + NSlots
      BY <1>1, <1>2
    <3> QED
      BY <1>1, <3>1 DEF StatusOfWindow, Missing
  <2>1. CASE b < wblock + NSlots
    BY <1>2, <2>1 DEF IInv, StatusOfWindow
  <2>2. CASE b = wblock + NSlots
    <3>1. SlotOf(b) = SlotOf(wblock)
      BY <1>2, <2>2, NextTurn
    <3>2. buffer_status[SlotOf(wblock)] = NModules
      BY <1>1, <1>2 DEF IInv, StatusOfWindow
    <3>3. Missing(b) = Module
      BY <2>2, ReadersWithinTurn DEF Missing
    <3> QED
      BY <3>1, <3>2, <3>3 DEF NModules
  <2> QED
    BY <1>2, <2>1, <2>2
<1>9. DeliveredInSlot'
  <2>1. ASSUME NEW m \in Module, NEW c \in Block, NEW i \in Frame, wblock + 1 <= c, c < rblock[m],
               <<m, c>> \notin misread
        PROVE  image_buffer[SlotOf(c)][m][i] = c
    BY <1>2, <2>1 DEF IInv, DeliveredInSlot, Block
  <2> QED
    BY <1>1, <2>1 DEF IInv, DeliveredInSlot
<1>10. WriterWhole'
  <2>1. Len(written) = wblock' - StartBlock
    BY <1>1, <1>2 DEF IInv, WriterWhole
  <2> QED
    BY <1>1, <2>1 DEF IInv, WriterWhole, WrittenBlocksWhole, IsBlock
<1> QED
  BY <1>4, <1>5, <1>7, <1>8, <1>9, <1>10 DEF IInv

LEMMA IInvStep ==
    ASSUME StartBlock # EMPTY
    PROVE  IInv /\ [Next]_vars => IInv'
<1> SUFFICES ASSUME IInv, [Next]_vars PROVE IInv'
  OBVIOUS
<1>1. TypeOK'
  <2>1. TypeInv
    BY DEF IInv, ReadersAhead, TypeInv
  <2> QED
    BY <2>1, TypeInvStep DEF TypeInv
<1>2. ASSUME NEW m \in Module, Reader(m) PROVE IInv'
  BY <1>1, <1>2, ClaimEmptyStep, ReaderLocalStep, CopyFrameStep, FinishBlockStep DEF Reader
<1>3. CASE Writer
  BY <1>1, <1>3, ServeStep, FreeStatusStep, FreeBunchIdStep DEF Writer
<1>4. CASE UNCHANGED vars
  <2>1. UNCHANGED <<slotVars, readerVars, writerVars>>
    BY <1>4 DEF vars
  <2>2. ReadersAhead' /\ OccupantsInWindow' /\ DeliveredOccupy' /\ StatusOfWindow'
    BY <2>1 DEF slotVars, readerVars, writerVars, IInv, ReadersAhead, Serving, OccupantsInWindow,
                DeliveredOccupy, StatusOfWindow, Missing
  <2>3. DeliveredInSlot' /\ WriterWhole'
    BY <2>1 DEF slotVars, readerVars, writerVars, IInv, DeliveredInSlot, WriterWhole,
                WrittenBlocksWhole, IsBlock
  <2> QED
    BY <1>1, <2>2, <2>3 DEF IInv
<1> QED
  BY <1>2, <1>3, <1>4 DEF Next, Halted

-----------------------------------------------------------------------------
(* The results. *)

LEMMA IInvAlways ==
    ASSUME StartBlock # EMPTY
    PROVE  Spec => []IInv
<1>1. IInv /\ [Next]_vars => IInv'
  BY IInvStep
<1> QED
  BY <1>1, IInvInit, PTL DEF Spec

\* What sf_writer gives to the HDF5 file is, block after block, exactly the block of
\* every module whose read() of it did not fail, in metadata and pixels, for any number
\* of modules, slots and blocks, as long as block 0 is not in the range.
THEOREM BlocksWhole ==
    ASSUME StartBlock # EMPTY
    PROVE  Spec => []WrittenBlocksWhole
<1>1. IInv => WrittenBlocksWhole
  BY DEF IInv, WriterWhole
<1> QED
  BY <1>1, IInvAlways, PTL

\* The atomic counters are exact: the writer is let into a slot when, and only when,
\* all modules are in it.
THEOREM StatusExact ==
    ASSUME StartBlock # EMPTY
    PROVE  Spec => []StatusCountsMissing
<1>1. IInv => StatusCountsMissing
  <2> SUFFICES ASSUME IInv, wpc = "wait"
               PROVE  buffer_status[SlotOf(wblock)] = Cardinality(Missing(wblock))
    BY DEF StatusCountsMissing, Missing
  <2>1. wblock \in wblock .. wblock + NSlots - 1
    BY RangeAssumption, SlotsAssumption DEF IInv, TypeOK
  <2> QED
    BY <2>1 DEF IInv, StatusOfWindow
<1> QED
  BY <1>1, IInvAlways, PTL

\* Slots have one owner at a time: the writer, or the readers of one block.
THEOREM SlotsOwned ==
    ASSUME StartBlock # EMPTY
    PROVE  Spec => []SlotOwnership
<1>1. IInv => SlotOwnership
  <2> SUFFICES ASSUME IInv, NEW m \in Module, rpc[m] = "copy"
               PROVE  /\ Serving => SlotOf(rblock[m]) # SlotOf(wblock)
                      /\ \A n \in Module :
                            rpc[n] = "copy" /\ SlotOf(rblock[n]) = SlotOf(rblock[m])
                              => rblock[n] = rblock[m]
    BY DEF SlotOwnership, Serving
  <2>1. \A n \in Module : rpc[n] = "copy" => buffer_bunch_id[SlotOf(rblock[n])] = rblock[n]
    BY DEF IInv, DeliveredOccupy
  <2>2. ASSUME Serving PROVE SlotOf(rblock[m]) # SlotOf(wblock)
    <3>1. wblock \in Block /\ wblock < rblock[m]
      BY <2>2, RangeAssumption DEF IInv, ReadersAhead, TypeOK, Block, Serving
    <3>2. buffer_bunch_id[SlotOf(wblock)] = wblock
      BY <3>1 DEF IInv, DeliveredOccupy, Block
    <3> QED
      BY <2>1, <3>1, <3>2 DEF Block
  <2> QED
    BY <2>1, <2>2
<1> QED
  BY <1>1, IInvAlways, PTL

-----------------------------------------------------------------------------
(* The offline writer implements BlockFile.  Only WriteBlock, an unnoticed   *)
(* read error, an exception and the last FreeBunchId are steps of BlockFile; *)
(* every other step stutters.                                                *)

LEMMA InitRefines == Init => BF!Init
  BY DEF Init, BF!Init, File, FileState

\* The next block of the file is the one the writer has not given away yet.
LEMMA NextBlockIs ==
    IInv => /\ Len(written) \in Nat
            /\ BF!NextBlock = wblock + (IF wpc \in {"status", "free"} THEN 1 ELSE 0)
<1> SUFFICES ASSUME IInv
             PROVE  /\ Len(written) \in Nat
                    /\ BF!NextBlock = wblock + (IF wpc \in {"status", "free"} THEN 1 ELSE 0)
  OBVIOUS
<1>1. Len(written) \in Nat
  BY DEF IInv, TypeOK
<1>2. Len(File) = Len(written)
  BY <1>1 DEF File
<1>3. Len(written) = wblock - StartBlock + (IF wpc \in {"status", "free"} THEN 1 ELSE 0)
  BY DEF IInv, WriterWhole
<1> QED
  BY <1>1, <1>2, <1>3, RangeAssumption DEF BF!NextBlock, IInv, TypeOK

LEMMA WriteBlockRefines == IInv /\ WriteBlock => BF!AppendBlock
<1> SUFFICES ASSUME IInv, WriteBlock PROVE BF!AppendBlock
  OBVIOUS
<1> DEFINE n     == Len(written)
           entry == [block |-> wblock, meta |-> wmeta, data |-> image_buffer[SlotOf(wblock)]]
<1>1. /\ wpc = "write" /\ ~terminated
      /\ written' = Append(written, entry)
      /\ wpc' = "status" /\ UNCHANGED <<misread, terminated>>
  BY DEF WriteBlock, WriterAt, readerVars
<1>2. n \in Nat /\ BF!NextBlock = wblock
  BY <1>1, NextBlockIs DEF IInv, TypeOK
<1>3. wblock \in Block
  BY <1>1, RangeAssumption DEF IInv, TypeOK, ReadersAhead, Block
<1>4. BF!Sound(wblock) \subseteq WholeModules(entry)
  <2> SUFFICES ASSUME NEW m \in Module, <<m, wblock>> \notin misread, NEW i \in Frame
               PROVE  wmeta[m][i] = wblock /\ image_buffer[SlotOf(wblock)][m][i] = wblock
    BY DEF BF!Sound, WholeModules
  <2>1. wmeta[m][i] = wblock
    BY <1>1 DEF IInv, WriterWhole, IsBlock
  <2>2. wblock < rblock[m]
    BY <1>1 DEF IInv, ReadersAhead, Serving
  <2>3. image_buffer[SlotOf(wblock)][m][i] = wblock
    BY <1>3, <2>2 DEF IInv, DeliveredInSlot, Block
  <2> QED
    BY <2>1, <2>3
<1>5. File' = Append(File, [block |-> wblock, whole |-> WholeModules(entry)])
  <2> DEFINE img(e) == [block |-> e.block, whole |-> WholeModules(e)]
  <2>1. Len(written') = n + 1 /\ written'[n + 1] = entry /\ \A k \in 1 .. n : written'[k] = written[k]
    BY <1>1, <1>2 DEF IInv, TypeOK
  <2>2. File = [k \in 1 .. n |-> img(written[k])]
    BY DEF File
  <2>3. File' = [k \in 1 .. n + 1 |-> IF k = n + 1 THEN img(entry) ELSE img(written[k])]
    <3>1. File' = [k \in 1 .. Len(written') |-> img(written'[k])]
      BY DEF File, WholeModules
    <3> HIDE DEF img
    <3> QED
      BY <3>1, <2>1, <1>2
  <2> HIDE DEF img
  <2>4. Len(File) = n
    BY <2>2, <1>2
  <2>5. Append(File, img(entry)) = [k \in 1 .. n + 1 |-> IF k = n + 1 THEN img(entry) ELSE img(written[k])]
    BY <2>2, <2>4, <1>2
  <2>6. img(entry) = [block |-> wblock, whole |-> WholeModules(entry)]
    BY DEF img
  <2> QED
    BY <2>3, <2>5, <2>6
<1>6. WholeModules(entry) \in SUBSET Module
  BY DEF WholeModules
<1>7. FileState = "open" /\ FileState' = "open"
  BY <1>1 DEF FileState
<1> QED
  BY <1>1, <1>2, <1>3, <1>4, <1>5, <1>6, <1>7 DEF BF!AppendBlock, BF!Block, Block

\* A thread at work means that the file is not closed yet.
LEMMA OpenWhileReading ==
    ASSUME IInv, NEW m \in Module, ReaderAt(m, "load")
    PROVE  FileState = "open" /\ wpc # "done"
<1>1. rblock[m] # StopBlock + 1 /\ wblock <= rblock[m]
  BY DEF IInv, ReadersAhead, ReaderAt
<1>2. wblock # StopBlock + 1
  BY <1>1, RangeAssumption DEF IInv, TypeOK
<1> QED
  BY <1>2 DEF IInv, ReadersAhead, ReaderAt, FileState

LEMMA ReadErrorRefines ==
    ASSUME IInv, NEW m \in Module, GetBlockFails(m)
    PROVE  BF!Spoil
<1>1. /\ ReaderAt(m, "load") /\ misread' = misread \union {<<m, rblock[m]>>}
      /\ UNCHANGED <<written, wpc, terminated>>
  BY DEF GetBlockFails, StartCopy, writerVars
<1>2. rblock[m] \in StartBlock .. StopBlock
  BY <1>1, RangeAssumption DEF IInv, TypeOK, ReadersAhead, ReaderAt
<1>3. BF!NextBlock <= rblock[m] /\ BF!NextBlock \in Int
  BY SMTT(30), <1>2, NextBlockIs, RangeAssumption DEF IInv, TypeOK, ReadersAhead, Serving
<1>4. File' = File /\ FileState' = FileState
  BY <1>1 DEF File, FileState, WholeModules
<1> QED
  BY <1>1, <1>2, <1>3, <1>4, OpenWhileReading DEF BF!Spoil

LEMMA ExceptionRefines ==
    ASSUME IInv, NEW m \in Module, GetBlockThrows(m)
    PROVE  BF!Abort
<1>1. ReaderAt(m, "load") /\ terminated' = TRUE /\ UNCHANGED <<written, misread>>
  BY DEF GetBlockThrows, readerVars, writerVars
<1>2. File' = File
  BY <1>1 DEF File, WholeModules
<1> QED
  BY <1>1, <1>2, OpenWhileReading DEF BF!Abort, FileState

\* Only the last block's slot, given away, ends the job.
LEMMA FreeBunchIdRefines == IInv /\ FreeBunchId => BF!Close \/ UNCHANGED BF!fileVars
<1> SUFFICES ASSUME IInv, FreeBunchId PROVE BF!Close \/ UNCHANGED BF!fileVars
  OBVIOUS
<1>1. /\ wpc = "free" /\ ~terminated
      /\ wpc' = IF wblock = StopBlock THEN "done" ELSE "wait"
      /\ UNCHANGED <<written, misread, terminated>>
  BY DEF FreeBunchId, WriterAt, readerVars
<1>2. File' = File
  BY <1>1 DEF File, WholeModules
<1>3. CASE wblock = StopBlock
  <2>1. FileState = "open" /\ FileState' = "closed"
    BY <1>1, <1>3 DEF FileState
  <2>2. BF!NextBlock = StopBlock + 1
    BY <1>1, <1>3, NextBlockIs
  <2> QED
    BY <1>1, <1>2, <2>1, <2>2 DEF BF!Close
<1>4. CASE wblock # StopBlock
  BY <1>1, <1>2, <1>4 DEF FileState, BF!fileVars
<1> QED
  BY <1>3, <1>4

\* The other steps do not show.
LEMMA StutterReader ==
    ASSUME NEW m \in Module,
           ClaimEmpty(m) \/ ClaimOccupied(m) \/ CheckStatus(m) \/ GetBlock(m) \/ CopyFrame(m) \/ FinishBlock(m)
    PROVE  UNCHANGED BF!fileVars
<1>1. UNCHANGED <<written, misread, wpc, terminated>>
  BY DEF ClaimEmpty, ClaimOccupied, CheckStatus, GetBlock, StartCopy, CopyFrame, FinishBlock, writerVars
<1> QED
  BY <1>1 DEF BF!fileVars, File, FileState, WholeModules

LEMMA StutterWriter ==
    ASSUME WaitFull \/ GetMetadataBuffer \/ FreeStatus
    PROVE  UNCHANGED BF!fileVars
<1>1. UNCHANGED <<written, misread, terminated>> /\ wpc # "done" /\ wpc' # "done"
  BY DEF WaitFull, GetMetadataBuffer, FreeStatus, WriterAt, readerVars
<1> QED
  BY <1>1 DEF BF!fileVars, File, FileState, WholeModules

LEMMA StepRefines == IInv /\ [Next]_vars => [BF!Next]_(BF!fileVars)
<1> SUFFICES ASSUME IInv, [Next]_vars PROVE BF!Next \/ UNCHANGED BF!fileVars
  OBVIOUS
<1>1. ASSUME NEW m \in Module, Reader(m) PROVE BF!Next \/ UNCHANGED BF!fileVars
  BY <1>1, StutterReader, ReadErrorRefines, ExceptionRefines DEF Reader, BF!Next
<1>2. CASE Writer
  BY <1>2, StutterWriter, WriteBlockRefines, FreeBunchIdRefines DEF Writer, BF!Next
<1>3. CASE UNCHANGED vars
  BY <1>3 DEF vars, readerVars, writerVars, BF!fileVars, File, FileState, WholeModules
<1> QED
  BY <1>1, <1>2, <1>3 DEF Next, Halted

\* sf_writer implements the sequential job: whatever its threads do, the file is that of
\* a program that reads and appends one block after the other, as long as block 0 is not
\* in the range.
THEOREM ThreadsImplementBlockFile ==
    ASSUME StartBlock # EMPTY
    PROVE  Spec => ImplementsBlockFile
<1>1. Init => BF!Init
  BY InitRefines
<1>2. IInv /\ [Next]_vars => [BF!Next]_(BF!fileVars)
  BY StepRefines
<1> QED
  BY <1>1, <1>2, IInvAlways, PTL DEF Spec, BF!Spec, ImplementsBlockFile
=============================================================================
