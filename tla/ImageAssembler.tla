--------------------------- MODULE ImageAssembler ---------------------------
(***************************************************************************)
(* The offline writer, sf_writer: one reader thread per detector module    *)
(* copies blocks of the binary buffer into a ring of slots, the main       *)
(* thread writes a slot to the HDF5 file once every module is in it.  The  *)
(* threads meet in two arrays of atomics only: buffer_bunch_id_, the block *)
(* that occupies a slot, and buffer_status_, the modules it still lacks.   *)
(*                                                                         *)
(* A step is one access to an atomic, the copy of one frame, one read of   *)
(* the block file or one pass of the writer over a slot.  The atomics are  *)
(* relaxed: the model is that of the x86-64 build, whose locked operations *)
(* and stores keep their program order.                                    *)
(***************************************************************************)
EXTENDS Integers, FiniteSets, Sequences

CONSTANTS
    Module,       \* the modules of the detector, one reader thread each
    NSlots,       \* WRITER_IA_N_SLOTS
    NFrames,      \* BUFFER_BLOCK_SIZE, the frames of a block
    StartBlock,   \* the first and the last block of the requested range
    StopBlock,
    ReadErrors    \* what read() on a block file may do besides succeeding

ASSUME ModuleAssumption == IsFiniteSet(Module) /\ Module # {}
ASSUME SlotsAssumption  == NSlots \in Nat \ {0} /\ NFrames \in Nat \ {0}
ASSUME RangeAssumption  == StartBlock \in Nat /\ StopBlock \in Nat /\ StartBlock <= StopBlock
ASSUME ErrorsAssumption == ReadErrors \subseteq {"short", "failed"}

VARIABLES
    buffer_bunch_id,  \* slot -> the block that claimed it, or EMPTY
    buffer_status,    \* slot -> modules still missing
    image_buffer,     \* slot -> module -> frame -> the block the frame comes from
    rpc,              \* where each reader thread is
    rblock,           \* the block each reader works on
    rseen,            \* the occupant its compare_exchange found
    rbuffer,          \* frame of its block_buffer -> the block the frame comes from
    rcopied,          \* frames process() has copied so far
    wpc,              \* where the main thread is
    wblock,           \* the block it works on
    wmeta,            \* what get_metadata_buffer read: module -> frame -> block
    written,          \* what JFH5Writer::write was given, in order
    misread,          \* history: <<module, block>> that read() did not read in full, unnoticed
    terminated        \* an exception left a thread: the process is gone

readerVars == <<rpc, rblock, rseen, rbuffer, rcopied, misread>>
writerVars == <<wpc, wblock, wmeta, written>>
slotVars   == <<buffer_bunch_id, buffer_status, image_buffer>>
vars       == <<slotVars, readerVars, writerVars, terminated>>

EMPTY    == 0     \* IA_EMPTY_SLOT_VALUE
Blank    == -1    \* memory no block was read into yet
Slot     == 0 .. NSlots - 1
Frame    == 1 .. NFrames
Block    == StartBlock .. StopBlock
NModules == Cardinality(Module)
SlotOf(block_id) == block_id % NSlots

Contents == [Module -> [Frame -> {Blank} \union Block]]
NoFrames == [m \in Module |-> [i \in Frame |-> Blank]]

Init ==
    /\ buffer_bunch_id = [s \in Slot |-> EMPTY]
    /\ buffer_status   = [s \in Slot |-> NModules]
    /\ image_buffer    = [s \in Slot |-> NoFrames]
    /\ rpc     = [m \in Module |-> "claim"]
    /\ rblock  = [m \in Module |-> StartBlock]
    /\ rseen   = [m \in Module |-> EMPTY]
    /\ rbuffer = NoFrames
    /\ rcopied = [m \in Module |-> 0]
    /\ misread = {}
    /\ wpc     = "wait"
    /\ wblock  = StartBlock
    /\ wmeta   = NoFrames
    /\ written = <<>>
    /\ terminated = FALSE

-----------------------------------------------------------------------------
(* Faults of the kind this code could have had: each takes the place of the   *)
(* definition its comment names to show that a property below notices it.     *)

\* WaitFull, satisfied with one module missing.
WaitAlmostFull ==
    /\ ~terminated /\ wpc = "wait"
    /\ buffer_status[SlotOf(wblock)] <= 1
    /\ wpc' = "meta"
    /\ UNCHANGED <<slotVars, readerVars, wblock, wmeta, written, terminated>>

\* FreeStatus, without the store.
FreeKeepsStatus ==
    /\ ~terminated /\ wpc = "status"
    /\ wpc' = "free"
    /\ UNCHANGED <<slotVars, readerVars, wblock, wmeta, written, terminated>>

\* CheckStatus, without the comparison of the occupant.
CheckAnyOccupant(m) ==
    /\ ~terminated /\ rpc[m] = "check"
    /\ rpc' = [rpc EXCEPT ![m] =
                 IF buffer_status[SlotOf(rblock[m])] > 0 THEN "load" ELSE "claim"]
    /\ UNCHANGED <<slotVars, rblock, rseen, rbuffer, rcopied, misread, writerVars, terminated>>

\* CheckStatus, off by one: the last module missing is not let in.
CheckStatusAboveOne(m) ==
    /\ ~terminated /\ rpc[m] = "check"
    /\ rpc' = [rpc EXCEPT ![m] =
                 IF buffer_status[SlotOf(rblock[m])] > 1 /\ rseen[m] = rblock[m]
                 THEN "load" ELSE "claim"]
    /\ UNCHANGED <<slotVars, rblock, rseen, rbuffer, rcopied, misread, writerVars, terminated>>

\* FinishBlock, one block past the end of the range.
FinishPastStop(m) ==
    /\ ~terminated /\ rpc[m] = "copy" /\ rcopied[m] = NFrames
    /\ buffer_status' = [buffer_status EXCEPT ![SlotOf(rblock[m])] = @ - 1]
    /\ rblock' = [rblock EXCEPT ![m] = @ + 1]
    /\ rpc' = [rpc EXCEPT ![m] = IF rblock[m] = StopBlock + 1 THEN "done" ELSE "claim"]
    /\ UNCHANGED <<buffer_bunch_id, image_buffer, rseen, rbuffer, rcopied, misread,
                   writerVars, terminated>>

-----------------------------------------------------------------------------
(* Reader threads: read_buffer() of main.cpp. *)

ReaderAt(m, pc) == ~terminated /\ rpc[m] = pc

\* is_slot_free(): the compare_exchange takes an empty slot ...
ClaimEmpty(m) ==
    LET s == SlotOf(rblock[m]) IN
    /\ ReaderAt(m, "claim")
    /\ buffer_bunch_id[s] = EMPTY
    /\ buffer_bunch_id' = [buffer_bunch_id EXCEPT ![s] = rblock[m]]
    /\ rpc' = [rpc EXCEPT ![m] = "load"]
    /\ UNCHANGED <<buffer_status, image_buffer, rblock, rseen, rbuffer, rcopied, misread,
                   writerVars, terminated>>

\* ... or leaves an occupied one alone and reports its occupant.
ClaimOccupied(m) ==
    LET s == SlotOf(rblock[m]) IN
    /\ ReaderAt(m, "claim")
    /\ buffer_bunch_id[s] # EMPTY
    /\ rseen' = [rseen EXCEPT ![m] = buffer_bunch_id[s]]
    /\ rpc' = [rpc EXCEPT ![m] = "check"]
    /\ UNCHANGED <<slotVars, rblock, rbuffer, rcopied, misread, writerVars, terminated>>

\* Then the slot is usable if the occupant is the reader's own block and some
\* module is missing; otherwise the reader sleeps and tries again.
CheckStatus(m) ==
    /\ ReaderAt(m, "check")
    /\ rpc' = [rpc EXCEPT ![m] =
                 IF /\ buffer_status[SlotOf(rblock[m])] > 0
                    /\ rseen[m] = rblock[m]
                 THEN "load" ELSE "claim"]
    /\ UNCHANGED <<slotVars, rblock, rseen, rbuffer, rcopied, misread, writerVars, terminated>>

StartCopy(m) ==
    /\ rpc' = [rpc EXCEPT ![m] = "copy"]
    /\ rcopied' = [rcopied EXCEPT ![m] = 0]
    /\ UNCHANGED <<slotVars, rblock, rseen, writerVars>>

\* get_block(): the frames of the block replace those of the previous one.
GetBlock(m) ==
    /\ ReaderAt(m, "load")
    /\ rbuffer' = [rbuffer EXCEPT ![m] = [i \in Frame |-> rblock[m]]]
    /\ StartCopy(m)
    /\ UNCHANGED <<misread, terminated>>

\* open, lseek, or a read of less than a frame: the exception leaves the thread.
GetBlockThrows(m) ==
    /\ ReaderAt(m, "load")
    /\ "short" \in ReadErrors
    /\ terminated' = TRUE
    /\ UNCHANGED <<slotVars, readerVars, writerVars>>

\* read() returns -1, which the comparison with sizeof() takes for a large number, or
\* less than a block but a frame at least: the rest of the block buffer keeps what it had.
GetBlockFails(m) ==
    /\ ReaderAt(m, "load")
    /\ "failed" \in ReadErrors
    /\ \E n_read \in 0 .. NFrames - 1 :
          rbuffer' = [rbuffer EXCEPT ![m] = [i \in Frame |-> IF i <= n_read THEN rblock[m] ELSE @[i]]]
    /\ misread' = misread \union {<<m, rblock[m]>>}
    /\ StartCopy(m)
    /\ UNCHANGED terminated

\* process(): the next frame, its metadata and its pixels.
CopyFrame(m) ==
    /\ ReaderAt(m, "copy")
    /\ rcopied[m] < NFrames
    /\ rcopied' = [rcopied EXCEPT ![m] = @ + 1]
    /\ image_buffer' = [image_buffer EXCEPT
                          ![SlotOf(rblock[m])][m][rcopied[m] + 1] = rbuffer[m][rcopied[m] + 1]]
    /\ UNCHANGED <<buffer_bunch_id, buffer_status, rpc, rblock, rseen, rbuffer, misread,
                   writerVars, terminated>>

\* process(): the module is in; the thread goes on to its next block or ends.
FinishBlock(m) ==
    /\ ReaderAt(m, "copy")
    /\ rcopied[m] = NFrames
    /\ buffer_status' = [buffer_status EXCEPT ![SlotOf(rblock[m])] = @ - 1]
    /\ rblock' = [rblock EXCEPT ![m] = @ + 1]
    /\ rpc' = [rpc EXCEPT ![m] = IF rblock[m] = StopBlock THEN "done" ELSE "claim"]
    /\ UNCHANGED <<buffer_bunch_id, image_buffer, rseen, rbuffer, rcopied, misread,
                   writerVars, terminated>>

Reader(m) ==
    \/ ClaimEmpty(m)
    \/ ClaimOccupied(m)
    \/ CheckStatus(m)
    \/ GetBlock(m)
    \/ GetBlockThrows(m)
    \/ GetBlockFails(m)
    \/ CopyFrame(m)
    \/ FinishBlock(m)

-----------------------------------------------------------------------------
(* The main thread: the loop over the blocks in main(). *)

WriterAt(pc) == ~terminated /\ wpc = pc

\* is_slot_full()
WaitFull ==
    /\ WriterAt("wait")
    /\ buffer_status[SlotOf(wblock)] = 0
    /\ wpc' = "meta"
    /\ UNCHANGED <<slotVars, readerVars, wblock, wmeta, written, terminated>>

GetMetadataBuffer ==
    /\ WriterAt("meta")
    /\ wmeta' = image_buffer[SlotOf(wblock)]
    /\ wpc' = "write"
    /\ UNCHANGED <<slotVars, readerVars, wblock, written, terminated>>

\* get_data_buffer() is a pointer into the slot: write() reads the pixels there.
WriteBlock ==
    /\ WriterAt("write")
    /\ written' = Append(written, [block |-> wblock, meta |-> wmeta,
                                   data |-> image_buffer[SlotOf(wblock)]])
    /\ wpc' = "status"
    /\ UNCHANGED <<slotVars, readerVars, wblock, wmeta, terminated>>

\* free_slot() makes the slot's status fresh before it gives the slot away.
FreeStatus ==
    /\ WriterAt("status")
    /\ buffer_status' = [buffer_status EXCEPT ![SlotOf(wblock)] = NModules]
    /\ wpc' = "free"
    /\ UNCHANGED <<buffer_bunch_id, image_buffer, readerVars, wblock, wmeta,
                   written, terminated>>

FreeBunchId ==
    /\ WriterAt("free")
    /\ buffer_bunch_id' = [buffer_bunch_id EXCEPT ![SlotOf(wblock)] = EMPTY]
    /\ wblock' = wblock + 1
    /\ wpc' = IF wblock = StopBlock THEN "done" ELSE "wait"
    /\ UNCHANGED <<buffer_status, image_buffer, readerVars, wmeta, written, terminated>>

Writer == WaitFull \/ GetMetadataBuffer \/ WriteBlock \/ FreeStatus \/ FreeBunchId

-----------------------------------------------------------------------------

Finished == wpc = "done" /\ \A m \in Module : rpc[m] = "done"

\* The process has been joined or has died.
Halted == (Finished \/ terminated) /\ UNCHANGED vars

Next == (\E m \in Module : Reader(m)) \/ Writer \/ Halted

Spec == Init /\ [][Next]_vars

\* Every thread keeps being scheduled, and each retry loop wakes from its sleep.
FairSpec == Spec /\ (\A m \in Module : WF_vars(Reader(m))) /\ WF_vars(Writer)

-----------------------------------------------------------------------------
(* Properties. *)

TypeOK ==
    /\ buffer_bunch_id \in [Slot -> {EMPTY} \union Block]
    /\ buffer_status \in [Slot -> Int]
    /\ image_buffer \in [Slot -> Contents]
    /\ rpc \in [Module -> {"claim", "check", "load", "copy", "done"}]
    /\ rblock \in [Module -> StartBlock .. StopBlock + 1]
    /\ rseen \in [Module -> {EMPTY} \union Block]
    /\ rbuffer \in Contents
    /\ rcopied \in [Module -> 0 .. NFrames]
    /\ misread \subseteq Module \X Block
    /\ wpc \in {"wait", "meta", "write", "status", "free", "done"}
    /\ wblock \in StartBlock .. StopBlock + 1
    /\ wmeta \in Contents
    /\ written \in Seq([block : Block, meta : Contents, data : Contents])
    /\ terminated \in BOOLEAN

\* These are the frames of the block, of every module whose read() of it was in full.
IsBlock(contents, b) ==
    \A m \in Module : <<m, b>> \notin misread => \A i \in Frame : contents[m][i] = b

\* The file is made of whole blocks in order: what write() is given as block b is
\* block b of every module, in its metadata and in its pixels, and the blocks
\* follow each other from the first.  A read() that fails or ends early unnoticed spoils the block
\* it was of, for its module, and nothing else.
WrittenBlocksWhole ==
    \A k \in 1 .. Len(written) :
        LET b == StartBlock + k - 1 IN
        /\ written[k].block = b
        /\ IsBlock(written[k].meta, b)
        /\ IsBlock(written[k].data, b)

\* The status of the slot the writer waits for is the number of modules that have
\* not delivered their part of it, and it is 0 only when all have: a decrement is
\* neither lost in free_slot() nor counted for another block.
StatusCountsMissing ==
    wpc = "wait" => buffer_status[SlotOf(wblock)]
                      = Cardinality({m \in Module : rblock[m] <= wblock})

\* While the writer reads a slot no reader copies into it, and readers that copy
\* into one slot at the same time copy the same block.
SlotOwnership ==
    \A m \in Module : rpc[m] = "copy" =>
        /\ wpc \in {"meta", "write", "status", "free"} => SlotOf(rblock[m]) # SlotOf(wblock)
        /\ \A n \in Module :
              rpc[n] = "copy" /\ SlotOf(rblock[n]) = SlotOf(rblock[m]) => rblock[n] = rblock[m]

\* The job ends: every block of the range is written and all threads are joined,
\* unless an exception has ended the process.
JobEnds == <>(terminated \/ (Finished /\ Len(written) = StopBlock - StartBlock + 1))
-----------------------------------------------------------------------------
(* Why the properties hold when block 0 is not in the range: the blocks from  *)
(* wblock on share the slots without collision, because a block is claimed    *)
(* only after the one a turn before it was freed.                             *)

Serving == wpc \in {"meta", "write", "status", "free"}

Missing(b) == {m \in Module : rblock[m] <= b}

\* No reader is behind the writer, nor on the block it serves.
ReadersAhead ==
    /\ \A m \in Module : wblock <= rblock[m] /\ (Serving => wblock < rblock[m])
    /\ \A m \in Module : rpc[m] = "done" <=> rblock[m] = StopBlock + 1
    /\ wpc = "done" <=> wblock = StopBlock + 1

\* An occupant belongs in its slot and is at most one turn ahead of the writer.
OccupantsInWindow ==
    \A s \in Slot : buffer_bunch_id[s] # EMPTY =>
        /\ wblock <= buffer_bunch_id[s] /\ buffer_bunch_id[s] < wblock + NSlots
        /\ SlotOf(buffer_bunch_id[s]) = s

\* Blocks that are delivered or being delivered occupy their slots until freed.
DeliveredOccupy ==
    /\ \A m \in Module : \A b \in Block :
          wblock <= b /\ b < rblock[m] => buffer_bunch_id[SlotOf(b)] = b
    /\ \A m \in Module :
          \/ rpc[m] \in {"load", "copy"}
          \/ rpc[m] = "check" /\ rseen[m] = rblock[m]
          => buffer_bunch_id[SlotOf(rblock[m])] = rblock[m]

\* Every status counts the modules missing; one that is being freed is fresh.
StatusOfWindow ==
    \A b \in wblock .. wblock + NSlots - 1 :
        buffer_status[SlotOf(b)]
          = IF wpc = "free" /\ b = wblock THEN NModules ELSE Cardinality(Missing(b))

\* What is delivered is in the slot.
DeliveredInSlot ==
    /\ \A m \in Module : \A b \in Block : \A i \in Frame :
          wblock <= b /\ b < rblock[m] /\ <<m, b>> \notin misread
              => image_buffer[SlotOf(b)][m][i] = b
    /\ \A m \in Module : rpc[m] = "copy" /\ <<m, rblock[m]>> \notin misread =>
          /\ \A i \in Frame : rbuffer[m][i] = rblock[m]
          /\ \A i \in 1 .. rcopied[m] : image_buffer[SlotOf(rblock[m])][m][i] = rblock[m]

\* What is written is whole, and so is what the writer holds.
WriterWhole ==
    /\ wpc = "write" => IsBlock(wmeta, wblock)
    /\ Len(written) = wblock - StartBlock + (IF wpc \in {"status", "free"} THEN 1 ELSE 0)
    /\ WrittenBlocksWhole

IInv ==
    /\ TypeOK
    /\ ReadersAhead
    /\ OccupantsInWindow
    /\ DeliveredOccupy
    /\ StatusOfWindow
    /\ DeliveredInSlot
    /\ WriterWhole
-----------------------------------------------------------------------------
(* What all this is for: a file of whole blocks.                              *)

\* The modules of which what was written as a block has nothing but that block.
WholeModules(entry) ==
    {m \in Module : \A i \in Frame : entry.meta[m][i] = entry.block /\ entry.data[m][i] = entry.block}

File == [k \in 1 .. Len(written) |->
            [block |-> written[k].block, whole |-> WholeModules(written[k])]]

FileState == IF terminated THEN "aborted" ELSE IF wpc = "done" THEN "closed" ELSE "open"

BF == INSTANCE BlockFile WITH file <- File, spoiled <- misread, state <- FileState

\* Threads, ring and counters implement the sequential job of BlockFile: a step either
\* leaves the file alone or puts the next block into it with every module that could be
\* read; a read error can only spoil a block that is not there yet; the file is closed
\* when it has all blocks, after which no thread can die any more.
ImplementsBlockFile == BF!Spec
=============================================================================
