------------------------------ MODULE BlockFile ------------------------------
(***************************************************************************)
(* What sf_writer promises, without threads, slots and counters: a file    *)
(* that grows by the next whole block of the requested range until it has  *)
(* all of them and is closed, or until an exception ends the process.  The *)
(* one thing that may go wrong unnoticed is the reading of a module's      *)
(* frames, and only before the block is in the file.  ImageAssembler       *)
(* implements it.                                                          *)
(***************************************************************************)
EXTENDS Integers, Sequences

CONSTANTS Module, StartBlock, StopBlock

VARIABLES
    file,      \* the blocks in it, each with the modules whose frames are its own
    spoiled,   \* <<module, block>> whose frames were not read
    state      \* "open", "closed" or "aborted"

fileVars == <<file, spoiled, state>>

Block     == StartBlock .. StopBlock
NextBlock == StartBlock + Len(file)
Sound(b)  == {m \in Module : <<m, b>> \notin spoiled}

Init == file = <<>> /\ spoiled = {} /\ state = "open"

\* The next block, with the frames of at least the modules that could be read.
AppendBlock ==
    /\ state = "open" /\ NextBlock \in Block
    /\ \E whole \in SUBSET Module :
          /\ Sound(NextBlock) \subseteq whole
          /\ file' = Append(file, [block |-> NextBlock, whole |-> whole])
    /\ UNCHANGED <<spoiled, state>>

\* Frames that the file does not have yet cannot be read.
Spoil ==
    /\ state = "open"
    /\ \E m \in Module, b \in NextBlock .. StopBlock : spoiled' = spoiled \union {<<m, b>>}
    /\ UNCHANGED <<file, state>>

Close ==
    /\ state = "open" /\ NextBlock = StopBlock + 1
    /\ state' = "closed"
    /\ UNCHANGED <<file, spoiled>>

Abort ==
    /\ state = "open"
    /\ state' = "aborted"
    /\ UNCHANGED <<file, spoiled>>

Next == AppendBlock \/ Spoil \/ Close \/ Abort

Spec == Init /\ [][Next]_fileVars
=============================================================================
