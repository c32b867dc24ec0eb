--------------------------- MODULE MCOfflineFile ---------------------------
(* Every request to the offline writer on a few small blocks.               *)
EXTENDS OfflineFile

ThreeBlocks == {1, 2, 3}

\* A step may be larger than the rate, and then it is refused.
AllRequests == Pulse \X Pulse \X (1 .. FullRate + 1)

Both(a, b) == [m \in 0 .. 1 |-> IF m = 0 THEN a ELSE b]
Mixed == {Both("complete", "complete"), Both("complete", "shifted"),
          Both("incomplete", "recoded"), Both("incomplete", "hole"), Both("complete", "recoded")}
=============================================================================
