----------------------------- MODULE MCLiveWriter -----------------------------
(* Ranks, and runs shorter and longer than their number.                    *)
EXTENDS LiveWriter

OneTwoThree == {1, 2, 3}
Either     == BOOLEAN
=============================================================================
