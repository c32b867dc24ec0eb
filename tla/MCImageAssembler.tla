-------------------------- MODULE MCImageAssembler --------------------------
(* The offline writer on a small ring: two reader threads, four blocks.     *)
EXTENDS ImageAssembler

CONSTANTS m1, m2

TwoModules == {m1, m2}
AnyErrors  == {"short", "failed"}
=============================================================================
