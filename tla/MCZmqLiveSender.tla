--------------------------- MODULE MCZmqLiveSender ---------------------------
(* sf_stream with two modules, a ring of two slots and a live client whose  *)
(* queue holds one message.                                                 *)
EXTENDS ZmqLiveSender
=============================================================================
