--------------------------- MODULE MCClientQueue ---------------------------
(* Small instances of ClientQueue for TLC: the values are in the .cfg files. *)
EXTENDS ClientQueue
=============================================================================
