------------------------- MODULE MCTableOnboarding -------------------------
(* A small instance of TableOnboarding for TLC: its values are in the .cfg file. *)
EXTENDS TableOnboarding
=============================================================================
