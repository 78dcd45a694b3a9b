---------------------------- MODULE MCDirectory ----------------------------
(* A small instance of Directory for TLC. *)
EXTENDS Directory
=============================================================================
