------------------------------ MODULE MCStats ------------------------------
(* A small instance of Stats for TLC. *)
EXTENDS Stats
=============================================================================
