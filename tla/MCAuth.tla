------------------------------- MODULE MCAuth -------------------------------
(* A small instance of Auth for TLC. *)
EXTENDS Auth

MountBoth == << <<"urlRemove", "static">>, <<>>, <<"static">> >>
=============================================================================
