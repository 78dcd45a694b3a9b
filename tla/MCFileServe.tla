---------------------------- MODULE MCFileServe ----------------------------
(* Small instances of FileServe for TLC. *)
EXTENDS FileServe, TLC

=============================================================================
