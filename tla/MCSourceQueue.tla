--------------------------- MODULE MCSourceQueue ---------------------------
(* Small instances of SourceQueue for TLC. *)
EXTENDS SourceQueue, TLC

(* Two configurations whose limits are large enough for either burst. *)
RoomySettings == {[burst |-> 1, limit |-> 2], [burst |-> 2, limit |-> 3]}

Unlimited == -1
Perms == Permutations(Listeners)
============================================================================
