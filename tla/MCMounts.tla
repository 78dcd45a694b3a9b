------------------------------ MODULE MCMounts ------------------------------
EXTENDS Mounts, TLC

CONSTANTS live, backup

(* A source client on "live" with a relay behind it. *)
LiveAndBackup == {live, backup}
ToBackup == (live :> backup) @@ (backup :> None)
EachOther == (live :> backup) @@ (backup :> live)
SameType == [m \in LiveAndBackup |-> "ogg"]
OneOnLive == (live :> 1) @@ (backup :> -1)

Perms == Permutations(Client)
=============================================================================
