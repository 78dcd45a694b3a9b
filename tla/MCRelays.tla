------------------------------ MODULE MCRelays ------------------------------
(* Small instances of Relays for TLC. *)
EXTENDS Relays

CONSTANTS m1, m2

(* Relays of the configuration, in two versions, and of a master. *)
One == <<"local", m1, 1>>
Two == <<"local", m2, 1>>
Changed == <<"local", m1, 2>>
FromMaster == <<"master", m1, 1>>

Both == {{One, Two}}
Changing == {{One}, {Changed, Two}, {FromMaster}}
=============================================================================
