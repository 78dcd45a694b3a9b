---------------------------- MODULE ListenerLife ----------------------------
(***************************************************************************)
(* What the mounts promise their listeners: a listener waits on one mount, *)
(* is served by it only from there and while it is open, goes to another   *)
(* mount only together with everybody else and to wait there again, and is *)
(* turned away by an open mount only if that is full.  Mounts implements   *)
(* this.                                                                   *)
(***************************************************************************)
EXTENDS Integers, FiniteSets

CONSTANTS
    Mount,         \* the mountpoints
    MaxListeners,  \* how many listeners each one serves, -1 for any number
    Client         \* the listeners

VARIABLES
    open,          \* the mounts that take listeners in
    waiting,       \* the listeners that wait to be served, by mount
    served         \* the listeners that are served, by mount

vars == <<open, waiting, served>>

Init ==
    /\ open = {}
    /\ waiting = [m \in Mount |-> {}]
    /\ served = [m \in Mount |-> {}]

(* A listener comes. *)
Join(c, m) ==
    /\ \A n \in Mount : c \notin waiting[n] \cup served[n]
    /\ waiting' = [waiting EXCEPT ![m] = waiting[m] \cup {c}]
    /\ UNCHANGED <<open, served>>

(* Those who wait are served, or turned away because there is no room. *)
Admit(m) ==
    /\ m \in open /\ UNCHANGED open
    /\ \E K \in SUBSET waiting[m] :
          /\ served' = [served EXCEPT ![m] = served[m] \cup K]
          /\ K # waiting[m] => /\ MaxListeners[m] # -1
                               /\ Cardinality(served[m] \cup K) = MaxListeners[m]
    /\ MaxListeners[m] # -1 => Cardinality(served'[m]) <= MaxListeners[m]
    /\ waiting' = [waiting EXCEPT ![m] = {}]

(* All listeners of a mount go to another one, which may open with them,   *)
(* and wait there.                                                         *)
Move(s, d) ==
    /\ s # d
    /\ open' \in {open, open \cup {d}}
    /\ waiting' = [waiting EXCEPT ![s] = {},
                                  ![d] = waiting[d] \cup (waiting[s] \cup served[s])]
    /\ served' = [served EXCEPT ![s] = {}]

(* A listener goes. *)
Leave(c, m) ==
    /\ served' = [served EXCEPT ![m] = served[m] \ {c}]
    /\ UNCHANGED <<open, waiting>>

(* A mount opens and shuts; once it is shut its listeners may have to go. *)
Open(m) ==
    /\ open' = open \cup {m} /\ UNCHANGED <<waiting, served>>
Shut(m) ==
    /\ open' = open \ {m} /\ UNCHANGED <<waiting, served>>
Drop(m) ==
    /\ m \notin open
    /\ waiting' = [waiting EXCEPT ![m] = {}]
    /\ served' = [served EXCEPT ![m] = {}]
    /\ UNCHANGED open

Next ==
    \/ \E m \in Mount : Open(m) \/ Admit(m) \/ Shut(m) \/ Drop(m)
    \/ \E c \in Client, m \in Mount : Join(c, m) \/ Leave(c, m)
    \/ \E s, d \in Mount : Move(s, d)

Spec == Init /\ [][Next]_vars
=============================================================================
