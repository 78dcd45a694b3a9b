------------------------------- MODULE Mounts -------------------------------
(***************************************************************************)
(* The mountpoints of the server and the listeners on them: how a source   *)
(* is reserved, completed, run, shut down and freed, how listeners are     *)
(* found a source, wait in its pending tree, join its client tree, are     *)
(* moved to a fallback or taken back from it, and the counters kept about  *)
(* all of them (source.c, connection.c, and the relay threads of slave.c). *)
(* The data path of one source is SourceQueue.                             *)
(*                                                                         *)
(* Threads: one per source, one per GET request (the connection thread or  *)
(* an authentication thread), the slave thread, and admin requests.  The   *)
(* tree locks make a pass over the clients of a source atomic; the read    *)
(* lock on global.source_tree that a GET request or a move holds from its  *)
(* lookup on only keeps sources from being reserved or freed.              *)
(***************************************************************************)
EXTENDS Integers, FiniteSets, FiniteSetsExt

CONSTANTS
    Mount,         \* the mountpoints
    Relay,         \* those fed by a relay thread instead of a source client
    OnDemand,      \* the relays configured on-demand
    Fallback,      \* fallback-mount of every mount, or None
    Override,      \* the mounts with fallback-override
    WhenFull,      \* the mounts with fallback-when-full
    MaxListeners,  \* max-listeners of every mount, -1 for unlimited
    Type,          \* stream type of every mount
    SourceLimit,   \* limits: sources
    MaxDepth,      \* MAX_FALLBACK_DEPTH and the loop of a full mount (10)
    BadEncoding,   \* may a source ask for an unknown transfer-encoding?
    AdminTargets,  \* the mounts that admin requests set as a fallback
    Client,        \* the listening clients
    None

ASSUME MountsAssumption ==
    /\ IsFiniteSet(Mount) /\ IsFiniteSet(Client) /\ None \notin Mount
    /\ OnDemand \subseteq Relay /\ Relay \subseteq Mount
    /\ Override \subseteq Mount /\ WhenFull \subseteq Mount
    /\ Fallback \in [Mount -> Mount \cup {None}]
    /\ MaxListeners \in [Mount -> Nat \cup {-1}]
    /\ SourceLimit \in Nat /\ MaxDepth \in Nat \ {0}
    /\ BadEncoding \in BOOLEAN /\ AdminTargets \subseteq Mount

VARIABLES
    phase,         \* what the thread that owns the mount is doing
    running,       \* source->running
    onDemand,      \* source->on_demand
    wanted,        \* source->on_demand_req
    format,        \* source->format # NULL
    fallback,      \* source->fallback_mount, None for NULL
    limit,         \* source->max_listeners
    applied,       \* have the fallback_override and fallback_when_full of the
                   \* configuration been applied to this source_t?
    counted,       \* does global.sources include this source?
    target,        \* the fallback found, with the source_tree read lock held
    pending,       \* source->pending_tree
    tree,          \* source->client_tree
    listeners,     \* source->listeners
    previous,      \* source->prev_listeners
    request,       \* the GET request of a client: [at, mount, loop]
    sources        \* global.sources

demandVars  == <<onDemand, wanted>>
settingVars == <<fallback, limit, applied>>
countVars   == <<counted, sources>>
placeVars   == <<pending, tree, listeners, previous>>
clientVars  == <<request>>
sourceVars  == <<phase, running, demandVars, format, settingVars, target>>
vars == <<sourceVars, countVars, placeVars, clientVars>>

(* "free": not in global.source_tree.  A source client's thread goes       *)
(* reserved, startup, init, steal, take, loop, exit, move, clear, dec,     *)
(* freeing; a relay goes idle, open, init, ..., dec, cleanup, idle, or on  *)
(* a failure open, exit, move, clear, failed, cleanup, idle.  Nobody owns  *)
(* a "leaked" source.                                                      *)
Phases == {"free", "reserved", "startup", "leaked", "init", "steal", "take",
           "loop", "exit", "move", "clear", "dec", "freeing",
           "idle", "open", "failed", "cleanup"}

Idle == [at |-> "none", mount |-> None, loop |-> 0]

Init ==
    /\ phase = [m \in Mount |-> "free"]
    /\ running = [m \in Mount |-> FALSE]
    /\ onDemand = [m \in Mount |-> FALSE]
    /\ wanted = [m \in Mount |-> FALSE]
    /\ format = [m \in Mount |-> FALSE]
    /\ fallback = [m \in Mount |-> None]
    /\ limit = [m \in Mount |-> -1]
    /\ applied = [m \in Mount |-> FALSE]
    /\ counted = [m \in Mount |-> FALSE]
    /\ target = [m \in Mount |-> None]
    /\ pending = [m \in Mount |-> {}] /\ tree = [m \in Mount |-> {}]
    /\ listeners = [m \in Mount |-> 0] /\ previous = [m \in Mount |-> 0]
    /\ request = [c \in Client |-> Idle]
    /\ sources = 0

----------------------------------------------------------------------------
(* Looking up a mount *)

(* The k-th fallback of a mount in the configuration. *)
FallbackAt[k \in Nat] ==
    IF k = 0 THEN [m \in Mount \cup {None} |-> m]
    ELSE [m \in Mount \cup {None} |->
            IF FallbackAt[k - 1][m] = None THEN None
            ELSE Fallback[FallbackAt[k - 1][m]]]

(* source_find_mount: the first mount of the fallback chain that exists    *)
(* and is running or on-demand, None if there is none within MaxDepth.     *)
Usable(m) == m \in Mount /\ phase[m] # "free" /\ (running[m] \/ onDemand[m])
FindMount(m) ==
    LET found == {k \in 0 .. MaxDepth - 1 : Usable(FallbackAt[k][m])}
    IN  IF found = {} THEN None ELSE FallbackAt[Min(found)][m]

(* __add_listener_to_source: is the source full, and does it then pass     *)
(* listeners on to its fallback?                                           *)
Full(m) == limit[m] # -1 /\ listeners[m] >= limit[m]
SpillsOver(m) == m \in WhenFull /\ applied[m] /\ fallback[m] # None

(* Mutant: a GET request does not hold the read lock. *)
ReadersOnlyMoves == {m \in Mount : target[m] # None}

(* The holders of the read lock on global.source_tree. *)
Readers == {c \in Client : request[c].at # "none"}
           \cup {m \in Mount : target[m] # None}

(* The clients that some source has. *)
Placed == UNION {pending[m] \cup tree[m] : m \in Mount}

----------------------------------------------------------------------------
(* GET requests *)

(* _handle_get_request: the source tree is read locked and the mount       *)
(* looked up.                                                              *)
GetFind(c) ==
    /\ request[c].at = "none" /\ c \notin Placed
    /\ \E m \in Mount :
          /\ FindMount(m) # None
          /\ request' = [request EXCEPT ![c] =
                [at |-> "found", mount |-> FindMount(m), loop |-> MaxDepth]]
    /\ UNCHANGED <<sourceVars, countVars, placeVars>>

(* The loop of __add_listener_to_source: from a full source to the one     *)
(* its fallback is found to be, or the client is refused.                  *)
GetSpill(c) ==
    LET r == request[c]
        next == FindMount(fallback[r.mount])
    IN  /\ r.at = "found" /\ Full(r.mount) /\ SpillsOver(r.mount) /\ r.loop > 0
        /\ next # None
        /\ request' = [request EXCEPT ![c] =
                [at |-> "found", mount |-> next, loop |-> r.loop - 1]]
        /\ UNCHANGED <<sourceVars, countVars, placeVars>>
GetRefused(c) ==
    LET r == request[c]
    IN  /\ r.at = "found" /\ Full(r.mount)
        /\ SpillsOver(r.mount) /\ r.loop > 0 => FindMount(fallback[r.mount]) = None
        /\ request' = [request EXCEPT ![c] = Idle]
        /\ UNCHANGED <<sourceVars, countVars, placeVars>>

(* There is room: the client is put into the pending tree of the source. *)
GetAdd(c) ==
    LET m == request[c].mount
    IN  /\ request[c].at = "found" /\ ~Full(m)
        /\ pending' = [pending EXCEPT ![m] = @ \cup {c}]
        /\ request' = [request EXCEPT ![c] = [at |-> "added", mount |-> m, loop |-> 0]]
        /\ UNCHANGED <<sourceVars, countVars, tree, listeners, previous>>

(* The on-demand relay is woken up if it is not running, and the source    *)
(* tree unlocked.                                                          *)
GetWake(c) ==
    LET m == request[c].mount
    IN  /\ request[c].at = "added"
        /\ wanted' = [wanted EXCEPT ![m] = @ \/ (~running[m] /\ onDemand[m])]
        /\ request' = [request EXCEPT ![c] = Idle]
        /\ UNCHANGED <<phase, running, onDemand, format, settingVars, target,
                       countVars, placeVars>>

----------------------------------------------------------------------------
(* Operations of several callers *)

(* source_move_clients from s to d. *)
CanMove(s, d) ==
    /\ s # d
    /\ running[d] \/ onDemand[d]
    /\ onDemand[s] \/ format[s]
    /\ format[s] /\ format[d] => Type[s] = Type[d]
(* Mutants: the pending clients are not taken out of the source; the       *)
(* source's counter is not reset.                                          *)
MoveClientsKeepsPending(s, d) ==
    IF CanMove(s, d)
    THEN /\ pending' = [pending EXCEPT ![d] = @ \cup pending[s] \cup tree[s]]
         /\ tree' = [tree EXCEPT ![s] = {}]
         /\ listeners' = [listeners EXCEPT ![s] = 0]
         /\ UNCHANGED wanted
    ELSE UNCHANGED <<pending, tree, listeners, wanted>>
MoveClientsKeepsCount(s, d) ==
    IF CanMove(s, d)
    THEN /\ pending' = [pending EXCEPT ![s] = {}, ![d] = @ \cup pending[s] \cup tree[s]]
         /\ tree' = [tree EXCEPT ![s] = {}]
         /\ UNCHANGED <<listeners, wanted>>
    ELSE UNCHANGED <<pending, tree, listeners, wanted>>

MoveClients(s, d) ==
    LET moved == pending[s] \cup tree[s]
    IN  IF CanMove(s, d)
        THEN /\ pending' = [pending EXCEPT ![s] = {}, ![d] = pending[d] \cup moved]
             /\ tree' = [tree EXCEPT ![s] = {}]
             /\ listeners' = [listeners EXCEPT ![s] = 0]
             /\ wanted' = [wanted EXCEPT ![d] =
                    @ \/ (~running[d] /\ onDemand[d] /\ moved # {})]
        ELSE UNCHANGED <<pending, tree, listeners, wanted>>

(* source_clear_source: everybody is dropped and the source reset. *)
ClearEffect(m) ==
    /\ pending' = [pending EXCEPT ![m] = {}]
    /\ tree' = [tree EXCEPT ![m] = {}]
    /\ listeners' = [listeners EXCEPT ![m] = 0]
    /\ previous' = [previous EXCEPT ![m] = 0]
    /\ wanted' = [wanted EXCEPT ![m] = FALSE]
    /\ format' = [format EXCEPT ![m] = FALSE]
    /\ fallback' = [fallback EXCEPT ![m] = None]
    /\ limit' = [limit EXCEPT ![m] = -1]

(* source_update_settings, for the settings that matter here. *)
UpdateSettings(m) ==
    /\ fallback' = [fallback EXCEPT ![m] = Fallback[m]]
    /\ limit' = [limit EXCEPT ![m] = MaxListeners[m]]
    /\ applied' = [applied EXCEPT ![m] = TRUE]

(* fallback_override is set and there is a fallback. *)
Overrides(m) == m \in Override /\ applied[m] /\ fallback[m] # None

(* Phase changes of the owner of mount m. *)
Goto(m, p) == phase' = [phase EXCEPT ![m] = p]
At(m, p) == phase[m] = p

----------------------------------------------------------------------------
(* Starting a source *)

(* source_reserve, by a source client or the slave thread: the source tree *)
(* is write locked, so nobody may be reading it.                           *)
Reserve(m) ==
    /\ At(m, "free") /\ Readers = {}
    /\ Goto(m, IF m \in Relay THEN "idle" ELSE "reserved")
    /\ onDemand' = [onDemand EXCEPT ![m] = m \in OnDemand]
    /\ UNCHANGED <<running, wanted, format, settingVars, target, countVars,
                   placeVars, clientVars>>

(* connection_complete_source succeeds. *)
Complete(m) ==
    /\ phase[m] \in {"reserved", "open"} /\ sources < SourceLimit
    /\ sources' = sources + 1
    /\ counted' = [counted EXCEPT ![m] = TRUE]
    /\ format' = [format EXCEPT ![m] = TRUE]
    /\ running' = [running EXCEPT ![m] = TRUE]
    /\ UpdateSettings(m)
    /\ Goto(m, IF m \in Relay THEN "init" ELSE "startup")
    /\ UNCHANGED <<demandVars, target, placeVars, clientVars>>

(* It fails, at the limit or on the content type: a source client is       *)
(* cleared and freed, a relay falls back.  So does a relay that cannot     *)
(* connect.                                                                *)
CompleteFails(m) ==
    /\ phase[m] \in {"reserved", "open"}
    /\ Goto(m, IF m \in Relay THEN "exit" ELSE "clear")
    /\ UNCHANGED <<running, demandVars, format, settingVars, target,
                   countVars, placeVars, clientVars>>

(* Mutant: the source whose connection broke stays counted. *)
StartupBrokenStaysCounted(m) ==
    /\ At(m, "startup")
    /\ counted' = [counted EXCEPT ![m] = FALSE]
    /\ Goto(m, "clear")
    /\ UNCHANGED <<running, demandVars, format, settingVars, target,
                   sources, placeVars, clientVars>>

(* source_startup goes on: the response is sent and the source thread      *)
(* created, or the connection breaks first, or the transfer-encoding is    *)
(* not supported and the request given up as it is.                        *)
StartupSent(m) ==
    /\ At(m, "startup")
    /\ Goto(m, "init")
    /\ UNCHANGED <<running, demandVars, format, settingVars, target,
                   countVars, placeVars, clientVars>>
StartupBroken(m) ==
    /\ At(m, "startup")
    /\ sources' = sources - 1
    /\ counted' = [counted EXCEPT ![m] = FALSE]
    /\ Goto(m, "clear")
    /\ UNCHANGED <<running, demandVars, format, settingVars, target,
                   placeVars, clientVars>>
StartupUnsupported(m) ==
    /\ BadEncoding /\ At(m, "startup")
    /\ Goto(m, "leaked")
    /\ UNCHANGED <<running, demandVars, format, settingVars, target,
                   countVars, placeVars, clientVars>>

(* source_init: with fallback_override the listeners are taken back from   *)
(* the mount that the fallback is found to be.                             *)
SourceInit(m) ==
    /\ At(m, "init")
    /\ running' = [running EXCEPT ![m] = TRUE]
    /\ listeners' = [listeners EXCEPT ![m] = 0]
    /\ previous' = [previous EXCEPT ![m] = -1]
    /\ Goto(m, IF Overrides(m) THEN "steal" ELSE "loop")
    /\ UNCHANGED <<demandVars, format, settingVars, target, countVars,
                   pending, tree, clientVars>>
FindStolen(m) ==
    /\ At(m, "steal")
    /\ target' = [target EXCEPT ![m] = FindMount(fallback[m])]
    /\ Goto(m, "take")
    /\ UNCHANGED <<running, demandVars, format, settingVars, countVars,
                   placeVars, clientVars>>
TakeStolen(m) ==
    /\ At(m, "take")
    /\ IF target[m] # None THEN MoveClients(target[m], m)
       ELSE UNCHANGED <<pending, tree, listeners, wanted>>
    /\ target' = [target EXCEPT ![m] = None]
    /\ Goto(m, "loop")
    /\ UNCHANGED <<running, onDemand, format, settingVars, countVars,
                   previous, clientVars>>

----------------------------------------------------------------------------
(* source_main *)

(* A client with an error is removed from the client tree. *)
ListenerGone(m, c) ==
    /\ At(m, "loop") /\ c \in tree[m]
    /\ tree' = [tree EXCEPT ![m] = @ \ {c}]
    /\ listeners' = [listeners EXCEPT ![m] = @ - 1]
    /\ UNCHANGED <<sourceVars, countVars, pending, previous, clientVars>>

(* Mutant: the last place is not given away. *)
RoomShort(m) == IF limit[m] = -1 THEN Cardinality(pending[m])
                ELSE Max({0, limit[m] - listeners[m] - 1})

(* The pending clients are taken into the client tree while there is room, *)
(* the others dropped; an on-demand relay left without listeners stops.    *)
Room(m) == IF limit[m] = -1 THEN Cardinality(pending[m])
           ELSE Max({0, limit[m] - listeners[m]})
AdmitPending(m) ==
    /\ At(m, "loop")
    /\ \E K \in SUBSET pending[m] :
          /\ Cardinality(K) = Min({Cardinality(pending[m]), Room(m)})
          /\ tree' = [tree EXCEPT ![m] = @ \cup K]
          /\ listeners' = [listeners EXCEPT ![m] = @ + Cardinality(K)]
    /\ pending' = [pending EXCEPT ![m] = {}]
    /\ previous' = [previous EXCEPT ![m] = listeners'[m]]
    /\ running' = [running EXCEPT ![m] =
            @ /\ ~(listeners'[m] # previous[m] /\ listeners'[m] = 0 /\ onDemand[m])]
    /\ UNCHANGED <<phase, demandVars, format, settingVars, target,
                   countVars, clientVars>>

(* running is cleared: the connection of the source fails or times out, or *)
(* an admin request kills the source.  The loop is left.                   *)
StopSource(m) ==
    /\ running[m]
    /\ running' = [running EXCEPT ![m] = FALSE]
    /\ UNCHANGED <<phase, demandVars, format, settingVars, target,
                   countVars, placeVars, clientVars>>
LeaveLoop(m) ==
    /\ At(m, "loop") /\ ~running[m]
    /\ Goto(m, "exit")
    /\ UNCHANGED <<running, demandVars, format, settingVars, target,
                   countVars, placeVars, clientVars>>

----------------------------------------------------------------------------
(* Shutting a source down *)

(* source_shutdown and the failure path of start_relay_stream: the         *)
(* fallback is looked up and the listeners moved there.                    *)
FindFallback(m) ==
    /\ At(m, "exit")
    /\ target' = [target EXCEPT ![m] = FindMount(fallback[m])]
    /\ Goto(m, "move")
    /\ UNCHANGED <<running, demandVars, format, settingVars, countVars,
                   placeVars, clientVars>>
MoveToFallback(m) ==
    /\ At(m, "move")
    /\ IF target[m] # None THEN MoveClients(m, target[m])
       ELSE UNCHANGED <<pending, tree, listeners, wanted>>
    /\ target' = [target EXCEPT ![m] = None]
    /\ Goto(m, "clear")
    /\ UNCHANGED <<running, onDemand, format, settingVars, countVars,
                   previous, clientVars>>
ClearSource(m) ==
    /\ At(m, "clear")
    /\ ClearEffect(m)
    /\ Goto(m, IF counted[m] THEN "dec"
               ELSE IF m \in Relay THEN "failed" ELSE "freeing")
    /\ UNCHANGED <<running, onDemand, applied, target, countVars, clientVars>>

(* The end of source_shutdown; a relay's source stays reserved. *)
CountDown(m) ==
    /\ At(m, "dec")
    /\ sources' = sources - 1
    /\ counted' = [counted EXCEPT ![m] = FALSE]
    /\ Goto(m, IF m \in Relay THEN "cleanup" ELSE "freeing")
    /\ UNCHANGED <<running, demandVars, format, settingVars, target,
                   placeVars, clientVars>>

(* source_free_source: write locks the source tree to remove the source,   *)
(* then frees both trees with whoever is in them, and the source.          *)
FreeSource(m) ==
    /\ At(m, "freeing") /\ Readers = {}
    /\ Goto(m, "free")
    /\ pending' = [pending EXCEPT ![m] = {}]
    /\ tree' = [tree EXCEPT ![m] = {}]
    /\ running' = [running EXCEPT ![m] = FALSE]
    /\ wanted' = [wanted EXCEPT ![m] = FALSE]
    /\ fallback' = [fallback EXCEPT ![m] = None]
    /\ limit' = [limit EXCEPT ![m] = -1]
    /\ applied' = [applied EXCEPT ![m] = FALSE]
    /\ UNCHANGED <<onDemand, format, target, countVars, listeners, previous,
                   clientVars>>

----------------------------------------------------------------------------
(* Relays *)

(* check_relay_stream for a relay that is not running and whose time has   *)
(* come: an on-demand relay starts when a listener or, with                *)
(* fallback_override, its fallback's listeners ask for it.                 *)
FallbackHasListeners(m) ==
    LET f == FindMount(fallback[m])
    IN  Overrides(m) /\ f # None /\ running[f] /\ listeners[f] > 0
RelayCheck(m) ==
    /\ At(m, "idle")
    /\ IF m \in OnDemand /\ ~wanted[m]
       THEN /\ onDemand' = [onDemand EXCEPT ![m] = TRUE]
            /\ wanted' = [wanted EXCEPT ![m] = FallbackHasListeners(m)]
       ELSE UNCHANGED demandVars
    /\ Goto(m, IF m \in OnDemand /\ ~wanted'[m] THEN "idle" ELSE "open")
    /\ UNCHANGED <<running, format, settingVars, target, countVars,
                   placeVars, clientVars>>

(* A relay that failed is not on-demand until its next turn. *)
RelayFailed(m) ==
    /\ At(m, "failed")
    /\ onDemand' = [onDemand EXCEPT ![m] = FALSE]
    /\ Goto(m, "cleanup")
    /\ UNCHANGED <<running, wanted, format, settingVars, target, countVars,
                   placeVars, clientVars>>

(* Mutant: relay->running stays set, so that the relay never starts again. *)
RelayCleanupStaysRunning(m) ==
    /\ At(m, "cleanup")
    /\ Goto(m, "leaked")
    /\ UNCHANGED <<running, demandVars, format, settingVars, target,
                   countVars, placeVars, clientVars>>

(* The slave thread joins the relay thread and makes the relay idle. *)
RelayCleanup(m) ==
    /\ At(m, "cleanup")
    /\ Goto(m, "idle")
    /\ IF m \in OnDemand THEN UpdateSettings(m) ELSE UNCHANGED settingVars
    /\ UNCHANGED <<running, demandVars, format, target, countVars, placeVars,
                   clientVars>>

----------------------------------------------------------------------------
(* Requests about sources in general *)

(* source_recheck_mounts, by the slave thread, for one mount. *)
Recheck(m) ==
    /\ phase[m] # "free" /\ FindMount(m) # None
    /\ UpdateSettings(m)
    /\ UNCHANGED <<phase, running, demandVars, format, target, countVars,
                   placeVars, clientVars>>

(* Admin requests: the listeners of a mount are moved to another, or the   *)
(* fallback of a mount is set.                                             *)
AdminMove(s, d) ==
    /\ Usable(s) /\ FindMount(d) \notin {None, s}
    /\ MoveClients(s, FindMount(d))
    /\ UNCHANGED <<phase, running, onDemand, format, settingVars, target,
                   countVars, previous, clientVars>>
AdminFallback(m, f) ==
    /\ Usable(m) /\ f \in AdminTargets
    /\ fallback' = [fallback EXCEPT ![m] = f]
    /\ UNCHANGED <<phase, running, demandVars, format, limit, applied, target,
                   countVars, placeVars, clientVars>>

----------------------------------------------------------------------------
(* The steps that the thread of a source takes by itself; the slave        *)
(* thread's turns; a GET request under way.                                *)
Owner(m) ==
    \/ StartupSent(m) \/ SourceInit(m) \/ FindStolen(m) \/ TakeStolen(m)
    \/ AdmitPending(m) \/ LeaveLoop(m)
    \/ FindFallback(m) \/ MoveToFallback(m) \/ ClearSource(m) \/ CountDown(m)
    \/ RelayFailed(m)
Connect(m) == Complete(m) \/ CompleteFails(m)
Slave(m) == RelayCheck(m) \/ RelayCleanup(m)
Get(c) == GetSpill(c) \/ GetRefused(c) \/ GetAdd(c) \/ GetWake(c)

Next ==
    \/ \E m \in Mount :
          \/ Reserve(m) \/ Connect(m) \/ StartupBroken(m) \/ StartupUnsupported(m)
          \/ StopSource(m) \/ Owner(m) \/ FreeSource(m) \/ Slave(m) \/ Recheck(m)
          \/ \E c \in Client : ListenerGone(m, c)
          \/ \E d \in Mount : AdminMove(m, d) \/ AdminFallback(m, d)
    \/ \E c \in Client : GetFind(c) \/ Get(c)

Spec == Init /\ [][Next]_vars

(* Source threads, relay threads, the slave thread and the threads that    *)
(* handle requests keep running; a source that waits for the write lock on *)
(* the source tree gets it if it is free again and again.  Nothing makes a *)
(* source connect, stop or ask for anything.                               *)
FairSpec ==
    /\ Spec
    /\ \A m \in Mount : /\ WF_vars(Owner(m)) /\ WF_vars(Connect(m))
                        /\ WF_vars(Slave(m)) /\ SF_vars(FreeSource(m))
    /\ \A c \in Client : WF_vars(Get(c))

----------------------------------------------------------------------------
(* Properties *)

(* Every variable has its type. *)
TypeOK ==
    /\ phase \in [Mount -> Phases]
    /\ running \in [Mount -> BOOLEAN] /\ onDemand \in [Mount -> BOOLEAN]
    /\ wanted \in [Mount -> BOOLEAN] /\ format \in [Mount -> BOOLEAN]
    /\ fallback \in [Mount -> Mount \cup {None}]
    /\ limit \in [Mount -> Nat \cup {-1}]
    /\ applied \in [Mount -> BOOLEAN] /\ counted \in [Mount -> BOOLEAN]
    /\ target \in [Mount -> Mount \cup {None}]
    /\ pending \in [Mount -> SUBSET Client] /\ tree \in [Mount -> SUBSET Client]
    /\ listeners \in [Mount -> Nat] /\ previous \in [Mount -> Nat \cup {-1}]
    /\ request \in [Client -> {Idle} \cup
            [at : {"found", "added"}, mount : Mount, loop : 0 .. MaxDepth]]
    /\ sources \in Nat

(* However clients are added, admitted, moved, taken back and dropped by   *)
(* several threads, a client is in at most one tree of one source, and in  *)
(* none before its GET request inserts it (a client in two trees is freed  *)
(* twice).                                                                 *)
ClientInOnePlace ==
    \A c \in Client :
        /\ \A m \in Mount : ~(c \in pending[m] /\ c \in tree[m])
        /\ \A m, n \in Mount : c \in pending[m] \cup tree[m]
                               /\ c \in pending[n] \cup tree[n] => m = n
        /\ request[c].at = "found" => \A m \in Mount : c \notin pending[m] \cup tree[m]

(* The source that a GET request, a move or a take-over has found stays    *)
(* in the source tree until it is done with it, and nobody waits on a      *)
(* freed source: the read lock on global.source_tree is what keeps         *)
(* source_free_source away.                                                *)
NoUseAfterFree ==
    /\ \A c \in Client : request[c].at # "none" => phase[request[c].mount] # "free"
    /\ \A m \in Mount : target[m] # None => phase[target[m]] # "free"
    /\ \A m \in Mount : phase[m] = "free" => pending[m] = {} /\ tree[m] = {}

(* global.sources counts every source from the moment it is complete until *)
(* it has been cleared, on every way out, and never exceeds the limit.     *)
Connected == {"startup", "leaked", "init", "steal", "take", "loop", "dec"}
Unconnected == {"free", "reserved", "freeing", "idle", "open", "failed",
                "cleanup"}
SourcesCounted ==
    /\ sources = Cardinality({m \in Mount : counted[m]})
    /\ sources <= SourceLimit
    /\ \A m \in Mount : /\ phase[m] \in Connected => counted[m]
                        /\ phase[m] \in Unconnected => ~counted[m]

(* source->listeners is the size of the client tree, although a move by    *)
(* another thread empties the tree under the source thread's feet, and a   *)
(* source is cleared and started again.                                    *)
ListenersCounted == \A m \in Mount : listeners[m] = Cardinality(tree[m])

(* No mount serves more listeners than its max_listeners: the check of the *)
(* GET request does not see the pending ones, so "rarer cases" are left to *)
(* the source thread.                                                      *)
LimitRespected ==
    \A m \in Mount : MaxListeners[m] # -1 => listeners[m] <= MaxListeners[m]

(* Only the thread of a source puts listeners into its client tree, and    *)
(* it empties the tree before it ends: whoever is in a client tree is      *)
(* served.                                                                 *)
TreeIsServed ==
    \A m \in Mount : tree[m] # {} => phase[m] \in {"loop", "exit", "move", "clear"}

(* The strengthening that makes these invariants inductive: a source that  *)
(* is up has its max_listeners applied.                                    *)
LimitApplied ==
    \A m \in Mount : phase[m] \in {"startup", "leaked", "init", "steal", "take", "loop"}
                        => limit[m] = MaxListeners[m]
IInv ==
    /\ TypeOK /\ ClientInOnePlace /\ NoUseAfterFree /\ SourcesCounted
    /\ ListenersCounted /\ TreeIsServed /\ LimitApplied /\ LimitRespected

(* The trees of all sources together are an implementation of              *)
(* ListenerLife, where a mount is open while its thread is in source_main: *)
(* whatever threads do to them, in every step listeners only join a        *)
(* pending tree, are admitted from there while there is room, move with    *)
(* everybody else to another pending tree, or go.                          *)
Life == INSTANCE ListenerLife WITH
            open <- {m \in Mount : phase[m] = "loop"},
            waiting <- pending, served <- tree
ListenerPromise == Life!Spec

(* A listener never waits for ever in the pending tree of a source: it is  *)
(* admitted, moved or dropped, whatever becomes of the source meanwhile.   *)
PendingIsHandled ==
    \A c \in Client, m \in Mount : c \in pending[m] ~> c \notin pending[m]
=============================================================================
