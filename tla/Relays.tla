------------------------------- MODULE Relays -------------------------------
(***************************************************************************)
(* The relays of the server: the slave thread, which keeps the lists of    *)
(* relays, starts a thread for each relay, joins the ones that ended and   *)
(* shuts down the ones that were removed, and the relay threads            *)
(* (slave.c; config_clear of cfgfile.c).                                   *)
(*                                                                         *)
(* Two mutexes are taken by both sides: _slave_mutex, which protects the   *)
(* requests to the slave thread, and relay_lock, which protects the lists. *)
(* A thread that waits for one is at the label before the lock; who holds  *)
(* it is kept in slaveMutex and relayLock.  What happens to the listeners  *)
(* of a relay is in Mounts.                                                *)
(***************************************************************************)
EXTENDS Naturals, FiniteSets

CONSTANTS
    Mount,         \* local mountpoints of relays
    Version,       \* the server, port and remote mount a relay can have
    OnDemand,      \* the mounts relayed on-demand
    List,          \* "local": the configuration, "master": a master's streams
    Wishes,        \* the sets of relays that configuration and master name
    Outcomes,      \* what an attempt to connect can lead to
    SlaveThread,   \* the slave thread as the holder of a lock
    Nobody

Relay == List \X Mount \X Version
ListOf(r) == r[1]
MountOf(r) == r[2]

ASSUME RelaysAssumption ==
    /\ OnDemand \subseteq Mount /\ List \subseteq {"local", "master"}
    /\ Wishes \subseteq SUBSET Relay /\ Outcomes \subseteq {"stream", "fail"}
    /\ SlaveThread \notin Relay /\ Nobody \notin Relay \cup {SlaveThread}

VARIABLES
    wish,          \* config->relay and the stream list of the master
    listed,        \* global.relays and global.master_relays
    doomed,        \* to_free of relay_check_streams
    source,        \* the relays with a reserved source, relay->source # NULL
    running,       \* relay->running
    cleanup,       \* relay->cleanup
    early,         \* relay->start is in the future
    wanted,        \* relay->source->on_demand_req
    thread,        \* where the relay's thread is, see Steps
    srcRunning,    \* relay->source->running
    slave,         \* where the slave thread is
    checking,      \* the relays that this pass has still to check
    skipTimer,     \* skip_timer
    slaveMutex,    \* the holder of _slave_mutex
    relayLock,     \* the holder of relay_lock
    force,         \* max_interval = 0: update the lists in the next turn
    reread,        \* global.schedule_config_reread
    up,            \* global.running = ICECAST_RUNNING
    slaveRunning   \* slave_running

listVars  == <<wish, listed, doomed>>
relayVars == <<source, running, cleanup, early, wanted>>
threadVars == <<thread, srcRunning>>
passVars  == <<checking, skipTimer>>
lockVars  == <<slaveMutex, relayLock>>
serverVars == <<reread, up, slaveRunning>>
relaysVars == <<listVars, relayVars, threadVars, slave, passVars, lockVars, force,
          serverVars>>

(* "open": connecting; "init": connected, before source_main has set       *)
(* running; "main": in source_main; "ended": asks for an update of all     *)
(* mounts; "told": cleanup is set, asks for a rebuild; "failed": wants     *)
(* _slave_mutex; "locking": has it and wants relay_lock; "dead": has       *)
(* returned and can be joined.                                             *)
Steps == {"none", "open", "init", "main", "ended", "told", "failed",
          "locking", "dead"}

RelaysInit ==
    /\ wish \in Wishes /\ listed = {} /\ doomed = {}
    /\ source = {} /\ running = {} /\ cleanup = {} /\ early = {} /\ wanted = {}
    /\ thread = [r \in Relay |-> "none"] /\ srcRunning = {}
    /\ slave = "top" /\ checking = {} /\ skipTimer = FALSE
    /\ slaveMutex = Nobody /\ relayLock = Nobody
    /\ force = TRUE /\ reread = FALSE /\ up = TRUE /\ slaveRunning = TRUE

ThreadAt(r, s) == thread[r] = s
ThreadGoto(r, s) == thread' = [thread EXCEPT ![r] = s]

----------------------------------------------------------------------------
(* A relay's thread, start_relay_stream *)

(* open_relay_connection and connection_complete_source succeed: the       *)
(* source is running (and the slave thread is asked for a rebuild, which   *)
(* needs _slave_mutex for a moment).                                       *)
Connected(r) ==
    /\ ThreadAt(r, "open") /\ "stream" \in Outcomes /\ slaveMutex = Nobody
    /\ ThreadGoto(r, "init") /\ srcRunning' = srcRunning \cup {r}
    /\ UNCHANGED <<listVars, relayVars, slave, passVars, lockVars, force,
                   serverVars>>

(* One of them fails: the listeners are moved, the source is cleared.      *)
NotConnected(r) ==
    /\ ThreadAt(r, "open") /\ "fail" \in Outcomes
    /\ ThreadGoto(r, "failed") /\ wanted' = wanted \ {r}
    /\ srcRunning' = srcRunning \ {r}
    /\ UNCHANGED <<listVars, source, running, cleanup, early, slave, passVars,
                   lockVars, force, serverVars>>

(* source_init sets running once more. *)
SourceInit(r) ==
    /\ ThreadAt(r, "init") /\ ThreadGoto(r, "main")
    /\ srcRunning' = srcRunning \cup {r}
    /\ UNCHANGED <<listVars, relayVars, slave, passVars, lockVars, force,
                   serverVars>>

(* source_main ends when running is cleared or the server is, and          *)
(* source_shutdown clears the source.  A relay that is not on-demand is    *)
(* not started again for 10 seconds.                                       *)
SourceMainEnds(r) ==
    /\ ThreadAt(r, "main") /\ (r \notin srcRunning \/ ~up)
    /\ wanted' = wanted \ {r} /\ srcRunning' = srcRunning \ {r}
    /\ IF MountOf(r) \in OnDemand
       THEN /\ ThreadGoto(r, "told") /\ cleanup' = cleanup \cup {r}
            /\ UNCHANGED early
       ELSE /\ ThreadGoto(r, "ended") /\ early' = early \cup {r}
            /\ UNCHANGED cleanup
    /\ UNCHANGED <<listVars, source, running, slave, passVars, lockVars, force,
                   serverVars>>

(* slave_update_all_mounts, then cleanup is set. *)
AskUpdate(r) ==
    /\ ThreadAt(r, "ended") /\ slaveMutex = Nobody
    /\ ThreadGoto(r, "told") /\ cleanup' = cleanup \cup {r} /\ force' = TRUE
    /\ UNCHANGED <<listVars, source, running, early, wanted, srcRunning, slave,
                   passVars, lockVars, serverVars>>

(* slave_rebuild_mounts, and the thread returns. *)
AskRebuild(r) ==
    /\ ThreadAt(r, "told") /\ slaveMutex = Nobody /\ ThreadGoto(r, "dead")
    /\ UNCHANGED <<listVars, relayVars, srcRunning, slave, passVars, lockVars,
                   force, serverVars>>

(* The end of a failed relay takes both mutexes, sets cleanup and returns. *)
FailedLocks(r) ==
    /\ ThreadAt(r, "failed") /\ slaveMutex = Nobody
    /\ slaveMutex' = r /\ ThreadGoto(r, "locking")
    /\ UNCHANGED <<listVars, relayVars, srcRunning, slave, passVars, relayLock,
                   force, serverVars>>
FailedEnds(r) ==
    /\ ThreadAt(r, "locking") /\ relayLock = Nobody
    /\ cleanup' = cleanup \cup {r}
    /\ early' = (IF force THEN early \ {r} ELSE early \cup {r})
    /\ slaveMutex' = Nobody /\ ThreadGoto(r, "dead")
    /\ UNCHANGED <<listVars, source, running, wanted, srcRunning, slave,
                   passVars, relayLock, force, serverVars>>

----------------------------------------------------------------------------
(* The slave thread, _slave_thread *)

SlaveGoto(s) == slave' = s

(* config_reread_config: config_clear frees the relays of the old          *)
(* configuration under relay_lock; slave_update_all_mounts at the end.     *)
Reread ==
    /\ slave = "top" /\ reread /\ relayLock = Nobody
    /\ SlaveGoto("reread") /\ reread' = FALSE
    /\ \E w \in Wishes : wish' = {r \in wish : ListOf(r) = "master"}
                                 \cup {r \in w : ListOf(r) = "local"}
    /\ UNCHANGED <<listed, doomed, relayVars, threadVars, passVars, lockVars,
                   force, up, slaveRunning>>
RereadForces ==
    /\ slave = "reread" /\ slaveMutex = Nobody
    /\ SlaveGoto("sleep") /\ force' = TRUE
    /\ UNCHANGED <<listVars, relayVars, threadVars, passVars, lockVars,
                   serverVars>>

(* No reread is due: the thread sleeps for a second. *)
Sleep ==
    /\ slave = "top" /\ ~reread /\ SlaveGoto("sleep")
    /\ UNCHANGED <<listVars, relayVars, threadVars, passVars, lockVars, force,
                   serverVars>>

(* After the sleep: the thread ends, or finds out whether it is time to    *)
(* update the lists.  A turn with max_interval = 0 skips the timers.       *)
Turn ==
    /\ slave = "sleep" /\ slaveRunning /\ slaveMutex = Nobody
    /\ \/ SlaveGoto("master") /\ skipTimer' = force /\ force' = FALSE
       \/ ~force /\ SlaveGoto("lock") /\ skipTimer' = FALSE /\ UNCHANGED force
    /\ UNCHANGED <<listVars, relayVars, threadVars, checking, lockVars,
                   serverVars>>

(* update_relays on one list: relays named by the new list with the same   *)
(* details are kept, new ones are copied, the others are to be freed.      *)
UpdateRelays(l) ==
    /\ doomed' = {r \in listed : ListOf(r) = l /\ r \notin wish}
    /\ listed' = {r \in listed : ListOf(r) # l} \cup {r \in wish : ListOf(r) = l}

(* update_from_master: the stream list is fetched (or cannot be) and the   *)
(* list of master relays updated and checked under relay_lock.             *)
FetchFails ==
    /\ slave = "master" /\ SlaveGoto("lockUpdate")
    /\ UNCHANGED <<listVars, relayVars, threadVars, passVars, lockVars, force,
                   serverVars>>
Fetch ==
    /\ slave = "master" /\ "master" \in List
    /\ SlaveGoto("fetched")
    /\ \E w \in Wishes : wish' = {r \in wish : ListOf(r) = "local"}
                                 \cup {r \in w : ListOf(r) = "master"}
    /\ UNCHANGED <<listed, doomed, relayVars, threadVars, passVars, lockVars,
                   force, serverVars>>
UpdateMaster ==
    /\ slave = "fetched" /\ relayLock = Nobody
    /\ relayLock' = SlaveThread /\ UpdateRelays("master")
    /\ SlaveGoto("masterPass") /\ checking' = {r \in listed' : ListOf(r) = "master"}
    /\ UNCHANGED <<wish, relayVars, threadVars, skipTimer, slaveMutex, force,
                   serverVars>>
MasterDone ==
    /\ slave = "masterPass" /\ doomed = {} /\ checking = {}
    /\ relayLock' = Nobody /\ SlaveGoto("lockUpdate")
    /\ UNCHANGED <<listVars, relayVars, threadVars, passVars, slaveMutex,
                   force, serverVars>>

(* relay_lock is taken, the list of the configuration updated if it is     *)
(* time, and all relays are checked.                                       *)
UpdateLocal ==
    /\ slave = "lockUpdate" /\ relayLock = Nobody
    /\ relayLock' = SlaveThread /\ UpdateRelays("local")
    /\ SlaveGoto("pass") /\ checking' = listed'
    /\ UNCHANGED <<wish, relayVars, threadVars, skipTimer, slaveMutex, force,
                   serverVars>>
LockOnly ==
    /\ slave = "lock" /\ relayLock = Nobody
    /\ relayLock' = SlaveThread /\ SlaveGoto("pass") /\ checking' = listed
    /\ UNCHANGED <<listVars, relayVars, threadVars, skipTimer, slaveMutex,
                   force, serverVars>>
PassDone ==
    /\ slave = "pass" /\ doomed = {} /\ checking = {}
    /\ relayLock' = Nobody /\ SlaveGoto("recheck")
    /\ UNCHANGED <<listVars, relayVars, threadVars, passVars, slaveMutex,
                   force, serverVars>>

(* The end of a turn: source_recheck_mounts with _slave_mutex held.        *)
Recheck ==
    /\ slave = "recheck" /\ slaveMutex = Nobody /\ SlaveGoto("top")
    /\ UNCHANGED <<listVars, relayVars, threadVars, passVars, lockVars, force,
                   serverVars>>

InPass == slave \in {"pass", "masterPass"}

(* The removed relays are handled one after the other: an active one is    *)
(* told to stop and joined.                                                *)
Joining(r) == r \in doomed /\ r \notin running /\ thread[r] # "none"
Removing(r) == /\ (InPass \/ slave = "ending") /\ r \in doomed
               /\ \A s \in doomed : Joining(s) => s = r
StopRemoved(r) ==
    /\ Removing(r) /\ r \in running
    /\ running' = running \ {r} /\ srcRunning' = srcRunning \ {r}
    /\ UNCHANGED <<listVars, source, cleanup, early, wanted, thread, slave,
                   passVars, lockVars, force, serverVars>>

(* Mutant: the thread of a removed relay is not waited for. *)
JoinedNever(r) == TRUE

(* thread_join returns when the thread has ended. *)
Joined(r) == thread[r] \in {"none", "dead"}
Reap(r) == thread' = [thread EXCEPT ![r] = IF @ = "dead" THEN "none" ELSE @]

(* relay_free: the relay and its source are freed. *)
FreeRelay(r) ==
    /\ Removing(r) /\ r \notin running /\ Joined(r)
    /\ doomed' = doomed \ {r} /\ source' = source \ {r}
    /\ cleanup' = cleanup \ {r} /\ early' = early \ {r}
    /\ wanted' = wanted \ {r} /\ srcRunning' = srcRunning \ {r}
    /\ Reap(r)
    /\ UNCHANGED <<wish, listed, running, slave, passVars, lockVars, force,
                   serverVars>>

(* skip_timer: relay->start is reset before the relay is checked. *)
EarlyAfter(r) == IF slave = "pass" /\ skipTimer THEN early \ {r} ELSE early

(* Mutant: source_reserve does not look for the mount. *)
MountTakenNever(r) == FALSE

(* check_relay_stream, a relay without a source: the mount is reserved if  *)
(* it is free.  For an on-demand relay slave_update_all_mounts is called   *)
(* with relay_lock held.                                                   *)
MountTaken(r) == \E s \in source : MountOf(s) = MountOf(r)
ReserveFails(r) ==
    /\ InPass /\ doomed = {} /\ r \in checking \ source /\ MountTaken(r)
    /\ checking' = checking \ {r} /\ early' = EarlyAfter(r)
    /\ UNCHANGED <<listVars, source, running, cleanup, wanted, threadVars,
                   slave, skipTimer, lockVars, force, serverVars>>
Reserve(r) ==
    /\ InPass /\ doomed = {} /\ r \in checking \ source /\ ~MountTaken(r)
    /\ source' = source \cup {r}
    /\ IF MountOf(r) \in OnDemand THEN slaveMutex = Nobody /\ force' = TRUE
       ELSE UNCHANGED force
    /\ UNCHANGED <<listVars, running, cleanup, early, wanted, threadVars, slave,
                   passVars, lockVars, serverVars>>

(* check_relay_stream: may the relay be started? *)
Due(r) == r \notin running /\ r \notin EarlyAfter(r)
          /\ (MountOf(r) \in OnDemand => r \in wanted)
StartRelay(r) ==
    /\ InPass /\ doomed = {} /\ r \in checking \cap source /\ Due(r)
    /\ checking' = checking \ {r}
    /\ early' = EarlyAfter(r) \cup {r} /\ running' = running \cup {r}
    /\ ThreadGoto(r, "open")
    /\ UNCHANGED <<listVars, source, cleanup, wanted, srcRunning, slave,
                   skipTimer, lockVars, force, serverVars>>

(* A relay that is not started and has not ended. *)
LeaveRelay(r) ==
    /\ InPass /\ doomed = {} /\ r \in checking \cap source /\ ~Due(r)
    /\ r \notin cleanup
    /\ checking' = checking \ {r} /\ early' = EarlyAfter(r)
    /\ UNCHANGED <<listVars, source, running, cleanup, wanted, threadVars,
                   slave, skipTimer, lockVars, force, serverVars>>

(* Mutant: cleanup is not reset. *)
CleanupKeepsFlag(r) ==
    /\ InPass /\ doomed = {} /\ r \in checking \cap source /\ ~Due(r)
    /\ r \in cleanup /\ Joined(r)
    /\ checking' = checking \ {r} /\ early' = EarlyAfter(r)
    /\ running' = running \ {r} /\ Reap(r)
    /\ UNCHANGED <<listVars, source, cleanup, wanted, srcRunning, slave,
                   skipTimer, lockVars, force, serverVars>>

(* A relay that has ended is joined, though its thread may not have        *)
(* returned yet, and can be started again.                                 *)
Cleanup(r) ==
    /\ InPass /\ doomed = {} /\ r \in checking \cap source /\ ~Due(r)
    /\ r \in cleanup /\ Joined(r)
    /\ checking' = checking \ {r} /\ early' = EarlyAfter(r)
    /\ cleanup' = cleanup \ {r} /\ running' = running \ {r}
    /\ Reap(r)
    /\ UNCHANGED <<listVars, source, wanted, srcRunning, slave, skipTimer,
                   lockVars, force, serverVars>>

(* slave_running = 0: all relays are shut down, without relay_lock.        *)
SlaveEnds ==
    /\ slave = "sleep" /\ ~slaveRunning
    /\ SlaveGoto("ending") /\ doomed' = listed /\ listed' = {}
    /\ UNCHANGED <<wish, relayVars, threadVars, passVars, lockVars, force,
                   serverVars>>
SlaveDone ==
    /\ slave = "ending" /\ doomed = {} /\ SlaveGoto("gone")
    /\ UNCHANGED <<listVars, relayVars, threadVars, passVars, lockVars, force,
                   serverVars>>

----------------------------------------------------------------------------
(* The other threads *)

(* SIGHUP or the reload request; a listener, or listeners moved here, that *)
(* want an on-demand relay; the end of the remote stream or a kill; time.  *)
AskReread ==
    /\ ~reread /\ up /\ Cardinality(Wishes) > 1 /\ reread' = TRUE
    /\ UNCHANGED <<listVars, relayVars, threadVars, slave, passVars, lockVars,
                   force, up, slaveRunning>>
Want(r) ==
    /\ r \in source \ wanted /\ MountOf(r) \in OnDemand /\ r \notin srcRunning
    /\ slaveMutex = Nobody /\ wanted' = wanted \cup {r}
    /\ UNCHANGED <<listVars, source, running, cleanup, early, threadVars, slave,
                   passVars, lockVars, force, serverVars>>
StreamEnds(r) ==
    /\ r \in srcRunning /\ thread[r] \in {"init", "main"}
    /\ srcRunning' = srcRunning \ {r}
    /\ UNCHANGED <<listVars, relayVars, thread, slave, passVars, lockVars,
                   force, serverVars>>
TimePasses(r) ==
    /\ r \in early /\ early' = early \ {r}
    /\ UNCHANGED <<listVars, source, running, cleanup, wanted, threadVars,
                   slave, passVars, lockVars, force, serverVars>>

(* The server shuts down: the accept loop waits until no source is in      *)
(* source_main, then the slave thread is told to end.                      *)
Shutdown ==
    /\ up /\ up' = FALSE
    /\ UNCHANGED <<listVars, relayVars, threadVars, slave, passVars, lockVars,
                   force, reread, slaveRunning>>
SlaveShutdown ==
    /\ ~up /\ slaveRunning /\ \A r \in Relay : ~ThreadAt(r, "main")
    /\ slaveRunning' = FALSE
    /\ UNCHANGED <<listVars, relayVars, threadVars, slave, passVars, lockVars,
                   force, reread, up>>

----------------------------------------------------------------------------
RelayThread(r) ==
    \/ Connected(r) \/ NotConnected(r) \/ SourceInit(r) \/ SourceMainEnds(r)
    \/ AskUpdate(r) \/ AskRebuild(r) \/ FailedLocks(r) \/ FailedEnds(r)

Slave ==
    \/ Reread \/ RereadForces \/ Sleep \/ Turn \/ FetchFails \/ Fetch
    \/ UpdateMaster \/ MasterDone \/ UpdateLocal \/ LockOnly \/ PassDone
    \/ Recheck \/ SlaveEnds \/ SlaveDone
    \/ \E r \in Relay : \/ StopRemoved(r) \/ FreeRelay(r) \/ ReserveFails(r)
                        \/ Reserve(r) \/ StartRelay(r) \/ LeaveRelay(r)
                        \/ Cleanup(r)

Others ==
    \/ AskReread \/ Shutdown \/ SlaveShutdown
    \/ \E r \in Relay : Want(r) \/ StreamEnds(r) \/ TimePasses(r)

RelaysNext == Slave \/ Others \/ \E r \in Relay : RelayThread(r)

RelaysSpec == RelaysInit /\ [][RelaysNext]_relaysVars

(* The threads run, and one that waits for a mutex gets it if it is free   *)
(* again and again, and so does the shutdown that waits for the write lock *)
(* of the sources; time passes.  Nothing makes a remote stream end or a    *)
(* listener ask for one.                                                   *)
RelaysFairSpec ==
    /\ RelaysSpec /\ SF_relaysVars(Slave) /\ SF_relaysVars(SlaveShutdown)
    /\ \A r \in Relay : SF_relaysVars(RelayThread(r)) /\ WF_relaysVars(TimePasses(r))

----------------------------------------------------------------------------
(* Properties *)

(* Every variable has its type. *)
RelaysTypeOK ==
    /\ wish \subseteq Relay /\ listed \subseteq Relay /\ doomed \subseteq Relay
    /\ source \subseteq Relay /\ running \subseteq Relay
    /\ cleanup \subseteq Relay /\ early \subseteq Relay
    /\ wanted \subseteq Relay /\ srcRunning \subseteq Relay
    /\ thread \in [Relay -> Steps]
    /\ slave \in {"top", "reread", "sleep", "master", "fetched", "masterPass",
                  "lockUpdate", "lock", "pass", "recheck", "ending", "gone"}
    /\ checking \subseteq listed /\ skipTimer \in BOOLEAN
    /\ slaveMutex \in Relay \cup {Nobody}
    /\ relayLock \in {SlaveThread, Nobody}
    /\ force \in BOOLEAN /\ reread \in BOOLEAN
    /\ up \in BOOLEAN /\ slaveRunning \in BOOLEAN

(* A relay and its source live until its thread has returned: whatever is  *)
(* removed or changed meanwhile, start_relay_stream never uses a freed     *)
(* relay_server or source_t.                                               *)
ThreadOwned ==
    \A r \in Relay : thread[r] # "none" => r \in source /\ r \in listed \cup doomed

(* Relays of two lists, or an old and a new version of one, can name the   *)
(* same mount: only one of them has its source at a time.                  *)
SourceExclusive ==
    \A r, s \in source : MountOf(r) = MountOf(s) => r = s

(* The flags tell the truth about the threads: a relay in a list is marked *)
(* running exactly while it has a thread that was not joined, so it is     *)
(* never started twice and can always be started again; and cleanup is     *)
(* set by a thread that is about to return, and by no earlier one, so the  *)
(* slave thread never waits for a relay that is streaming.                 *)
FlagsTellThreads ==
    /\ \A r \in listed : r \in running <=> thread[r] # "none"
    /\ \A r \in cleanup : thread[r] \in {"told", "dead"}

(* The slave thread comes back to the top of its loop again and again: the *)
(* relay server polls its master in intervals.                             *)
SlaveTurns == []<>(slave \in {"top", "gone"})
=============================================================================
