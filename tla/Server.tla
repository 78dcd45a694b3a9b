------------------------------- MODULE Server -------------------------------
(***************************************************************************)
(* The life of the server (main.c, sighandler.c) and the reload of its     *)
(* configuration (cfgfile.c, in the slave thread of slave.c), composed     *)
(* with the events of event.c and with what an authenticator's thread, the *)
(* YP thread and the threads of sources have to do with both: they take    *)
(* the locks of the reload, or are joined by it.                           *)
(*                                                                         *)
(* The slave thread reloads with the global lock and the write lock of the *)
(* configuration.  Clearing the old configuration it joins the thread of   *)
(* an authenticator that has no other user, and locks registrations of     *)
(* events; with the new one it locks the list of directories.              *)
(***************************************************************************)
EXTENDS Events

CONSTANT
    MaxRequests    \* bound on signals, connections and clients of authenticators

ASSUME ServerAssumption == MaxRequests \in Nat

VARIABLES
    main,          \* where the main thread is
    up,            \* global.running
    globalLock,    \* who has the global lock
    handler,       \* is the main thread in the handler of SIGHUP?
    requests,      \* how many signals, connections and clients there were
    reread,        \* global.schedule_config_reread
    slave,         \* where the slave thread is
    slaveUp,       \* slave_running
    auth,          \* where the thread of the authenticator is
    yp,            \* where the YP thread is
    ypUpdate,      \* yp_update
    ypNew,         \* are there directories in pending_yps?
    ypLock,        \* does the YP thread have the write lock of yp_lock?
    source         \* where the threads of sources are

slaveVars == <<slave, slaveUp, reread>>
ypVars == <<yp, ypUpdate, ypNew, ypLock>>
mainVars == <<main, up, handler, requests>>
vars == <<eventsVars, mainVars, globalLock, slaveVars, auth, ypVars, source>>

(* The server has started. *)
Init ==
    /\ EventsInit
    /\ main = "run" /\ up = TRUE /\ globalLock = Nobody
    /\ handler = FALSE /\ requests = 0 /\ reread = FALSE
    /\ slave = "idle" /\ slaveUp = TRUE
    /\ auth = "idle"
    /\ yp = "idle" /\ ypUpdate = FALSE /\ ypNew = FALSE /\ ypLock = FALSE
    /\ source = [s \in Source |-> "off"]

Requested == requests < MaxRequests /\ requests' = requests + 1

----------------------------------------------------------------------------
(* The slave thread: config_reread_config *)

SlaveAt(l) == slave' = l

(* _slave_thread looks at the flag with the global lock, and keeps it. *)
ScheduledReread ==
    /\ slave = "idle" /\ globalLock = Nobody /\ reread
    /\ globalLock' = Slave /\ SlaveAt("grab")
    /\ UNCHANGED <<eventsVars, mainVars, slaveUp, reread, auth, ypVars, source>>

(* config_grab_config, and the new configuration is parsed. *)
GrabConfig ==
    /\ slave = "grab" /\ MayRead /\ configLock.readers = {}
    /\ configLock' = [configLock EXCEPT !.writer = Slave]
    /\ \/ /\ version < MaxVersion
          /\ heads' = heads \cup FirstOf(version + 1)
          /\ refcount' = [er \in Reg |-> IF er \in Parsed(version + 1) THEN 1 ELSE refcount[er]]
          /\ live' = live \cup Parsed(version + 1)
          /\ SlaveAt("auth")
       \/ SlaveAt("release") /\ UNCHANGED <<heads, regVars>>
    /\ UNCHANGED <<erLock, version, releaseVars, queueVars, events, emitter, runner, ran,
                   mainVars, globalLock, slaveUp, reread, auth, ypVars, source>>

(* config_clear: auth_release.  A client in its queue keeps the            *)
(* authenticator, which is then not waited for.  The new configuration has *)
(* an authenticator of its own.                                            *)
ClearAuth ==
    /\ slave = "auth" /\ auth # "answer" /\ auth' = "idle" /\ SlaveAt("server")
    /\ UNCHANGED <<eventsVars, mainVars, globalLock, slaveUp, reread, ypVars, source>>

(* event_registration_release of config->event and of mount->event *)
ConfigReleases(list) ==
    \E er \in heads : /\ er.version = version /\ er.list = list
                      /\ ReleaseRegistrations({er}) /\ heads' = heads \ {er}
ClearEvents(list) ==
    /\ IF Chain(list) = <<>> THEN UNCHANGED <<heads, regVars>> ELSE ConfigReleases(list)
    /\ UNCHANGED <<lockVars, version, releaseVars, queueVars, events, emitter, runner, ran>>

ClearServer ==
    /\ slave = "server" /\ ClearEvents("server") /\ SlaveAt("mount")
    /\ UNCHANGED <<mainVars, globalLock, slaveUp, reread, auth, ypVars, source>>
ClearMounts ==
    /\ slave = "mount" /\ ClearEvents("mount") /\ SlaveAt("yp")
    /\ UNCHANGED <<mainVars, globalLock, slaveUp, reread, auth, ypVars, source>>

(* config_set_config; yp_recheck_config finds a new directory. *)
SetConfig ==
    /\ slave = "yp" /\ ~ypLock
    /\ version' = version + 1
    /\ ypUpdate' = TRUE /\ ypNew' = TRUE
    /\ SlaveAt("release")
    /\ UNCHANGED <<lockVars, heads, regVars, releaseVars, queueVars, events, emitter, runner,
                   ran, mainVars, globalLock, slaveUp, reread, auth, yp, ypLock, source>>

(* Mutant: a configuration that cannot be parsed is left locked. *)
RereadKeepsLock ==
    /\ slave = "release" /\ SlaveAt("idle")
    /\ reread' = FALSE /\ globalLock' = Nobody
    /\ UNCHANGED <<eventsVars, mainVars, slaveUp, auth, ypVars, source>>

(* config_release_config, slave_update_all_mounts, and the global lock. *)
RereadDone ==
    /\ slave = "release" /\ configLock' = [configLock EXCEPT !.writer = Nobody]
    /\ SlaveAt("idle") /\ reread' = FALSE /\ globalLock' = Nobody
    /\ UNCHANGED <<erLock, configVars, regVars, releaseVars, queueVars, events, emitter,
                   runner, ran, mainVars, slaveUp, auth, ypVars, source>>

(* The thread ends with its relays, which it joins. *)
SlaveEnds ==
    /\ slave = "idle" /\ ~slaveUp /\ \A s \in Source : source[s] \in {"off", "done"}
    /\ SlaveAt("ended")
    /\ UNCHANGED <<eventsVars, mainVars, globalLock, slaveUp, reread, auth, ypVars, source>>

SlaveThread == ScheduledReread \/ GrabConfig \/ ClearAuth \/ ClearServer \/ ClearMounts
               \/ SetConfig \/ RereadDone \/ SlaveEnds

----------------------------------------------------------------------------
(* The thread of an authenticator *)

AuthAt(l) == auth' = l

(* A client is given to it. *)
AuthQueued ==
    /\ auth = "idle" /\ main = "run" /\ Requested /\ AuthAt("ask")
    /\ UNCHANGED <<eventsVars, main, up, handler, globalLock, slaveVars, ypVars, source>>

(* It reads the configuration for its back end (auth_url.c), refuses the   *)
(* client and with it gives up a reference to its own authenticator.       *)
AuthRefuses ==
    /\ auth = "ask" /\ MayRead /\ AuthAt("answer")
    /\ UNCHANGED <<eventsVars, mainVars, globalLock, slaveVars, ypVars, source>>

(* Then the client is answered and destroyed, with the global lock. *)
AuthAnswers ==
    /\ auth = "answer" /\ globalLock = Nobody /\ AuthAt("idle")
    /\ UNCHANGED <<eventsVars, mainVars, globalLock, slaveVars, ypVars, source>>

AuthThread == AuthRefuses \/ AuthAnswers

----------------------------------------------------------------------------
(* The YP thread: check_servers, with the write lock *)

YpCheck ==
    /\ yp = "idle" /\ ypUpdate
    /\ ypLock' = TRUE /\ yp' = "check"
    /\ UNCHANGED <<eventsVars, mainVars, globalLock, slaveVars, auth, ypUpdate, ypNew, source>>

(* A directory that is new is given the public streams there are;          *)
(* create_yp_entry reads the configuration.                                *)
YpNeedsConfig == ypNew /\ \E s \in Source : source[s] = "on"
YpChecked ==
    /\ yp = "check" /\ (YpNeedsConfig => MayRead)
    /\ ypNew' = FALSE /\ ypUpdate' = FALSE /\ ypLock' = FALSE /\ yp' = "idle"
    /\ UNCHANGED <<eventsVars, mainVars, globalLock, slaveVars, auth, source>>

YpThread == YpCheck \/ YpChecked

----------------------------------------------------------------------------
(* The threads of sources, relays among them *)

SourceAt(s, l) == source' = [source EXCEPT ![s] = l]
SourceKeeps == UNCHANGED <<mainVars, globalLock, slaveVars, auth, ypVars>>

(* source_init takes the lock that the main thread waits for at the end.   *)
(* A relay may do so as long as there is the slave thread, which waits a   *)
(* second before it starts the first.                                      *)
SourceInit(s) ==
    /\ source[s] = "off" /\ slave # "ended"
    /\ EmitStart(s, "source-connect") /\ SourceAt(s, "on") /\ SourceKeeps

(* source_shutdown, for whatever reason *)
SourceShutdown(s) ==
    /\ source[s] = "on" /\ EmitStart(s, "source-disconnect") /\ SourceAt(s, "shutdown")
    /\ SourceKeeps

(* It ends with the global lock, and releases the other. *)
SourceDone(s) ==
    /\ source[s] = "shutdown" /\ Free(s) /\ globalLock = Nobody
    /\ SourceAt(s, "done")
    /\ UNCHANGED eventsVars /\ SourceKeeps

SourceThread(s) == SourceShutdown(s) \/ SourceDone(s)
                   \/ (Emit(s) /\ UNCHANGED source /\ SourceKeeps)

----------------------------------------------------------------------------
(* The main thread *)

MainAt(l) == main' = l
MainKeeps == UNCHANGED <<up, handler, slaveUp, reread, slave, auth, ypVars, source>>

(* connection_accept_loop *)
InLoop == main = "run" /\ Free(Main)

(* connection_queue: a client is created with the global lock, and the     *)
(* configuration is read.                                                  *)
Accept ==
    /\ InLoop /\ globalLock = Nobody /\ Requested
    /\ globalLock' = Main /\ MainAt("accept")
    /\ UNCHANGED eventsVars /\ MainKeeps
Accepted ==
    /\ main = "accept" /\ MayRead /\ globalLock' = Nobody /\ MainAt("run")
    /\ UNCHANGED <<eventsVars, requests>> /\ MainKeeps

(* command_reload_config *)
AdminReload ==
    /\ InLoop /\ globalLock = Nobody /\ Requested
    /\ reread' = TRUE
    /\ UNCHANGED <<eventsVars, main, up, handler, globalLock, slave, slaveUp, auth, ypVars, source>>

(* The loop ends, and the main thread waits for the sources. *)
LeaveLoop ==
    /\ InLoop /\ ~up /\ MainAt("drain")
    /\ UNCHANGED <<eventsVars, globalLock, requests>> /\ MainKeeps

(* _source_shutdown_rwlock *)
Drained == \A s \in Source : source[s] \notin {"on", "shutdown"}
ServerStop ==
    /\ main = "drain" /\ Drained /\ EmitStart(Main, "icecast-stop") /\ MainAt("stopped")
    /\ UNCHANGED <<globalLock, requests>> /\ MainKeeps

(* shutdown_subsystems: event_shutdown, *)
EventShutdown ==
    /\ main = "stopped" /\ Free(Main) /\ StopEvents /\ MainAt("join events")
    /\ UNCHANGED <<globalLock, requests>> /\ MainKeeps
EventJoined ==
    /\ main = "join events" /\ DropQueue /\ MainAt("drop events")
    /\ UNCHANGED <<globalLock, requests>> /\ MainKeeps
EventDropped ==
    /\ main = "drop events" /\ Release(Main) /\ UNCHANGED <<main, globalLock, requests>> /\ MainKeeps

(* slave_shutdown, *)
SlaveShutdown ==
    /\ main = "drop events" /\ work[Main] = <<>>
    /\ slaveUp' = FALSE /\ MainAt("join slave")
    /\ UNCHANGED <<eventsVars, up, handler, requests, globalLock, slave, reread, auth, ypVars, source>>

(* yp_shutdown, which joins the YP thread too,                             *)
ThreadsJoined ==
    /\ main = "join slave" /\ slave = "ended" /\ yp = "idle" /\ yp' = "ended" /\ MainAt("config")
    /\ UNCHANGED <<eventsVars, up, handler, requests, globalLock, slaveVars, auth, ypUpdate,
                   ypNew, ypLock, source>>

(* and config_shutdown: config_clear, which joins the authenticator's.     *)
ConfigShutdown ==
    /\ main = "config" /\ auth = "idle" /\ auth' = "ended"
    /\ ReleaseRegistrations(heads) /\ heads' = {} /\ MainAt("ended")
    /\ UNCHANGED <<lockVars, version, releaseVars, queueVars, events, emitter, runner, ran,
                   up, handler, requests, globalLock, slaveVars, ypVars, source>>

MainThread ==
    /\ ~handler
    /\ \/ Accepted \/ LeaveLoop \/ ServerStop
       \/ EventShutdown \/ EventJoined \/ EventDropped \/ SlaveShutdown \/ ThreadsJoined
       \/ ConfigShutdown
       \/ (Emit(Main) /\ UNCHANGED <<main, globalLock, requests>> /\ MainKeeps)

(* The main thread gets the signals.  The handler of SIGHUP takes the      *)
(* global lock, whatever it interrupts; SIGTERM ends the loop.             *)
SigHup ==
    /\ main # "ended" /\ ~handler /\ Requested /\ handler' = TRUE
    /\ UNCHANGED <<eventsVars, main, up, globalLock, slaveVars, auth, ypVars, source>>
SigHupHandled ==
    /\ handler /\ globalLock = Nobody /\ handler' = FALSE /\ reread' = TRUE
    /\ UNCHANGED <<eventsVars, main, up, requests, globalLock, slave, slaveUp, auth, ypVars, source>>
SigDie ==
    /\ up /\ up' = FALSE
    /\ UNCHANGED <<eventsVars, main, handler, requests, globalLock, slaveVars, auth, ypVars, source>>

----------------------------------------------------------------------------
EventThread == RunEvents /\ UNCHANGED <<mainVars, globalLock, slaveVars, auth, ypVars, source>>

Next ==
    /\ ~raced
    /\ \/ SlaveThread \/ AuthQueued \/ AuthThread \/ YpThread \/ EventThread
       \/ (\E s \in Source : SourceInit(s) \/ SourceThread(s))
       \/ MainThread \/ (~handler /\ (Accept \/ AdminReload))
       \/ SigHup \/ SigHupHandled \/ SigDie

(* What threads do by themselves; a source, when the server is to stop.    *)
Threads ==
    /\ ~raced
    /\ \/ SlaveThread \/ AuthThread \/ YpThread \/ EventThread \/ MainThread \/ SigHupHandled
       \/ \E s \in Source : (source[s] = "on" /\ Free(s) => ~up) /\ SourceThread(s)

Spec == Init /\ [][Next]_vars

(* As long as a thread can go on one of them does. *)
FairSpec == Spec /\ WF_vars(Threads)

----------------------------------------------------------------------------
(* Properties *)

(* The ways in which threads wait for each other for good.  The reload     *)
(* waits for a registration whose back end waits for the configuration,    *)
UrlCycle ==
    /\ slave \in {"server", "mount"} /\ runner.at = "config"
    /\ \E er \in heads : er.version = version /\ er.list = slave /\ runner.er \in Released(er)
(* or for the end of a thread that waits for the global lock,              *)
AuthCycle == slave = "auth" /\ auth = "answer"
(* or for the directories while the YP thread waits for the configuration; *)
YpCycle == slave = "yp" /\ ypLock /\ YpNeedsConfig
(* or the handler of a signal waits for the global lock, which the thread  *)
(* it interrupts has, or the reload, which waits for that thread.          *)
SignalCycle ==
    handler /\ (globalLock = Main \/ (slave = "grab" /\ Main \in configLock.readers))
Stuck == raced \/ UrlCycle \/ AuthCycle \/ YpCycle \/ SignalCycle

(* What the server is told to do is done, unless one of these cycles of    *)
(* the code is closed or a count is lost: a reload is done, or fails, and  *)
(* when the server is to stop it does, whatever the sources, the events    *)
(* and a reload do at that time.  No other order of locks and joins in     *)
(* config_reread_config and shutdown_subsystems ends in a deadlock.        *)
ServerObeys == reread \/ ~up ~> main = "ended" \/ Stuck \/ (up /\ ~reread)
=============================================================================
