------------------------------- MODULE Events -------------------------------
(***************************************************************************)
(* Events and their registrations (event.c, event_url.c, event_exec.c,     *)
(* event_log.c).  A configuration has chains of registrations, one for the *)
(* server and one for each mount.  A thread that emits an event takes      *)
(* references to the chains of the current configuration, appends the      *)
(* event to a bounded queue and releases its own reference to it; the      *)
(* event thread takes events from the queue and calls the back end of each *)
(* registration with that registration locked.  The configuration may be   *)
(* replaced while events refer to its chains.                              *)
(*                                                                         *)
(* Every access to the queue is one step, with event_lock.  The reference  *)
(* count of an event has no lock: when two threads release an event at the *)
(* same time each may see, or not, that it was the last.                   *)
(***************************************************************************)
EXTENDS Integers, Sequences, FiniteSets, SequencesExt

CONSTANTS
    Source,       \* threads of sources, which emit events
    Main,         \* the main thread, which emits events of the server
    Slave,        \* the slave thread, which replaces the configuration
    Runner,       \* the event thread
    Nobody,
    ServerChain,  \* the registrations of the server: [type, trigger] each
    MountChain,   \* those of the mount of the sources
    QueueMax,     \* 128
    MaxVersion    \* bound on configurations

ASSUME EventsAssumption ==
    /\ IsFiniteSet(Source) /\ {Main, Slave, Runner, Nobody} \cap Source = {}
    /\ Cardinality({Main, Slave, Runner, Nobody}) = 4
    /\ QueueMax \in Nat \ {0} /\ MaxVersion \in Nat \ {0}
    /\ {ServerChain, MountChain} \subseteq Seq([type : STRING, trigger : STRING])

VARIABLES
    configLock,   \* config_lock: [writer, readers]
    version,      \* the current configuration
    heads,        \* config->event and mount->event, of it and of one to come
    refcount,     \* of the registrations
    live,         \* registrations that exist
    erLock,       \* who has locked a registration
    events,       \* the events there were: [trigger, version, reglist, count, next]
    freed,        \* the ones that are freed
    queue,        \* event_queue
    pushed,       \* the events that were ever in it
    running,      \* event_running
    emitter,      \* of a thread that emits: where it is, and the event
    runner,       \* the event thread: [at, event, list, er, last]
    work,         \* the events that a thread is to release
    releasing,    \* threads that are changing the count of an event
    raced,        \* was the count of an event changed by two threads at a time?
    ran           \* the back ends that were called: <<event, registration>>

lockVars == <<configLock, erLock>>
configVars == <<version, heads>>
regVars == <<refcount, live>>
releaseVars == <<freed, work, releasing, raced>>
queueVars == <<queue, pushed, running>>
eventsVars == <<lockVars, configVars, regVars, releaseVars, queueVars, events,
                emitter, runner, ran>>

Emitters == Source \cup {Main}
Chain(list) == IF list = "server" THEN ServerChain ELSE MountChain
Registration(v, l, n) == [version |-> v, list |-> l, no |-> n]
Of(v, l) == {Registration(v, l, n) : n \in DOMAIN Chain(l)}
Reg == UNION {Of(v, l) : v \in 1 .. MaxVersion, l \in {"server", "mount"}}
Backend(er) == Chain(er.list)[er.no]
Following(er) == Registration(er.version, er.list, er.no + 1)
HasNext(er) == er.no < Len(Chain(er.list))

(* _parse_events: every registration of a new configuration has the one    *)
(* reference of its predecessor or, the first, that of the configuration.  *)
Parsed(v) == Of(v, "server") \cup Of(v, "mount")
FirstOf(v) == {er \in Parsed(v) : er.no = 1}

Waiting == [at |-> "pop", event |-> 0, list |-> 1, er |-> Nobody, last |-> FALSE]

EventsInit ==
    /\ configLock = [writer |-> Nobody, readers |-> {}]
    /\ version = 1 /\ heads = FirstOf(1)
    /\ refcount = [er \in Reg |-> IF er \in Parsed(1) THEN 1 ELSE 0]
    /\ live = Parsed(1)
    /\ erLock = [er \in Reg |-> Nobody]
    /\ events = <<>> /\ freed = {} /\ queue = <<>> /\ pushed = <<>>
    /\ running = TRUE
    /\ emitter = [t \in Emitters |-> [at |-> "none", event |-> 0]]
    /\ runner = Waiting
    /\ work = [t \in Emitters \cup {Runner} |-> <<>>]
    /\ releasing = {} /\ raced = FALSE
    /\ ran = <<>>

----------------------------------------------------------------------------
(* config_get_config and config_release_config.  The lock prefers readers. *)
MayRead == configLock.writer = Nobody
GetConfig(t) == MayRead /\ configLock' = [configLock EXCEPT !.readers = @ \cup {t}]
ReleaseConfig(t) == configLock' = [configLock EXCEPT !.readers = @ \ {t}]

----------------------------------------------------------------------------
(* Registrations *)

(* event_registration_addref *)
AddRef(er) == erLock[er] = Nobody /\ refcount' = [refcount EXCEPT ![er] = @ + 1]

(* event_registration_release frees a registration with its last reference *)
(* and then releases the next, and so on: the registrations that go.       *)
Dropped(er) ==
    {x \in Of(er.version, er.list) : /\ x.no >= er.no
        /\ \A y \in Of(er.version, er.list) : y.no \in er.no .. x.no => refcount[y] = 1}

(* Mutant: the registrations behind one that is freed are forgotten. *)
ReleasedAlone(er) == {er}

(* The ones whose count goes down, under their locks: also the one that    *)
(* stays.                                                                  *)
Released(er) == {er} \cup {Following(x) : x \in {y \in Dropped(er) : HasNext(y)}}

ReleaseRegistrations(regs) ==
    LET released == UNION {Released(er) : er \in regs}
    IN  /\ \A x \in released : erLock[x] = Nobody
        /\ refcount' = [x \in Reg |-> IF x \in released THEN refcount[x] - 1 ELSE refcount[x]]
        /\ live' = live \ UNION {Dropped(er) : er \in regs}

----------------------------------------------------------------------------
(* event_release, of the first event in work: the count goes down, and     *)
(* with the last reference its registrations are released and then the     *)
(* event that follows it.                                                  *)

ToRelease(t) == Head(work[t])
Other(t) == {x \in releasing : ToRelease(x) = ToRelease(t)}

ReleaseKeeps == UNCHANGED <<lockVars, configVars, queueVars, emitter, runner, ran>>
(* A thread that is not the last may meet another that releases the event. *)
ReleaseBegin(t) ==
    /\ work[t] # <<>> /\ t \notin releasing /\ Other(t) = {}
    /\ events[ToRelease(t)].count > 1
    /\ releasing' = releasing \cup {t}
    /\ UNCHANGED <<regVars, events, freed, work, raced>> /\ ReleaseKeeps

(* Two threads at a time.  The event may be freed twice, or never; what    *)
(* follows is undefined and left out.                                      *)
ReleaseRace(t) ==
    /\ work[t] # <<>> /\ t \notin releasing /\ Other(t) # {}
    /\ raced' = TRUE
    /\ UNCHANGED <<regVars, events, freed, work, releasing>> /\ ReleaseKeeps

ReleaseEnd(t) ==
    LET e == ToRelease(t)
        regs == Range(events[e].reglist)
        last == events[e].count = 1
    IN  /\ work[t] # <<>> /\ (t \in releasing \/ (Other(t) = {} /\ last))
        /\ releasing' = releasing \ {t}
        /\ events' = [events EXCEPT ![e].count = @ - 1,
                        ![e].next = IF last THEN <<>> ELSE @ \o Tail(work[t])]
        /\ IF last THEN ReleaseRegistrations(regs) /\ freed' = freed \cup {e}
           ELSE UNCHANGED <<regVars, freed>>
        /\ work' = [work EXCEPT ![t] = IF last THEN events[e].next \o Tail(@) ELSE <<>>]
        /\ UNCHANGED raced /\ ReleaseKeeps
Release(t) == ReleaseBegin(t) \/ ReleaseRace(t) \/ ReleaseEnd(t)

----------------------------------------------------------------------------
(* event_emit_clientevent *)

EmitterAt(t, l) == emitter' = [emitter EXCEPT ![t].at = l]

(* t is not in the middle of it. *)
Free(t) == emitter[t].at = "none" /\ work[t] = <<>>

(* event_new, and the configuration. *)
EmitStart(t, trigger) ==
    /\ Free(t) /\ GetConfig(t)
    /\ events' = Append(events, [trigger |-> trigger, version |-> version, reglist |-> <<>>,
                                 count |-> 1, next |-> <<>>])
    /\ emitter' = [emitter EXCEPT ![t] = [at |-> "server", event |-> Len(events) + 1]]
    /\ UNCHANGED <<erLock, configVars, regVars, releaseVars, queueVars, runner, ran>>

(* event_push_reglist, for a list that the configuration has. *)
PushReglist(t, list) ==
    LET found == {er \in heads : er.version = version /\ er.list = list}
    IN  IF found = {} THEN UNCHANGED <<events, refcount>>
        ELSE \E er \in found :
               /\ AddRef(er)
               /\ events' = [events EXCEPT ![emitter[t].event].reglist = Append(@, er)]

(* The configuration is released after the last list; an event of the      *)
(* server has no mount.                                                    *)
EmitServer(t) ==
    /\ emitter[t].at = "server" /\ PushReglist(t, "server")
    /\ IF t = Main THEN EmitterAt(t, "push") /\ ReleaseConfig(t)
       ELSE EmitterAt(t, "mount") /\ UNCHANGED configLock
    /\ UNCHANGED <<erLock, configVars, live, releaseVars, queueVars, runner, ran>>
EmitMount(t) ==
    /\ emitter[t].at = "mount" /\ PushReglist(t, "mount")
    /\ EmitterAt(t, "push") /\ ReleaseConfig(t)
    /\ UNCHANGED <<erLock, configVars, live, releaseVars, queueVars, runner, ran>>

(* event_push: is there a place in the queue? *)
Room == Len(queue) < QueueMax

(* event_emit, unless nobody is registered, then the reference of this     *)
(* thread is released.  A full queue leaves no reference.                  *)
EmitPush(t) ==
    LET e == emitter[t].event
    IN  /\ emitter[t].at = "push"
        /\ emitter' = [emitter EXCEPT ![t] = [at |-> "none", event |-> 0]]
        /\ IF events[e].reglist # <<>> /\ Room
           THEN /\ queue' = Append(queue, e) /\ pushed' = Append(pushed, e)
                /\ events' = [events EXCEPT ![e].count = @ + 1]
           ELSE UNCHANGED <<queue, pushed, events>>
        /\ work' = [work EXCEPT ![t] = <<e>>]
        /\ UNCHANGED <<lockVars, configVars, regVars, running, freed, releasing, raced,
                       runner, ran>>

Emit(t) == EmitServer(t) \/ EmitMount(t) \/ EmitPush(t) \/ Release(t)

----------------------------------------------------------------------------
(* event_run_thread *)

RunnerKeeps == UNCHANGED <<configVars, regVars, events, freed, releasing, raced, emitter>>

(* An event, if there is one, and whether to go on after it. *)
Pop ==
    /\ runner.at = "pop" /\ work[Runner] = <<>>
    /\ IF queue # <<>>
       THEN /\ runner' = [Waiting EXCEPT !.at = "lock", !.event = Head(queue), !.last = ~running]
            /\ queue' = Tail(queue)
       ELSE /\ ~running /\ runner' = [runner EXCEPT !.at = "ended"] /\ UNCHANGED queue
    /\ UNCHANGED <<lockVars, pushed, running, work, ran>> /\ RunnerKeeps

(* _try_event, with the registration locked.  The back end "url" goes on   *)
(* to read the configuration; "exec" does so in the new process.           *)
Matches(er, e) == Backend(er).trigger = events[e].trigger
Call(er) == ran' = Append(ran, <<runner.event, er>>)
TryEvent(er) ==
    /\ erLock[er] = Nobody
    /\ erLock' = [x \in Reg |-> IF x = er THEN Runner
                                ELSE IF x = runner.er THEN Nobody ELSE erLock[x]]
    /\ IF ~Matches(er, runner.event)
       THEN runner' = [runner EXCEPT !.at = "next", !.er = er] /\ UNCHANGED ran
       ELSE IF Backend(er).type = "url"
       THEN runner' = [runner EXCEPT !.at = "config", !.er = er] /\ UNCHANGED ran
       ELSE runner' = [runner EXCEPT !.at = "next", !.er = er] /\ Call(er)

(* event_emit_url *)
UrlConfig ==
    /\ runner.at = "config" /\ GetConfig(Runner)
    /\ runner' = [runner EXCEPT !.at = "url"]
    /\ UNCHANGED <<erLock, queueVars, work, ran>> /\ RunnerKeeps
UrlEmit ==
    /\ runner.at = "url" /\ ReleaseConfig(Runner) /\ Call(runner.er)
    /\ runner' = [runner EXCEPT !.at = "next"]
    /\ UNCHANGED <<erLock, queueVars, work>> /\ RunnerKeeps

(* _try_registrations: the first registration of the next list, and each   *)
(* is locked before the one before it is unlocked.                         *)
FirstRegistration ==
    /\ runner.at = "lock" /\ TryEvent(events[runner.event].reglist[runner.list])
    /\ UNCHANGED <<configLock, queueVars, work>> /\ RunnerKeeps
NextRegistration ==
    /\ runner.at = "next" /\ HasNext(runner.er) /\ TryEvent(Following(runner.er))
    /\ UNCHANGED <<configLock, queueVars, work>> /\ RunnerKeeps

(* Mutant: the lists behind the first are forgotten. *)
OneList ==
    /\ runner.at = "next" /\ ~HasNext(runner.er)
    /\ erLock' = [erLock EXCEPT ![runner.er] = Nobody]
    /\ runner' = [Waiting EXCEPT !.at = IF runner.last THEN "ended" ELSE "pop"]
    /\ work' = [work EXCEPT ![Runner] = <<runner.event>>]
    /\ UNCHANGED <<configLock, queueVars, ran>> /\ RunnerKeeps

(* The next list, or the event is done. *)
LastRegistration ==
    LET more == runner.list < Len(events[runner.event].reglist)
    IN  /\ runner.at = "next" /\ ~HasNext(runner.er)
        /\ erLock' = [erLock EXCEPT ![runner.er] = Nobody]
        /\ runner' = IF more THEN [runner EXCEPT !.at = "lock", !.list = @ + 1, !.er = Nobody]
                     ELSE [Waiting EXCEPT !.at = IF runner.last THEN "ended" ELSE "pop"]
        /\ work' = IF more THEN work ELSE [work EXCEPT ![Runner] = <<runner.event>>]
        /\ UNCHANGED <<configLock, queueVars, ran>> /\ RunnerKeeps

RunEvents == Pop \/ FirstRegistration \/ UrlConfig \/ UrlEmit \/ NextRegistration
             \/ LastRegistration \/ Release(Runner)

----------------------------------------------------------------------------
(* event_shutdown, by the main thread.  An event that is emitted later is  *)
(* left in the queue for good.                                             *)
StopEvents ==
    /\ running' = FALSE
    /\ UNCHANGED <<lockVars, configVars, regVars, releaseVars, queue, pushed, events,
                   emitter, runner, ran>>
DropQueue ==
    /\ runner.at = "ended" /\ work[Runner] = <<>>
    /\ work' = [work EXCEPT ![Main] = queue] /\ queue' = <<>>
    /\ UNCHANGED <<lockVars, configVars, regVars, freed, releasing, raced, pushed, running,
                   events, emitter, runner, ran>>

----------------------------------------------------------------------------
(* Properties *)

(* What refers to a registration: the configuration, the one before it,    *)
(* and the events that are not freed.                                      *)
References(er) ==
    Cardinality({h \in heads : h = er})
    + Cardinality({x \in live : HasNext(x) /\ Following(x) = er})
    + Cardinality({e \in DOMAIN events \ freed : er \in Range(events[e].reglist)})

(* A registration of an old configuration lives exactly as long as an      *)
(* event refers to its chain, through reloads, full queues and shutdown,   *)
(* and the event thread never has one that is freed.  Until two threads    *)
(* have released an event at the same time: event->refcount has no lock    *)
(* (event_release), and then registrations are leaked or the event is      *)
(* freed twice.                                                            *)
RegistrationsExact ==
    ~raced =>
        /\ \A er \in Reg : refcount[er] = References(er)
        /\ live = {er \in Reg : refcount[er] > 0}
        /\ runner.er # Nobody => runner.er \in live
        /\ \A e \in Range(queue) : e \notin freed

(* The sequences f[1] to f[n], one after the other. *)
Joined(f, n) ==
    LET join[i \in 0 .. n] == IF i = 0 THEN <<>> ELSE join[i - 1] \o f[i]
    IN  join[n]

(* What an event calls: the registrations for its trigger that were        *)
(* configured when it was emitted, those of the server first.              *)
CalledInChain(e, list) ==
    [n \in DOMAIN Chain(list) |->
        LET er == Registration(events[e].version, list, n)
        IN  IF Matches(er, e) THEN <<<<e, er>>>> ELSE <<>>]
CalledInLists(e) ==
    [i \in DOMAIN events[e].reglist |->
        LET list == events[e].reglist[i].list
        IN  Joined(CalledInChain(e, list), Len(Chain(list)))]
Called(e) == Joined(CalledInLists(e), Len(events[e].reglist))

(* The event thread calls every back end that is configured for an event   *)
(* once and no other, event by event in the order of the queue, even when  *)
(* the configuration is replaced before the event is taken from the queue. *)
CalledInQueue == [i \in DOMAIN pushed |-> Called(pushed[i])]
EventsRun ==
    LET calls == Joined(CalledInQueue, Len(pushed) - Len(queue))
    IN  running => IsPrefix(ran, calls) /\ (runner.at = "pop" => ran = calls)
=============================================================================
