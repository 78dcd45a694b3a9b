------------------------------- MODULE Stats -------------------------------
(***************************************************************************)
(* The statistics (stats.c): any thread queues events about global         *)
(* statistics and those of mounts; the statistics thread applies them to   *)
(* the trees and copies them to the subscribers, each of which is served   *)
(* by a thread of its own.  Whatever is done with _stats_mutex held is one *)
(* step.                                                                   *)
(*                                                                         *)
(* The model begins when the statistics thread has queued the start values *)
(* and they are applied.  One statistic of a mount ("slow", for            *)
(* slow_listeners) and three global ones stand for all: one that is set    *)
(* from a counter under global_lock ("sources"), one that is changed by    *)
(* differences ("listeners") and the number of subscribers ("stats").      *)
(***************************************************************************)
EXTENDS Integers, Sequences, FiniteSets, SequencesExt

CONSTANTS
    Mount,        \* mountpoints
    Subscriber,   \* clients of the statistics stream
    MaxEvents,    \* bound on the things that other threads report
    Global,       \* the source of the global statistics (NULL)
    Null,
    Unknown       \* what a subscriber knows of a value it was not told

VARIABLES
    left,         \* how many things are still reported
    up,           \* what the threads that report know of a mount
    sources,      \* global.sources
    listeners,    \* listeners that were counted and not subtracted
    unsaid,       \* was global.sources changed without an event?
    queue,        \* _global_event_queue
    hand,         \* the event that the statistics thread has taken
    present,      \* the mounts in _stats.source_tree
    value,        \* the value of every statistic in the trees, or Null
    cleared,      \* mounts whose statistics went without an event
    sub,          \* where the thread of a subscriber is
    feed,         \* listener->queue
    told,         \* what the events that a subscriber was sent say
    threads,      \* _stats_threads
    running,      \* _stats_running
    thread        \* the statistics thread and stats_shutdown

worldVars == <<left, up, sources, listeners, unsaid>>
treeVars  == <<present, value, cleared>>
subVars   == <<sub, feed, told>>
vars == <<worldVars, queue, hand, treeVars, subVars, threads, running, thread>>

Key == (Mount \X {"slow"}) \cup ({Global} \X {"sources", "listeners", "stats"})
KeysOf(m) == {k \in Key : k[1] = m}
Nothing == [k \in Key |-> Null]

(* stats_event_t: what to do, with which statistic (the whole mount if it  *)
(* has no name), and the value that came with it.                          *)
Acts == {"set", "inc", "dec", "sub", "remove", "hidden"}
Names == {"slow", "sources", "listeners", "stats"}
EventSet == [act : Acts, source : Mount \cup {Global}, name : Names \cup {Null},
             val : Int \cup {Null}]
Event(act, source, name, val) ==
    [act |-> act, source |-> source, name |-> name, val |-> val]

ASSUME StatsAssumption ==
    /\ IsFiniteSet(Mount) /\ IsFiniteSet(Subscriber) /\ MaxEvents \in Nat
    /\ Global \notin Mount /\ Null \notin Mount \cup Names \cup Int \cup EventSet

Init ==
    /\ left = MaxEvents /\ up = [m \in Mount |-> "off"]
    /\ sources = 0 /\ listeners = 0 /\ unsaid = FALSE
    /\ queue = <<>> /\ hand = Null /\ present = {} /\ cleared = {}
    /\ value = [k \in Key |-> IF k[1] = Global THEN 0 ELSE Null]
    /\ sub = [c \in Subscriber |-> "none"] /\ feed = [c \in Subscriber |-> <<>>]
    /\ told = [c \in Subscriber |-> Nothing] /\ threads = 0
    /\ running = TRUE /\ thread = "loop"

----------------------------------------------------------------------------
(* The threads that report.  queue_global_event takes _global_event_mutex. *)
Report(events) ==
    /\ thread # "freed" /\ left > 0 /\ left' = left - 1
    /\ queue' = queue \o events
    /\ UNCHANGED <<hand, present, value, cleared, subVars, threads, running, thread>>

(* connection_complete_source: the counter and its event change together,  *)
(* with global_lock held.                                                  *)
SourceUp(m) ==
    /\ up[m] = "off" /\ up' = [up EXCEPT ![m] = "up"]
    /\ sources' = sources + 1 /\ unsaid' = FALSE
    /\ Report(<<Event("set", Global, "sources", sources + 1)>>)
    /\ UNCHANGED listeners

(* source_shutdown: the statistics of the mount are removed, and later the *)
(* counter is decremented and the source freed.                            *)
SourceEnds(m) ==
    /\ up[m] = "up" /\ up' = [up EXCEPT ![m] = "ending"]
    /\ Report(<<Event("remove", m, Null, Null)>>)
    /\ UNCHANGED <<sources, listeners, unsaid>>

(* Mutant: the event tells of the counter before it is decremented. *)
SourceDownEarly(m) ==
    /\ up[m] = "ending" /\ up' = [up EXCEPT ![m] = "off"]
    /\ sources' = sources - 1 /\ unsaid' = FALSE
    /\ Report(<<Event("set", Global, "sources", sources)>>)
    /\ UNCHANGED listeners
SourceDown(m) ==
    /\ up[m] = "ending" /\ up' = [up EXCEPT ![m] = "off"]
    /\ sources' = sources - 1 /\ unsaid' = FALSE
    /\ Report(<<Event("set", Global, "sources", sources - 1)>>)
    /\ UNCHANGED listeners

(* source_client_callback: a source that is lost before it started is      *)
(* uncounted without an event.                                             *)
SourceLost(m) ==
    /\ up[m] = "up" /\ up' = [up EXCEPT ![m] = "off"]
    /\ sources' = sources - 1 /\ unsaid' = TRUE
    /\ Report(<<>>) /\ UNCHANGED listeners

(* What is reported of a mount while its source exists, by its own thread  *)
(* and by others: values, increments, removals of a value, whether it is   *)
(* hidden and, by source_recheck_mounts before it runs, its removal.       *)
MountEvents(m) == {Event("set", m, "slow", 0), Event("inc", m, "slow", Null),
                   Event("remove", m, "slow", Null), Event("hidden", m, Null, Null),
                   Event("remove", m, Null, Null)}
MountReports(m) ==
    /\ up[m] # "off" /\ (\E e \in MountEvents(m) : Report(<<e>>))
    /\ UNCHANGED <<up, sources, listeners, unsaid>>

(* source_recheck_mounts for a mount without a source: it is shown with    *)
(* start values if it has a fallback, and removed otherwise.               *)
VirtualMount(m) ==
    /\ up[m] = "off"
    /\ \/ Report(<<Event("hidden", m, Null, Null), Event("set", m, "slow", 0)>>)
       \/ Report(<<Event("remove", m, Null, Null)>>)
    /\ UNCHANGED <<up, sources, listeners, unsaid>>

(* Listeners come and go one by one and, in source_clear_source, together. *)
ListenerUp ==
    /\ listeners' = listeners + 1
    /\ Report(<<Event("inc", Global, "listeners", Null)>>)
    /\ UNCHANGED <<up, sources, unsaid>>
ListenerDown ==
    /\ listeners > 0 /\ listeners' = listeners - 1
    /\ Report(<<Event("dec", Global, "listeners", Null)>>)
    /\ UNCHANGED <<up, sources, unsaid>>
ListenersDown ==
    /\ listeners > 0 /\ listeners' = 0
    /\ Report(<<Event("sub", Global, "listeners", listeners)>>)
    /\ UNCHANGED <<up, sources, unsaid>>

----------------------------------------------------------------------------
(* The statistics thread *)

(* Mutant: the last event stays in the queue. *)
TakeEventWaits ==
    /\ thread = "loop" /\ running /\ hand = Null /\ Len(queue) > 1
    /\ hand' = Head(queue) /\ queue' = Tail(queue)
    /\ UNCHANGED <<worldVars, treeVars, subVars, threads, running, thread>>
TakeEvent ==
    /\ thread = "loop" /\ running /\ hand = Null /\ queue # <<>>
    /\ hand' = Head(queue) /\ queue' = Tail(queue)
    /\ UNCHANGED <<worldVars, treeVars, subVars, threads, running, thread>>

(* modify_node_event, the value that a statistic has afterwards. *)
Modified(e) ==
    LET old == value[<<e.source, e.name>>]
    IN  CASE e.act = "set" -> e.val
          [] e.act = "inc" -> IF old = Null THEN Null ELSE old + 1
          [] e.act = "dec" -> old - 1
          [] e.act = "sub" -> old - e.val
          [] e.act = "remove" -> Null

(* process_global_event, process_source_event: a mount appears with the    *)
(* first event about it that is no removal, a statistic with its first     *)
(* value.                                                                  *)
IsRemoval(e) == e.act = "remove" /\ e.name = Null
PresentAfter(e) ==
    IF e.source = Global THEN present
    ELSE IF IsRemoval(e) THEN present \ {e.source}
    ELSE IF e.act = "remove" THEN present
    ELSE present \cup {e.source}
ValueAfter(e) ==
    IF IsRemoval(e)
    THEN [k \in Key |-> IF k[1] = e.source THEN Null ELSE value[k]]
    ELSE IF e.act = "hidden" THEN value
    ELSE [value EXCEPT ![<<e.source, e.name>>] = Modified(e)]

(* Mutant: the event is copied as it came. *)
CopiedAsIs(e) == e
(* The copy for a subscriber: an increment or a decrement carries the new  *)
(* value, which modify_node_event puts into an event without one.          *)
Copied(e) ==
    IF e.val = Null /\ e.act \in {"inc", "dec"} THEN [e EXCEPT !.val = Modified(e)]
    ELSE e
ProcessEvent ==
    /\ thread = "loop" /\ hand # Null
    /\ present' = PresentAfter(hand) /\ value' = ValueAfter(hand)
    /\ cleared' = IF IsRemoval(hand) THEN cleared \ {hand.source} ELSE cleared
    /\ feed' = [c \in Subscriber |-> IF sub[c] = "on" THEN Append(feed[c], Copied(hand))
                                     ELSE feed[c]]
    /\ hand' = Null
    /\ UNCHANGED <<worldVars, queue, sub, told, threads, running, thread>>

(* stats_clear_virtual_mounts, by a thread that holds the source tree. *)
ClearVirtual ==
    LET gone == {m \in present : up[m] = "off"}
    IN  /\ thread # "freed" /\ gone # {}
        /\ present' = present \ gone /\ cleared' = cleared \cup gone
        /\ value' = [k \in Key |-> IF k[1] \in gone THEN Null ELSE value[k]]
        /\ UNCHANGED <<worldVars, queue, hand, subVars, threads, running, thread>>

----------------------------------------------------------------------------
(* The thread of a subscriber, stats_connection *)

SubGoto(c, p) == sub' = [sub EXCEPT ![c] = p]

Subscribe(c) ==
    /\ sub[c] = "none" /\ thread # "freed" /\ SubGoto(c, "new")
    /\ UNCHANGED <<worldVars, queue, hand, treeVars, feed, told, threads, running,
                   thread>>

(* The threads are counted, and the number reported, under _stats_mutex. *)
CountThread(c) ==
    /\ sub[c] = "new" /\ thread # "freed" /\ SubGoto(c, "counted")
    /\ threads' = threads + 1
    /\ queue' = Append(queue, Event("set", Global, "stats", threads + 1))
    /\ UNCHANGED <<worldVars, hand, treeVars, feed, told, running, thread>>

(* _register_listener: the values of all statistics are queued and the     *)
(* queue registered in one step.                                           *)
Snapshot == SetToSeq({Event("set", k[1], k[2], value[k]) :
                          k \in {k \in Key : value[k] # Null}})
Register(c) ==
    /\ sub[c] = "counted" /\ SubGoto(c, "on")
    /\ feed' = [feed EXCEPT ![c] = Snapshot] /\ told' = [told EXCEPT ![c] = Nothing]
    /\ UNCHANGED <<worldVars, queue, hand, treeVars, threads, running, thread>>

(* What the line "EVENT source name value" tells: a value or that there is *)
(* none; without a name, that the mount is gone.  (One that is no longer   *)
(* hidden is told in the same words; the model tells them apart.)  A       *)
(* subtraction is told by its difference, which is not the value.          *)
Heard(known, e) ==
    IF IsRemoval(e) THEN [k \in Key |-> IF k[1] = e.source THEN Null ELSE known[k]]
    ELSE IF e.act = "hidden" THEN known
    ELSE [known EXCEPT ![<<e.source, e.name>>] = IF e.act = "sub" THEN Unknown ELSE e.val]

(* Mutant: only an error ends the loop. *)
LeaveLoopOnError(c) ==
    /\ sub[c] = "on" /\ running /\ feed[c] # <<>> /\ SubGoto(c, "leaving")
    /\ UNCHANGED <<worldVars, queue, hand, treeVars, feed, told, threads, running, thread>>

(* An event is sent, or cannot be sent.  (_send_event_to_client leaves out *)
(* a line of 200 characters or more; names and values here are short.)     *)
Send(c) ==
    /\ sub[c] = "on" /\ running /\ feed[c] # <<>>
    /\ told' = [told EXCEPT ![c] = Heard(told[c], Head(feed[c]))]
    /\ feed' = [feed EXCEPT ![c] = Tail(feed[c])]
    /\ UNCHANGED <<worldVars, queue, hand, treeVars, sub, threads, running, thread>>
LeaveLoop(c) ==
    /\ sub[c] = "on" /\ (~running \/ feed[c] # <<>>) /\ SubGoto(c, "leaving")
    /\ UNCHANGED <<worldVars, queue, hand, treeVars, feed, told, threads, running, thread>>

Unregister(c) ==
    /\ sub[c] = "leaving" /\ SubGoto(c, "gone") /\ threads' = threads - 1
    /\ queue' = Append(queue, Event("set", Global, "stats", threads - 1))
    /\ feed' = [feed EXCEPT ![c] = <<>>] /\ told' = [told EXCEPT ![c] = Nothing]
    /\ UNCHANGED <<worldVars, hand, treeVars, running, thread>>

----------------------------------------------------------------------------
(* stats_shutdown: the statistics thread is joined, then the threads of    *)
(* the subscribers are waited for, by their number; a thread that has been *)
(* created and did not count itself yet is not waited for, and what it     *)
(* then does is not defined.                                               *)
Shutdown ==
    /\ running /\ running' = FALSE
    /\ UNCHANGED <<worldVars, queue, hand, treeVars, subVars, threads, thread>>
ThreadEnds ==
    /\ thread = "loop" /\ ~running /\ hand = Null /\ thread' = "gone"
    /\ UNCHANGED <<worldVars, queue, hand, treeVars, subVars, threads, running>>

AllGone == threads = 0
Free ==
    /\ thread = "gone" /\ AllGone /\ thread' = "freed" /\ queue' = <<>>
    /\ UNCHANGED <<worldVars, hand, treeVars, subVars, threads, running>>

----------------------------------------------------------------------------
StatsThread == TakeEvent \/ ProcessEvent \/ ThreadEnds
SubThread(c) == CountThread(c) \/ Register(c) \/ Send(c) \/ LeaveLoop(c) \/ Unregister(c)
Next ==
    \/ \E m \in Mount : \/ SourceUp(m) \/ SourceEnds(m) \/ SourceDown(m) \/ SourceLost(m)
                        \/ MountReports(m) \/ VirtualMount(m)
    \/ ListenerUp \/ ListenerDown \/ ListenersDown
    \/ StatsThread \/ ClearVirtual
    \/ \E c \in Subscriber : Subscribe(c) \/ SubThread(c)
    \/ Shutdown \/ Free

Spec == Init /\ [][Next]_vars

(* The threads run; a subscriber's socket takes its event or fails. *)
FairSpec ==
    /\ Spec /\ WF_vars(StatsThread) /\ WF_vars(Free)
    /\ \A c \in Subscriber : WF_vars(SubThread(c))

----------------------------------------------------------------------------
(* Properties *)

(* The events that threads report. *)
Reported ==
    [act : {"set", "sub"}, source : {Global}, name : Names \ {"slow"}, val : Int]
    \cup [act : {"inc", "dec"}, source : {Global}, name : Names \ {"slow"}, val : {Null}]
    \cup [act : {"set"}, source : Mount, name : {"slow"}, val : Int]
    \cup [act : {"inc", "remove"}, source : Mount, name : {"slow"}, val : {Null}]
    \cup [act : {"remove", "hidden"}, source : Mount, name : {Null}, val : {Null}]

(* Every variable has its type, and only mounts in the tree have values. *)
Knowledge == [Key -> Int \cup {Null, Unknown}]
TypeOK ==
    /\ left \in 0 .. MaxEvents /\ up \in [Mount -> {"off", "up", "ending"}]
    /\ sources \in Nat /\ listeners \in Nat /\ unsaid \in BOOLEAN
    /\ queue \in Seq(Reported) /\ hand \in Reported \cup {Null}
    /\ present \subseteq Mount /\ cleared \subseteq Mount
    /\ value \in [Key -> Int \cup {Null}]
    /\ \A k \in Key : value[k] = Null => k[1] # Global
    /\ \A k \in Key : k[1] # Global /\ value[k] # Null => k[1] \in present
    /\ sub \in [Subscriber -> {"none", "new", "counted", "on", "leaving", "gone"}]
    /\ feed \in [Subscriber -> Seq(EventSet)]
    /\ told \in [Subscriber -> Knowledge]
    /\ threads \in Nat /\ running \in BOOLEAN /\ thread \in {"loop", "gone", "freed"}

(* What v becomes when the events of w are applied to it in turn; step     *)
(* says what an event does.                                                *)
InTurn(step, v, w) ==
    LET after[i \in 0 .. Len(w)] == IF i = 0 THEN v ELSE step[w[i]][after[i - 1]]
    IN  after[Len(w)]

(* What a global statistic will be when all queued events are applied. *)
Waiting == (IF hand = Null THEN <<>> ELSE <<hand>>) \o queue
Applied(name) ==
    [e \in Reported |-> [v \in Int |->
        IF <<e.source, e.name>> # <<Global, name>> THEN v
        ELSE CASE e.act = "set" -> e.val
               [] e.act = "inc" -> v + 1
               [] e.act = "dec" -> v - 1
               [] e.act = "sub" -> v - e.val]]
Coming(name) == InTurn(Applied(name), value[<<Global, name>>], Waiting)

(* No update is lost or overtaken: with the events under way, the          *)
(* statistics are the counters they are taken from, however many threads   *)
(* change and report them at once.                                         *)
CountersExact ==
    thread # "freed" => /\ Coming("stats") = threads
                        /\ Coming("listeners") = listeners
                        /\ unsaid \/ Coming("sources") = sources

(* "copies all stats to queue, and registers the queue for all new events  *)
(* atomically": what a subscriber knows once it has read its queue is what *)
(* the trees hold, except for a value changed by a subtraction and a mount *)
(* cleared without an event.                                               *)
Hearing == [e \in EventSet |-> [known \in Knowledge |-> Heard(known, e)]]
ToldIsTrue ==
    \A c \in Subscriber : sub[c] = "on" =>
        LET known == InTurn(Hearing, told[c], feed[c])
        IN  \A k \in Key : known[k] \in {value[k], Unknown} \/ k[1] \in cleared

(* Events are applied in the end: the statistic of the sources catches up  *)
(* with the counter.                                                       *)
Behind == sources # value[<<Global, "sources">>] /\ ~unsaid /\ running
CatchesUp == Behind ~> ~Behind

(* stats_shutdown returns. *)
ShutdownEnds == ~running ~> thread = "freed"
=============================================================================
