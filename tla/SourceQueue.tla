---------------------------- MODULE SourceQueue ----------------------------
(***************************************************************************)
(* The stream queue of ONE source: the loop of source_main, which appends  *)
(* the source's data to a queue of reference counted buffers, lets every   *)
(* listener read from its own place in that queue, throws out listeners    *)
(* that fall too far behind and frees what nobody needs any more           *)
(* (source.c, format.c, refbuf.c, client_set_queue of client.c).           *)
(*                                                                         *)
(* Buffers are numbered 1, 2, 3, ... in the order they are appended, so    *)
(* the linked list stream_data .. stream_data_tail is head .. tail and the *)
(* "next" of a linked buffer b is b + 1.  Lengths are kept as cumulative   *)
(* byte offsets.  0 stands for NULL.                                       *)
(***************************************************************************)
EXTENDS Integers, FiniteSets, FiniteSetsExt

CONSTANTS
    Listeners,     \* the listening clients
    MaxBuffers,    \* bound on the buffers of one stream
    Lens,          \* the lengths a buffer can have
    IntroLen,      \* length of the intro file, 0 when there is none
    Settings,      \* the configurations: [burst, limit] in bytes
    SendLoop,      \* iterations of send_to_listener for one client (10)
    MaxListeners,  \* max_listeners, -1 for unlimited
    SizeMod        \* number of values of a size_t

ASSUME ListenersFinite == IsFiniteSet(Listeners)
ASSUME BoundsAreNat ==
    /\ MaxBuffers \in Nat /\ IntroLen \in Nat
    /\ SendLoop \in Nat \ {0} /\ SizeMod \in Nat \ {0}
    /\ MaxListeners \in Nat \cup {-1}
ASSUME LensPositive == Lens \subseteq Nat \ {0}
ASSUME SettingsAreSizes == Settings \subseteq [burst : Nat, limit : Nat]

VARIABLES
    pc,            \* where the source thread is in source_main
    running,       \* source->running
    head,          \* source->stream_data
    tail,          \* source->stream_data_tail
    burst,         \* source->burst_point
    end,           \* end[b]: bytes appended up to and including buffer b
    sync,          \* the buffers with sync_point set
    count,         \* refbuf->_count of every buffer, 0 once freed
    queueSize,     \* source->queue_size
    burstOffset,   \* source->burst_offset
    setting,       \* source->burst_size and source->queue_size_limit
    removeFromQ,   \* remove_from_q of the current iteration
    pending,       \* source->pending_tree
    tree,          \* source->client_tree
    todo,          \* clients of the tree not yet visited in this iteration
    mode,          \* check_buffer and refbuf of each client, see Modes
    cursor,        \* client->refbuf when it is a buffer of the queue
    done,          \* client->pos = refbuf->len on that buffer
    intro          \* client->intro_offset

queueVars  == <<head, tail, burst, end, sync, count, queueSize, burstOffset>>
clientVars == <<mode, cursor, done, intro>>
vars == <<pc, running, queueVars, setting, removeFromQ, pending, tree, todo,
          clientVars>>

(* "none": not with this source; "http": format_check_http_buffer on a     *)
(* private header buffer; "file": format_check_file_buffer on a private    *)
(* buffer; "moved": format_check_file_buffer with refbuf = NULL;           *)
(* "queue": format_advance_queue.                                          *)
Modes == {"none", "http", "file", "moved", "queue"}

Buffers == 1 .. tail
Linked  == IF head = 0 THEN {} ELSE head .. tail
Length(b) == end[b] - end[b - 1]
NoSetting == [burst |-> 0, limit |-> 0]

Init ==
    /\ pc = "off" /\ running = FALSE
    /\ head = 0 /\ tail = 0 /\ burst = 0
    /\ end = [b \in {0} |-> 0] /\ sync = {} /\ count = [b \in {} |-> 0]
    /\ queueSize = 0 /\ burstOffset = 0
    /\ setting = NoSetting /\ removeFromQ = FALSE
    /\ pending = {} /\ tree = {} /\ todo = {}
    /\ mode = [c \in Listeners |-> "none"]
    /\ cursor = [c \in Listeners |-> 0]
    /\ done = [c \in Listeners |-> FALSE]
    /\ intro = [c \in Listeners |-> -1]

----------------------------------------------------------------------------
(* The other threads.  The pending tree is write locked by the source      *)
(* thread while it serves the listeners, the client tree until the queue   *)
(* has been trimmed.                                                       *)
PendingFree == pc # "serve"
TreesFree   == pc \notin {"serve", "trim"}

(* __add_listener_to_source: a GET request puts its client in the pending  *)
(* tree, whatever has become of the source since it was looked up.         *)
AddListener(c) ==
    /\ PendingFree /\ mode[c] = "none"
    /\ pending' = pending \cup {c}
    /\ mode' = [mode EXCEPT ![c] = "http"]
    /\ UNCHANGED <<pc, running, queueVars, setting, removeFromQ, tree, todo,
                   cursor, done, intro>>

(* source_move_clients with this source as the destination; i is what the  *)
(* client's intro_offset is after its time on the other source.            *)
MoveIn(c, i) ==
    /\ PendingFree /\ mode[c] = "none"
    /\ pending' = pending \cup {c}
    /\ mode' = [mode EXCEPT ![c] = "moved"]
    /\ intro' = [intro EXCEPT ![c] = i]
    /\ UNCHANGED <<pc, running, queueVars, setting, removeFromQ, tree, todo,
                   cursor, done>>

(* The references that the clients in S hold on buffer b. *)
HeldBy(S, b) == Cardinality({c \in S : cursor[c] = b})

(* Mutant: the buffers of the clients that leave are not released. *)
LeaveAllKeepsRefs ==
    /\ cursor' = [c \in Listeners |-> 0]
    /\ done' = [c \in Listeners |-> FALSE]
    /\ mode' = [c \in Listeners |-> "none"]
    /\ intro' = [c \in Listeners |-> -1]
    /\ pending' = {} /\ tree' = {}
    /\ UNCHANGED count

(* The clients of both trees leave for another source: those not sending   *)
(* headers give up their buffer (client_set_queue with NULL).              *)
LeaveAll ==
    /\ count' = [b \in Buffers |-> count[b] - HeldBy(Listeners, b)]
    /\ cursor' = [c \in Listeners |-> 0]
    /\ done' = [c \in Listeners |-> FALSE]
    /\ mode' = [c \in Listeners |-> "none"]
    /\ intro' = [c \in Listeners |-> -1]
    /\ pending' = {} /\ tree' = {}

(* source_move_clients with this source as the origin, called by another   *)
(* thread (admin request, or a returning source with fallback_override).   *)
MoveOut ==
    /\ TreesFree /\ pc # "off" /\ pending \cup tree # {}
    /\ LeaveAll
    /\ UNCHANGED <<pc, running, head, tail, burst, end, sync, queueSize,
                   burstOffset, setting, removeFromQ, todo>>

(* source_update_settings after a configuration reload. *)
Reload ==
    /\ pc # "off"
    /\ \E s \in Settings \ {setting} : setting' = s
    /\ UNCHANGED <<pc, running, queueVars, removeFromQ, pending, tree, todo,
                   clientVars>>

(* running is cleared by another thread: an admin request, the end of a    *)
(* relay, the last listener of an on-demand relay, a server shutdown.      *)
Stop ==
    /\ running
    /\ running' = FALSE
    /\ UNCHANGED <<pc, queueVars, setting, removeFromQ, pending, tree, todo,
                   clientVars>>

----------------------------------------------------------------------------
(* The source thread. *)

(* source_init, after connection_complete_source applied the settings. *)
Start ==
    /\ pc = "off"
    /\ pc' = "read" /\ running' = TRUE
    /\ setting' \in Settings
    /\ UNCHANGED <<queueVars, removeFromQ, pending, tree, todo, clientVars>>

(* Mutant: the burst point stops one buffer too early. *)
BurstStopEarly(from, to, ends, size) ==
    Min({to} \cup {b \in from .. to : ends[to] - ends[b] <= size})

(* Where the loop over burst_point stops: the first buffer from b on at    *)
(* which either burst_offset fits burst_size or there is no next buffer.   *)
BurstStop(from, to, ends, size) ==
    Min({to} \cup {b \in from .. to : ends[to] - ends[b - 1] <= size})

(* Mutant: no reference is taken for the burst. *)
AppendOneRef(len, isSync) ==
    LET t == tail + 1
    IN  /\ tail' = t
        /\ head' = IF head = 0 THEN t ELSE head
        /\ end' = [b \in 0 .. t |-> IF b = t THEN end[tail] + len ELSE end[b]]
        /\ sync' = IF isSync THEN sync \cup {t} ELSE sync
        /\ queueSize' = queueSize + len
        /\ burst' = IF head = 0 THEN t ELSE burst
        /\ burstOffset' = burstOffset + len
        /\ count' = [b \in 1 .. t |-> IF b = t THEN 1 ELSE count[b]]

(* A buffer is linked at the tail with two references, one for the queue   *)
(* and one for the burst; the references of the buffers the burst point    *)
(* moves past are released.                                                *)
AppendBuffer(len, isSync) ==
    LET t == tail + 1
        from == IF head = 0 THEN t ELSE burst
        ends == [b \in 0 .. t |-> IF b = t THEN end[tail] + len ELSE end[b]]
        to == BurstStop(from, t, ends, setting.burst)
    IN  /\ tail' = t
        /\ head' = IF head = 0 THEN t ELSE head
        /\ end' = ends
        /\ sync' = IF isSync THEN sync \cup {t} ELSE sync
        /\ queueSize' = queueSize + len
        /\ burst' = to
        /\ burstOffset' = burstOffset + len - (ends[to - 1] - ends[from - 1])
        /\ count' = [b \in 1 .. t |->
                        (IF b = t THEN 2 ELSE count[b])
                        - (IF b \in from .. (to - 1) THEN 1 ELSE 0)]

(* get_next_buffer returns data; at the end of the stream the last buffer  *)
(* comes with running already cleared.                                     *)
ReadBuffer ==
    /\ pc = "read" /\ running /\ tail < MaxBuffers
    /\ pc' = "check"
    /\ running' \in BOOLEAN
    /\ \E len \in Lens, isSync \in BOOLEAN : AppendBuffer(len, isSync)
    /\ UNCHANGED <<setting, removeFromQ, pending, tree, todo, clientVars>>

(* get_next_buffer returns NULL: no data yet, a timeout or a socket error, *)
(* or the source was stopped meanwhile.                                    *)
ReadNothing ==
    /\ pc = "read"
    /\ pc' = "check"
    /\ running' \in {running, FALSE}
    /\ UNCHANGED <<queueVars, setting, removeFromQ, pending, tree, todo,
                   clientVars>>

(* remove_from_q is decided, then both trees are locked. *)
CheckLimit ==
    /\ pc = "check"
    /\ pc' = "serve"
    /\ removeFromQ' = (queueSize > setting.limit)
    /\ todo' = tree
    /\ UNCHANGED <<running, queueVars, setting, pending, tree, clientVars>>

(* client_set_queue: client c swaps its reference for one on buffer b. *)
SetQueue(c, b) ==
    /\ count' = [x \in Buffers |-> count[x] + (IF x = b THEN 1 ELSE 0)
                                            - (IF x = cursor[c] THEN 1 ELSE 0)]
    /\ cursor' = [cursor EXCEPT ![c] = b]

(* find_client_start: the size_t left to skip when the walk from the burst *)
(* point stands at b, the buffer where that walk ends, and the first sync  *)
(* point from there on, 0 if there is none.                                *)
SizeLeft(i, b) == (i - (end[b - 1] - end[burst - 1])) % SizeMod
WalkEnd(i) ==
    IF i = -1 /\ tail \in sync THEN tail
    ELSE Min({tail} \cup {b \in burst .. tail : SizeLeft(i, b) = 0})
ClientStart(i) ==
    LET found == {b \in sync : WalkEnd(i) <= b}
    IN  IF tail = 0 \/ found = {} THEN 0 ELSE Min(found)

(* The client's connection failed, its time is up, its headers could not   *)
(* be prepared, or it is too slow: it is deleted from the client tree and  *)
(* its buffer released.                                                    *)
RemoveClient(c) ==
    /\ SetQueue(c, 0)
    /\ mode' = [mode EXCEPT ![c] = "none"]
    /\ done' = [done EXCEPT ![c] = FALSE]
    /\ intro' = [intro EXCEPT ![c] = -1]
    /\ tree' = tree \ {c}

(* Mutant: no client is too slow. *)
SettleSlow(c, b, isDone) ==
    /\ SetQueue(c, b)
    /\ mode' = [mode EXCEPT ![c] = "queue"]
    /\ done' = [done EXCEPT ![c] = isDone]
    /\ intro' = [intro EXCEPT ![c] = -1]
    /\ UNCHANGED tree

(* The end of send_to_listener for a client whose refbuf is buffer b of    *)
(* the queue: on the head of a queue about to be cut it is too slow.       *)
Settle(c, b, isDone) ==
    IF removeFromQ /\ b = head THEN RemoveClient(c)
    ELSE /\ SetQueue(c, b)
         /\ mode' = [mode EXCEPT ![c] = "queue"]
         /\ done' = [done EXCEPT ![c] = isDone]
         /\ intro' = [intro EXCEPT ![c] = -1]
         /\ UNCHANGED tree

(* The client looks for its place in the queue with intro_offset i. *)
FindStart(c, i) ==
    IF ClientStart(i) # 0 THEN Settle(c, ClientStart(i), FALSE)
    ELSE /\ mode' = [mode EXCEPT ![c] = "moved"]
         /\ intro' = [intro EXCEPT ![c] = i]
         /\ UNCHANGED <<count, cursor, done, tree>>

(* format_check_http_buffer: once the headers are out, the intro is next. *)
SendHeaders(c) ==
    /\ mode[c] = "http"
    /\ \E sent \in BOOLEAN :
          /\ mode' = [mode EXCEPT ![c] = IF sent THEN "file" ELSE "http"]
          /\ intro' = [intro EXCEPT ![c] = IF sent THEN 0 ELSE intro[c]]
    /\ UNCHANGED <<count, cursor, done, tree>>

(* format_check_file_buffer: part of the intro is sent; at its end the     *)
(* client joins the queue, or plays the intro again if there is no queue.  *)
SendIntro(c) ==
    /\ mode[c] = "file"
    /\ \E i \in intro[c] .. IntroLen :
          /\ intro' = [intro EXCEPT ![c] = i]
          /\ UNCHANGED <<mode, count, cursor, done, tree>>
IntroEnds(c) ==
    /\ mode[c] = "file"
    /\ IF tail # 0 THEN FindStart(c, IntroLen)
       ELSE /\ intro' = [intro EXCEPT ![c] = 0]
            /\ UNCHANGED <<mode, count, cursor, done, tree>>
SendMoved(c) == mode[c] = "moved" /\ FindStart(c, intro[c])

(* format_advance_queue and the write, up to SendLoop times: a client that *)
(* has finished its buffer goes on to the next one, if there is one.       *)
SendQueue(c) ==
    /\ mode[c] = "queue"
    /\ \E b \in cursor[c] .. tail, isDone \in BOOLEAN :
          /\ b - cursor[c] <= SendLoop - (IF done[c] THEN 0 ELSE 1)
          /\ done[c] /\ cursor[c] < tail => b > cursor[c]
          /\ done[c] /\ b = cursor[c] => isDone
          /\ Settle(c, b, isDone)

SendError(c) == RemoveClient(c)

(* One client of the client tree: send_to_listener and, on an error, its   *)
(* removal.                                                                *)
Serve(c) ==
    /\ pc = "serve" /\ c \in todo
    /\ todo' = todo \ {c}
    /\ \/ SendHeaders(c)
       \/ SendIntro(c)
       \/ IntroEnds(c)
       \/ SendMoved(c)
       \/ SendQueue(c)
       \/ SendError(c)
    /\ UNCHANGED <<pc, running, head, tail, burst, end, sync, queueSize,
                   burstOffset, setting, removeFromQ, pending>>

(* The pending clients join the client tree, as many as max_listeners      *)
(* allows; the others are dropped.  The pending tree is unlocked.          *)
Room == IF MaxListeners = -1 THEN Cardinality(pending)
        ELSE Max({0, MaxListeners - Cardinality(tree)})
AdmitPending ==
    /\ pc = "serve" /\ todo = {}
    /\ pc' = "trim"
    /\ \E K \in SUBSET pending :
          /\ Cardinality(K) = Min({Cardinality(pending), Room})
          /\ tree' = tree \cup K
          /\ mode' = [c \in Listeners |->
                        IF c \in pending \ K THEN "none" ELSE mode[c]]
          /\ intro' = [c \in Listeners |->
                        IF c \in pending \ K THEN -1 ELSE intro[c]]
    /\ pending' = {}
    /\ UNCHANGED <<running, queueVars, setting, removeFromQ, todo, cursor,
                   done>>

(* Mutant: a buffer that one listener reads is taken for unused. *)
InUseByTwo(b) == count[b] > 2

(* Buffers whose only reference is the queue's are cut from the head, up   *)
(* to the first one that is in use; "queue state is unexpected" if that is *)
(* the burst point or the last buffer.  The loop ends when running is 0.   *)
InUse(b) == count[b] # 1
LastStop(b) == b = burst \/ b = tail
TrimStop == Min({b \in Linked : InUse(b) \/ LastStop(b)})
TrimQueue ==
    /\ pc = "trim"
    /\ IF head = 0 THEN UNCHANGED <<running, head, queueSize, count>>
       ELSE /\ head' = TrimStop
            /\ queueSize' = queueSize - (end[TrimStop - 1] - end[head - 1])
            /\ count' = [b \in Buffers |->
                            IF b \in head .. (TrimStop - 1) THEN 0 ELSE count[b]]
            /\ running' = (running /\ InUse(TrimStop))
    /\ pc' = IF running' THEN "read" ELSE "shutdown"
    /\ UNCHANGED <<tail, burst, end, sync, burstOffset, setting, removeFromQ,
                   pending, tree, todo, clientVars>>

(* source_shutdown with a fallback that takes the listeners. *)
Fallback ==
    /\ pc = "shutdown"
    /\ pc' = "clear"
    /\ LeaveAll
    /\ UNCHANGED <<running, head, tail, burst, end, sync, queueSize,
                   burstOffset, setting, removeFromQ, todo>>
NoFallback ==
    /\ pc = "shutdown"
    /\ pc' = "clear"
    /\ UNCHANGED <<running, queueVars, setting, removeFromQ, pending, tree,
                   todo, clientVars>>

(* Mutant: burst_offset is not reset. *)
ClearSourceKeepsOffset ==
    /\ pc = "clear"
    /\ pc' = "off"
    /\ head' = 0 /\ tail' = 0 /\ burst' = 0
    /\ end' = [b \in {0} |-> 0] /\ sync' = {} /\ count' = [b \in {} |-> 0]
    /\ queueSize' = 0 /\ setting' = NoSetting
    /\ removeFromQ' = FALSE
    /\ pending' = {} /\ tree' = {} /\ todo' = {}
    /\ cursor' = [c \in Listeners |-> 0]
    /\ done' = [c \in Listeners |-> FALSE]
    /\ mode' = [c \in Listeners |-> "none"]
    /\ intro' = [c \in Listeners |-> -1]
    /\ UNCHANGED <<running, burstOffset>>

(* source_clear_source: everybody still here is dropped and the queue is   *)
(* freed whatever its reference counts say.                                *)
ClearSource ==
    /\ pc = "clear"
    /\ pc' = "off"
    /\ head' = 0 /\ tail' = 0 /\ burst' = 0
    /\ end' = [b \in {0} |-> 0] /\ sync' = {} /\ count' = [b \in {} |-> 0]
    /\ queueSize' = 0 /\ burstOffset' = 0 /\ setting' = NoSetting
    /\ removeFromQ' = FALSE
    /\ pending' = {} /\ tree' = {} /\ todo' = {}
    /\ cursor' = [c \in Listeners |->
                    IF c \in tree \cup pending THEN 0 ELSE cursor[c]]
    /\ done' = [c \in Listeners |-> FALSE]
    /\ mode' = [c \in Listeners |-> "none"]
    /\ intro' = [c \in Listeners |-> -1]
    /\ UNCHANGED running

SourceThread ==
    \/ ReadBuffer \/ ReadNothing \/ CheckLimit
    \/ \E c \in Listeners : Serve(c)
    \/ AdmitPending \/ TrimQueue \/ Fallback \/ NoFallback \/ ClearSource

Next ==
    \/ Start
    \/ SourceThread
    \/ \E c \in Listeners : AddListener(c)
    \/ \E c \in Listeners, i \in -1 .. IntroLen : MoveIn(c, i)
    \/ MoveOut \/ Reload \/ Stop

Spec == Init /\ [][Next]_vars

----------------------------------------------------------------------------
(* Properties *)

(* Every variable has its type; the queue's buffers have increasing        *)
(* cumulative offsets and a listener is in at most one of the two trees.   *)
TypeOK ==
    /\ pc \in {"off", "read", "check", "serve", "trim", "shutdown", "clear"}
    /\ running \in BOOLEAN /\ removeFromQ \in BOOLEAN
    /\ head \in Nat /\ tail \in Nat /\ burst \in Nat
    /\ end \in [0 .. tail -> Nat] /\ count \in [Buffers -> Nat]
    /\ sync \subseteq Buffers
    /\ queueSize \in Nat /\ burstOffset \in Nat
    /\ setting \in Settings \cup {NoSetting}
    /\ pending \subseteq Listeners /\ tree \subseteq Listeners
    /\ todo \subseteq tree /\ pending \cap tree = {}
    /\ mode \in [Listeners -> Modes]
    /\ cursor \in [Listeners -> 0 .. tail]
    /\ done \in [Listeners -> BOOLEAN]
    /\ intro \in [Listeners -> -1 .. IntroLen]

One(p) == IF p THEN 1 ELSE 0

(* The reference count of every buffer is exactly the number of its        *)
(* holders: the queue, the burst (every buffer from the burst point on)    *)
(* and each listener reading it.  A buffer nobody holds is freed, a        *)
(* buffer somebody holds never is (refbuf_release, "next not null").       *)
RefCountExact ==
    \A b \in Buffers :
        count[b] = One(b \in Linked) + One(b \in burst .. tail)
                   + HeldBy(Listeners, b)

(* Every pointer into the queue points into the linked part of it: the     *)
(* burst point, and the refbuf of exactly those listeners that read the    *)
(* queue, who are all in the client tree (no use after free).              *)
PointersInQueue ==
    /\ tail # 0 => head \in 1 .. burst /\ burst \in head .. tail
    /\ \A c \in Listeners :
          /\ mode[c] = "queue" => cursor[c] \in Linked /\ c \in tree
          /\ mode[c] # "queue" => cursor[c] = 0

(* queue_size and burst_offset are the bytes really between the head, the  *)
(* burst point and the tail, over any sequence of appends, trims, moves    *)
(* and restarts of the source.                                             *)
SizesExact ==
    tail # 0 => /\ queueSize = end[tail] - end[head - 1]
                /\ burstOffset = end[tail] - end[burst - 1]

(* "this should not happen": the trim loop never meets an unreferenced     *)
(* buffer that is the burst point or the last one, so it never stops the   *)
(* source ("queue state is unexpected").                                   *)
TrimNeverStopsSource ==
    [][pc = "trim" /\ pc' # "trim" => running' = running]_vars

(* "any lagging clients should of been terminated by now": an iteration    *)
(* that found the queue over its limit ends with the head cut off, unless  *)
(* the head is data kept for the burst.                                    *)
OverLimitIsCut ==
    [][pc = "trim" /\ pc' # "trim" /\ removeFromQ
        => head' > head \/ head' = burst]_vars

(* While the burst size stays below the queue size, only buffers behind    *)
(* the burst point are taken from listeners: a listener that just joined   *)
(* at the burst point is not thrown out as too slow.                       *)
BurstNotEvicted == pc = "serve" /\ removeFromQ => head < burst

(* The strengthening that makes the invariants above inductive: the        *)
(* cumulative offsets grow by buffer lengths, an empty queue has no        *)
(* pointers and no sizes, the clients already served in an iteration that  *)
(* cuts the queue have left its head, and burst_offset fits one of the     *)
(* configurations.                                                         *)
EndMonotone ==
    /\ \A x, y \in 0 .. tail : x <= y => end[x] <= end[y]
    /\ \A b \in 1 .. tail : end[b] - end[b - 1] \in Lens
QueueShape ==
    /\ head = 0 <=> tail = 0
    /\ tail = 0 => burst = 0 /\ queueSize = 0 /\ burstOffset = 0
    /\ pc = "off" => tail = 0
    /\ pc # "off" => setting \in Settings
    /\ pc # "serve" => todo = {}
    /\ \A c \in Listeners : mode[c] = "none" <=> c \notin pending \cup tree
ServedLeftHead ==
    removeFromQ /\ pc \in {"serve", "trim"} =>
        \A c \in tree \ todo : mode[c] = "queue" => cursor[c] # head
BurstFits ==
    tail # 0 /\ burst # tail => \E s \in Settings : burstOffset <= s.burst
IInv ==
    /\ TypeOK /\ RefCountExact /\ PointersInQueue /\ SizesExact
    /\ EndMonotone /\ QueueShape /\ ServedLeftHead /\ BurstFits
============================================================================
