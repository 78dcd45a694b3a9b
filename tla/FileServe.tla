----------------------------- MODULE FileServe -----------------------------
(***************************************************************************)
(* The file serving engine (fserve.c).  Any thread adds clients to the     *)
(* pending list and starts the file serving thread when run_fserv says     *)
(* that there is none.  That thread moves the pending clients to its       *)
(* active list, polls their sockets, sends each one that is ready a buffer *)
(* and destroys a client at its end.  Without clients it clears run_fserv  *)
(* and ends.  fserve_shutdown frees both lists with pending_lock held.     *)
(*                                                                         *)
(* A response is one or more buffers: those of a file, which are read when *)
(* they are sent, or those of a text.  Sizes are counted in buffers.       *)
(***************************************************************************)
EXTENDS Naturals, Integers, FiniteSets, Sequences, SequencesExt

CONSTANTS
    Client,      \* clients of the engine
    Thread,      \* file serving threads that may exist at a time
    MaxSize,     \* bound: the largest file
    Refused,     \* clients of a full server: when such a client is destroyed
                 \* its connection becomes a client that is added at once
    Null

ASSUME FileServeAssumption ==
    /\ IsFiniteSet(Client) /\ IsFiniteSet(Thread) /\ MaxSize \in Nat
    /\ Refused \subseteq Client
    /\ Null \notin Client \cup Thread

VARIABLES
    pending,     \* pending_list
    active,      \* active_list
    run,         \* run_fserv
    count,       \* fserve_clients
    changed,     \* client_tree_changed
    ufds,        \* the clients whose sockets are polled, or Null
    ready,       \* clients with fclient->ready
    alive,       \* clients whose fserve_t exists
    file,        \* clients with an open file
    left,        \* buffers that are still to be sent
    thread,      \* where each thread is: [at, node]
    main         \* fserve_shutdown: not called, freeing, waiting, done

lists == <<pending, active, count, changed>>
content == <<file, left>>
vars == <<lists, run, ufds, ready, alive, content, thread, main>>

(* Of a thread.  "wait": at the top of wait_for_fds; "moved": the pending  *)
(* clients are taken; "stop": it has no clients and is going to end;       *)
(* "poll": it waits for sockets; "serve": it looks at client node.         *)
Places == {"none", "wait", "moved", "stop", "poll", "serve"}
ThreadAt(t, l, n) == thread' = [thread EXCEPT ![t] = [at |-> l, node |-> n]]

Init ==
    /\ pending = <<>> /\ active = <<>> /\ run = FALSE
    /\ count = 0 /\ changed = FALSE /\ ufds = Null
    /\ ready = {} /\ alive = {} /\ file = {}
    /\ left = [c \in Client |-> 0]
    /\ thread = [t \in Thread |-> [at |-> "none", node |-> Null]]
    /\ main = "up"

PendingLockFree == main \notin {"freeing", "waiting"}

(* fserve_shutdown frees the active list without waiting for the thread.   *)
(* What a thread that walks the list does then is undefined; here it stops. *)
ActiveValid == main = "up"

----------------------------------------------------------------------------
(* fserve_client_create: what is sent.  A file is sent from an offset to   *)
(* its end; an error or a generated playlist is one buffer.                *)
Text == [file |-> FALSE, body |-> 1]
Whole(size) == [file |-> TRUE, body |-> size]

(* A range header asks for the file from this offset on; it may make no    *)
(* sense, -1, or be behind the end.                                        *)
Part(size, range) ==
    IF range \notin 0 .. size THEN Text
    ELSE [file |-> TRUE, body |-> size - range]

Responses ==
    {Text} \cup {Whole(size) : size \in 0 .. MaxSize}
           \cup {Part(size, range) : size \in 0 .. MaxSize, range \in -1 .. MaxSize + 1}

Respond(c, r) ==
    /\ alive' = alive \cup {c}
    /\ file' = IF r.file THEN file \cup {c} ELSE file \ {c}
    /\ left' = [left EXCEPT ![c] = r.body]

----------------------------------------------------------------------------
(* fserve_add_pending, with pending_lock *)

(* Mutant: a thread is started for every client. *)
StartAlways == \E t \in Thread : thread[t].at = "none" /\ ThreadAt(t, "wait", Null)

(* The file serving thread is started if it is not running. *)
StartThread ==
    IF run THEN UNCHANGED thread
    ELSE \E t \in Thread : thread[t].at = "none" /\ ThreadAt(t, "wait", Null)

Add(c, r) ==
    /\ main = "up" /\ c \notin alive
    /\ Respond(c, r)
    /\ pending' = <<c>> \o pending /\ run' = TRUE /\ StartThread
    /\ UNCHANGED <<active, count, changed, ufds, ready, main>>

----------------------------------------------------------------------------
(* The file serving thread *)

(* wait_for_fds: the pending clients are moved, each to the front. *)
MovePending(t) ==
    /\ thread[t].at = "wait" /\ run
    /\ pending # <<>> => PendingLockFree
    /\ active' = Reverse(pending) \o active /\ pending' = <<>>
    /\ count' = count + Len(pending)
    /\ changed' = (changed \/ pending # <<>>)
    /\ ThreadAt(t, "moved", Null)
    /\ UNCHANGED <<run, ufds, ready, alive, content, main>>
NotRunning(t) ==
    /\ thread[t].at = "wait" /\ ~run /\ ThreadAt(t, "none", Null)
    /\ UNCHANGED <<lists, run, ufds, ready, alive, content, main>>

(* fserve_client_waiting: ufds is rebuilt if the list has changed.         *)
(* realloc to no bytes frees it and returns a null pointer.                *)
Rebuilt == IF count = 0 THEN Null ELSE active
Rebuild(t) ==
    /\ thread[t].at = "moved" /\ ActiveValid
    /\ ufds' = IF changed THEN Rebuilt ELSE ufds
    /\ changed' = FALSE
    /\ ThreadAt(t, IF ufds' = Null THEN "stop" ELSE "poll", Null)
    /\ UNCHANGED <<pending, active, count, run, ready, alive, content, main>>

(* No clients: run_fserv is cleared and the thread ends. *)
Stop(t) ==
    /\ thread[t].at = "stop" /\ PendingLockFree
    /\ run' = FALSE /\ ThreadAt(t, "none", Null)
    /\ UNCHANGED <<lists, ufds, ready, alive, content, main>>

(* The sockets of S can be written to; or none for 200 ms. *)
Poll(t, S) ==
    /\ thread[t].at = "poll" /\ ActiveValid /\ S \subseteq 1 .. count
    /\ ready' = ready \cup {active[i] : i \in S}
    /\ IF S = {} THEN ThreadAt(t, "wait", Null)
       ELSE ThreadAt(t, "serve", Head(active))
    /\ UNCHANGED <<lists, run, ufds, alive, content, main>>

(* The loop over the active list is at this client; the one after it. *)
Serving(t, c) == thread[t].at = "serve" /\ thread[t].node = c /\ ActiveValid
Index(c) == CHOOSE i \in 1 .. Len(active) : active[i] = c
After(c) == IF Index(c) = Len(active) THEN Null ELSE active[Index(c) + 1]

(* Mutant: the loop is left after one client. *)
OnwardBreaks(t, c) == ThreadAt(t, "wait", Null)

(* The loop goes on. *)
Onward(t, c) ==
    IF After(c) = Null THEN ThreadAt(t, "wait", Null)
    ELSE ThreadAt(t, "serve", After(c))

ServeNext(t, c) ==
    /\ Serving(t, c) /\ c \notin ready /\ Onward(t, c)
    /\ UNCHANGED <<lists, run, ufds, ready, alive, content, main>>

(* A buffer is sent, or a part of one. *)
ServeBuffer(t, c) ==
    /\ Serving(t, c) /\ c \in ready /\ left[c] > 0
    /\ ready' = ready \ {c}
    /\ left' = [left EXCEPT ![c] = @ - 1] \/ UNCHANGED left
    /\ Onward(t, c)
    /\ UNCHANGED <<lists, run, ufds, alive, file, main>>

(* A client leaves the active list, *)
Unlink(c) ==
    /\ active' = RemoveAt(active, Index(c)) /\ count' = count - 1
    /\ changed' = TRUE

(* and fserve_client_destroy closes its file and frees it. *)
Destroy(c) == alive' = alive \ {c} /\ file' = file \ {c}

(* Everything is sent, or the connection has failed.  The connection of a  *)
(* refused client comes back at once with another error; run_fserv is set. *)
ServeEnd(t, c) ==
    /\ Serving(t, c) /\ c \in ready
    /\ Unlink(c) /\ ready' = ready \ {c}
    /\ IF c \in Refused
       THEN /\ PendingLockFree /\ pending' = <<c>> \o pending /\ Respond(c, Text)
       ELSE Destroy(c) /\ UNCHANGED <<pending, left>>
    /\ Onward(t, c)
    /\ UNCHANGED <<run, ufds, main>>

----------------------------------------------------------------------------
(* fserve_shutdown, by the main thread *)
Shutdown ==
    /\ main = "up" /\ main' = "freeing" /\ run' = FALSE
    /\ UNCHANGED <<lists, ufds, ready, alive, content, thread>>

(* The lists are freed with the lock held.  A refused client would be      *)
(* added again by the same thread, which waits for its own lock then.      *)
ShutdownFrees ==
    /\ main = "freeing" /\ pending \o active # <<>>
    /\ LET c == Head(pending \o active)
       IN  /\ Destroy(c)
           /\ main' = IF c \in Refused THEN "waiting" ELSE main
    /\ IF pending # <<>> THEN pending' = Tail(pending) /\ UNCHANGED active
       ELSE active' = Tail(active) /\ UNCHANGED pending
    /\ UNCHANGED <<run, count, changed, ufds, ready, left, thread>>
ShutdownDone ==
    /\ main = "freeing" /\ pending \o active = <<>> /\ main' = "down"
    /\ UNCHANGED <<lists, run, ufds, ready, alive, content, thread>>

----------------------------------------------------------------------------
Server(t) ==
    \/ MovePending(t) \/ NotRunning(t) \/ Rebuild(t) \/ Stop(t)
    \/ \E S \in SUBSET (1 .. count) : Poll(t, S)
    \/ \E c \in Client : ServeNext(t, c) \/ ServeBuffer(t, c) \/ ServeEnd(t, c)
Main == Shutdown \/ ShutdownFrees \/ ShutdownDone
Next ==
    \/ \E c \in Client, r \in Responses : Add(c, r)
    \/ \E t \in Thread : Server(t)
    \/ Main

Spec == Init /\ [][Next]_vars

(* The threads run.  A peer reads what it is sent, or goes away. *)
Reads(c) == \E t \in Thread :
    \/ ServeBuffer(t, c) /\ left'[c] < left[c]
    \/ ServeEnd(t, c)
Writable(c) == \E t \in Thread, S \in SUBSET (1 .. count) :
    Poll(t, S) /\ c \in ready'
FairSpec ==
    /\ Spec
    /\ \A t \in Thread : WF_vars(Server(t))
    /\ WF_vars(ShutdownFrees \/ ShutdownDone)
    /\ \A c \in Client : SF_vars(Writable(c)) /\ SF_vars(Reads(c))

----------------------------------------------------------------------------
(* Properties *)

(* Every variable has its type. *)
TypeOK ==
    /\ pending \in Seq(Client) /\ active \in Seq(Client)
    /\ run \in BOOLEAN /\ count \in 0 .. Cardinality(Client) /\ changed \in BOOLEAN
    /\ ufds \in Seq(Client) \cup {Null}
    /\ ready \subseteq Client /\ alive \subseteq Client /\ file \subseteq Client
    /\ left \in [Client -> 0 .. MaxSize + 1]
    /\ thread \in [Thread -> [at : Places, node : Client \cup {Null}]]
    /\ main \in {"up", "freeing", "waiting", "down"}

(* The active list has no lock: only one thread works on it, although a    *)
(* thread is started as soon as the one before has said that it ends.  And *)
(* while run_fserv is set there is one: no client is added without.        *)
OneServer ==
    LET there == {t \in Thread : thread[t].at # "none"}
    IN  Cardinality(there) <= 1 /\ (run => there # {})

(* Every client of the engine is in one of the two lists, once, and only   *)
(* such clients have their file open: none is freed twice or forgotten.    *)
(* What a poll says of entry i belongs to the client at place i, and one   *)
(* thread works on the lists.                                              *)
Owned ==
    /\ Range(pending \o active) = alive
    /\ Len(pending \o active) = Cardinality(alive)
    /\ file \subseteq alive
    /\ OneServer
    /\ main = "up" => /\ count = Len(active)
                      /\ ~changed /\ ufds # Null => ufds = active

(* The thread has ended and cleared run_fserv without another look at the  *)
(* pending list, to which a client was added meanwhile: nobody serves it   *)
(* until the next one is added.                                            *)
LeftBehind == ~run /\ pending # <<>>

(* A client that is added is taken into the active list, and is served to  *)
(* its end, if its peer reads and the server is not shut down.  Except in  *)
(* the race above: "add pre-configured client structure to pending list    *)
(* and then to start off the file serving thread if it is not already      *)
(* running" fails when the thread is about to end (fserve.c:170).          *)
ClientServed == \A c \in Client :
    /\ c \in Range(pending) ~> c \in Range(active) \/ main # "up" \/ LeftBehind
    /\ c \in Range(active) ~> c \notin Range(active) \/ main # "up"
=============================================================================
