------------------------------- MODULE Intake -------------------------------
(***************************************************************************)
(* How a connection becomes a request: the accept loop takes a connection, *)
(* makes a client of it, keeps it in the request queue until its header is *)
(* complete or its time is up, hands it over to the connection queue and   *)
(* parses it.  A client whose response is sent may give its connection     *)
(* back for another request (connection.c, client.c).                      *)
(*                                                                         *)
(* The request queue is a linked list without a lock: _req_queue (Front),   *)
(* the next pointers of its nodes and _req_queue_tail, the place where the *)
(* next node is to be stored.  The accept loop appends to it and walks it; *)
(* the file serving thread appends to it when it ends a client whose       *)
(* connection is reused.  An append is two stores.                         *)
(***************************************************************************)
EXTENDS Naturals, FiniteSets, Sequences

CONSTANTS
    Client,        \* connections
    Allowed,       \* those that the allow and ban files let in
    Shoutcast,     \* those that come in on a shoutcast-compat port
    Failing,       \* those whose requests are answered by an error, or by
                   \* the wish for TLS: these responses keep the connection
    ClientLimit,   \* limits: clients
    Front, Null

ASSUME IntakeAssumption ==
    /\ IsFiniteSet(Client) /\ Allowed \subseteq Client
    /\ Shoutcast \subseteq Client /\ Failing \subseteq Client
    /\ ClientLimit \in Nat
    /\ Front \notin Client /\ Null \notin Client \cup {Front}

VARIABLES
    stage,         \* where the client of a connection is, see Stages
    inbox,         \* what has arrived and was not read, see Inbox
    shoutcast,     \* node->shoutcast
    ok2,           \* has the shoutcast client been answered?
    late,          \* has the header timeout passed?
    reuse,         \* client->reuse: is the connection kept?
    next,          \* node->next, and Front: _req_queue
    tail,          \* _req_queue_tail: the node whose next is the end, or Front
    raced,         \* history: was the queue changed in the middle of an append?
    conQueue,      \* _con_queue
    clients,       \* global.clients
    acceptor,      \* where the accept loop is: [at, node]
    server         \* where the file serving thread is: [at, node]

queueVars == <<next, tail, raced>>
vars == <<stage, inbox, shoutcast, ok2, late, reuse, queueVars,
          conQueue, clients, acceptor, server>>

(* "out": no connection; "knock": waits to be accepted; "new": accepted,   *)
(* about to be appended; "req": in the request queue; "con": in the        *)
(* connection queue; "busy": a request that is being handled; "reply": its *)
(* response is sent by the file serving thread; "held": a connection that  *)
(* is kept and whose next client is not made yet.                          *)
Stages == {"out", "knock", "new", "req", "con", "busy", "reply", "held"}
NoClient == {"out", "knock", "held"}

(* What a read finds: nothing yet, a part, the password line of shoutcast, *)
(* the end of the headers, or the end of the connection.                   *)
Inbox == {"nothing", "part", "password", "header", "eof"}

Init ==
    /\ stage = [c \in Client |-> "out"]
    /\ inbox = [c \in Client |-> "nothing"]
    /\ shoutcast = [c \in Client |-> 0] /\ ok2 = {} /\ late = {}
    /\ reuse = {}
    /\ next = [n \in Client \cup {Front} |-> Null] /\ tail = Front
    /\ raced = FALSE
    /\ conQueue = <<>> /\ clients = 0
    /\ acceptor = [at |-> "accept", node |-> Null]
    /\ server = [at |-> "idle", node |-> Null]

Goto(c, s) == stage' = [stage EXCEPT ![c] = s]
AcceptorAt(l, n) == acceptor' = [at |-> l, node |-> n]
ServerAt(l, n) == server' = [at |-> l, node |-> n]

----------------------------------------------------------------------------
(* The peers *)

Knock(c) ==
    /\ stage[c] = "out" /\ Goto(c, "knock")
    /\ UNCHANGED <<inbox, shoutcast, ok2, late, reuse, queueVars,
                   conQueue, clients, acceptor, server>>

(* A shoutcast client sends its password and then its headers. *)
MaySend(c, x) ==
    /\ x = "password" => shoutcast[c] = 1
    /\ x = "header" => shoutcast[c] \in {0, 2}
Send(c, x) ==
    /\ stage[c] = "req" /\ inbox[c] = "nothing" /\ MaySend(c, x)
    /\ x \in Inbox \ {"nothing"}
    /\ inbox' = [inbox EXCEPT ![c] = x]
    /\ UNCHANGED <<stage, shoutcast, ok2, late, reuse, queueVars,
                   conQueue, clients, acceptor, server>>

HeaderTimeout(c) ==
    /\ stage[c] = "req" /\ c \notin late /\ late' = late \cup {c}
    /\ UNCHANGED <<stage, inbox, shoutcast, ok2, reuse, queueVars,
                   conQueue, clients, acceptor, server>>

----------------------------------------------------------------------------
(* A thread is between the two stores of _add_request_queue. *)
MidAppend == acceptor.at \in {"append", "appendAgain"} \/ server.at = "append"

(* _add_request_queue, first store: the node becomes the last one. *)
Link(c) ==
    /\ next' = [next EXCEPT ![tail] = c, ![c] = Null]
    /\ raced' = (raced \/ MidAppend)

(* client_create: is the server full? *)
OverLimit(n) == ClientLimit < n

(* connection_queue: a client is made for the connection and counted.      *)
(* Above the limit it is sent an error and keeps its connection; else it   *)
(* is to be appended to the request queue.                                 *)
Queue(c) ==
    /\ clients' = clients + 1
    /\ shoutcast' = [shoutcast EXCEPT ![c] = IF c \in Shoutcast THEN 1 ELSE 0]
    /\ IF OverLimit(clients + 1)
       THEN Goto(c, "reply") /\ reuse' = reuse \cup {c} /\ UNCHANGED <<next, raced>>
       ELSE Goto(c, "new") /\ Link(c) /\ UNCHANGED reuse
    /\ UNCHANGED <<inbox, ok2, late>>

(* Mutant: a client that is destroyed is not uncounted. *)
UncountNever(c) == UNCHANGED clients

(* client_destroy: the client is uncounted and freed with all it knew. *)
Uncount(c) == clients' = clients - 1
Forget(c) ==
    /\ inbox' = [inbox EXCEPT ![c] = "nothing"]
    /\ shoutcast' = [shoutcast EXCEPT ![c] = 0]
    /\ ok2' = ok2 \ {c} /\ late' = late \ {c} /\ reuse' = reuse \ {c}
Destroy(c) == Goto(c, "out") /\ Uncount(c) /\ Forget(c)

----------------------------------------------------------------------------
(* The accept loop *)

(* _accept_connection refuses an address, or the connection fails before   *)
(* its client is queued.                                                   *)
Refuse(c) ==
    /\ acceptor.at = "accept" /\ stage[c] = "knock"
    /\ Goto(c, "out") /\ AcceptorAt("scan", Front)
    /\ UNCHANGED <<inbox, shoutcast, ok2, late, reuse, queueVars,
                   conQueue, clients, server>>
Accept(c) ==
    /\ acceptor.at = "accept" /\ stage[c] = "knock" /\ c \in Allowed
    /\ Queue(c)
    /\ IF OverLimit(clients + 1) THEN AcceptorAt("scan", Front)
       ELSE AcceptorAt("append", c)
    /\ UNCHANGED <<tail, conQueue, server>>

(* Nothing to accept within the time given. *)
NoConnection ==
    /\ acceptor.at = "accept" /\ AcceptorAt("scan", Front)
    /\ UNCHANGED <<stage, inbox, shoutcast, ok2, late, reuse, queueVars,
                   conQueue, clients, server>>

(* _add_request_queue, second store. *)
Appended ==
    /\ acceptor.at \in {"append", "appendAgain"}
    /\ tail' = acceptor.node /\ Goto(acceptor.node, "req")
    /\ IF acceptor.at = "append" THEN AcceptorAt("scan", Front)
       ELSE AcceptorAt("handle", Null)
    /\ UNCHANGED <<inbox, shoutcast, ok2, late, reuse, next, raced, conQueue,
                   clients, server>>

(* process_request_queue: the walk is at node_ref, and looks at the node   *)
(* behind it.                                                              *)
Scanning == acceptor.at = "scan"
Visited == next[acceptor.node]

(* Mutant: the tail stays at a node that was taken out. *)
UnlinkKeepsTail(c) ==
    /\ next' = [next EXCEPT ![acceptor.node] = next[c]]
    /\ raced' = (raced \/ MidAppend) /\ UNCHANGED tail

(* The node is taken out; the tail may have been its next pointer. *)
Unlink(c) ==
    /\ next' = [next EXCEPT ![acceptor.node] = next[c]]
    /\ tail' = IF tail = c THEN acceptor.node ELSE tail
    /\ raced' = (raced \/ MidAppend)
ScanEnds ==
    /\ Scanning /\ Visited = Null /\ AcceptorAt("handle", Null)
    /\ UNCHANGED <<stage, inbox, shoutcast, ok2, late, reuse, queueVars,
                   conQueue, clients, server>>

(* The client's time is up, its buffer is full or its connection is gone.  *)
ScanDrop ==
    /\ Scanning /\ Visited # Null
    /\ Visited \in late \/ inbox[Visited] = "eof"
    /\ Unlink(Visited) /\ Destroy(Visited)
    /\ UNCHANGED <<conQueue, acceptor, server>>
(* Nothing to read. *)
ScanSkip ==
    /\ Scanning /\ Visited # Null
    /\ Visited \notin late /\ inbox[Visited] = "nothing"
    /\ AcceptorAt("scan", Visited)
    /\ UNCHANGED <<stage, inbox, shoutcast, ok2, late, reuse, queueVars,
                   conQueue, clients, server>>
(* Something is read: the client goes on to the connection queue when its  *)
(* header, or the password line of a shoutcast client, is complete.        *)
Complete(c) == \/ inbox[c] = "header"
               \/ shoutcast[c] = 1 /\ inbox[c] = "password"
ScanRead ==
    /\ Scanning /\ Visited # Null /\ Visited \notin late
    /\ inbox[Visited] \in {"part", "password", "header"}
    /\ inbox' = [inbox EXCEPT ![Visited] = "nothing"]
    /\ IF Complete(Visited)
       THEN /\ Unlink(Visited) /\ Goto(Visited, "con")
            /\ conQueue' = Append(conQueue, Visited) /\ UNCHANGED acceptor
       ELSE /\ AcceptorAt("scan", Visited)
            /\ UNCHANGED <<queueVars, stage, conQueue>>
    /\ UNCHANGED <<shoutcast, ok2, late, reuse, clients, server>>

(* _handle_connection takes the connection queue empty.  A shoutcast       *)
(* client's password is stored and it goes back to the request queue.      *)
Handling == acceptor.at = "handle"
First == conQueue[1]
HandleEnds ==
    /\ Handling /\ conQueue = <<>> /\ AcceptorAt("accept", Null)
    /\ UNCHANGED <<stage, inbox, shoutcast, ok2, late, reuse, queueVars,
                   conQueue, clients, server>>
HandlePassword ==
    /\ Handling /\ conQueue # <<>> /\ shoutcast[First] = 1
    /\ conQueue' = Tail(conQueue)
    /\ shoutcast' = [shoutcast EXCEPT ![First] = 2]
    /\ Link(First) /\ AcceptorAt("appendAgain", First)
    /\ UNCHANGED <<stage, inbox, ok2, late, reuse, tail, clients, server>>

(* The request does not parse, is of another protocol or has no valid URI; *)
(* or it is about TLS and is answered so; or it is passed on to the        *)
(* authenticators.                                                         *)
HandleDrop ==
    /\ Handling /\ conQueue # <<>> /\ shoutcast[First] # 1
    /\ conQueue' = Tail(conQueue) /\ Destroy(First)
    /\ UNCHANGED <<queueVars, acceptor, server>>
HandleUpgrade ==
    /\ Handling /\ conQueue # <<>> /\ shoutcast[First] # 1 /\ First \in Failing
    /\ conQueue' = Tail(conQueue) /\ Goto(First, "reply")
    /\ reuse' = reuse \cup {First}
    /\ UNCHANGED <<inbox, shoutcast, ok2, late, queueVars, clients,
                   acceptor, server>>
HandleRequest ==
    /\ Handling /\ conQueue # <<>> /\ shoutcast[First] # 1
    /\ conQueue' = Tail(conQueue) /\ Goto(First, "busy")
    /\ UNCHANGED <<inbox, shoutcast, ok2, late, reuse, queueVars,
                   clients, acceptor, server>>

----------------------------------------------------------------------------
(* The handlers of a request: a shoutcast source is sent "OK2" by          *)
(* source_startup; others are sent a file or another last response, or an  *)
(* error, client_send_error_by_id; a stream's client is just destroyed.    *)
AnswerOK2(c) ==
    /\ stage[c] = "busy" /\ shoutcast[c] = 2 /\ ok2' = ok2 \cup {c}
    /\ UNCHANGED <<stage, inbox, shoutcast, late, reuse, queueVars,
                   conQueue, clients, acceptor, server>>
Answer(c) ==
    /\ stage[c] = "busy" /\ c \notin ok2 /\ Goto(c, "reply")
    /\ reuse' = IF c \in Failing THEN reuse \cup {c} ELSE reuse
    /\ UNCHANGED <<inbox, shoutcast, ok2, late, queueVars, conQueue,
                   clients, acceptor, server>>
Leave(c) ==
    /\ stage[c] = "busy" /\ Destroy(c)
    /\ UNCHANGED <<queueVars, conQueue, acceptor, server>>

(* The file serving thread has sent a response and destroys the client.    *)
(* client_reuseconnection: if the connection is kept, connection_queue     *)
(* makes another client for it.                                            *)
ReplyClosed(c) ==
    /\ server.at = "idle" /\ stage[c] = "reply" /\ c \notin reuse
    /\ Destroy(c)
    /\ UNCHANGED <<queueVars, conQueue, acceptor, server>>
ReplyKept(c) ==
    /\ server.at = "idle" /\ stage[c] = "reply" /\ c \in reuse
    /\ Goto(c, "held") /\ Uncount(c) /\ Forget(c) /\ ServerAt("queue", c)
    /\ UNCHANGED <<queueVars, conQueue, acceptor>>
ServerQueues ==
    /\ server.at = "queue"
    /\ Queue(server.node)
    /\ IF OverLimit(clients + 1) THEN ServerAt("idle", Null)
       ELSE ServerAt("append", server.node)
    /\ UNCHANGED <<tail, conQueue, acceptor>>
ServerAppended ==
    /\ server.at = "append"
    /\ tail' = server.node /\ Goto(server.node, "req") /\ ServerAt("idle", Null)
    /\ UNCHANGED <<inbox, shoutcast, ok2, late, reuse, next, raced,
                   conQueue, clients, acceptor>>

----------------------------------------------------------------------------
AcceptLoop ==
    \/ \E c \in Client : Refuse(c) \/ Accept(c)
    \/ NoConnection \/ Appended \/ ScanEnds \/ ScanDrop \/ ScanSkip \/ ScanRead
    \/ HandleEnds \/ HandlePassword \/ HandleDrop \/ HandleUpgrade \/ HandleRequest
FileServer ==
    \/ \E c \in Client : ReplyClosed(c) \/ ReplyKept(c)
    \/ ServerQueues \/ ServerAppended
Next ==
    \/ AcceptLoop \/ FileServer
    \/ \E c \in Client : \/ Knock(c) \/ (\E x \in Inbox : Send(c, x))
                         \/ HeaderTimeout(c) \/ AnswerOK2(c)
                         \/ Answer(c) \/ Leave(c)

Spec == Init /\ [][Next]_vars

(* The accept loop and the file serving thread run, and time passes.       *)
FairSpec ==
    /\ Spec /\ WF_vars(AcceptLoop) /\ WF_vars(FileServer)
    /\ \A c \in Client : WF_vars(HeaderTimeout(c))

----------------------------------------------------------------------------
(* Properties *)

(* Every variable has its type. *)
TypeOK ==
    /\ stage \in [Client -> Stages]
    /\ inbox \in [Client -> Inbox]
    /\ shoutcast \in [Client -> 0 .. 2]
    /\ ok2 \subseteq Client /\ late \subseteq Client /\ reuse \subseteq Client
    /\ next \in [Client \cup {Front} -> Client \cup {Null}]
    /\ tail \in Client \cup {Front} /\ raced \in BOOLEAN
    /\ conQueue \in Seq(Client) /\ clients \in 0 .. Cardinality(Client)
    /\ acceptor \in [at : {"accept", "append", "appendAgain", "scan", "handle"},
                     node : Client \cup {Front, Null}]
    /\ server \in [at : {"idle", "queue", "append"}, node : Client \cup {Null}]

(* global.clients counts the clients that exist, over every way a client   *)
(* comes, goes, is refused or gives its connection back; and "total number *)
(* of concurrent clients supported by the server": clients beyond the      *)
(* limit are only sent an error.                                           *)
ClientsCounted ==
    /\ clients = Cardinality({c \in Client : stage[c] \notin NoClient})
    /\ Cardinality({c \in Client : stage[c] \in {"new", "req", "con", "busy"}})
         <= ClientLimit

(* What can be reached from the head of the request queue: the smallest    *)
(* set that the next pointers of the head and of its members do not leave. *)
Closed(S) == \A n \in S \cup {Front} : next[n] \in S \cup {Null}
Reached == {c \in Client : \A S \in SUBSET Client : Closed(S) => c \in S}

(* "add node to the queue of requests.  This is where the clients are when *)
(* initial http details are read": every client whose header is awaited is *)
(* in the queue, and the tail is its end, as long as the two threads that  *)
(* append without a lock have not met.                                     *)
QueueIntact ==
    ~raced /\ ~MidAppend =>
        /\ Reached = {c \in Client : stage[c] = "req"}
        /\ tail \in Reached \cup {Front} /\ next[tail] = Null

(* A client in the request queue leaves it: its header is complete, its    *)
(* connection ends or its time is up.  Only a race can lose it.            *)
RequestHandled == \A c \in Client : stage[c] = "req" ~> stage[c] # "req" \/ raced
=============================================================================
