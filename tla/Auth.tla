-------------------------------- MODULE Auth --------------------------------
(***************************************************************************)
(* How a request is authenticated (auth.c, connection.c, auth_url.c).  A   *)
(* client goes through three stacks of authenticators, those of its mount, *)
(* of the default mount and of the server, until one of them decides.      *)
(* Static authenticators decide at once, in the thread that asks; a URL    *)
(* authenticator has a queue and a thread of its own, which goes on with   *)
(* the client.  An authenticator is freed with its last reference, and its *)
(* thread is joined.  A reload replaces all of them, with the write lock   *)
(* on the configuration.                                                   *)
(***************************************************************************)
EXTENDS Naturals, FiniteSets, Sequences

CONSTANTS
    Client,      \* clients
    Stacks,      \* the kinds of the authenticators of each of the stacks
    Limit,       \* pending_count above which a client is refused
    MaxGen,      \* bound: configurations that are loaded
    Acceptor,    \* the accept loop
    Null

Kinds == {"static", "url", "urlRemove"}

(* A place in a stack of one configuration, and the authenticator there. *)
Node == UNION {{s} \X (1 .. Len(Stacks[s])) \X (1 .. MaxGen) : s \in 1 .. 3}
Kind(n) == Stacks[n[1]][n[2]]
Threaded == {n \in Node : Kind(n) # "static"}
Executor == Threaded \cup {Acceptor}

ASSUME AuthAssumption ==
    /\ IsFiniteSet(Client) /\ Stacks \in Seq(Seq(Kinds))
    /\ Len(Stacks) = 3 /\ Stacks[3] # <<>>
    /\ Limit \in Nat /\ MaxGen \in Nat \ {0}
    /\ Null \notin Client \cup Node

VARIABLES
    at,          \* where a client is, see Places
    stage,       \* the stack that a client is in or comes to, 1 .. 3
    where,       \* client->authstack
    auth,        \* client->auth
    acl,         \* clients with client->acl
    verdict,     \* the result of the last authenticator
    said,        \* all of them since the request, with their places
    queue,       \* of each authenticator: the clients that wait for it
    exec,        \* the client that a thread works on
    reader,      \* threads that hold the read lock on the configuration
    ref,         \* auth->refcount
    life,        \* "none", "up", "dying" (its thread is joined), "freed"
    leaked,      \* nodes with a reference that nobody will release
    config,      \* the current configuration
    reload       \* authenticators whose threads the reload joins, or Null

clientVars == <<at, stage, where, auth, acl, verdict, said>>
refVars == <<ref, life>>
vars == <<clientVars, queue, exec, reader, refVars, leaked, config, reload>>

Places == {"out", "look", "try", "append", "queued", "process", "result",
           "refuse", "enter", "in", "remove", "removing", "removed"}

Init ==
    /\ at = [c \in Client |-> "out"] /\ stage = [c \in Client |-> 1]
    /\ where = [c \in Client |-> Null] /\ auth = [c \in Client |-> Null]
    /\ acl = {} /\ verdict = [c \in Client |-> "none"]
    /\ said = [c \in Client |-> <<>>]
    /\ queue = [n \in Threaded |-> <<>>] /\ exec = [e \in Executor |-> Null]
    /\ reader = {} /\ leaked = {} /\ config = 1 /\ reload = Null
    /\ ref = [n \in Node |-> IF n[3] = 1 THEN 1 ELSE 0]
    /\ life = [n \in Node |-> IF n[3] = 1 THEN "up" ELSE "none"]

Goto(c, l) == at' = [at EXCEPT ![c] = l]
ConfigFree == reload = Null

----------------------------------------------------------------------------
(* References.  A node is held by the configuration, by the node before it *)
(* and by clients.                                                         *)
Held(n, w, g, lk) ==
    \/ n[3] = g
    \/ \E m \in {w[c] : c \in Client} \cup lk :
           m # Null /\ m[1] = n[1] /\ m[3] = n[3] /\ m[2] <= n[2]
Dead(w, g) == {n \in Node : Held(n, where, config, leaked) /\ ~Held(n, w, g, leaked)}

One(P) == IF P THEN 1 ELSE 0

(* Mutant: the reference that a client had before is kept. *)
ChangeKeeps(e, up, down, dead) ==
    /\ ref' = [n \in Node |-> (ref[n] + One(n = up)) - One(n \in dead)]
    /\ UNCHANGED life

(* auth_addref, auth_release and the release of dead nodes by thread e.    *)
(* The last reference frees an authenticator, once its thread is joined; a *)
(* thread that would join itself does not wait.                            *)
Change(e, up, down, dead) ==
    /\ ref' = [n \in Node |-> (ref[n] + One(n = up)) - (One(n = down) + One(n \in dead))]
    /\ life' = [n \in Node |->
                  IF life[n] # "up" \/ ref'[n] > 0 THEN life[n]
                  ELSE IF n \in Threaded \ {e} THEN "dying" ELSE "freed"]

(* The thread of an authenticator that is joined ends between clients. *)
Joined(n) ==
    /\ n \in Threaded /\ life[n] = "dying" /\ exec[n] = Null
    /\ life' = [life EXCEPT ![n] = "freed"]
    /\ UNCHANGED <<clientVars, queue, exec, reader, ref, leaked, config, reload>>

----------------------------------------------------------------------------
(* A thread e works on client c *)

(* A request comes in, _handle_authentication. *)
Ask(c) ==
    /\ at[c] = "out" /\ exec[Acceptor] = Null
    /\ exec' = [exec EXCEPT ![Acceptor] = c]
    /\ Goto(c, "look") /\ stage' = [stage EXCEPT ![c] = 1]
    /\ UNCHANGED <<verdict, said, where, auth, acl, queue, reader, refVars, leaked, config, reload>>

At(e, c, l) == exec[e] = c /\ at[c] = l

(* The stack of the mount, of the default mount or of the server.  The     *)
(* last one is used with the configuration locked.                         *)
LookMissing(e, c) ==
    /\ At(e, c, "look") /\ ConfigFree /\ Stacks[stage[c]] = <<>>
    /\ stage' = [stage EXCEPT ![c] = @ + 1]
    /\ UNCHANGED <<at, where, auth, acl, verdict, said, queue, exec, reader,
                   refVars, leaked, config, reload>>
Look(e, c) ==
    /\ At(e, c, "look") /\ ConfigFree /\ Stacks[stage[c]] # <<>>
    /\ where' = [where EXCEPT ![c] = <<stage[c], 1, config>>]
    /\ reader' = IF stage[c] = 3 THEN reader \cup {e} ELSE reader
    /\ Goto(c, "try")
    /\ UNCHANGED <<stage, auth, acl, verdict, said, queue, exec, refVars,
                   leaked, config, reload>>

(* auth_add_client: the queue is too long, *)
Busy(n) == n \in Threaded /\ Len(queue[n]) > Limit
TryBusy(e, c) ==
    /\ At(e, c, "try") /\ Busy(where[c])
    /\ leaked' = leaked \cup {where[c]}
    /\ where' = [where EXCEPT ![c] = Null] /\ Goto(c, "refuse")
    /\ UNCHANGED <<stage, auth, acl, verdict, said, queue, exec, reader,
                   refVars, config, reload>>
(* or the authenticator is not for such requests, *)
TrySkip(e, c) ==
    /\ At(e, c, "try") /\ ~Busy(where[c])
    /\ Goto(c, "result") /\ verdict' = [verdict EXCEPT ![c] = "nomatch"]
    /\ said' = [said EXCEPT ![c] = Append(@, <<where[c], "nomatch">>)]
    /\ UNCHANGED <<stage, where, auth, acl, queue, exec, reader, refVars,
                   leaked, config, reload>>
(* or it takes the client, at once or into its queue. *)
TryTake(e, c) ==
    /\ At(e, c, "try") /\ ~Busy(where[c])
    /\ auth' = [auth EXCEPT ![c] = where[c]]
    /\ Change(e, where[c], auth[c], {})
    /\ Goto(c, IF where[c] \in Threaded THEN "append" ELSE "process")
    /\ UNCHANGED <<stage, where, acl, verdict, said, queue, exec, reader,
                   leaked, config, reload>>

(* queue_auth_client, with auth->lock *)
AppendClient(e, c) ==
    /\ At(e, c, "append") /\ Goto(c, "queued")
    /\ queue' = [queue EXCEPT ![auth[c]] = Append(@, c)]
    /\ exec' = [exec EXCEPT ![e] = Null] /\ reader' = reader \ {e}
    /\ UNCHANGED <<stage, where, auth, acl, verdict, said, refVars, leaked,
                   config, reload>>

(* Mutant: the thread leaves the client in the queue. *)
TakeCopies(n) ==
    /\ n \in Threaded /\ life[n] = "up" /\ exec[n] = Null /\ queue[n] # <<>>
    /\ LET c == Head(queue[n])
       IN  /\ exec' = [exec EXCEPT ![n] = c]
           /\ Goto(c, IF at[c] = "remove" THEN "removing" ELSE "process")
    /\ UNCHANGED <<stage, where, auth, acl, verdict, said, queue, reader,
                   refVars, leaked, config, reload>>

(* auth_run_thread: the thread of an authenticator takes a client. *)
Take(n) ==
    /\ n \in Threaded /\ life[n] = "up" /\ exec[n] = Null /\ queue[n] # <<>>
    /\ LET c == Head(queue[n])
       IN  /\ exec' = [exec EXCEPT ![n] = c]
           /\ Goto(c, IF at[c] = "remove" THEN "removing" ELSE "process")
    /\ queue' = [queue EXCEPT ![n] = Tail(@)]
    /\ UNCHANGED <<stage, where, auth, acl, verdict, said, reader, refVars,
                   leaked, config, reload>>

(* auth_new_client and __handle_auth_client: the authenticator decides. *)
Process(e, c, r) ==
    /\ At(e, c, "process") /\ Goto(c, "result")
    /\ verdict' = [verdict EXCEPT ![c] = r]
    /\ said' = [said EXCEPT ![c] = Append(@, <<where[c], r>>)]
    /\ IF r = "ok"
       THEN acl' = acl \cup {c} /\ UNCHANGED <<auth, refVars>>
       ELSE /\ auth' = [auth EXCEPT ![c] = Null]
            /\ Change(e, Null, auth[c], {}) /\ UNCHANGED acl
    /\ UNCHANGED <<stage, where, queue, exec, reader, leaked, config, reload>>

(* The client lets go of its stack, and goes to place l, *)
Unstack(e, c, l) ==
    /\ where' = [where EXCEPT ![c] = Null] /\ Goto(c, l)
    /\ Change(e, Null, Null, Dead(where', config))
    /\ UNCHANGED <<auth, acl, verdict, said, queue, exec, reader, leaked,
                   config, reload>>
NextStack(e, c) ==
    IF stage[c] < 3
    THEN Unstack(e, c, "look") /\ stage' = [stage EXCEPT ![c] = @ + 1]
    ELSE Unstack(e, c, "refuse") /\ UNCHANGED stage

(* __move_client_forward_in_auth_stack *)

(* Mutant: the rest of a stack is not asked. *)
LastInStackFirst(n) == TRUE

(* There is no other authenticator behind this one. *)
LastInStack(n) == n[2] = Len(Stacks[n[1]])
(* auth_stack_next *)
Forward(n) == <<n[1], n[2] + 1, n[3]>>
ResultForward(e, c) ==
    /\ At(e, c, "result") /\ verdict[c] = "nomatch" /\ ~LastInStack(where[c])
    /\ where' = [where EXCEPT ![c] = Forward(where[c])]
    /\ Change(e, Null, Null, Dead(where', config)) /\ Goto(c, "try")
    /\ UNCHANGED <<stage, auth, acl, verdict, said, queue, exec, reader,
                   leaked, config, reload>>
ResultNoMatch(e, c) ==
    /\ At(e, c, "result") /\ verdict[c] = "nomatch" /\ LastInStack(where[c])
    /\ NextStack(e, c)

(* The authenticator's role does not allow the admin command: the next     *)
(* stack is asked, but after the last one the client is let through.       *)
ResultDenied(e, c) ==
    /\ At(e, c, "result") /\ verdict[c] = "ok" /\ stage[c] < 3 /\ NextStack(e, c)
ResultOk(e, c) ==
    /\ At(e, c, "result") /\ verdict[c] = "ok" /\ Unstack(e, c, "enter")
    /\ UNCHANGED stage

(* Mutant: nobody is told of a failure. *)
ResultFailedUntold(e, c) == FALSE /\ UNCHANGED vars

(* A failure ends the request. *)
ResultFailed(e, c) ==
    /\ At(e, c, "result") /\ verdict[c] = "failed" /\ Unstack(e, c, "refuse")
    /\ UNCHANGED stage

(* _handle_authed_client: the request is handled, or answered by an error; *)
(* both read the configuration.                                            *)
Finish(e, c) ==
    /\ exec[e] = c /\ at[c] \in {"enter", "refuse"} /\ ConfigFree
    /\ Goto(c, "in") /\ exec' = [exec EXCEPT ![e] = Null] /\ reader' = reader \ {e}
    /\ said' = [said EXCEPT ![c] = <<>>]
    /\ verdict' = [verdict EXCEPT ![c] = "none"]
    /\ UNCHANGED <<stage, where, auth, acl, queue, refVars, leaked, config, reload>>

----------------------------------------------------------------------------
(* auth_release_client, when the client is destroyed, by another thread:   *)
(* an authenticator that wants to know is told by its own thread.          *)
WantsRemove(c) == auth[c] # Null /\ Kind(auth[c]) = "urlRemove"
Leave(c) ==
    /\ at[c] = "in" /\ ~(c \in acl /\ WantsRemove(c))
    /\ Goto(c, "out") /\ acl' = acl \ {c}
    /\ IF c \in acl
       THEN auth' = [auth EXCEPT ![c] = Null] /\ Change(Null, Null, auth[c], {})
       ELSE UNCHANGED <<auth, refVars>>
    /\ UNCHANGED <<stage, where, verdict, said, queue, exec, reader, leaked,
                   config, reload>>
LeaveQueued(c) ==
    /\ at[c] = "in" /\ c \in acl /\ WantsRemove(c)
    /\ Goto(c, "remove") /\ queue' = [queue EXCEPT ![auth[c]] = Append(@, c)]
    /\ UNCHANGED <<stage, where, auth, acl, verdict, said, exec, reader, refVars,
                   leaked, config, reload>>

(* auth_remove_client; the result is AUTH_OK, which sets the ACL again. *)
Remove(n, c) ==
    /\ At(n, c, "removing") /\ Goto(c, "removed")
    /\ auth' = [auth EXCEPT ![c] = Null] /\ Change(n, Null, auth[c], {})
    /\ exec' = [exec EXCEPT ![n] = Null]
    /\ UNCHANGED <<stage, where, acl, verdict, said, queue, reader, leaked,
                   config, reload>>

----------------------------------------------------------------------------
(* config_reread_config: the authenticators of the old configuration are   *)
(* released, and the threads of those that go are joined, with the lock.   *)
Reload ==
    /\ ConfigFree /\ reader = {} /\ config < MaxGen
    /\ config' = config + 1
    /\ LET dead == Dead(where, config + 1)
       IN  /\ ref' = [n \in Node |-> IF n[3] = config + 1 THEN 1
                                     ELSE ref[n] - One(n \in dead)]
           /\ life' = [n \in Node |->
                         IF n[3] = config + 1 THEN "up"
                         ELSE IF life[n] # "up" \/ ref'[n] > 0 THEN life[n]
                         ELSE IF n \in Threaded THEN "dying" ELSE "freed"]
           /\ reload' = {n \in dead : life'[n] = "dying"}
    /\ UNCHANGED <<clientVars, queue, exec, reader, leaked>>
ReloadDone ==
    /\ reload # Null /\ (\A n \in reload : life[n] = "freed") /\ reload' = Null
    /\ UNCHANGED <<clientVars, queue, exec, reader, refVars, leaked, config>>

----------------------------------------------------------------------------
Results == {"ok", "failed", "nomatch"}
Work(e) == \E c \in Client :
    \/ LookMissing(e, c) \/ Look(e, c)
    \/ TryBusy(e, c) \/ TrySkip(e, c) \/ TryTake(e, c) \/ AppendClient(e, c)
    \/ (\E r \in Results : Process(e, c, r))
    \/ ResultForward(e, c) \/ ResultNoMatch(e, c) \/ ResultDenied(e, c)
    \/ ResultOk(e, c) \/ ResultFailed(e, c) \/ Finish(e, c) \/ Remove(e, c)
Next ==
    \/ \E c \in Client : Ask(c) \/ Leave(c) \/ LeaveQueued(c)
    \/ \E e \in Executor : Work(e)
    \/ \E n \in Threaded : Take(n) \/ Joined(n)
    \/ Reload \/ ReloadDone

Spec == Init /\ [][Next]_vars

(* The threads run. *)
FairSpec ==
    /\ Spec /\ WF_vars(ReloadDone)
    /\ \A e \in Executor : WF_vars(Work(e))
    /\ \A n \in Threaded : WF_vars(Take(n)) /\ WF_vars(Joined(n))

----------------------------------------------------------------------------
(* Properties *)

(* Every variable has its type. *)
TypeOK ==
    /\ at \in [Client -> Places] /\ stage \in [Client -> 1 .. 3]
    /\ where \in [Client -> Node \cup {Null}] /\ auth \in [Client -> Node \cup {Null}]
    /\ acl \subseteq Client /\ verdict \in [Client -> Results \cup {"none"}]
    /\ said \in [Client -> Seq(Node \X Results)]
    /\ queue \in [Threaded -> Seq(Client)]
    /\ exec \in [Executor -> Client \cup {Null}] /\ reader \subseteq Executor
    /\ ref \in [Node -> 0 .. Cardinality(Client) + 1]
    /\ life \in [Node -> {"none", "up", "dying", "freed"}]
    /\ leaked \subseteq Node /\ config \in 1 .. MaxGen
    /\ reload \in (SUBSET Threaded) \cup {Null}

(* Nobody who uses an authenticator that was freed is left: no client      *)
(* refers to it, waits for it or stands in its stack.                      *)
FreedUnused == \A n \in Node : life[n] = "freed" =>
    /\ \A c \in Client : auth[c] # n /\ where[c] # n
    /\ n \in Threaded => queue[n] = <<>>

(* refcount is the number of references there are: those of clients and    *)
(* that of the stack, over every way through the chain and every end; an   *)
(* authenticator is "refcounted and only actual freed after the last use". *)
RefExact ==
    /\ \A n \in Node : life[n] # "none" =>
           ref[n] = Cardinality({c \in Client : auth[c] = n})
                    + One(Held(n, where, config, leaked))
    /\ FreedUnused

(* A client is in one queue at most, once, and only one thread works on    *)
(* it: it is answered once and freed once.                                 *)
ClientOnce == \A c \in Client :
    Cardinality({e \in Executor : exec[e] = c})
        + Cardinality({p \in Threaded \X (1 .. Cardinality(Client)) :
                           p[2] <= Len(queue[p[1]]) /\ queue[p[1]][p[2]] = c}) <= 1

(* The authenticators are asked in the order of the stacks: after one that *)
(* does not match comes the next one, after a stack the next stack that    *)
(* has authenticators, and nobody is asked after a failure.                *)
Follows(m, n, r) ==
    \/ r = "nomatch" /\ n[1] = m[1] /\ n[3] = m[3] /\ n[2] = m[2] + 1
    \/ /\ r = "ok" \/ (r = "nomatch" /\ m[2] = Len(Stacks[m[1]]))
       /\ n[2] = 1 /\ n[1] > m[1]
       /\ \A s \in m[1] + 1 .. n[1] - 1 : Stacks[s] = <<>>
ChainFollowed == \A c \in Client :
    /\ \A k \in 1 .. Len(said[c]) - 1 :
           Follows(said[c][k][1], said[c][k + 1][1], said[c][k][2])
    /\ at[c] = "enter" => said[c][Len(said[c])][2] = "ok"

(* Every request is answered, unless a reload waits for the threads. *)
Answered == \A c \in Client : at[c] = "look" ~> at[c] = "in" \/ reload # Null
=============================================================================
