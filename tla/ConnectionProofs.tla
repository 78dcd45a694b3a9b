-------------------------- MODULE ConnectionProofs --------------------------
(***************************************************************************)
(* Proofs about the connections that come in (Intake) and those that the   *)
(* server makes (Relays).                                                  *)
(*                                                                         *)
(* Intake: the clients are counted exactly and the limit is kept, and the  *)
(* request queue is whole unless the two threads that change it without a  *)
(* lock have met, for any number of connections.                           *)
(*                                                                         *)
(* Relays: for any mounts, versions and wishes, a relay and its source     *)
(* live as long as its thread, a mount has the source of one relay, the    *)
(* flags of a relay tell where its thread is, and the two mutexes have the *)
(* holder that the program counters say.                                   *)
(***************************************************************************)
EXTENDS Intake, Relays, FiniteSetsExt, FiniteSetTheorems, WellFoundedInduction, SequenceTheorems, TLAPS

(* A non-empty set of naturals has a least element, and Min returns it. *)
LEMMA MinOfNats ==
    ASSUME NEW S \in SUBSET Nat, S # {}
    PROVE  /\ Min(S) \in S
           /\ \A x \in S : Min(S) <= x
<1> DEFINE R == OpToRel(<, Nat)
<1>1. R = {p \in Nat \X Nat : p[1] < p[2]}
  BY Zenon DEF OpToRel
<1>2. IsWellFoundedOn(R, Nat)
  BY NatLessThanWellFounded, Zenon
<1> HIDE DEF R
<1>3. PICK m \in S : \A x \in S : ~(<<x, m>> \in R)
  BY <1>2, WFMin
<1>4. ASSUME NEW x \in S PROVE m <= x
  <2>1. <<x, m>> \in Nat \X Nat /\ <<x, m>>[1] = x /\ <<x, m>>[2] = m
    OBVIOUS
  <2> QED
    BY <1>1, <1>3, <2>1
<1> QED
  BY <1>4 DEF Min

(* The nodes of the request queue that are alive: its head, and the        *)
(* clients that are in it or are being appended.                           *)
Nodes ==
    {Front} \cup {c \in Client : \/ stage[c] \in {"new", "req"}
                                 \/ acceptor.at = "appendAgain" /\ acceptor.node = c}

(* The next pointers of live nodes point at live nodes, at most one at     *)
(* each, and so does the tail: even after a race no freed node is reached. *)
Chain ==
    /\ tail \in Nodes
    /\ \A n \in Nodes : next[n] \in Nodes \cup {Null}
    /\ \A m, n \in Nodes : next[m] = next[n] /\ next[m] # Null => m = n

(* They never lead back: a node can be ranked above the one before it. *)
RankedBy(rk) == \A n \in Nodes : next[n] # Null => rk[n] < rk[next[n]]
Ranked == \E rk \in [Client \cup {Front} -> Nat] : RankedBy(rk)

(* The walk is at a live node. *)
Walk == Scanning => acceptor.node \in Nodes

(* Only of a client in the queue is anything read or timed. *)
Awaited == \A c \in Client : inbox[c] # "nothing" \/ c \in late => stage[c] = "req"

(* The connection queue holds clients that were handed over, each once. *)
Handed ==
    /\ \A i \in 1 .. Len(conQueue) : stage[conQueue[i]] = "con"
    /\ \A i, j \in 1 .. Len(conQueue) : conQueue[i] = conQueue[j] => i = j

(* Who is being appended by whom. *)
Appending ==
    /\ acceptor.at = "append" => acceptor.node \in Client /\ stage[acceptor.node] = "new"
    /\ acceptor.at = "appendAgain" =>
          /\ acceptor.node \in Client /\ stage[acceptor.node] = "con"
          /\ \A i \in 1 .. Len(conQueue) : conQueue[i] # acceptor.node
    /\ server.at = "queue" => server.node \in Client /\ stage[server.node] = "held"
    /\ server.at = "append" => server.node \in Client /\ stage[server.node] = "new"
    /\ acceptor.at = "append" /\ server.at = "append" => acceptor.node # server.node
    /\ \A c \in Client : stage[c] = "new" =>
          \/ acceptor.at = "append" /\ acceptor.node = c
          \/ server.at = "append" /\ server.node = c

(* Without a race every live node has one before it, one append is under   *)
(* way at most, and the tail is where it should be.                        *)
AcceptorAppends == acceptor.at \in {"append", "appendAgain"}
Whole == ~raced =>
    /\ \A c \in Nodes \ {Front} : \E p \in Nodes : next[p] = c
    /\ ~(AcceptorAppends /\ server.at = "append")
    /\ ~MidAppend => next[tail] = Null
    /\ AcceptorAppends => next[tail] = acceptor.node /\ next[acceptor.node] = Null
    /\ server.at = "append" => next[tail] = server.node /\ next[server.node] = Null

QueueInv == Chain /\ Ranked /\ Walk /\ Whole
PlaceInv == Awaited /\ Handed /\ Appending
IInv == TypeOK /\ PlaceInv /\ QueueInv /\ ClientsCounted

----------------------------------------------------------------------------
(* The linked list *)

(* Live nodes are nodes; a client is never the head and Null is no node. *)
LEMMA NodesType ==
    /\ Nodes \subseteq Client \cup {Front} /\ Front \in Nodes
    /\ Null \notin Client \cup {Front} /\ Front \notin Client
BY IntakeAssumption DEF Nodes

(* The first store of _add_request_queue: a node that was not in the queue *)
(* is put behind the tail.                                                 *)
LEMMA LinkChain ==
    ASSUME TypeOK, Chain, Ranked, NEW c \in Client, c \notin Nodes,
           Link(c), tail' = tail, Nodes' = Nodes \cup {c}
    PROVE  /\ Chain' /\ Ranked'
           /\ next' \in [Client \cup {Front} -> Client \cup {Null}]
           /\ next'[tail] = c /\ next'[c] = Null
           /\ \A n \in Nodes : n # tail => next'[n] = next[n]
<1>1. /\ tail \in Nodes /\ tail \in Client \cup {Front} /\ tail # c /\ c # Null
      /\ next \in [Client \cup {Front} -> Client \cup {Null}]
  BY NodesType DEF TypeOK, Chain
<1>2. /\ next' \in [Client \cup {Front} -> Client \cup {Null}]
      /\ next'[tail] = c /\ next'[c] = Null
      /\ \A n \in Client \cup {Front} : n # tail /\ n # c => next'[n] = next[n]
  BY <1>1 DEF Link
<1>3. \A n \in Nodes : n # tail => next'[n] = next[n]
  BY <1>2, NodesType
<1>4. Chain'
  <2>1. \A n \in Nodes \cup {c} : next'[n] \in Nodes \cup {c} \cup {Null}
    BY <1>2, <1>3 DEF Chain
  <2>2. ASSUME NEW m \in Nodes \cup {c}, NEW n \in Nodes \cup {c},
               next'[m] = next'[n], next'[m] # Null
        PROVE  m = n
    <3>1. m # c /\ n # c /\ m \in Nodes /\ n \in Nodes
      BY <1>2, <2>2
    <3>2. \A k \in Nodes : next[k] # c
      BY <1>1 DEF Chain
    <3>3. CASE m = tail
      BY <1>2, <1>3, <2>2, <3>1, <3>2, <3>3
    <3>4. CASE n = tail
      BY <1>2, <1>3, <2>2, <3>1, <3>2, <3>4
    <3>5. CASE m # tail /\ n # tail
      BY <1>3, <2>2, <3>1, <3>5 DEF Chain
    <3> QED
      BY <3>3, <3>4, <3>5
  <2> QED
    BY <1>1, <2>1, <2>2 DEF Chain
<1>5. Ranked'
  <2>1. PICK rk \in [Client \cup {Front} -> Nat] : RankedBy(rk)
    BY DEF Ranked
  <2>2. PICK rank \in [Client \cup {Front} -> Nat] :
            /\ rank[c] = rk[tail] + 1
            /\ \A n \in Client \cup {Front} : n # c => rank[n] = rk[n]
    <3>1. [rk EXCEPT ![c] = rk[tail] + 1] \in [Client \cup {Front} -> Nat]
      BY <1>1
    <3> QED
      BY <3>1
  <2>3. ASSUME NEW n \in Nodes \cup {c}, next'[n] # Null
        PROVE  rank[n] < rank[next'[n]]
    <3>1. n # c /\ n \in Nodes /\ n \in Client \cup {Front}
      BY <1>2, <2>3, NodesType
    <3>2. CASE n = tail
      BY <1>1, <1>2, <2>2, <3>1, <3>2
    <3>3. CASE n # tail
      <4>1. /\ next'[n] = next[n] /\ next[n] \in Nodes /\ next[n] # c
            /\ rk[n] < rk[next[n]]
        BY <1>3, <2>1, <2>3, <3>1, <3>3 DEF Chain, RankedBy
      <4> QED
        BY <2>2, <3>1, <4>1, NodesType
    <3> QED
      BY <3>2, <3>3
  <2> QED
    BY <2>3 DEF Ranked, RankedBy
<1> QED
  BY <1>2, <1>3, <1>4, <1>5

(* process_request_queue takes out the node behind the one it is at. *)
LEMMA UnlinkChain ==
    ASSUME TypeOK, Chain, Ranked, Walk, Scanning, Visited # Null,
           Unlink(Visited), Nodes' = Nodes \ {Visited}
    PROVE  /\ Chain' /\ Ranked'
           /\ next' \in [Client \cup {Front} -> Client \cup {Null}]
           /\ Visited \in Nodes /\ Visited # acceptor.node
           /\ next'[acceptor.node] = next[Visited]
           /\ \A n \in Nodes : n # acceptor.node => next'[n] = next[n]
<1> DEFINE c == Visited
           a == acceptor.node
<1>1. /\ a \in Nodes /\ next[a] = c /\ c # Null /\ c \in Nodes
      /\ next \in [Client \cup {Front} -> Client \cup {Null}]
  BY DEF TypeOK, Chain, Walk, Visited
<1>2. PICK rk \in [Client \cup {Front} -> Nat] : RankedBy(rk)
  BY DEF Ranked
<1>3. /\ next' = [next EXCEPT ![a] = next[c]]
      /\ tail' = IF tail = c THEN a ELSE tail
  BY DEF Unlink
<1> HIDE DEF c, a
<1>4. rk[a] < rk[c] /\ a # c
  BY <1>1, <1>2, NodesType DEF RankedBy
<1>5. /\ next' \in [Client \cup {Front} -> Client \cup {Null}]
      /\ next'[a] = next[c]
      /\ \A n \in Nodes : n # a => next'[n] = next[n]
  BY <1>1, <1>3, NodesType
<1>6. \A n \in Nodes : next[n] = c => n = a
  BY <1>1 DEF Chain
<1>7. next[c] # c
  BY <1>1, <1>4, <1>6
<1>8. \A n \in Nodes \ {c} : next'[n] \in (Nodes \ {c}) \cup {Null}
  <2> SUFFICES ASSUME NEW n \in Nodes \ {c}
               PROVE  next'[n] \in (Nodes \ {c}) \cup {Null}
    OBVIOUS
  <2>1. CASE n = a
    BY <1>1, <1>5, <1>7, <2>1 DEF Chain
  <2>2. CASE n # a
    BY <1>5, <1>6, <2>2 DEF Chain
  <2> QED
    BY <2>1, <2>2
<1>9. ASSUME NEW m \in Nodes \ {c}, NEW n \in Nodes \ {c},
             next'[m] = next'[n], next'[m] # Null
      PROVE  m = n
  BY <1>1, <1>5, <1>9 DEF Chain
<1>10. tail' \in Nodes \ {c}
  BY <1>1, <1>3, <1>4 DEF Chain
<1>11. Chain'
  BY <1>8, <1>9, <1>10 DEF Chain, c
<1>12. ASSUME NEW n \in Nodes \ {c}, next'[n] # Null
       PROVE  rk[n] < rk[next'[n]]
  <2>1. CASE n = a
    <3>1. next[c] # Null /\ next'[n] = next[c] /\ rk[c] < rk[next[c]]
      BY <1>1, <1>2, <1>5, <1>12, <2>1 DEF RankedBy
    <3>2. next[c] \in Nodes
      BY <1>1, <3>1 DEF Chain
    <3>3. rk[a] \in Nat /\ rk[c] \in Nat /\ rk[next[c]] \in Nat
      BY <1>1, <1>2, <3>2, NodesType
    <3> QED
      BY <1>4, <2>1, <3>1, <3>3
  <2>2. CASE n # a
    BY <1>2, <1>5, <1>12, <2>2 DEF RankedBy
  <2> QED
    BY <2>1, <2>2
<1>13. Ranked'
  BY <1>2, <1>12 DEF Ranked, RankedBy, c
<1> QED
  BY <1>1, <1>4, <1>5, <1>11, <1>13 DEF c, a

(* Nothing is stored, and the same nodes are alive; the tail may become    *)
(* another live node.                                                      *)
LEMMA SameChain ==
    ASSUME Chain, Ranked, next' = next, Nodes' = Nodes, tail' \in Nodes
    PROVE  Chain' /\ Ranked'
<1>1. Chain'
  BY DEF Chain
<1>2. Ranked'
  BY DEF Ranked, RankedBy
<1> QED
  BY <1>1, <1>2

----------------------------------------------------------------------------
(* The counts *)

(* The number of clients that, by st, are in one of the stages T. *)
NumIn(st, T) == Cardinality({d \in Client : st[d] \in T})

(* How the number changes when a client goes on. *)
LEMMA CountMoves ==
    ASSUME TypeOK, NEW c \in Client, NEW s \in Stages, Goto(c, s), NEW T
    PROVE  /\ NumIn(stage, T) \in Nat
           /\ stage[c] \notin T /\ s \in T => NumIn(stage', T) = NumIn(stage, T) + 1
           /\ stage[c] \in T /\ s \notin T => NumIn(stage', T) = NumIn(stage, T) - 1
           /\ (stage[c] \in T <=> s \in T) => NumIn(stage', T) = NumIn(stage, T)
<1> DEFINE A == {d \in Client : stage[d] \in T}
           B == {d \in Client : stage'[d] \in T}
<1>1. stage'[c] = s /\ \A d \in Client : d # c => stage'[d] = stage[d]
  BY DEF TypeOK, Goto
<1>2. IsFiniteSet(A)
  <2>1. A \in SUBSET Client /\ IsFiniteSet(Client)
    BY IntakeAssumption
  <2> QED
    BY <2>1, FS_Subset
<1>3. Cardinality(A) \in Nat
  BY <1>2, FS_CardinalityType
<1>4. ASSUME stage[c] \notin T, s \in T
      PROVE  Cardinality(B) = Cardinality(A) + 1
  <2>1. B = A \cup {c} /\ c \notin A
    BY <1>1, <1>4
  <2> HIDE DEF A, B
  <2> QED
    BY <1>2, <2>1, FS_AddElement
<1>5. ASSUME stage[c] \in T, s \notin T
      PROVE  Cardinality(B) = Cardinality(A) - 1
  <2>1. B = A \ {c} /\ c \in A
    BY <1>1, <1>5
  <2> HIDE DEF A, B
  <2> QED
    BY <1>2, <2>1, FS_RemoveElement
<1>6. ASSUME stage[c] \in T <=> s \in T
      PROVE  B = A
  BY <1>1, <1>6
<1> QED
  BY <1>3, <1>4, <1>5, <1>6 DEF NumIn

(* The stages of a client that the limit is about. *)
Limited == {"new", "req", "con", "busy"}

(* As many clients exist as are counted, so the count has its type. *)
LEMMA CountedType ==
    ASSUME ClientsCounted
    PROVE  clients \in 0 .. Cardinality(Client)
<1> DEFINE A == {c \in Client : stage[c] \notin NoClient}
<1>1. A \in SUBSET Client /\ IsFiniteSet(Client)
  BY IntakeAssumption
<1>2. /\ IsFiniteSet(A) /\ Cardinality(A) <= Cardinality(Client)
      /\ Cardinality(Client) \in Nat
  BY <1>1, FS_Subset, FS_CardinalityType
<1>3. Cardinality(A) \in Nat
  BY <1>2, FS_CardinalityType
<1> QED
  BY <1>2, <1>3 DEF ClientsCounted

(* A client goes from stage to stage and is counted, uncounted or neither. *)
LEMMA CountedMoves ==
    ASSUME TypeOK, ClientsCounted, NEW c \in Client, NEW s \in Stages, Goto(c, s),
           \/ /\ stage[c] \in NoClient <=> s \in NoClient
              /\ clients' = clients /\ (s \in Limited => stage[c] \in Limited)
           \/ stage[c] \notin NoClient /\ s \in NoClient /\ clients' = clients - 1
           \/ /\ stage[c] \in NoClient /\ s \notin NoClient /\ clients' = clients + 1
              /\ s = "reply" \/ ~OverLimit(clients + 1)
    PROVE  ClientsCounted' /\ clients' \in 0 .. Cardinality(Client)
<1> DEFINE H == Stages \ NoClient
           A == {d \in Client : stage[d] \in H}
           B == {d \in Client : stage'[d] \in H}
           L == {d \in Client : stage[d] \in Limited}
           M == {d \in Client : stage'[d] \in Limited}
<1>1. stage' \in [Client -> Stages] /\ stage \in [Client -> Stages]
  BY DEF TypeOK, Goto
<1>2. /\ A = {d \in Client : stage[d] \notin NoClient}
      /\ B = {d \in Client : stage'[d] \notin NoClient}
  BY <1>1
<1>3. L \subseteq A /\ Limited \subseteq H
  BY DEF Limited, NoClient, Stages
<1>4. /\ Cardinality(A) \in Nat /\ clients = Cardinality(A)
      /\ stage[c] \notin H /\ s \in H => Cardinality(B) = Cardinality(A) + 1
      /\ stage[c] \in H /\ s \notin H => Cardinality(B) = Cardinality(A) - 1
      /\ (stage[c] \in H <=> s \in H) => Cardinality(B) = Cardinality(A)
  <2>1. Cardinality(A) = NumIn(stage, H) /\ Cardinality(B) = NumIn(stage', H)
    BY DEF NumIn
  <2>2. clients = Cardinality(A)
    BY <1>2 DEF ClientsCounted
  <2> HIDE DEF A, B, H
  <2> QED
    BY <2>1, <2>2, CountMoves
<1>5. /\ Cardinality(L) \in Nat /\ Cardinality(L) <= ClientLimit
      /\ stage[c] \notin Limited /\ s \in Limited => Cardinality(M) = Cardinality(L) + 1
      /\ stage[c] \in Limited /\ s \notin Limited => Cardinality(M) = Cardinality(L) - 1
      /\ (stage[c] \in Limited <=> s \in Limited) => Cardinality(M) = Cardinality(L)
  <2>1. Cardinality(L) = NumIn(stage, Limited) /\ Cardinality(M) = NumIn(stage', Limited)
    BY DEF NumIn
  <2>2. Cardinality(L) <= ClientLimit
    BY DEF ClientsCounted, Limited
  <2> HIDE DEF L, M
  <2> QED
    BY <2>1, <2>2, CountMoves
<1>6. Cardinality(L) <= Cardinality(A)
  <2>1. A \in SUBSET Client /\ L \in SUBSET A /\ IsFiniteSet(Client)
    BY <1>3, IntakeAssumption
  <2> QED
    BY <2>1, FS_Subset
<1>7. stage[c] \in H <=> stage[c] \notin NoClient
  BY <1>1
<1>8. s \in H <=> s \notin NoClient
  OBVIOUS
<1>9. ClientLimit \in Nat
  BY IntakeAssumption
<1>10. /\ "reply" \notin Limited /\ (s \in Limited => s \in H)
       /\ (stage[c] \in Limited => stage[c] \in H)
  BY <1>3 DEF Limited
<1> HIDE DEF A, B, L, M, H
<1>11. clients' = Cardinality(B)
  BY <1>4, <1>7, <1>8
<1>12. Cardinality(M) <= ClientLimit
  BY <1>4, <1>5, <1>6, <1>7, <1>8, <1>9, <1>10 DEF OverLimit
<1>13. ClientsCounted'
  BY <1>2, <1>11, <1>12 DEF ClientsCounted, M, Limited
<1>14. clients' \in 0 .. Cardinality(Client)
  <2>1. IsFiniteSet(Client) /\ B \in SUBSET Client
    BY IntakeAssumption DEF B
  <2>2. IsFiniteSet(B) /\ Cardinality(B) <= Cardinality(Client) /\ Cardinality(Client) \in Nat
    BY <2>1, FS_Subset, FS_CardinalityType
  <2>3. Cardinality(B) \in Nat
    BY <2>2, FS_CardinalityType
  <2> QED
    BY <1>11, <2>2, <2>3
<1> QED
  BY <1>13, <1>14

----------------------------------------------------------------------------
(* What the steps do *)

(* A client goes to another stage. *)
LEMMA GotoEffect ==
    ASSUME TypeOK, NEW c \in Client, NEW s \in Stages, Goto(c, s)
    PROVE  /\ stage' \in [Client -> Stages] /\ stage'[c] = s
           /\ \A d \in Client : d # c => stage'[d] = stage[d]
BY DEF TypeOK, Goto

(* client_destroy forgets what was known of the client, only. *)
LEMMA ForgetEffect ==
    ASSUME TypeOK, NEW c \in Client, Forget(c)
    PROVE  /\ inbox' \in [Client -> Inbox] /\ shoutcast' \in [Client -> 0 .. 2]
           /\ ok2' \subseteq Client /\ late' \subseteq Client /\ reuse' \subseteq Client
           /\ inbox'[c] = "nothing" /\ c \notin late'
           /\ \A d \in Client : d # c => /\ inbox'[d] = inbox[d]
                                         /\ d \in late' <=> d \in late
BY DEF TypeOK, Forget, Inbox

(* _handle_connection takes the first client of the connection queue. *)
LEMMA TakeEffect ==
    ASSUME TypeOK, Handed, conQueue # <<>>, conQueue' = Tail(conQueue)
    PROVE  /\ First \in Client /\ stage[First] = "con"
           /\ conQueue' \in Seq(Client)
           /\ \A i \in 1 .. Len(conQueue') :
                 /\ conQueue'[i] \in Client /\ conQueue'[i] # First
                 /\ stage[conQueue'[i]] = "con"
                 /\ \E j \in 1 .. Len(conQueue) : conQueue'[i] = conQueue[j]
           /\ \A i, j \in 1 .. Len(conQueue') : conQueue'[i] = conQueue'[j] => i = j
<1> DEFINE n == Len(conQueue)
<1>1. conQueue \in Seq(Client) /\ n \in Nat /\ n # 0
  BY LenProperties, EmptySeq DEF TypeOK
<1>2. /\ conQueue' \in Seq(Client) /\ Len(conQueue') = n - 1
      /\ \A i \in 1 .. n - 1 : conQueue'[i] = conQueue[i + 1]
  BY <1>1, HeadTailProperties
<1>3. \A i \in 1 .. n : conQueue[i] \in Client /\ stage[conQueue[i]] = "con"
  BY <1>1, ElementOfSeq DEF Handed
<1>4. \A i, j \in 1 .. n : conQueue[i] = conQueue[j] => i = j
  BY DEF Handed
<1>5. \A i \in 1 .. n - 1 : i + 1 \in 1 .. n /\ i + 1 # 1
  BY <1>1
<1>6. 1 \in 1 .. n
  BY <1>1
<1> HIDE DEF n
<1>7. ASSUME NEW i \in 1 .. n - 1, NEW j \in 1 .. n - 1, conQueue'[i] = conQueue'[j]
      PROVE  i = j
  <2>1. i + 1 = j + 1
    BY <1>2, <1>4, <1>5, <1>7
  <2> QED
    BY <2>1
<1>8. ASSUME NEW i \in 1 .. n - 1
      PROVE  /\ conQueue'[i] \in Client /\ conQueue'[i] # First
             /\ stage[conQueue'[i]] = "con"
             /\ \E j \in 1 .. n : conQueue'[i] = conQueue[j]
  BY <1>2, <1>3, <1>4, <1>5, <1>6 DEF First
<1>9. First \in Client /\ stage[First] = "con"
  BY <1>3, <1>6 DEF First
<1>10. 1 .. Len(conQueue') = 1 .. n - 1 /\ conQueue' \in Seq(Client)
  BY <1>2
<1> QED
  BY <1>7, <1>8, <1>9, <1>10, Zenon DEF n

(* The same nodes are alive after a step that moves no client into or out  *)
(* of the request queue.                                                   *)
LEMMA SameNodes ==
    ASSUME \A c \in Client : stage'[c] \in {"new", "req"} <=> stage[c] \in {"new", "req"},
           \/ acceptor' = acceptor
           \/ acceptor.at # "appendAgain" /\ acceptor'.at # "appendAgain"
    PROVE  Nodes' = Nodes
BY DEF Nodes

(* A step that leaves the queue alone, and by which no append begins or    *)
(* ends.                                                                   *)
LEMMA QuietQueue ==
    ASSUME QueueInv, UNCHANGED queueVars, Nodes' = Nodes,
           acceptor' = acceptor \/ (~AcceptorAppends /\ ~AcceptorAppends'),
           server' = server \/ (server.at # "append" /\ server'.at # "append"),
           acceptor' = acceptor \/ Walk'
    PROVE  QueueInv'
<1>1. next' = next /\ tail' = tail /\ raced' = raced
  BY DEF queueVars
<1>2. Chain' /\ Ranked'
  BY <1>1, SameChain DEF QueueInv, Chain
<1>3. Walk'
  BY DEF QueueInv, Walk, Scanning
<1>4. /\ MidAppend' <=> MidAppend
      /\ AcceptorAppends' <=> AcceptorAppends
      /\ AcceptorAppends => acceptor' = acceptor
      /\ (server'.at = "append") <=> (server.at = "append")
      /\ server.at = "append" => server' = server
  BY DEF MidAppend, AcceptorAppends
<1>5. Whole'
  BY <1>1, <1>4 DEF QueueInv, Whole
<1> QED
  BY <1>2, <1>3, <1>5 DEF QueueInv

----------------------------------------------------------------------------
(* The steps keep the invariant *)

(* The server starts with empty queues and no client. *)
LEMMA InitInv == Init => IInv
<1> SUFFICES ASSUME Init PROVE IInv
  OBVIOUS
<1>1. ClientsCounted
  <2>1. {c \in Client : stage[c] \notin NoClient} = {}
    BY DEF Init, NoClient
  <2>2. {c \in Client : stage[c] \in {"new", "req", "con", "busy"}} = {}
    BY DEF Init
  <2>3. Cardinality({}) = 0 /\ clients = 0 /\ 0 <= ClientLimit
    BY FS_EmptySet, IntakeAssumption DEF Init
  <2> QED
    BY <2>1, <2>2, <2>3, Zenon DEF ClientsCounted
<1>2. clients \in 0 .. Cardinality(Client)
  BY <1>1, CountedType
<1>3. TypeOK
  <2>1. stage \in [Client -> Stages] /\ inbox \in [Client -> Inbox]
    BY DEF Init, Stages, Inbox
  <2>2. /\ next \in [Client \cup {Front} -> Client \cup {Null}]
        /\ shoutcast \in [Client -> 0 .. 2] /\ conQueue \in Seq(Client)
    BY DEF Init
  <2> QED
    BY <1>2, <2>1, <2>2 DEF Init, TypeOK
<1>4. Nodes = {Front}
  BY DEF Init, Nodes
<1>5. Chain /\ Walk /\ Whole
  BY <1>4, NodesType DEF Init, Chain, Walk, Whole, Scanning, MidAppend, AcceptorAppends
<1>6. Ranked
  <2>1. [n \in Client \cup {Front} |-> 0] \in [Client \cup {Front} -> Nat]
    OBVIOUS
  <2> QED
    BY <1>4, <2>1 DEF Init, Ranked, RankedBy
<1>7. PlaceInv
  BY DEF Init, PlaceInv, Awaited, Handed, Appending
<1> QED
  BY <1>1, <1>3, <1>5, <1>6, <1>7 DEF IInv, QueueInv

(* The peers, and the handlers of requests. *)
LEMMA PeerInv ==
    ASSUME IInv, NEW c \in Client,
           \/ Knock(c) \/ (\E x \in Inbox : Send(c, x)) \/ HeaderTimeout(c)
           \/ AnswerOK2(c) \/ Answer(c) \/ Leave(c) \/ ReplyClosed(c)
    PROVE  IInv'
<1>1. /\ acceptor' = acceptor /\ server' = server /\ conQueue' = conQueue
      /\ UNCHANGED queueVars
  BY DEF Knock, Send, HeaderTimeout, AnswerOK2, Answer, Leave, ReplyClosed
<1>2. TypeOK /\ ClientsCounted
  BY DEF IInv
<1>3. CASE (\E x \in Inbox : Send(c, x)) \/ HeaderTimeout(c) \/ AnswerOK2(c)
  <2>1. stage' = stage /\ clients' = clients
    BY <1>3 DEF Send, HeaderTimeout, AnswerOK2
  <2>2. TypeOK'
    <3>1. /\ inbox' \in [Client -> Inbox] /\ shoutcast' = shoutcast /\ reuse' = reuse
          /\ ok2' \subseteq Client /\ late' \subseteq Client
      BY <1>2, <1>3 DEF TypeOK, Send, HeaderTimeout, AnswerOK2
    <3> QED
      BY <1>1, <1>2, <2>1, <3>1 DEF TypeOK, queueVars
  <2>3. Awaited'
    BY <1>2, <1>3, <2>1 DEF IInv, PlaceInv, Awaited, TypeOK, Send, HeaderTimeout, AnswerOK2
  <2>4. Handed' /\ Appending'
    BY <1>1, <2>1 DEF IInv, PlaceInv, Handed, Appending
  <2>5. QueueInv'
    BY <1>1, <2>1, SameNodes, QuietQueue DEF IInv
  <2>6. ClientsCounted'
    BY <1>2, <2>1 DEF ClientsCounted
  <2> QED
    BY <2>2, <2>3, <2>4, <2>5, <2>6 DEF IInv, PlaceInv
<1>4. CASE Knock(c) \/ Answer(c) \/ Leave(c) \/ ReplyClosed(c)
  <2>1. PICK s \in {"knock", "reply", "out"} : Goto(c, s)
    BY <1>4 DEF Knock, Answer, Leave, ReplyClosed, Destroy
  <2>2. /\ stage' \in [Client -> Stages] /\ stage'[c] = s
        /\ \A d \in Client : d # c => stage'[d] = stage[d]
    BY <1>2, <2>1, GotoEffect DEF Stages
  <2>3. stage[c] \in {"out", "busy", "reply"}
    BY <1>4 DEF Knock, Answer, Leave, ReplyClosed
  <2>4. /\ ClientsCounted' /\ clients' \in 0 .. Cardinality(Client)
    <3>1. /\ Goto(c, s) /\ s \in Stages
          /\ \/ (stage[c] = "out" /\ s = "knock" /\ clients' = clients)
             \/ (stage[c] = "busy" /\ s = "reply" /\ clients' = clients)
             \/ (stage[c] \in {"busy", "reply"} /\ s = "out" /\ clients' = clients - 1)
      BY <1>4, <2>1, <2>2 DEF Knock, Answer, Leave, ReplyClosed, Destroy, Uncount,
                              Stages, Goto, TypeOK
    <3> QED
      BY <1>2, <3>1, CountedMoves DEF NoClient, Limited
  <2>5. /\ inbox' \in [Client -> Inbox] /\ shoutcast' \in [Client -> 0 .. 2]
        /\ ok2' \subseteq Client /\ late' \subseteq Client /\ reuse' \subseteq Client
        /\ \A d \in Client : inbox'[d] # "nothing" \/ d \in late' =>
                             inbox[d] # "nothing" \/ d \in late
    <3>1. CASE Knock(c) \/ Answer(c)
      BY <1>2, <3>1 DEF Knock, Answer, TypeOK
    <3>2. CASE Leave(c) \/ ReplyClosed(c)
      BY <1>2, <3>2, ForgetEffect DEF Leave, ReplyClosed, Destroy
    <3> QED
      BY <1>4, <3>1, <3>2
  <2>6. TypeOK'
    BY <1>1, <1>2, <2>2, <2>4, <2>5 DEF TypeOK, queueVars
  <2>7. Awaited'
    BY <2>2, <2>3, <2>5 DEF IInv, PlaceInv, Awaited
  <2>8. Handed' /\ Appending'
    <3>1. \A i \in 1 .. Len(conQueue) : conQueue[i] \in Client
      BY <1>2, ElementOfSeq DEF TypeOK
    <3>2. Handed'
      BY <1>1, <2>2, <2>3, <3>1 DEF IInv, PlaceInv, Handed
    <3>3. Appending'
      BY <1>1, <2>2, <2>3 DEF IInv, PlaceInv, Appending
    <3> QED
      BY <3>2, <3>3
  <2>9. QueueInv'
    <3>1. Nodes' = Nodes
      BY <1>1, <2>2, <2>3, SameNodes
    <3> QED
      BY <1>1, <3>1, QuietQueue DEF IInv
  <2> QED
    BY <2>4, <2>6, <2>7, <2>8, <2>9 DEF IInv, PlaceInv
<1> QED
  BY <1>3, <1>4

(* The accept loop goes on without changing a queue. *)
LEMMA LoopInv ==
    ASSUME IInv,
           \/ (\E c \in Client : Refuse(c)) \/ NoConnection
           \/ ScanEnds \/ ScanSkip \/ HandleEnds
    PROVE  IInv'
<1>1. /\ server' = server /\ conQueue' = conQueue /\ clients' = clients
      /\ UNCHANGED <<inbox, shoutcast, ok2, late, reuse>>
      /\ UNCHANGED queueVars
  BY DEF Refuse, NoConnection, ScanEnds, ScanSkip, HandleEnds
<1>2. TypeOK /\ ClientsCounted
  BY DEF IInv
<1>3. /\ acceptor.at \in {"accept", "scan", "handle"}
      /\ acceptor' \in [at : {"accept", "scan", "handle"}, node : Client \cup {Front, Null}]
      /\ acceptor'.at \in {"accept", "scan", "handle"}
      /\ acceptor'.at = "scan" => acceptor'.node \in Nodes
  <2>1. CASE (\E c \in Client : Refuse(c)) \/ NoConnection \/ ScanEnds \/ HandleEnds
    BY <2>1, NodesType DEF Refuse, NoConnection, ScanEnds, HandleEnds, AcceptorAt,
                           Scanning, Handling
  <2>2. CASE ScanSkip
    <3>1. acceptor.at = "scan" /\ Visited # Null /\ acceptor' = [at |-> "scan", node |-> Visited]
      BY <2>2 DEF ScanSkip, AcceptorAt, Scanning
    <3>2. Visited \in Nodes
      BY <3>1 DEF IInv, QueueInv, Walk, Chain, Scanning, Visited
    <3> QED
      BY <3>1, <3>2, NodesType
  <2> QED
    BY <2>1, <2>2
<1>4. /\ stage' \in [Client -> Stages]
      /\ \A d \in Client : stage'[d] # stage[d] => stage[d] = "knock" /\ stage'[d] = "out"
      /\ ClientsCounted'
  <2>1. CASE \E c \in Client : Refuse(c)
    <3>1. PICK c \in Client : Refuse(c)
      BY <2>1
    <3>2. stage[c] = "knock" /\ Goto(c, "out") /\ "out" \in Stages
      BY <3>1 DEF Refuse, Stages
    <3>3. ClientsCounted'
      BY <1>1, <1>2, <3>2, CountedMoves DEF NoClient, Limited
    <3> QED
      BY <1>2, <3>2, <3>3, GotoEffect
  <2>2. CASE NoConnection \/ ScanEnds \/ ScanSkip \/ HandleEnds
    <3>1. stage' = stage
      BY <2>2 DEF NoConnection, ScanEnds, ScanSkip, HandleEnds
    <3> QED
      BY <1>1, <1>2, <3>1 DEF TypeOK, ClientsCounted
  <2> QED
    BY <2>1, <2>2
<1>5. Nodes' = Nodes
  BY <1>3, <1>4, SameNodes
<1>6. TypeOK'
  BY <1>1, <1>2, <1>3, <1>4 DEF TypeOK, queueVars
<1>7. Awaited'
  BY <1>1, <1>4 DEF IInv, PlaceInv, Awaited
<1>8. Handed'
  <2>1. \A i \in 1 .. Len(conQueue) : conQueue[i] \in Client
    BY <1>2, ElementOfSeq DEF TypeOK
  <2> QED
    BY <1>1, <1>4, <2>1 DEF IInv, PlaceInv, Handed
<1>9. Appending'
  BY <1>1, <1>3, <1>4 DEF IInv, PlaceInv, Appending
<1>10. QueueInv'
  <2>1. Walk'
    BY <1>3, <1>5 DEF Walk, Scanning
  <2>2. ~AcceptorAppends /\ ~AcceptorAppends'
    BY <1>3 DEF AcceptorAppends
  <2> QED
    BY <1>1, <1>5, <2>1, <2>2, QuietQueue DEF IInv
<1> QED
  BY <1>4, <1>6, <1>7, <1>8, <1>9, <1>10 DEF IInv, PlaceInv

(* A request that was handed over is dropped, answered or passed on. *)
LEMMA HandleInv ==
    ASSUME IInv, HandleDrop \/ HandleUpgrade \/ HandleRequest
    PROVE  IInv'
<1> DEFINE c == First
<1>1. /\ acceptor' = acceptor /\ acceptor.at = "handle" /\ server' = server
      /\ conQueue # <<>> /\ conQueue' = Tail(conQueue)
      /\ UNCHANGED queueVars
  BY DEF HandleDrop, HandleUpgrade, HandleRequest, Handling
<1>2. TypeOK /\ ClientsCounted /\ Handed /\ Awaited /\ Appending
  BY DEF IInv, PlaceInv
<1>3. /\ c \in Client /\ stage[c] = "con"
      /\ conQueue' \in Seq(Client)
      /\ \A i \in 1 .. Len(conQueue') :
            conQueue'[i] \in Client /\ conQueue'[i] # c /\ stage[conQueue'[i]] = "con"
      /\ \A i, j \in 1 .. Len(conQueue') : conQueue'[i] = conQueue'[j] => i = j
  BY <1>1, <1>2, TakeEffect
<1>4. PICK s \in {"out", "reply", "busy"} :
          Goto(c, s) /\ clients' = IF s = "out" THEN clients - 1 ELSE clients
  BY DEF HandleDrop, HandleUpgrade, HandleRequest, Destroy, Uncount
<1>5. /\ inbox' \in [Client -> Inbox] /\ shoutcast' \in [Client -> 0 .. 2]
      /\ ok2' \subseteq Client /\ late' \subseteq Client /\ reuse' \subseteq Client
      /\ \A d \in Client : inbox'[d] # "nothing" \/ d \in late' =>
                           inbox[d] # "nothing" \/ d \in late
  <2>1. CASE HandleDrop
    BY <1>2, <1>3, <2>1, ForgetEffect DEF HandleDrop, Destroy
  <2>2. CASE HandleUpgrade \/ HandleRequest
    BY <1>2, <1>3, <2>2 DEF HandleUpgrade, HandleRequest, TypeOK
  <2> QED
    BY <2>1, <2>2
<1> HIDE DEF c
<1>6. /\ stage' \in [Client -> Stages] /\ stage'[c] = s
      /\ \A d \in Client : d # c => stage'[d] = stage[d]
  BY <1>2, <1>3, <1>4, GotoEffect DEF Stages
<1>7. ClientsCounted' /\ clients' \in 0 .. Cardinality(Client)
  BY <1>2, <1>3, <1>4, CountedMoves DEF NoClient, Limited, Stages
<1>8. TypeOK'
  BY <1>1, <1>2, <1>3, <1>5, <1>6, <1>7 DEF TypeOK, queueVars
<1>9. Awaited'
  BY <1>2, <1>3, <1>5, <1>6 DEF Awaited
<1>10. Handed'
  BY <1>3, <1>6 DEF Handed
<1>11. Appending'
  BY <1>1, <1>2, <1>3, <1>6 DEF Appending
<1>12. QueueInv'
  <2>1. Nodes' = Nodes
    BY <1>1, <1>3, <1>4, <1>6, SameNodes
  <2> QED
    BY <1>1, <2>1, QuietQueue DEF IInv
<1> QED
  BY <1>7, <1>8, <1>9, <1>10, <1>11, <1>12 DEF IInv, PlaceInv

(* The first store of an append, if nothing else goes on in the queue,     *)
(* leaves it whole.                                                        *)
LEMMA LinkWhole ==
    ASSUME TypeOK, QueueInv, NEW c \in Client, c \notin Nodes,
           Link(c), tail' = tail, Nodes' = Nodes \cup {c},
           \/ /\ ~AcceptorAppends /\ AcceptorAppends' /\ acceptor'.node = c
              /\ server' = server
           \/ /\ server.at # "append" /\ server'.at = "append" /\ server'.node = c
              /\ acceptor' = acceptor
    PROVE  QueueInv' /\ next' \in [Client \cup {Front} -> Client \cup {Null}]
<1>1. /\ Chain' /\ Ranked'
      /\ next' \in [Client \cup {Front} -> Client \cup {Null}]
      /\ next'[tail] = c /\ next'[c] = Null
      /\ \A n \in Nodes : n # tail => next'[n] = next[n]
  BY LinkChain DEF QueueInv
<1>2. Walk'
  BY DEF QueueInv, Walk, Scanning, AcceptorAppends
<1>3. ASSUME ~raced'
      PROVE  Whole'
  <2>1. ~raced /\ ~MidAppend
    BY <1>3 DEF Link
  <2>2. next[tail] = Null /\ tail \in Nodes
    BY <2>1 DEF QueueInv, Whole, Chain
  <2>3. \A d \in Nodes \ {Front} : \E p \in Nodes : next'[p] = d
    <3> SUFFICES ASSUME NEW d \in Nodes \ {Front}
                 PROVE  \E p \in Nodes : next'[p] = d
      OBVIOUS
    <3>1. PICK p \in Nodes : next[p] = d
      BY <2>1 DEF QueueInv, Whole
    <3>2. p # tail
      BY <2>2, <3>1, NodesType
    <3> QED
      BY <1>1, <3>1, <3>2
  <2>4. \A d \in Nodes' \ {Front} : \E p \in Nodes' : next'[p] = d
    BY <1>1, <2>2, <2>3
  <2>5. /\ ~(AcceptorAppends' /\ server'.at = "append")
        /\ AcceptorAppends' \/ server'.at = "append"
        /\ AcceptorAppends' => acceptor'.node = c
        /\ server'.at = "append" => server'.node = c
        /\ MidAppend'
    BY <2>1 DEF MidAppend, AcceptorAppends
  <2> QED
    BY <1>1, <2>4, <2>5 DEF Whole
<1> QED
  BY <1>1, <1>2, <1>3 DEF QueueInv, Whole

(* A shoutcast client whose password was read goes back to the queue. *)
LEMMA HandlePasswordInv ==
    ASSUME IInv, HandlePassword
    PROVE  IInv'
<1> DEFINE c == First
<1>1. /\ acceptor' = [at |-> "appendAgain", node |-> c] /\ acceptor.at = "handle"
      /\ server' = server /\ Link(c) /\ tail' = tail
      /\ conQueue # <<>> /\ conQueue' = Tail(conQueue)
      /\ shoutcast' = [shoutcast EXCEPT ![c] = 2]
      /\ UNCHANGED <<stage, inbox, ok2, late, reuse, clients>>
  BY DEF HandlePassword, Handling, AcceptorAt
<1>2. TypeOK /\ ClientsCounted /\ Handed /\ Awaited /\ Appending
  BY DEF IInv, PlaceInv
<1>3. /\ c \in Client /\ stage[c] = "con"
      /\ conQueue' \in Seq(Client)
      /\ \A i \in 1 .. Len(conQueue') :
            conQueue'[i] \in Client /\ conQueue'[i] # c /\ stage[conQueue'[i]] = "con"
      /\ \A i, j \in 1 .. Len(conQueue') : conQueue'[i] = conQueue'[j] => i = j
  BY <1>1, <1>2, TakeEffect
<1> HIDE DEF c
<1>4. acceptor'.at = "appendAgain" /\ acceptor'.node = c
  BY <1>1
<1>5. c \notin Nodes /\ Nodes' = Nodes \cup {c}
  BY <1>1, <1>3, <1>4, NodesType DEF Nodes
<1>6. QueueInv' /\ next' \in [Client \cup {Front} -> Client \cup {Null}]
  BY <1>1, <1>2, <1>3, <1>4, <1>5, LinkWhole DEF IInv, AcceptorAppends
<1>7. raced' \in BOOLEAN
  BY <1>1, <1>2, Zenon DEF Link, TypeOK
<1>8. TypeOK'
  <2>1. shoutcast' \in [Client -> 0 .. 2]
    BY <1>1, <1>2, <1>3 DEF TypeOK
  <2> QED
    BY <1>1, <1>2, <1>3, <1>6, <1>7, <2>1 DEF TypeOK
<1>9. Awaited' /\ Handed'
  BY <1>1, <1>2, <1>3 DEF Awaited, Handed
<1>10. Appending'
  BY <1>1, <1>2, <1>3, <1>4 DEF Appending
<1>11. ClientsCounted'
  BY <1>1, <1>2 DEF ClientsCounted
<1> QED
  BY <1>6, <1>8, <1>9, <1>10, <1>11 DEF IInv, PlaceInv

(* A client is made for a connection and is to be appended to the queue,   *)
(* or is above the limit and only sent an error.                           *)
LEMMA QueueEffect ==
    ASSUME IInv, NEW c \in Client, stage[c] \in {"knock", "held"}, Queue(c)
    PROVE  /\ UNCHANGED <<inbox, ok2, late>>
           /\ shoutcast' \in [Client -> 0 .. 2] /\ reuse' \subseteq Client
           /\ ClientsCounted' /\ clients' \in 0 .. Cardinality(Client)
           /\ raced' \in BOOLEAN
           /\ \A d \in Client : d # c => stage'[d] = stage[d]
           /\ stage' \in [Client -> Stages]
           /\ c \notin Nodes
           /\ IF OverLimit(clients + 1)
              THEN stage'[c] = "reply" /\ UNCHANGED <<next, raced>>
              ELSE stage'[c] = "new" /\ Link(c)
<1>1. TypeOK /\ ClientsCounted
  BY DEF IInv
<1>2. shoutcast' \in [Client -> 0 .. 2] /\ reuse' \subseteq Client
  BY <1>1 DEF Queue, TypeOK
<1>3. PICK s \in {"reply", "new"} :
          /\ Goto(c, s)
          /\ IF OverLimit(clients + 1) THEN s = "reply" /\ UNCHANGED <<next, raced>>
             ELSE s = "new" /\ Link(c)
  BY DEF Queue
<1>4. clients' = clients + 1 /\ UNCHANGED <<inbox, ok2, late>>
  BY DEF Queue
<1>5. /\ stage' \in [Client -> Stages] /\ stage'[c] = s
      /\ \A d \in Client : d # c => stage'[d] = stage[d]
  BY <1>1, <1>3, GotoEffect DEF Stages
<1>6. ClientsCounted' /\ clients' \in 0 .. Cardinality(Client)
  BY <1>1, <1>3, <1>4, CountedMoves DEF NoClient, Stages
<1>7. raced' \in BOOLEAN
  <2>1. raced' = raced \/ raced' = (raced \/ MidAppend)
    BY <1>3, Zenon DEF Link
  <2> QED
    BY <1>1, <2>1, Zenon DEF TypeOK
<1>8. c \notin Nodes
  BY NodesType DEF Nodes, IInv, PlaceInv, Appending
<1> QED
  BY <1>2, <1>3, <1>4, <1>5, <1>6, <1>7, <1>8

(* A connection is accepted and its client queued. *)
LEMMA AcceptInv ==
    ASSUME IInv, NEW c \in Client, Accept(c)
    PROVE  IInv'
<1>1. /\ acceptor.at = "accept" /\ stage[c] = "knock" /\ Queue(c)
      /\ tail' = tail /\ conQueue' = conQueue /\ server' = server
  BY DEF Accept
<1>2. TypeOK /\ ClientsCounted /\ Handed /\ Awaited /\ Appending /\ QueueInv
  BY DEF IInv, PlaceInv
<1>3. /\ UNCHANGED <<inbox, ok2, late>>
      /\ shoutcast' \in [Client -> 0 .. 2] /\ reuse' \subseteq Client
      /\ ClientsCounted' /\ clients' \in 0 .. Cardinality(Client)
      /\ raced' \in BOOLEAN
      /\ \A d \in Client : d # c => stage'[d] = stage[d]
      /\ stage' \in [Client -> Stages]
      /\ c \notin Nodes
      /\ IF OverLimit(clients + 1)
         THEN stage'[c] = "reply" /\ UNCHANGED <<next, raced>>
         ELSE stage'[c] = "new" /\ Link(c)
  BY <1>1, QueueEffect
<1>4. Awaited' /\ Handed'
  <2>1. \A i \in 1 .. Len(conQueue) : conQueue[i] \in Client
    BY <1>2, ElementOfSeq DEF TypeOK
  <2> QED
    BY <1>1, <1>2, <1>3, <2>1 DEF Awaited, Handed
<1>5. CASE OverLimit(clients + 1)
  <2>1. acceptor' = [at |-> "scan", node |-> Front]
    BY <1>5 DEF Accept, AcceptorAt
  <2>2. Nodes' = Nodes
    BY <1>1, <1>3, <1>5, <2>1, SameNodes
  <2>3. QueueInv'
    <3>1. Walk' /\ ~AcceptorAppends /\ ~AcceptorAppends'
      BY <1>1, <2>1, <2>2, NodesType DEF Walk, AcceptorAppends
    <3>2. UNCHANGED queueVars
      BY <1>1, <1>3, <1>5 DEF queueVars
    <3> QED
      BY <1>1, <1>2, <2>2, <3>1, <3>2, QuietQueue
  <2>4. TypeOK'
    BY <1>1, <1>2, <1>3, <1>5, <2>1 DEF TypeOK
  <2>5. Appending'
    BY <1>1, <1>2, <1>3, <1>5, <2>1 DEF Appending
  <2> QED
    BY <1>3, <1>4, <2>3, <2>4, <2>5 DEF IInv, PlaceInv
<1>6. CASE ~OverLimit(clients + 1)
  <2>1. acceptor' = [at |-> "append", node |-> c]
    BY <1>6 DEF Accept, AcceptorAt
  <2>2. acceptor'.at = "append" /\ acceptor'.node = c
    BY <2>1
  <2>3. Nodes' = Nodes \cup {c}
    BY <1>1, <1>3, <1>6, <2>2 DEF Nodes
  <2>4. QueueInv' /\ next' \in [Client \cup {Front} -> Client \cup {Null}]
    BY <1>1, <1>2, <1>3, <1>6, <2>2, <2>3, LinkWhole DEF AcceptorAppends
  <2>5. TypeOK'
    BY <1>1, <1>2, <1>3, <2>1, <2>4 DEF TypeOK
  <2>6. Appending'
    BY <1>1, <1>2, <1>3, <1>6, <2>2 DEF Appending
  <2> QED
    BY <1>3, <1>4, <2>4, <2>5, <2>6 DEF IInv, PlaceInv
<1> QED
  BY <1>5, <1>6

(* client_reuseconnection: the file serving thread queues a client for a   *)
(* connection that was kept.                                               *)
LEMMA ServerQueuesInv ==
    ASSUME IInv, ServerQueues
    PROVE  IInv'
<1> DEFINE c == server.node
<1>1. /\ server.at = "queue" /\ Queue(c)
      /\ tail' = tail /\ conQueue' = conQueue /\ acceptor' = acceptor
  BY DEF ServerQueues
<1>2. TypeOK /\ ClientsCounted /\ Handed /\ Awaited /\ Appending /\ QueueInv
  BY DEF IInv, PlaceInv
<1>3. c \in Client /\ stage[c] = "held"
  BY <1>1, <1>2 DEF Appending
<1>4. server' = IF OverLimit(clients + 1) THEN [at |-> "idle", node |-> Null]
                ELSE [at |-> "append", node |-> c]
  BY DEF ServerQueues, ServerAt
<1> HIDE DEF c
<1>5. /\ UNCHANGED <<inbox, ok2, late>>
      /\ shoutcast' \in [Client -> 0 .. 2] /\ reuse' \subseteq Client
      /\ ClientsCounted' /\ clients' \in 0 .. Cardinality(Client)
      /\ raced' \in BOOLEAN
      /\ \A d \in Client : d # c => stage'[d] = stage[d]
      /\ stage' \in [Client -> Stages]
      /\ c \notin Nodes
      /\ IF OverLimit(clients + 1)
         THEN stage'[c] = "reply" /\ UNCHANGED <<next, raced>>
         ELSE stage'[c] = "new" /\ Link(c)
  BY <1>1, <1>3, QueueEffect
<1>6. Awaited' /\ Handed'
  <2>1. \A i \in 1 .. Len(conQueue) : conQueue[i] \in Client
    BY <1>2, ElementOfSeq DEF TypeOK
  <2> QED
    BY <1>1, <1>2, <1>3, <1>5, <2>1 DEF Awaited, Handed
<1>7. CASE OverLimit(clients + 1)
  <2>1. server' = [at |-> "idle", node |-> Null]
    BY <1>4, <1>7
  <2>2. Nodes' = Nodes
    BY <1>1, <1>3, <1>5, <1>7, SameNodes
  <2>3. QueueInv'
    <3>1. UNCHANGED queueVars
      BY <1>1, <1>5, <1>7 DEF queueVars
    <3> QED
      BY <1>1, <1>2, <2>1, <2>2, <3>1, QuietQueue
  <2>4. TypeOK'
    BY <1>1, <1>2, <1>5, <1>7, <2>1 DEF TypeOK
  <2>5. Appending'
    BY <1>1, <1>2, <1>3, <1>5, <1>7, <2>1 DEF Appending
  <2> QED
    BY <1>5, <1>6, <2>3, <2>4, <2>5 DEF IInv, PlaceInv
<1>8. CASE ~OverLimit(clients + 1)
  <2>1. server' = [at |-> "append", node |-> c]
    BY <1>4, <1>8
  <2>2. server'.at = "append" /\ server'.node = c
    BY <2>1
  <2>3. Nodes' = Nodes \cup {c}
    BY <1>1, <1>3, <1>5, <1>8 DEF Nodes
  <2>4. QueueInv' /\ next' \in [Client \cup {Front} -> Client \cup {Null}]
    BY <1>1, <1>2, <1>3, <1>5, <1>8, <2>2, <2>3, LinkWhole
  <2>5. TypeOK'
    BY <1>1, <1>2, <1>3, <1>5, <2>1, <2>4 DEF TypeOK
  <2>6. Appending'
    BY <1>1, <1>2, <1>3, <1>5, <1>8, <2>2 DEF Appending
  <2> QED
    BY <1>5, <1>6, <2>4, <2>5, <2>6 DEF IInv, PlaceInv
<1> QED
  BY <1>7, <1>8

(* A node is taken out of the queue: if no append is under way it leaves   *)
(* the queue whole.                                                        *)
LEMMA UnlinkWhole ==
    ASSUME TypeOK, QueueInv, Scanning, Visited # Null,
           Unlink(Visited), Nodes' = Nodes \ {Visited},
           acceptor' = acceptor, server' = server
    PROVE  /\ QueueInv' /\ raced' \in BOOLEAN /\ tail' \in Client \cup {Front}
           /\ next' \in [Client \cup {Front} -> Client \cup {Null}]
<1> DEFINE c == Visited
           a == acceptor.node
<1>1. /\ Chain' /\ Ranked'
      /\ next' \in [Client \cup {Front} -> Client \cup {Null}]
      /\ c \in Nodes /\ c # a
      /\ next'[a] = next[c]
      /\ \A n \in Nodes : n # a => next'[n] = next[n]
  BY UnlinkChain DEF QueueInv
<1>2. /\ a \in Nodes /\ next[a] = c /\ c # Null
      /\ tail' = (IF tail = c THEN a ELSE tail) /\ tail \in Nodes
      /\ raced' = (raced \/ MidAppend)
  BY DEF QueueInv, Walk, Chain, Visited, Unlink
<1>3. Walk'
  BY <1>1, <1>2 DEF Walk, c, a
<1>4. raced' \in BOOLEAN
  BY <1>2, Zenon DEF TypeOK
<1> HIDE DEF c
<1>5. ASSUME ~raced'
      PROVE  Whole'
  <2>1. ~raced /\ ~MidAppend
    BY <1>2, <1>5
  <2>2. next[tail] = Null
    BY <2>1 DEF QueueInv, Whole
  <2>3. \A d \in (Nodes \ {c}) \ {Front} : \E p \in Nodes \ {c} : next'[p] = d
    <3> SUFFICES ASSUME NEW d \in (Nodes \ {c}) \ {Front}
                 PROVE  \E p \in Nodes \ {c} : next'[p] = d
      OBVIOUS
    <3>1. PICK p \in Nodes : next[p] = d
      BY <2>1 DEF QueueInv, Whole
    <3>2. CASE p = c
      BY <1>1, <1>2, <3>1, <3>2
    <3>3. CASE p # c
      BY <1>1, <1>2, <3>1, <3>3
    <3> QED
      BY <3>2, <3>3
  <2>4. next'[tail'] = Null
    <3>1. CASE tail = c
      BY <1>1, <1>2, <2>2, <3>1
    <3>2. CASE tail # c
      BY <1>1, <1>2, <2>2, <3>2
    <3> QED
      BY <3>1, <3>2
  <2>5. /\ ~MidAppend' /\ ~AcceptorAppends' /\ server'.at # "append"
    BY <2>1 DEF MidAppend, AcceptorAppends
  <2> QED
    BY <2>3, <2>4, <2>5 DEF Whole, c
<1>6. tail' \in Client \cup {Front}
  BY <1>2, NodesType
<1> QED
  BY <1>1, <1>3, <1>4, <1>5, <1>6 DEF QueueInv, Whole

(* The walk drops a client, *)
LEMMA ScanDropInv ==
    ASSUME IInv, ScanDrop
    PROVE  IInv'
<1> DEFINE c == Visited
<1>1. /\ Scanning /\ c # Null /\ Unlink(c) /\ Destroy(c)
      /\ c \in late \/ inbox[c] = "eof"
      /\ conQueue' = conQueue /\ acceptor' = acceptor /\ server' = server
  BY DEF ScanDrop
<1>2. TypeOK /\ ClientsCounted /\ Handed /\ Awaited /\ Appending /\ QueueInv
  BY DEF IInv, PlaceInv
<1>3. c \in Nodes /\ c \in Client
  BY <1>1, <1>2, NodesType DEF QueueInv, Chain, Walk, TypeOK, Visited
<1>4. stage[c] = "req"
  BY <1>1, <1>2, <1>3 DEF Awaited
<1>5. Goto(c, "out") /\ Forget(c) /\ clients' = clients - 1
  BY <1>1 DEF Destroy, Uncount
<1> HIDE DEF c
<1>6. /\ stage' \in [Client -> Stages] /\ stage'[c] = "out"
      /\ \A d \in Client : d # c => stage'[d] = stage[d]
  BY <1>2, <1>3, <1>5, GotoEffect DEF Stages
<1>7. /\ inbox' \in [Client -> Inbox] /\ shoutcast' \in [Client -> 0 .. 2]
      /\ ok2' \subseteq Client /\ late' \subseteq Client /\ reuse' \subseteq Client
      /\ inbox'[c] = "nothing" /\ c \notin late'
      /\ \A d \in Client : d # c => /\ inbox'[d] = inbox[d]
                                    /\ d \in late' <=> d \in late
  BY <1>2, <1>3, <1>5, ForgetEffect
<1>8. ClientsCounted' /\ clients' \in 0 .. Cardinality(Client)
  BY <1>2, <1>3, <1>4, <1>5, CountedMoves DEF NoClient, Stages
<1>9. Nodes' = Nodes \ {c}
  BY <1>1, <1>3, <1>6, NodesType DEF Nodes, Scanning
<1>10. /\ QueueInv' /\ raced' \in BOOLEAN /\ tail' \in Client \cup {Front}
       /\ next' \in [Client \cup {Front} -> Client \cup {Null}]
  BY <1>1, <1>2, <1>9, UnlinkWhole DEF c
<1>11. TypeOK'
  BY <1>1, <1>2, <1>6, <1>7, <1>8, <1>10 DEF TypeOK
<1>12. Awaited'
  BY <1>2, <1>6, <1>7 DEF Awaited
<1>13. Handed'
  <2>1. \A i \in 1 .. Len(conQueue) : conQueue[i] \in Client
    BY <1>2, ElementOfSeq DEF TypeOK
  <2> QED
    BY <1>1, <1>2, <1>4, <1>6, <2>1 DEF Handed
<1>14. Appending'
  BY <1>1, <1>2, <1>4, <1>6 DEF Appending
<1> QED
  BY <1>8, <1>10, <1>11, <1>12, <1>13, <1>14 DEF IInv, PlaceInv

(* or reads from it, and hands it over if its header is complete. *)
LEMMA ScanReadInv ==
    ASSUME IInv, ScanRead
    PROVE  IInv'
<1> DEFINE c == Visited
<1>1. /\ Scanning /\ c # Null /\ c \notin late
      /\ inbox[c] \in {"part", "password", "header"}
      /\ inbox' = [inbox EXCEPT ![c] = "nothing"]
      /\ UNCHANGED <<shoutcast, ok2, late, reuse, clients, server>>
  BY DEF ScanRead
<1>2. TypeOK /\ ClientsCounted /\ Handed /\ Awaited /\ Appending /\ QueueInv
  BY DEF IInv, PlaceInv
<1>3. c \in Nodes /\ c \in Client
  BY <1>1, <1>2, NodesType DEF QueueInv, Chain, Walk, TypeOK, Visited
<1>4. stage[c] = "req"
  BY <1>1, <1>2, <1>3 DEF Awaited
<1>5. IF Complete(c)
      THEN /\ Unlink(c) /\ Goto(c, "con") /\ conQueue' = Append(conQueue, c)
           /\ acceptor' = acceptor
      ELSE acceptor' = [at |-> "scan", node |-> c] /\ UNCHANGED <<queueVars, stage, conQueue>>
  BY DEF ScanRead, AcceptorAt
<1> HIDE DEF c
<1>6. /\ inbox' \in [Client -> Inbox] /\ inbox'[c] = "nothing"
      /\ \A d \in Client : d # c => inbox'[d] = inbox[d]
  BY <1>1, <1>2, <1>3 DEF TypeOK, Inbox
<1>7. CASE ~Complete(c)
  <2>1. acceptor' = [at |-> "scan", node |-> c] /\ UNCHANGED <<queueVars, stage, conQueue>>
    BY <1>5, <1>7
  <2>2. TypeOK'
    BY <1>1, <1>2, <1>3, <1>6, <2>1 DEF TypeOK, queueVars
  <2>3. Awaited' /\ Handed'
    BY <1>1, <1>2, <1>6, <2>1 DEF Awaited, Handed
  <2>4. Appending'
    BY <1>1, <1>2, <2>1 DEF Appending, Scanning
  <2>5. Nodes' = Nodes
    BY <1>1, <2>1, SameNodes DEF Scanning
  <2>6. QueueInv'
    <3>1. Walk' /\ ~AcceptorAppends /\ ~AcceptorAppends'
      BY <1>1, <1>3, <2>1, <2>5 DEF Walk, AcceptorAppends, Scanning
    <3> QED
      BY <1>1, <1>2, <2>1, <2>5, <3>1, QuietQueue
  <2>7. ClientsCounted'
    BY <1>1, <1>2, <2>1 DEF ClientsCounted
  <2> QED
    BY <2>2, <2>3, <2>4, <2>6, <2>7 DEF IInv, PlaceInv
<1>8. CASE Complete(c)
  <2>1. /\ Unlink(c) /\ Goto(c, "con") /\ conQueue' = Append(conQueue, c)
        /\ acceptor' = acceptor
    BY <1>5, <1>8
  <2>2. /\ stage' \in [Client -> Stages] /\ stage'[c] = "con"
        /\ \A d \in Client : d # c => stage'[d] = stage[d]
    BY <1>2, <1>3, <2>1, GotoEffect DEF Stages
  <2>3. Nodes' = Nodes \ {c}
    BY <1>1, <1>3, <2>1, <2>2, NodesType DEF Nodes, Scanning
  <2>4. /\ QueueInv' /\ raced' \in BOOLEAN /\ tail' \in Client \cup {Front}
        /\ next' \in [Client \cup {Front} -> Client \cup {Null}]
    BY <1>1, <1>2, <2>1, <2>3, UnlinkWhole DEF c
  <2>5. ClientsCounted' /\ clients' \in 0 .. Cardinality(Client)
    BY <1>1, <1>2, <1>3, <1>4, <2>1, CountedMoves DEF NoClient, Limited, Stages
  <2>6. /\ conQueue \in Seq(Client) /\ Len(conQueue) \in Nat
        /\ \A i \in 1 .. Len(conQueue) : conQueue[i] \in Client /\ conQueue[i] # c
    BY <1>2, <1>4, ElementOfSeq, LenProperties DEF TypeOK, Handed
  <2>7. /\ conQueue' \in Seq(Client) /\ Len(conQueue') = Len(conQueue) + 1
        /\ \A i \in 1 .. Len(conQueue) : conQueue'[i] = conQueue[i]
        /\ conQueue'[Len(conQueue) + 1] = c
    BY <1>3, <2>1, <2>6, AppendProperties
  <2>8. \A i \in 1 .. Len(conQueue') : i \in 1 .. Len(conQueue) \/ i = Len(conQueue) + 1
    BY <2>6, <2>7
  <2>9. Handed'
    <3>1. \A i \in 1 .. Len(conQueue') : stage'[conQueue'[i]] = "con"
      BY <1>2, <2>2, <2>6, <2>7, <2>8 DEF Handed
    <3>2. ASSUME NEW i \in 1 .. Len(conQueue'), NEW j \in 1 .. Len(conQueue'),
                 conQueue'[i] = conQueue'[j]
          PROVE  i = j
      BY <1>2, <2>6, <2>7, <2>8, <3>2 DEF Handed
    <3> QED
      BY <3>1, <3>2 DEF Handed
  <2>10. TypeOK'
    BY <1>1, <1>2, <1>6, <2>1, <2>2, <2>4, <2>5, <2>7 DEF TypeOK
  <2>11. Awaited'
    BY <1>1, <1>2, <1>6, <2>2 DEF Awaited
  <2>12. Appending'
    BY <1>1, <1>2, <1>4, <2>1, <2>2 DEF Appending, Scanning
  <2> QED
    BY <2>4, <2>5, <2>9, <2>10, <2>11, <2>12 DEF IInv, PlaceInv
<1> QED
  BY <1>7, <1>8

(* The second store of an append: the node is in the queue now. *)
LEMMA AppendedInv ==
    ASSUME IInv, Appended
    PROVE  IInv'
<1> DEFINE c == acceptor.node
<1>1. /\ acceptor.at \in {"append", "appendAgain"} /\ tail' = c /\ Goto(c, "req")
      /\ UNCHANGED <<inbox, shoutcast, ok2, late, reuse, next, raced, conQueue, clients, server>>
  BY DEF Appended
<1>2. TypeOK /\ ClientsCounted /\ Handed /\ Awaited /\ Appending /\ QueueInv
  BY DEF IInv, PlaceInv
<1>3. c \in Client /\ stage[c] \in {"new", "con"} /\ c \in Nodes
  BY <1>1, <1>2 DEF Appending, Nodes
<1>4. /\ acceptor' \in [at : {"scan", "handle"}, node : {Front, Null}]
      /\ acceptor'.at \in {"scan", "handle"}
      /\ acceptor'.at = "scan" => acceptor'.node = Front
  BY DEF Appended, AcceptorAt
<1>5. ~raced => /\ next[tail] = c /\ next[c] = Null /\ server.at # "append"
  BY <1>1, <1>2 DEF QueueInv, Whole, AcceptorAppends
<1>6. \A i \in 1 .. Len(conQueue) : conQueue[i] \in Client /\ conQueue[i] # c
  BY <1>1, <1>2, ElementOfSeq DEF TypeOK, Handed, Appending
<1>7. Nodes = {Front} \cup {d \in Client : stage[d] \in {"new", "req"} \/ d = c}
  BY <1>1, <1>2 DEF Nodes, Appending
<1> HIDE DEF c
<1>8. /\ stage' \in [Client -> Stages] /\ stage'[c] = "req"
      /\ \A d \in Client : d # c => stage'[d] = stage[d]
  BY <1>1, <1>2, <1>3, GotoEffect DEF Stages
<1>9. Nodes' = Nodes
  BY <1>3, <1>4, <1>7, <1>8 DEF Nodes
<1>10. ClientsCounted' /\ clients' \in 0 .. Cardinality(Client)
  BY <1>1, <1>2, <1>3, CountedMoves DEF NoClient, Limited, Stages
<1>11. Chain' /\ Ranked'
  BY <1>1, <1>2, <1>3, <1>9, SameChain DEF QueueInv
<1>12. Walk'
  BY <1>4, <1>9, NodesType DEF Walk, Scanning
<1>13. Whole'
  <2>1. ~AcceptorAppends'
    BY <1>4 DEF AcceptorAppends
  <2> QED
    BY <1>1, <1>2, <1>5, <1>9, <2>1 DEF QueueInv, Whole
<1>14. TypeOK'
  BY <1>1, <1>2, <1>3, <1>4, <1>8, <1>10 DEF TypeOK
<1>15. Awaited' /\ Handed'
  BY <1>1, <1>2, <1>6, <1>8 DEF Awaited, Handed
<1>16. Appending'
  BY <1>1, <1>2, <1>3, <1>4, <1>8 DEF Appending, c
<1> QED
  BY <1>10, <1>11, <1>12, <1>13, <1>14, <1>15, <1>16 DEF IInv, PlaceInv, QueueInv

(* The same by the file serving thread. *)
LEMMA ServerAppendedInv ==
    ASSUME IInv, ServerAppended
    PROVE  IInv'
<1> DEFINE c == server.node
<1>1. /\ server.at = "append" /\ tail' = c /\ Goto(c, "req")
      /\ UNCHANGED <<inbox, shoutcast, ok2, late, reuse, next, raced, conQueue, clients, acceptor>>
      /\ server' = [at |-> "idle", node |-> Null]
  BY DEF ServerAppended, ServerAt
<1>2. TypeOK /\ ClientsCounted /\ Handed /\ Awaited /\ Appending /\ QueueInv
  BY DEF IInv, PlaceInv
<1>3. c \in Client /\ stage[c] = "new" /\ c \in Nodes
  BY <1>1, <1>2 DEF Appending, Nodes
<1>4. ~raced => /\ next[tail] = c /\ next[c] = Null /\ ~AcceptorAppends
  BY <1>1, <1>2 DEF QueueInv, Whole
<1>5. acceptor.at \in {"append", "appendAgain"} => acceptor.node # c
  BY <1>1, <1>2, <1>3 DEF Appending
<1> HIDE DEF c
<1>6. /\ stage' \in [Client -> Stages] /\ stage'[c] = "req"
      /\ \A d \in Client : d # c => stage'[d] = stage[d]
  BY <1>1, <1>2, <1>3, GotoEffect DEF Stages
<1>7. Nodes' = Nodes
  BY <1>1, <1>3, <1>6, SameNodes
<1>8. ClientsCounted' /\ clients' \in 0 .. Cardinality(Client)
  BY <1>1, <1>2, <1>3, CountedMoves DEF NoClient, Limited, Stages
<1>9. Chain' /\ Ranked'
  BY <1>1, <1>2, <1>3, <1>7, SameChain DEF QueueInv
<1>10. Walk'
  BY <1>1, <1>2, <1>7 DEF QueueInv, Walk, Scanning
<1>11. Whole'
  <2>1. server'.at # "append" /\ (AcceptorAppends' <=> AcceptorAppends)
    BY <1>1 DEF AcceptorAppends
  <2> QED
    BY <1>1, <1>2, <1>4, <1>7, <2>1 DEF QueueInv, Whole
<1>12. TypeOK'
  BY <1>1, <1>2, <1>3, <1>6, <1>8 DEF TypeOK
<1>13. Awaited' /\ Handed'
  <2>1. \A i \in 1 .. Len(conQueue) : conQueue[i] \in Client /\ conQueue[i] # c
    BY <1>2, <1>3, ElementOfSeq DEF TypeOK, Handed
  <2> QED
    BY <1>1, <1>2, <1>6, <2>1 DEF Awaited, Handed
<1>14. Appending'
  BY <1>1, <1>2, <1>3, <1>5, <1>6 DEF Appending, c
<1> QED
  BY <1>8, <1>9, <1>10, <1>11, <1>12, <1>13, <1>14 DEF IInv, PlaceInv, QueueInv

(* The client of a response that keeps its connection is destroyed. *)
LEMMA ReplyKeptInv ==
    ASSUME IInv, NEW c \in Client, ReplyKept(c)
    PROVE  IInv'
<1>1. /\ server.at = "idle" /\ stage[c] = "reply" /\ Goto(c, "held") /\ Forget(c)
      /\ clients' = clients - 1 /\ server' = [at |-> "queue", node |-> c]
      /\ UNCHANGED queueVars /\ conQueue' = conQueue /\ acceptor' = acceptor
  BY DEF ReplyKept, Uncount, ServerAt
<1>2. TypeOK /\ ClientsCounted /\ Handed /\ Awaited /\ Appending /\ QueueInv
  BY DEF IInv, PlaceInv
<1>3. /\ stage' \in [Client -> Stages] /\ stage'[c] = "held"
      /\ \A d \in Client : d # c => stage'[d] = stage[d]
  BY <1>1, <1>2, GotoEffect DEF Stages
<1>4. /\ inbox' \in [Client -> Inbox] /\ shoutcast' \in [Client -> 0 .. 2]
      /\ ok2' \subseteq Client /\ late' \subseteq Client /\ reuse' \subseteq Client
      /\ inbox'[c] = "nothing" /\ c \notin late'
      /\ \A d \in Client : d # c => /\ inbox'[d] = inbox[d]
                                    /\ d \in late' <=> d \in late
  BY <1>1, <1>2, ForgetEffect
<1>5. ClientsCounted' /\ clients' \in 0 .. Cardinality(Client)
  BY <1>1, <1>2, CountedMoves DEF NoClient, Stages
<1>6. QueueInv'
  <2>1. Nodes' = Nodes
    BY <1>1, <1>3, SameNodes
  <2> QED
    BY <1>1, <1>2, <2>1, QuietQueue
<1>7. TypeOK'
  BY <1>1, <1>2, <1>3, <1>4, <1>5 DEF TypeOK, queueVars
<1>8. Awaited' /\ Handed'
  <2>1. \A i \in 1 .. Len(conQueue) : conQueue[i] \in Client
    BY <1>2, ElementOfSeq DEF TypeOK
  <2> QED
    BY <1>1, <1>2, <1>3, <1>4, <2>1 DEF Awaited, Handed
<1>9. Appending'
  BY <1>1, <1>2, <1>3 DEF Appending
<1> QED
  BY <1>5, <1>6, <1>7, <1>8, <1>9 DEF IInv, PlaceInv

----------------------------------------------------------------------------
(* The theorems *)

(* Every step of the accept loop, of the file serving thread and of the    *)
(* peers keeps the inductive invariant.                                    *)
LEMMA NextInv ==
    ASSUME IInv, [Next]_vars
    PROVE  IInv'
<1>1. CASE UNCHANGED vars
  <2> USE <1>1 DEF vars, queueVars
  <2>1. TypeOK' /\ ClientsCounted'
    BY DEF IInv, TypeOK, ClientsCounted
  <2>2. PlaceInv'
    BY DEF IInv, PlaceInv, Awaited, Handed, Appending
  <2>3. QueueInv'
    BY SameNodes, QuietQueue DEF IInv
  <2> QED
    BY <2>1, <2>2, <2>3 DEF IInv
<1>2. CASE AcceptLoop
  BY <1>2, AcceptInv, LoopInv, AppendedInv, ScanDropInv, ScanReadInv,
     HandlePasswordInv, HandleInv DEF AcceptLoop
<1>3. CASE FileServer
  BY <1>3, PeerInv, ReplyKeptInv, ServerQueuesInv, ServerAppendedInv DEF FileServer
<1>4. ASSUME NEW c \in Client,
             \/ Knock(c) \/ (\E x \in Inbox : Send(c, x)) \/ HeaderTimeout(c)
             \/ AnswerOK2(c) \/ Answer(c) \/ Leave(c)
      PROVE  IInv'
  BY <1>4, PeerInv
<1> QED
  BY <1>1, <1>2, <1>3, <1>4 DEF Next

(* The invariant holds in every reachable state. *)
LEMMA SpecInv == Spec => []IInv
BY InitInv, NextInv, PTL DEF Spec

(* The variables of the intake keep their types; the count of clients is   *)
(* never below zero.                                                       *)
THEOREM IntakeTyped == Spec => []TypeOK
<1>1. IInv => TypeOK
  BY DEF IInv
<1> QED
  BY <1>1, SpecInv, PTL

(* global.clients is exact and the client limit is kept, whatever comes,   *)
(* goes, is refused or gives its connection back, and also after a race in *)
(* the request queue.                                                      *)
THEOREM IntakeCounted == Spec => []ClientsCounted
<1>1. IInv => ClientsCounted
  BY DEF IInv
<1> QED
  BY <1>1, SpecInv, PTL

(* Even after a race the walk, the tail and the next pointers of the       *)
(* request queue never reach a client that was freed, and never a cycle.   *)
THEOREM IntakeChained == Spec => [](Chain /\ Ranked /\ Walk)
<1>1. IInv => Chain /\ Ranked /\ Walk
  BY DEF IInv, QueueInv
<1> QED
  BY <1>1, SpecInv, PTL

(* Until two threads meet in it, the request queue holds exactly the       *)
(* clients whose headers are awaited, and its tail is its end.             *)
THEOREM IntakeIntact == Spec => []QueueIntact
<1>1. IInv => QueueIntact
  <2> SUFFICES ASSUME IInv, ~raced, ~MidAppend
               PROVE  /\ Reached = {c \in Client : stage[c] = "req"}
                      /\ tail \in Reached \cup {Front} /\ next[tail] = Null
    BY DEF QueueIntact
  <2> DEFINE Req == {c \in Client : stage[c] = "req"}
  <2>1. Nodes = {Front} \cup Req
    BY DEF IInv, PlaceInv, Appending, Nodes, MidAppend
  <2>2. Reached \subseteq Req
    <3>1. \A n \in Req \cup {Front} : next[n] \in Req \cup {Null}
      BY <2>1, NodesType DEF IInv, TypeOK, QueueInv, Chain
    <3>2. Closed(Req)
      BY <3>1 DEF Closed
    <3> QED
      BY <3>2 DEF Reached
  <2>3. Req \subseteq Reached
    <3> SUFFICES ASSUME NEW c \in Req, NEW S \in SUBSET Client, Closed(S)
                 PROVE  c \in S
      BY DEF Reached
    <3>1. SUFFICES ASSUME c \notin S PROVE FALSE
      OBVIOUS
    <3>2. PICK rk \in [Client \cup {Front} -> Nat] : RankedBy(rk)
      BY DEF IInv, QueueInv, Ranked
    <3> DEFINE R == {rk[d] : d \in Req \ S}
    <3>3. R \in SUBSET Nat /\ R # {}
      BY <3>1, <3>2
    <3>least. Min(R) \in R /\ \A x \in R : Min(R) <= x
      <4> HIDE DEF R
      <4> QED
        BY <3>3, MinOfNats
    <3>4. PICK d \in Req \ S : rk[d] = Min(R)
      BY <3>least
    <3>5. \A e \in Req \ S : rk[d] <= rk[e]
      BY <3>least, <3>4
    <3>6. PICK p \in Nodes : next[p] = d
      BY <2>1, NodesType DEF IInv, QueueInv, Whole
    <3>7. d # Null
      BY NodesType
    <3>8. rk[p] < rk[d]
      BY <3>2, <3>6, <3>7 DEF RankedBy
    <3>9. p \notin S \cup {Front}
      BY <3>6, <3>7 DEF Closed
    <3>10. p \in Req \ S
      BY <2>1, <3>6, <3>9
    <3>11. rk[d] <= rk[p] /\ rk[d] \in Nat /\ rk[p] \in Nat
      BY <3>2, <3>5, <3>10
    <3> QED
      BY <3>8, <3>11
  <2>4. tail \in Nodes /\ next[tail] = Null
    BY DEF IInv, QueueInv, Chain, Whole
  <2> QED
    BY <2>1, <2>2, <2>3, <2>4
<1> QED
  BY <1>1, SpecInv, PTL

----------------------------------------------------------------------------
(* Relays *)


(* What exists of a relay belongs to one that is in a list or is about to  *)
(* be freed, and never to both kinds at once.                              *)
Listed ==
    /\ source \subseteq listed \cup doomed
    /\ running \subseteq listed \cup doomed
    /\ listed \cap doomed = {}

(* The relays to check and to free are those of the pass under way. *)
PassOnly ==
    /\ ~InPass => checking = {}
    /\ ~InPass /\ slave # "ending" => doomed = {}

(* Who holds a mutex is where it holds it: the slave thread has relay_lock *)
(* exactly during a pass, and a relay's thread has _slave_mutex exactly    *)
(* while it waits for relay_lock.                                          *)
MutexHeld ==
    /\ relayLock = SlaveThread <=> InPass
    /\ \A r \in Relay : slaveMutex = r <=> thread[r] = "locking"

(* The inductive invariant. *)
RelaysInv ==
    /\ RelaysTypeOK /\ ThreadOwned /\ SourceExclusive /\ FlagsTellThreads
    /\ Listed /\ PassOnly /\ MutexHeld

(* No relay thread is there at the start. *)
LEMMA RelaysInitInv == RelaysInit => RelaysInv
  BY RelaysAssumption
  DEF RelaysInit, RelaysInv, RelaysTypeOK, ThreadOwned, SourceExclusive, FlagsTellThreads,
      Listed, PassOnly, MutexHeld, InPass, Steps

(* The parts that an action of the relay threads can disturb. *)
LEMMA RelayThreadInv ==
    ASSUME RelaysInv, NEW r \in Relay, RelayThread(r)
    PROVE  RelaysInv'
<1> USE RelaysAssumption DEF RelaysInv, RelaysTypeOK, listVars, relayVars, passVars, lockVars, serverVars,
            ThreadAt, ThreadGoto, Steps
<1> USE DEF ThreadOwned, SourceExclusive, FlagsTellThreads, Listed, PassOnly, MutexHeld, InPass
<1>1. CASE Connected(r)
  BY <1>1 DEF Connected
<1>2. CASE NotConnected(r)
  BY <1>2 DEF NotConnected
<1>3. CASE SourceInit(r)
  BY <1>3 DEF SourceInit
<1>4. CASE SourceMainEnds(r)
  BY <1>4 DEF SourceMainEnds
<1>5. CASE AskUpdate(r)
  BY <1>5 DEF AskUpdate
<1>6. CASE AskRebuild(r)
  BY <1>6 DEF AskRebuild
<1>7. CASE FailedLocks(r)
  BY <1>7 DEF FailedLocks
<1>8. CASE FailedEnds(r)
  BY <1>8 DEF FailedEnds
<1> QED
  BY <1>1, <1>2, <1>3, <1>4, <1>5, <1>6, <1>7, <1>8 DEF RelayThread

(* The turns of the slave thread: what is listed, doomed and checked. *)
LEMMA SlaveTurnInv ==
    ASSUME RelaysInv, Slave
    PROVE  RelaysInv'
<1> USE RelaysAssumption DEF RelaysInv, RelaysTypeOK, listVars, relayVars, threadVars, passVars, lockVars,
            serverVars, SlaveGoto, ThreadGoto, Steps
<1> USE DEF ThreadOwned, SourceExclusive, FlagsTellThreads, Listed, PassOnly, MutexHeld, InPass
<1>1. CASE Reread
  BY <1>1 DEF Reread
<1>2. CASE RereadForces
  BY <1>2 DEF RereadForces
<1>3. CASE Sleep
  BY <1>3 DEF Sleep
<1>4. CASE Turn
  BY <1>4 DEF Turn
<1>5. CASE FetchFails
  BY <1>5 DEF FetchFails
<1>6. CASE Fetch
  BY <1>6 DEF Fetch
<1>7. CASE UpdateMaster
  BY <1>7 DEF UpdateMaster, UpdateRelays
<1>8. CASE MasterDone
  BY <1>8 DEF MasterDone
<1>9. CASE UpdateLocal
  BY <1>9 DEF UpdateLocal, UpdateRelays
<1>10. CASE LockOnly
  BY <1>10 DEF LockOnly
<1>11. CASE PassDone
  BY <1>11 DEF PassDone
<1>12. CASE Recheck
  BY <1>12 DEF Recheck
<1>13. CASE SlaveEnds
  BY <1>13 DEF SlaveEnds
<1>14. CASE SlaveDone
  BY <1>14 DEF SlaveDone
<1>15. ASSUME NEW r \in Relay, StopRemoved(r)
      PROVE  RelaysInv'
  BY <1>15 DEF StopRemoved, Removing
<1>16. ASSUME NEW r \in Relay, FreeRelay(r)
      PROVE  RelaysInv'
  BY <1>16 DEF FreeRelay, Removing, Joined, Reap
<1>17. ASSUME NEW r \in Relay, ReserveFails(r)
      PROVE  RelaysInv'
  BY <1>17 DEF ReserveFails, MountTaken, EarlyAfter
<1>18. ASSUME NEW r \in Relay, Reserve(r)
      PROVE  RelaysInv'
  <2>1. /\ r \in listed /\ source' = source \cup {r} /\ force' \in BOOLEAN
        /\ \A s \in source : MountOf(s) # MountOf(r)
    BY <1>18 DEF Reserve, MountTaken
  <2>2. SourceExclusive'
    BY <2>1
  <2>3. UNCHANGED <<listVars, running, cleanup, early, wanted, threadVars, slave,
                    passVars, lockVars, serverVars>>
    BY <1>18 DEF Reserve
  <2> QED
    BY <2>1, <2>2, <2>3
<1>19. ASSUME NEW r \in Relay, StartRelay(r)
      PROVE  RelaysInv'
  BY <1>19 DEF StartRelay, Due, EarlyAfter
<1>20. ASSUME NEW r \in Relay, LeaveRelay(r)
      PROVE  RelaysInv'
  BY <1>20 DEF LeaveRelay, Due, EarlyAfter
<1>21. ASSUME NEW r \in Relay, Cleanup(r)
      PROVE  RelaysInv'
  BY <1>21 DEF Cleanup, Joined, Reap, EarlyAfter
<1> QED
  BY <1>1, <1>2, <1>3, <1>4, <1>5, <1>6, <1>7, <1>8, <1>9, <1>10, <1>11, <1>12,
     <1>13, <1>14, <1>15, <1>16, <1>17, <1>18, <1>19, <1>20, <1>21
  DEF Slave

(* What other threads ask for, and time, touch neither threads nor flags. *)
LEMMA OthersInv ==
    ASSUME RelaysInv, Others
    PROVE  RelaysInv'
<1> USE RelaysAssumption DEF RelaysInv, RelaysTypeOK, listVars, relayVars, threadVars, passVars, lockVars,
            serverVars
<1> USE DEF ThreadOwned, SourceExclusive, FlagsTellThreads, Listed, PassOnly, MutexHeld, InPass
<1>1. CASE AskReread
  BY <1>1 DEF AskReread
<1>2. CASE Shutdown
  BY <1>2 DEF Shutdown
<1>3. CASE SlaveShutdown
  BY <1>3 DEF SlaveShutdown
<1>4. ASSUME NEW r \in Relay, Want(r)
      PROVE  RelaysInv'
  BY <1>4 DEF Want
<1>5. ASSUME NEW r \in Relay, StreamEnds(r)
      PROVE  RelaysInv'
  BY <1>5 DEF StreamEnds
<1>6. ASSUME NEW r \in Relay, TimePasses(r)
      PROVE  RelaysInv'
  BY <1>6 DEF TimePasses
<1> QED
  BY <1>1, <1>2, <1>3, <1>4, <1>5, <1>6 DEF Others

(* Every step keeps the invariant. *)
LEMMA RelaysNextInv ==
    ASSUME RelaysInv, [RelaysNext]_relaysVars
    PROVE  RelaysInv'
<1>1. CASE UNCHANGED relaysVars
  BY <1>1
  DEF relaysVars, RelaysInv, RelaysTypeOK, ThreadOwned, SourceExclusive, FlagsTellThreads, Listed,
      PassOnly, MutexHeld, InPass, listVars, relayVars, threadVars, passVars,
      lockVars, serverVars
<1> QED
  BY <1>1, SlaveTurnInv, OthersInv, RelayThreadInv DEF RelaysNext

(* The invariant holds in every state. *)
LEMMA RelaysSpecInv == RelaysSpec => []RelaysInv
  BY RelaysInitInv, RelaysNextInv, PTL DEF RelaysSpec

(* Every variable keeps its type, whatever relays are configured. *)
THEOREM RelaysTyped == RelaysSpec => []RelaysTypeOK
<1>1. RelaysInv => RelaysTypeOK
  BY DEF RelaysInv
<1> QED
  BY <1>1, RelaysSpecInv, PTL

(* start_relay_stream never uses a freed relay_server or source_t. *)
THEOREM RelaysOwned == RelaysSpec => []ThreadOwned
<1>1. RelaysInv => ThreadOwned
  BY DEF RelaysInv
<1> QED
  BY <1>1, RelaysSpecInv, PTL

(* source_reserve gives a mount to one relay at a time, over reloads and   *)
(* changes of the master's list.                                           *)
THEOREM RelaysExclusive == RelaysSpec => []SourceExclusive
<1>1. RelaysInv => SourceExclusive
  BY DEF RelaysInv
<1> QED
  BY <1>1, RelaysSpecInv, PTL

(* A relay is never started twice, and the slave thread never joins the    *)
(* thread of a relay that is streaming.                                    *)
THEOREM RelaysFlagged == RelaysSpec => []FlagsTellThreads
<1>1. RelaysInv => FlagsTellThreads
  BY DEF RelaysInv
<1> QED
  BY <1>1, RelaysSpecInv, PTL

(* relay_lock and _slave_mutex are held by whoever has locked them and     *)
(* did not unlock them.                                                    *)
THEOREM RelaysMutexes == RelaysSpec => []MutexHeld
<1>1. RelaysInv => MutexHeld
  BY DEF RelaysInv
<1> QED
  BY <1>1, RelaysSpecInv, PTL
=============================================================================
