----------------------------- MODULE AuthProofs -----------------------------
(***************************************************************************)
(* Proofs about Auth: the authenticators are asked in the order of the     *)
(* stacks, a client is in one place, reference counts are exact and a      *)
(* freed authenticator is not used, for any clients, stacks and reloads.   *)
(* And about Users, the authenticator with a file of users: for any users  *)
(* and any number of threads, no user is lost when an operation on the     *)
(* files fails or the server stops, and a listener is answered by what the *)
(* file said while it was asked about.                                     *)
(***************************************************************************)
EXTENDS Auth, Users, FiniteSetTheorems, SequenceTheorems, TLAPS

----------------------------------------------------------------------------
(* The inductive invariant *)

(* Where a thread works on a client, where a client waits in a queue, and  *)
(* where it stands in a stack and is to be asked about by it.              *)
Worked == {"look", "try", "append", "process", "result", "refuse", "enter", "removing"}
Waiting == {"queued", "remove"}
Asked == {"try", "append", "queued", "process"}
Resting == {"out", "in", "remove", "removing", "removed"}

(* A thread works on a client alone, and a queue has a client once: one    *)
(* that uses the authenticator of the queue.                               *)
OneThread ==
    /\ \A e \in Executor : exec[e] # Null => at[exec[e]] \in Worked
    /\ \A e, f \in Executor : exec[e] = exec[f] /\ exec[e] # Null => e = f
OneQueue == \A n \in Threaded :
    /\ \A i \in 1 .. Len(queue[n]) : at[queue[n][i]] \in Waiting /\ auth[queue[n][i]] = n
    /\ \A i, j \in 1 .. Len(queue[n]) : queue[n][i] = queue[n][j] => i = j
Taken == \A c \in Client : at[c] = "append" => auth[c] \in Threaded

(* What was said, and the place where the client is asked next. *)
Last(c) == said[c][Len(said[c])]
Leads(c, n) == said[c] # <<>> => Follows(Last(c)[1], n, Last(c)[2])
Position(c) ==
    /\ at[c] \in Resting => said[c] = <<>>
    /\ at[c] \in Asked \cup {"result"} => where[c] \in Node /\ where[c][1] = stage[c]
    /\ at[c] \notin Asked \cup {"result"} => where[c] = Null
    /\ at[c] \in Asked => Leads(c, where[c])
    /\ at[c] = "look" => \A g \in 1 .. MaxGen : Leads(c, <<stage[c], 1, g>>)
    /\ at[c] = "result" => said[c] # <<>> /\ Last(c) = <<where[c], verdict[c]>>
    /\ at[c] = "enter" => said[c] # <<>> /\ Last(c)[2] = "ok"
InOrder(c) == \A k \in 1 .. Len(said[c]) - 1 :
    Follows(said[c][k][1], said[c][k + 1][1], said[c][k][2])

(* References are counted, to configurations that were loaded; and an      *)
(* authenticator is there as long as it has references.                    *)
Users(a, n) == Cardinality({c \in Client : a[c] = n})
HeldNow(n) == Held(n, where, config, leaked)
Counted == \A n \in Node : life[n] # "none" => ref[n] = Users(auth, n) + One(HeldNow(n))
Ages == \A n \in Node :
    /\ life[n] = "none" <=> n[3] > config
    /\ life[n] = "none" => ref[n] = 0
    /\ life[n] = "up" => ref[n] > 0
    /\ life[n] \in {"dying", "freed"} => ref[n] = 0
Loaded ==
    /\ \A c \in Client : /\ auth[c] # Null => auth[c][3] <= config
                         /\ where[c] # Null => where[c][3] <= config
    /\ \A n \in leaked : n[3] <= config

OnceInv == OneThread /\ OneQueue /\ Taken
OrderInv == \A c \in Client : Position(c) /\ InOrder(c)
RefInv == Counted /\ Ages /\ Loaded
IInv == TypeOK /\ OnceInv /\ OrderInv /\ RefInv

----------------------------------------------------------------------------
(* Places in the stacks, and references to them *)

(* A place is a stack, an index in it and a configuration. *)
LEMMA NodeParts ==
    /\ \A n \in Node : /\ n[1] \in 1 .. 3 /\ n[2] \in 1 .. Len(Stacks[n[1]])
                       /\ n[3] \in 1 .. MaxGen
                       /\ n = <<n[1], n[2], n[3]>>
    /\ \A s \in 1 .. 3 : \A i \in 1 .. Len(Stacks[s]), g \in 1 .. MaxGen :
          <<s, i, g>> \in Node
BY DEF Node

(* There are three stacks, and the last one is not empty. *)
LEMMA StackTypes ==
    /\ \A s \in 1 .. 3 : /\ Stacks[s] \in Seq(Kinds) /\ Len(Stacks[s]) \in Nat
                         /\ Stacks[s] # <<>> => 1 \in 1 .. Len(Stacks[s])
    /\ Stacks[3] # <<>> /\ MaxGen \in Nat \ {0}
    /\ Null \notin Node /\ Null \notin Client /\ Threaded \subseteq Node
<1>1. Stacks \in Seq(Seq(Kinds)) /\ Len(Stacks) = 3
  BY AuthAssumption
<1>2. \A s \in 1 .. 3 : Stacks[s] \in Seq(Kinds)
  BY <1>1, ElementOfSeq
<1>3. \A s \in 1 .. 3 : Len(Stacks[s]) \in Nat /\ (Stacks[s] # <<>> => Len(Stacks[s]) # 0)
  BY <1>2, LenProperties, EmptySeq
<1> QED
  BY <1>2, <1>3, AuthAssumption DEF Threaded

Above(m, n) == m # Null /\ m[1] = n[1] /\ m[3] = n[3] /\ m[2] <= n[2]

(* A place is held by the configuration, by a client or by a leak. *)
LEMMA HeldParts ==
    ASSUME NEW n, NEW w, NEW g, NEW lk
    PROVE  Held(n, w, g, lk) <=> \/ n[3] = g
                                 \/ \E c \in Client : Above(w[c], n)
                                 \/ \E m \in lk : Above(m, n)
BY DEF Held, Above

(* A place holds itself. *)
LEMMA WhereHeld ==
    ASSUME TypeOK, NEW c \in Client, where[c] # Null
    PROVE  where[c] \in Node /\ HeldNow(where[c])
<1>1. where[c] \in Node
  BY DEF TypeOK
<1>2. Above(where[c], where[c])
  BY <1>1, NodeParts, StackTypes DEF Above
<1> QED
  BY <1>1, <1>2, HeldParts DEF HeldNow

(* The clients that use an authenticator can be counted. *)
LEMMA UsersType ==
    ASSUME NEW a, NEW n
    PROVE  /\ Users(a, n) \in Nat /\ Cardinality(Client) \in Nat
           /\ Users(a, n) <= Cardinality(Client)
           /\ Users(a, n) = 0 => \A c \in Client : a[c] # n
           /\ (\A c \in Client : a[c] # n) => Users(a, n) = 0
<1> DEFINE S == {c \in Client : a[c] = n}
<1>1. S \in SUBSET Client /\ IsFiniteSet(Client)
  BY AuthAssumption
<1>2. IsFiniteSet(S) /\ Cardinality(S) <= Cardinality(Client) /\ Cardinality(Client) \in Nat
  BY <1>1, FS_Subset, FS_CardinalityType
<1>3. Cardinality(S) \in Nat /\ (Cardinality(S) = 0 <=> S = {})
  BY <1>2, FS_CardinalityType, FS_EmptySet
<1>4. S = {} <=> \A c \in Client : a[c] # n
  OBVIOUS
<1> HIDE DEF S
<1>5. Users(a, n) = Cardinality(S)
  BY DEF Users, S
<1> QED
  BY <1>2, <1>3, <1>4, <1>5 DEF S

(* One client changes its authenticator. *)
LEMMA UsersUpdate ==
    ASSUME NEW a \in [Client -> Node \cup {Null}], NEW b \in [Client -> Node \cup {Null}],
           NEW c \in Client, \A d \in Client : d # c => b[d] = a[d],
           NEW n \in Node
    PROVE  /\ n = b[c] /\ n # a[c] => Users(b, n) = Users(a, n) + 1
           /\ n # b[c] /\ n = a[c] => Users(b, n) = Users(a, n) - 1
           /\ (n = b[c] <=> n = a[c]) => Users(b, n) = Users(a, n)
<1> DEFINE S == {d \in Client : a[d] = n}
           T == {d \in Client : b[d] = n}
<1>1. /\ Users(a, n) = Cardinality(S) /\ Users(b, n) = Cardinality(T)
      /\ IsFiniteSet(S) /\ Cardinality(S) \in Nat
  <2>1. Users(a, n) = Cardinality(S) /\ Users(b, n) = Cardinality(T)
    BY DEF Users
  <2>2. Users(a, n) \in Nat
    BY UsersType
  <2>3. S \in SUBSET Client /\ IsFiniteSet(Client)
    BY AuthAssumption
  <2>4. IsFiniteSet(S)
    BY <2>3, FS_Subset
  <2> QED
    BY <2>1, <2>2, <2>4
<1>2. CASE n = b[c] /\ n = a[c]
  <2>1. T = S
    BY <1>2
  <2> HIDE DEF S, T
  <2> QED
    BY <1>1, <1>2, <2>1
<1>3. CASE n = b[c] /\ n # a[c]
  <2>1. T = S \cup {c} /\ c \notin S
    BY <1>3
  <2> HIDE DEF S, T
  <2>2. Cardinality(T) = Cardinality(S) + 1
    BY <1>1, <2>1, FS_AddElement
  <2> QED
    BY <1>1, <1>3, <2>2
<1>4. CASE n # b[c] /\ n = a[c]
  <2>1. T = S \ {c} /\ c \in S
    BY <1>4
  <2> HIDE DEF S, T
  <2>2. Cardinality(T) = Cardinality(S) - 1
    BY <1>1, <2>1, FS_RemoveElement
  <2> QED
    BY <1>1, <1>4, <2>2
<1>5. CASE n # b[c] /\ n # a[c]
  <2>1. T = S
    BY <1>5
  <2> HIDE DEF S, T
  <2> QED
    BY <1>1, <1>5, <2>1
<1> QED
  BY <1>2, <1>3, <1>4, <1>5

(* What is held, or used by a client, is there. *)
LEMMA HeldUp ==
    ASSUME TypeOK, RefInv, NEW n \in Node
    PROVE  /\ HeldNow(n) \/ (\E c \in Client : auth[c] = n) => life[n] = "up"
           /\ life[n] \in {"dying", "freed"} =>
                 ~HeldNow(n) /\ \A c \in Client : auth[c] # n
           /\ n[3] > config => ~HeldNow(n) /\ \A c \in Client : auth[c] # n
           /\ ref[n] <= Cardinality(Client) + 1 /\ ref[n] \in Nat
<1>1. n[3] > config => ~HeldNow(n) /\ \A c \in Client : auth[c] # n
  <2> SUFFICES ASSUME n[3] > config
               PROVE  ~HeldNow(n) /\ \A c \in Client : auth[c] # n
    OBVIOUS
  <2>1. n[3] \in Int /\ config \in Int
    BY NodeParts DEF TypeOK
  <2>2. ASSUME NEW m \in Node \cup {Null}, m # Null => m[3] <= config
        PROVE  ~Above(m, n) /\ m # n
    <3>1. CASE m = Null
      BY <3>1, StackTypes DEF Above
    <3>2. CASE m # Null
      <4>1. m[3] <= config /\ m[3] \in Int
        BY <2>2, <3>2, NodeParts
      <4> QED
        BY <2>1, <4>1 DEF Above
    <3> QED
      BY <3>1, <3>2
  <2>3. \A c \in Client : ~Above(where[c], n) /\ auth[c] # n
    <3>1. \A c \in Client : where[c] \in Node \cup {Null} /\ auth[c] \in Node \cup {Null}
      BY DEF TypeOK
    <3> QED
      BY <2>2, <3>1 DEF RefInv, Loaded
  <2>4. \A m \in leaked : ~Above(m, n)
    <3>1. leaked \subseteq Node
      BY DEF TypeOK
    <3> QED
      BY <2>2, <3>1 DEF RefInv, Loaded
  <2> QED
    BY <2>1, <2>3, <2>4, HeldParts DEF HeldNow
<1>2. /\ Users(auth, n) \in Nat /\ One(HeldNow(n)) \in {0, 1}
      /\ Cardinality(Client) \in Nat /\ Users(auth, n) <= Cardinality(Client)
  <2>1. One(HeldNow(n)) \in {0, 1}
    BY DEF One
  <2> QED
    BY <2>1, UsersType
<1>3. CASE life[n] = "none"
  BY <1>1, <1>2, <1>3 DEF RefInv, Ages
<1>4. CASE life[n] \in {"dying", "freed"}
  <2>1. ref[n] = 0 /\ ref[n] = Users(auth, n) + One(HeldNow(n))
    BY <1>4 DEF RefInv, Ages, Counted
  <2>2. Users(auth, n) = 0 /\ One(HeldNow(n)) = 0
    BY <1>2, <2>1
  <2>3. ~HeldNow(n)
    BY <2>2 DEF One
  <2>4. \A c \in Client : auth[c] # n
    BY <2>2, UsersType
  <2> QED
    BY <1>1, <1>2, <1>4, <2>1, <2>3, <2>4
<1>5. CASE life[n] = "up"
  <2>1. ref[n] = Users(auth, n) + One(HeldNow(n))
    BY <1>5 DEF RefInv, Counted
  <2>2. ref[n] <= Cardinality(Client) + 1 /\ ref[n] \in Nat
    BY <1>2, <2>1
  <2> QED
    BY <1>1, <1>5, <2>2
<1>6. life[n] \in {"none", "up", "dying", "freed"}
  BY DEF TypeOK
<1> QED
  BY <1>3, <1>4, <1>5, <1>6

----------------------------------------------------------------------------
(* References are counted *)

(* auth_addref and auth_release keep the counts exact: up is referred to   *)
(* by a client now, down no more, and dead are the places that nothing     *)
(* holds any more.                                                         *)
LEMMA RefChange ==
    ASSUME TypeOK, RefInv, NEW e, NEW up, NEW down, NEW dead,
           Change(e, up, down, dead), config' = config,
           \A n \in Node : Users(auth', n) = (Users(auth, n) + (IF n = up THEN 1 ELSE 0))
                                             - (IF n = down THEN 1 ELSE 0),
           \A n \in Node : n \in dead <=> HeldNow(n) /\ ~HeldNow(n)',
           \A n \in Node : HeldNow(n)' => HeldNow(n),
           \A n \in Node : n = up => life[n] = "up",
           Loaded'
    PROVE  /\ RefInv'
           /\ life' \in [Node -> {"none", "up", "dying", "freed"}]
<1>1. /\ \A n \in Node : ref'[n] = (ref[n] + One(n = up)) - (One(n = down) + One(n \in dead))
      /\ \A n \in Node : life'[n] = IF life[n] # "up" \/ ref'[n] > 0 THEN life[n]
                                    ELSE IF n \in Threaded \ {e} THEN "dying" ELSE "freed"
  BY DEF Change
<1>2. life' \in [Node -> {"none", "up", "dying", "freed"}]
  BY DEF Change, TypeOK
<1>3. ASSUME NEW n \in Node
      PROVE  /\ life'[n] # "none" => ref'[n] = Users(auth', n) + One(HeldNow(n)')
             /\ life'[n] = "none" <=> n[3] > config
             /\ life'[n] = "none" => ref'[n] = 0
             /\ life'[n] = "up" => ref'[n] > 0
             /\ life'[n] \in {"dying", "freed"} => ref'[n] = 0
  <2>1. /\ Users(auth, n) \in Nat /\ Users(auth', n) \in Nat
        /\ Users(auth', n) = (Users(auth, n) + One(n = up)) - One(n = down)
    BY UsersType DEF One
  <2>2. /\ One(n = up) \in {0, 1} /\ One(n = down) \in {0, 1}
        /\ n = up <=> One(n = up) = 1
    BY DEF One
  <2>3. One(n \in dead) = IF HeldNow(n) /\ ~HeldNow(n)' THEN 1 ELSE 0
    BY DEF One
  <2>4. One(HeldNow(n)) \in {0, 1} /\ One(HeldNow(n)') \in {0, 1}
    BY DEF One
  <2>5. One(n \in dead) = One(HeldNow(n)) - One(HeldNow(n)')
    BY <2>3 DEF One
  <2>6. ref'[n] = (ref[n] + One(n = up)) - (One(n = down) + One(n \in dead))
    BY <1>1
  <2>7. /\ life[n] = "none" <=> n[3] > config
        /\ life[n] = "none" => ref[n] = 0
        /\ life[n] = "up" => ref[n] > 0
        /\ life[n] \in {"dying", "freed"} => ref[n] = 0
        /\ life[n] # "none" => ref[n] = Users(auth, n) + One(HeldNow(n))
    BY DEF RefInv, Ages, Counted
  <2>8. CASE life[n] = "up"
    <3>1. ref'[n] = Users(auth', n) + One(HeldNow(n)')
      BY <2>1, <2>2, <2>4, <2>5, <2>6, <2>7, <2>8
    <3>2. ref'[n] \in Nat
      BY <2>1, <2>4, <3>1
    <3>3. life'[n] # "none" /\ (life'[n] = "up" <=> ref'[n] > 0)
      BY <1>1, <2>8
    <3> QED
      BY <2>7, <2>8, <3>1, <3>2, <3>3
  <2>9. CASE life[n] # "up"
    <3>1. life'[n] = life[n]
      BY <1>1, <2>9
    <3>2. One(n = up) = 0
      BY <2>2, <2>9
    <3>3. ~HeldNow(n) /\ ~HeldNow(n)' /\ Users(auth, n) = 0 /\ ref[n] = 0
      <4>1. life[n] \in {"none", "dying", "freed"}
        BY <2>9 DEF TypeOK
      <4>2. ~HeldNow(n) /\ \A c \in Client : auth[c] # n
        BY <2>7, <4>1, HeldUp
      <4> QED
        BY <2>7, <4>1, <4>2, UsersType
    <3>4. One(HeldNow(n)) = 0 /\ One(HeldNow(n)') = 0
      BY <3>3 DEF One
    <3>5. One(n = down) = 0 /\ Users(auth', n) = 0
      BY <2>1, <2>2, <3>2, <3>3
    <3>6. ref'[n] = 0
      BY <2>5, <2>6, <3>2, <3>3, <3>4, <3>5
    <3> QED
      BY <2>7, <2>9, <3>1, <3>4, <3>5, <3>6
  <2> QED
    BY <2>8, <2>9
<1>4. Counted' /\ Ages'
  BY <1>3 DEF Counted, Ages
<1> QED
  BY <1>2, <1>4 DEF RefInv

(* The references of a client change, and the places do not. *)
LEMMA AuthChange ==
    ASSUME TypeOK, RefInv, NEW e, NEW c \in Client, NEW new \in Node \cup {Null},
           auth' = [auth EXCEPT ![c] = new], Change(e, new, auth[c], {}),
           new # Null => life[new] = "up",
           UNCHANGED <<where, config, leaked>>
    PROVE  /\ RefInv'
           /\ life' \in [Node -> {"none", "up", "dying", "freed"}]
           /\ auth' \in [Client -> Node \cup {Null}]
<1>1. /\ auth' \in [Client -> Node \cup {Null}] /\ auth'[c] = new
      /\ \A d \in Client : d # c => auth'[d] = auth[d]
  BY DEF TypeOK
<1>2. ASSUME NEW n \in Node
      PROVE  Users(auth', n) = (Users(auth, n) + (IF n = new THEN 1 ELSE 0))
                                 - (IF n = auth[c] THEN 1 ELSE 0)
  <2>1. /\ n = auth'[c] /\ n # auth[c] => Users(auth', n) = Users(auth, n) + 1
        /\ n # auth'[c] /\ n = auth[c] => Users(auth', n) = Users(auth, n) - 1
        /\ (n = auth'[c] <=> n = auth[c]) => Users(auth', n) = Users(auth, n)
    <3>1. auth \in [Client -> Node \cup {Null}]
      BY DEF TypeOK
    <3>2. /\ auth' \in [Client -> Node \cup {Null}]
          /\ \A d \in Client : d # c => auth'[d] = auth[d]
      BY <1>1
    <3>3. \A a, b \in [Client -> Node \cup {Null}] :
              (\A d \in Client : d # c => b[d] = a[d]) =>
                  /\ n = b[c] /\ n # a[c] => Users(b, n) = Users(a, n) + 1
                  /\ n # b[c] /\ n = a[c] => Users(b, n) = Users(a, n) - 1
                  /\ (n = b[c] <=> n = a[c]) => Users(b, n) = Users(a, n)
      BY UsersUpdate
    <3> QED
      BY <3>1, <3>2, <3>3
  <2>2. Users(auth, n) \in Nat
    BY UsersType
  <2> QED
    BY <1>1, <2>1, <2>2
<1>3. \A n \in Node : HeldNow(n)' <=> HeldNow(n)
  BY DEF HeldNow
<1>4. Loaded'
  <2>1. new # Null => new[3] <= config
    <3>1. ASSUME new # Null PROVE new[3] <= config
      <4>1. new \in Node /\ ~(new[3] > config) /\ new[3] \in Int /\ config \in Int
        BY <3>1, NodeParts DEF RefInv, Ages, TypeOK
      <4> QED
        BY <4>1
    <3> QED
      BY <3>1
  <2> QED
    BY <1>1, <2>1 DEF RefInv, Loaded
<1>5. \A n \in Node : n = new => life[n] = "up"
  BY StackTypes
<1>6. \A n \in Node : n \in {} <=> HeldNow(n) /\ ~HeldNow(n)'
  BY <1>3
<1>7. /\ RefInv' /\ life' \in [Node -> {"none", "up", "dying", "freed"}]
  <2> DEFINE down == auth[c]
             dead == {}
  <2>1. Change(e, new, down, dead)
    OBVIOUS
  <2>2. \A n \in Node : n \in dead <=> HeldNow(n) /\ ~HeldNow(n)'
    BY <1>6
  <2>3. \A n \in Node : Users(auth', n) = (Users(auth, n) + (IF n = new THEN 1 ELSE 0))
                                          - (IF n = down THEN 1 ELSE 0)
    BY <1>2
  <2>4. config' = config
    OBVIOUS
  <2> HIDE DEF down, dead
  <2> QED
    BY <1>3, <1>4, <1>5, <2>1, <2>2, <2>3, <2>4, RefChange
<1> QED
  BY <1>1, <1>7

(* A client moves on in its stack, or lets go of it. *)
LEMMA WhereChange ==
    ASSUME TypeOK, RefInv, NEW e, NEW c \in Client,
           NEW to \in Node \cup {Null},
           where' = [where EXCEPT ![c] = to],
           Change(e, Null, Null, Dead(where', config)),
           to # Null => /\ where[c] # Null /\ to[1] = where[c][1]
                        /\ to[3] = where[c][3] /\ where[c][2] <= to[2],
           UNCHANGED <<auth, config, leaked>>
    PROVE  /\ RefInv'
           /\ life' \in [Node -> {"none", "up", "dying", "freed"}]
           /\ where' \in [Client -> Node \cup {Null}]
<1>1. /\ where' \in [Client -> Node \cup {Null}] /\ where'[c] = to
      /\ \A d \in Client : d # c => where'[d] = where[d]
      /\ where[c] \in Node \cup {Null}
  BY DEF TypeOK
<1>2. \A n \in Node : Users(auth', n) = (Users(auth, n) + (IF n = Null THEN 1 ELSE 0))
                                        - (IF n = Null THEN 1 ELSE 0)
  <2>1. \A n \in Node : n # Null /\ Users(auth, n) \in Nat /\ Users(auth', n) = Users(auth, n)
    BY StackTypes, UsersType
  <2> QED
    BY <2>1
<1>3. ASSUME NEW n \in Node, Above(to, n)
      PROVE  Above(where[c], n)
  <2>1. to # Null /\ to \in Node /\ where[c] \in Node
    BY <1>1, <1>3 DEF Above
  <2>2. to[2] \in Int /\ where[c][2] \in Int /\ n[2] \in Int
    BY <2>1, NodeParts
  <2> QED
    BY <1>3, <2>1, <2>2 DEF Above
<1>4. \A n \in Node : HeldNow(n)' => HeldNow(n)
  BY <1>1, <1>3, HeldParts DEF HeldNow
<1>5. \A n \in Node : n \in Dead(where', config) <=> HeldNow(n) /\ ~HeldNow(n)'
  BY DEF Dead, HeldNow
<1>6. Loaded'
  <2>1. to # Null => to[3] <= config
    BY <1>1 DEF RefInv, Loaded
  <2> QED
    BY <1>1, <2>1 DEF RefInv, Loaded
<1>7. \A n \in Node : n = Null => life[n] = "up"
  BY StackTypes
<1>8. /\ RefInv' /\ life' \in [Node -> {"none", "up", "dying", "freed"}]
  BY <1>2, <1>4, <1>5, <1>6, <1>7, RefChange
<1> QED
  BY <1>1, <1>8

(* A step that changes no reference but makes others hold what is held. *)
LEMMA HoldChange ==
    ASSUME TypeOK, RefInv, UNCHANGED <<auth, config, ref, life>>,
           \A n \in Node : HeldNow(n)' <=> HeldNow(n), Loaded'
    PROVE  RefInv'
<1>1. \A n \in Node : One(HeldNow(n)') = One(HeldNow(n))
  BY DEF One
<1>2. Counted'
  BY <1>1 DEF RefInv, Counted, Users
<1>3. Ages'
  BY DEF RefInv, Ages
<1> QED
  BY <1>2, <1>3 DEF RefInv

(* The types of the variables that the counts are about. *)
RefTypes ==
    /\ where \in [Client -> Node \cup {Null}] /\ auth \in [Client -> Node \cup {Null}]
    /\ ref \in [Node -> 0 .. Cardinality(Client) + 1]
    /\ life \in [Node -> {"none", "up", "dying", "freed"}]
    /\ leaked \subseteq Node /\ config \in 1 .. MaxGen

(* An exact count is at most the number of clients and one. *)
LEMMA RefBound ==
    ASSUME Counted', Ages', life' \in [Node -> {"none", "up", "dying", "freed"}],
           ref' = [n \in Node |-> ref'[n]]
    PROVE  ref' \in [Node -> 0 .. Cardinality(Client) + 1]
<1>1. ASSUME NEW n \in Node
      PROVE  ref'[n] \in 0 .. Cardinality(Client) + 1
  <2>1. /\ Users(auth', n) \in Nat /\ Cardinality(Client) \in Nat
        /\ Users(auth', n) <= Cardinality(Client)
    BY UsersType
  <2>2. One(HeldNow(n)') \in {0, 1}
    BY DEF One
  <2>3. ref'[n] = 0 \/ ref'[n] = Users(auth', n) + One(HeldNow(n)')
    BY DEF Counted, Ages
  <2> QED
    BY <2>1, <2>2, <2>3
<1> QED
  BY <1>1

(* A thread works on a client: the references that this takes and gives. *)
LEMMA WorkRefs ==
    ASSUME IInv, NEW e \in Executor, Work(e)
    PROVE  RefInv' /\ RefTypes'
<1>1. TypeOK /\ RefInv /\ RefTypes /\ \A c \in Client : Position(c)
  BY DEF IInv, OrderInv, TypeOK, RefTypes
<1>2. ASSUME RefInv', life' \in [Node -> {"none", "up", "dying", "freed"}],
             where' \in [Client -> Node \cup {Null}], auth' \in [Client -> Node \cup {Null}],
             UNCHANGED <<leaked, config>>, NEW up, NEW down, NEW dead,
             Change(e, up, down, dead)
      PROVE  RefInv' /\ RefTypes'
  <2>1. ref' = [n \in Node |-> ref'[n]]
    BY <1>2 DEF Change
  <2>2. ref' \in [Node -> 0 .. Cardinality(Client) + 1]
    BY <1>2, <2>1, RefBound DEF RefInv
  <2> QED
    BY <1>1, <1>2, <2>2 DEF RefTypes
<1> SUFFICES ASSUME NEW c \in Client,
                    \/ LookMissing(e, c) \/ Look(e, c)
                    \/ TryBusy(e, c) \/ TrySkip(e, c) \/ TryTake(e, c) \/ AppendClient(e, c)
                    \/ (\E r \in Results : Process(e, c, r))
                    \/ ResultForward(e, c) \/ ResultNoMatch(e, c) \/ ResultDenied(e, c)
                    \/ ResultOk(e, c) \/ ResultFailed(e, c) \/ Finish(e, c) \/ Remove(e, c)
             PROVE  RefInv' /\ RefTypes'
  BY DEF Work
<1>3. ASSUME UNCHANGED <<where, auth, ref, life, leaked, config>>
      PROVE  RefInv' /\ RefTypes'
  BY <1>1, <1>3 DEF RefInv, Counted, Ages, Loaded, HeldNow, RefTypes
<1>4. CASE \/ LookMissing(e, c) \/ TrySkip(e, c) \/ AppendClient(e, c) \/ Finish(e, c)
           \/ Process(e, c, "ok")
  BY <1>3, <1>4 DEF LookMissing, TrySkip, AppendClient, Finish, Process, refVars
<1>5. CASE Look(e, c)
  <2>1. /\ at[c] = "look" /\ where' = [where EXCEPT ![c] = <<stage[c], 1, config>>]
        /\ Stacks[stage[c]] # <<>> /\ UNCHANGED <<auth, ref, life, leaked, config>>
    BY <1>5 DEF Look, At, refVars
  <2>2. where[c] = Null
    BY <1>1, <2>1 DEF Position, Asked
  <2> DEFINE to == <<stage[c], 1, config>>
  <2>3. to \in Node /\ to[3] = config /\ to # Null
    <3>1. stage[c] \in 1 .. 3 /\ config \in 1 .. MaxGen
      BY <1>1 DEF TypeOK
    <3>2. 1 \in 1 .. Len(Stacks[stage[c]])
      BY <2>1, <3>1, StackTypes
    <3> QED
      BY <3>1, <3>2, NodeParts, StackTypes
  <2>4. where' = [where EXCEPT ![c] = to]
    BY <2>1
  <2> HIDE DEF to
  <2>5. /\ where' \in [Client -> Node \cup {Null}] /\ where'[c] = to
        /\ \A d \in Client : d # c => where'[d] = where[d]
    BY <1>1, <2>3, <2>4 DEF TypeOK
  <2>6. ASSUME NEW n \in Node
        PROVE  HeldNow(n)' <=> HeldNow(n)
    <3>1. Above(to, n) => n[3] = config
      BY <2>3 DEF Above
    <3>2. ~Above(where[c], n)
      BY <2>2 DEF Above
    <3>3. HeldNow(n) <=> \/ n[3] = config \/ (\E d \in Client : Above(where[d], n))
                         \/ (\E m \in leaked : Above(m, n))
      BY HeldParts DEF HeldNow
    <3>4. HeldNow(n)' <=> \/ n[3] = config \/ (\E d \in Client : Above(where'[d], n))
                          \/ (\E m \in leaked : Above(m, n))
      BY <2>1, HeldParts DEF HeldNow
    <3> QED
      BY <2>5, <3>1, <3>2, <3>3, <3>4
  <2>7. Loaded'
    <3>1. config \in Int
      BY <1>1 DEF TypeOK
    <3> QED
      BY <1>1, <2>1, <2>3, <2>5, <3>1 DEF RefInv, Loaded
  <2> QED
    BY <1>1, <2>1, <2>5, <2>6, <2>7, HoldChange DEF RefTypes
<1>6. CASE TryBusy(e, c)
  <2>1. /\ at[c] = "try" /\ where' = [where EXCEPT ![c] = Null]
        /\ leaked' = leaked \cup {where[c]} /\ UNCHANGED <<auth, ref, life, config>>
    BY <1>6 DEF TryBusy, At, refVars
  <2>2. where[c] \in Node
    BY <1>1, <2>1 DEF Position, Asked
  <2>3. /\ where' \in [Client -> Node \cup {Null}] /\ where'[c] = Null
        /\ \A d \in Client : d # c => where'[d] = where[d]
    BY <1>1, <2>1 DEF TypeOK
  <2>4. ASSUME NEW n \in Node
        PROVE  HeldNow(n)' <=> HeldNow(n)
    <3>1. ~Above(where'[c], n)
      BY <2>3 DEF Above
    <3>2. HeldNow(n) <=> \/ n[3] = config \/ (\E d \in Client : Above(where[d], n))
                         \/ (\E m \in leaked : Above(m, n))
      BY HeldParts DEF HeldNow
    <3>3. HeldNow(n)' <=> \/ n[3] = config \/ (\E d \in Client : Above(where'[d], n))
                          \/ (\E m \in leaked' : Above(m, n))
      BY <2>1, HeldParts DEF HeldNow
    <3> QED
      BY <2>1, <2>3, <3>1, <3>2, <3>3
  <2>5. Loaded'
    BY <1>1, <2>1, <2>2, <2>3, StackTypes DEF RefInv, Loaded
  <2> QED
    BY <1>1, <2>1, <2>2, <2>3, <2>4, <2>5, HoldChange DEF RefTypes
<1>7. CASE TryTake(e, c)
  <2>1. /\ at[c] = "try" /\ auth' = [auth EXCEPT ![c] = where[c]]
        /\ Change(e, where[c], auth[c], {}) /\ UNCHANGED <<where, config, leaked>>
    BY <1>7 DEF TryTake, At
  <2>2. where[c] \in Node /\ where[c] # Null
    BY <1>1, <2>1, StackTypes DEF Position, Asked
  <2>3. life[where[c]] = "up"
    BY <1>1, <2>2, WhereHeld, HeldUp
  <2>4. /\ RefInv' /\ life' \in [Node -> {"none", "up", "dying", "freed"}]
        /\ auth' \in [Client -> Node \cup {Null}]
    BY <1>1, <2>1, <2>2, <2>3, AuthChange
  <2> QED
    BY <1>1, <1>2, <2>1, <2>4 DEF RefTypes
<1>8. CASE (\E r \in {"failed", "nomatch"} : Process(e, c, r)) \/ Remove(e, c)
  <2>1. /\ auth' = [auth EXCEPT ![c] = Null] /\ Change(e, Null, auth[c], {})
        /\ UNCHANGED <<where, config, leaked>>
    BY <1>8 DEF Process, Remove
  <2>2. /\ RefInv' /\ life' \in [Node -> {"none", "up", "dying", "freed"}]
        /\ auth' \in [Client -> Node \cup {Null}]
    BY <1>1, <2>1, AuthChange
  <2> QED
    BY <1>1, <1>2, <2>1, <2>2 DEF RefTypes
<1>9. CASE ResultForward(e, c)
  <2>1. /\ at[c] = "result" /\ ~LastInStack(where[c])
        /\ where' = [where EXCEPT ![c] = Forward(where[c])]
        /\ Change(e, Null, Null, Dead(where', config))
        /\ UNCHANGED <<auth, config, leaked>>
    BY <1>9 DEF ResultForward, At
  <2>2. where[c] \in Node /\ where[c] # Null
    BY <1>1, <2>1, StackTypes DEF Position
  <2> DEFINE to == Forward(where[c])
  <2>3. /\ to \in Node /\ to[1] = where[c][1] /\ to[3] = where[c][3]
        /\ where[c][2] <= to[2]
    <3>1. /\ where[c][1] \in 1 .. 3 /\ where[c][2] \in 1 .. Len(Stacks[where[c][1]])
          /\ where[c][3] \in 1 .. MaxGen /\ Len(Stacks[where[c][1]]) \in Nat
          /\ where[c][2] # Len(Stacks[where[c][1]])
      BY <2>1, <2>2, NodeParts, StackTypes DEF LastInStack
    <3>2. where[c][2] + 1 \in 1 .. Len(Stacks[where[c][1]])
      BY <3>1
    <3> QED
      BY <3>1, <3>2, NodeParts DEF Forward
  <2>4. where' = [where EXCEPT ![c] = to]
    BY <2>1
  <2> HIDE DEF to
  <2>5. /\ RefInv' /\ life' \in [Node -> {"none", "up", "dying", "freed"}]
        /\ where' \in [Client -> Node \cup {Null}]
    BY <1>1, <2>1, <2>2, <2>3, <2>4, WhereChange
  <2> QED
    BY <1>1, <1>2, <2>1, <2>5 DEF RefTypes
<1>10. CASE \/ ResultNoMatch(e, c) \/ ResultDenied(e, c) \/ ResultOk(e, c)
            \/ ResultFailed(e, c)
  <2>1. /\ where' = [where EXCEPT ![c] = Null]
        /\ Change(e, Null, Null, Dead(where', config))
        /\ UNCHANGED <<auth, config, leaked>>
    BY <1>10 DEF ResultNoMatch, ResultDenied, ResultOk, ResultFailed, NextStack, Unstack
  <2>2. /\ RefInv' /\ life' \in [Node -> {"none", "up", "dying", "freed"}]
        /\ where' \in [Client -> Node \cup {Null}]
    BY <1>1, <2>1, WhereChange
  <2> QED
    BY <1>1, <1>2, <2>1, <2>2 DEF RefTypes
<1> QED
  BY <1>4, <1>5, <1>6, <1>7, <1>8, <1>9, <1>10 DEF Results

(* A client goes, the thread of an authenticator has ended, and the        *)
(* configuration is loaded again.                                          *)
LEMMA OtherRefs ==
    ASSUME IInv,
           \/ \E c \in Client : Ask(c) \/ Leave(c) \/ LeaveQueued(c)
           \/ \E n \in Threaded : Take(n) \/ Joined(n)
           \/ Reload \/ ReloadDone
    PROVE  RefInv' /\ RefTypes'
<1>1. TypeOK /\ RefInv /\ RefTypes
  BY DEF IInv, TypeOK, RefTypes
<1>2. ASSUME UNCHANGED <<where, auth, ref, life, leaked, config>>
      PROVE  RefInv' /\ RefTypes'
  BY <1>1, <1>2 DEF RefInv, Counted, Ages, Loaded, HeldNow, RefTypes
<1>3. ASSUME NEW c \in Client, Ask(c) \/ LeaveQueued(c) \/ (Leave(c) /\ c \notin acl)
      PROVE  RefInv' /\ RefTypes'
  BY <1>2, <1>3 DEF Ask, LeaveQueued, Leave, refVars
<1>4. ASSUME NEW c \in Client, Leave(c), c \in acl
      PROVE  RefInv' /\ RefTypes'
  <2>1. /\ auth' = [auth EXCEPT ![c] = Null] /\ Change(Null, Null, auth[c], {})
        /\ UNCHANGED <<where, config, leaked>>
    BY <1>4 DEF Leave
  <2>2. /\ RefInv' /\ life' \in [Node -> {"none", "up", "dying", "freed"}]
        /\ auth' \in [Client -> Node \cup {Null}]
    BY <1>1, <2>1, AuthChange
  <2>3. ref' = [n \in Node |-> ref'[n]]
    BY <2>1 DEF Change
  <2>4. ref' \in [Node -> 0 .. Cardinality(Client) + 1]
    BY <2>2, <2>3, RefBound DEF RefInv
  <2> QED
    BY <1>1, <2>1, <2>2, <2>4 DEF RefTypes
<1>5. ASSUME NEW n \in Threaded, Take(n)
      PROVE  RefInv' /\ RefTypes'
  BY <1>2, <1>5 DEF Take, refVars
<1>6. ASSUME NEW n \in Threaded, Joined(n)
      PROVE  RefInv' /\ RefTypes'
  <2>1. /\ life[n] = "dying" /\ life' = [life EXCEPT ![n] = "freed"] /\ n \in Node
        /\ UNCHANGED <<where, auth, ref, leaked, config>>
    BY <1>6, StackTypes DEF Joined, clientVars
  <2>2. /\ life' \in [Node -> {"none", "up", "dying", "freed"}] /\ life'[n] = "freed"
        /\ \A m \in Node : m # n => life'[m] = life[m]
    BY <1>1, <2>1 DEF TypeOK
  <2>3. Counted' /\ Loaded'
    BY <1>1, <2>1, <2>2 DEF RefInv, Counted, Loaded, HeldNow
  <2>4. Ages'
    BY <1>1, <2>1, <2>2 DEF RefInv, Ages
  <2> QED
    BY <1>1, <2>1, <2>2, <2>3, <2>4 DEF RefInv, RefTypes
<1>7. CASE ReloadDone
  BY <1>2, <1>7 DEF ReloadDone, clientVars, refVars
<1>8. CASE Reload
  <2> DEFINE g == config + 1
             dead == Dead(where, g)
  <2>1. /\ config < MaxGen /\ config' = g /\ UNCHANGED <<where, auth, leaked>>
        /\ ref' = [n \in Node |-> IF n[3] = g THEN 1 ELSE ref[n] - One(n \in dead)]
        /\ life' = [n \in Node |->
                      IF n[3] = g THEN "up"
                      ELSE IF life[n] # "up" \/ ref'[n] > 0 THEN life[n]
                      ELSE IF n \in Threaded THEN "dying" ELSE "freed"]
    BY <1>8 DEF Reload, clientVars
  <2>2. config \in 1 .. MaxGen /\ MaxGen \in Nat
    BY <1>1, StackTypes DEF TypeOK
  <2>3. life' \in [Node -> {"none", "up", "dying", "freed"}]
    BY <1>1, <2>1 DEF TypeOK
  <2>4. Loaded'
    <3>1. \A m \in Node : m[3] <= config => m[3] <= g
      BY <2>2, NodeParts
    <3> QED
      BY <1>1, <2>1, <3>1 DEF RefInv, Loaded, TypeOK
  <2>5. ASSUME NEW n \in Node
        PROVE  /\ life'[n] # "none" => ref'[n] = Users(auth', n) + One(HeldNow(n)')
               /\ life'[n] = "none" <=> n[3] > g
               /\ life'[n] = "none" => ref'[n] = 0
               /\ life'[n] = "up" => ref'[n] > 0
               /\ life'[n] \in {"dying", "freed"} => ref'[n] = 0
    <3>1. Users(auth', n) = Users(auth, n) /\ Users(auth, n) \in Nat
      BY <2>1, UsersType
    <3>2. HeldNow(n)' <=> \/ n[3] = g \/ (\E d \in Client : Above(where[d], n))
                          \/ (\E m \in leaked : Above(m, n))
      BY <2>1, HeldParts DEF HeldNow
    <3>3. HeldNow(n) <=> \/ n[3] = config \/ (\E d \in Client : Above(where[d], n))
                         \/ (\E m \in leaked : Above(m, n))
      BY HeldParts DEF HeldNow
    <3>4. n[3] \in Int
      BY NodeParts
    <3>5. CASE n[3] = g
      <4>1. life'[n] = "up" /\ ref'[n] = 1
        BY <2>1, <3>5
      <4>2. Users(auth, n) = 0
        <5>1. \A c \in Client : auth[c] # n
          BY <1>1, <2>2, <3>4, <3>5, HeldUp
        <5> QED
          BY <5>1, UsersType
      <4>3. One(HeldNow(n)') = 1
        BY <3>2, <3>5 DEF One
      <4> QED
        BY <2>2, <3>1, <3>4, <3>5, <4>1, <4>2, <4>3
    <3>6. CASE n[3] # g
      <4>1. /\ ref'[n] = ref[n] - One(n \in dead)
            /\ life'[n] = IF life[n] # "up" \/ ref'[n] > 0 THEN life[n]
                          ELSE IF n \in Threaded THEN "dying" ELSE "freed"
        BY <2>1, <3>6
      <4>2. n \in dead <=> HeldNow(n) /\ ~HeldNow(n)'
        BY <2>1 DEF Dead, HeldNow
      <4>3. HeldNow(n)' => HeldNow(n)
        BY <3>2, <3>3, <3>6
      <4>4. One(n \in dead) = One(HeldNow(n)) - One(HeldNow(n)')
        BY <4>2, <4>3 DEF One
      <4>5. One(HeldNow(n)) \in {0, 1} /\ One(HeldNow(n)') \in {0, 1}
        BY DEF One
      <4>6. /\ life[n] = "none" <=> n[3] > config
            /\ life[n] = "none" => ref[n] = 0
            /\ life[n] \in {"dying", "freed"} => ref[n] = 0
            /\ life[n] # "none" => ref[n] = Users(auth, n) + One(HeldNow(n))
        BY <1>1 DEF RefInv, Ages, Counted
      <4>7. n[3] > config <=> n[3] > g
        BY <2>2, <3>4, <3>6
      <4>8. CASE life[n] = "up"
        <5>1. ref'[n] = Users(auth', n) + One(HeldNow(n)') /\ ref'[n] \in Nat
          BY <3>1, <4>1, <4>4, <4>5, <4>6, <4>8
        <5>2. life'[n] # "none" /\ (life'[n] = "up" <=> ref'[n] > 0)
          BY <4>1, <4>8
        <5> QED
          BY <4>6, <4>7, <4>8, <5>1, <5>2
      <4>9. CASE life[n] # "up"
        <5>1. life[n] \in {"none", "dying", "freed"} /\ life'[n] = life[n]
          BY <1>1, <4>1, <4>9 DEF TypeOK
        <5>2. ~HeldNow(n) /\ \A c \in Client : auth[c] # n
          BY <1>1, <4>6, <5>1, HeldUp
        <5>3. One(HeldNow(n)) = 0 /\ One(HeldNow(n)') = 0 /\ Users(auth, n) = 0
          BY <4>3, <5>2, UsersType DEF One
        <5> QED
          BY <3>1, <4>1, <4>4, <4>6, <4>7, <5>1, <5>3
      <4> QED
        BY <4>8, <4>9
    <3> QED
      BY <3>5, <3>6
  <2>6. Counted' /\ Ages'
    BY <2>1, <2>5 DEF Counted, Ages
  <2>7. ref' = [n \in Node |-> ref'[n]]
    BY <2>1
  <2>8. ref' \in [Node -> 0 .. Cardinality(Client) + 1]
    BY <2>3, <2>6, <2>7, RefBound
  <2>9. config' \in 1 .. MaxGen
    BY <2>1, <2>2
  <2> QED
    BY <1>1, <2>1, <2>3, <2>4, <2>6, <2>8, <2>9 DEF RefInv, RefTypes
<1> QED
  BY <1>3, <1>4, <1>5, <1>6, <1>7, <1>8

----------------------------------------------------------------------------
(* A client is in one place *)

(* The threads work on other clients than c as they did, or stop. *)
LEMMA ThreadsKept ==
    ASSUME TypeOK, TypeOK', OneThread, NEW c \in Client,
           \A d \in Client : d # c => at'[d] = at[d],
           \A e \in Executor : exec'[e] # c => exec'[e] \in {exec[e], Null},
           \A e, f \in Executor : exec'[e] = c /\ exec'[f] = c => e = f,
           \A e \in Executor : exec'[e] = c => at'[c] \in Worked
    PROVE  OneThread'
<1>1. \A e \in Executor : exec[e] \in Client \cup {Null} /\ exec'[e] \in Client \cup {Null}
  BY DEF TypeOK
<1>2. ASSUME NEW e \in Executor, exec'[e] # Null
      PROVE  at'[exec'[e]] \in Worked
  BY <1>1, <1>2 DEF OneThread
<1>3. ASSUME NEW e \in Executor, NEW f \in Executor, exec'[e] = exec'[f], exec'[e] # Null
      PROVE  e = f
  <2>1. CASE exec'[e] = c
    BY <1>3, <2>1
  <2>2. CASE exec'[e] # c
    <3>1. exec[e] = exec'[e] /\ exec[f] = exec'[f]
      BY <1>3, <2>2
    <3> QED
      BY <1>3, <3>1 DEF OneThread
  <2> QED
    BY <2>1, <2>2
<1> QED
  BY <1>2, <1>3 DEF OneThread

(* A client that does not wait is in no queue. *)
LEMMA NotQueued ==
    ASSUME OneQueue, NEW c \in Client, at[c] \notin Waiting
    PROVE  \A n \in Threaded : \A i \in 1 .. Len(queue[n]) : queue[n][i] # c
BY DEF OneQueue

(* The queues stay, and a client that is in none changes. *)
LEMMA QueuesKept ==
    ASSUME TypeOK, OneQueue, NEW c \in Client, at[c] \notin Waiting,
           \A d \in Client : d # c => at'[d] = at[d] /\ auth'[d] = auth[d],
           UNCHANGED queue
    PROVE  OneQueue'
<1>1. \A n \in Threaded : \A i \in 1 .. Len(queue[n]) :
          queue[n][i] \in Client /\ queue[n][i] # c
  <2>1. \A n \in Threaded : queue[n] \in Seq(Client)
    BY DEF TypeOK
  <2> QED
    BY <2>1, NotQueued, ElementOfSeq
<1> QED
  BY <1>1 DEF OneQueue

(* A client is appended to the queue of the authenticator that it uses. *)
LEMMA QueueAppended ==
    ASSUME TypeOK, OneQueue, NEW c \in Client, at[c] \notin Waiting, auth[c] \in Threaded,
           queue' = [queue EXCEPT ![auth[c]] = Append(@, c)],
           \A d \in Client : d # c => at'[d] = at[d],
           at'[c] \in Waiting, UNCHANGED auth
    PROVE  OneQueue' /\ queue' \in [Threaded -> Seq(Client)]
<1>1. queue \in [Threaded -> Seq(Client)]
  BY DEF TypeOK
<1>2. /\ queue'[auth[c]] = Append(queue[auth[c]], c)
      /\ \A n \in Threaded : n # auth[c] => queue'[n] = queue[n]
  BY <1>1
<1>3. /\ queue[auth[c]] \in Seq(Client) /\ queue'[auth[c]] \in Seq(Client)
      /\ Len(queue[auth[c]]) \in Nat
      /\ Len(queue'[auth[c]]) = Len(queue[auth[c]]) + 1
      /\ \A i \in 1 .. Len(queue[auth[c]]) : queue'[auth[c]][i] = queue[auth[c]][i]
      /\ queue'[auth[c]][Len(queue[auth[c]]) + 1] = c
  BY <1>1, <1>2, AppendProperties, LenProperties
<1>4. \A n \in Threaded : \A i \in 1 .. Len(queue[n]) :
          /\ queue[n][i] \in Client /\ queue[n][i] # c
          /\ at'[queue[n][i]] \in Waiting /\ auth'[queue[n][i]] = n
  <2>1. \A n \in Threaded : \A i \in 1 .. Len(queue[n]) :
            queue[n][i] \in Client /\ queue[n][i] # c
    BY <1>1, NotQueued, ElementOfSeq
  <2> QED
    BY <2>1 DEF OneQueue
<1>5. ASSUME NEW n \in Threaded
      PROVE  /\ \A i \in 1 .. Len(queue'[n]) :
                    at'[queue'[n][i]] \in Waiting /\ auth'[queue'[n][i]] = n
             /\ \A i, j \in 1 .. Len(queue'[n]) : queue'[n][i] = queue'[n][j] => i = j
  <2>1. CASE n # auth[c]
    BY <1>2, <1>4, <2>1 DEF OneQueue
  <2>2. CASE n = auth[c]
    <3>1. \A i \in 1 .. Len(queue'[n]) : i \in 1 .. Len(queue[n]) \/ i = Len(queue[n]) + 1
      BY <1>3, <2>2
    <3>2. \A i \in 1 .. Len(queue'[n]) :
              at'[queue'[n][i]] \in Waiting /\ auth'[queue'[n][i]] = n
      BY <1>3, <1>4, <2>2, <3>1
    <3>3. \A i, j \in 1 .. Len(queue'[n]) : queue'[n][i] = queue'[n][j] => i = j
      BY <1>3, <1>4, <2>2, <3>1 DEF OneQueue
    <3> QED
      BY <3>2, <3>3
  <2> QED
    BY <2>1, <2>2
<1>6. queue' \in [Threaded -> Seq(Client)]
  BY <1>1, <1>3
<1> QED
  BY <1>5, <1>6 DEF OneQueue

(* The thread of an authenticator takes the first client of its queue. *)
LEMMA QueueTaken ==
    ASSUME TypeOK, OneQueue, NEW n \in Threaded, queue[n] # <<>>,
           queue' = [queue EXCEPT ![n] = Tail(@)],
           \A d \in Client : d # Head(queue[n]) => at'[d] = at[d], UNCHANGED auth
    PROVE  /\ OneQueue' /\ queue' \in [Threaded -> Seq(Client)]
           /\ Head(queue[n]) \in Client /\ at[Head(queue[n])] \in Waiting
<1> DEFINE c == Head(queue[n])
<1>1. queue \in [Threaded -> Seq(Client)] /\ queue[n] \in Seq(Client)
  BY DEF TypeOK
<1>2. /\ queue'[n] = Tail(queue[n])
      /\ \A m \in Threaded : m # n => queue'[m] = queue[m]
  BY <1>1
<1>3. /\ c \in Client /\ c = queue[n][1] /\ Len(queue[n]) \in Nat
      /\ queue'[n] \in Seq(Client) /\ 1 \in 1 .. Len(queue[n])
      /\ Len(queue'[n]) = Len(queue[n]) - 1
      /\ \A i \in 1 .. Len(queue'[n]) : i + 1 \in 1 .. Len(queue[n])
                                        /\ queue'[n][i] = queue[n][i + 1]
  <2>1. Len(queue[n]) \in Nat /\ Len(queue[n]) # 0
    BY <1>1, LenProperties, EmptySeq
  <2> QED
    BY <1>1, <1>2, <2>1, HeadTailProperties
<1>4. at[c] \in Waiting /\ auth[c] = n
  BY <1>3 DEF OneQueue
<1> HIDE DEF c
<1>5. \A d \in Client : d # c => at'[d] = at[d]
  BY DEF c
<1>6. ASSUME NEW m \in Threaded
      PROVE  /\ \A i \in 1 .. Len(queue'[m]) :
                    at'[queue'[m][i]] \in Waiting /\ auth'[queue'[m][i]] = m
             /\ \A i, j \in 1 .. Len(queue'[m]) : queue'[m][i] = queue'[m][j] => i = j
  <2>1. CASE m = n
    <3>1. \A i \in 1 .. Len(queue'[n]) : i + 1 # 1 /\ queue[n][i + 1] # c
      BY <1>3 DEF OneQueue
    <3>2. \A i \in 1 .. Len(queue[n]) : queue[n][i] \in Client
      BY <1>1, ElementOfSeq
    <3>3. \A i \in 1 .. Len(queue'[n]) :
              at'[queue'[n][i]] \in Waiting /\ auth'[queue'[n][i]] = n
      BY <1>3, <1>5, <3>1, <3>2 DEF OneQueue
    <3>4. \A i, j \in 1 .. Len(queue'[n]) : queue'[n][i] = queue'[n][j] => i = j
      BY <1>3 DEF OneQueue
    <3> QED
      BY <2>1, <3>3, <3>4
  <2>2. CASE m # n
    <3>1. queue'[m] = queue[m] /\ queue[m] \in Seq(Client)
      BY <1>1, <1>2, <2>2
    <3>2. \A i \in 1 .. Len(queue[m]) : queue[m][i] \in Client /\ queue[m][i] # c
      BY <1>4, <2>2, <3>1, ElementOfSeq DEF OneQueue
    <3> QED
      BY <1>5, <3>1, <3>2 DEF OneQueue
  <2> QED
    BY <2>1, <2>2
<1>7. queue' \in [Threaded -> Seq(Client)]
  BY <1>1, <1>3
<1> QED
  BY <1>3, <1>4, <1>6, <1>7 DEF OneQueue, c

----------------------------------------------------------------------------
(* The types are kept *)

(* The types of the other variables. *)
OtherTypes ==
    /\ at \in [Client -> Places] /\ stage \in [Client -> 1 .. 3]
    /\ acl \subseteq Client /\ verdict \in [Client -> Results \cup {"none"}]
    /\ said \in [Client -> Seq(Node \X Results)]
    /\ queue \in [Threaded -> Seq(Client)]
    /\ exec \in [Executor -> Client \cup {Null}] /\ reader \subseteq Executor
    /\ reload \in (SUBSET Threaded) \cup {Null}

(* The two halves of the type invariant. *)
LEMMA TypeParts == TypeOK <=> RefTypes /\ OtherTypes
BY DEF TypeOK, RefTypes, OtherTypes

(* What an authenticator says is written down. *)
LEMMA SaidType ==
    ASSUME OtherTypes, NEW c \in Client, NEW n \in Node, NEW r \in Results
    PROVE  [said EXCEPT ![c] = Append(@, <<n, r>>)] \in [Client -> Seq(Node \X Results)]
<1>1. said[c] \in Seq(Node \X Results) /\ <<n, r>> \in Node \X Results
  BY DEF OtherTypes
<1>2. Append(said[c], <<n, r>>) \in Seq(Node \X Results)
  BY <1>1, AppendProperties
<1> QED
  BY <1>2 DEF OtherTypes

(* Every step keeps the types. *)
LEMMA NextTypes ==
    ASSUME IInv, Next
    PROVE  TypeOK'
<1>1. TypeOK /\ OtherTypes /\ OnceInv /\ RefInv /\ \A c \in Client : Position(c)
  BY TypeParts DEF IInv, OrderInv
<1>2. RefTypes'
  BY WorkRefs, OtherRefs DEF Next
<1> SUFFICES OtherTypes'
  BY <1>2, TypeParts DEF TypeOK, RefTypes, OtherTypes
<1>3. ASSUME NEW c \in Client, Ask(c)
      PROVE  OtherTypes'
  BY <1>1, <1>3 DEF Ask, OtherTypes, Goto, Places, Executor
<1>4. ASSUME NEW c \in Client, Leave(c)
      PROVE  OtherTypes'
  <2>1. /\ at' = [at EXCEPT ![c] = "out"] /\ acl' = acl \ {c}
        /\ UNCHANGED <<stage, verdict, said, queue, exec, reader, reload>>
    BY <1>4 DEF Leave, Goto
  <2> QED
    BY <1>1, <2>1 DEF OtherTypes, Places
<1>5. ASSUME NEW c \in Client, LeaveQueued(c)
      PROVE  OtherTypes'
  <2>1. /\ at[c] = "in" /\ WantsRemove(c) /\ at' = [at EXCEPT ![c] = "remove"]
        /\ queue' = [queue EXCEPT ![auth[c]] = Append(@, c)]
        /\ UNCHANGED <<auth, stage, acl, verdict, said, exec, reader, reload>>
    BY <1>5 DEF LeaveQueued, Goto
  <2>2. auth[c] \in Threaded
    BY <1>1, <2>1 DEF WantsRemove, Threaded, TypeOK
  <2>3. at' \in [Client -> Places]
    BY <1>1, <2>1 DEF OtherTypes, Places
  <2>4. queue' \in [Threaded -> Seq(Client)]
    <3>1. queue[auth[c]] \in Seq(Client)
      BY <1>1, <2>2 DEF OtherTypes
    <3>2. Append(queue[auth[c]], c) \in Seq(Client)
      BY <3>1, AppendProperties
    <3> QED
      BY <1>1, <2>1, <3>2 DEF OtherTypes
  <2> QED
    BY <1>1, <2>1, <2>3, <2>4 DEF OtherTypes
<1>6. ASSUME NEW n \in Threaded, Take(n)
      PROVE  OtherTypes'
  <2> DEFINE c == Head(queue[n])
  <2>1. /\ queue[n] # <<>> /\ exec' = [exec EXCEPT ![n] = c]
        /\ at' = [at EXCEPT ![c] = IF at[c] = "remove" THEN "removing" ELSE "process"]
        /\ queue' = [queue EXCEPT ![n] = Tail(@)]
        /\ UNCHANGED <<auth, stage, acl, verdict, said, reader, reload>>
    BY <1>6 DEF Take, Goto
  <2>2. at' \in [Client -> Places]
    BY <1>1, <2>1 DEF OtherTypes, Places
  <2>3. \A d \in Client : d # c => at'[d] = at[d]
    BY <1>1, <2>1 DEF OtherTypes
  <2>4. queue' \in [Threaded -> Seq(Client)] /\ c \in Client
    BY <1>1, <2>1, <2>3, QueueTaken DEF OnceInv
  <2> HIDE DEF c
  <2>5. exec' \in [Executor -> Client \cup {Null}]
    BY <1>1, <2>1, <2>4 DEF OtherTypes, Executor
  <2> QED
    BY <1>1, <2>1, <2>2, <2>4, <2>5 DEF OtherTypes
<1>7. ASSUME NEW n \in Threaded, Joined(n)
      PROVE  OtherTypes'
  BY <1>1, <1>7 DEF Joined, clientVars, OtherTypes
<1>8. CASE ReloadDone
  BY <1>1, <1>8 DEF ReloadDone, clientVars, OtherTypes
<1>9. CASE Reload
  <2> DEFINE dead == Dead(where, config + 1)
  <2>1. /\ reload' = {n \in dead : life'[n] = "dying"}
        /\ life' = [n \in Node |->
                      IF n[3] = config + 1 THEN "up"
                      ELSE IF life[n] # "up" \/ ref'[n] > 0 THEN life[n]
                      ELSE IF n \in Threaded THEN "dying" ELSE "freed"]
        /\ UNCHANGED <<at, stage, acl, verdict, said, queue, exec, reader>>
    BY <1>9 DEF Reload, clientVars
  <2>2. ASSUME NEW n \in dead, life'[n] = "dying"
        PROVE  n \in Threaded
    <3>1. n \in Node /\ HeldNow(n)
      BY <2>2 DEF Dead, HeldNow
    <3>2. life[n] = "up"
      BY <1>1, <3>1, HeldUp
    <3> QED
      BY <2>1, <2>2, <3>1, <3>2
  <2>3. reload' \in SUBSET Threaded
    BY <2>1, <2>2
  <2> QED
    BY <1>1, <2>1, <2>3 DEF OtherTypes
<1>10. ASSUME NEW e \in Executor, Work(e)
       PROVE  OtherTypes'
  <2> SUFFICES ASSUME NEW c \in Client,
                    \/ LookMissing(e, c) \/ Look(e, c)
                    \/ TryBusy(e, c) \/ TrySkip(e, c) \/ TryTake(e, c) \/ AppendClient(e, c)
                    \/ (\E r \in Results : Process(e, c, r))
                    \/ ResultForward(e, c) \/ ResultNoMatch(e, c) \/ ResultDenied(e, c)
                    \/ ResultOk(e, c) \/ ResultFailed(e, c) \/ Finish(e, c) \/ Remove(e, c)
               PROVE  OtherTypes'
    BY <1>10 DEF Work
  <2>1. CASE LookMissing(e, c)
    <3>1. /\ Stacks[stage[c]] = <<>> /\ stage' = [stage EXCEPT ![c] = @ + 1]
          /\ UNCHANGED <<at, acl, verdict, said, queue, exec, reader, reload>>
      BY <2>1 DEF LookMissing
    <3>2. stage[c] + 1 \in 1 .. 3
      <4>1. stage[c] \in 1 .. 3 /\ stage[c] # 3
        BY <1>1, <3>1, StackTypes DEF OtherTypes
      <4> QED
        BY <4>1
    <3> QED
      BY <1>1, <3>1, <3>2 DEF OtherTypes
  <2>2. CASE Look(e, c)
    BY <1>1, <2>2 DEF Look, Goto, OtherTypes, Places
  <2>3. CASE TryBusy(e, c) \/ TryTake(e, c) \/ ResultForward(e, c)
    <3>1. /\ \E l \in Places : at' = [at EXCEPT ![c] = l]
          /\ UNCHANGED <<stage, acl, verdict, said, queue, exec, reader, reload>>
      BY <2>3 DEF TryBusy, TryTake, ResultForward, Goto, Places
    <3> QED
      BY <1>1, <3>1 DEF OtherTypes
  <2>4. CASE TrySkip(e, c) \/ (\E r \in Results : Process(e, c, r))
    <3>1. PICK r \in Results :
             /\ at[c] \in {"try", "process"} /\ at' = [at EXCEPT ![c] = "result"]
             /\ verdict' = [verdict EXCEPT ![c] = r]
             /\ said' = [said EXCEPT ![c] = Append(@, <<where[c], r>>)]
             /\ (acl' = acl \cup {c} \/ acl' = acl)
             /\ UNCHANGED <<stage, queue, exec, reader, reload>>
      <4>1. CASE TrySkip(e, c)
        BY <4>1 DEF TrySkip, At, Goto, Results
      <4>2. ASSUME NEW r \in Results, Process(e, c, r)
            PROVE  /\ at[c] \in {"try", "process"} /\ at' = [at EXCEPT ![c] = "result"]
                   /\ verdict' = [verdict EXCEPT ![c] = r]
                   /\ said' = [said EXCEPT ![c] = Append(@, <<where[c], r>>)]
                   /\ (acl' = acl \cup {c} \/ acl' = acl)
                   /\ UNCHANGED <<stage, queue, exec, reader, reload>>
        BY <4>2 DEF Process, At, Goto
      <4> QED
        BY <2>4, <4>1, <4>2
    <3>2. where[c] \in Node
      BY <1>1, <3>1 DEF Position, Asked
    <3>3. said' \in [Client -> Seq(Node \X Results)]
      BY <1>1, <3>1, <3>2, SaidType
    <3> QED
      BY <1>1, <3>1, <3>3 DEF OtherTypes, Places
  <2>5. CASE AppendClient(e, c)
    <3>1. /\ at[c] = "append" /\ at' = [at EXCEPT ![c] = "queued"]
          /\ queue' = [queue EXCEPT ![auth[c]] = Append(@, c)]
          /\ exec' = [exec EXCEPT ![e] = Null] /\ reader' = reader \ {e}
          /\ UNCHANGED <<stage, acl, verdict, said, reload>>
      BY <2>5 DEF AppendClient, At, Goto
    <3>2. queue' \in [Threaded -> Seq(Client)]
      <4>1. queue[auth[c]] \in Seq(Client)
        BY <1>1, <3>1 DEF OtherTypes, OnceInv, Taken
      <4>2. Append(queue[auth[c]], c) \in Seq(Client)
        BY <4>1, AppendProperties
      <4> QED
        BY <1>1, <3>1, <4>2 DEF OtherTypes
    <3> QED
      BY <1>1, <3>1, <3>2 DEF OtherTypes, Places
  <2>6. CASE \/ ResultNoMatch(e, c) \/ ResultDenied(e, c) \/ ResultOk(e, c)
             \/ ResultFailed(e, c)
    <3>1. /\ \E l \in Places : at' = [at EXCEPT ![c] = l]
          /\ UNCHANGED <<acl, verdict, said, queue, exec, reader, reload>>
          /\ \/ UNCHANGED stage
             \/ stage[c] < 3 /\ stage' = [stage EXCEPT ![c] = @ + 1]
      BY <2>6 DEF ResultNoMatch, ResultDenied, ResultOk, ResultFailed, NextStack,
                  Unstack, Goto, Places
    <3>2. stage' \in [Client -> 1 .. 3]
      <4>1. stage \in [Client -> 1 .. 3] /\ stage[c] \in 1 .. 3
        BY <1>1 DEF OtherTypes
      <4>2. stage[c] < 3 => stage[c] + 1 \in 1 .. 3
        BY <4>1
      <4> QED
        BY <3>1, <4>1, <4>2
    <3> QED
      BY <1>1, <3>1, <3>2 DEF OtherTypes
  <2>7. CASE Finish(e, c)
    <3>1. /\ at' = [at EXCEPT ![c] = "in"] /\ said' = [said EXCEPT ![c] = <<>>]
          /\ verdict' = [verdict EXCEPT ![c] = "none"]
          /\ exec' = [exec EXCEPT ![e] = Null] /\ reader' = reader \ {e}
          /\ UNCHANGED <<stage, acl, queue, reload>>
      BY <2>7 DEF Finish, Goto
    <3>2. said' \in [Client -> Seq(Node \X Results)]
      <4>1. <<>> \in Seq(Node \X Results)
        BY EmptySeq
      <4> QED
        BY <1>1, <3>1, <4>1 DEF OtherTypes
    <3> QED
      BY <1>1, <3>1, <3>2 DEF OtherTypes, Places
  <2>8. CASE Remove(e, c)
    <3>1. /\ at' = [at EXCEPT ![c] = "removed"] /\ exec' = [exec EXCEPT ![e] = Null]
          /\ UNCHANGED <<stage, acl, verdict, said, queue, reader, reload>>
      BY <2>8 DEF Remove, Goto
    <3> QED
      BY <1>1, <3>1 DEF OtherTypes, Places
  <2> QED
    BY <2>1, <2>2, <2>3, <2>4, <2>5, <2>6, <2>7, <2>8
<1> QED
  BY <1>3, <1>4, <1>5, <1>6, <1>7, <1>8, <1>9, <1>10 DEF Next

----------------------------------------------------------------------------
(* Every step keeps a client in one place *)

(* A thread works on its client, and goes on or lets go of it. *)
LEMMA WorkOnce ==
    ASSUME IInv, TypeOK', NEW e \in Executor, Work(e)
    PROVE  OnceInv'
<1>1. TypeOK /\ OneThread /\ OneQueue /\ Taken
  BY DEF IInv, OnceInv
<1> SUFFICES ASSUME NEW c \in Client,
                    \/ LookMissing(e, c) \/ Look(e, c)
                    \/ TryBusy(e, c) \/ TrySkip(e, c) \/ TryTake(e, c) \/ AppendClient(e, c)
                    \/ (\E r \in Results : Process(e, c, r))
                    \/ ResultForward(e, c) \/ ResultNoMatch(e, c) \/ ResultDenied(e, c)
                    \/ ResultOk(e, c) \/ ResultFailed(e, c) \/ Finish(e, c) \/ Remove(e, c)
             PROVE  OnceInv'
  BY DEF Work
<1>2. exec[e] = c
  BY DEF LookMissing, Look, TryBusy, TrySkip, TryTake, AppendClient, Process,
         ResultForward, ResultNoMatch, ResultDenied, ResultOk, ResultFailed, Finish,
         Remove, At
<1>3. /\ c # Null /\ at[c] \in Worked /\ at[c] \notin Waiting
      /\ \A f \in Executor : exec[f] = c => f = e
  BY <1>1, <1>2, StackTypes DEF OneThread, Worked, Waiting
<1>4. CASE ~(AppendClient(e, c) \/ Finish(e, c) \/ Remove(e, c))
  <2>1. /\ UNCHANGED <<queue, exec>>
        /\ \A d \in Client : d # c => auth'[d] = auth[d]
    <3>1. UNCHANGED auth \/ \E x : auth' = [auth EXCEPT ![c] = x]
      BY <1>4 DEF LookMissing, Look, TryBusy, TrySkip, TryTake, Process, ResultForward,
                  ResultNoMatch, ResultDenied, ResultOk, ResultFailed, NextStack, Unstack
    <3>2. UNCHANGED <<queue, exec>>
      BY <1>4 DEF LookMissing, Look, TryBusy, TrySkip, TryTake, Process, ResultForward,
                  ResultNoMatch, ResultDenied, ResultOk, ResultFailed, NextStack, Unstack
    <3> QED
      BY <1>1, <3>1, <3>2 DEF TypeOK
  <2>2. PICK l \in Worked : /\ at'[c] = l
                            /\ \A d \in Client : d # c => at'[d] = at[d]
                            /\ l = "append" => auth'[c] \in Threaded
    <3>1. CASE TryTake(e, c)
      <4>1. /\ at' = [at EXCEPT ![c] = IF where[c] \in Threaded THEN "append" ELSE "process"]
            /\ auth' = [auth EXCEPT ![c] = where[c]]
        BY <3>1 DEF TryTake, Goto
      <4> QED
        BY <1>1, <4>1 DEF TypeOK, Worked
    <3>2. CASE LookMissing(e, c)
      BY <1>1, <3>2 DEF LookMissing, At, Worked
    <3>3. CASE ~(TryTake(e, c) \/ LookMissing(e, c))
      <4>1. \E l \in Worked \ {"append"} : at' = [at EXCEPT ![c] = l]
        BY <1>4, <3>3 DEF Look, TryBusy, TrySkip, Process, ResultForward, ResultNoMatch,
            ResultDenied, ResultOk, ResultFailed, NextStack, Unstack, Goto, Worked
      <4> QED
        BY <1>1, <4>1 DEF TypeOK
    <3> QED
      BY <3>1, <3>2, <3>3
  <2>3. OneThread'
    BY <1>1, <1>3, <2>1, <2>2, ThreadsKept
  <2>4. OneQueue'
    BY <1>1, <1>3, <2>1, <2>2, QueuesKept
  <2>5. Taken'
    BY <1>1, <2>1, <2>2 DEF Taken
  <2> QED
    BY <2>3, <2>4, <2>5 DEF OnceInv
<1>5. CASE AppendClient(e, c)
  <2>1. /\ at[c] = "append" /\ at' = [at EXCEPT ![c] = "queued"]
        /\ queue' = [queue EXCEPT ![auth[c]] = Append(@, c)]
        /\ exec' = [exec EXCEPT ![e] = Null] /\ UNCHANGED auth
    BY <1>5 DEF AppendClient, At, Goto
  <2>2. at'[c] = "queued" /\ \A d \in Client : d # c => at'[d] = at[d]
    BY <1>1, <2>1 DEF TypeOK
  <2>3. exec'[e] = Null /\ \A f \in Executor : f # e => exec'[f] = exec[f]
    BY <1>1, <2>1 DEF TypeOK
  <2>4. OneThread'
    BY <1>1, <1>3, <2>2, <2>3, ThreadsKept
  <2>5. OneQueue'
    BY <1>1, <1>3, <2>1, <2>2, QueueAppended DEF Taken, Waiting
  <2>6. Taken'
    BY <1>1, <2>1, <2>2 DEF Taken
  <2> QED
    BY <2>4, <2>5, <2>6 DEF OnceInv
<1>6. CASE Finish(e, c) \/ Remove(e, c)
  <2>1. /\ \E l \in {"in", "removed"} : at' = [at EXCEPT ![c] = l]
        /\ exec' = [exec EXCEPT ![e] = Null] /\ UNCHANGED queue
        /\ UNCHANGED auth \/ auth' = [auth EXCEPT ![c] = Null]
    BY <1>6 DEF Finish, Remove, Goto
  <2>2. /\ at'[c] \in {"in", "removed"}
        /\ \A d \in Client : d # c => at'[d] = at[d] /\ auth'[d] = auth[d]
    BY <1>1, <2>1 DEF TypeOK
  <2>3. exec'[e] = Null /\ \A f \in Executor : f # e => exec'[f] = exec[f]
    BY <1>1, <2>1 DEF TypeOK
  <2>4. OneThread'
    BY <1>1, <1>3, <2>2, <2>3, ThreadsKept
  <2>5. OneQueue'
    BY <1>1, <1>3, <2>1, <2>2, QueuesKept
  <2>6. Taken'
    BY <1>1, <2>2 DEF Taken
  <2> QED
    BY <2>4, <2>5, <2>6 DEF OnceInv
<1> QED
  BY <1>4, <1>5, <1>6

(* A client comes, goes, or is taken from a queue. *)
LEMMA OtherOnce ==
    ASSUME IInv, TypeOK',
           \/ \E c \in Client : Ask(c) \/ Leave(c) \/ LeaveQueued(c)
           \/ \E n \in Threaded : Take(n) \/ Joined(n)
           \/ Reload \/ ReloadDone
    PROVE  OnceInv'
<1>1. TypeOK /\ OneThread /\ OneQueue /\ Taken
  BY DEF IInv, OnceInv
<1>2. ASSUME NEW c \in Client, at[c] \notin Worked
      PROVE  \A e \in Executor : exec[e] # c
  BY <1>1, <1>2, StackTypes DEF OneThread
<1>3. ASSUME NEW c \in Client, Ask(c)
      PROVE  OnceInv'
  <2>1. /\ at[c] = "out" /\ at' = [at EXCEPT ![c] = "look"]
        /\ exec' = [exec EXCEPT ![Acceptor] = c] /\ UNCHANGED <<queue, auth>>
    BY <1>3 DEF Ask, Goto
  <2>2. at'[c] = "look" /\ \A d \in Client : d # c => at'[d] = at[d]
    BY <1>1, <2>1 DEF TypeOK
  <2>3. exec'[Acceptor] = c /\ \A f \in Executor : f # Acceptor => exec'[f] = exec[f]
    BY <1>1, <2>1 DEF TypeOK, Executor
  <2>4. \A f \in Executor : exec[f] # c
    BY <1>2, <2>1 DEF Worked
  <2>5. OneThread'
    BY <1>1, <2>2, <2>3, <2>4, ThreadsKept DEF Worked
  <2>6. OneQueue'
    BY <1>1, <2>1, <2>2, QueuesKept DEF Waiting
  <2>7. Taken'
    BY <1>1, <2>1, <2>2 DEF Taken
  <2> QED
    BY <2>5, <2>6, <2>7 DEF OnceInv
<1>4. ASSUME NEW c \in Client, Leave(c)
      PROVE  OnceInv'
  <2>1. /\ at[c] = "in" /\ at' = [at EXCEPT ![c] = "out"] /\ UNCHANGED <<queue, exec>>
        /\ UNCHANGED auth \/ auth' = [auth EXCEPT ![c] = Null]
    BY <1>4 DEF Leave, Goto
  <2>2. /\ at'[c] = "out"
        /\ \A d \in Client : d # c => at'[d] = at[d] /\ auth'[d] = auth[d]
    BY <1>1, <2>1 DEF TypeOK
  <2>3. \A f \in Executor : exec[f] # c
    BY <1>2, <2>1 DEF Worked
  <2>4. OneThread'
    BY <1>1, <2>1, <2>2, <2>3, ThreadsKept
  <2>5. OneQueue'
    BY <1>1, <2>1, <2>2, QueuesKept DEF Waiting
  <2>6. Taken'
    BY <1>1, <2>2 DEF Taken
  <2> QED
    BY <2>4, <2>5, <2>6 DEF OnceInv
<1>5. ASSUME NEW c \in Client, LeaveQueued(c)
      PROVE  OnceInv'
  <2>1. /\ at[c] = "in" /\ WantsRemove(c) /\ at' = [at EXCEPT ![c] = "remove"]
        /\ queue' = [queue EXCEPT ![auth[c]] = Append(@, c)] /\ UNCHANGED <<auth, exec>>
    BY <1>5 DEF LeaveQueued, Goto
  <2>2. auth[c] \in Threaded
    BY <1>1, <2>1 DEF WantsRemove, Threaded, TypeOK
  <2>3. at'[c] = "remove" /\ \A d \in Client : d # c => at'[d] = at[d]
    BY <1>1, <2>1 DEF TypeOK
  <2>4. \A f \in Executor : exec[f] # c
    BY <1>2, <2>1 DEF Worked
  <2>5. OneThread'
    BY <1>1, <2>1, <2>3, <2>4, ThreadsKept
  <2>6. OneQueue'
    BY <1>1, <2>1, <2>2, <2>3, QueueAppended DEF Waiting
  <2>7. Taken'
    BY <1>1, <2>1, <2>3 DEF Taken
  <2> QED
    BY <2>5, <2>6, <2>7 DEF OnceInv
<1>6. ASSUME NEW n \in Threaded, Take(n)
      PROVE  OnceInv'
  <2> DEFINE c == Head(queue[n])
  <2>1. /\ queue[n] # <<>> /\ exec[n] = Null /\ exec' = [exec EXCEPT ![n] = c]
        /\ at' = [at EXCEPT ![c] = IF at[c] = "remove" THEN "removing" ELSE "process"]
        /\ queue' = [queue EXCEPT ![n] = Tail(@)] /\ UNCHANGED auth
    BY <1>6 DEF Take, Goto
  <2>2. \A d \in Client : d # c => at'[d] = at[d]
    BY <1>1, <2>1 DEF TypeOK
  <2>3. OneQueue' /\ c \in Client /\ at[c] \in Waiting
    BY <1>1, <2>1, <2>2, QueueTaken
  <2> HIDE DEF c
  <2>4. at'[c] \in {"removing", "process"}
    BY <1>1, <2>1, <2>3 DEF TypeOK
  <2>5. exec'[n] = c /\ \A f \in Executor : f # n => exec'[f] = exec[f]
    BY <1>1, <2>1 DEF TypeOK, Executor
  <2>6. \A f \in Executor : exec[f] # c
    BY <1>2, <2>3 DEF Worked, Waiting
  <2>7. OneThread'
    BY <1>1, <2>2, <2>3, <2>4, <2>5, <2>6, ThreadsKept DEF Worked
  <2>8. Taken'
    BY <1>1, <2>1, <2>2, <2>4 DEF Taken
  <2> QED
    BY <2>3, <2>7, <2>8 DEF OnceInv
<1>7. ASSUME UNCHANGED <<at, exec, queue, auth>>
      PROVE  OnceInv'
  BY <1>1, <1>7 DEF OnceInv, OneThread, OneQueue, Taken
<1>8. ASSUME (\E n \in Threaded : Joined(n)) \/ Reload \/ ReloadDone
      PROVE  OnceInv'
  BY <1>7, <1>8 DEF Joined, Reload, ReloadDone, clientVars
<1> QED
  BY <1>3, <1>4, <1>5, <1>6, <1>8

----------------------------------------------------------------------------
(* The stacks are gone through in order *)

(* A stack that is empty is passed over. *)
LEMMA FollowsPast ==
    ASSUME NEW m \in Node, NEW s \in 1 .. 3, NEW g, NEW r,
           Follows(m, <<s, 1, g>>, r), Stacks[s] = <<>>
    PROVE  Follows(m, <<s + 1, 1, g>>, r)
<1>1. m[1] \in Int /\ m[2] \in Int /\ m[2] >= 1
  <2>1. m[1] \in 1 .. 3 /\ m[2] \in 1 .. Len(Stacks[m[1]])
    BY NodeParts
  <2> QED
    BY <2>1, StackTypes
<1>2. /\ r = "ok" \/ (r = "nomatch" /\ m[2] = Len(Stacks[m[1]]))
      /\ s > m[1] /\ \A t \in m[1] + 1 .. s - 1 : Stacks[t] = <<>>
  BY <1>1 DEF Follows
<1>3. s + 1 > m[1] /\ \A t \in m[1] + 1 .. (s + 1) - 1 : Stacks[t] = <<>>
  BY <1>1, <1>2
<1> QED
  BY <1>2, <1>3 DEF Follows

(* What was said stays in order with the answer of the place that the      *)
(* client stands at.                                                       *)
LEMMA SaidInOrder ==
    ASSUME TypeOK, NEW c \in Client, Position(c), InOrder(c), at[c] \in Asked,
           NEW r \in Results,
           said' = [said EXCEPT ![c] = Append(@, <<where[c], r>>)]
    PROVE  /\ InOrder(c)' /\ said'[c] # <<>>
           /\ said'[c][Len(said'[c])] = <<where[c], r>>
<1> DEFINE q == said[c]
           x == <<where[c], r>>
           S == Node \X Results
<1>1. where[c] \in Node /\ (q # <<>> => Follows(q[Len(q)][1], where[c], q[Len(q)][2]))
  BY DEF Position, Leads, Last
<1>2. q \in Seq(S) /\ x \in S /\ said'[c] = Append(q, x)
  BY <1>1 DEF TypeOK
<1>3. x[1] = where[c] /\ x[2] = r
  OBVIOUS
<1>4. \A k \in 1 .. Len(q) - 1 : Follows(q[k][1], q[k + 1][1], q[k][2])
  BY DEF InOrder
<1> HIDE DEF q, x, S
<1>5. /\ Len(q) \in Nat /\ Len(said'[c]) = Len(q) + 1 /\ said'[c][Len(q) + 1] = x
      /\ \A k \in 1 .. Len(q) : said'[c][k] = q[k]
      /\ Len(q) # 0 => q # <<>>
  <2>1. Len(q) \in Nat
    BY <1>2, LenProperties
  <2>2. /\ Len(Append(q, x)) = Len(q) + 1
        /\ \A k \in 1 .. Len(q) : Append(q, x)[k] = q[k]
        /\ Append(q, x)[Len(q) + 1] = x
    BY <1>2, AppendProperties
  <2>3. Len(q) # 0 => q # <<>>
    BY EmptySeq
  <2> QED
    BY <1>2, <2>1, <2>2, <2>3
<1>6. said'[c] # <<>>
  <2>1. Append(q, x) \in Seq(S)
    BY <1>2, AppendProperties
  <2>2. Len(said'[c]) # 0
    BY <1>5
  <2> QED
    BY <1>2, <2>1, <2>2, EmptySeq
<1>7. ASSUME NEW k \in 1 .. Len(said'[c]) - 1
      PROVE  Follows(said'[c][k][1], said'[c][k + 1][1], said'[c][k][2])
  <2>1. CASE k < Len(q)
    <3>1. k \in 1 .. Len(q) - 1 /\ k \in 1 .. Len(q) /\ k + 1 \in 1 .. Len(q)
      BY <1>5, <2>1
    <3>2. said'[c][k] = q[k] /\ said'[c][k + 1] = q[k + 1]
      BY <1>5, <3>1
    <3> QED
      BY <1>4, <3>1, <3>2
  <2>2. CASE k = Len(q)
    <3>1. said'[c][k] = q[Len(q)] /\ said'[c][k + 1] = x /\ q # <<>>
      BY <1>5, <2>2
    <3> QED
      BY <1>1, <1>3, <3>1
  <2> QED
    BY <1>5, <2>1, <2>2
<1> QED
  BY <1>5, <1>6, <1>7 DEF InOrder, x

(* The clients that a step is not about keep their positions. *)
LEMMA OthersOrder ==
    ASSUME OrderInv, NEW c \in Client, Position(c)', InOrder(c)',
           \A d \in Client : d # c =>
               UNCHANGED <<at[d], stage[d], where[d], verdict[d], said[d]>>
    PROVE  OrderInv'
<1>1. ASSUME NEW d \in Client, d # c
      PROVE  Position(d)' /\ InOrder(d)'
  BY <1>1 DEF OrderInv, Position, InOrder, Leads, Last
<1> QED
  BY <1>1 DEF OrderInv

(* A thread works on a client: where it comes to follows what was said. *)
LEMMA WorkOrder ==
    ASSUME IInv, TypeOK', NEW e \in Executor, Work(e)
    PROVE  OrderInv'
<1>1. TypeOK /\ OrderInv
  BY DEF IInv
<1> SUFFICES ASSUME NEW c \in Client,
                    \/ LookMissing(e, c) \/ Look(e, c)
                    \/ TryBusy(e, c) \/ TrySkip(e, c) \/ TryTake(e, c) \/ AppendClient(e, c)
                    \/ (\E r \in Results : Process(e, c, r))
                    \/ ResultForward(e, c) \/ ResultNoMatch(e, c) \/ ResultDenied(e, c)
                    \/ ResultOk(e, c) \/ ResultFailed(e, c) \/ Finish(e, c) \/ Remove(e, c)
             PROVE  OrderInv'
  BY DEF Work
<1>2. Position(c) /\ InOrder(c) /\ at[c] \in Places /\ stage[c] \in 1 .. 3
      /\ said[c] \in Seq(Node \X Results)
  BY <1>1 DEF OrderInv, TypeOK
<1>3. said[c] # <<>> => Last(c)[1] \in Node
  <2>1. ASSUME said[c] # <<>> PROVE Last(c) \in Node \X Results
    <3>1. Len(said[c]) \in Nat /\ Len(said[c]) # 0
      BY <1>2, <2>1, LenProperties, EmptySeq
    <3>2. Len(said[c]) \in 1 .. Len(said[c])
      BY <3>1
    <3> QED
      BY <1>2, <3>2, ElementOfSeq DEF Last
  <2> QED
    BY <2>1
<1>4. CASE LookMissing(e, c)
  <2>1. /\ at[c] = "look" /\ Stacks[stage[c]] = <<>>
        /\ stage' = [stage EXCEPT ![c] = @ + 1] /\ UNCHANGED <<at, where, verdict, said>>
    BY <1>4 DEF LookMissing, At
  <2>2. stage'[c] = stage[c] + 1 /\ \A d \in Client : d # c => stage'[d] = stage[d]
    BY <1>1, <2>1 DEF TypeOK
  <2>3. \A g \in 1 .. MaxGen : Leads(c, <<stage[c], 1, g>>) => Leads(c, <<stage[c] + 1, 1, g>>)
    BY <1>2, <1>3, <2>1, FollowsPast DEF Leads
  <2>4. Position(c)'
    BY <1>2, <2>1, <2>2, <2>3 DEF Position, Leads, Last, Asked, Resting
  <2> QED
    BY <1>1, <1>2, <2>1, <2>2, <2>4, OthersOrder DEF InOrder
<1>5. CASE Look(e, c)
  <2>1. /\ at[c] = "look" /\ Stacks[stage[c]] # <<>> /\ at' = [at EXCEPT ![c] = "try"]
        /\ where' = [where EXCEPT ![c] = <<stage[c], 1, config>>]
        /\ UNCHANGED <<stage, verdict, said>>
    BY <1>5 DEF Look, At, Goto
  <2>2. /\ at'[c] = "try" /\ where'[c] = <<stage[c], 1, config>>
        /\ \A d \in Client : d # c => at'[d] = at[d] /\ where'[d] = where[d]
    BY <1>1, <2>1 DEF TypeOK
  <2>3. config \in 1 .. MaxGen /\ where'[c] \in Node
    <3>1. 1 \in 1 .. Len(Stacks[stage[c]]) /\ config \in 1 .. MaxGen
      BY <1>1, <1>2, <2>1, StackTypes DEF TypeOK
    <3> QED
      BY <1>2, <2>2, <3>1, NodeParts
  <2>4. Leads(c, <<stage[c], 1, config>>)
    BY <1>2, <2>1, <2>3 DEF Position
  <2>5. Position(c)'
    BY <2>1, <2>2, <2>3, <2>4 DEF Position, Leads, Last, Asked, Resting
  <2> QED
    BY <1>1, <1>2, <2>1, <2>2, <2>5, OthersOrder DEF InOrder
<1>6. CASE TryBusy(e, c) \/ ResultOk(e, c) \/ ResultFailed(e, c)
  <2>1. /\ \/ at' = [at EXCEPT ![c] = "refuse"]
           \/ at[c] = "result" /\ verdict[c] = "ok" /\ at' = [at EXCEPT ![c] = "enter"]
        /\ where' = [where EXCEPT ![c] = Null] /\ UNCHANGED <<stage, verdict, said>>
    BY <1>6 DEF TryBusy, ResultOk, ResultFailed, Unstack, At, Goto
  <2>2. /\ at'[c] = "refuse" \/ (at[c] = "result" /\ verdict[c] = "ok" /\ at'[c] = "enter")
        /\ where'[c] = Null
        /\ \A d \in Client : d # c => at'[d] = at[d] /\ where'[d] = where[d]
    BY <1>1, <2>1 DEF TypeOK
  <2>3. Position(c)'
    BY <1>2, <2>1, <2>2 DEF Position, Leads, Last, Asked, Resting
  <2> QED
    BY <1>1, <1>2, <2>1, <2>2, <2>3, OthersOrder DEF InOrder
<1>7. CASE TryTake(e, c) \/ AppendClient(e, c)
  <2>1. /\ at[c] \in Asked /\ \E l \in Asked : at' = [at EXCEPT ![c] = l]
        /\ UNCHANGED <<where, stage, verdict, said>>
    BY <1>7 DEF TryTake, AppendClient, At, Goto, Asked
  <2>2. at'[c] \in Asked /\ \A d \in Client : d # c => at'[d] = at[d]
    BY <1>1, <2>1 DEF TypeOK
  <2>3. Position(c)'
    BY <1>2, <2>1, <2>2 DEF Position, Leads, Last, Asked, Resting
  <2> QED
    BY <1>1, <1>2, <2>1, <2>2, <2>3, OthersOrder DEF InOrder
<1>8. CASE TrySkip(e, c) \/ (\E r \in Results : Process(e, c, r))
  <2>1. PICK r \in Results :
           /\ at[c] \in Asked /\ at' = [at EXCEPT ![c] = "result"]
           /\ verdict' = [verdict EXCEPT ![c] = r]
           /\ said' = [said EXCEPT ![c] = Append(@, <<where[c], r>>)]
           /\ UNCHANGED <<stage, where>>
    <3>1. CASE TrySkip(e, c)
      BY <3>1 DEF TrySkip, At, Goto, Results, Asked
    <3>2. ASSUME NEW r \in Results, Process(e, c, r)
          PROVE  /\ at[c] \in Asked /\ at' = [at EXCEPT ![c] = "result"]
                 /\ verdict' = [verdict EXCEPT ![c] = r]
                 /\ said' = [said EXCEPT ![c] = Append(@, <<where[c], r>>)]
                 /\ UNCHANGED <<stage, where>>
      BY <3>2 DEF Process, At, Goto, Asked
    <3> QED
      BY <1>8, <3>1, <3>2
  <2>2. /\ InOrder(c)' /\ said'[c] # <<>> /\ said'[c][Len(said'[c])] = <<where[c], r>>
    BY <1>1, <1>2, <2>1, SaidInOrder
  <2>3. /\ at'[c] = "result" /\ verdict'[c] = r
        /\ \A d \in Client : d # c => at'[d] = at[d] /\ verdict'[d] = verdict[d]
                                      /\ said'[d] = said[d]
    BY <1>1, <2>1 DEF TypeOK
  <2>4. Position(c)'
    BY <1>2, <2>1, <2>2, <2>3 DEF Position, Last, Asked, Resting
  <2> QED
    BY <1>1, <2>1, <2>2, <2>3, <2>4, OthersOrder
<1>9. CASE ResultForward(e, c)
  <2>1. /\ at[c] = "result" /\ verdict[c] = "nomatch" /\ at' = [at EXCEPT ![c] = "try"]
        /\ where' = [where EXCEPT ![c] = Forward(where[c])]
        /\ UNCHANGED <<stage, verdict, said>>
    BY <1>9 DEF ResultForward, At, Goto
  <2>2. /\ at'[c] = "try" /\ where'[c] = Forward(where[c])
        /\ \A d \in Client : d # c => at'[d] = at[d] /\ where'[d] = where[d]
    BY <1>1, <2>1 DEF TypeOK
  <2>3. /\ where[c] \in Node /\ where[c][1] = stage[c]
        /\ said[c] # <<>> /\ Last(c) = <<where[c], verdict[c]>>
    BY <1>2, <2>1 DEF Position
  <2>4. Last(c)[1] = where[c] /\ Last(c)[2] = "nomatch"
    BY <2>1, <2>3
  <2>5. Forward(where[c])[1] = where[c][1] /\ Leads(c, Forward(where[c]))
    BY <2>4 DEF Leads, Follows, Forward
  <2>6. where'[c] \in Node
    <3>1. ~LastInStack(where[c])
      BY <1>9 DEF ResultForward
    <3>2. /\ where[c][1] \in 1 .. 3 /\ where[c][2] \in 1 .. Len(Stacks[where[c][1]])
          /\ where[c][3] \in 1 .. MaxGen /\ Len(Stacks[where[c][1]]) \in Nat
          /\ where[c][2] # Len(Stacks[where[c][1]])
      BY <2>3, <3>1, NodeParts, StackTypes DEF LastInStack
    <3>3. where[c][2] + 1 \in 1 .. Len(Stacks[where[c][1]])
      BY <3>2
    <3> QED
      BY <2>2, <3>2, <3>3, NodeParts DEF Forward
  <2>7. Position(c)'
    BY <2>1, <2>2, <2>3, <2>5, <2>6 DEF Position, Leads, Last, Asked, Resting
  <2> QED
    BY <1>1, <1>2, <2>1, <2>2, <2>7, OthersOrder DEF InOrder
<1>10. CASE ResultNoMatch(e, c) \/ ResultDenied(e, c)
  <2>1. /\ at[c] = "result" /\ where' = [where EXCEPT ![c] = Null]
        /\ UNCHANGED <<verdict, said>>
        /\ verdict[c] = "ok" \/ (verdict[c] = "nomatch" /\ LastInStack(where[c]))
        /\ \/ at' = [at EXCEPT ![c] = "look"] /\ stage' = [stage EXCEPT ![c] = @ + 1]
           \/ at' = [at EXCEPT ![c] = "refuse"] /\ UNCHANGED stage
    BY <1>10 DEF ResultNoMatch, ResultDenied, NextStack, Unstack, At, Goto
  <2>2. /\ where'[c] = Null
        /\ \A d \in Client : d # c => at'[d] = at[d] /\ where'[d] = where[d]
                                      /\ stage'[d] = stage[d]
        /\ (at'[c] = "look" /\ stage'[c] = stage[c] + 1) \/ at'[c] = "refuse"
    BY <1>1, <2>1 DEF TypeOK
  <2>3. /\ where[c] \in Node /\ where[c][1] = stage[c]
        /\ said[c] # <<>> /\ Last(c) = <<where[c], verdict[c]>>
    BY <1>2, <2>1 DEF Position
  <2>4. Last(c)[1] = where[c] /\ Last(c)[2] = verdict[c]
    BY <2>3
  <2>5. ASSUME NEW g \in 1 .. MaxGen
        PROVE  Leads(c, <<stage[c] + 1, 1, g>>)
    <3>1. Follows(where[c], <<stage[c] + 1, 1, g>>, verdict[c])
      <4>1. \A s \in where[c][1] + 1 .. (stage[c] + 1) - 1 : FALSE
        BY <1>2, <2>3
      <4>2. stage[c] + 1 > where[c][1]
        BY <1>2, <2>3
      <4> QED
        BY <2>1, <4>1, <4>2 DEF Follows, LastInStack
    <3> QED
      BY <2>4, <3>1 DEF Leads
  <2>6. Position(c)'
    BY <2>1, <2>2, <2>5 DEF Position, Leads, Last, Asked, Resting
  <2> QED
    BY <1>1, <1>2, <2>1, <2>2, <2>6, OthersOrder DEF InOrder
<1>11. CASE Finish(e, c)
  <2>1. /\ at[c] \in {"enter", "refuse"} /\ at' = [at EXCEPT ![c] = "in"]
        /\ said' = [said EXCEPT ![c] = <<>>]
        /\ verdict' = [verdict EXCEPT ![c] = "none"] /\ UNCHANGED <<stage, where>>
    BY <1>11 DEF Finish, Goto
  <2>2. /\ at'[c] = "in" /\ said'[c] = <<>>
        /\ \A d \in Client : d # c => at'[d] = at[d] /\ said'[d] = said[d]
                                      /\ verdict'[d] = verdict[d]
    BY <1>1, <2>1 DEF TypeOK
  <2>3. Position(c)'
    BY <1>2, <2>1, <2>2 DEF Position, Asked, Resting
  <2>4. InOrder(c)'
    BY <2>2 DEF InOrder
  <2> QED
    BY <1>1, <2>1, <2>2, <2>3, <2>4, OthersOrder
<1>12. CASE Remove(e, c)
  <2>1. /\ at[c] = "removing" /\ at' = [at EXCEPT ![c] = "removed"]
        /\ UNCHANGED <<stage, where, verdict, said>>
    BY <1>12 DEF Remove, At, Goto
  <2>2. at'[c] = "removed" /\ \A d \in Client : d # c => at'[d] = at[d]
    BY <1>1, <2>1 DEF TypeOK
  <2>3. Position(c)'
    BY <1>2, <2>1, <2>2 DEF Position, Asked, Resting
  <2> QED
    BY <1>1, <1>2, <2>1, <2>2, <2>3, OthersOrder DEF InOrder
<1> QED
  BY <1>4, <1>5, <1>6, <1>7, <1>8, <1>9, <1>10, <1>11, <1>12

(* A client comes, goes, or is taken from a queue. *)
LEMMA OtherOrder ==
    ASSUME IInv,
           \/ \E c \in Client : Ask(c) \/ Leave(c) \/ LeaveQueued(c)
           \/ \E n \in Threaded : Take(n) \/ Joined(n)
           \/ Reload \/ ReloadDone
    PROVE  OrderInv'
<1>1. TypeOK /\ OrderInv /\ OneQueue
  BY DEF IInv, OnceInv
<1>2. ASSUME NEW c \in Client, Ask(c)
      PROVE  OrderInv'
  <2>1. /\ at[c] = "out" /\ at' = [at EXCEPT ![c] = "look"]
        /\ stage' = [stage EXCEPT ![c] = 1] /\ UNCHANGED <<where, verdict, said>>
    BY <1>2 DEF Ask, Goto
  <2>2. /\ at'[c] = "look"
        /\ \A d \in Client : d # c => at'[d] = at[d] /\ stage'[d] = stage[d]
    BY <1>1, <2>1 DEF TypeOK
  <2>3. Position(c) /\ InOrder(c)
    BY <1>1 DEF OrderInv
  <2>4. Position(c)'
    BY <2>1, <2>2, <2>3 DEF Position, Leads, Asked, Resting
  <2> QED
    BY <1>1, <2>1, <2>2, <2>3, <2>4, OthersOrder DEF InOrder
<1>3. ASSUME NEW c \in Client, Leave(c) \/ LeaveQueued(c)
      PROVE  OrderInv'
  <2>1. /\ at[c] = "in" /\ \E l \in {"out", "remove"} : at' = [at EXCEPT ![c] = l]
        /\ UNCHANGED <<stage, where, verdict, said>>
    BY <1>3 DEF Leave, LeaveQueued, Goto
  <2>2. /\ at'[c] \in {"out", "remove"}
        /\ \A d \in Client : d # c => at'[d] = at[d]
    BY <1>1, <2>1 DEF TypeOK
  <2>3. Position(c) /\ InOrder(c)
    BY <1>1 DEF OrderInv
  <2>4. Position(c)'
    BY <2>1, <2>2, <2>3 DEF Position, Asked, Resting
  <2> QED
    BY <1>1, <2>1, <2>2, <2>3, <2>4, OthersOrder DEF InOrder
<1>4. ASSUME NEW n \in Threaded, Take(n)
      PROVE  OrderInv'
  <2> DEFINE c == Head(queue[n])
  <2>1. /\ queue[n] # <<>> /\ queue' = [queue EXCEPT ![n] = Tail(@)]
        /\ at' = [at EXCEPT ![c] = IF at[c] = "remove" THEN "removing" ELSE "process"]
        /\ UNCHANGED <<stage, where, verdict, said, auth>>
    BY <1>4 DEF Take, Goto
  <2>2. \A d \in Client : d # c => at'[d] = at[d]
    BY <1>1, <2>1 DEF TypeOK
  <2>3. c \in Client /\ at[c] \in Waiting
    BY <1>1, <2>1, <2>2, QueueTaken
  <2> HIDE DEF c
  <2>4. PICK x \in Client : x = c
    BY <2>3
  <2>5. /\ \A d \in Client : d # x => at'[d] = at[d]
        /\ \/ at[x] = "remove" /\ at'[x] = "removing"
           \/ at[x] = "queued" /\ at'[x] = "process"
    BY <1>1, <2>1, <2>2, <2>3, <2>4 DEF TypeOK, Waiting
  <2>6. Position(x) /\ InOrder(x)
    BY <1>1 DEF OrderInv
  <2>7. Position(x)'
    BY <2>1, <2>5, <2>6 DEF Position, Leads, Last, Asked, Resting
  <2> QED
    BY <1>1, <2>1, <2>5, <2>6, <2>7, OthersOrder DEF InOrder
<1>5. ASSUME UNCHANGED <<at, stage, where, verdict, said>>
      PROVE  OrderInv'
  BY <1>1, <1>5 DEF OrderInv, Position, InOrder, Leads, Last
<1>6. ASSUME (\E n \in Threaded : Joined(n)) \/ Reload \/ ReloadDone
      PROVE  OrderInv'
  BY <1>5, <1>6 DEF Joined, Reload, ReloadDone, clientVars
<1> QED
  BY <1>2, <1>3, <1>4, <1>6

----------------------------------------------------------------------------
(* The invariant holds *)

(* The server starts with one configuration and no client. *)
LEMMA InitInv == Init => IInv
<1> SUFFICES ASSUME Init
             PROVE  IInv
  OBVIOUS
<1>1. /\ at = [c \in Client |-> "out"] /\ stage = [c \in Client |-> 1]
      /\ where = [c \in Client |-> Null] /\ auth = [c \in Client |-> Null]
      /\ acl = {} /\ verdict = [c \in Client |-> "none"]
      /\ said = [c \in Client |-> <<>>]
      /\ queue = [n \in Threaded |-> <<>>] /\ exec = [e \in Executor |-> Null]
      /\ reader = {} /\ leaked = {} /\ config = 1 /\ reload = Null
      /\ ref = [n \in Node |-> IF n[3] = 1 THEN 1 ELSE 0]
      /\ life = [n \in Node |-> IF n[3] = 1 THEN "up" ELSE "none"]
  BY DEF Init
<1>2. RefTypes
  <2>1. Cardinality(Client) \in Nat /\ 1 \in 1 .. MaxGen
    BY StackTypes, AuthAssumption, FS_CardinalityType
  <2>2. 0 \in 0 .. Cardinality(Client) + 1 /\ 1 \in 0 .. Cardinality(Client) + 1
    BY <2>1
  <2> QED
    BY <1>1, <2>1, <2>2 DEF RefTypes
<1>3. OtherTypes
  <2>1. <<>> \in Seq(Node \X Results) /\ <<>> \in Seq(Client)
    BY EmptySeq
  <2> QED
    BY <1>1, <2>1 DEF OtherTypes, Places
<1>4. OnceInv
  BY <1>1 DEF OnceInv, OneThread, OneQueue, Taken
<1>5. OrderInv
  BY <1>1 DEF OrderInv, Position, InOrder, Asked, Resting
<1>6. Loaded
  BY <1>1 DEF Loaded
<1>7. ASSUME NEW n \in Node
      PROVE  /\ life[n] # "none" => ref[n] = Users(auth, n) + One(HeldNow(n))
             /\ life[n] = "none" <=> n[3] > config
             /\ life[n] = "none" => ref[n] = 0
             /\ life[n] = "up" => ref[n] > 0
             /\ life[n] \in {"dying", "freed"} => ref[n] = 0
  <2>1. n[3] \in 1 .. MaxGen /\ MaxGen \in Nat /\ n # Null
    BY NodeParts, StackTypes
  <2>2. Users(auth, n) = 0
    BY <1>1, <2>1, UsersType
  <2>3. n[3] = 1 => One(HeldNow(n)) = 1
    BY <1>1, HeldParts DEF HeldNow, One
  <2> QED
    BY <1>1, <2>1, <2>2, <2>3
<1>8. Counted /\ Ages
  BY <1>7 DEF Counted, Ages
<1> QED
  BY <1>2, <1>3, <1>4, <1>5, <1>6, <1>8, TypeParts DEF IInv, RefInv

(* Every step keeps the invariant. *)
LEMMA NextInv == IInv /\ [Next]_vars => IInv'
<1>1. ASSUME IInv, Next
      PROVE  IInv'
  <2>1. TypeOK'
    BY <1>1, NextTypes
  <2>2. RefInv'
    BY <1>1, WorkRefs, OtherRefs DEF Next
  <2>3. OnceInv'
    BY <1>1, <2>1, WorkOnce, OtherOnce DEF Next
  <2>4. OrderInv'
    BY <1>1, <2>1, WorkOrder, OtherOrder DEF Next
  <2> QED
    BY <2>1, <2>2, <2>3, <2>4 DEF IInv
<1>2. ASSUME IInv, UNCHANGED vars
      PROVE  IInv'
  <2>1. UNCHANGED <<at, stage, where, auth, acl, verdict, said, queue, exec, reader,
                    ref, life, leaked, config, reload>>
    BY <1>2 DEF vars, clientVars, refVars
  <2>2. TypeOK' /\ OnceInv'
    BY <1>2, <2>1 DEF IInv, TypeOK, OnceInv, OneThread, OneQueue, Taken
  <2>3. OrderInv'
    BY <1>2, <2>1 DEF IInv, OrderInv, Position, InOrder, Leads, Last
  <2>4. RefInv'
    BY <1>2, <2>1 DEF IInv, RefInv, Counted, Ages, Loaded, HeldNow
  <2> QED
    BY <2>2, <2>3, <2>4 DEF IInv
<1> QED
  BY <1>1, <1>2

(* The invariant holds in every state. *)
LEMMA SpecInv == Spec => []IInv
BY InitInv, NextInv, PTL DEF Spec

----------------------------------------------------------------------------
(* Theorems *)

(* Every variable has its type: a reload waits for threads only, and no    *)
(* reference count runs below zero or past the clients and the stack.      *)
THEOREM AuthTyped == Spec => []TypeOK
<1>1. IInv => TypeOK
  BY DEF IInv
<1> QED
  BY <1>1, SpecInv, PTL

(* auth->refcount is the number of references that there are, over every   *)
(* way through the stacks and every end, across reloads, and nobody refers *)
(* to, waits for or stands at an authenticator that was freed.             *)
THEOREM AuthCounted == Spec => []RefExact
<1>1. IInv => RefExact
  <2> SUFFICES ASSUME IInv
               PROVE  RefExact
    OBVIOUS
  <2>1. TypeOK /\ RefInv /\ OneQueue
    BY DEF IInv, OnceInv
  <2>2. \A n \in Node : life[n] # "none" =>
            ref[n] = Cardinality({c \in Client : auth[c] = n})
                     + One(Held(n, where, config, leaked))
    BY <2>1 DEF RefInv, Counted, Users, HeldNow
  <2>3. ASSUME NEW n \in Node, life[n] = "freed"
        PROVE  /\ \A c \in Client : auth[c] # n /\ where[c] # n
               /\ n \in Threaded => queue[n] = <<>>
    <3>1. ~HeldNow(n) /\ \A c \in Client : auth[c] # n
      BY <2>1, <2>3, HeldUp
    <3>2. \A c \in Client : where[c] # n
      BY <2>1, <3>1, WhereHeld, StackTypes
    <3>3. ASSUME n \in Threaded, queue[n] # <<>>
          PROVE  FALSE
      <4>1. queue[n] \in Seq(Client)
        BY <2>1, <3>3 DEF TypeOK
      <4>2. Len(queue[n]) \in Nat /\ Len(queue[n]) # 0
        BY <3>3, <4>1, LenProperties, EmptySeq
      <4>3. 1 \in 1 .. Len(queue[n])
        BY <4>2
      <4>4. queue[n][1] \in Client /\ auth[queue[n][1]] = n
        BY <2>1, <3>3, <4>1, <4>3, ElementOfSeq DEF OneQueue
      <4> QED
        BY <3>1, <4>4
    <3> QED
      BY <3>1, <3>2, <3>3
  <2> QED
    BY <2>2, <2>3 DEF RefExact, FreedUnused
<1> QED
  BY <1>1, SpecInv, PTL

(* A client is in one queue at most, once, and only one thread works on    *)
(* it, whoever appends it, takes it or lets it go.                         *)
THEOREM AuthOnce == Spec => []ClientOnce
<1>1. ASSUME IInv, NEW c \in Client
      PROVE  Cardinality({e \in Executor : exec[e] = c})
               + Cardinality({p \in Threaded \X (1 .. Cardinality(Client)) :
                                  p[2] <= Len(queue[p[1]]) /\ queue[p[1]][p[2]] = c}) <= 1
  <2> DEFINE E == {e \in Executor : exec[e] = c}
             Q == {p \in Threaded \X (1 .. Cardinality(Client)) :
                       p[2] <= Len(queue[p[1]]) /\ queue[p[1]][p[2]] = c}
  <2>1. TypeOK /\ OneThread /\ OneQueue /\ c # Null /\ Cardinality(Client) \in Nat
    BY <1>1, StackTypes, AuthAssumption, FS_CardinalityType DEF IInv, OnceInv
  <2>2. \A e, f \in E : e = f /\ at[c] \in Worked
    BY <2>1 DEF OneThread
  <2>3. ASSUME NEW p \in Q
        PROVE  /\ p[1] \in Threaded /\ p[2] \in 1 .. Len(queue[p[1]])
               /\ queue[p[1]][p[2]] = c /\ p = <<p[1], p[2]>>
    <3>1. /\ p[1] \in Threaded /\ p[2] \in 1 .. Cardinality(Client) /\ p = <<p[1], p[2]>>
          /\ p[2] <= Len(queue[p[1]]) /\ queue[p[1]][p[2]] = c
      OBVIOUS
    <3>2. Len(queue[p[1]]) \in Nat
      BY <2>1, <3>1, LenProperties DEF TypeOK
    <3> QED
      BY <2>1, <3>1, <3>2
  <2>4. ASSUME NEW p \in Q
        PROVE  at[c] \in Waiting /\ auth[c] = p[1]
    BY <2>1, <2>3 DEF OneQueue
  <2>5. ASSUME NEW p \in Q, NEW q \in Q
        PROVE  p = q
    <3>1. /\ p[1] \in Threaded /\ p[2] \in 1 .. Len(queue[p[1]])
          /\ queue[p[1]][p[2]] = c /\ p = <<p[1], p[2]>>
          /\ q[2] \in 1 .. Len(queue[q[1]])
          /\ queue[q[1]][q[2]] = c /\ q = <<q[1], q[2]>>
      BY <2>3
    <3>2. p[1] = q[1]
      BY <2>4
    <3>3. p[2] = q[2]
      BY <2>1, <3>1, <3>2 DEF OneQueue
    <3> QED
      BY <3>1, <3>2, <3>3
  <2>6. E = {} \/ Q = {}
    BY <2>2, <2>4 DEF Worked, Waiting
  <2>7. \A S : (\A x, y \in S : x = y) => S = {} \/ \E x : S = {x}
    OBVIOUS
  <2> HIDE DEF E, Q
  <2>8. Cardinality({}) = 0 /\ \A x : Cardinality({x}) = 1
    BY FS_EmptySet, FS_Singleton
  <2>9. Cardinality(E) \in {0, 1} /\ (E = {} => Cardinality(E) = 0)
    <3>1. E = {} \/ \E x : E = {x}
      BY <2>2, <2>7
    <3> QED
      BY <2>8, <3>1
  <2>10. Cardinality(Q) \in {0, 1} /\ (Q = {} => Cardinality(Q) = 0)
    BY <2>5, <2>7, <2>8
  <2>11. Cardinality(E) + Cardinality(Q) <= 1
    BY <2>6, <2>9, <2>10
  <2> QED
    BY <2>11 DEF E, Q
<1>2. IInv => ClientOnce
  BY <1>1 DEF ClientOnce
<1> QED
  BY <1>2, SpecInv, PTL

(* The authenticators are asked in the order of the stacks, also when the  *)
(* configuration is loaded again in between, nobody is asked after a       *)
(* failure, and only a client that was accepted last enters.               *)
THEOREM AuthOrdered == Spec => []ChainFollowed
<1>1. IInv => ChainFollowed
  BY DEF IInv, OrderInv, Position, InOrder, Last, ChainFollowed
<1> QED
  BY <1>1, SpecInv, PTL

----------------------------------------------------------------------------
(* Users of an htpasswd file *)

(* file_rwlock is held over several steps by the thread that changes the   *)
(* files, and by no other.                                                 *)
Writing == {"append", "copy", "remove", "rename"}
LockHeld == \A w \in Worker : worker[w].at \in Writing <=> writer = w

(* What a request is about, by the place it has come to. *)
Requested == \A w \in Worker :
    /\ worker[w].op # "list" => worker[w].user \in User
    /\ worker[w].at \in Writing => worker[w].op \in {"add", "delete"}
    /\ worker[w].at \in {"compare", "answer"} => worker[w].op = "auth"
    /\ worker[w].at \notin {"compare", "answer"} => worker[w].found = "no"

(* How far the change of the files is: the users that are promised are in  *)
(* the first file until the others are copied, and in the second one from  *)
(* then on.                                                                *)
FilesAt == \A w \in Worker :
    /\ worker[w].at = "append" => passwdfile # None
    /\ worker[w].at = "copy" =>
           /\ passwdfile # None /\ promised \subseteq passwdfile.users
           /\ worker[w].user \notin promised
    /\ worker[w].at \in {"remove", "rename"} =>
           tmpfile # None /\ promised \subseteq tmpfile.users

(* seen has what the file says now. *)
SeesFile == \A w \in Worker : worker[w].op = "auth" =>
    Finds(passwdfile, worker[w].user) \subseteq seen[w]

(* What is noted is true, unless behind or crossed says otherwise: of the  *)
(* tree when nobody is about to replace it, and of what a thread has read. *)
Fresh == passwdfile # None /\ ~behind =>
    /\ \A w \in Worker :
           worker[w].at = "install" /\ worker[w].stat = passwdfile.mtime
             => worker[w].read = passwdfile.users
    /\ ~crossed /\ mtime = passwdfile.mtime
         /\ (\A w \in Worker : worker[w].at # "install")
       => users = passwdfile.users

(* A listener has seen what he finds in the tree, and what he would find   *)
(* in one that is about to replace it.                                     *)
Past == {"open", "install", "use"}
SeesTree == \A w \in Worker : worker[w].op = "auth" =>
    /\ worker[w].at \in Past => \A v \in Worker :
           worker[v].at = "install" => In(worker[w].user, worker[v].read) \in seen[w]
    /\ worker[w].at = "use" => In(worker[w].user, users) \in seen[w]
    /\ worker[w].at \in {"compare", "answer"} =>
           worker[w].found = "freed" \/ worker[w].found \in seen[w]

(* The inductive invariant for the files, and with it the one for answers. *)
FilesInv == UsersTypeOK /\ UsersKept /\ LockHeld /\ Requested /\ FilesAt
AnswersInv == FilesInv /\ SeesFile /\ Fresh /\ SeesTree

(* A look into a file finds one answer, and with no file either. *)
LEMMA FindsType ==
    ASSUME NEW f, NEW u
    PROVE  Finds(f, u) \subseteq Either /\ In(u, f.users) \in Either
  BY DEF Finds, In, Either

(* A request that begins, and one that has read the file. *)
LEMMA RequestTypes ==
    ASSUME NEW l \in Steps, NEW u \in User, NEW op \in {"auth", "add", "delete", "list"},
           NEW r \in Request, NEW us \in SUBSET User
    PROVE  /\ [Idle EXCEPT !.op = op, !.user = u, !.at = l] \in Request
           /\ [r EXCEPT !.at = l, !.read = us] \in Request
           /\ Idle \in Request
<1>1. 0 \in 0 .. MaxTime
  BY UsersAssumption
<1>2. Idle \in Request
  BY <1>1 DEF Idle, Request, Either, Steps
<1>3. [Idle EXCEPT !.op = op, !.user = u, !.at = l] \in Request
  BY <1>2 DEF Request
<1>4. [r EXCEPT !.at = l, !.read = us] \in Request
  BY DEF Request
<1> QED
  BY <1>2, <1>3, <1>4

(* The file becomes f, and what a request has seen grows. *)
LEMMA BecomesType ==
    ASSUME UsersTypeOK, NEW f, Becomes(f)
    PROVE  seen' \in [Worker -> SUBSET Either] /\ behind' \in BOOLEAN
<1>1. behind' \in BOOLEAN
  BY Zenon DEF Becomes, UsersTypeOK, Noted
<1>2. seen' \in [Worker -> SUBSET Either]
  BY FindsType DEF Becomes, UsersTypeOK
<1> QED
  BY <1>1, <1>2

(* Every user is in the file at the start, and no request is under way. *)
LEMMA InitFiles == UsersInit => FilesInv
<1> SUFFICES ASSUME UsersInit PROVE FilesInv
  OBVIOUS
<1> USE UsersAssumption DEF UsersInit
<1>1. passwdfile \in File /\ passwdfile.users = User
  BY DEF File
<1>2. Idle \in Request
  BY DEF Idle, Request, Steps, Either
<1>3. UsersTypeOK
  <2>1. clock \in 0 .. MaxTime /\ mtime \in 0 .. MaxTime
    OBVIOUS
  <2>2. worker \in [Worker -> Request] /\ seen \in [Worker -> SUBSET Either]
    BY <1>2
  <2> QED
    BY <1>1, <2>1, <2>2 DEF UsersTypeOK
<1>4. UsersKept
  BY <1>1 DEF UsersKept, Content, File
<1>5. LockHeld /\ Requested /\ FilesAt
  BY DEF LockHeld, Requested, FilesAt, Writing, Idle
<1> QED
  BY <1>3, <1>4, <1>5 DEF FilesInv

(* Every step of a request, and time, keeps the users in the file. *)
LEMMA NextFiles ==
    ASSUME FilesInv, [UsersNext]_usersVars
    PROVE  FilesInv'
<1> USE UsersAssumption DEF FilesInv, UsersTypeOK, UsersKept, LockHeld, Requested, FilesAt, Writing,
            fileVars, cacheVars, historyVars, Content, File, Request, Idle, Steps, Either, LockFree
<1>1. CASE UNCHANGED usersVars
  BY <1>1 DEF usersVars
<1>2. ASSUME NEW w \in Worker, NEW op \in {"auth", "add", "delete"}, NEW u \in User, AskAbout(w, op, u)
      PROVE  FilesInv'
  <2>1. seen' \in [Worker -> SUBSET Either]
    BY <1>2, FindsType DEF AskAbout
  <2> DEFINE first == IF op = "delete" THEN "use" ELSE "stat"
             asked == [Idle EXCEPT !.op = op, !.user = u, !.at = first]
  <2>2. worker' = [worker EXCEPT ![w] = asked] /\ first \in {"use", "stat"}
    BY <1>2 DEF AskAbout
  <2> HIDE DEF first
  <2>3. asked.at = first /\ asked.op = op /\ asked.user = u /\ asked.found = "no"
    BY <2>2
  <2>4. asked \in Request
    <3>1. first \in Steps /\ op \in {"auth", "add", "delete", "list"}
      BY <2>2
    <3>2. worker[w] \in Request /\ {} \in SUBSET User
      OBVIOUS
    <3> HIDE DEF Request, Idle, Steps
    <3> QED
      BY <3>1, <3>2, RequestTypes
  <2>5. UNCHANGED <<fileVars, cacheVars, writer, clock, promised, behind>>
        /\ worker[w].at = "idle"
    BY <1>2 DEF AskAbout
  <2> HIDE DEF asked
  <2> QED
    BY <2>1, <2>2, <2>3, <2>4, <2>5
<1>3. ASSUME NEW w \in Worker, AskList(w)
      PROVE  FilesInv'
  BY <1>3 DEF AskList, ThenList
<1>4. ASSUME NEW w \in Worker, Stat(w)
      PROVE  FilesInv'
  <2>1. UsersTypeOK'
    BY <1>4 DEF Stat, Excuse, Checked, ThenList
  <2>2. UsersKept'
    BY <1>4 DEF Stat, Excuse, Checked, ThenList
  <2>3. LockHeld'
    BY <1>4 DEF Stat, Excuse, Checked, ThenList
  <2>4. Requested'
    BY <1>4 DEF Stat, Excuse, Checked, ThenList
  <2>5. FilesAt'
    BY <1>4 DEF Stat, Excuse, Checked, ThenList
  <2> QED
    BY <2>1, <2>2, <2>3, <2>4, <2>5
<1>5. ASSUME NEW w \in Worker, OpenFails(w)
      PROVE  FilesInv'
  <2>1. UsersTypeOK'
    BY <1>5 DEF OpenFails, Checked, ThenList
  <2>2. UsersKept'
    BY <1>5 DEF OpenFails, Checked, ThenList
  <2>3. LockHeld'
    BY <1>5 DEF OpenFails, Checked, ThenList
  <2>4. Requested'
    BY <1>5 DEF OpenFails, Checked, ThenList
  <2>5. FilesAt'
    BY <1>5 DEF OpenFails, Checked, ThenList
  <2> QED
    BY <2>1, <2>2, <2>3, <2>4, <2>5
<1>6. ASSUME NEW w \in Worker, ReadFile(w)
      PROVE  FilesInv'
  <2>1. UsersTypeOK'
    <3>1. worker[w].stat \in 0 .. MaxTime /\ passwdfile.users \in SUBSET User
      BY <1>6 DEF ReadFile
    <3>2. worker' \in [Worker -> Request] /\ mtime' \in 0 .. MaxTime
      <4> DEFINE us == passwdfile.users
      <4>1. worker' = [worker EXCEPT ![w].at = "install", ![w].read = us]
            /\ us \in SUBSET User
        BY <1>6, <3>1 DEF ReadFile
      <4> HIDE DEF us
      <4>2. worker' \in [Worker -> Request]
        <5>1. worker' = [worker EXCEPT ![w] = [worker[w] EXCEPT !.at = "install", !.read = us]]
          BY <4>1
        <5>2. worker[w] \in Request /\ "install" \in Steps
          OBVIOUS
        <5> HIDE DEF Request, Steps
        <5>3. [worker[w] EXCEPT !.at = "install", !.read = us] \in Request
          BY <4>1, <5>2, RequestTypes
        <5> QED
          BY <5>1, <5>3
      <4> QED
        BY <1>6, <3>1, <4>2 DEF ReadFile
    <3> QED
      BY <1>6, <3>2 DEF ReadFile
  <2>2. UsersKept'
    BY <1>6 DEF ReadFile
  <2>3. LockHeld'
    BY <1>6 DEF ReadFile
  <2>4. Requested'
    BY <1>6 DEF ReadFile
  <2>5. FilesAt'
    BY <1>6 DEF ReadFile
  <2> QED
    BY <2>1, <2>2, <2>3, <2>4, <2>5
<1>7. ASSUME NEW w \in Worker, Install(w)
      PROVE  FilesInv'
  <2>1. UsersTypeOK'
    <3>1. worker[w] \in Request /\ \A v \in Worker : Freed(worker[v]) \in Request
      BY DEF Freed
    <3> DEFINE was == worker[w]
    <3>6. was \in Request /\ 0 \in 0 .. MaxTime
      BY <3>1
    <3> HIDE DEF was
    <3>7. [was EXCEPT !.at = "use", !.stat = 0, !.read = {}] \in Request
      BY <3>6
    <3>2. [Idle EXCEPT !.at = "stat"] \in Request
          /\ [worker[w] EXCEPT !.at = "use", !.stat = 0, !.read = {}] \in Request
      BY <3>7 DEF was
    <3>3. worker' \in [Worker -> Request]
      BY <1>7, <3>1, <3>2 DEF Install
    <3>4. users' \subseteq User
      BY <1>7, <3>1 DEF Install
    <3>5. crossed' \in BOOLEAN
      BY <1>7, Zenon DEF Install
    <3> QED
      BY <1>7, <3>3, <3>4, <3>5 DEF Install
  <2>2. UsersKept'
    BY <1>7 DEF Install, Freed
  <2>3. LockHeld'
    BY <1>7 DEF Install, Freed
  <2>4. Requested'
    BY <1>7 DEF Install, Freed
  <2>5. FilesAt'
    BY <1>7 DEF Install, Freed
  <2> QED
    BY <2>1, <2>2, <2>3, <2>4, <2>5
<1>8. ASSUME NEW w \in Worker, Lookup(w)
      PROVE  FilesInv'
  BY <1>8 DEF Lookup, IsAt
<1>9. ASSUME NEW w \in Worker, Compare(w)
      PROVE  FilesInv'
  BY <1>9 DEF Compare, GoTo
<1>10. ASSUME NEW w \in Worker, Answer(w)
      PROVE  FilesInv'
  BY <1>10 DEF Answer
<1>11. ASSUME NEW w \in Worker, AddRefused(w)
      PROVE  FilesInv'
  BY <1>11 DEF AddRefused, ThenList, IsAt
<1>12. ASSUME NEW w \in Worker, CreateFile(w)
      PROVE  FilesInv'
  <2>1. UsersTypeOK'
    <3>1. seen' \in [Worker -> SUBSET Either] /\ behind' \in BOOLEAN
      BY <1>12, BecomesType DEF CreateFile
    <3>2. passwdfile' \in File \cup {None}
      BY <1>12 DEF CreateFile, Becomes, FileOf, GoTo, IsAt, Finds, In
    <3>3. worker' \in [Worker -> Request]
      BY <1>12 DEF CreateFile, Becomes, FileOf, GoTo, IsAt, Finds, In
    <3> QED
      BY <1>12, <3>1, <3>2, <3>3 DEF CreateFile
  <2>2. UsersKept'
    BY <1>12 DEF CreateFile, Becomes, FileOf, GoTo, IsAt, Finds, In
  <2>3. LockHeld'
    BY <1>12 DEF CreateFile, Becomes, FileOf, GoTo, IsAt, Finds, In
  <2>4. Requested'
    BY <1>12 DEF CreateFile, Becomes, FileOf, GoTo, IsAt, Finds, In
  <2>5. FilesAt'
    BY <1>12 DEF CreateFile, Becomes, FileOf, GoTo, IsAt, Finds, In
  <2> QED
    BY <2>1, <2>2, <2>3, <2>4, <2>5
<1>13. ASSUME NEW w \in Worker, AddUser(w)
      PROVE  FilesInv'
  <2>1. UsersTypeOK'
    <3>1. seen' \in [Worker -> SUBSET Either] /\ behind' \in BOOLEAN
      BY <1>13, BecomesType DEF AddUser
    <3>2. passwdfile' \in File \cup {None}
      BY <1>13 DEF AddUser, Becomes, FileOf, ThenList, IsAt, Finds, In
    <3>3. worker' \in [Worker -> Request]
      BY <1>13 DEF AddUser, Becomes, FileOf, ThenList, IsAt, Finds, In
    <3> QED
      <4>1. worker[w].user \in User
        BY <1>13 DEF AddUser, IsAt
      <4>2. promised' \subseteq User /\ writer' = None
            /\ UNCHANGED <<tmpfile, cacheVars, clock>>
        BY <1>13, <4>1 DEF AddUser
      <4> QED
        BY <3>1, <3>2, <3>3, <4>2
  <2>2. UsersKept'
    BY <1>13 DEF AddUser, Becomes, FileOf, ThenList, IsAt, Finds, In
  <2>3. LockHeld'
    BY <1>13 DEF AddUser, Becomes, FileOf, ThenList, IsAt, Finds, In
  <2>4. Requested'
    BY <1>13 DEF AddUser, Becomes, FileOf, ThenList, IsAt, Finds, In
  <2>5. FilesAt'
    BY <1>13 DEF AddUser, Becomes, FileOf, ThenList, IsAt, Finds, In
  <2> QED
    BY <2>1, <2>2, <2>3, <2>4, <2>5
<1>14. ASSUME NEW w \in Worker, List(w)
      PROVE  FilesInv'
  BY <1>14 DEF List, IsAt
<1>15. ASSUME NEW w \in Worker, DeleteRefused(w)
      PROVE  FilesInv'
  BY <1>15 DEF DeleteRefused, ThenList, IsAt
<1>16. ASSUME NEW w \in Worker, DeleteUser(w)
      PROVE  FilesInv'
  BY <1>16 DEF DeleteUser, MayDelete, FileOf, GoTo, IsAt
<1>17. ASSUME NEW w \in Worker, CopyOthers(w)
      PROVE  FilesInv'
  BY <1>17 DEF CopyOthers, FileOf, GoTo
<1>18. ASSUME NEW w \in Worker, RemoveFile(w)
      PROVE  FilesInv'
  BY <1>18 DEF RemoveFile, Becomes, GoTo, Finds, In
<1>19. ASSUME NEW w \in Worker, Rename(w)
      PROVE  FilesInv'
  <2>1. UsersTypeOK'
    <3>1. seen' \in [Worker -> SUBSET Either] /\ behind' \in BOOLEAN
      BY <1>19, BecomesType DEF Rename
    <3>2. passwdfile' \in File \cup {None}
      BY <1>19 DEF Rename, Becomes, GoTo, Finds, In
    <3>3. worker' \in [Worker -> Request]
      BY <1>19 DEF Rename, Becomes, GoTo, Finds, In
    <3> QED
      BY <1>19, <3>1, <3>2, <3>3 DEF Rename
  <2>2. UsersKept'
    BY <1>19 DEF Rename, Becomes, GoTo, Finds, In
  <2>3. LockHeld'
    BY <1>19 DEF Rename, Becomes, GoTo, Finds, In
  <2>4. Requested'
    BY <1>19 DEF Rename, Becomes, GoTo, Finds, In
  <2>5. FilesAt'
    BY <1>19 DEF Rename, Becomes, GoTo, Finds, In
  <2> QED
    BY <2>1, <2>2, <2>3, <2>4, <2>5
<1>20. ASSUME NEW w \in Worker, DeleteFails(w)
      PROVE  FilesInv'
  BY <1>20 DEF DeleteFails, GoTo
<1>21. CASE Restart
  <2>1. UsersTypeOK'
    <3>1. users' \subseteq User /\ mtime' \in (0 .. MaxTime) \cup {None}
      BY <1>21 DEF Restart
    <3>2. worker' \in [Worker -> Request] /\ seen' \in [Worker -> SUBSET Either]
      BY <1>21 DEF Restart
    <3> QED
      BY <1>21, <3>1, <3>2 DEF Restart
  <2>2. UsersKept'
    BY <1>21 DEF Restart
  <2>3. LockHeld'
    BY <1>21 DEF Restart
  <2>4. Requested'
    BY <1>21 DEF Restart
  <2>5. FilesAt'
    BY <1>21 DEF Restart
  <2> QED
    BY <2>1, <2>2, <2>3, <2>4, <2>5
<1>22. CASE Second
  BY <1>22 DEF Second
<1> HIDE DEF FilesInv
<1>23. CASE \E w \in Worker : Recheck(w)
  BY <1>23, <1>4, <1>5, <1>6, <1>7 DEF Recheck
<1>24. CASE \E w \in Worker : Authenticate(w)
  BY <1>24, <1>8, <1>9, <1>10 DEF Authenticate
<1>25. CASE \E w \in Worker : Manage(w)
  BY <1>25, <1>11, <1>12, <1>13, <1>14, <1>15, <1>16, <1>17, <1>18, <1>19, <1>20 DEF Manage
<1> QED
  BY <1>1, <1>2, <1>3, <1>21, <1>22, <1>23, <1>24, <1>25 DEF UsersNext

(* Nothing was asked or answered at the start. *)
LEMMA InitAnswers == UsersInit => AnswersInv
  BY InitFiles DEF AnswersInv, UsersInit, SeesFile, Fresh, SeesTree, Idle, Past

(* A step of a thread that does not authenticate and leaves the file and   *)
(* the tree alone. *)
LEMMA Bystander ==
    ASSUME AnswersInv, NEW w \in Worker,
           \A v \in Worker \ {w} : worker'[v] = worker[v],
           UNCHANGED <<passwdfile, cacheVars, seen, behind>>,
           worker[w].at # "install", worker'[w].at # "install", worker'[w].op # "auth"
    PROVE  SeesFile' /\ Fresh' /\ SeesTree'
<1> USE DEF AnswersInv, cacheVars
<1>1. SeesFile'
  BY DEF SeesFile
<1>2. Fresh'
  BY DEF Fresh
<1>3. SeesTree'
  BY DEF SeesTree, Past
<1> QED
  BY <1>1, <1>2, <1>3

(* A thread that manages the users changes the file: whoever is asking has *)
(* seen the new one too, and if its time was noted behind says so.         *)
LEMMA FileChanges ==
    ASSUME AnswersInv, NEW w \in Worker, NEW f \in File \cup {None}, Becomes(f),
           \A v \in Worker \ {w} : worker'[v] = worker[v],
           UNCHANGED cacheVars,
           worker[w].at # "install", worker'[w].at # "install",
           worker[w].op # "auth", worker'[w].op # "auth"
    PROVE  SeesFile' /\ Fresh' /\ SeesTree'
<1> USE DEF AnswersInv, cacheVars
<1>1. passwdfile' = f /\ \A v \in Worker : worker[v].op = "auth" =>
          seen'[v] = seen[v] \cup Finds(f, worker[v].user)
  BY DEF Becomes
<1>2. SeesFile'
  BY <1>1 DEF SeesFile, Finds
<1>3. SeesTree'
  <2>1. \A v \in Worker : worker'[v].op = "auth" =>
            v # w /\ worker'[v] = worker[v] /\ seen[v] \subseteq seen'[v]
    BY <1>1
  <2>2. \A v \in Worker : worker'[v].at = "install" => worker[v] = worker'[v]
    OBVIOUS
  <2> QED
    BY <2>1, <2>2 DEF SeesTree, Past
<1>4. Fresh'
  <2> SUFFICES ASSUME f # None, ~behind'
               PROVE  /\ \A v \in Worker : worker'[v].at = "install" => worker'[v].stat # f.mtime
                      /\ mtime' # f.mtime
    BY <1>1 DEF Fresh
  <2>1. ~Noted(f.mtime)
    BY Zenon DEF Becomes
  <2> QED
    BY <2>1 DEF Noted
<1> QED
  BY <1>2, <1>3, <1>4

(* Every step keeps what a request may answer within what the file held. *)
LEMMA NextAnswers ==
    ASSUME AnswersInv, [UsersNext]_usersVars
    PROVE  AnswersInv'
<1> USE DEF AnswersInv, fileVars, cacheVars, historyVars
<1>0. FilesInv /\ FilesInv'
  BY NextFiles
<1>1. CASE UNCHANGED usersVars
  BY <1>0, <1>1 DEF usersVars, SeesFile, Fresh, SeesTree
<1>2. ASSUME NEW w \in Worker, NEW op \in {"auth", "add", "delete"}, NEW u \in User, AskAbout(w, op, u)
      PROVE  AnswersInv'
  <2>1. SeesFile'
    BY <1>0, <1>2 DEF AskAbout, SeesFile, FilesInv, UsersTypeOK, Request, Idle
  <2>2. Fresh'
    BY <1>0, <1>2 DEF AskAbout, Fresh, FilesInv, UsersTypeOK, Request, Idle
  <2>3. SeesTree'
    BY <1>0, <1>2 DEF AskAbout, SeesTree, Past, FilesInv, UsersTypeOK, Request, Idle
  <2> QED
    BY <1>0, <2>1, <2>2, <2>3
<1>3. ASSUME NEW w \in Worker, AskList(w)
      PROVE  AnswersInv'
  <2>1. /\ \A v \in Worker \ {w} : worker'[v] = worker[v]
        /\ worker[w].at # "install" /\ worker'[w].at # "install" /\ worker'[w].op # "auth"
    BY <1>0, <1>3 DEF AskList, ThenList, FilesInv, UsersTypeOK,
         Request, Idle, Requested, Writing
  <2> QED
    BY <1>0, <1>3, <2>1, Bystander DEF AskList
<1>4. ASSUME NEW w \in Worker, AddRefused(w)
      PROVE  AnswersInv'
  <2>1. /\ \A v \in Worker \ {w} : worker'[v] = worker[v]
        /\ worker[w].at # "install" /\ worker'[w].at # "install" /\ worker'[w].op # "auth"
    BY <1>0, <1>4 DEF AddRefused, ThenList, IsAt, FilesInv, UsersTypeOK,
         Request, Idle, Requested, Writing
  <2> QED
    BY <1>0, <1>4, <2>1, Bystander DEF AddRefused
<1>5. ASSUME NEW w \in Worker, List(w)
      PROVE  AnswersInv'
  <2>1. /\ \A v \in Worker \ {w} : worker'[v] = worker[v]
        /\ worker[w].at # "install" /\ worker'[w].at # "install" /\ worker'[w].op # "auth"
    BY <1>0, <1>5 DEF List, IsAt, FilesInv, UsersTypeOK,
         Request, Idle, Requested, Writing
  <2> QED
    BY <1>0, <1>5, <2>1, Bystander DEF List
<1>6. ASSUME NEW w \in Worker, DeleteRefused(w)
      PROVE  AnswersInv'
  <2>1. /\ \A v \in Worker \ {w} : worker'[v] = worker[v]
        /\ worker[w].at # "install" /\ worker'[w].at # "install" /\ worker'[w].op # "auth"
    BY <1>0, <1>6 DEF DeleteRefused, ThenList, IsAt, FilesInv, UsersTypeOK,
         Request, Idle, Requested, Writing
  <2> QED
    BY <1>0, <1>6, <2>1, Bystander DEF DeleteRefused
<1>7. ASSUME NEW w \in Worker, DeleteUser(w)
      PROVE  AnswersInv'
  <2>1. /\ \A v \in Worker \ {w} : worker'[v] = worker[v]
        /\ worker[w].at # "install" /\ worker'[w].at # "install" /\ worker'[w].op # "auth"
    BY <1>0, <1>7 DEF DeleteUser, GoTo, IsAt, FilesInv, UsersTypeOK,
         Request, Idle, Requested, Writing
  <2> QED
    BY <1>0, <1>7, <2>1, Bystander DEF DeleteUser
<1>8. ASSUME NEW w \in Worker, CopyOthers(w)
      PROVE  AnswersInv'
  <2>1. /\ \A v \in Worker \ {w} : worker'[v] = worker[v]
        /\ worker[w].at # "install" /\ worker'[w].at # "install" /\ worker'[w].op # "auth"
    BY <1>0, <1>8 DEF CopyOthers, GoTo, FilesInv, UsersTypeOK,
         Request, Idle, Requested, Writing
  <2> QED
    BY <1>0, <1>8, <2>1, Bystander DEF CopyOthers
<1>9. ASSUME NEW w \in Worker, DeleteFails(w)
      PROVE  AnswersInv'
  <2>1. /\ \A v \in Worker \ {w} : worker'[v] = worker[v]
        /\ worker[w].at # "install" /\ worker'[w].at # "install" /\ worker'[w].op # "auth"
    BY <1>0, <1>9 DEF DeleteFails, GoTo, FilesInv, UsersTypeOK,
         Request, Idle, Requested, Writing
  <2> QED
    BY <1>0, <1>9, <2>1, Bystander DEF DeleteFails
<1>10. ASSUME NEW w \in Worker, CreateFile(w)
      PROVE  AnswersInv'
  <2>1. /\ \A v \in Worker \ {w} : worker'[v] = worker[v]
        /\ worker[w].at # "install" /\ worker'[w].at # "install"
        /\ worker[w].op # "auth" /\ worker'[w].op # "auth"
    BY <1>0, <1>10 DEF CreateFile, GoTo, IsAt, FilesInv, UsersTypeOK,
         Request, Idle, Requested, Writing
  <2>2. Becomes(FileOf({})) /\ FileOf({}) \in File \cup {None} /\ UNCHANGED cacheVars
    BY <1>0, <1>10 DEF CreateFile, Becomes, FilesInv, UsersTypeOK
  <2> QED
    BY <1>0, <2>1, <2>2, FileChanges
<1>11. ASSUME NEW w \in Worker, AddUser(w)
      PROVE  AnswersInv'
  <2>1. /\ \A v \in Worker \ {w} : worker'[v] = worker[v]
        /\ worker[w].at # "install" /\ worker'[w].at # "install"
        /\ worker[w].op # "auth" /\ worker'[w].op # "auth"
    BY <1>0, <1>11 DEF AddUser, ThenList, IsAt, FilesInv, UsersTypeOK,
         Request, Idle, Requested, Writing
  <2>2. /\ Becomes(FileOf(passwdfile.users \cup {worker[w].user}))
        /\ FileOf(passwdfile.users \cup {worker[w].user}) \in File \cup {None}
        /\ UNCHANGED cacheVars
    BY <1>0, <1>11 DEF AddUser, Becomes, FilesInv, UsersTypeOK
  <2> QED
    BY <1>0, <2>1, <2>2, FileChanges
<1>12. ASSUME NEW w \in Worker, RemoveFile(w)
      PROVE  AnswersInv'
  <2>1. /\ \A v \in Worker \ {w} : worker'[v] = worker[v]
        /\ worker[w].at # "install" /\ worker'[w].at # "install"
        /\ worker[w].op # "auth" /\ worker'[w].op # "auth"
    BY <1>0, <1>12 DEF RemoveFile, GoTo, FilesInv, UsersTypeOK,
         Request, Idle, Requested, Writing
  <2>2. Becomes(None) /\ None \in File \cup {None} /\ UNCHANGED cacheVars
    BY <1>0, <1>12 DEF RemoveFile, Becomes, FilesInv, UsersTypeOK
  <2> QED
    BY <1>0, <2>1, <2>2, FileChanges
<1>13. ASSUME NEW w \in Worker, Rename(w)
      PROVE  AnswersInv'
  <2>1. /\ \A v \in Worker \ {w} : worker'[v] = worker[v]
        /\ worker[w].at # "install" /\ worker'[w].at # "install"
        /\ worker[w].op # "auth" /\ worker'[w].op # "auth"
    BY <1>0, <1>13 DEF Rename, GoTo, FilesInv, UsersTypeOK,
         Request, Idle, Requested, Writing
  <2>2. Becomes(tmpfile) /\ tmpfile \in File \cup {None} /\ UNCHANGED cacheVars
    BY <1>0, <1>13 DEF Rename, Becomes, FilesInv, UsersTypeOK
  <2> QED
    BY <1>0, <2>1, <2>2, FileChanges
<1>14. ASSUME NEW w \in Worker, Stat(w)
      PROVE  AnswersInv'
  <2>1. /\ \A v \in Worker \ {w} : worker'[v] = worker[v] /\ seen'[v] = seen[v]
        /\ worker[w].at = "stat" /\ worker'[w].at # "install" /\ seen[w] \subseteq seen'[w]
        /\ worker[w].op = "auth" /\ Unsure(w) => seen'[w] = Either
        /\ worker'[w].op = "auth" => worker[w].op = "auth" /\ worker'[w].user = worker[w].user
        /\ UNCHANGED <<fileVars, cacheVars, behind>>
    BY <1>0, <1>14 DEF Stat, Excuse, Checked, ThenList, Idle, FilesInv, UsersTypeOK, Request
  <2>2. SeesFile'
    BY <2>1 DEF SeesFile
  <2>3. Fresh'
    BY <2>1 DEF Fresh
  <2>4. ASSUME worker'[w].op = "auth", NEW v \in Worker, worker'[v].at = "install"
        PROVE  In(worker'[w].user, worker'[v].read) \in seen'[w]
    BY <2>1, <2>4 DEF Unsure, In, Either
  <2>5. ASSUME worker'[w].op = "auth", worker'[w].at = "use"
        PROVE  In(worker'[w].user, users') \in seen'[w]
    <3>1. CASE Unsure(w)
      BY <2>1, <2>5, <3>1 DEF In, Either
    <3>2. CASE passwdfile = None
      BY <2>1, <2>5, <3>2 DEF SeesFile, Finds, In, Either
    <3>3. CASE ~Unsure(w) /\ passwdfile # None
      <4>1. mtime = passwdfile.mtime
        BY <1>0, <1>14, <2>5, <3>3 DEF Stat, FilesInv, UsersTypeOK, Request
      <4>2. users = passwdfile.users
        BY <2>1, <3>3, <4>1 DEF Unsure, Fresh
      <4> QED
        BY <2>1, <2>5, <3>3, <4>2 DEF SeesFile, Finds
    <3> QED
      BY <3>1, <3>2, <3>3
  <2>6. worker'[w].at \notin {"compare", "answer"}
    BY <1>0, <1>14 DEF Stat, Checked, ThenList, Idle, FilesInv, UsersTypeOK, Request
  <2>7. SeesTree'
    BY <2>1, <2>4, <2>5, <2>6 DEF SeesTree, Past
  <2> QED
    BY <1>0, <2>2, <2>3, <2>7
<1>15. ASSUME NEW w \in Worker, OpenFails(w)
      PROVE  AnswersInv'
  <2>1. /\ \A v \in Worker \ {w} : worker'[v] = worker[v] /\ seen'[v] = seen[v]
        /\ worker[w].at = "open" /\ worker'[w].at \in {"stat", "use"}
        /\ worker'[w].op = "auth" => worker[w].op = "auth" /\ seen'[w] = Either
        /\ UNCHANGED <<fileVars, cacheVars, behind>>
    BY <1>0, <1>15 DEF OpenFails, Checked, ThenList, Idle, FilesInv, UsersTypeOK, Request
  <2>2. SeesFile'
    BY <2>1, FindsType DEF SeesFile
  <2>3. Fresh'
    BY <2>1 DEF Fresh
  <2>4. SeesTree'
    BY <2>1 DEF SeesTree, Past, In, Either
  <2> QED
    BY <1>0, <2>2, <2>3, <2>4
<1>16. ASSUME NEW w \in Worker, ReadFile(w)
      PROVE  AnswersInv'
  <2>1. /\ \A v \in Worker \ {w} : worker'[v] = worker[v]
        /\ worker[w].at = "open" /\ worker'[w].at = "install"
        /\ worker'[w].read = passwdfile.users /\ passwdfile # None
        /\ worker'[w].op = worker[w].op /\ worker'[w].user = worker[w].user
        /\ UNCHANGED <<fileVars, users, crossed, seen, behind>>
    BY <1>0, <1>16 DEF ReadFile, FilesInv, UsersTypeOK, Request
  <2>2. SeesFile'
    BY <2>1 DEF SeesFile
  <2>3. Fresh'
    BY <2>1 DEF Fresh
  <2>4. \A x \in Worker : worker[x].op = "auth" =>
            In(worker[x].user, passwdfile.users) \in seen[x]
    BY <2>1 DEF SeesFile, Finds
  <2>5. SeesTree'
    <3>1. ASSUME NEW x \in Worker, worker'[x].op = "auth", worker'[x].at \in Past,
                 NEW v \in Worker, worker'[v].at = "install"
          PROVE  In(worker'[x].user, worker'[v].read) \in seen'[x]
      BY <2>1, <2>4, <3>1 DEF SeesTree, Past
    <3> QED
      BY <2>1, <3>1 DEF SeesTree
  <2> QED
    BY <1>0, <2>2, <2>3, <2>5
<1>17. ASSUME NEW w \in Worker, Install(w)
      PROVE  AnswersInv'
  <2>1. /\ \A v \in Worker \ {w} :
              /\ worker'[v].at = worker[v].at /\ worker'[v].op = worker[v].op
              /\ worker'[v].user = worker[v].user /\ worker'[v].stat = worker[v].stat
              /\ worker'[v].read = worker[v].read
              /\ worker[v].at = "compare" => worker'[v].found = "freed"
              /\ worker[v].at # "compare" => worker'[v].found = worker[v].found
        /\ worker[w].at = "install" /\ worker'[w].at \in {"stat", "use"}
        /\ worker'[w].op = "auth" => worker[w].op = "auth" /\ worker'[w].user = worker[w].user
        /\ users' = worker[w].read
        /\ UNCHANGED <<fileVars, mtime, seen, behind>>
    BY <1>0, <1>17 DEF Install, Freed, Idle, FilesInv, UsersTypeOK, Request
  <2>2. SeesFile'
    BY <2>1 DEF SeesFile
  <2>3. ~crossed' => mtime = worker[w].stat
    BY <1>17, Zenon DEF Install
  <2>4. Fresh'
    BY <2>1, <2>3 DEF Fresh
  <2>5. SeesTree'
    BY <2>1 DEF SeesTree, Past
  <2> QED
    BY <1>0, <2>2, <2>4, <2>5
<1>18. ASSUME NEW w \in Worker, Lookup(w)
      PROVE  AnswersInv'
  <2>1. /\ \A v \in Worker \ {w} : worker'[v] = worker[v]
        /\ worker[w].at = "use" /\ worker'[w].at \in {"compare", "answer"}
        /\ worker[w].op = "auth" /\ worker'[w].user = worker[w].user
        /\ worker'[w].found = In(worker[w].user, users)
        /\ UNCHANGED <<fileVars, cacheVars, historyVars>>
    BY <1>0, <1>18 DEF Lookup, IsAt, In, Requested, FilesInv, UsersTypeOK, Request
  <2>2. SeesFile' /\ Fresh'
    BY <2>1 DEF SeesFile, Fresh
  <2>3. SeesTree'
    BY <2>1 DEF SeesTree, Past
  <2> QED
    BY <1>0, <2>2, <2>3
<1>19. ASSUME NEW w \in Worker, Compare(w)
      PROVE  AnswersInv'
  <2>1. /\ \A v \in Worker \ {w} : worker'[v] = worker[v]
        /\ worker[w].at = "compare" /\ worker'[w].at = "answer"
        /\ worker'[w].op = worker[w].op /\ worker'[w].user = worker[w].user
        /\ worker'[w].found = worker[w].found
        /\ UNCHANGED <<fileVars, cacheVars, historyVars>>
    BY <1>0, <1>19 DEF Compare, GoTo, FilesInv, UsersTypeOK, Request
  <2>2. SeesFile' /\ Fresh'
    BY <2>1 DEF SeesFile, Fresh
  <2>3. SeesTree'
    BY <2>1 DEF SeesTree, Past
  <2> QED
    BY <1>0, <2>2, <2>3
<1>20. ASSUME NEW w \in Worker, Answer(w)
      PROVE  AnswersInv'
  <2>1. /\ \A v \in Worker \ {w} : worker'[v] = worker[v] /\ seen'[v] = seen[v]
        /\ worker[w].at = "answer" /\ worker'[w].at = "idle" /\ worker'[w].op = "list"
        /\ UNCHANGED <<fileVars, cacheVars, behind>>
    BY <1>0, <1>20 DEF Answer, Idle, FilesInv, UsersTypeOK, Request
  <2>2. SeesFile' /\ Fresh'
    BY <2>1 DEF SeesFile, Fresh
  <2>3. SeesTree'
    BY <2>1 DEF SeesTree, Past
  <2> QED
    BY <1>0, <2>2, <2>3
<1>21. CASE Restart
  <2>1. \A w \in Worker : worker'[w] = Idle
    BY <1>21 DEF Restart
  <2>2. SeesFile' /\ SeesTree'
    BY <2>1 DEF SeesFile, SeesTree, Past, Idle
  <2>3. Fresh'
    BY <1>21, <2>1 DEF Restart, Fresh, Idle, Content
  <2> QED
    BY <1>0, <2>2, <2>3
<1>22. CASE Second
  BY <1>0, <1>22 DEF Second, SeesFile, Fresh, SeesTree
<1> QED
  BY <1>1, <1>2, <1>3, <1>4, <1>5, <1>6, <1>7, <1>8, <1>9, <1>10, <1>11, <1>12,
     <1>13, <1>14, <1>15, <1>16, <1>17, <1>18, <1>19, <1>20, <1>21, <1>22
  DEF UsersNext, Recheck, Authenticate, Manage

(* The invariant holds in every state. *)
LEMMA SpecAnswers == UsersSpec => []AnswersInv
  BY InitAnswers, NextAnswers, PTL DEF UsersSpec

(* Every variable keeps its type. *)
THEOREM UsersTyped == UsersSpec => []UsersTypeOK
<1>1. AnswersInv => UsersTypeOK
  BY DEF AnswersInv, FilesInv
<1> QED
  BY <1>1, SpecAnswers, PTL

(* htpasswd_deleteuser and htpasswd_adduser lose no other user, whichever  *)
(* of their operations on the files fails and whenever the server stops.   *)
THEOREM UsersNotLost == UsersSpec => []UsersKept
<1>1. AnswersInv => UsersKept
  BY DEF AnswersInv, FilesInv
<1> QED
  BY <1>1, SpecAnswers, PTL

(* htpasswd_auth answers what the file said while the request was under    *)
(* way, except in the cases that Unsure names.                             *)
THEOREM UsersAnswered == UsersSpec => []AnsweredByFile
<1>1. AnswersInv => AnsweredByFile
  BY DEF AnswersInv, FilesInv, Requested, SeesTree, AnsweredByFile
<1> QED
  BY <1>1, SpecAnswers, PTL
=============================================================================
