---------------------------- MODULE ServerProofs ----------------------------
(***************************************************************************)
(* Proofs about Server and the events in it: for any number of sources,    *)
(* any chains of registrations and any number of configurations, the       *)
(* references to registrations are counted exactly, and the back ends of   *)
(* events are called in the order of the queue, as long as no two threads  *)
(* release an event at the same time.                                      *)
(***************************************************************************)
EXTENDS Server, FiniteSetTheorems, SequenceTheorems, WellFoundedInduction, TLAPS

----------------------------------------------------------------------------
(* The inductive invariant *)

(* How often x is in a sequence, and in the sequences of a function. *)
Spots(s, x) == {i \in 1 .. Len(s) : s[i] = x}
Times(s, x) == Cardinality(Spots(s, x))
Tokens(f, x) == {p \in (DOMAIN f) \X Nat : p[2] \in Spots(f[p[1]], x)}
Total(f, x) == Cardinality(Tokens(f, x))

(* Who has a reference to an event: the threads that emit it or are to     *)
(* release it, the queue, the event thread, and the event before it in the *)
(* rest of the queue that is dropped.                                      *)
Emitted == [t \in Emitters |-> IF emitter[t].at = "none" THEN <<>> ELSE <<emitter[t].event>>]
Running == IF runner.at \in {"pop", "ended"} THEN <<>> ELSE <<runner.event>>
Hanging == [e \in DOMAIN events |-> events[e].next]
Holds(e) == Total(Emitted, e) + Total(work, e) + Total(Hanging, e)
            + Times(queue, e) + Times(Running, e)

(* The first registrations of chains, and the events that have one. *)
Firsts == {er \in Reg : er.no = 1}
FirstIn(er) == Registration(er.version, er.list, 1)
Referring(er) == {e \in DOMAIN events \ freed : er \in Range(events[e].reglist)}

Triggers == {"source-connect", "source-disconnect", "icecast-stop"}
Event == [trigger : Triggers, version : 1 .. MaxVersion, reglist : Seq(Firsts), count : Nat,
          next : Seq(Nat)]
TypeOK ==
    /\ version \in 1 .. MaxVersion /\ heads \subseteq Firsts
    /\ refcount \in [Reg -> Nat] /\ live \subseteq Reg
    /\ events \in Seq(Event) /\ freed \subseteq DOMAIN events
    /\ queue \in Seq(Nat) /\ running \in BOOLEAN
    /\ emitter \in [Emitters -> [at : {"none", "server", "mount", "push"}, event : Nat]]
    /\ runner \in [at : {"pop", "lock", "config", "url", "next", "ended"}, event : Nat,
                   list : Nat \ {0}, er : Reg \cup {Nobody}, last : BOOLEAN]
    /\ work \in [Emitters \cup {Runner} -> Seq(Nat)]

(* A chain lives and goes as a whole: behind the first registration every  *)
(* one has the reference of its predecessor.                               *)
Chained ==
    /\ live = {er \in Reg : refcount[er] > 0}
    /\ \A er \in Reg : er.no # 1 =>
         refcount[er] = IF refcount[FirstIn(er)] > 0 THEN 1 ELSE 0
Counted == \A er \in Firsts :
    refcount[er] = (IF er \in heads THEN 1 ELSE 0) + Cardinality(Referring(er))

(* Nothing refers to a configuration before it is parsed. *)
Reading == slave \in {"auth", "server", "mount", "yp"}
Known ==
    /\ Reading => version < MaxVersion
    /\ \A er \in heads : er.version <= (IF Reading THEN version + 1 ELSE version)
    /\ \A e \in DOMAIN events : \A er \in Range(events[e].reglist) : er.version <= version

(* An event counts its references, and is freed with the last.  The        *)
(* references are to events that there were.                               *)
Held == /\ \A e \in DOMAIN events : events[e].count = Holds(e)
        /\ \A e \in freed : events[e].count = 0
        /\ \A e \in Nat \ DOMAIN events : Holds(e) = 0

(* A thread that emits an event has the only reference, and no other work. *)
Emitting ==
    /\ \A t \in Emitters : emitter[t].at # "none" =>
         /\ work[t] = <<>> /\ events[emitter[t].event].count = 1
         /\ emitter[t].at = "server" => events[emitter[t].event].reglist = <<>>
         /\ emitter[t].at = "mount" =>
              \A er \in Range(events[emitter[t].event].reglist) : er.list = "server"
Joining == main = "join events"
JoinsFree == Joining => Free(Main)

(* The event thread is in a chain of its event. *)
AtChain ==
    /\ runner.at \in {"lock", "config", "url", "next"} =>
         /\ work[Runner] = <<>>
         /\ runner.list \in 1 .. Len(events[runner.event].reglist)
    /\ IF runner.at \in {"config", "url", "next"}
       THEN runner.er \in Reg /\ FirstIn(runner.er) = events[runner.event].reglist[runner.list]
       ELSE runner.er = Nobody
    /\ \A i \in 1 .. Len(queue) : events[queue[i]].reglist # <<>>

Core == TypeOK /\ Chained /\ Counted /\ Known /\ Held /\ Emitting /\ AtChain
IInv == Core /\ JoinsFree

----------------------------------------------------------------------------
(* Occurrences in sequences *)

(* They are finitely many. *)
LEMMA TimesType ==
    ASSUME NEW T, NEW s \in Seq(T), NEW x
    PROVE  IsFiniteSet(Spots(s, x)) /\ Times(s, x) \in Nat
<1>1. IsFiniteSet(1 .. Len(s))
  BY FS_Interval
<1>2. Spots(s, x) \in SUBSET (1 .. Len(s))
  BY DEF Spots
<1>3. IsFiniteSet(Spots(s, x))
  BY <1>1, <1>2, FS_Subset
<1> QED
  BY <1>3, FS_CardinalityType DEF Times

(* A map that is one to one and onto shows that two sets are equally large. *)
LEMMA SameSize ==
    ASSUME NEW S, NEW T, IsFiniteSet(S), NEW f \in [S -> T],
           \A x, y \in S : f[x] = f[y] => x = y,
           \A t \in T : \E x \in S : f[x] = t
    PROVE  IsFiniteSet(T) /\ Cardinality(T) = Cardinality(S)
<1>1. f \in Bijection(S, T)
  BY DEF Bijection, Injection, Surjection, IsInjective
<1>2. ExistsBijection(S, T)
  BY <1>1 DEF ExistsBijection
<1> QED
  BY <1>2, FS_Bijection

(* Disjoint sets *)
LEMMA DisjointSize ==
    ASSUME NEW A, NEW B, IsFiniteSet(A), IsFiniteSet(B), A \cap B = {}
    PROVE  /\ IsFiniteSet(A \cup B) /\ Cardinality(A \cup B) = Cardinality(A) + Cardinality(B)
           /\ Cardinality(A) \in Nat /\ Cardinality(B) \in Nat
<1>1. Cardinality(A) \in Nat /\ Cardinality(B) \in Nat
  BY FS_CardinalityType
<1>2. IsFiniteSet(A \cup B) /\ Cardinality(A \cup B) = Cardinality(A) + Cardinality(B) - Cardinality(A \cap B)
  BY FS_Union
<1>3. Cardinality(A \cap B) = 0
  BY FS_EmptySet
<1> QED
  BY <1>1, <1>2, <1>3

(* How often a value is in two sequences, in short ones, in a longer and   *)
(* in a shorter one.                                                       *)
LEMMA TimesConcat ==
    ASSUME NEW T, NEW s \in Seq(T), NEW t \in Seq(T), NEW x
    PROVE  s \o t \in Seq(T) /\ Times(s \o t, x) = Times(s, x) + Times(t, x)
<1> DEFINE n == Len(s)
           A == Spots(s, x)
           B == Spots(t, x)
           M == {i \in n + 1 .. n + Len(t) : t[i - n] = x}
<1>1. n \in Nat /\ Len(t) \in Nat
  OBVIOUS
<1>2. /\ s \o t \in Seq(T) /\ Len(s \o t) = n + Len(t)
      /\ \A i \in 1 .. n : (s \o t)[i] = s[i]
      /\ \A i \in n + 1 .. n + Len(t) : (s \o t)[i] = t[i - n]
  BY <1>1, ConcatProperties
<1>3. Spots(s \o t, x) = A \cup M /\ A \cap M = {}
  BY <1>1, <1>2 DEF Spots
<1>4. IsFiniteSet(A) /\ IsFiniteSet(B)
  BY TimesType
<1>5. IsFiniteSet(M) /\ Cardinality(M) = Cardinality(B)
  <2> DEFINE f == [i \in B |-> i + n]
  <2>1. \A i \in B : i \in 1 .. Len(t) /\ t[i] = x
    BY DEF Spots
  <2>2. f \in [B -> M]
    BY <1>1, <2>1
  <2>3. \A i, j \in B : f[i] = f[j] => i = j
    BY <1>1, <2>1
  <2>4. ASSUME NEW m \in M PROVE \E i \in B : f[i] = m
    <3>1. m - n \in B
      BY <1>1 DEF Spots
    <3>2. f[m - n] = m
      BY <1>1, <3>1
    <3> QED
      BY <3>1, <3>2
  <2> HIDE DEF f, B, M
  <2> QED
    BY <1>4, <2>2, <2>3, <2>4, SameSize
<1> HIDE DEF A, B, M
<1>6. Cardinality(A \cup M) = Cardinality(A) + Cardinality(M)
  BY <1>3, <1>4, <1>5, DisjointSize
<1>7. Cardinality(A) = Times(s, x) /\ Cardinality(B) = Times(t, x)
  BY DEF A, B, Times
<1> QED
  BY <1>2, <1>3, <1>5, <1>6, <1>7 DEF Times

LEMMA TimesShort ==
    ASSUME NEW x
    PROVE  /\ Times(<<>>, x) = 0
           /\ \A y : Times(<<y>>, x) = IF x = y THEN 1 ELSE 0
<1>1. Spots(<<>>, x) = {}
  BY DEF Spots
<1>2. ASSUME NEW y PROVE Times(<<y>>, x) = IF x = y THEN 1 ELSE 0
  <2>1. Spots(<<y>>, x) = IF x = y THEN {1} ELSE {}
    BY DEF Spots
  <2> QED
    BY <2>1, FS_EmptySet, FS_Singleton DEF Times
<1> QED
  BY <1>1, <1>2, FS_EmptySet DEF Times

LEMMA TimesAppend ==
    ASSUME NEW T, NEW s \in Seq(T), NEW y \in T, NEW x
    PROVE  Times(Append(s, y), x) = Times(s, x) + (IF x = y THEN 1 ELSE 0)
<1> DEFINE u == <<y>>
<1>1. Append(s, y) = s \o u /\ u \in Seq(T)
  OBVIOUS
<1>2. Times(u, x) = IF x = y THEN 1 ELSE 0
  BY TimesShort
<1> HIDE DEF u
<1>3. Times(s \o u, x) = Times(s, x) + Times(u, x)
  BY <1>1, TimesConcat
<1> QED
  BY <1>1, <1>2, <1>3

LEMMA TimesTail ==
    ASSUME NEW T, NEW s \in Seq(T), s # <<>>, NEW x
    PROVE  /\ Tail(s) \in Seq(T) /\ Head(s) \in T
           /\ Times(s, x) = Times(Tail(s), x) + (IF x = Head(s) THEN 1 ELSE 0)
<1> DEFINE h == Head(s)
           u == <<h>>
           t == Tail(s)
<1>1. t \in Seq(T) /\ h \in T /\ s = u \o t /\ u \in Seq(T)
  OBVIOUS
<1>2. Times(u, x) = IF x = h THEN 1 ELSE 0
  BY TimesShort
<1> HIDE DEF h, u, t
<1>3. Times(u \o t, x) = Times(u, x) + Times(t, x) /\ Times(t, x) \in Nat
  BY <1>1, TimesConcat, TimesType
<1>4. Times(s, x) = Times(t, x) + (IF x = h THEN 1 ELSE 0)
  BY <1>1, <1>2, <1>3
<1> QED
  BY <1>1, <1>4 DEF h, t

(* The elements are the ones that occur. *)
LEMMA TimesPositive ==
    ASSUME NEW T, NEW s \in Seq(T), NEW x
    PROVE  Times(s, x) > 0 <=> \E i \in 1 .. Len(s) : s[i] = x
<1>1. IsFiniteSet(Spots(s, x)) /\ Times(s, x) \in Nat
  BY TimesType
<1>2. Times(s, x) = 0 <=> Spots(s, x) = {}
  BY <1>1, FS_EmptySet DEF Times
<1> QED
  BY <1>1, <1>2 DEF Spots

----------------------------------------------------------------------------
(* Occurrences in the sequences of a function *)

(* How often it is in all sequences of a family, and when one of them      *)
(* changes.                                                                *)
LEMMA TotalType ==
    ASSUME NEW P, IsFiniteSet(P), NEW T, NEW f \in [P -> Seq(T)], NEW x
    PROVE  IsFiniteSet(Tokens(f, x)) /\ Total(f, x) \in Nat
<1> DEFINE Part(p) == {p} \X Spots(f[p], x)
           h == [p \in P |-> Part(p)]
           S == {Part(p) : p \in P}
<1>1. ASSUME NEW p \in P PROVE IsFiniteSet(Part(p))
  <2>1. IsFiniteSet(Spots(f[p], x))
    BY TimesType
  <2>2. IsFiniteSet({p})
    BY FS_Singleton
  <2> QED
    BY <2>1, <2>2, FS_Product
<1>2. h \in Surjection(P, S)
  BY DEF Surjection
<1>3. IsFiniteSet(S)
  <2> HIDE DEF h, S
  <2> QED
    BY <1>2, FS_Surjection
<1>4. \A A \in S : IsFiniteSet(A)
  BY <1>1
<1>5. IsFiniteSet(UNION S)
  <2> HIDE DEF S
  <2> QED
    BY <1>3, <1>4, FS_UNION
<1>6. Tokens(f, x) \subseteq UNION S
  <2> SUFFICES ASSUME NEW p \in Tokens(f, x) PROVE p \in UNION S
    OBVIOUS
  <2>1. p = <<p[1], p[2]>> /\ p[1] \in P /\ p[2] \in Spots(f[p[1]], x)
    BY DEF Tokens
  <2>2. p \in Part(p[1])
    BY <2>1
  <2> QED
    BY <2>1, <2>2
<1>7. IsFiniteSet(Tokens(f, x))
  BY <1>5, <1>6, FS_Subset
<1> QED
  BY <1>7, FS_CardinalityType DEF Total

(* One of the sequences is another. *)
Changed(f, g, p) ==
    /\ f \in [DOMAIN f -> Seq(Nat)] /\ g \in [DOMAIN f -> Seq(Nat)] /\ IsFiniteSet(DOMAIN f)
    /\ p \in DOMAIN f /\ \A q \in DOMAIN f : q # p => g[q] = f[q]

LEMMA TotalChanged ==
    ASSUME NEW f, NEW g, NEW p, NEW x, Changed(f, g, p)
    PROVE  Total(g, x) = Total(f, x) - Times(f[p], x) + Times(g[p], x)
<1> DEFINE Rest == {q \in Tokens(f, x) : q[1] # p}
           P == DOMAIN f
           T == Nat
<1>0. /\ IsFiniteSet(P) /\ f \in [P -> Seq(T)] /\ g \in [P -> Seq(T)]
      /\ p \in P /\ \A q \in P : q # p => g[q] = f[q]
  BY DEF Changed
<1> HIDE DEF P, T
<1> USE <1>0
<1>1. IsFiniteSet(Rest) /\ Rest = {q \in Tokens(g, x) : q[1] # p}
  <2>1. IsFiniteSet(Tokens(f, x))
    BY TotalType
  <2>2. IsFiniteSet(Rest)
    BY <2>1, FS_Subset
  <2> QED
    BY <2>2 DEF Tokens
<1> HIDE DEF Rest
<1>2. ASSUME NEW k, k \in [P -> Seq(T)], Rest = {q \in Tokens(k, x) : q[1] # p}
      PROVE  Total(k, x) = Cardinality(Rest) + Times(k[p], x) /\ Times(k[p], x) \in Nat
             /\ Cardinality(Rest) \in Nat
  <2> DEFINE S == Spots(k[p], x)
             M == {q \in Tokens(k, x) : q[1] = p}
             h == [i \in S |-> <<p, i>>]
  <2>1. k[p] \in Seq(T)
    BY <1>2
  <2>2. IsFiniteSet(S) /\ Times(k[p], x) \in Nat
    BY <2>1, TimesType
  <2>3. S \subseteq Nat
    BY <2>1 DEF Spots
  <2>4. h \in [S -> M]
    BY <1>2, <2>3 DEF Tokens
  <2>5. \A i, j \in S : h[i] = h[j] => i = j
    OBVIOUS
  <2>6. ASSUME NEW q \in M PROVE \E i \in S : h[i] = q
    <3>1. q = <<p, q[2]>> /\ q[2] \in S
      BY <1>2 DEF Tokens
    <3> QED
      BY <3>1
  <2>7. IsFiniteSet(M) /\ Cardinality(M) = Cardinality(S)
    <3> HIDE DEF S, M, h
    <3> QED
      BY <2>2, <2>4, <2>5, <2>6, SameSize
  <2>8. Tokens(k, x) = Rest \cup M /\ Rest \cap M = {}
    BY <1>2
  <2> HIDE DEF M
  <2>9. Cardinality(Rest \cup M) = Cardinality(Rest) + Cardinality(M) /\ Cardinality(Rest) \in Nat
    BY <1>1, <2>7, <2>8, DisjointSize
  <2> QED
    BY <2>2, <2>7, <2>8, <2>9 DEF Total, Times
<1>3. Total(f, x) = Cardinality(Rest) + Times(f[p], x) /\ Times(f[p], x) \in Nat
      /\ Cardinality(Rest) \in Nat
  <2>1. Rest = {q \in Tokens(f, x) : q[1] # p}
    BY DEF Rest
  <2> QED
    BY <1>2, <2>1
<1>4. Total(g, x) = Cardinality(Rest) + Times(g[p], x) /\ Times(g[p], x) \in Nat
  BY <1>1, <1>2
<1> QED
  BY <1>3, <1>4

(* What is in one of the sequences is there. *)
LEMMA TotalPositive ==
    ASSUME NEW P, IsFiniteSet(P), NEW T, NEW f \in [P -> Seq(T)], NEW p \in P, NEW x,
           Times(f[p], x) > 0
    PROVE  Total(f, x) > 0
<1>1. PICK i \in 1 .. Len(f[p]) : f[p][i] = x
  BY TimesPositive
<1>2. <<p, i>> \in Tokens(f, x)
  BY <1>1 DEF Tokens, Spots
<1>3. IsFiniteSet(Tokens(f, x)) /\ Total(f, x) \in Nat
  BY TotalType
<1>4. Total(f, x) # 0
  BY <1>2, <1>3, FS_EmptySet DEF Total
<1> QED
  BY <1>3, <1>4

----------------------------------------------------------------------------
(* Chains of registrations *)

(* The chain of a list is a sequence. *)
LEMMA ChainType ==
    ASSUME NEW l
    PROVE  Len(Chain(l)) \in Nat /\ DOMAIN Chain(l) = 1 .. Len(Chain(l))
  BY EventsAssumption DEF Chain

(* A registration is given by its version, its list and its number. *)
LEMMA RegForm ==
    /\ \A v \in 1 .. MaxVersion, l \in {"server", "mount"} : \A n \in 1 .. Len(Chain(l)) :
         Registration(v, l, n) \in Reg
    /\ \A er \in Reg : /\ er = Registration(er.version, er.list, er.no)
                       /\ er.version \in 1 .. MaxVersion /\ er.list \in {"server", "mount"}
                       /\ er.no \in 1 .. Len(Chain(er.list))
    /\ \A v, l, n : /\ Registration(v, l, n).version = v /\ Registration(v, l, n).list = l
                    /\ Registration(v, l, n).no = n
<1>1. \A v, l, n : /\ Registration(v, l, n).version = v /\ Registration(v, l, n).list = l
                  /\ Registration(v, l, n).no = n
  BY DEF Registration
<1>2. ASSUME NEW v \in 1 .. MaxVersion, NEW l \in {"server", "mount"}, NEW n \in 1 .. Len(Chain(l))
      PROVE  Registration(v, l, n) \in Reg
  <2>1. Registration(v, l, n) \in Of(v, l)
    BY ChainType DEF Of
  <2> QED
    BY <2>1 DEF Reg
<1>3. ASSUME NEW er \in Reg
      PROVE  /\ er = Registration(er.version, er.list, er.no)
             /\ er.version \in 1 .. MaxVersion /\ er.list \in {"server", "mount"}
             /\ er.no \in 1 .. Len(Chain(er.list))
  <2>1. PICK v \in 1 .. MaxVersion, l \in {"server", "mount"} : er \in Of(v, l)
    BY DEF Reg
  <2>2. PICK n \in DOMAIN Chain(l) : er = Registration(v, l, n)
    BY <2>1 DEF Of
  <2>3. er.version = v /\ er.list = l /\ er.no = n
    BY <1>1, <2>2
  <2> QED
    BY <2>2, <2>3, ChainType
<1> QED
  BY <1>1, <1>2, <1>3

(* The chain of a first registration *)
LEMMA ChainOf ==
    ASSUME NEW er \in Firsts
    PROVE  /\ Of(er.version, er.list) = {x \in Reg : FirstIn(x) = er}
           /\ er \in Of(er.version, er.list) /\ FirstIn(er) = er
<1>1. /\ er \in Reg /\ er.no = 1 /\ er = Registration(er.version, er.list, 1)
      /\ er.version \in 1 .. MaxVersion /\ er.list \in {"server", "mount"}
      /\ 1 \in 1 .. Len(Chain(er.list))
  BY RegForm DEF Firsts
<1>2. FirstIn(er) = er
  BY <1>1 DEF FirstIn
<1>3. ASSUME NEW x \in Of(er.version, er.list) PROVE x \in Reg /\ FirstIn(x) = er
  <2>1. PICK n \in DOMAIN Chain(er.list) : x = Registration(er.version, er.list, n)
    BY DEF Of
  <2>2. n \in 1 .. Len(Chain(er.list)) /\ x.version = er.version /\ x.list = er.list
    BY <2>1, ChainType, RegForm
  <2> QED
    BY <1>1, <2>1, <2>2, RegForm DEF FirstIn
<1>4. ASSUME NEW x \in Reg, FirstIn(x) = er PROVE x \in Of(er.version, er.list)
  <2>1. x = Registration(x.version, x.list, x.no) /\ x.no \in DOMAIN Chain(x.list)
    BY RegForm, ChainType
  <2>2. x.version = er.version /\ x.list = er.list
    BY <1>4, RegForm DEF FirstIn
  <2> QED
    BY <2>1, <2>2 DEF Of
<1> QED
  BY <1>1, <1>2, <1>3, <1>4

(* The first registration of a chain. *)
LEMMA FirstOfReg ==
    ASSUME NEW x \in Reg
    PROVE  FirstIn(x) \in Firsts /\ (x.no = 1 <=> x \in Firsts) /\ (x \in Firsts => FirstIn(x) = x)
<1>1. /\ x = Registration(x.version, x.list, x.no)
      /\ x.version \in 1 .. MaxVersion /\ x.list \in {"server", "mount"}
      /\ x.no \in 1 .. Len(Chain(x.list)) /\ Len(Chain(x.list)) \in Nat
  BY RegForm, ChainType
<1>2. 1 \in 1 .. Len(Chain(x.list))
  BY <1>1
<1>3. FirstIn(x) \in Reg /\ FirstIn(x).no = 1
  BY <1>1, <1>2, RegForm DEF FirstIn
<1> QED
  BY <1>1, <1>3 DEF Firsts, FirstIn

(* A registration but the first has one before it. *)
LEMMA Before ==
    ASSUME NEW x \in Reg, x.no # 1
    PROVE  \E y \in Reg : HasNext(y) /\ Following(y) = x /\ FirstIn(y) = FirstIn(x)
<1> DEFINE y == Registration(x.version, x.list, x.no - 1)
<1>1. /\ x = Registration(x.version, x.list, x.no) /\ Len(Chain(x.list)) \in Nat
      /\ x.version \in 1 .. MaxVersion /\ x.list \in {"server", "mount"}
      /\ x.no \in 1 .. Len(Chain(x.list))
  BY RegForm, ChainType
<1>2. x.no - 1 \in 1 .. Len(Chain(x.list)) /\ x.no - 1 < Len(Chain(x.list)) /\ (x.no - 1) + 1 = x.no
  BY <1>1
<1>3. y \in Reg /\ y.version = x.version /\ y.list = x.list /\ y.no = x.no - 1
  BY <1>1, <1>2, RegForm
<1>4. HasNext(y) /\ Following(y) = x /\ FirstIn(y) = FirstIn(x)
  BY <1>1, <1>2, <1>3 DEF HasNext, Following, FirstIn
<1> QED
  BY <1>3, <1>4

(* A registration has one before it at most. *)
LEMMA After ==
    ASSUME NEW y \in Reg, HasNext(y)
    PROVE  /\ Following(y) \in Reg /\ Following(y).no # 1 /\ FirstIn(Following(y)) = FirstIn(y)
           /\ \A z \in Reg : HasNext(z) /\ Following(z) = Following(y) => z = y
<1>1. \A z \in Reg :
        /\ z = Registration(z.version, z.list, z.no) /\ Len(Chain(z.list)) \in Nat
        /\ z.version \in 1 .. MaxVersion /\ z.list \in {"server", "mount"}
        /\ z.no \in 1 .. Len(Chain(z.list)) /\ z.no \in Nat
        /\ Following(z).version = z.version /\ Following(z).list = z.list
        /\ Following(z).no = z.no + 1
  BY RegForm, ChainType DEF Following
<1>2. y.no + 1 \in 1 .. Len(Chain(y.list)) /\ y.no + 1 # 1
  BY <1>1 DEF HasNext
<1>3. Following(y) \in Reg
  BY <1>1, <1>2, RegForm DEF Following
<1>4. FirstIn(Following(y)) = FirstIn(y)
  BY <1>1 DEF FirstIn
<1>5. ASSUME NEW z \in Reg, Following(z) = Following(y) PROVE z = y
  <2>1. z.version = y.version /\ z.list = y.list /\ z.no + 1 = y.no + 1
    BY <1>1, <1>5
  <2>2. z.no = y.no
    BY <1>1, <2>1
  <2> QED
    BY <1>1, <2>1, <2>2
<1> QED
  BY <1>1, <1>2, <1>3, <1>4, <1>5

(* event_registration_release of a chain: the whole of it goes with the    *)
(* last reference, and before nothing does.                                *)
LEMMA ChainReleased ==
    ASSUME Chained, refcount \in [Reg -> Nat], NEW er \in Firsts, refcount[er] > 0
    PROVE  /\ Dropped(er) = {x \in Reg : FirstIn(x) = er /\ refcount[er] = 1}
           /\ Released(er) = {x \in Reg : FirstIn(x) = er /\ (x = er \/ refcount[er] = 1)}
<1> DEFINE O == Of(er.version, er.list)
<1>1. O = {x \in Reg : FirstIn(x) = er} /\ er \in O /\ er \in Reg /\ er.no = 1
  BY ChainOf DEF Firsts
<1>2. \A x \in O : x.no \in Nat /\ x.no >= 1
  BY <1>1, RegForm, ChainType
<1>3. \A x \in O : x.no # 1 => refcount[x] = 1
  BY <1>1 DEF Chained
<1>4. \A x \in O : x.no = 1 => x = er
  BY <1>1, FirstOfReg
<1>5. Dropped(er) = {x \in Reg : FirstIn(x) = er /\ refcount[er] = 1}
  <2>1. ASSUME NEW x \in Dropped(er) PROVE x \in O /\ refcount[er] = 1
    <3>1. x \in O /\ \A y \in O : y.no \in er.no .. x.no => refcount[y] = 1
      BY DEF Dropped
    <3> QED
      BY <1>1, <1>2, <3>1
  <2>2. ASSUME NEW x \in O, refcount[er] = 1 PROVE x \in Dropped(er)
    <3>1. \A y \in O : refcount[y] = 1
      BY <1>3, <1>4, <2>2
    <3> QED
      BY <1>1, <1>2, <3>1 DEF Dropped
  <2> QED
    BY <1>1, <2>1, <2>2
<1>6. Released(er) = {x \in Reg : FirstIn(x) = er /\ (x = er \/ refcount[er] = 1)}
  <2>1. ASSUME NEW x \in Released(er)
        PROVE  x \in Reg /\ FirstIn(x) = er /\ (x = er \/ refcount[er] = 1)
    <3>1. CASE x = er
      BY <1>1, <3>1
    <3>2. CASE x # er
      <4>1. PICK y \in Dropped(er) : HasNext(y) /\ x = Following(y)
        BY <3>2 DEF Released
      <4> QED
        BY <1>5, <4>1, After
    <3> QED
      BY <3>1, <3>2
  <2>2. ASSUME NEW x \in Reg, FirstIn(x) = er, x = er \/ refcount[er] = 1
        PROVE  x \in Released(er)
    <3>1. CASE x = er
      BY <3>1 DEF Released
    <3>2. CASE x # er
      <4>1. x.no # 1
        BY <1>1, <1>4, <2>2, <3>2
      <4>2. PICK y \in Reg : HasNext(y) /\ Following(y) = x /\ FirstIn(y) = er
        BY <2>2, <4>1, Before
      <4>3. y \in Dropped(er)
        BY <1>5, <2>2, <3>2, <4>2
      <4> QED
        BY <4>2, <4>3 DEF Released
    <3> QED
      BY <3>1, <3>2
  <2> QED
    BY <2>1, <2>2
<1> QED
  BY <1>5, <1>6

(* And of several chains at once. *)
LEMMA RegistrationsReleased ==
    ASSUME Chained, refcount \in [Reg -> Nat], NEW regs, regs \subseteq Firsts,
           \A er \in regs : refcount[er] > 0, ReleaseRegistrations(regs)
    PROVE  /\ Chained' /\ refcount' \in [Reg -> Nat]
           /\ \A er \in Firsts : refcount'[er] = refcount[er] - (IF er \in regs THEN 1 ELSE 0)
<1> DEFINE down == UNION {Released(er) : er \in regs}
           gone == UNION {Dropped(er) : er \in regs}
<1>1. ASSUME NEW x \in Reg
      PROVE  /\ x \in down <=> FirstIn(x) \in regs /\ (x.no = 1 \/ refcount[FirstIn(x)] = 1)
             /\ x \in gone <=> FirstIn(x) \in regs /\ refcount[FirstIn(x)] = 1
  <2>1. ASSUME NEW er \in regs
        PROVE  /\ x \in Released(er) <=> FirstIn(x) = er /\ (x = er \/ refcount[er] = 1)
               /\ x \in Dropped(er) <=> FirstIn(x) = er /\ refcount[er] = 1
    BY ChainReleased
  <2>2. x.no = 1 <=> x = FirstIn(x)
    BY FirstOfReg
  <2> QED
    BY <2>1, <2>2
<1>2. refcount' = [x \in Reg |-> IF x \in down THEN refcount[x] - 1 ELSE refcount[x]]
      /\ live' = live \ gone
  BY DEF ReleaseRegistrations
<1> HIDE DEF down, gone
<1>3. ASSUME NEW x \in Reg
      PROVE  /\ refcount[x] \in Nat /\ refcount'[x] \in Nat /\ (x \in down => refcount[x] > 0)
             /\ refcount'[x] = refcount[x] - (IF x \in down THEN 1 ELSE 0)
  <2>1. refcount[x] \in Nat
    OBVIOUS
  <2>2. ASSUME x \in down PROVE refcount[x] > 0
    <3>1. FirstIn(x) \in regs /\ (x.no = 1 => x = FirstIn(x))
      BY <1>1, <2>2, FirstOfReg
    <3>2. CASE x.no = 1
      BY <3>1, <3>2
    <3>3. CASE x.no # 1
      BY <3>1, <3>3 DEF Chained
    <3> QED
      BY <3>2, <3>3
  <2> QED
    BY <1>2, <2>1, <2>2
<1>4. refcount' \in [Reg -> Nat]
  BY <1>2, <1>3
<1>5. ASSUME NEW er \in Firsts
      PROVE  refcount'[er] = refcount[er] - (IF er \in regs THEN 1 ELSE 0)
  <2>1. er \in Reg /\ FirstIn(er) = er /\ er.no = 1
    BY FirstOfReg DEF Firsts
  <2> QED
    BY <1>1, <1>3, <2>1
<1>6. ASSUME NEW x \in Reg
      PROVE  /\ x \in live' <=> refcount'[x] > 0
             /\ x.no # 1 => refcount'[x] = IF refcount'[FirstIn(x)] > 0 THEN 1 ELSE 0
  <2> DEFINE f == FirstIn(x)
  <2>1. f \in Firsts /\ f \in Reg /\ (x.no = 1 => x = f)
    BY FirstOfReg DEF Firsts
  <2>2. refcount'[f] = refcount[f] - (IF f \in regs THEN 1 ELSE 0) /\ refcount[f] \in Nat
    BY <1>3, <1>5, <2>1
  <2>3. x \in live <=> refcount[x] > 0
    BY DEF Chained
  <2>4. x.no # 1 => refcount[x] = IF refcount[f] > 0 THEN 1 ELSE 0
    BY DEF Chained
  <2>5. /\ x \in down <=> f \in regs /\ (x.no = 1 \/ refcount[f] = 1)
        /\ x \in gone <=> f \in regs /\ refcount[f] = 1
    BY <1>1
  <2>6. refcount'[x] = refcount[x] - (IF x \in down THEN 1 ELSE 0) /\ refcount[x] \in Nat
        /\ (f \in regs => refcount[f] > 0)
    BY <1>3
  <2>7. x \in live' <=> x \in live /\ x \notin gone
    BY <1>2
  <2> HIDE DEF f
  <2>8. CASE x.no = 1
    BY <2>1, <2>2, <2>3, <2>5, <2>6, <2>7, <2>8
  <2>9. CASE x.no # 1
    <3>1. refcount'[x] = IF refcount'[f] > 0 THEN 1 ELSE 0
      BY <2>2, <2>4, <2>5, <2>6, <2>9
    <3>2. x \in live' <=> refcount'[x] > 0
      BY <2>2, <2>3, <2>4, <2>5, <2>6, <2>7, <2>9
    <3> QED
      BY <3>1, <3>2 DEF f
  <2> QED
    BY <2>8, <2>9
<1>7. live' \subseteq Reg
  BY <1>2 DEF Chained
<1>8. Chained'
  BY <1>6, <1>7 DEF Chained
<1> QED
  BY <1>4, <1>5, <1>8

(* _parse_events makes the registrations of a version. *)
LEMMA ParsedReg ==
    ASSUME NEW v \in 1 .. MaxVersion
    PROVE  /\ Parsed(v) = {er \in Reg : er.version = v}
           /\ FirstOf(v) = {er \in Firsts : er.version = v}
<1>1. ASSUME NEW er \in Parsed(v) PROVE er \in Reg /\ er.version = v
  <2>1. PICK l \in {"server", "mount"} : er \in Of(v, l)
    BY DEF Parsed
  <2>2. PICK n \in DOMAIN Chain(l) : er = Registration(v, l, n)
    BY <2>1 DEF Of
  <2> QED
    BY <2>1, <2>2, RegForm DEF Reg
<1>2. ASSUME NEW er \in Reg, er.version = v PROVE er \in Parsed(v)
  <2>1. er = Registration(v, er.list, er.no) /\ er.list \in {"server", "mount"}
        /\ er.no \in DOMAIN Chain(er.list)
    BY <1>2, RegForm, ChainType
  <2>2. er \in Of(v, er.list)
    BY <2>1 DEF Of
  <2> QED
    BY <2>1, <2>2 DEF Parsed
<1> QED
  BY <1>1, <1>2 DEF FirstOf, Firsts

----------------------------------------------------------------------------
(* Holders of events *)

(* Three values are not four. *)
LEMMA AtMostThree ==
    ASSUME NEW a, NEW b, NEW c
    PROVE  Cardinality({a} \cup ({b} \cup {c})) # 4
<1> DEFINE A == {a}
           B == {b}
           C == {c}
<1>1. /\ IsFiniteSet(A) /\ IsFiniteSet(B) /\ IsFiniteSet(C)
      /\ Cardinality(A) = 1 /\ Cardinality(B) = 1 /\ Cardinality(C) = 1
  BY FS_Singleton
<1> HIDE DEF A, B, C
<1>2. IsFiniteSet(B \cup C) /\ Cardinality(B \cup C) <= 2 /\ Cardinality(B \cup C) \in Nat
  <2>1. IsFiniteSet(B \cup C) /\ Cardinality(B \cup C) = Cardinality(B) + Cardinality(C) - Cardinality(B \cap C)
    BY <1>1, FS_Union
  <2>2. Cardinality(B \cap C) \in Nat
    BY <1>1, FS_Intersection, FS_CardinalityType
  <2> QED
    BY <1>1, <2>1, <2>2, FS_CardinalityType
<1>3. Cardinality(A \cup (B \cup C)) <= 3
  <2>1. Cardinality(A \cup (B \cup C)) = 1 + Cardinality(B \cup C) - Cardinality(A \cap (B \cup C))
    BY <1>1, <1>2, FS_Union
  <2>2. Cardinality(A \cap (B \cup C)) \in Nat
    BY <1>1, <1>2, FS_Intersection, FS_CardinalityType
  <2> QED
    BY <1>2, <2>1, <2>2
<1> QED
  BY <1>3 DEF A, B, C

(* The threads are different ones. *)
LEMMA Distinct ==
    /\ Runner # Main /\ Runner \notin Source /\ Main \notin Source /\ Slave # Nobody
    /\ IsFiniteSet(Emitters) /\ IsFiniteSet(Emitters \cup {Runner})
    /\ Main \in Emitters /\ Runner \notin Emitters
<1>1. Runner \notin Source /\ Main \notin Source /\ IsFiniteSet(Source)
  BY EventsAssumption
<1>2. Runner # Main /\ Slave # Nobody
  <2>1. Cardinality({Main, Slave, Runner, Nobody}) = 4
    BY EventsAssumption
  <2>2. Runner = Main => {Main, Slave, Runner, Nobody} = {Main} \cup ({Slave} \cup {Nobody})
    OBVIOUS
  <2>3. Slave = Nobody => {Main, Slave, Runner, Nobody} = {Main} \cup ({Runner} \cup {Nobody})
    OBVIOUS
  <2> QED
    BY <2>1, <2>2, <2>3, AtMostThree
<1>3. IsFiniteSet(Emitters) /\ IsFiniteSet(Emitters \cup {Runner})
  BY <1>1, FS_AddElement DEF Emitters
<1> QED
  BY <1>1, <1>2, <1>3 DEF Emitters

(* Who may hold events holds sequences of them, before and after a step. *)
LEMMA HolderTypes ==
    ASSUME TypeOK
    PROVE  /\ Emitted \in [Emitters -> Seq(Nat)] /\ work \in [Emitters \cup {Runner} -> Seq(Nat)]
           /\ DOMAIN events = 1 .. Len(events) /\ Len(events) \in Nat
           /\ IsFiniteSet(DOMAIN events)
           /\ Hanging \in [DOMAIN events -> Seq(Nat)]
           /\ queue \in Seq(Nat) /\ Running \in Seq(Nat)
           /\ \A e \in DOMAIN events : events[e] \in Event
<1>1. DOMAIN events = 1 .. Len(events) /\ Len(events) \in Nat /\ \A e \in DOMAIN events : events[e] \in Event
  BY DEF TypeOK
<1>2. IsFiniteSet(DOMAIN events)
  BY <1>1, FS_Interval
<1>3. Emitted \in [Emitters -> Seq(Nat)]
  BY DEF TypeOK, Emitted
<1>4. Hanging \in [DOMAIN events -> Seq(Nat)]
  BY <1>1 DEF Hanging, Event
<1>5. Running \in Seq(Nat)
  BY DEF TypeOK, Running
<1> QED
  BY <1>1, <1>2, <1>3, <1>4, <1>5 DEF TypeOK

LEMMA HolderTypesNext ==
    ASSUME TypeOK'
    PROVE  /\ Emitted' \in [Emitters -> Seq(Nat)] /\ work' \in [Emitters \cup {Runner} -> Seq(Nat)]
           /\ DOMAIN events' = 1 .. Len(events')
           /\ Hanging' \in [DOMAIN events' -> Seq(Nat)]
           /\ queue' \in Seq(Nat) /\ Running' \in Seq(Nat)
<1>1. DOMAIN events' = 1 .. Len(events') /\ \A e \in DOMAIN events' : events'[e] \in Event
  BY DEF TypeOK
<1>2. Emitted' \in [Emitters -> Seq(Nat)]
  BY DEF TypeOK, Emitted
<1>3. Hanging' \in [DOMAIN events' -> Seq(Nat)]
  BY <1>1 DEF Hanging, Event
<1>4. Running' \in Seq(Nat)
  BY DEF TypeOK, Running
<1> QED
  BY <1>1, <1>2, <1>3, <1>4 DEF TypeOK

(* The number of holders of an event. *)
LEMMA HoldsType ==
    ASSUME TypeOK, NEW e
    PROVE  /\ Total(Emitted, e) \in Nat /\ Total(work, e) \in Nat /\ Total(Hanging, e) \in Nat
           /\ Times(queue, e) \in Nat /\ Times(Running, e) \in Nat /\ Holds(e) \in Nat
<1>1. Total(Emitted, e) \in Nat
  BY HolderTypes, Distinct, TotalType
<1>2. Total(work, e) \in Nat
  BY HolderTypes, Distinct, TotalType
<1>3. Total(Hanging, e) \in Nat
  BY HolderTypes, TotalType
<1>4. Times(queue, e) \in Nat /\ Times(Running, e) \in Nat
  BY HolderTypes, TimesType
<1> QED
  BY <1>1, <1>2, <1>3, <1>4 DEF Holds

(* An event with a reference exists and is not freed. *)
LEMMA HeldLives ==
    ASSUME TypeOK, Held, NEW e \in Nat, Holds(e) > 0
    PROVE  e \in DOMAIN events /\ e \notin freed /\ events[e].count = Holds(e)
<1>1. e \in DOMAIN events
  BY HoldsType DEF Held
<1> QED
  BY <1>1, HoldsType DEF Held

(* A thread that emits an event, releases it, runs it or has queued it is  *)
(* a holder of it.                                                         *)
LEMMA EmitterHolds ==
    ASSUME TypeOK, NEW t \in Emitters, emitter[t].at # "none"
    PROVE  /\ emitter[t].event \in Nat /\ Total(Emitted, emitter[t].event) > 0
           /\ Holds(emitter[t].event) > 0
<1> DEFINE e == emitter[t].event
<1>1. e \in Nat
  BY DEF TypeOK
<1>2. Emitted[t] = <<e>>
  BY DEF Emitted
<1>3. Times(Emitted[t], e) > 0
  BY <1>2, TimesShort
<1> HIDE DEF e
<1>4. Total(Emitted, e) > 0
  BY <1>3, HolderTypes, Distinct, TotalPositive
<1>5. Holds(e) > 0
  BY <1>4, HoldsType DEF Holds
<1> QED
  BY <1>1, <1>4, <1>5 DEF e

LEMMA WorkHolds ==
    ASSUME TypeOK, NEW t \in Emitters \cup {Runner}, work[t] # <<>>
    PROVE  ToRelease(t) \in Nat /\ Total(work, ToRelease(t)) > 0 /\ Holds(ToRelease(t)) > 0
<1> DEFINE e == ToRelease(t)
<1>1. work[t] \in Seq(Nat)
  BY DEF TypeOK
<1>2. e \in Nat /\ Times(work[t], e) = Times(Tail(work[t]), e) + 1 /\ Tail(work[t]) \in Seq(Nat)
  BY <1>1, TimesTail DEF ToRelease
<1>3. Times(Tail(work[t]), e) \in Nat
  BY <1>2, TimesType
<1> HIDE DEF e
<1>4. Times(work[t], e) > 0
  BY <1>2, <1>3
<1>5. Total(work, e) > 0
  BY <1>4, HolderTypes, Distinct, TotalPositive
<1>6. Holds(e) > 0
  BY <1>5, HoldsType DEF Holds
<1> QED
  BY <1>2, <1>5, <1>6 DEF e

LEMMA RunnerHolds ==
    ASSUME TypeOK, runner.at \notin {"pop", "ended"}
    PROVE  runner.event \in Nat /\ Times(Running, runner.event) > 0 /\ Holds(runner.event) > 0
<1> DEFINE e == runner.event
<1>1. e \in Nat /\ Running = <<e>>
  BY DEF TypeOK, Running
<1> HIDE DEF e
<1>2. Times(<<e>>, e) = 1
  BY TimesShort
<1>3. Times(Running, e) > 0
  BY <1>1, <1>2
<1>4. Holds(e) > 0
  BY <1>3, HoldsType DEF Holds
<1> QED
  BY <1>1, <1>3, <1>4 DEF e

LEMMA QueueHolds ==
    ASSUME TypeOK, NEW i \in 1 .. Len(queue)
    PROVE  queue[i] \in Nat /\ Times(queue, queue[i]) > 0 /\ Holds(queue[i]) > 0
<1>1. queue \in Seq(Nat) /\ queue[i] \in Nat
  BY DEF TypeOK
<1>2. Times(queue, queue[i]) > 0
  BY <1>1, TimesPositive
<1> QED
  BY <1>1, <1>2, HoldsType DEF Holds

(* The events that refer to a registration are finitely many. *)
LEMMA ReferringType ==
    ASSUME TypeOK, NEW er
    PROVE  IsFiniteSet(Referring(er)) /\ Cardinality(Referring(er)) \in Nat
<1>1. IsFiniteSet(DOMAIN events)
  BY HolderTypes
<1>2. Referring(er) \in SUBSET DOMAIN events
  BY DEF Referring
<1>3. IsFiniteSet(Referring(er))
  BY <1>1, <1>2, FS_Subset
<1> QED
  BY <1>3, FS_CardinalityType

(* The registrations of an event that is not freed have references. *)
LEMMA ReglistCounted ==
    ASSUME TypeOK, Counted, NEW e \in DOMAIN events \ freed, NEW er \in Range(events[e].reglist)
    PROVE  er \in Firsts /\ refcount[er] > 0
<1>1. er \in Firsts
  BY HolderTypes DEF Event, Range
<1>2. e \in Referring(er)
  BY DEF Referring
<1>3. Cardinality(Referring(er)) # 0
  BY <1>2, ReferringType, FS_EmptySet
<1>4. Cardinality(Referring(er)) \in Nat
  BY ReferringType
<1> QED
  BY <1>1, <1>3, <1>4 DEF Counted

----------------------------------------------------------------------------
(* What the invariant says of the registrations *)

(* The invariant implies that registrations are freed exactly when nothing *)
(* uses them.                                                              *)
LEMMA Exact == IInv => RegistrationsExact
<1> SUFFICES ASSUME IInv PROVE RegistrationsExact
  OBVIOUS
<1> USE DEF IInv, Core
<1>1. ASSUME NEW er \in Reg PROVE refcount[er] = References(er)
  <2> DEFINE A == {h \in heads : h = er}
             B == {x \in live : HasNext(x) /\ Following(x) = er}
  <2>1. References(er) = Cardinality(A) + Cardinality(B) + Cardinality(Referring(er))
    BY DEF References, Referring
  <2>2. live \subseteq Reg /\ refcount[er] \in Nat
    BY DEF TypeOK
  <2>3. CASE er.no = 1
    <3>1. er \in Firsts
      BY <2>3 DEF Firsts
    <3>2. B = {}
      BY <2>2, <2>3, After
    <3>3. A = IF er \in heads THEN {er} ELSE {}
      OBVIOUS
    <3>4. Cardinality(A) = (IF er \in heads THEN 1 ELSE 0) /\ Cardinality(B) = 0
      BY <3>2, <3>3, FS_EmptySet, FS_Singleton
    <3>5. Cardinality(Referring(er)) \in Nat
      BY ReferringType
    <3> HIDE DEF A, B
    <3> QED
      BY <2>1, <3>1, <3>4, <3>5 DEF Counted
  <2>4. CASE er.no # 1
    <3>1. er \notin Firsts
      BY <2>4 DEF Firsts
    <3>2. A = {}
      BY <3>1 DEF TypeOK
    <3>3. Referring(er) = {}
      BY <3>1, HolderTypes DEF Referring, Range, Event
    <3>4. PICK y \in Reg : HasNext(y) /\ Following(y) = er /\ FirstIn(y) = FirstIn(er)
      BY <2>4, Before
    <3>5. B = IF y \in live THEN {y} ELSE {}
      BY <2>2, <3>4, After
    <3>6. y \in live <=> refcount[FirstIn(er)] > 0
      <4>1. refcount[y] > 0 <=> refcount[FirstIn(y)] > 0
        BY FirstOfReg DEF Chained, Firsts
      <4> QED
        BY <3>4, <4>1 DEF Chained
    <3>7. Cardinality(A) = 0 /\ Cardinality(Referring(er)) = 0
          /\ Cardinality(B) = IF refcount[FirstIn(er)] > 0 THEN 1 ELSE 0
      BY <3>2, <3>3, <3>5, <3>6, FS_EmptySet, FS_Singleton
    <3> HIDE DEF A, B
    <3>8. refcount[er] = IF refcount[FirstIn(er)] > 0 THEN 1 ELSE 0
      BY <2>4 DEF Chained
    <3> QED
      BY <2>1, <3>7, <3>8
  <2> QED
    BY <2>3, <2>4
<1>2. live = {er \in Reg : refcount[er] > 0}
  BY DEF Chained
<1>3. runner.er # Nobody => runner.er \in live
  <2> SUFFICES ASSUME runner.er # Nobody PROVE runner.er \in live
    OBVIOUS
  <2> DEFINE e == runner.event
             f == FirstIn(runner.er)
  <2>1. runner.at \in {"config", "url", "next"}
    BY DEF AtChain
  <2>2. runner.er \in Reg /\ f = events[e].reglist[runner.list]
        /\ runner.list \in 1 .. Len(events[e].reglist)
    BY <2>1 DEF AtChain
  <2>3. e \in DOMAIN events \ freed
    BY <2>1, RunnerHolds, HeldLives
  <2>4. f \in Range(events[e].reglist)
    <3>1. DOMAIN events[e].reglist = 1 .. Len(events[e].reglist)
      BY <2>3, HolderTypes DEF Event
    <3> QED
      BY <2>2, <3>1 DEF Range
  <2>5. refcount[f] > 0
    BY <2>3, <2>4, ReglistCounted
  <2>6. refcount[runner.er] > 0
    BY <2>2, <2>5, FirstOfReg DEF Chained
  <2> QED
    BY <1>2, <2>2, <2>6
<1>4. \A e \in Range(queue) : e \notin freed
  <2> SUFFICES ASSUME NEW e \in Range(queue) PROVE e \notin freed
    OBVIOUS
  <2>1. PICK i \in 1 .. Len(queue) : e = queue[i]
    BY DEF TypeOK, Range
  <2> QED
    BY <2>1, QueueHolds, HeldLives
<1> QED
  BY <1>1, <1>2, <1>3, <1>4 DEF RegistrationsExact

----------------------------------------------------------------------------
(* The start *)

(* A function of empty sequences has no element. *)
LEMMA TotalNone ==
    ASSUME NEW f, NEW x, \A p \in DOMAIN f : f[p] = <<>>
    PROVE  Total(f, x) = 0
<1>1. Tokens(f, x) = {}
  BY DEF Tokens, Spots
<1> QED
  BY <1>1, FS_EmptySet DEF Total

(* The server begins with the first configuration and no event. *)
LEMMA InitInv == Init => IInv
<1> SUFFICES ASSUME Init PROVE IInv
  OBVIOUS
<1> USE DEF Init, EventsInit
<1>1. 1 \in 1 .. MaxVersion
  BY EventsAssumption
<1>2. Parsed(1) = {er \in Reg : er.version = 1} /\ FirstOf(1) = {er \in Firsts : er.version = 1}
  BY <1>1, ParsedReg
<1>3. <<>> \in Seq(Event) /\ <<>> \in Seq(Nat) /\ DOMAIN <<>> = {} /\ Len(<<>>) = 0
  OBVIOUS
<1>4. TypeOK
  <2>1. version \in 1 .. MaxVersion /\ heads \subseteq Firsts /\ refcount \in [Reg -> Nat]
        /\ live \subseteq Reg
    BY <1>1, <1>2
  <2>2. emitter \in [Emitters -> [at : {"none", "server", "mount", "push"}, event : Nat]]
    OBVIOUS
  <2>3. runner \in [at : {"pop", "lock", "config", "url", "next", "ended"}, event : Nat,
                   list : Nat \ {0}, er : Reg \cup {Nobody}, last : BOOLEAN]
    BY DEF Waiting
  <2>4. work \in [Emitters \cup {Runner} -> Seq(Nat)]
    BY <1>3
  <2> QED
    BY <1>3, <2>1, <2>2, <2>3, <2>4 DEF TypeOK
<1>5. Chained
  <2>1. \A er \in Reg : FirstIn(er) \in Reg /\ FirstIn(er).version = er.version
    BY FirstOfReg, RegForm DEF FirstIn, Firsts
  <2> QED
    BY <1>2, <2>1 DEF Chained
<1>6. Counted
  <2>1. \A er : Referring(er) = {}
    BY <1>3 DEF Referring
  <2>2. \A er : Cardinality(Referring(er)) = 0
    BY <2>1, FS_EmptySet
  <2> QED
    BY <1>2, <2>2 DEF Counted, Firsts
<1>7. Known
  BY <1>1, <1>2, <1>3 DEF Known, Reading
<1>8. Held
  <2>1. ASSUME NEW e PROVE Holds(e) = 0
    <3>1. Total(Emitted, e) = 0
      <4>1. \A t \in DOMAIN Emitted : Emitted[t] = <<>>
        BY DEF Emitted
      <4> QED
        BY <4>1, TotalNone
    <3>2. Total(work, e) = 0
      BY TotalNone
    <3>3. Total(Hanging, e) = 0
      <4>1. DOMAIN Hanging = {}
        BY <1>3 DEF Hanging
      <4> QED
        BY <4>1, TotalNone
    <3>4. Times(queue, e) = 0 /\ Times(Running, e) = 0
      BY TimesShort DEF Running, Waiting
    <3> QED
      BY <3>1, <3>2, <3>3, <3>4 DEF Holds
  <2> QED
    BY <1>3, <2>1 DEF Held
<1>9. Emitting /\ JoinsFree /\ AtChain
  BY <1>3 DEF Emitting, JoinsFree, Joining, AtChain, Waiting
<1> QED
  BY <1>4, <1>5, <1>6, <1>7, <1>8, <1>9 DEF IInv, Core

----------------------------------------------------------------------------
(* Steps that do not change the events *)

(* What the events, their holders and the threads that have them say *)
LEMMA HeldKept ==
    ASSUME IInv, UNCHANGED <<events, freed, queue, emitter, runner, work>>
    PROVE  Held' /\ Emitting' /\ AtChain' /\ \A er : Referring(er)' = Referring(er)
<1>1. Emitted' = Emitted /\ Hanging' = Hanging /\ Running' = Running
  BY DEF Emitted, Hanging, Running
<1>2. \A e : Holds(e)' = Holds(e)
  BY <1>1 DEF Holds
<1>3. Held'
  BY <1>2 DEF IInv, Core, Held
<1>4. Emitting' /\ AtChain'
  BY DEF IInv, Core, Emitting, AtChain
<1>5. \A er : Referring(er)' = Referring(er)
  BY DEF Referring
<1> QED
  BY <1>3, <1>4, <1>5

(* A step of another kind *)
LEMMA Elsewhere ==
    ASSUME IInv, Reading' <=> Reading, Joining' => Joining,
           UNCHANGED <<version, heads, refcount, live, events, freed, queue, running, emitter,
                       runner, work>>
    PROVE  IInv'
<1>1. Held' /\ Emitting' /\ AtChain' /\ \A er : Referring(er)' = Referring(er)
  BY HeldKept
<1>2. TypeOK' /\ Chained' /\ JoinsFree'
  BY DEF IInv, Core, TypeOK, Chained, JoinsFree, Joining, Free
<1>3. Counted'
  BY <1>1 DEF IInv, Core, Counted
<1>4. Known'
  BY DEF IInv, Core, Known
<1> QED
  BY <1>1, <1>2, <1>3, <1>4 DEF IInv, Core

(* config_grab_config: the registrations of the new configuration are new. *)
LEMMA GrabConfigInv == IInv /\ GrabConfig => IInv'
<1> SUFFICES ASSUME IInv, GrabConfig PROVE IInv'
  OBVIOUS
<1>1. UNCHANGED <<version, events, freed, queue, running, emitter, runner, work, main>> /\ slave = "grab"
  BY DEF GrabConfig, releaseVars, queueVars, mainVars
<1>2. CASE slave' = "release" /\ UNCHANGED <<heads, regVars>>
  <2>1. ~Reading /\ ~Reading'
    BY <1>1, <1>2 DEF Reading
  <2> QED
    BY <1>1, <1>2, <2>1, Elsewhere DEF regVars, Joining
<1>3. CASE slave' # "release" \/ ~UNCHANGED <<heads, regVars>>
  <2> DEFINE v == version + 1
  <2>1. /\ version < MaxVersion /\ slave' = "auth" /\ heads' = heads \cup FirstOf(v)
        /\ refcount' = [er \in Reg |-> IF er \in Parsed(v) THEN 1 ELSE refcount[er]]
        /\ live' = live \cup Parsed(v)
    BY <1>3 DEF GrabConfig, SlaveAt
  <2>2. v \in 1 .. MaxVersion /\ version \in Nat /\ v > version
    BY <2>1, EventsAssumption DEF IInv, Core, TypeOK
  <2>3. Parsed(v) = {er \in Reg : er.version = v} /\ FirstOf(v) = {er \in Firsts : er.version = v}
    BY <2>2, ParsedReg
  <2> HIDE DEF v
  <2>4. Held' /\ Emitting' /\ AtChain' /\ \A er : Referring(er)' = Referring(er)
    BY <1>1, HeldKept
  <2>5. TypeOK'
    BY <1>1, <2>1, <2>3 DEF IInv, Core, TypeOK, Firsts
  <2>6. \A er \in Reg : FirstIn(er) \in Reg /\ FirstIn(er).version = er.version
    BY FirstOfReg, RegForm DEF FirstIn, Firsts
  <2>7. Chained'
    <3>1. \A er \in Reg : refcount'[er] = IF er.version = v THEN 1 ELSE refcount[er]
      BY <2>1, <2>3
    <3>2. \A er \in Reg : refcount'[FirstIn(er)] = IF er.version = v THEN 1 ELSE refcount[FirstIn(er)]
      BY <2>6, <3>1
    <3>3. live' = {er \in Reg : er \in live \/ er.version = v}
      BY <2>1, <2>3 DEF IInv, Core, TypeOK
    <3> QED
      BY <3>1, <3>2, <3>3 DEF IInv, Core, Chained
  <2>8. Counted'
    <3> SUFFICES ASSUME NEW er \in Firsts
                 PROVE  refcount'[er] = (IF er \in heads' THEN 1 ELSE 0) + Cardinality(Referring(er))
      BY <2>4 DEF Counted
    <3>1. er \in Reg
      BY DEF Firsts
    <3>2. CASE er.version = v
      <4>1. er \notin heads
        BY <1>1, <2>2, <3>2 DEF IInv, Core, Known, Reading
      <4>2. Referring(er) = {}
        BY <2>2, <3>2 DEF IInv, Core, Known, Referring
      <4>3. er \in heads' /\ refcount'[er] = 1
        BY <2>1, <2>3, <3>1, <3>2
      <4> QED
        BY <4>2, <4>3, FS_EmptySet
    <3>3. CASE er.version # v
      BY <2>1, <2>3, <3>1, <3>3 DEF IInv, Core, Counted
    <3> QED
      BY <3>2, <3>3
  <2>9. Known'
    <3>1. Reading' /\ ~Reading
      BY <1>1, <2>1 DEF Reading
    <3>2. \A er \in heads : er.version \in Nat
      BY RegForm, EventsAssumption DEF IInv, Core, TypeOK, Firsts
    <3>3. \A er \in heads' : er.version <= version + 1
      BY <2>1, <2>2, <2>3, <3>1, <3>2 DEF IInv, Core, Known, v
    <3> QED
      BY <1>1, <2>1, <3>1, <3>3 DEF IInv, Core, Known
  <2>10. JoinsFree'
    BY <1>1 DEF IInv, Core, JoinsFree, Joining, Free
  <2> QED
    BY <2>4, <2>5, <2>7, <2>8, <2>9, <2>10 DEF IInv, Core
<1> QED
  BY <1>2, <1>3

(* The configuration has a reference to each of its lists. *)
LEMMA HeadCounted ==
    ASSUME IInv, NEW er \in heads
    PROVE  er \in Firsts /\ refcount[er] > 0
<1> DEFINE c == Cardinality(Referring(er))
<1>1. er \in Firsts
  BY DEF IInv, Core, TypeOK
<1>2. c \in Nat
  BY ReferringType DEF IInv, Core
<1>3. refcount[er] = 1 + c
  BY <1>1 DEF IInv, Core, Counted
<1> HIDE DEF c
<1> QED
  BY <1>1, <1>2, <1>3

(* References of the configuration are released. *)
LEMMA HeadsReleased ==
    ASSUME IInv, NEW regs, regs \subseteq heads, ReleaseRegistrations(regs), heads' = heads \ regs,
           Reading' <=> Reading, Joining' => Joining,
           UNCHANGED <<version, events, freed, queue, running, emitter, runner, work>>
    PROVE  IInv'
<1>1. regs \subseteq Firsts
  BY DEF IInv, Core, TypeOK
<1>2. \A er \in regs : refcount[er] > 0
  BY HeadCounted
<1>3. /\ Chained' /\ refcount' \in [Reg -> Nat]
      /\ \A er \in Firsts : refcount'[er] = refcount[er] - (IF er \in regs THEN 1 ELSE 0)
  BY <1>1, <1>2, RegistrationsReleased DEF IInv, Core, TypeOK
<1>4. Held' /\ Emitting' /\ AtChain' /\ \A er : Referring(er)' = Referring(er)
  BY HeldKept
<1>5. TypeOK'
  BY <1>3 DEF IInv, Core, TypeOK, Chained
<1>6. Counted'
  <2> SUFFICES ASSUME NEW er \in Firsts
               PROVE  refcount'[er] = (IF er \in heads' THEN 1 ELSE 0) + Cardinality(Referring(er))
    BY <1>4 DEF Counted
  <2> DEFINE c == Cardinality(Referring(er))
  <2>1. c \in Nat
    BY ReferringType DEF IInv, Core
  <2>2. refcount[er] = (IF er \in heads THEN 1 ELSE 0) + c
    BY DEF IInv, Core, Counted
  <2>3. refcount'[er] = refcount[er] - (IF er \in regs THEN 1 ELSE 0)
    BY <1>3
  <2> HIDE DEF c
  <2>4. refcount'[er] = (IF er \in heads' THEN 1 ELSE 0) + c
    BY <2>1, <2>2, <2>3
  <2> QED
    BY <2>4 DEF c
<1>7. Known' /\ JoinsFree'
  BY DEF IInv, Core, Known, JoinsFree, Joining, Free
<1> QED
  BY <1>3, <1>4, <1>5, <1>6, <1>7 DEF IInv, Core

(* config_clear in a reload *)
LEMMA ClearInv == IInv /\ (ClearServer \/ ClearMounts) => IInv'
<1> SUFFICES ASSUME IInv, ClearServer \/ ClearMounts PROVE IInv'
  OBVIOUS
<1>1. PICK list : ClearEvents(list)
  BY DEF ClearServer, ClearMounts
<1>2. UNCHANGED <<version, events, freed, queue, running, emitter, runner, work, main>>
  BY <1>1 DEF ClearServer, ClearMounts, ClearEvents, releaseVars, queueVars, mainVars
<1>3. (Reading' <=> Reading) /\ (Joining' => Joining)
  BY <1>2 DEF ClearServer, ClearMounts, Reading, SlaveAt, Joining
<1>4. CASE UNCHANGED <<heads, regVars>>
  BY <1>2, <1>3, <1>4, Elsewhere DEF regVars
<1>5. CASE ConfigReleases(list)
  <2>1. PICK er \in heads : ReleaseRegistrations({er}) /\ heads' = heads \ {er}
    BY <1>5 DEF ConfigReleases
  <2> QED
    BY <1>2, <1>3, <2>1, HeadsReleased
<1> QED
  BY <1>1, <1>4, <1>5 DEF ClearEvents

(* config_shutdown releases the registrations of the configuration. *)
LEMMA ConfigShutdownInv == IInv /\ ConfigShutdown => IInv'
<1> SUFFICES ASSUME IInv, ConfigShutdown PROVE IInv'
  OBVIOUS
<1>1. /\ UNCHANGED <<version, events, freed, queue, running, emitter, runner, work, slave>>
      /\ main' = "ended" /\ ReleaseRegistrations(heads) /\ heads' = heads \ heads
  BY DEF ConfigShutdown, releaseVars, queueVars, slaveVars, MainAt
<1> QED
  BY <1>1, HeadsReleased DEF Reading, Joining

(* A reload sets another configuration. *)
LEMMA SetConfigInv == IInv /\ SetConfig => IInv'
<1> SUFFICES ASSUME IInv, SetConfig PROVE IInv'
  OBVIOUS
<1>1. /\ UNCHANGED <<heads, refcount, live, events, freed, queue, running, emitter, runner, work, main>>
      /\ version' = version + 1 /\ Reading /\ ~Reading'
  BY DEF SetConfig, regVars, releaseVars, queueVars, mainVars, SlaveAt, Reading
<1>2. Held' /\ Emitting' /\ AtChain' /\ \A er : Referring(er)' = Referring(er)
  BY <1>1, HeldKept
<1>3. version' \in 1 .. MaxVersion /\ version \in Nat
  BY <1>1, EventsAssumption DEF IInv, Core, TypeOK, Known
<1>4. TypeOK' /\ Chained' /\ JoinsFree'
  BY <1>1, <1>3 DEF IInv, Core, TypeOK, Chained, JoinsFree, Joining, Free
<1>5. Counted'
  BY <1>1, <1>2 DEF IInv, Core, Counted
<1>6. Known'
  <2>1. ASSUME NEW e \in DOMAIN events, NEW er \in Range(events[e].reglist)
        PROVE  er.version <= version'
    <3>1. er \in Reg
      <4>1. events[e].reglist \in Seq(Firsts)
        BY HolderTypes DEF IInv, Core, Event
      <4> QED
        BY <4>1 DEF Range, Firsts
    <3>2. er.version \in Nat /\ er.version <= version
      BY <3>1, RegForm, EventsAssumption DEF IInv, Core, Known
    <3> QED
      BY <1>1, <1>3, <3>2
  <2> QED
    BY <1>1, <2>1 DEF IInv, Core, Known
<1> QED
  BY <1>2, <1>4, <1>5, <1>6 DEF IInv, Core

----------------------------------------------------------------------------
(* Steps of a thread that emits an event *)

(* One event is changed. *)
LEMMA EventChanged ==
    ASSUME TypeOK, NEW e \in DOMAIN events, NEW new \in Event, events' = [events EXCEPT ![e] = new]
    PROVE  /\ events' \in Seq(Event) /\ DOMAIN events' = DOMAIN events /\ events'[e] = new
           /\ \A x \in DOMAIN events : x # e => events'[x] = events[x]
           /\ new.next = events[e].next => Hanging' = Hanging
<1>1. events \in Seq(Event) /\ DOMAIN events = 1 .. Len(events)
  BY HolderTypes DEF TypeOK
<1>2. /\ events' \in Seq(Event) /\ DOMAIN events' = DOMAIN events /\ events'[e] = new
      /\ \A x \in DOMAIN events : x # e => events'[x] = events[x]
  BY <1>1, ExceptSeq
<1>3. ASSUME new.next = events[e].next PROVE Hanging' = Hanging
  <2>1. \A x \in DOMAIN events : events'[x].next = events[x].next
    BY <1>2, <1>3
  <2> QED
    BY <1>2, <2>1 DEF Hanging
<1> QED
  BY <1>2, <1>3

(* event_new *)
LEMMA EmitStartCore ==
    ASSUME IInv, NEW t \in Emitters, NEW trigger \in Triggers, EmitStart(t, trigger), UNCHANGED slave
    PROVE  Core'
<1> DEFINE n == Len(events) + 1
           new == [trigger |-> trigger, version |-> version, reglist |-> <<>>,
                   count |-> 1, next |-> <<>>]
<1>1. /\ UNCHANGED <<version, heads, refcount, live, freed, queue, running, runner, work>>
      /\ events' = Append(events, new) /\ emitter' = [emitter EXCEPT ![t] = [at |-> "server", event |-> n]]
      /\ emitter[t].at = "none" /\ work[t] = <<>>
  BY DEF EmitStart, configVars, regVars, releaseVars, queueVars, Free
<1>2. TypeOK /\ DOMAIN events = 1 .. Len(events) /\ Len(events) \in Nat /\ freed \subseteq DOMAIN events
  BY HolderTypes DEF IInv, Core, TypeOK
<1>3. /\ new \in Event /\ new.reglist = <<>> /\ new.next = <<>> /\ new.count = 1
  BY <1>2 DEF Event, TypeOK
<1> HIDE DEF new
<1>4. /\ events' \in Seq(Event) /\ DOMAIN events' = DOMAIN events \cup {n} /\ events'[n] = new
      /\ \A x \in DOMAIN events : events'[x] = events[x]
  BY <1>1, <1>2, <1>3 DEF TypeOK
<1>5. n \in Nat /\ n \notin DOMAIN events
  BY <1>2
<1> HIDE DEF n
<1>6. /\ emitter' \in [Emitters -> [at : {"none", "server", "mount", "push"}, event : Nat]]
      /\ emitter'[t].at = "server" /\ emitter'[t].event = n
      /\ \A x \in Emitters : x # t => emitter'[x] = emitter[x]
  BY <1>1, <1>2, <1>5 DEF TypeOK
<1>7. TypeOK'
  BY <1>1, <1>2, <1>4, <1>6 DEF TypeOK
<1>8. \A er : Referring(er)' = Referring(er)
  <2>1. Range(<<>>) = {}
    BY DEF Range
  <2> QED
    BY <1>1, <1>2, <1>3, <1>4, <2>1 DEF Referring
<1>9. Chained' /\ Counted'
  BY <1>1, <1>8 DEF IInv, Core, Chained, Counted
<1>10. Known'
  <2>1. Range(<<>>) = {}
    BY DEF Range
  <2> QED
    BY <1>1, <1>3, <1>4, <2>1 DEF IInv, Core, Known, Reading
<1>11. ASSUME NEW x \in Nat PROVE Holds(x)' = Holds(x) + (IF x = n THEN 1 ELSE 0)
  <2>1. Total(Emitted', x) = Total(Emitted, x) + (IF x = n THEN 1 ELSE 0)
    <3>1. /\ Emitted \in [Emitters -> Seq(Nat)] /\ Emitted' \in [Emitters -> Seq(Nat)]
          /\ IsFiniteSet(Emitters) /\ Total(Emitted, x) \in Nat
      BY <1>2, <1>7, HolderTypes, HolderTypesNext, HoldsType, Distinct
    <3>2. Emitted[t] = <<>> /\ Emitted'[t] = <<n>> /\ \A q \in Emitters : q # t => Emitted'[q] = Emitted[q]
      BY <1>1, <1>6 DEF Emitted
    <3>3. Times(Emitted[t], x) = 0 /\ Times(Emitted'[t], x) = IF x = n THEN 1 ELSE 0
      BY <3>2, TimesShort
    <3>4. Changed(Emitted, Emitted', t)
      BY <3>1, <3>2 DEF Changed
    <3>5. Total(Emitted', x) = Total(Emitted, x) - Times(Emitted[t], x) + Times(Emitted'[t], x)
      BY <3>4, TotalChanged
    <3> QED
      BY <3>1, <3>3, <3>5
  <2>2. Total(Hanging', x) = Total(Hanging, x)
    <3>1. Hanging'[n] = <<>> /\ Spots(<<>>, x) = {} /\ DOMAIN Hanging' = DOMAIN Hanging \cup {n}
          /\ \A e \in DOMAIN Hanging : Hanging'[e] = Hanging[e]
      BY <1>3, <1>4 DEF Hanging, Spots
    <3>2. Tokens(Hanging', x) = Tokens(Hanging, x)
      <4>1. ASSUME NEW p \in Tokens(Hanging', x) PROVE p \in Tokens(Hanging, x)
        BY <3>1 DEF Tokens
      <4>2. ASSUME NEW p \in Tokens(Hanging, x) PROVE p \in Tokens(Hanging', x)
        BY <3>1 DEF Tokens
      <4> QED
        BY <4>1, <4>2
    <3> QED
      BY <3>2 DEF Total
  <2>3. Running' = Running
    BY <1>1 DEF Running
  <2>4. /\ Total(Emitted, x) \in Nat /\ Total(work, x) \in Nat /\ Total(Hanging, x) \in Nat
        /\ Times(queue, x) \in Nat /\ Times(Running, x) \in Nat
    BY <1>2, HoldsType
  <2> QED
    BY <1>1, <2>1, <2>2, <2>3, <2>4 DEF Holds
<1>12. Held'
  <2>1. Held /\ \A x \in Nat : Holds(x) \in Nat
    BY <1>2, HoldsType DEF IInv, Core
  <2>2. DOMAIN events \subseteq Nat
    BY <1>2
  <2>3. ASSUME NEW e \in DOMAIN events' PROVE events'[e].count = Holds(e)'
    <3>1. CASE e = n
      BY <1>3, <1>4, <1>5, <1>11, <2>1, <3>1 DEF Held
    <3>2. CASE e # n
      BY <1>4, <1>11, <2>1, <2>2, <3>2 DEF Held
    <3> QED
      BY <3>1, <3>2
  <2>4. \A e \in freed' : events'[e].count = 0
    BY <1>1, <1>2, <1>4, <2>1 DEF Held
  <2>5. \A e \in Nat \ DOMAIN events' : Holds(e)' = 0
    BY <1>4, <1>11, <2>1 DEF Held
  <2> QED
    BY <2>3, <2>4, <2>5 DEF Held
<1>13. Emitting'
  <2> SUFFICES ASSUME NEW x \in Emitters, emitter'[x].at # "none"
               PROVE  /\ work'[x] = <<>> /\ events'[emitter'[x].event].count = 1
                      /\ emitter'[x].at = "server" => events'[emitter'[x].event].reglist = <<>>
                      /\ emitter'[x].at = "mount" =>
                           \A er \in Range(events'[emitter'[x].event].reglist) : er.list = "server"
    BY DEF Emitting
  <2>1. CASE x = t
    BY <1>1, <1>3, <1>4, <1>6, <2>1
  <2>2. CASE x # t
    <3>1. emitter'[x] = emitter[x]
      BY <1>6, <2>2
    <3>2. emitter[x].event \in DOMAIN events
      BY <1>2, <3>1, EmitterHolds, HeldLives DEF IInv, Core
    <3> QED
      BY <1>1, <1>4, <3>1, <3>2 DEF IInv, Core, Emitting
  <2> QED
    BY <2>1, <2>2
<1>14. AtChain'
  <2>1. runner.at \notin {"pop", "ended"} => runner.event \in DOMAIN events
    BY <1>2, RunnerHolds, HeldLives DEF IInv, Core
  <2>2. \A i \in 1 .. Len(queue) : queue[i] \in DOMAIN events
    BY <1>2, QueueHolds, HeldLives DEF IInv, Core
  <2> QED
    BY <1>1, <1>4, <2>1, <2>2 DEF IInv, Core, AtChain
<1> QED
  BY <1>7, <1>9, <1>10, <1>12, <1>13, <1>14 DEF Core

----------------------------------------------------------------------------
(* How the holders of events change *)

(* What changes when one holder changes: an emitter, what a thread has to  *)
(* release, an event.                                                      *)
LEMMA EmittedChanged ==
    ASSUME TypeOK, TypeOK', NEW t \in Emitters, NEW x,
           \A q \in Emitters : q # t => Emitted'[q] = Emitted[q]
    PROVE  Total(Emitted', x) = Total(Emitted, x) - Times(Emitted[t], x) + Times(Emitted'[t], x)
<1>1. /\ Emitted \in [Emitters -> Seq(Nat)] /\ Emitted' \in [Emitters -> Seq(Nat)]
      /\ IsFiniteSet(Emitters)
  BY HolderTypes, HolderTypesNext, Distinct
<1>2. Changed(Emitted, Emitted', t)
  BY <1>1 DEF Changed
<1> QED
  BY <1>2, TotalChanged

LEMMA WorkChanged ==
    ASSUME TypeOK, TypeOK', NEW t \in Emitters \cup {Runner}, NEW x,
           \A q \in Emitters \cup {Runner} : q # t => work'[q] = work[q]
    PROVE  Total(work', x) = Total(work, x) - Times(work[t], x) + Times(work'[t], x)
<1>1. /\ work \in [Emitters \cup {Runner} -> Seq(Nat)] /\ work' \in [Emitters \cup {Runner} -> Seq(Nat)]
      /\ IsFiniteSet(Emitters \cup {Runner})
  BY HolderTypes, HolderTypesNext, Distinct
<1>2. Changed(work, work', t)
  BY <1>1 DEF Changed
<1> QED
  BY <1>2, TotalChanged

LEMMA HangingChanged ==
    ASSUME TypeOK, TypeOK', DOMAIN events' = DOMAIN events, NEW e \in DOMAIN events, NEW x,
           \A q \in DOMAIN events : q # e => events'[q].next = events[q].next
    PROVE  Total(Hanging', x)
             = Total(Hanging, x) - Times(events[e].next, x) + Times(events'[e].next, x)
<1>1. /\ Hanging \in [DOMAIN events -> Seq(Nat)] /\ Hanging' \in [DOMAIN events -> Seq(Nat)]
      /\ IsFiniteSet(DOMAIN events)
  BY HolderTypes, HolderTypesNext
<1>2. /\ Hanging[e] = events[e].next /\ Hanging'[e] = events'[e].next
      /\ \A q \in DOMAIN events : q # e => Hanging'[q] = Hanging[q]
  BY DEF Hanging
<1>3. Changed(Hanging, Hanging', e)
  BY <1>1, <1>2 DEF Changed
<1>4. Total(Hanging', x) = Total(Hanging, x) - Times(Hanging[e], x) + Times(Hanging'[e], x)
  BY <1>3, TotalChanged
<1> QED
  BY <1>2, <1>4

(* The references and the count of one event change alike. *)
LEMMA HeldNext ==
    ASSUME TypeOK, Held, DOMAIN events' = DOMAIN events, NEW e \in DOMAIN events, NEW d \in Int,
           \A x \in Nat : Holds(x)' = Holds(x) + (IF x = e THEN d ELSE 0),
           events'[e].count = events[e].count + d,
           \A x \in DOMAIN events : x # e => events'[x].count = events[x].count,
           freed' \subseteq freed \cup {e}, e \in freed' => events'[e].count = 0
    PROVE  Held'
<1>1. DOMAIN events \subseteq Nat /\ freed \subseteq DOMAIN events
  BY HolderTypes DEF TypeOK
<1>2. ASSUME NEW x \in DOMAIN events PROVE events'[x].count = Holds(x)'
  <2>1. events[x].count = Holds(x) /\ Holds(x) \in Nat
    BY HoldsType DEF Held
  <2>2. Holds(x)' = Holds(x) + (IF x = e THEN d ELSE 0)
    BY <1>1
  <2> QED
    BY <2>1, <2>2
<1>3. ASSUME NEW x \in freed' PROVE events'[x].count = 0
  BY <1>1 DEF Held
<1>4. ASSUME NEW x \in Nat \ DOMAIN events PROVE Holds(x)' = 0
  <2>1. Holds(x)' = Holds(x) + (IF x = e THEN d ELSE 0) /\ x # e /\ Holds(x) = 0
    BY DEF Held
  <2> QED
    BY <2>1
<1> QED
  BY <1>2, <1>3, <1>4 DEF Held

(* A reference goes from hand to hand. *)
LEMMA HeldSame ==
    ASSUME Held, UNCHANGED <<events, freed>>, \A x \in Nat : Holds(x)' = Holds(x), TypeOK
    PROVE  Held'
<1>1. DOMAIN events \subseteq Nat
  BY HolderTypes
<1> QED
  BY <1>1 DEF Held

(* The registrations and their counts stay. *)
LEMMA RegsKept ==
    ASSUME IInv, UNCHANGED <<version, heads, refcount, live, freed, slave>>,
           DOMAIN events' = DOMAIN events,
           \A e \in DOMAIN events : events'[e].reglist = events[e].reglist
    PROVE  Chained' /\ Counted' /\ Known'
<1>1. \A er : Referring(er)' = Referring(er)
  BY DEF Referring
<1>2. Chained' /\ Counted'
  BY <1>1 DEF IInv, Core, Chained, Counted
<1>3. Known'
  BY DEF IInv, Core, Known, Reading
<1> QED
  BY <1>2, <1>3

(* No other thread has the event that a thread emits. *)
LEMMA EmitterAlone ==
    ASSUME IInv, NEW t \in Emitters, emitter[t].at # "none"
    PROVE  /\ emitter[t].event \in DOMAIN events \ freed /\ events[emitter[t].event].count = 1
           /\ \A u \in Emitters : u # t /\ emitter[u].at # "none" =>
                emitter[u].event # emitter[t].event
           /\ \A u \in Emitters \cup {Runner} : work[u] # <<>> => ToRelease(u) # emitter[t].event
<1> DEFINE e == emitter[t].event
<1>1. TypeOK /\ Held /\ events[e].count = 1
  BY DEF IInv, Core, Emitting
<1>2. e \in Nat /\ Total(Emitted, e) > 0 /\ Holds(e) > 0
  BY <1>1, EmitterHolds
<1>3. e \in DOMAIN events \ freed /\ Holds(e) = 1
  BY <1>1, <1>2, HeldLives
<1> HIDE DEF e
<1>4. Total(Emitted, e) = 1 /\ Total(work, e) = 0
  <2>1. /\ Total(Emitted, e) \in Nat /\ Total(work, e) \in Nat /\ Total(Hanging, e) \in Nat
        /\ Times(queue, e) \in Nat /\ Times(Running, e) \in Nat
    BY <1>1, HoldsType
  <2> QED
    BY <1>2, <1>3, <2>1 DEF Holds
<1>5. ASSUME NEW u \in Emitters, u # t, emitter[u].at # "none", emitter[u].event = e PROVE FALSE
  <2>1. Emitted[t] = <<e>> /\ Emitted[u] = <<e>>
    BY <1>5 DEF Emitted, e
  <2>2. 1 \in Spots(Emitted[t], e) /\ 1 \in Spots(Emitted[u], e)
    BY <2>1 DEF Spots
  <2>3. <<t, 1>> \in Tokens(Emitted, e) /\ <<u, 1>> \in Tokens(Emitted, e)
    BY <2>2 DEF Tokens, Emitted
  <2>4. IsFiniteSet(Tokens(Emitted, e))
    BY <1>1, HolderTypes, Distinct, TotalType
  <2>5. PICK p : Tokens(Emitted, e) = {p}
    BY <1>4, <2>4, FS_Singleton DEF Total
  <2> QED
    BY <1>5, <2>3, <2>5
<1>6. ASSUME NEW u \in Emitters \cup {Runner}, work[u] # <<>>, ToRelease(u) = e PROVE FALSE
  BY <1>1, <1>4, <1>6, WorkHolds
<1> QED
  BY <1>1, <1>3, <1>5, <1>6 DEF e

(* event_push_reglist for the emitter t, and where it goes on *)
LEMMA PushReglistCore ==
    ASSUME IInv, NEW t \in Emitters, NEW list, NEW next \in {"mount", "push"},
           emitter[t].at \in {"server", "mount"}, emitter[t].at = list,
           next = "mount" => list = "server",
           PushReglist(t, list), EmitterAt(t, next),
           UNCHANGED <<version, heads, live, freed, queue, running, runner, work, slave>>
    PROVE  Core'
<1> DEFINE e == emitter[t].event
<1>1. /\ e \in DOMAIN events \ freed /\ events[e].count = 1
      /\ \A u \in Emitters : u # t /\ emitter[u].at # "none" => emitter[u].event # e
  BY EmitterAlone
<1>2. TypeOK /\ Held /\ Emitting /\ AtChain /\ Counted /\ Known /\ Chained
  BY DEF IInv, Core
<1>3. /\ emitter' \in [Emitters -> [at : {"none", "server", "mount", "push"}, event : Nat]]
      /\ emitter'[t].at = next /\ emitter'[t].event = e
      /\ \A x \in Emitters : x # t => emitter'[x] = emitter[x]
  BY <1>2 DEF EmitterAt, TypeOK
<1>4. Emitted' = Emitted /\ Running' = Running
  <2>1. \A x \in Emitters : emitter'[x].event = emitter[x].event
                            /\ (emitter'[x].at = "none" <=> emitter[x].at = "none")
    BY <1>3
  <2> QED
    BY <2>1 DEF Emitted, Running
<1>5. DOMAIN events = 1 .. Len(events) /\ events[e] \in Event
  BY <1>1, <1>2, HolderTypes
<1>6. events[e].reglist \in Seq(Firsts)
  BY <1>5 DEF Event
<1>7. CASE UNCHANGED <<events, refcount>>
  <2>1. TypeOK'
    BY <1>2, <1>3, <1>7 DEF TypeOK
  <2>2. Chained' /\ Counted' /\ Known'
    BY <1>7, RegsKept
  <2>3. Held'
    <3>1. Hanging' = Hanging
      BY <1>7 DEF Hanging
    <3>2. \A x : Holds(x)' = Holds(x)
      BY <1>4, <3>1 DEF Holds
    <3> QED
      BY <1>2, <1>7, <3>2, HeldSame
  <2>4. Emitting'
    <3> SUFFICES ASSUME NEW x \in Emitters, emitter'[x].at # "none"
                 PROVE  /\ work'[x] = <<>> /\ events'[emitter'[x].event].count = 1
                        /\ emitter'[x].at = "server" => events'[emitter'[x].event].reglist = <<>>
                        /\ emitter'[x].at = "mount" =>
                             \A er \in Range(events'[emitter'[x].event].reglist) : er.list = "server"
      BY DEF Emitting
    <3>1. CASE x = t
      <4>1. next = "mount" => events[e].reglist = <<>>
        BY <1>2 DEF Emitting
      <4>2. Range(<<>>) = {}
        BY DEF Range
      <4> QED
        BY <1>2, <1>3, <1>7, <3>1, <4>1, <4>2 DEF Emitting
    <3>2. CASE x # t
      BY <1>2, <1>3, <1>7, <3>2 DEF Emitting
    <3> QED
      BY <3>1, <3>2
  <2>5. AtChain'
    BY <1>2, <1>7 DEF AtChain
  <2> QED
    BY <2>1, <2>2, <2>3, <2>4, <2>5 DEF Core
<1>8. CASE ~UNCHANGED <<events, refcount>>
  <2>1. PICK er \in heads : /\ er.version = version /\ er.list = list /\ AddRef(er)
                            /\ events' = [events EXCEPT ![e].reglist = Append(@, er)]
    BY <1>8 DEF PushReglist
  <2>2. er \in Firsts /\ er \in Reg /\ refcount[er] > 0
    BY HeadCounted DEF Firsts
  <2> DEFINE l == events[e].reglist
             m == Append(l, er)
             chained == [events[e] EXCEPT !.reglist = m]
  <2>3. events' = [events EXCEPT ![e] = chained]
    BY <2>1
  <2>4. /\ m \in Seq(Firsts) /\ Len(m) = Len(l) + 1 /\ Len(l) \in Nat /\ m[Len(l) + 1] = er
        /\ DOMAIN l = 1 .. Len(l) /\ DOMAIN m = 1 .. Len(m) /\ \A i \in 1 .. Len(l) : m[i] = l[i]
    <3>1. l \in Seq(Firsts) /\ er \in Firsts
      BY <1>6, <2>2
    <3> HIDE DEF l
    <3>2. /\ m \in Seq(Firsts) /\ Len(m) = Len(l) + 1 /\ Len(l) \in Nat /\ m[Len(l) + 1] = er
          /\ \A i \in 1 .. Len(l) : m[i] = l[i]
      BY <3>1, AppendProperties
    <3> QED
      BY <3>1, <3>2
  <2> HIDE DEF m
  <2>5. /\ chained \in Event /\ chained.reglist = m
        /\ chained.next = events[e].next /\ chained.count = events[e].count
    BY <1>5, <2>4 DEF Event
  <2> HIDE DEF chained
  <2>6. /\ events' \in Seq(Event) /\ DOMAIN events' = DOMAIN events /\ events'[e] = chained
        /\ \A x \in DOMAIN events : x # e => events'[x] = events[x]
        /\ Hanging' = Hanging
    BY <1>1, <1>2, <2>5, <2>3, EventChanged
  <2>7. refcount' = [refcount EXCEPT ![er] = @ + 1] /\ refcount \in [Reg -> Nat]
    BY <1>2, <2>1 DEF AddRef, TypeOK
  <2>8. TypeOK'
    BY <1>2, <1>3, <2>6, <2>7, <2>2 DEF TypeOK
  <2>9. Range(events'[e].reglist) = Range(events[e].reglist) \cup {er}
    <3>1. Range(m) = Range(l) \cup {er}
      <4>1. \A i \in DOMAIN m : i \in DOMAIN l \/ i = Len(l) + 1
        <5> HIDE DEF l
        <5> QED
          BY <2>4
      <4>2. Len(l) + 1 \in DOMAIN m /\ \A i \in DOMAIN l : i \in DOMAIN m
        BY <2>4
      <4> QED
        BY <2>4, <4>1, <4>2 DEF Range
    <3> QED
      BY <2>5, <2>6, <3>1
  <2>10. er \notin Range(events[e].reglist)
    <3>1. CASE emitter[t].at = "server"
      BY <1>2, <3>1 DEF Emitting, Range
    <3>2. CASE emitter[t].at = "mount"
      BY <1>2, <2>1, <3>2 DEF Emitting
    <3> QED
      BY <3>1, <3>2
  <2>11. Chained'
    <3>1. \A x \in Reg : FirstIn(x) \in Reg
      BY FirstOfReg DEF Firsts
    <3>2. \A x \in Reg : refcount[x] \in Nat /\ refcount'[x] = IF x = er THEN refcount[x] + 1 ELSE refcount[x]
      BY <2>7
    <3>3. \A x \in Reg : refcount'[x] > 0 <=> refcount[x] > 0
      BY <2>2, <3>2
    <3>4. er.no = 1
      BY <2>2 DEF Firsts
    <3> QED
      BY <1>2, <3>1, <3>2, <3>3, <3>4 DEF Chained
  <2>12. Counted'
    <3> SUFFICES ASSUME NEW y \in Firsts
                 PROVE  refcount'[y] = (IF y \in heads THEN 1 ELSE 0) + Cardinality(Referring(y)')
      BY DEF Counted
    <3> DEFINE c == Cardinality(Referring(y))
    <3>1. y \in Reg /\ IsFiniteSet(Referring(y)) /\ c \in Nat
      BY <1>2, ReferringType DEF Firsts
    <3>2. refcount[y] = (IF y \in heads THEN 1 ELSE 0) + c
      BY <1>2 DEF Counted
    <3>3. CASE y = er
      <4>1. Referring(y)' = Referring(y) \cup {e} /\ e \notin Referring(y)
        BY <1>1, <2>6, <2>9, <2>10, <3>3 DEF Referring
      <4>2. Cardinality(Referring(y)') = c + 1
        BY <3>1, <4>1, FS_AddElement
      <4>3. refcount'[y] = refcount[y] + 1
        BY <2>7, <3>1, <3>3
      <4> HIDE DEF c
      <4> QED
        BY <3>1, <3>2, <4>2, <4>3
    <3>4. CASE y # er
      <4>1. Referring(y)' = Referring(y)
        BY <1>1, <2>6, <2>9, <3>4 DEF Referring
      <4> QED
        BY <2>7, <3>1, <3>2, <3>4, <4>1
    <3> QED
      BY <3>3, <3>4
  <2>13. Known'
    <3>1. \A x \in DOMAIN events : \A y \in Range(events'[x].reglist) : y.version <= version
      <4>1. version <= version
        BY <1>2 DEF TypeOK
      <4> QED
        BY <1>2, <2>1, <2>6, <2>9, <4>1 DEF Known
    <3> QED
      BY <1>2, <2>6, <3>1 DEF Known, Reading
  <2>14. Held'
    <3>1. \A x : Holds(x)' = Holds(x)
      BY <1>4, <2>6 DEF Holds
    <3>2. \A x \in DOMAIN events : events'[x].count = events[x].count
      BY <2>5, <2>6
    <3>3. DOMAIN events \subseteq Nat
      BY <1>5
    <3> QED
      BY <1>2, <2>6, <3>1, <3>2, <3>3 DEF Held, TypeOK
  <2>15. Emitting'
    <3> SUFFICES ASSUME NEW x \in Emitters, emitter'[x].at # "none"
                 PROVE  /\ work'[x] = <<>> /\ events'[emitter'[x].event].count = 1
                        /\ emitter'[x].at = "server" => events'[emitter'[x].event].reglist = <<>>
                        /\ emitter'[x].at = "mount" =>
                             \A y \in Range(events'[emitter'[x].event].reglist) : y.list = "server"
      BY DEF Emitting
    <3>1. CASE x = t
      <4>1. next = "mount" => \A y \in Range(events'[e].reglist) : y.list = "server"
        <5>1. next = "mount" => Range(events[e].reglist) = {}
          BY <1>2 DEF Emitting, Range
        <5> QED
          BY <2>1, <2>9, <5>1
      <4>2. events'[e].count = 1 /\ work[t] = <<>>
        BY <1>1, <1>2, <2>5, <2>6 DEF Emitting
      <4> QED
        BY <1>3, <3>1, <4>1, <4>2
    <3>2. CASE x # t
      <4>1. emitter'[x] = emitter[x] /\ emitter[x].event \in DOMAIN events /\ emitter[x].event # e
        BY <1>1, <1>3, <3>2, EmitterAlone
      <4> QED
        BY <1>2, <2>6, <4>1 DEF Emitting
    <3> QED
      BY <3>1, <3>2
  <2>16. AtChain'
    <3>1. \A x \in DOMAIN events : events[x].reglist \in Seq(Firsts) /\ events'[x].reglist \in Seq(Firsts)
      <4>1. \A x \in DOMAIN events : events[x] \in Event
        BY <1>2, HolderTypes
      <4>2. \A x \in DOMAIN events : events'[x] \in Event
        BY <2>5, <2>6, <4>1
      <4> QED
        BY <4>1, <4>2 DEF Event
    <3>2. \A x \in DOMAIN events : /\ Len(events'[x].reglist) >= Len(events[x].reglist)
                                   /\ \A i \in 1 .. Len(events[x].reglist) :
                                        events'[x].reglist[i] = events[x].reglist[i]
      <4>1. ASSUME NEW x \in DOMAIN events, x # e
            PROVE  events'[x].reglist = events[x].reglist /\ Len(events[x].reglist) \in Nat
        BY <2>6, <3>1, <4>1
      <4>2. events'[e].reglist = m
        BY <2>5, <2>6
      <4> QED
        BY <2>4, <4>1, <4>2
    <3>3. runner.at \notin {"pop", "ended"} => runner.event \in DOMAIN events
      BY <1>2, RunnerHolds, HeldLives
    <3>4. \A i \in 1 .. Len(queue) : queue[i] \in DOMAIN events
      BY <1>2, QueueHolds, HeldLives
    <3>5. ASSUME NEW i \in 1 .. Len(queue) PROVE events'[queue[i]].reglist # <<>>
      <4>1. events[queue[i]].reglist # <<>>
        BY <1>2 DEF AtChain
      <4>2. Len(events[queue[i]].reglist) > 0
        BY <3>1, <3>4, <4>1
      <4> QED
        BY <3>1, <3>2, <3>4, <4>2
    <3>6. runner.at \in {"lock", "config", "url", "next"} =>
             runner.list \in 1 .. Len(events'[runner.event].reglist)
             /\ events'[runner.event].reglist[runner.list] = events[runner.event].reglist[runner.list]
      BY <1>2, <3>1, <3>2, <3>3 DEF AtChain
    <3> QED
      BY <1>2, <3>5, <3>6 DEF AtChain
  <2> QED
    BY <2>8, <2>11, <2>12, <2>13, <2>14, <2>15, <2>16 DEF Core
<1> QED
  BY <1>7, <1>8

(* event_emit and event_push: the reference goes to the release, and the   *)
(* queue takes another.                                                    *)
LEMMA EmitPushCore ==
    ASSUME IInv, NEW t \in Emitters, EmitPush(t), UNCHANGED slave
    PROVE  Core'
<1> DEFINE e == emitter[t].event
           pushes == queue' # queue
           d == IF pushes THEN 1 ELSE 0
           none == [at |-> "none", event |-> 0]
           one == <<e>>
<1>1. emitter[t].at = "push" /\ TypeOK /\ Held /\ Emitting /\ AtChain
  BY DEF EmitPush, IInv, Core
<1>2. /\ e \in DOMAIN events \ freed /\ events[e].count = 1
      /\ \A u \in Emitters : u # t /\ emitter[u].at # "none" => emitter[u].event # e
  BY <1>1, EmitterAlone
<1>3. /\ UNCHANGED <<version, heads, refcount, live, freed, running, runner>>
      /\ emitter' = [emitter EXCEPT ![t] = none] /\ work' = [work EXCEPT ![t] = one]
  BY DEF EmitPush, configVars, regVars
<1>4. DOMAIN events = 1 .. Len(events) /\ Len(events) \in Nat /\ events[e] \in Event /\ e \in Nat
      /\ events \in Seq(Event) /\ queue \in Seq(Nat) /\ Len(queue) \in Nat /\ one \in Seq(Nat)
  <2>1. DOMAIN events = 1 .. Len(events) /\ Len(events) \in Nat /\ events[e] \in Event
    BY <1>1, <1>2, HolderTypes
  <2>2. events \in Seq(Event) /\ queue \in Seq(Nat) /\ e \in Nat
    BY <1>1 DEF TypeOK
  <2> QED
    BY <2>1, <2>2
<1>5. /\ events' \in Seq(Event) /\ DOMAIN events' = DOMAIN events
      /\ events'[e].count = events[e].count + d
      /\ \A x \in DOMAIN events : x # e => events'[x] = events[x]
      /\ \A x \in DOMAIN events : events'[x].reglist = events[x].reglist
      /\ Hanging' = Hanging
  <2>1. CASE pushes
    <3> DEFINE c == events[e].count + 1
               new == [events[e] EXCEPT !.count = c]
    <3>1. events' = [events EXCEPT ![e] = new]
      BY <2>1 DEF EmitPush
    <3>2. c \in Nat /\ c = events[e].count + d
      BY <1>2, <2>1
    <3> HIDE DEF c, d
    <3>3. new \in Event /\ new.count = c /\ new.next = events[e].next
          /\ new.reglist = events[e].reglist
      BY <1>4, <3>2 DEF Event
    <3> HIDE DEF new
    <3>4. /\ events' \in Seq(Event) /\ DOMAIN events' = DOMAIN events /\ events'[e] = new
          /\ \A x \in DOMAIN events : x # e => events'[x] = events[x]
          /\ Hanging' = Hanging
      BY <1>1, <1>2, <3>1, <3>3, EventChanged
    <3> QED
      BY <3>2, <3>3, <3>4
  <2>2. CASE ~pushes
    <3>1. events' = events
      <4>1. queue' # Append(queue, e)
        BY <1>4, <2>2
      <4> QED
        BY <4>1 DEF EmitPush
    <3>2. events[e].count = events[e].count + 0
      BY <1>2
    <3> QED
      BY <1>4, <2>2, <3>1, <3>2 DEF Hanging
  <2> QED
    BY <2>1, <2>2
<1>6. pushes => queue' = Append(queue, e) /\ events[e].reglist # <<>>
  BY DEF EmitPush
<1>7. queue' \in Seq(Nat)
  <2>1. queue \in Seq(Nat) /\ e \in Nat
    BY <1>4
  <2> HIDE DEF e
  <2>2. Append(queue, e) \in Seq(Nat)
    BY <2>1
  <2> QED
    BY <1>6, <2>1, <2>2
<1>8. /\ emitter' \in [Emitters -> [at : {"none", "server", "mount", "push"}, event : Nat]]
      /\ emitter'[t].at = "none" /\ \A x \in Emitters : x # t => emitter'[x] = emitter[x]
  BY <1>1, <1>3 DEF TypeOK
<1>9. /\ work' \in [Emitters \cup {Runner} -> Seq(Nat)] /\ work'[t] = one /\ work[t] = <<>>
      /\ \A x \in Emitters \cup {Runner} : x # t => work'[x] = work[x]
  BY <1>1, <1>3, <1>4 DEF TypeOK, Emitting
<1>10. TypeOK'
  BY <1>1, <1>3, <1>5, <1>7, <1>8, <1>9 DEF TypeOK
<1>11. Chained' /\ Counted' /\ Known'
  BY <1>3, <1>5, RegsKept
<1> HIDE DEF pushes
<1>12. ASSUME NEW x \in Nat PROVE Holds(x)' = Holds(x) + (IF x = e THEN d ELSE 0)
  <2> DEFINE is == IF x = e THEN 1 ELSE 0
  <2>1. Times(one, x) = is /\ Times(<<>>, x) = 0
    BY TimesShort
  <2>2. Emitted[t] = one /\ Emitted'[t] = <<>> /\ \A q \in Emitters : q # t => Emitted'[q] = Emitted[q]
    BY <1>1, <1>8 DEF Emitted
  <2> HIDE DEF one, e
  <2>3. Total(Emitted', x) = Total(Emitted, x) - is
    <3>1. Total(Emitted', x) = Total(Emitted, x) - Times(Emitted[t], x) + Times(Emitted'[t], x)
      BY <1>1, <1>10, <2>2, EmittedChanged
    <3>2. Total(Emitted, x) \in Nat
      BY <1>1, HoldsType
    <3> QED
      BY <2>1, <2>2, <3>1, <3>2
  <2>4. Total(work', x) = Total(work, x) + is
    <3>1. Total(work', x) = Total(work, x) - Times(work[t], x) + Times(work'[t], x)
      BY <1>1, <1>9, <1>10, WorkChanged
    <3>2. Total(work, x) \in Nat
      BY <1>1, HoldsType
    <3> QED
      BY <1>9, <2>1, <3>1, <3>2
  <2>5. Times(queue', x) = Times(queue, x) + (IF x = e THEN d ELSE 0)
    <3>1. CASE pushes
      <4>1. queue \in Seq(Nat) /\ e \in Nat
        BY <1>4
      <4>2. Times(Append(queue, e), x) = Times(queue, x) + (IF x = e THEN 1 ELSE 0)
        BY <4>1, TimesAppend
      <4> QED
        BY <1>6, <3>1, <4>2
    <3>2. CASE ~pushes
      <4>1. Times(queue, x) \in Nat
        BY <1>1, HoldsType
      <4> QED
        BY <3>2, <4>1 DEF pushes
    <3> QED
      BY <3>1, <3>2
  <2>6. Running' = Running
    BY <1>3 DEF Running
  <2>7. /\ Total(Emitted, x) \in Nat /\ Total(work, x) \in Nat /\ Total(Hanging, x) \in Nat
        /\ Times(queue, x) \in Nat /\ Times(Running, x) \in Nat /\ d \in Nat
    BY <1>1, HoldsType
  <2> HIDE DEF d
  <2> QED
    BY <1>5, <2>3, <2>4, <2>5, <2>6, <2>7 DEF Holds
<1>13. Held'
  <2>1. d \in Int
    OBVIOUS
  <2>2. \A x \in DOMAIN events : x # e => events'[x].count = events[x].count
    BY <1>5
  <2> HIDE DEF d, e
  <2> QED
    BY <1>1, <1>2, <1>3, <1>5, <1>12, <2>1, <2>2, HeldNext
<1>14. Emitting'
  <2> SUFFICES ASSUME NEW x \in Emitters, emitter'[x].at # "none"
               PROVE  /\ work'[x] = <<>> /\ events'[emitter'[x].event].count = 1
                      /\ emitter'[x].at = "server" => events'[emitter'[x].event].reglist = <<>>
                      /\ emitter'[x].at = "mount" =>
                           \A er \in Range(events'[emitter'[x].event].reglist) : er.list = "server"
    BY DEF Emitting
  <2>1. x # t /\ emitter'[x] = emitter[x] /\ work'[x] = work[x]
    BY <1>8, <1>9
  <2>2. emitter[x].event # e /\ emitter[x].event \in DOMAIN events
    BY <1>2, <2>1, EmitterAlone
  <2> QED
    BY <1>1, <1>5, <2>1, <2>2 DEF Emitting
<1>15. AtChain'
  <2>1. runner.at \notin {"pop", "ended"} => runner.event \in DOMAIN events
    BY <1>1, RunnerHolds, HeldLives
  <2>2. \A i \in 1 .. Len(queue) : queue[i] \in DOMAIN events
    BY <1>1, QueueHolds, HeldLives
  <2>3. work'[Runner] = work[Runner]
    BY <1>9, Distinct
  <2>4. ASSUME NEW i \in 1 .. Len(queue') PROVE events'[queue'[i]].reglist # <<>>
    <3>1. CASE i \in 1 .. Len(queue) /\ queue'[i] = queue[i]
      BY <1>1, <1>5, <2>2, <3>1 DEF AtChain
    <3>2. CASE ~(i \in 1 .. Len(queue) /\ queue'[i] = queue[i])
      <4>1. pushes
        BY <3>2 DEF pushes
      <4>2. queue'[i] = e
        BY <1>4, <1>6, <3>2, <4>1
      <4> QED
        BY <1>2, <1>5, <1>6, <4>1, <4>2
    <3> QED
      BY <3>1, <3>2
  <2> QED
    BY <1>1, <1>3, <1>5, <2>1, <2>3, <2>4 DEF AtChain
<1> QED
  BY <1>10, <1>11, <1>13, <1>14, <1>15 DEF Core

----------------------------------------------------------------------------
(* Releases *)

(* The count of an event, and the events that hang on it, in event_release *)
LEMMA CountDown ==
    ASSUME TypeOK, NEW e \in DOMAIN events, NEW c \in Nat, NEW hang \in Seq(Nat),
           events' = [events EXCEPT ![e] = [events[e] EXCEPT !.count = c, !.next = hang]]
    PROVE  /\ events' \in Seq(Event) /\ DOMAIN events' = DOMAIN events
           /\ events'[e].count = c /\ events'[e].next = hang
           /\ \A x \in DOMAIN events : x # e => events'[x] = events[x]
           /\ \A x \in DOMAIN events : events'[x].reglist = events[x].reglist
<1> DEFINE new == [events[e] EXCEPT !.count = c, !.next = hang]
<1>1. events[e] \in Event
  BY HolderTypes
<1>2. /\ new \in Event /\ new.count = c /\ new.next = hang /\ new.reglist = events[e].reglist
  BY <1>1 DEF Event
<1> HIDE DEF new
<1>3. /\ events' \in Seq(Event) /\ DOMAIN events' = DOMAIN events /\ events'[e] = new
      /\ \A x \in DOMAIN events : x # e => events'[x] = events[x]
  BY <1>2, EventChanged DEF new
<1> QED
  BY <1>2, <1>3

(* One reference less to the event, and what follows it in the work of the *)
(* thread is still to be released: by the thread, or with the event.       *)
HandsOver(t, e) ==
    /\ work[t] # <<>> /\ e = ToRelease(t) /\ e \in DOMAIN events /\ DOMAIN events' = DOMAIN events
    /\ \A x \in DOMAIN events : x # e => events'[x] = events[x]
    /\ \A q \in Emitters \cup {Runner} : q # t => work'[q] = work[q]
    /\ \/ work'[t] = events[e].next \o Tail(work[t]) /\ events'[e].next = <<>>
       \/ work'[t] = <<>> /\ events'[e].next = events[e].next \o Tail(work[t])
    /\ UNCHANGED <<emitter, queue, runner>>

(* event_release ends with one reference less. *)
LEMMA ReleaseEndHolds ==
    ASSUME TypeOK, TypeOK', NEW t \in Emitters \cup {Runner}, NEW e, HandsOver(t, e),
           NEW x \in Nat
    PROVE  Holds(x)' = Holds(x) + (IF x = e THEN -1 ELSE 0)
<1> USE DEF HandsOver
<1> DEFINE is == IF x = e THEN 1 ELSE 0
           rest == Tail(work[t])
           hang == events[e].next
           both == hang \o rest
<1>1. work[t] \in Seq(Nat) /\ hang \in Seq(Nat)
  BY HolderTypes DEF TypeOK, Event
<1>2. rest \in Seq(Nat) /\ Times(work[t], x) = Times(rest, x) + is
  BY <1>1, TimesTail DEF ToRelease
<1>3. Times(both, x) = Times(hang, x) + Times(rest, x)
  <2> HIDE DEF rest, hang
  <2> QED
    BY <1>1, <1>2, TimesConcat
<1>4. Times(hang, x) \in Nat /\ Times(rest, x) \in Nat /\ Times(<<>>, x) = 0
  <2> HIDE DEF rest, hang
  <2> QED
    BY <1>1, <1>2, TimesType, TimesShort
<1>5. Total(work', x) = Total(work, x) - Times(work[t], x) + Times(work'[t], x)
  BY WorkChanged
<1>6. Total(Hanging', x) = Total(Hanging, x) - Times(hang, x) + Times(events'[e].next, x)
  BY HangingChanged
<1>7. Emitted' = Emitted /\ Running' = Running
  BY DEF Emitted, Running
<1>8. /\ Total(Emitted, x) \in Nat /\ Total(work, x) \in Nat /\ Total(Hanging, x) \in Nat
      /\ Times(queue, x) \in Nat /\ Times(Running, x) \in Nat
  BY HoldsType
<1>9. Times(work'[t], x) + Times(events'[e].next, x) = Times(hang, x) + Times(rest, x)
      /\ Times(work'[t], x) \in Nat /\ Times(events'[e].next, x) \in Nat
  <2>1. \/ work'[t] = both /\ events'[e].next = <<>>
        \/ work'[t] = <<>> /\ events'[e].next = both
    OBVIOUS
  <2> HIDE DEF both, rest, hang
  <2> QED
    BY <1>3, <1>4, <2>1
<1>10. Total(work', x) + Total(Hanging', x) = Total(work, x) + Total(Hanging, x) - is
       /\ is \in Nat
  <2>1. is \in Nat
    OBVIOUS
  <2> DEFINE a == Total(work, x)
             b == Total(Hanging, x)
             r == Times(rest, x)
             h == Times(hang, x)
             u == Times(work'[t], x)
             v == Times(events'[e].next, x)
  <2>2. /\ a \in Nat /\ b \in Nat /\ r \in Nat /\ h \in Nat /\ u \in Nat /\ v \in Nat
        /\ u + v = h + r
    BY <1>4, <1>8, <1>9
  <2>3. Total(work', x) = a - (r + is) + u /\ Total(Hanging', x) = b - h + v
    BY <1>2, <1>5, <1>6
  <2> HIDE DEF a, b, r, h, u, v, is
  <2>4. (a - (r + is) + u) + (b - h + v) = a + b - is
    BY <2>1, <2>2
  <2> QED
    BY <2>1, <2>3, <2>4 DEF a, b
<1>11. Total(work', x) \in Nat /\ Total(Hanging', x) \in Nat
  <2>1. Total(work', x) \in Nat
    BY HolderTypesNext, Distinct, TotalType
  <2>2. Total(Hanging', x) \in Nat
    BY HolderTypes, HolderTypesNext, TotalType
  <2> QED
    BY <2>1, <2>2
<1>12. Holds(x)' = Holds(x) - is
  <2>1. Holds(x)' = Total(Emitted, x) + Total(work', x) + Total(Hanging', x) + Times(queue, x)
                    + Times(Running, x)
    BY <1>7 DEF Holds
  <2> DEFINE a == Total(work, x) + Total(Hanging, x)
             b == Total(work', x) + Total(Hanging', x)
             c == Total(Emitted, x)
             d == Times(queue, x) + Times(Running, x)
  <2>2. a \in Nat /\ b \in Nat /\ c \in Nat /\ d \in Nat /\ is \in Nat /\ b = a - is
    BY <1>8, <1>10, <1>11
  <2>3. Holds(x)' = c + b + d
    BY <1>8, <1>11, <2>1
  <2>4. Holds(x) = c + a + d
    BY <1>8 DEF Holds
  <2> HIDE DEF is, a, b, c, d
  <2> QED
    BY <2>2, <2>3, <2>4
<1>13. Holds(x) \in Nat
  BY HoldsType
<1> QED
  BY <1>12, <1>13

(* The references stay exact when event_release ends. *)
LEMMA ReleaseEndCore ==
    ASSUME IInv, NEW t \in Emitters \cup {Runner}, ReleaseEnd(t), UNCHANGED slave
    PROVE  Core'
<1> DEFINE e == ToRelease(t)
           last == events[e].count = 1
           both == events[e].next \o Tail(work[t])
           hang == IF last THEN <<>> ELSE both
           left == IF last THEN both ELSE <<>>
           c == events[e].count - 1
           regs == Range(events[e].reglist)
<1>1. work[t] # <<>> /\ TypeOK /\ Held /\ Emitting /\ AtChain /\ Counted /\ Known /\ Chained
  BY DEF ReleaseEnd, IInv, Core
<1>2. e \in Nat /\ Holds(e) > 0
  BY <1>1, WorkHolds
<1>3. e \in DOMAIN events \ freed /\ events[e].count = Holds(e) /\ Holds(e) \in Nat
  BY <1>1, <1>2, HeldLives, HoldsType
<1>4. c \in Nat /\ events[e].count = c + 1 /\ (last => c = 0)
  BY <1>2, <1>3
<1>5. /\ events[e].next \in Seq(Nat) /\ Tail(work[t]) \in Seq(Nat) /\ work[t] \in Seq(Nat)
      /\ events[e].reglist \in Seq(Firsts)
  <2>1. events[e] \in Event /\ work[t] \in Seq(Nat)
    BY <1>1, <1>3, HolderTypes DEF TypeOK
  <2> QED
    BY <1>1, <2>1 DEF Event
<1>6. both \in Seq(Nat)
  BY <1>5
<1>7. hang \in Seq(Nat) /\ left \in Seq(Nat)
  BY <1>6
<1>8. /\ UNCHANGED <<version, heads, queue, running, emitter, runner>>
      /\ events' = [events EXCEPT ![e] = [events[e] EXCEPT !.count = c, !.next = hang]]
      /\ work' = [work EXCEPT ![t] = left]
      /\ IF last THEN ReleaseRegistrations(regs) /\ freed' = freed \cup {e}
         ELSE UNCHANGED <<regVars, freed>>
  <2>1. UNCHANGED <<version, heads, queue, running, emitter, runner>>
    BY DEF ReleaseEnd, ReleaseKeeps, configVars, queueVars
  <2>2. events' = [events EXCEPT ![e] = [events[e] EXCEPT !.count = c, !.next = hang]]
    <3>1. events' = [events EXCEPT ![e].count = c, ![e].next = hang]
      BY DEF ReleaseEnd
    <3>2. DOMAIN events = 1 .. Len(events) /\ events[e] \in Event
      BY <1>1, <1>3, HolderTypes
    <3> HIDE DEF c, hang, e
    <3> QED
      BY <3>1, <3>2 DEF Event
  <2>3. work' = [work EXCEPT ![t] = left]
    BY DEF ReleaseEnd
  <2>4. IF last THEN ReleaseRegistrations(regs) /\ freed' = freed \cup {e}
        ELSE UNCHANGED <<regVars, freed>>
    BY DEF ReleaseEnd
  <2> QED
    BY <2>1, <2>2, <2>3, <2>4
<1> HIDE DEF hang, c, left
<1>9. /\ events' \in Seq(Event) /\ DOMAIN events' = DOMAIN events
      /\ events'[e].count = c /\ events'[e].next = hang
      /\ \A x \in DOMAIN events : x # e => events'[x] = events[x]
      /\ \A x \in DOMAIN events : events'[x].reglist = events[x].reglist
  BY <1>1, <1>3, <1>4, <1>7, <1>8, CountDown
<1>10. /\ work' \in [Emitters \cup {Runner} -> Seq(Nat)] /\ work'[t] = left
       /\ \A x \in Emitters \cup {Runner} : x # t => work'[x] = work[x]
  BY <1>1, <1>7, <1>8 DEF TypeOK
<1>11. regs \subseteq Firsts /\ \A er \in regs : refcount[er] > 0
  BY <1>1, <1>3, ReglistCounted
<1>12. /\ Chained' /\ refcount' \in [Reg -> Nat] /\ live' \subseteq Reg
       /\ \A er \in Firsts : refcount'[er] = refcount[er] - (IF last /\ er \in regs THEN 1 ELSE 0)
  <2>1. refcount \in [Reg -> Nat] /\ live \subseteq Reg
    BY <1>1 DEF TypeOK
  <2>2. CASE last
    <3>1. /\ Chained' /\ refcount' \in [Reg -> Nat]
          /\ \A er \in Firsts : refcount'[er] = refcount[er] - (IF er \in regs THEN 1 ELSE 0)
      <4>1. ReleaseRegistrations(regs)
        BY <1>8, <2>2
      <4> HIDE DEF regs
      <4> QED
        BY <1>1, <1>11, <2>1, <4>1, RegistrationsReleased
    <3>2. live' \subseteq Reg
      BY <3>1 DEF Chained
    <3> QED
      BY <2>2, <3>1, <3>2
  <2>3. CASE ~last
    <3>1. refcount' = refcount /\ live' = live
      BY <1>8, <2>3 DEF regVars
    <3>2. Chained'
      BY <1>1, <3>1 DEF Chained
    <3>3. \A er \in Firsts : refcount[er] = refcount[er] - 0
      BY <2>1 DEF Firsts
    <3> QED
      BY <2>1, <2>3, <3>1, <3>2, <3>3
  <2> QED
    BY <2>2, <2>3
<1>13. freed' = freed \cup (IF last THEN {e} ELSE {})
  BY <1>8
<1>14. TypeOK'
  BY <1>1, <1>3, <1>8, <1>9, <1>10, <1>12, <1>13 DEF TypeOK
<1>15. Counted'
  <2> SUFFICES ASSUME NEW y \in Firsts
               PROVE  refcount'[y] = (IF y \in heads THEN 1 ELSE 0) + Cardinality(Referring(y)')
    BY <1>8 DEF Counted
  <2> DEFINE n == Cardinality(Referring(y))
  <2>1. IsFiniteSet(Referring(y)) /\ n \in Nat
    BY <1>1, ReferringType
  <2>2. refcount[y] = (IF y \in heads THEN 1 ELSE 0) + n
    BY <1>1 DEF Counted
  <2>3. CASE last /\ y \in regs
    <3>1. Referring(y)' = Referring(y) \ {e} /\ e \in Referring(y)
      BY <1>3, <1>9, <1>13, <2>3 DEF Referring
    <3>2. Cardinality(Referring(y)') = n - 1
      BY <2>1, <3>1, FS_RemoveElement
    <3>3. refcount'[y] = refcount[y] - 1
      BY <1>12, <2>3
    <3> HIDE DEF n
    <3> QED
      BY <2>1, <2>2, <3>2, <3>3
  <2>4. CASE ~(last /\ y \in regs)
    <3>1. Referring(y)' = Referring(y)
      BY <1>3, <1>9, <1>13, <2>4 DEF Referring
    <3>2. refcount'[y] = refcount[y] - 0
      BY <1>12, <2>4
    <3>3. refcount'[y] = (IF y \in heads THEN 1 ELSE 0) + n
      <4> HIDE DEF n
      <4> QED
        BY <2>1, <2>2, <3>2
    <3> QED
      BY <3>1, <3>3
  <2> QED
    BY <2>3, <2>4
<1>16. Known'
  BY <1>1, <1>8, <1>9 DEF Known, Reading
<1>17. Held'
  <2>1. ASSUME NEW x \in Nat PROVE Holds(x)' = Holds(x) + (IF x = e THEN -1 ELSE 0)
    <3>1. \/ work'[t] = events[e].next \o Tail(work[t]) /\ events'[e].next = <<>>
          \/ work'[t] = <<>> /\ events'[e].next = events[e].next \o Tail(work[t])
      BY <1>9, <1>10 DEF hang, left
    <3>2. HandsOver(t, e)
      BY <1>1, <1>3, <1>8, <1>9, <1>10, <3>1 DEF HandsOver
    <3> HIDE DEF e
    <3> QED
      BY <1>1, <1>14, <3>2, ReleaseEndHolds
  <2>2. events'[e].count = events[e].count + (-1)
    BY <1>4, <1>9
  <2>3. \A x \in DOMAIN events : x # e => events'[x].count = events[x].count
    BY <1>9
  <2>4. freed' \subseteq freed \cup {e} /\ (e \in freed' => events'[e].count = 0)
    BY <1>3, <1>4, <1>9, <1>13
  <2>5. -1 \in Int
    OBVIOUS
  <2> HIDE DEF e
  <2> QED
    BY <1>1, <1>3, <1>9, <2>1, <2>2, <2>3, <2>4, <2>5, HeldNext
<1>18. Emitting'
  <2> SUFFICES ASSUME NEW x \in Emitters, emitter'[x].at # "none"
               PROVE  /\ work'[x] = <<>> /\ events'[emitter'[x].event].count = 1
                      /\ emitter'[x].at = "server" => events'[emitter'[x].event].reglist = <<>>
                      /\ emitter'[x].at = "mount" =>
                           \A er \in Range(events'[emitter'[x].event].reglist) : er.list = "server"
    BY DEF Emitting
  <2>1. x # t /\ emitter'[x] = emitter[x] /\ work'[x] = work[x]
    BY <1>1, <1>8, <1>10 DEF Emitting
  <2>2. emitter[x].event # e /\ emitter[x].event \in DOMAIN events
    BY <1>1, <2>1, EmitterAlone
  <2> QED
    BY <1>1, <1>9, <2>1, <2>2 DEF Emitting
<1>19. AtChain'
  <2>1. runner.at \notin {"pop", "ended"} => runner.event \in DOMAIN events
    BY <1>1, RunnerHolds, HeldLives
  <2>2. \A i \in 1 .. Len(queue) : queue[i] \in DOMAIN events
    BY <1>1, QueueHolds, HeldLives
  <2>3. runner.at \in {"lock", "config", "url", "next"} => work'[Runner] = work[Runner]
    BY <1>1, <1>10 DEF AtChain
  <2> QED
    BY <1>1, <1>8, <1>9, <2>1, <2>2, <2>3 DEF AtChain
<1> QED
  BY <1>12, <1>14, <1>15, <1>16, <1>17, <1>18, <1>19 DEF Core

----------------------------------------------------------------------------
(* Steps of the event thread *)

(* What stays when the events and their registrations do *)
LEMMA RunnerCore ==
    ASSUME IInv, TypeOK', AtChain', \A x \in Nat : Holds(x)' = Holds(x),
           UNCHANGED <<version, heads, refcount, live, freed, events, slave>>,
           \A t \in Emitters : emitter'[t] = emitter[t] /\ (emitter[t].at # "none" => work'[t] = work[t])
    PROVE  Core'
<1>1. Chained' /\ Counted' /\ Known'
  BY RegsKept
<1>2. Held'
  BY HeldSame DEF IInv, Core
<1>3. Emitting'
  BY DEF IInv, Core, Emitting
<1> QED
  BY <1>1, <1>2, <1>3 DEF Core

(* event_run_thread takes an event from the queue, or ends. *)
LEMMA PopCore ==
    ASSUME IInv, Pop, UNCHANGED slave
    PROVE  Core'
<1> DEFINE e == Head(queue)
           took == queue # <<>>
           one == <<e>>
<1>1. TypeOK /\ AtChain /\ runner.at = "pop" /\ work[Runner] = <<>>
  BY DEF IInv, Core, Pop
<1>2. UNCHANGED <<version, heads, refcount, live, freed, events, emitter, work, running>>
  BY DEF Pop, RunnerKeeps, configVars, regVars
<1>3. IF took
      THEN /\ runner' = [Waiting EXCEPT !.at = "lock", !.event = e, !.last = ~running]
           /\ queue' = Tail(queue)
      ELSE runner' = [runner EXCEPT !.at = "ended"] /\ queue' = queue
  BY DEF Pop
<1>4. queue \in Seq(Nat) /\ (took => e \in Nat /\ Tail(queue) \in Seq(Nat) /\ e = queue[1]
                                     /\ 1 \in 1 .. Len(queue))
  BY <1>1 DEF TypeOK
<1>5. took => /\ runner'.at = "lock" /\ runner'.event = e /\ runner'.list = 1 /\ runner'.er = Nobody
              /\ runner'.last \in BOOLEAN
              /\ runner' = [at |-> "lock", event |-> e, list |-> 1, er |-> Nobody, last |-> runner'.last]
  <2> DEFINE last == ~running
  <2>1. last \in BOOLEAN
    OBVIOUS
  <2> SUFFICES ASSUME took
               PROVE  /\ runner'.at = "lock" /\ runner'.event = e /\ runner'.list = 1
                      /\ runner'.er = Nobody /\ runner'.last \in BOOLEAN
                      /\ runner' = [at |-> "lock", event |-> e, list |-> 1, er |-> Nobody,
                                    last |-> runner'.last]
    OBVIOUS
  <2>2. runner' = [Waiting EXCEPT !.at = "lock", !.event = e, !.last = last]
    BY <1>3
  <2> HIDE DEF e, last
  <2>3. runner' = [at |-> "lock", event |-> e, list |-> 1, er |-> Nobody, last |-> last]
    BY <2>2 DEF Waiting
  <2> QED
    BY <2>1, <2>3
<1>6. ~took => /\ runner'.at = "ended" /\ runner'.er = runner.er
  BY <1>1, <1>3 DEF TypeOK
<1>7. TypeOK'
  <2>1. runner' \in [at : {"pop", "lock", "config", "url", "next", "ended"}, event : Nat,
                     list : Nat \ {0}, er : Reg \cup {Nobody}, last : BOOLEAN]
    <3>1. CASE took
      <4> HIDE DEF e, took
      <4> QED
        BY <1>4, <1>5, <3>1
    <3>2. CASE ~took
      BY <1>1, <1>3, <3>2 DEF TypeOK
    <3> QED
      BY <3>1, <3>2
  <2>2. queue' \in Seq(Nat)
    BY <1>3, <1>4
  <2> QED
    BY <1>1, <1>2, <2>1, <2>2 DEF TypeOK
<1>8. AtChain'
  <2>1. CASE took
    <3>1. events[e].reglist # <<>> /\ e \in DOMAIN events
      BY <1>1, <1>4, <2>1, QueueHolds, HeldLives DEF AtChain, IInv, Core
    <3>2. events[e].reglist \in Seq(Firsts)
      BY <1>1, <3>1, HolderTypes DEF Event
    <3>3. 1 \in 1 .. Len(events[e].reglist)
      BY <3>1, <3>2
    <3>4. \A i \in 1 .. Len(queue') : i + 1 \in 1 .. Len(queue) /\ queue'[i] = queue[i + 1]
      BY <1>3, <1>4, <2>1
    <3>5. \A i \in 1 .. Len(queue') : events[queue'[i]].reglist # <<>>
      BY <1>1, <3>4 DEF AtChain
    <3> QED
      BY <1>1, <1>2, <1>5, <2>1, <3>3, <3>5 DEF AtChain
  <2>2. CASE ~took
    BY <1>1, <1>2, <1>3, <1>6, <2>2 DEF AtChain
  <2> QED
    BY <2>1, <2>2
<1>9. ASSUME NEW x \in Nat PROVE Holds(x)' = Holds(x)
  <2>1. Emitted' = Emitted /\ Hanging' = Hanging /\ work' = work /\ Running = <<>>
    BY <1>1, <1>2 DEF Emitted, Hanging, Running
  <2>2. Times(queue', x) + Times(Running', x) = Times(queue, x) + Times(Running, x)
    <3>1. CASE took
      <4>1. Running' = one
        BY <1>5, <3>1 DEF Running
      <4>2. Times(one, x) = (IF x = e THEN 1 ELSE 0) /\ Times(<<>>, x) = 0
        BY TimesShort
      <4>3. Times(queue, x) = Times(Tail(queue), x) + (IF x = e THEN 1 ELSE 0)
        BY <1>4, <3>1, TimesTail
      <4>4. Times(Tail(queue), x) \in Nat
        BY <1>4, <3>1, TimesType
      <4> DEFINE is == IF x = e THEN 1 ELSE 0
      <4>5. is \in Nat /\ Times(Running', x) = is /\ Times(Running, x) = 0 /\ queue' = Tail(queue)
        BY <1>3, <2>1, <3>1, <4>1, <4>2
      <4> HIDE DEF is
      <4> QED
        BY <4>3, <4>4, <4>5 DEF is
    <3>2. CASE ~took
      <4>1. Running' = <<>> /\ queue' = queue
        BY <1>3, <1>6, <3>2 DEF Running
      <4> QED
        BY <2>1, <4>1
    <3> QED
      BY <3>1, <3>2
  <2>3. /\ Total(Emitted, x) \in Nat /\ Total(work, x) \in Nat /\ Total(Hanging, x) \in Nat
        /\ Times(queue, x) \in Nat /\ Times(Running, x) \in Nat
    BY <1>1, HoldsType
  <2>4. Times(queue', x) \in Nat /\ Times(Running', x) \in Nat
    BY <1>7, HolderTypesNext, TimesType
  <2>5. Holds(x)' = Total(Emitted, x) + Total(work, x) + Total(Hanging, x) + Times(queue', x)
                    + Times(Running', x)
    BY <2>1 DEF Holds
  <2> QED
    BY <2>2, <2>3, <2>4, <2>5 DEF Holds
<1> QED
  BY <1>2, <1>7, <1>8, <1>9, RunnerCore

(* The event thread is with the registration er of its event. *)
AtRegistration(er, at) ==
    /\ runner.at \in {"lock", "config", "url", "next"} /\ at \in {"config", "url", "next"}
    /\ er \in Reg /\ FirstIn(er) = events[runner.event].reglist[runner.list]
    /\ runner' = [runner EXCEPT !.at = at, !.er = er]

(* They stay exact when a registration is worked on. *)
LEMMA AtRegistrationCore ==
    ASSUME IInv, NEW er, NEW at, AtRegistration(er, at), UNCHANGED <<queue, running, work, slave>>,
           RunnerKeeps
    PROVE  Core'
<1>1. TypeOK /\ AtChain
  BY DEF IInv, Core
<1>2. UNCHANGED <<version, heads, refcount, live, freed, events, emitter>>
  BY DEF RunnerKeeps, configVars, regVars
<1>3. /\ runner'.at = at /\ runner'.er = er /\ runner'.list = runner.list
      /\ runner'.event = runner.event
      /\ runner' \in [at : {"pop", "lock", "config", "url", "next", "ended"}, event : Nat,
                      list : Nat \ {0}, er : Reg \cup {Nobody}, last : BOOLEAN]
  BY <1>1 DEF AtRegistration, TypeOK
<1>4. TypeOK'
  BY <1>1, <1>2, <1>3 DEF TypeOK
<1>5. AtChain'
  BY <1>1, <1>2, <1>3 DEF AtRegistration, AtChain
<1>6. Running' = Running /\ Emitted' = Emitted /\ Hanging' = Hanging
  BY <1>2, <1>3 DEF AtRegistration, Running, Emitted, Hanging
<1>7. \A x \in Nat : Holds(x)' = Holds(x)
  BY <1>6 DEF Holds
<1> QED
  BY <1>2, <1>4, <1>5, <1>7, RunnerCore

(* _try_registrations and _try_event: the chain is followed, and the event *)
(* thread stays with its event.                                            *)
LEMMA RegistrationCore ==
    ASSUME IInv, FirstRegistration \/ NextRegistration \/ UrlConfig \/ UrlEmit, UNCHANGED slave
    PROVE  Core'
<1>1. TypeOK /\ AtChain
  BY DEF IInv, Core
<1>2. UNCHANGED <<queue, running, work>> /\ RunnerKeeps
  BY DEF FirstRegistration, NextRegistration, UrlConfig, UrlEmit, queueVars
<1>3. ASSUME NEW er, TryEvent(er), er \in Reg, runner.at \in {"lock", "next"},
             FirstIn(er) = events[runner.event].reglist[runner.list]
      PROVE  \E at : AtRegistration(er, at)
  <2>1. \/ runner' = [runner EXCEPT !.at = "next", !.er = er]
        \/ runner' = [runner EXCEPT !.at = "config", !.er = er]
    BY <1>3 DEF TryEvent
  <2>2. AtRegistration(er, "next") \/ AtRegistration(er, "config")
    BY <1>3, <2>1 DEF AtRegistration
  <2> QED
    BY <2>2
<1>4. CASE FirstRegistration
  <2> DEFINE er == events[runner.event].reglist[runner.list]
  <2>1. runner.at = "lock" /\ TryEvent(er) /\ runner.list \in 1 .. Len(events[runner.event].reglist)
    BY <1>1, <1>4 DEF FirstRegistration, AtChain
  <2>2. runner.event \in DOMAIN events
    BY <1>1, <2>1, RunnerHolds, HeldLives DEF IInv, Core
  <2>3. er \in Firsts
    BY <1>1, <2>1, <2>2, HolderTypes DEF Event
  <2>4. er \in Reg /\ FirstIn(er) = er
    BY <2>3, FirstOfReg DEF Firsts
  <2>5. PICK at : AtRegistration(er, at)
    BY <1>3, <2>1, <2>4
  <2> QED
    BY <1>2, <2>5, AtRegistrationCore
<1>5. CASE NextRegistration
  <2> DEFINE er == Following(runner.er)
  <2>1. /\ runner.at = "next" /\ TryEvent(er) /\ HasNext(runner.er) /\ runner.er \in Reg
        /\ FirstIn(runner.er) = events[runner.event].reglist[runner.list]
    BY <1>1, <1>5 DEF NextRegistration, AtChain
  <2>2. er \in Reg /\ FirstIn(er) = events[runner.event].reglist[runner.list]
    BY <2>1, After
  <2>3. PICK at : AtRegistration(er, at)
    BY <1>3, <2>1, <2>2
  <2> QED
    BY <1>2, <2>3, AtRegistrationCore
<1>6. CASE UrlConfig \/ UrlEmit
  <2>1. PICK at \in {"url", "next"} : runner' = [runner EXCEPT !.at = at]
    BY <1>6 DEF UrlConfig, UrlEmit
  <2>2. runner.at \in {"config", "url"}
    BY <1>6 DEF UrlConfig, UrlEmit
  <2>3. runner' = [runner EXCEPT !.at = at, !.er = runner.er]
    BY <1>1, <2>1 DEF TypeOK
  <2>4. AtRegistration(runner.er, at)
    BY <1>1, <2>2, <2>3 DEF AtRegistration, AtChain
  <2> QED
    BY <1>2, <2>4, AtRegistrationCore
<1> QED
  BY <1>4, <1>5, <1>6

(* The next list of the event, or the event is to be released. *)
LEMMA LastRegistrationCore ==
    ASSUME IInv, LastRegistration, UNCHANGED slave
    PROVE  Core'
<1> DEFINE e == runner.event
           n == Len(events[e].reglist)
           more == runner.list < n
           one == <<e>>
<1>1. TypeOK /\ AtChain /\ runner.at = "next"
  BY DEF IInv, Core, LastRegistration
<1>2. UNCHANGED <<version, heads, refcount, live, freed, events, emitter, queue, running>>
  BY DEF LastRegistration, RunnerKeeps, configVars, regVars, queueVars
<1>3. /\ runner' = (IF more THEN [runner EXCEPT !.at = "lock", !.list = @ + 1, !.er = Nobody]
                    ELSE [Waiting EXCEPT !.at = IF runner.last THEN "ended" ELSE "pop"])
      /\ work' = IF more THEN work ELSE [work EXCEPT ![Runner] = one]
  BY DEF LastRegistration
<1>4. work[Runner] = <<>> /\ runner.list \in 1 .. n
  BY <1>1 DEF AtChain
<1>5. e \in Nat /\ e \in DOMAIN events /\ n \in Nat
  <2>1. e \in Nat /\ e \in DOMAIN events
    BY <1>1, RunnerHolds, HeldLives DEF IInv, Core
  <2>2. events[e].reglist \in Seq(Firsts)
    BY <1>1, <2>1, HolderTypes DEF Event
  <2> QED
    BY <2>1, <2>2
<1> DEFINE type == [at : {"pop", "lock", "config", "url", "next", "ended"}, event : Nat,
                    list : Nat \ {0}, er : Reg \cup {Nobody}, last : BOOLEAN]
<1>6. CASE more
  <2> DEFINE l == runner.list + 1
  <2>1. l \in Nat \ {0} /\ l \in 1 .. n
    BY <1>4, <1>5, <1>6
  <2>2. runner' = [runner EXCEPT !.at = "lock", !.list = l, !.er = Nobody] /\ work' = work
    BY <1>3, <1>6
  <2> HIDE DEF l, n, more
  <2>3. /\ runner' \in type /\ runner'.at = "lock" /\ runner'.list = l /\ runner'.er = Nobody
        /\ runner'.event = e
    BY <1>1, <2>1, <2>2 DEF TypeOK
  <2>4. TypeOK'
    BY <1>1, <1>2, <2>2, <2>3 DEF TypeOK
  <2>5. AtChain'
    BY <1>1, <1>2, <1>4, <2>1, <2>2, <2>3 DEF AtChain, n
  <2>6. Running' = Running /\ Emitted' = Emitted /\ Hanging' = Hanging
    BY <1>1, <1>2, <2>3 DEF Running, Emitted, Hanging
  <2>7. \A x \in Nat : Holds(x)' = Holds(x)
    BY <1>2, <2>2, <2>6 DEF Holds
  <2> QED
    BY <1>2, <2>2, <2>4, <2>5, <2>7, RunnerCore
<1>7. CASE ~more
  <2>1. runner' \in type /\ runner'.at \in {"pop", "ended"} /\ runner'.er = Nobody
    <3> DEFINE at == IF runner.last THEN "ended" ELSE "pop"
    <3>1. at \in {"pop", "ended"} /\ runner' = [Waiting EXCEPT !.at = at]
      BY <1>3, <1>7
    <3> HIDE DEF at
    <3>2. runner' = [at |-> at, event |-> 0, list |-> 1, er |-> Nobody, last |-> FALSE]
      BY <3>1 DEF Waiting
    <3>3. runner'.at = at /\ runner'.er = Nobody
      BY <3>2
    <3>4. runner' \in type
      <4> DEFINE er == Nobody
                 last == FALSE
                 ev == 0
                 list == 1
      <4>1. last \in BOOLEAN /\ er \in Reg \cup {Nobody} /\ ev \in Nat /\ list \in Nat \ {0}
        OBVIOUS
      <4>2. runner' = [at |-> at, event |-> ev, list |-> list, er |-> er, last |-> last]
        BY <3>2
      <4> HIDE DEF er, last, ev, list, more, n, e, one
      <4>3. at \in {"pop", "lock", "config", "url", "next", "ended"}
        BY <3>1
      <4> QED
        BY <4>1, <4>2, <4>3
    <3> QED
      BY <3>1, <3>3, <3>4
  <2>2. /\ work' \in [Emitters \cup {Runner} -> Seq(Nat)] /\ work'[Runner] = one
        /\ \A x \in Emitters \cup {Runner} : x # Runner => work'[x] = work[x]
    BY <1>1, <1>3, <1>5, <1>7 DEF TypeOK
  <2> HIDE DEF more
  <2>3. TypeOK'
    BY <1>1, <1>2, <2>1, <2>2 DEF TypeOK
  <2>4. AtChain'
    BY <1>1, <1>2, <2>1 DEF AtChain
  <2>5. ASSUME NEW x \in Nat PROVE Holds(x)' = Holds(x)
    <3>1. /\ Emitted' = Emitted /\ Hanging' = Hanging /\ queue' = queue
          /\ Running = one /\ Running' = <<>>
      BY <1>1, <1>2, <2>1 DEF Emitted, Hanging, Running
    <3> HIDE DEF one
    <3>2. Total(work', x) = Total(work, x) - Times(work[Runner], x) + Times(work'[Runner], x)
      BY <1>1, <2>2, <2>3, WorkChanged
    <3>3. Times(<<>>, x) = 0
      BY TimesShort
    <3>4. /\ Total(Emitted, x) \in Nat /\ Total(work, x) \in Nat /\ Total(Hanging, x) \in Nat
          /\ Times(queue, x) \in Nat /\ Times(Running, x) \in Nat
      BY <1>1, HoldsType
    <3>5. Total(work', x) = Total(work, x) + Times(Running, x) /\ Times(Running', x) = 0
      BY <1>4, <2>2, <3>1, <3>2, <3>3, <3>4
    <3>6. Holds(x)' = Total(Emitted, x) + Total(work', x) + Total(Hanging, x) + Times(queue, x)
                      + Times(Running', x)
      BY <3>1 DEF Holds
    <3> QED
      BY <3>4, <3>5, <3>6 DEF Holds
  <2>6. \A t \in Emitters : emitter'[t] = emitter[t] /\ work'[t] = work[t]
    BY <1>2, <2>2, Distinct
  <2> QED
    BY <1>2, <2>3, <2>4, <2>5, <2>6, RunnerCore
<1> QED
  BY <1>6, <1>7

(* event_shutdown: the main thread releases what is left in the queue. *)
LEMMA DropQueueCore ==
    ASSUME IInv, DropQueue, Joining, UNCHANGED slave
    PROVE  Core'
<1>1. TypeOK /\ AtChain /\ emitter[Main].at = "none" /\ work[Main] = <<>>
  BY DEF IInv, Core, JoinsFree, Free
<1>2. /\ UNCHANGED <<version, heads, refcount, live, freed, events, emitter, runner, running>>
      /\ runner.at = "ended" /\ work' = [work EXCEPT ![Main] = queue] /\ queue' = <<>>
  BY DEF DropQueue, configVars, regVars
<1>3. queue \in Seq(Nat) /\ <<>> \in Seq(Nat) /\ Main \in Emitters
  BY <1>1, Distinct DEF TypeOK
<1>4. /\ work' \in [Emitters \cup {Runner} -> Seq(Nat)] /\ work'[Main] = queue
      /\ \A x \in Emitters \cup {Runner} : x # Main => work'[x] = work[x]
  BY <1>1, <1>2, <1>3 DEF TypeOK
<1>5. TypeOK'
  BY <1>1, <1>2, <1>3, <1>4 DEF TypeOK
<1>6. AtChain'
  <2>1. Len(<<>>) = 0
    OBVIOUS
  <2> QED
    BY <1>1, <1>2, <2>1 DEF AtChain
<1>7. ASSUME NEW x \in Nat PROVE Holds(x)' = Holds(x)
  <2>1. Emitted' = Emitted /\ Hanging' = Hanging /\ Running' = Running
    BY <1>2 DEF Emitted, Hanging, Running
  <2>2. Total(work', x) = Total(work, x) - Times(work[Main], x) + Times(work'[Main], x)
    BY <1>1, <1>3, <1>4, <1>5, WorkChanged
  <2>3. Times(<<>>, x) = 0
    BY TimesShort
  <2>4. /\ Total(Emitted, x) \in Nat /\ Total(work, x) \in Nat /\ Total(Hanging, x) \in Nat
        /\ Times(queue, x) \in Nat /\ Times(Running, x) \in Nat
    BY <1>1, HoldsType
  <2>5. Total(work', x) = Total(work, x) + Times(queue, x) /\ Times(queue', x) = 0
    BY <1>1, <1>2, <1>4, <2>2, <2>3, <2>4
  <2>6. Holds(x)' = Total(Emitted, x) + Total(work', x) + Total(Hanging, x) + Times(queue', x)
                    + Times(Running, x)
    BY <2>1 DEF Holds
  <2> QED
    BY <2>4, <2>5, <2>6 DEF Holds
<1>8. \A t \in Emitters : emitter'[t] = emitter[t] /\ (emitter[t].at # "none" => work'[t] = work[t])
  BY <1>1, <1>2, <1>4
<1> QED
  BY <1>2, <1>5, <1>6, <1>7, <1>8, RunnerCore

----------------------------------------------------------------------------
(* Every step *)

(* The main thread has no event when it waits for the event thread. *)
LEMMA FreeKept ==
    ASSUME IInv, Joining' => Joining,
           Joining => emitter'[Main] = emitter[Main] /\ work'[Main] = work[Main]
    PROVE  JoinsFree'
  BY DEF IInv, JoinsFree, Free

(* event_release, by any thread *)
LEMMA ReleaseInv ==
    ASSUME IInv, NEW t \in Emitters \cup {Runner}, Release(t), UNCHANGED slave, Joining' => Joining
    PROVE  IInv'
<1>1. CASE ReleaseBegin(t) \/ ReleaseRace(t)
  <2>1. UNCHANGED <<version, heads, refcount, live, events, freed, queue, running, emitter, runner, work>>
    BY <1>1 DEF ReleaseBegin, ReleaseRace, ReleaseKeeps, regVars, configVars, queueVars
  <2>2. Reading' <=> Reading
    BY DEF Reading
  <2> QED
    BY <2>1, <2>2, Elsewhere
<1>2. CASE ReleaseEnd(t)
  <2>1. Core'
    BY <1>2, ReleaseEndCore
  <2>2. emitter' = emitter /\ work[t] # <<>>
    BY <1>2 DEF ReleaseEnd, ReleaseKeeps
  <2>3. Joining => t # Main
    BY <2>2 DEF IInv, JoinsFree, Free
  <2>4. t # Main => work'[Main] = work[Main]
    <3>1. work \in [Emitters \cup {Runner} -> Seq(Nat)] /\ Main \in Emitters
      BY Distinct DEF IInv, Core, TypeOK
    <3> QED
      BY <1>2, <3>1 DEF ReleaseEnd
  <2>5. JoinsFree'
    BY <2>2, <2>3, <2>4, FreeKept
  <2> QED
    BY <2>1, <2>5 DEF IInv
<1> QED
  BY <1>1, <1>2 DEF Release

(* A thread goes on with event_emit_clientevent. *)
LEMMA EmitInv ==
    ASSUME IInv, NEW t \in Emitters, Emit(t), UNCHANGED <<slave, main>>
    PROVE  IInv'
<1>1. (Joining' => Joining) /\ TypeOK
  BY DEF Joining, IInv, Core
<1>2. CASE Release(t)
  BY <1>1, <1>2, ReleaseInv
<1>3. CASE EmitServer(t) \/ EmitMount(t) \/ EmitPush(t)
  <2>1. Core'
    <3>1. CASE EmitServer(t)
      <4> DEFINE next == IF t = Main THEN "push" ELSE "mount"
      <4>1. /\ emitter[t].at = "server" /\ PushReglist(t, "server") /\ EmitterAt(t, next)
            /\ UNCHANGED <<version, heads, live, freed, queue, running, runner, work>>
        BY <3>1 DEF EmitServer, configVars, releaseVars, queueVars
      <4>2. next \in {"mount", "push"}
        OBVIOUS
      <4> HIDE DEF next
      <4> QED
        BY <4>1, <4>2, PushReglistCore
    <3>2. CASE EmitMount(t)
      <4>1. /\ emitter[t].at = "mount" /\ PushReglist(t, "mount") /\ EmitterAt(t, "push")
            /\ UNCHANGED <<version, heads, live, freed, queue, running, runner, work>>
        BY <3>2 DEF EmitMount, configVars, releaseVars, queueVars
      <4> QED
        BY <4>1, PushReglistCore
    <3>3. CASE EmitPush(t)
      BY <3>3, EmitPushCore
    <3> QED
      BY <1>3, <3>1, <3>2, <3>3
  <2>2. emitter[t].at # "none"
    BY <1>3 DEF EmitServer, EmitMount, EmitPush
  <2>3. Joining => t # Main
    BY <2>2 DEF IInv, JoinsFree, Free
  <2>4. t # Main => emitter'[Main] = emitter[Main] /\ work'[Main] = work[Main]
    <3>1. /\ work \in [Emitters \cup {Runner} -> Seq(Nat)] /\ Main \in Emitters
          /\ emitter \in [Emitters -> [at : {"none", "server", "mount", "push"}, event : Nat]]
      BY <1>1, Distinct DEF TypeOK
    <3> QED
      BY <1>3, <3>1 DEF EmitServer, EmitMount, EmitPush, EmitterAt, releaseVars
  <2>5. JoinsFree'
    BY <1>1, <2>3, <2>4, FreeKept
  <2> QED
    BY <2>1, <2>5 DEF IInv
<1> QED
  BY <1>2, <1>3 DEF Emit

(* A thread begins to emit an event. *)
LEMMA EmitStartInv ==
    ASSUME IInv, NEW t \in Emitters, NEW trigger \in Triggers, EmitStart(t, trigger), UNCHANGED slave,
           t = Main => ~Joining', Joining' => Joining
    PROVE  IInv'
<1>1. Core'
  BY EmitStartCore
<1>2. /\ emitter \in [Emitters -> [at : {"none", "server", "mount", "push"}, event : Nat]]
      /\ Main \in Emitters
  BY Distinct DEF IInv, Core, TypeOK
<1>3. work' = work /\ (t # Main => emitter'[Main] = emitter[Main])
  BY <1>2 DEF EmitStart, releaseVars
<1>4. JoinsFree'
  BY <1>3 DEF IInv, JoinsFree, Free
<1> QED
  BY <1>1, <1>4 DEF IInv

(* The event thread *)
LEMMA RunEventsInv ==
    ASSUME IInv, RunEvents, UNCHANGED <<slave, main>>
    PROVE  IInv'
<1>1. (Joining' => Joining) /\ TypeOK
  BY DEF Joining, IInv, Core
<1>2. CASE Release(Runner)
  BY <1>1, <1>2, ReleaseInv
<1>3. CASE Pop \/ FirstRegistration \/ UrlConfig \/ UrlEmit \/ NextRegistration \/ LastRegistration
  <2>1. Core'
    <3>1. CASE Pop
      BY <3>1, PopCore
    <3>2. CASE FirstRegistration \/ NextRegistration \/ UrlConfig \/ UrlEmit
      BY <3>2, RegistrationCore
    <3>3. CASE LastRegistration
      BY <3>3, LastRegistrationCore
    <3> QED
      BY <1>3, <3>1, <3>2, <3>3
  <2>2. emitter' = emitter
    BY <1>3 DEF Pop, FirstRegistration, UrlConfig, UrlEmit, NextRegistration, LastRegistration,
                RunnerKeeps
  <2>3. work'[Main] = work[Main]
    <3>1. work \in [Emitters \cup {Runner} -> Seq(Nat)] /\ Main \in Emitters /\ Main # Runner
      BY <1>1, Distinct DEF TypeOK
    <3>2. work' = work \/ work' = [work EXCEPT ![Runner] = <<runner.event>>]
      BY <1>3 DEF Pop, FirstRegistration, UrlConfig, UrlEmit, NextRegistration, LastRegistration
    <3> QED
      BY <3>1, <3>2
  <2>4. JoinsFree'
    BY <1>1, <2>2, <2>3, FreeKept
  <2> QED
    BY <2>1, <2>4 DEF IInv
<1> QED
  BY <1>2, <1>3 DEF RunEvents

(* The slave thread *)
LEMMA SlaveThreadInv == IInv /\ SlaveThread => IInv'
<1> SUFFICES ASSUME IInv, SlaveThread PROVE IInv'
  OBVIOUS
<1>1. CASE ScheduledReread \/ ClearAuth \/ RereadDone \/ SlaveEnds
  <2>1. UNCHANGED <<version, heads, refcount, live, events, freed, queue, running, emitter, runner,
                    work, main>>
    BY <1>1 DEF ScheduledReread, ClearAuth, RereadDone, SlaveEnds, eventsVars, configVars, regVars,
                releaseVars, queueVars, mainVars
  <2>2. Reading' <=> Reading
    BY <1>1 DEF ScheduledReread, ClearAuth, RereadDone, SlaveEnds, SlaveAt, Reading
  <2>3. Joining' => Joining
    BY <2>1 DEF Joining
  <2> QED
    BY <2>1, <2>2, <2>3, Elsewhere
<1> QED
  BY <1>1, GrabConfigInv, ClearInv, SetConfigInv DEF SlaveThread

(* The threads of sources *)
LEMMA SourceInv ==
    ASSUME IInv, NEW s \in Source, SourceInit(s) \/ SourceThread(s)
    PROVE  IInv'
<1>1. UNCHANGED <<slave, main>>
  BY DEF SourceInit, SourceThread, SourceShutdown, SourceDone, SourceKeeps, slaveVars, mainVars
<1>2. (Joining' => Joining) /\ (Reading' <=> Reading)
  BY <1>1 DEF Joining, Reading
<1>3. s \in Emitters /\ s # Main
  BY Distinct DEF Emitters
<1>4. CASE SourceInit(s) \/ SourceShutdown(s)
  <2>1. PICK trigger \in Triggers : EmitStart(s, trigger)
    BY <1>4 DEF SourceInit, SourceShutdown, Triggers
  <2> QED
    BY <1>1, <1>2, <1>3, <2>1, EmitStartInv
<1>5. CASE SourceDone(s)
  <2>1. UNCHANGED <<version, heads, refcount, live, events, freed, queue, running, emitter, runner, work>>
    BY <1>5 DEF SourceDone, eventsVars, configVars, regVars, releaseVars, queueVars
  <2> QED
    BY <1>2, <2>1, Elsewhere
<1>6. CASE Emit(s)
  BY <1>1, <1>3, <1>6, EmitInv
<1> QED
  BY <1>4, <1>5, <1>6 DEF SourceThread

(* The main thread *)
LEMMA MainThreadInv == IInv /\ MainThread => IInv'
<1> SUFFICES ASSUME IInv, MainThread PROVE IInv'
  OBVIOUS
<1>1. Main \in Emitters
  BY Distinct
<1>2. CASE Accepted \/ LeaveLoop \/ SlaveShutdown \/ ThreadsJoined
  <2>1. UNCHANGED <<version, heads, refcount, live, events, freed, queue, running, emitter, runner,
                    work, slave>>
    BY <1>2 DEF Accepted, LeaveLoop, SlaveShutdown, ThreadsJoined, eventsVars, configVars, regVars,
                releaseVars, queueVars, MainKeeps, slaveVars
  <2>2. (Reading' <=> Reading) /\ (Joining' => Joining)
    BY <1>2, <2>1 DEF Accepted, LeaveLoop, SlaveShutdown, ThreadsJoined, MainAt, Joining, Reading
  <2> QED
    BY <2>1, <2>2, Elsewhere
<1>3. CASE ServerStop
  <2>1. EmitStart(Main, "icecast-stop") /\ UNCHANGED slave /\ ~Joining'
    BY <1>3 DEF ServerStop, MainKeeps, MainAt, Joining
  <2>2. "icecast-stop" \in Triggers
    BY DEF Triggers
  <2> QED
    BY <1>1, <2>1, <2>2, EmitStartInv
<1>4. CASE EventShutdown
  <2>1. /\ UNCHANGED <<version, heads, refcount, live, events, freed, queue, emitter, runner, work,
                       slave>>
        /\ running' = FALSE /\ Free(Main)
    BY <1>4 DEF EventShutdown, StopEvents, configVars, regVars, releaseVars, MainKeeps
  <2>2. Held' /\ Emitting' /\ AtChain' /\ \A er : Referring(er)' = Referring(er)
    BY <2>1, HeldKept
  <2>3. TypeOK' /\ Chained' /\ JoinsFree'
    BY <2>1 DEF IInv, Core, TypeOK, Chained, JoinsFree, Free
  <2>4. Counted' /\ Known'
    BY <2>1, <2>2 DEF IInv, Core, Counted, Known, Reading
  <2> QED
    BY <2>2, <2>3, <2>4 DEF IInv, Core
<1>5. CASE EventJoined
  <2>1. DropQueue /\ Joining /\ ~Joining' /\ UNCHANGED slave
    BY <1>5 DEF EventJoined, MainKeeps, MainAt, Joining
  <2> QED
    BY <2>1, DropQueueCore DEF IInv, JoinsFree
<1>6. CASE EventDropped
  <2>1. Release(Main) /\ UNCHANGED slave /\ (Joining' => Joining)
    BY <1>6 DEF EventDropped, MainKeeps, Joining
  <2> QED
    BY <1>1, <2>1, ReleaseInv
<1>7. CASE ConfigShutdown
  BY <1>7, ConfigShutdownInv
<1>8. CASE Emit(Main) /\ UNCHANGED <<main, globalLock, requests>> /\ MainKeeps
  BY <1>1, <1>8, EmitInv DEF MainKeeps
<1> QED
  BY <1>2, <1>3, <1>4, <1>5, <1>6, <1>7, <1>8 DEF MainThread

(* Every step keeps the invariant. *)
LEMMA NextInv == IInv /\ [Next]_vars => IInv'
<1> SUFFICES ASSUME IInv, [Next]_vars PROVE IInv'
  OBVIOUS
<1>1. CASE AuthQueued \/ AuthThread \/ YpThread \/ Accept \/ AdminReload \/ SigHup
           \/ SigHupHandled \/ SigDie \/ UNCHANGED vars
  <2>1. eventsVars' = eventsVars /\ UNCHANGED slave /\ (main' = main \/ main' = "accept")
    <3>1. CASE AuthQueued \/ AuthThread \/ YpThread
      BY <3>1 DEF AuthQueued, AuthThread, AuthRefuses, AuthAnswers, YpThread, YpCheck, YpChecked,
                  mainVars, slaveVars
    <3>2. CASE Accept \/ AdminReload \/ SigHup \/ SigHupHandled \/ SigDie
      BY <3>2 DEF Accept, AdminReload, SigHup, SigHupHandled, SigDie, MainAt, MainKeeps, slaveVars
    <3>3. CASE UNCHANGED vars
      BY <3>3 DEF vars, mainVars, slaveVars
    <3> QED
      BY <1>1, <3>1, <3>2, <3>3
  <2>2. UNCHANGED <<version, heads, refcount, live, events, freed, queue, running, emitter, runner, work>>
    BY <2>1 DEF eventsVars, configVars, regVars, releaseVars, queueVars
  <2>3. (Reading' <=> Reading) /\ (Joining' => Joining)
    BY <2>1 DEF Reading, Joining
  <2> QED
    BY <2>2, <2>3, Elsewhere
<1>2. CASE SlaveThread
  BY <1>2, SlaveThreadInv
<1>3. CASE EventThread
  <2>1. RunEvents /\ UNCHANGED <<slave, main>>
    BY <1>3 DEF EventThread, slaveVars, mainVars
  <2> QED
    BY <2>1, RunEventsInv
<1>4. CASE \E s \in Source : SourceInit(s) \/ SourceThread(s)
  BY <1>4, SourceInv
<1>5. CASE MainThread
  BY <1>5, MainThreadInv
<1> QED
  BY <1>1, <1>2, <1>3, <1>4, <1>5 DEF Next

----------------------------------------------------------------------------
(* Induction up to a number, and functions defined by recursion up to it *)

(* A set with 0 and with the successor of each of its elements has all. *)
LEMMA UpTo ==
    ASSUME NEW n \in Nat, NEW G, 0 \in G, \A i \in 0 .. n - 1 : i \in G => i + 1 \in G
    PROVE  \A i \in 0 .. n : i \in G
<1> DEFINE R == OpToRel(<, Nat)
           B == {i \in 0 .. n : i \notin G}
<1>1. R = {p \in Nat \X Nat : p[1] < p[2]}
  BY Zenon DEF OpToRel
<1>2. IsWellFoundedOn(R, Nat)
  BY NatLessThanWellFounded, Zenon
<1> HIDE DEF R
<1>3. SUFFICES ASSUME B # {} PROVE FALSE
  OBVIOUS
<1>4. PICK m \in B : \A x \in B : ~(<<x, m>> \in R)
  <2>1. B \subseteq Nat
    OBVIOUS
  <2> HIDE DEF B
  <2> QED
    BY <1>2, <1>3, <2>1, WFMin
<1>5. m \in 1 .. n /\ m - 1 \in 0 .. n - 1 /\ m - 1 \in 0 .. n
  OBVIOUS
<1>6. m - 1 \in B
  BY <1>5
<1>7. <<m - 1, m>> \in Nat \X Nat /\ <<m - 1, m>>[1] < <<m - 1, m>>[2]
  BY <1>5
<1> QED
  BY <1>1, <1>4, <1>6, <1>7

(* g has the values of a recursion that begins with b. *)
Recursive(g, n, V, b, F) ==
    /\ g \in [0 .. n -> V] /\ g[0] = b
    /\ \A i \in 1 .. n : g[i] = F[i][g[i - 1]]

(* The values of a recursion exist: the next one is a function F of the    *)
(* number and of the one before it.                                        *)
LEMMA Recursion ==
    ASSUME NEW n \in Nat, NEW V, NEW b \in V, NEW F \in [1 .. n -> [V -> V]]
    PROVE  \E g : Recursive(g, n, V, b, F)
<1> DEFINE Good(k, g) == g[0] = b /\ \A i \in 1 .. k : g[i] = F[i][g[i - 1]]
           G == {k \in 0 .. n : \E g \in [0 .. k -> V] : Good(k, g)}
<1>1. 0 \in G
  <2> DEFINE g == [i \in 0 .. 0 |-> b]
  <2>1. g \in [0 .. 0 -> V] /\ Good(0, g)
    OBVIOUS
  <2> HIDE DEF g
  <2>2. \E h \in [0 .. 0 -> V] : Good(0, h)
    BY <2>1
  <2> HIDE DEF Good
  <2> QED
    BY <2>2
<1>2. ASSUME NEW k \in 0 .. n - 1, k \in G
      PROVE  k + 1 \in G
  <2>1. PICK g \in [0 .. k -> V] : Good(k, g)
    BY <1>2
  <2> DEFINE v == F[k + 1][g[k]]
             h == [i \in 0 .. k + 1 |-> IF i = k + 1 THEN v ELSE g[i]]
  <2>2. v \in V
    <3>1. k + 1 \in 1 .. n /\ g[k] \in V
      OBVIOUS
    <3> QED
      BY <3>1
  <2> HIDE DEF v
  <2>3. h \in [0 .. k + 1 -> V]
    BY <2>2
  <2>4. \A i \in 0 .. k : h[i] = g[i]
    OBVIOUS
  <2>5. h[k + 1] = v
    OBVIOUS
  <2> HIDE DEF h
  <2>6. ASSUME NEW i \in 1 .. k + 1
        PROVE  h[i] = F[i][h[i - 1]]
    <3>1. CASE i = k + 1
      BY <2>4, <2>5, <3>1 DEF v
    <3>2. CASE i \in 1 .. k
      <4>1. h[i] = g[i] /\ h[i - 1] = g[i - 1]
        BY <2>4, <3>2
      <4> QED
        BY <2>1, <3>2, <4>1
    <3> QED
      BY <3>1, <3>2
  <2>7. Good(k + 1, h)
    BY <2>1, <2>4, <2>6
  <2> HIDE DEF Good
  <2>8. \E f \in [0 .. k + 1 -> V] : Good(k + 1, f)
    BY <2>3, <2>7
  <2>9. k + 1 \in 0 .. n
    OBVIOUS
  <2> QED
    BY <2>8, <2>9
<1> HIDE DEF G
<1>3. n \in G
  <2>1. \A i \in 0 .. n : i \in G
    BY <1>1, <1>2, UpTo
  <2> QED
    BY <2>1
<1>4. PICK g \in [0 .. n -> V] : Good(n, g)
  BY <1>3 DEF G
<1>5. Recursive(g, n, V, b, F)
  BY <1>4 DEF Recursive
<1> QED
  BY <1>5

(* The parts of a sequence, and what is joined after each of them. *)
Parts(f, n, T) == n \in Nat /\ \A i \in 1 .. n : f[i] \in Seq(T)
Joins(g, f, n, T) ==
    g \in [0 .. n -> Seq(T)] /\ g[0] = <<>> /\ \A i \in 1 .. n : g[i] = g[i - 1] \o f[i]

(* Parts joined one after the other. *)
LEMMA JoinedRun ==
    ASSUME NEW f, NEW n, NEW T, Parts(f, n, T)
    PROVE  \E g : Joins(g, f, n, T) /\ Joined(f, n) = g[n]
<1> DEFINE V == Seq(T)
           F == [i \in 1 .. n |-> [s \in V |-> s \o f[i]]]
           D(g) == [i \in 0 .. n |-> IF i = 0 THEN <<>> ELSE g[i - 1] \o f[i]]
           c == CHOOSE g : g = D(g)
<1>1. n \in Nat /\ <<>> \in V /\ \A i \in 1 .. n : f[i] \in V
  BY DEF Parts
<1>2. Joined(f, n) = c[n]
  BY DEF Joined
<1>3. \A s, t \in V : s \o t \in V
  OBVIOUS
<1> HIDE DEF V
<1>4. F \in [1 .. n -> [V -> V]]
  <2>1. \A i \in 1 .. n : [s \in V |-> s \o f[i]] \in [V -> V]
    BY <1>1, <1>3
  <2> QED
    BY <2>1, Zenon
<1>5. PICK g : Recursive(g, n, V, <<>>, F)
  <2> HIDE DEF F
  <2> QED
    BY <1>1, <1>4, Recursion
<1>6. g \in [0 .. n -> V] /\ g[0] = <<>> /\ \A i \in 1 .. n : g[i] = g[i - 1] \o f[i]
  <2>1. g \in [0 .. n -> V] /\ g[0] = <<>> /\ \A i \in 1 .. n : g[i] = F[i][g[i - 1]]
    BY <1>5, Zenon DEF Recursive
  <2>2. ASSUME NEW i \in 1 .. n PROVE g[i] = g[i - 1] \o f[i]
    <3>1. g[i - 1] \in V
      BY <1>1, <2>1
    <3>2. F[i][g[i - 1]] = g[i - 1] \o f[i]
      BY <3>1, Zenon
    <3> QED
      BY <2>1, <3>2
  <2> QED
    BY <2>1, <2>2
<1>7. g = D(g)
  <2>1. g = [i \in 0 .. n |-> g[i]]
    BY <1>6
  <2>2. ASSUME NEW i \in 0 .. n PROVE g[i] = D(g)[i]
    <3>1. CASE i = 0
      BY <1>6, <3>1
    <3>2. CASE i # 0
      <4>1. i \in 1 .. n
        BY <1>1, <3>2
      <4> QED
        BY <1>6, <3>2, <4>1
    <3> QED
      BY <3>1, <3>2
  <2> HIDE DEF D
  <2>3. D(g) = [i \in 0 .. n |-> D(g)[i]]
    BY DEF D
  <2> QED
    BY <2>1, <2>2, <2>3
<1>8. c = D(c)
  BY <1>7
<1> HIDE DEF c
<1>9. c[0] = <<>> /\ \A i \in 1 .. n : c[i] = c[i - 1] \o f[i]
  <2>1. ASSUME NEW i \in 0 .. n PROVE c[i] = D(c)[i]
    BY <1>8
  <2>2. 0 \in 0 .. n /\ \A i \in 1 .. n : i \in 0 .. n /\ i # 0
    BY <1>1
  <2>3. D(c)[0] = <<>>
    BY <2>2
  <2>4. ASSUME NEW i \in 1 .. n PROVE D(c)[i] = c[i - 1] \o f[i]
    BY <2>2
  <2> QED
    BY <2>1, <2>2, <2>3, <2>4
<1>10. c = [i \in 0 .. n |-> c[i]]
  BY <1>8
<1>11. \A i \in 0 .. n : c[i] \in V
  <2> DEFINE G == {i \in 0 .. n : c[i] \in V}
  <2>1. 0 \in G
    <3>1. 0 \in 0 .. n /\ c[0] = <<>>
      BY <1>1, <1>9
    <3> QED
      BY <1>1, <3>1
  <2>2. ASSUME NEW i \in 0 .. n - 1, i \in G PROVE i + 1 \in G
    <3>1. i + 1 \in 1 .. n /\ (i + 1) - 1 = i /\ i + 1 \in 0 .. n
      BY <1>1
    <3>2. c[i + 1] = c[i] \o f[i + 1]
      BY <1>9, <3>1
    <3>3. c[i] \in V /\ f[i + 1] \in V
      BY <1>1, <2>2, <3>1
    <3> QED
      BY <1>3, <3>1, <3>2, <3>3
  <2> HIDE DEF G
  <2>3. \A i \in 0 .. n : i \in G
    BY <1>1, <2>1, <2>2, UpTo
  <2> QED
    BY <2>3 DEF G
<1>12. c \in [0 .. n -> V]
  BY <1>10, <1>11
<1>13. Joins(c, f, n, T)
  BY <1>9, <1>12, Zenon DEF Joins, V
<1> QED
  BY <1>2, <1>13

(* The first parts decide what is joined of them. *)
LEMMA JoinedAgree ==
    ASSUME NEW f, NEW n, NEW T, NEW g, Joins(g, f, n, T), n \in Nat, NEW k \in 0 .. n,
           NEW d, \A i \in 1 .. k : d[i] = f[i], Parts(d, k, T)
    PROVE  Joined(d, k) = g[k]
<1>1. PICK h : Joins(h, d, k, T) /\ Joined(d, k) = h[k]
  BY JoinedRun
<1>2. /\ g[0] = <<>> /\ \A i \in 1 .. n : g[i] = g[i - 1] \o f[i]
      /\ h[0] = <<>> /\ \A i \in 1 .. k : h[i] = h[i - 1] \o d[i]
  BY <1>1 DEF Joins
<1> DEFINE G == {i \in 0 .. k : h[i] = g[i]}
<1>3. 0 \in G
  BY <1>2
<1>4. ASSUME NEW i \in 0 .. k - 1, i \in G PROVE i + 1 \in G
  <2>1. i + 1 \in 1 .. k /\ (i + 1) - 1 = i /\ i + 1 \in 0 .. k /\ i + 1 \in 1 .. n
    OBVIOUS
  <2>2. g[i + 1] = g[i] \o f[i + 1] /\ h[i + 1] = h[i] \o d[i + 1]
    BY <1>2, <2>1
  <2>3. d[i + 1] = f[i + 1] /\ h[i] = g[i]
    BY <1>4, <2>1
  <2> QED
    BY <2>1, <2>2, <2>3
<1> HIDE DEF G
<1>5. k \in Nat /\ k \in 0 .. k
  OBVIOUS
<1>6. \A i \in 0 .. k : i \in G
  BY <1>3, <1>4, <1>5, UpTo
<1> QED
  BY <1>1, <1>5, <1>6 DEF G

(* So nothing joined is empty, and a part is joined behind the others. *)
LEMMA JoinedIs ==
    ASSUME NEW f, NEW n, NEW T, Parts(f, n, T)
    PROVE  /\ Joined(f, n) \in Seq(T)
           /\ n = 0 => Joined(f, n) = <<>>
           /\ n # 0 => /\ Parts(f, n - 1, T) /\ f[n] \in Seq(T)
                       /\ Joined(f, n) = Joined(f, n - 1) \o f[n]
<1>1. PICK g : Joins(g, f, n, T) /\ Joined(f, n) = g[n]
  BY JoinedRun
<1>2. n \in Nat /\ n \in 0 .. n /\ \A i \in 1 .. n : f[i] \in Seq(T)
  BY DEF Parts
<1>3. Joined(f, n) \in Seq(T)
  BY <1>1, <1>2, Zenon DEF Joins
<1>4. n = 0 => Joined(f, n) = <<>>
  BY <1>1 DEF Joins
<1>5. ASSUME n # 0
      PROVE  /\ Parts(f, n - 1, T) /\ f[n] \in Seq(T)
             /\ Joined(f, n) = Joined(f, n - 1) \o f[n]
  <2>1. n - 1 \in Nat /\ n - 1 \in 0 .. n /\ n \in 1 .. n /\ \A i \in 1 .. n - 1 : i \in 1 .. n
    BY <1>2, <1>5
  <2>2. Parts(f, n - 1, T) /\ f[n] \in Seq(T)
    BY <1>2, <2>1, Zenon DEF Parts
  <2> DEFINE m == n - 1
  <2>3. Joined(f, m) = g[m]
    <3>1. m \in 0 .. n /\ Parts(f, m, T)
      BY <2>1, <2>2
    <3> HIDE DEF m
    <3> QED
      BY <1>1, <1>2, <3>1, JoinedAgree
  <2>4. g[n] = g[n - 1] \o f[n]
    BY <1>1, <2>1, Zenon DEF Joins
  <2> QED
    BY <1>1, <2>2, <2>3, <2>4
<1> QED
  BY <1>3, <1>4, <1>5

(* The same parts give the same. *)
LEMMA JoinedSame ==
    ASSUME NEW f, NEW n, NEW T, Parts(f, n, T), NEW d, \A i \in 1 .. n : d[i] = f[i]
    PROVE  Joined(d, n) = Joined(f, n) /\ Parts(d, n, T)
<1>1. PICK g : Joins(g, f, n, T) /\ Joined(f, n) = g[n]
  BY JoinedRun
<1>2. n \in Nat /\ n \in 0 .. n
  BY DEF Parts
<1>3. Parts(d, n, T)
  BY DEF Parts
<1> QED
  BY <1>1, <1>2, <1>3, JoinedAgree

(* What is joined of the first parts begins what is joined of all. *)
LEMMA JoinedRest ==
    ASSUME NEW f, NEW n, NEW T, Parts(f, n, T), NEW k \in 0 .. n
    PROVE  Joined(f, k) \in Seq(T) /\ \E rest \in Seq(T) : Joined(f, n) = Joined(f, k) \o rest
<1>1. PICK g : Joins(g, f, n, T) /\ Joined(f, n) = g[n]
  BY JoinedRun
<1>2. n \in Nat /\ \A i \in 1 .. n : f[i] \in Seq(T)
  BY DEF Parts
<1>3. Parts(f, k, T)
  BY <1>2 DEF Parts
<1>4. Joined(f, k) = g[k]
  BY <1>1, <1>2, <1>3, JoinedAgree
<1>5. g \in [0 .. n -> Seq(T)] /\ \A i \in 1 .. n : g[i] = g[i - 1] \o f[i]
  BY <1>1, Zenon DEF Joins
<1> DEFINE V == Seq(T)
           m == n - k
           G == {i \in 0 .. m : \E rest \in V : g[k + i] = g[k] \o rest}
<1>6. g[k] \in V /\ m \in Nat
  BY <1>2, <1>5
<1>7. 0 \in G
  <2>1. g[k] \o <<>> = g[k] /\ <<>> \in V
    BY <1>6
  <2>2. k + 0 = k /\ 0 \in 0 .. m
    BY <1>6
  <2>3. \E rest \in V : g[k] = g[k] \o rest
    BY <2>1
  <2> HIDE DEF V, m
  <2> QED
    BY <2>2, <2>3
<1>8. ASSUME NEW i \in 0 .. m - 1, i \in G PROVE i + 1 \in G
  <2>1. PICK rest \in V : g[k + i] = g[k] \o rest
    BY <1>8
  <2>2. /\ i + 1 \in 0 .. m /\ k + (i + 1) \in 1 .. n /\ (k + (i + 1)) - 1 = k + i
    BY <1>2
  <2>3. g[k + (i + 1)] = g[k + i] \o f[k + (i + 1)] /\ f[k + (i + 1)] \in V
    BY <1>2, <1>5, <2>2
  <2> DEFINE x == f[k + (i + 1)]
             a == g[k]
  <2>4. x \in V /\ a \in V
    BY <1>6, <2>3
  <2> HIDE DEF x, a
  <2>5. (a \o rest) \o x = a \o (rest \o x) /\ rest \o x \in V
    BY <2>4
  <2>6. g[k + (i + 1)] = a \o (rest \o x)
    BY <2>1, <2>3, <2>5 DEF x, a
  <2>7. \E r \in V : g[k + (i + 1)] = g[k] \o r
    BY <2>5, <2>6 DEF a
  <2> HIDE DEF V, m
  <2> QED
    BY <2>2, <2>7
<1> HIDE DEF G
<1>9. m \in G
  <2> HIDE DEF m
  <2>1. \A i \in 0 .. m : i \in G
    BY <1>6, <1>7, <1>8, UpTo
  <2>2. m \in 0 .. m
    BY <1>6
  <2> QED
    BY <2>1, <2>2
<1>10. k + m = n
  BY <1>2
<1>11. \E rest \in V : g[n] = g[k] \o rest
  <2> HIDE DEF m
  <2> QED
    BY <1>9, <1>10 DEF G
<1> QED
  BY <1>1, <1>4, <1>6, <1>11

----------------------------------------------------------------------------
(* What events call *)

(* Sequences may be joined in any order. *)
LEMMA Associative ==
    ASSUME NEW T
    PROVE  \A s, t, u \in Seq(T) : (s \o t) \o u = s \o (t \o u) /\ s \o t \in Seq(T)
  OBVIOUS

(* Sequences joined in one order and in another *)
Grouped(s, t, u, v, w) ==
    /\ s \o ((t \o (u \o v)) \o w) = (s \o (t \o u)) \o (v \o w)
    /\ s \o (t \o (u \o v)) = (s \o (t \o u)) \o v
(* Five sequences, and a value behind three. *)
LEMMA Regrouped ==
    ASSUME NEW T, NEW s \in Seq(T), NEW t \in Seq(T), NEW u \in Seq(T), NEW v \in Seq(T),
           NEW w \in Seq(T)
    PROVE  Grouped(s, t, u, v, w)
<1> DEFINE V == Seq(T)
           Cat(a, b) == a \o b
<1>1. \A a, b, c \in V : Cat(Cat(a, b), c) = Cat(a, Cat(b, c)) /\ Cat(a, b) \in V
  BY Associative
<1>2. s \in V /\ t \in V /\ u \in V /\ v \in V /\ w \in V
  OBVIOUS
<1>3. /\ Cat(s, Cat(Cat(t, Cat(u, v)), w)) = Cat(Cat(s, Cat(t, u)), Cat(v, w))
      /\ Cat(s, Cat(t, Cat(u, v))) = Cat(Cat(s, Cat(t, u)), v)
  <2> HIDE DEF V, Cat
  <2>1. Cat(t, u) \in V /\ Cat(v, w) \in V /\ Cat(Cat(t, u), v) = Cat(t, Cat(u, v))
    BY <1>1, <1>2
  <2>2. /\ Cat(Cat(Cat(t, u), v), w) = Cat(Cat(t, u), Cat(v, w))
        /\ Cat(Cat(s, Cat(t, u)), Cat(v, w)) = Cat(s, Cat(Cat(t, u), Cat(v, w)))
        /\ Cat(Cat(s, Cat(t, u)), v) = Cat(s, Cat(Cat(t, u), v))
    BY <1>1, <1>2, <2>1
  <2> QED
    BY <2>1, <2>2
<1> QED
  BY <1>3, Zenon DEF Grouped

GroupedOne(s, t, u, x) == Append(s \o (t \o u), x) = s \o (t \o (u \o <<x>>))
LEMMA RegroupedOne ==
    ASSUME NEW T, NEW s \in Seq(T), NEW t \in Seq(T), NEW u \in Seq(T), NEW x \in T
    PROVE  GroupedOne(s, t, u, x)
<1> DEFINE v == <<x>>
           all == s \o (t \o u)
<1>1. v \in Seq(T) /\ all \in Seq(T)
  OBVIOUS
<1> HIDE DEF all
<1>2. Append(all, x) = all \o v
  BY <1>1
<1> HIDE DEF v
<1>3. Grouped(s, t, u, v, v)
  BY <1>1, Regrouped
<1> QED
  BY <1>2, <1>3 DEF Grouped, GroupedOne, v, all

(* The calls of a chain, of the chains of an event, of an event, and of    *)
(* the events P, which are described by E: what CalledInChain,             *)
(* CalledInLists, Called and CalledInQueue are of the state.               *)
Calls == Nat \X Reg
ChainCalls(e, trigger, v, list) ==
    [n \in DOMAIN Chain(list) |->
        IF Backend(Registration(v, list, n)).trigger = trigger
        THEN <<<<e, Registration(v, list, n)>>>> ELSE <<>>]
ListCalls(e, trigger, v, regs) ==
    [i \in DOMAIN regs |->
        Joined(ChainCalls(e, trigger, v, regs[i].list), Len(Chain(regs[i].list)))]
EventCalls(e, trigger, v, regs) == Joined(ListCalls(e, trigger, v, regs), Len(regs))
QueueCalls(E, P) ==
    [i \in DOMAIN P |-> EventCalls(P[i], E[P[i]].trigger, E[P[i]].version, E[P[i]].reglist)]
Described(E, P) ==
    /\ P \in Seq(Nat)
    /\ \A i \in 1 .. Len(P) : /\ E[P[i]].version \in 1 .. MaxVersion
                              /\ E[P[i]].reglist \in Seq(Firsts)

(* The calls of a chain, of the chains of a list, and of the queued        *)
(* events.                                                                 *)
LEMMA ChainCallsParts ==
    ASSUME NEW e \in Nat, NEW trigger, NEW v \in 1 .. MaxVersion, NEW list \in {"server", "mount"},
           NEW n \in 0 .. Len(Chain(list))
    PROVE  /\ Parts(ChainCalls(e, trigger, v, list), n, Calls)
           /\ n # 0 => LET er == Registration(v, list, n)
                       IN  /\ er \in Reg /\ <<e, er>> \in Calls
                           /\ ChainCalls(e, trigger, v, list)[n]
                                = IF Backend(er).trigger = trigger THEN <<<<e, er>>>> ELSE <<>>
<1>1. Len(Chain(list)) \in Nat /\ DOMAIN Chain(list) = 1 .. Len(Chain(list)) /\ n \in Nat
  BY ChainType
<1>2. ASSUME NEW i \in 1 .. Len(Chain(list))
      PROVE  LET er == Registration(v, list, i)
             IN  /\ er \in Reg /\ <<e, er>> \in Calls
                 /\ ChainCalls(e, trigger, v, list)[i]
                      = IF Backend(er).trigger = trigger THEN <<<<e, er>>>> ELSE <<>>
                 /\ ChainCalls(e, trigger, v, list)[i] \in Seq(Calls)
  <2> DEFINE er == Registration(v, list, i)
             call == <<e, er>>
  <2>1. er \in Reg
    BY RegForm
  <2> HIDE DEF er
  <2>2. call \in Calls
    BY <2>1 DEF Calls
  <2>3. ChainCalls(e, trigger, v, list)[i]
          = IF Backend(er).trigger = trigger THEN <<call>> ELSE <<>>
    BY <1>1 DEF ChainCalls, er
  <2> HIDE DEF call
  <2>4. <<call>> \in Seq(Calls) /\ <<>> \in Seq(Calls)
    BY <2>2
  <2>5. ChainCalls(e, trigger, v, list)[i] \in Seq(Calls)
    BY <2>3, <2>4
  <2> QED
    BY <2>1, <2>2, <2>3, <2>5 DEF er, call
<1>3. Parts(ChainCalls(e, trigger, v, list), n, Calls)
  <2>1. \A i \in 1 .. n : i \in 1 .. Len(Chain(list))
    BY <1>1
  <2> QED
    BY <1>1, <1>2, <2>1 DEF Parts
<1>4. n # 0 => n \in 1 .. Len(Chain(list))
  BY <1>1
<1> QED
  BY <1>2, <1>3, <1>4

LEMMA ListCallsParts ==
    ASSUME NEW e \in Nat, NEW trigger, NEW v \in 1 .. MaxVersion, NEW regs \in Seq(Firsts),
           NEW l \in 0 .. Len(regs)
    PROVE  /\ Parts(ListCalls(e, trigger, v, regs), l, Calls)
           /\ l # 0 => /\ regs[l].list \in {"server", "mount"}
                       /\ ListCalls(e, trigger, v, regs)[l]
                            = Joined(ChainCalls(e, trigger, v, regs[l].list), Len(Chain(regs[l].list)))
<1>1. Len(regs) \in Nat /\ DOMAIN regs = 1 .. Len(regs) /\ l \in Nat
  OBVIOUS
<1>2. ASSUME NEW i \in 1 .. Len(regs)
      PROVE  /\ regs[i].list \in {"server", "mount"}
             /\ ListCalls(e, trigger, v, regs)[i]
                  = Joined(ChainCalls(e, trigger, v, regs[i].list), Len(Chain(regs[i].list)))
             /\ ListCalls(e, trigger, v, regs)[i] \in Seq(Calls)
  <2> DEFINE list == regs[i].list
             n == Len(Chain(list))
             f == ChainCalls(e, trigger, v, list)
  <2>1. regs[i] \in Reg
    BY DEF Firsts
  <2>2. list \in {"server", "mount"}
    BY <2>1, RegForm
  <2>3. ListCalls(e, trigger, v, regs)[i] = Joined(f, n)
    BY <1>1 DEF ListCalls
  <2>4. Parts(f, n, Calls)
    <3> HIDE DEF list
    <3>1. n \in 0 .. n
      BY ChainType
    <3> QED
      BY <2>2, <3>1, ChainCallsParts
  <2>5. Joined(f, n) \in Seq(Calls)
    <3> HIDE DEF f, n
    <3> QED
      BY <2>4, JoinedIs
  <2> QED
    BY <2>2, <2>3, <2>5
<1>3. Parts(ListCalls(e, trigger, v, regs), l, Calls)
  <2>1. \A i \in 1 .. l : i \in 1 .. Len(regs)
    BY <1>1
  <2> QED
    BY <1>1, <1>2, <2>1 DEF Parts
<1>4. l # 0 => l \in 1 .. Len(regs)
  BY <1>1
<1> QED
  BY <1>2, <1>3, <1>4

LEMMA QueueCallsParts ==
    ASSUME NEW E, NEW P, Described(E, P), NEW k \in 0 .. Len(P)
    PROVE  /\ Parts(QueueCalls(E, P), k, Calls)
           /\ k # 0 => QueueCalls(E, P)[k]
                         = EventCalls(P[k], E[P[k]].trigger, E[P[k]].version, E[P[k]].reglist)
<1>1. /\ Len(P) \in Nat /\ DOMAIN P = 1 .. Len(P) /\ k \in Nat
      /\ \A i \in 1 .. Len(P) : /\ P[i] \in Nat /\ E[P[i]].version \in 1 .. MaxVersion
                                /\ E[P[i]].reglist \in Seq(Firsts)
  BY DEF Described
<1>2. ASSUME NEW i \in 1 .. Len(P)
      PROVE  /\ QueueCalls(E, P)[i]
                  = EventCalls(P[i], E[P[i]].trigger, E[P[i]].version, E[P[i]].reglist)
             /\ QueueCalls(E, P)[i] \in Seq(Calls)
  <2> DEFINE e == P[i]
             trigger == E[e].trigger
             v == E[e].version
             regs == E[e].reglist
             n == Len(regs)
             f == ListCalls(e, trigger, v, regs)
  <2>1. QueueCalls(E, P)[i] = EventCalls(e, trigger, v, regs)
    BY <1>1 DEF QueueCalls
  <2>2. e \in Nat /\ v \in 1 .. MaxVersion /\ regs \in Seq(Firsts)
    BY <1>1
  <2> HIDE DEF e, trigger, v, regs
  <2>3. n \in 0 .. n
    BY <2>2
  <2>4. Parts(f, n, Calls)
    BY <2>2, <2>3, ListCallsParts
  <2>5. EventCalls(e, trigger, v, regs) = Joined(f, n)
    BY DEF EventCalls
  <2> HIDE DEF f, n
  <2>6. Joined(f, n) \in Seq(Calls)
    BY <2>4, JoinedIs
  <2> QED
    BY <2>1, <2>5, <2>6 DEF e, trigger, v, regs
<1>3. Parts(QueueCalls(E, P), k, Calls)
  <2>1. \A i \in 1 .. k : i \in 1 .. Len(P)
    BY <1>1
  <2> QED
    BY <1>1, <1>2, <2>1 DEF Parts
<1>4. k # 0 => k \in 1 .. Len(P)
  BY <1>1
<1> QED
  BY <1>2, <1>3, <1>4

(* R is what the first k events call; or, in the midst of the k-th event,  *)
(* what the events before it, its chains before the l-th and the first n   *)
(* registrations of that one call.                                         *)
Done(R, E, P, k) == k \in 0 .. Len(P) /\ R = Joined(QueueCalls(E, P), k)
InEvent(R, e, trigger, v, regs, l, n, begin) ==
    /\ l \in 1 .. Len(regs) /\ n \in 0 .. Len(Chain(regs[l].list))
    /\ R = begin \o (Joined(ListCalls(e, trigger, v, regs), l - 1)
                     \o Joined(ChainCalls(e, trigger, v, regs[l].list), n))
Within(R, E, P, k, l, n) ==
    /\ k \in 1 .. Len(P)
    /\ InEvent(R, P[k], E[P[k]].trigger, E[P[k]].version, E[P[k]].reglist, l, n,
               Joined(QueueCalls(E, P), k - 1))

(* The parts of what an event has called so far *)
EventParts(R, e, trigger, v, regs, l, n, begin) ==
    LET list == regs[l].list
        a == Joined(ListCalls(e, trigger, v, regs), l - 1)
        b == Joined(ChainCalls(e, trigger, v, list), n)
    IN  /\ list \in {"server", "mount"} /\ Len(Chain(list)) \in Nat
        /\ l - 1 \in 0 .. Len(regs) /\ a \in Seq(Calls) /\ b \in Seq(Calls)
        /\ R = begin \o (a \o b) /\ R \in Seq(Calls)
        /\ a \o Joined(ChainCalls(e, trigger, v, list), Len(Chain(list)))
             = Joined(ListCalls(e, trigger, v, regs), l)

(* What was called for an event is the begin of all its calls. *)
LEMMA InEventParts ==
    ASSUME NEW R, NEW e \in Nat, NEW trigger, NEW v \in 1 .. MaxVersion, NEW regs \in Seq(Firsts),
           NEW l, NEW n, NEW begin \in Seq(Calls), InEvent(R, e, trigger, v, regs, l, n, begin)
    PROVE  EventParts(R, e, trigger, v, regs, l, n, begin)
<1> DEFINE list == regs[l].list
           m == l - 1
           f == ListCalls(e, trigger, v, regs)
           g == ChainCalls(e, trigger, v, list)
           a == Joined(f, m)
           b == Joined(g, n)
<1>1. /\ l \in 1 .. Len(regs) /\ n \in 0 .. Len(Chain(list)) /\ R = begin \o (a \o b)
  BY DEF InEvent
<1>2. m \in 0 .. Len(regs) /\ l \in 0 .. Len(regs) /\ l # 0 /\ l - 1 = m
  BY <1>1
<1>3. Parts(f, m, Calls) /\ Parts(f, l, Calls)
  BY <1>2, ListCallsParts
<1>4. list \in {"server", "mount"} /\ f[l] = Joined(g, Len(Chain(list)))
  BY <1>2, ListCallsParts
<1>5. Parts(g, n, Calls)
  BY <1>1, <1>4, ChainCallsParts
<1>6. Len(Chain(list)) \in Nat
  BY ChainType
<1> HIDE DEF f, g, m
<1>7. a \in Seq(Calls) /\ b \in Seq(Calls)
  BY <1>3, <1>5, JoinedIs
<1>8. Joined(f, l) = Joined(f, l - 1) \o f[l]
  BY <1>2, <1>3, JoinedIs
<1>9. Joined(f, l) = a \o f[l]
  BY <1>2, <1>8
<1> HIDE DEF a, b
<1>10. R \in Seq(Calls)
  BY <1>1, <1>7
<1> QED
  BY <1>1, <1>2, <1>4, <1>6, <1>7, <1>9, <1>10 DEF EventParts, a, b, f, g, m

(* _try_registrations begins with the first registration of the first list. *)
LEMMA EventBegins ==
    ASSUME NEW e \in Nat, NEW trigger, NEW v \in 1 .. MaxVersion, NEW regs \in Seq(Firsts),
           regs # <<>>, NEW begin \in Seq(Calls)
    PROVE  InEvent(begin, e, trigger, v, regs, 1, 0, begin)
<1> DEFINE list == regs[1].list
           f == ListCalls(e, trigger, v, regs)
           g == ChainCalls(e, trigger, v, list)
           zero == 0
<1>1. 1 \in 1 .. Len(regs) /\ 1 \in 0 .. Len(regs) /\ zero \in 0 .. Len(regs)
  OBVIOUS
<1>2. list \in {"server", "mount"}
  <2>1. regs[1] \in Reg
    BY <1>1 DEF Firsts
  <2> QED
    BY <2>1, RegForm
<1>3. zero \in 0 .. Len(Chain(list))
  BY ChainType
<1>4. Parts(f, zero, Calls) /\ Parts(g, zero, Calls)
  BY <1>1, <1>2, <1>3, ListCallsParts, ChainCallsParts
<1>5. Joined(f, 0) = <<>> /\ Joined(g, 0) = <<>>
  <2> HIDE DEF f, g
  <2> QED
    BY <1>4, JoinedIs
<1>6. begin \o (<<>> \o <<>>) = begin
  OBVIOUS
<1>7. 1 - 1 = 0
  OBVIOUS
<1> HIDE DEF f, g
<1>8. begin = begin \o (Joined(f, 1 - 1) \o Joined(g, 0))
  BY <1>5, <1>6, <1>7
<1> QED
  BY <1>1, <1>3, <1>8 DEF InEvent, f, g, list

(* _try_event: the next registration of the list is called, or not. *)
LEMMA EventGoesOn ==
    ASSUME NEW R, NEW e \in Nat, NEW trigger, NEW v \in 1 .. MaxVersion, NEW regs \in Seq(Firsts),
           NEW l, NEW n, NEW begin \in Seq(Calls), InEvent(R, e, trigger, v, regs, l, n, begin),
           n < Len(Chain(regs[l].list)), NEW er, er = Registration(v, regs[l].list, n + 1)
    PROVE  IF Backend(er).trigger = trigger
           THEN InEvent(Append(R, <<e, er>>), e, trigger, v, regs, l, n + 1, begin)
           ELSE InEvent(R, e, trigger, v, regs, l, n + 1, begin)
<1> DEFINE list == regs[l].list
           m == l - 1
           k == n + 1
           g == ChainCalls(e, trigger, v, list)
           a == Joined(ListCalls(e, trigger, v, regs), m)
           b == Joined(g, n)
           call == <<e, er>>
<1>1. /\ list \in {"server", "mount"} /\ Len(Chain(list)) \in Nat /\ a \in Seq(Calls)
      /\ b \in Seq(Calls) /\ R = begin \o (a \o b)
  <2>1. EventParts(R, e, trigger, v, regs, l, n, begin)
    BY InEventParts
  <2> QED
    BY <2>1 DEF EventParts
<1>2. l \in 1 .. Len(regs) /\ n \in 0 .. Len(Chain(list))
  BY DEF InEvent
<1>3. k \in 0 .. Len(Chain(list)) /\ k # 0 /\ k - 1 = n
  BY <1>1, <1>2
<1>4. Parts(g, k, Calls)
  BY <1>1, <1>3, ChainCallsParts
<1>5. call \in Calls /\ g[k] = IF Backend(er).trigger = trigger THEN <<call>> ELSE <<>>
  BY <1>1, <1>3, ChainCallsParts
<1>6. Joined(g, k) = b \o g[k]
  <2> HIDE DEF g, k
  <2> QED
    BY <1>3, <1>4, JoinedIs
<1> HIDE DEF a, b, call, g, k
<1>7. CASE Backend(er).trigger = trigger
  <2>1. Append(begin \o (a \o b), call) = begin \o (a \o (b \o <<call>>))
    <3>1. a \in Seq(Calls) /\ b \in Seq(Calls) /\ call \in Calls
      BY <1>1, <1>5
    <3>2. GroupedOne(begin, a, b, call)
      BY <3>1, RegroupedOne
    <3> QED
      BY <3>2 DEF GroupedOne
  <2>2. Append(R, call) = begin \o (a \o Joined(g, k))
    BY <1>1, <1>5, <1>6, <1>7, <2>1
  <2> QED
    BY <1>2, <1>3, <1>7, <2>2 DEF InEvent, a, g, call, k
<1>8. CASE Backend(er).trigger # trigger
  <2>1. b \o <<>> = b
    BY <1>1
  <2>2. R = begin \o (a \o Joined(g, k))
    BY <1>1, <1>5, <1>6, <1>8, <2>1
  <2> QED
    BY <1>2, <1>3, <1>8, <2>2 DEF InEvent, a, g, k
<1> QED
  BY <1>7, <1>8

(* At the end of a list that is not the last the next one begins. *)
LEMMA NextList ==
    ASSUME NEW R, NEW e \in Nat, NEW trigger, NEW v \in 1 .. MaxVersion, NEW regs \in Seq(Firsts),
           NEW l, NEW begin \in Seq(Calls),
           InEvent(R, e, trigger, v, regs, l, Len(Chain(regs[l].list)), begin), l < Len(regs)
    PROVE  InEvent(R, e, trigger, v, regs, l + 1, 0, begin)
<1> DEFINE list == regs[l].list
           n == Len(Chain(list))
           m == l - 1
           k == l + 1
           f == ListCalls(e, trigger, v, regs)
           a == Joined(f, m)
           b == Joined(ChainCalls(e, trigger, v, list), n)
           next == ChainCalls(e, trigger, v, regs[k].list)
           zero == 0
<1>1. R = begin \o (a \o b) /\ a \o b = Joined(f, l) /\ a \in Seq(Calls) /\ b \in Seq(Calls)
  <2>1. EventParts(R, e, trigger, v, regs, l, Len(Chain(regs[l].list)), begin)
    <3> DEFINE x == Len(Chain(regs[l].list))
    <3>1. InEvent(R, e, trigger, v, regs, l, x, begin)
      OBVIOUS
    <3> HIDE DEF x
    <3>2. EventParts(R, e, trigger, v, regs, l, x, begin)
      BY <3>1, InEventParts
    <3> QED
      BY <3>2 DEF x
  <2> QED
    BY <2>1 DEF EventParts
<1>2. l \in 1 .. Len(regs)
  BY DEF InEvent
<1>3. k \in 1 .. Len(regs) /\ k \in 0 .. Len(regs) /\ k # 0 /\ k - 1 = l
  BY <1>2
<1>4. regs[k].list \in {"server", "mount"}
  BY <1>3, ListCallsParts
<1>5. zero \in 0 .. Len(Chain(regs[k].list))
  BY ChainType
<1>6. Parts(next, zero, Calls)
  BY <1>4, <1>5, ChainCallsParts
<1> HIDE DEF f, a, b, next, k
<1>7. Joined(next, 0) = <<>>
  BY <1>6, JoinedIs
<1>8. (a \o b) \o <<>> = a \o b
  BY <1>1
<1>9. R = begin \o (Joined(f, k - 1) \o Joined(next, 0))
  BY <1>1, <1>3, <1>7, <1>8
<1> QED
  BY <1>3, <1>5, <1>9 DEF InEvent, f, next, k

(* At the end of the last list everything was called. *)
LEMMA EventEnds ==
    ASSUME NEW R, NEW e \in Nat, NEW trigger, NEW v \in 1 .. MaxVersion, NEW regs \in Seq(Firsts),
           NEW l, NEW begin \in Seq(Calls),
           InEvent(R, e, trigger, v, regs, l, Len(Chain(regs[l].list)), begin), l = Len(regs)
    PROVE  R = begin \o EventCalls(e, trigger, v, regs)
<1> DEFINE x == Len(Chain(regs[l].list))
<1>1. InEvent(R, e, trigger, v, regs, l, x, begin)
  OBVIOUS
<1> HIDE DEF x
<1>2. EventParts(R, e, trigger, v, regs, l, x, begin)
  BY <1>1, InEventParts
<1> QED
  BY <1>2 DEF EventParts, EventCalls, x

(* Before that, what was called begins what is to be called. *)
Begins(R, all) == \E rest \in Seq(Calls) : all = R \o rest
LEMMA EventBegun ==
    ASSUME NEW R, NEW e \in Nat, NEW trigger, NEW v \in 1 .. MaxVersion, NEW regs \in Seq(Firsts),
           NEW l, NEW n, NEW begin \in Seq(Calls), InEvent(R, e, trigger, v, regs, l, n, begin)
    PROVE  Begins(R, begin \o EventCalls(e, trigger, v, regs))
<1> DEFINE list == regs[l].list
           m == l - 1
           k == Len(Chain(list))
           top == Len(regs)
           f == ListCalls(e, trigger, v, regs)
           g == ChainCalls(e, trigger, v, list)
           a == Joined(f, m)
           b == Joined(g, n)
           all == Joined(f, top)
<1>1. /\ list \in {"server", "mount"} /\ k \in Nat /\ a \in Seq(Calls)
      /\ b \in Seq(Calls) /\ R = begin \o (a \o b) /\ a \o Joined(g, k) = Joined(f, l)
  <2>1. EventParts(R, e, trigger, v, regs, l, n, begin)
    BY InEventParts
  <2> QED
    BY <2>1 DEF EventParts
<1>2. l \in 1 .. top /\ n \in 0 .. k /\ l \in 0 .. top /\ k \in 0 .. k /\ top \in 0 .. top
  BY <1>1 DEF InEvent
<1>3. Parts(f, top, Calls) /\ Parts(g, k, Calls)
  BY <1>1, <1>2, ListCallsParts, ChainCallsParts
<1> HIDE DEF f, g, k, m, top
<1>4. PICK r1 \in Seq(Calls) : Joined(g, k) = b \o r1
  BY <1>2, <1>3, JoinedRest, ZenonT(60)
<1>5. PICK r2 \in Seq(Calls) : all = Joined(f, l) \o r2
  BY <1>2, <1>3, JoinedRest, ZenonT(60)
<1>6. EventCalls(e, trigger, v, regs) = all
  BY DEF EventCalls, all, f, top
<1> HIDE DEF a, b, all
<1>7. all = (a \o (b \o r1)) \o r2
  BY <1>1, <1>4, <1>5
<1>8. begin \o ((a \o (b \o r1)) \o r2) = (begin \o (a \o b)) \o (r1 \o r2) /\ r1 \o r2 \in Seq(Calls)
  <2>1. Grouped(begin, a, b, r1, r2)
    BY <1>1, Regrouped
  <2>2. r1 \o r2 \in Seq(Calls)
    OBVIOUS
  <2> QED
    BY <2>1, <2>2 DEF Grouped
<1>9. begin \o EventCalls(e, trigger, v, regs) = R \o (r1 \o r2)
  BY <1>1, <1>6, <1>7, <1>8
<1> QED
  BY <1>8, <1>9 DEF Begins

(* What is known of an event in P, and of the calls before it *)
LEMMA EventIn ==
    ASSUME NEW E, NEW P, Described(E, P), NEW k \in 1 .. Len(P)
    PROVE  /\ k \in Nat /\ k - 1 \in 0 .. Len(P) /\ k \in 0 .. Len(P)
           /\ P[k] \in Nat /\ E[P[k]].version \in 1 .. MaxVersion /\ E[P[k]].reglist \in Seq(Firsts)
           /\ Joined(QueueCalls(E, P), k - 1) \in Seq(Calls)
           /\ Joined(QueueCalls(E, P), k)
                = Joined(QueueCalls(E, P), k - 1)
                  \o EventCalls(P[k], E[P[k]].trigger, E[P[k]].version, E[P[k]].reglist)
<1> DEFINE f == QueueCalls(E, P)
           m == k - 1
<1>1. Len(P) \in Nat
  BY DEF Described
<1>2. m \in 0 .. Len(P) /\ k \in 0 .. Len(P) /\ k # 0 /\ k \in Nat
  BY <1>1
<1>3. P[k] \in Nat /\ E[P[k]].version \in 1 .. MaxVersion /\ E[P[k]].reglist \in Seq(Firsts)
  BY DEF Described
<1>4. /\ Parts(f, m, Calls) /\ Parts(f, k, Calls)
      /\ f[k] = EventCalls(P[k], E[P[k]].trigger, E[P[k]].version, E[P[k]].reglist)
  BY <1>2, QueueCallsParts
<1>5. Joined(f, m) \in Seq(Calls)
  <2> HIDE DEF f, m
  <2> QED
    BY <1>4, JoinedIs
<1>6. Joined(f, k) = Joined(f, k - 1) \o f[k]
  <2> HIDE DEF f, m
  <2> QED
    BY <1>2, <1>4, JoinedIs
<1> QED
  BY <1>2, <1>3, <1>4, <1>5, <1>6

(* The next event is taken. *)
LEMMA EventTaken ==
    ASSUME NEW E, NEW P, Described(E, P), NEW R, NEW k, Done(R, E, P, k), k < Len(P),
           E[P[k + 1]].reglist # <<>>
    PROVE  Within(R, E, P, k + 1, 1, 0)
<1> DEFINE n == k + 1
           begin == Joined(QueueCalls(E, P), n - 1)
<1>1. Len(P) \in Nat /\ k \in 0 .. Len(P) /\ R = Joined(QueueCalls(E, P), k)
  BY DEF Described, Done
<1>2. n \in 1 .. Len(P) /\ n - 1 = k
  BY <1>1
<1>3. /\ P[n] \in Nat /\ E[P[n]].version \in 1 .. MaxVersion /\ E[P[n]].reglist \in Seq(Firsts)
      /\ begin \in Seq(Calls)
  BY <1>2, EventIn
<1>4. R = begin
  BY <1>1, <1>2
<1> HIDE DEF n, begin
<1>5. E[P[n]].reglist # <<>>
  BY DEF n
<1>6. InEvent(begin, P[n], E[P[n]].trigger, E[P[n]].version, E[P[n]].reglist, 1, 0, begin)
  BY <1>3, <1>5, EventBegins
<1> QED
  BY <1>2, <1>4, <1>6 DEF Within, n, begin

(* The next registration is called, or not. *)
LEMMA RegistrationTried ==
    ASSUME NEW E, NEW P, Described(E, P), NEW R, NEW k, NEW l, NEW n, Within(R, E, P, k, l, n),
           n < Len(Chain(E[P[k]].reglist[l].list)), NEW er,
           er = Registration(E[P[k]].version, E[P[k]].reglist[l].list, n + 1)
    PROVE  IF Backend(er).trigger = E[P[k]].trigger
           THEN Within(Append(R, <<P[k], er>>), E, P, k, l, n + 1)
           ELSE Within(R, E, P, k, l, n + 1)
<1> DEFINE e == P[k]
           trigger == E[e].trigger
           v == E[e].version
           regs == E[e].reglist
           begin == Joined(QueueCalls(E, P), k - 1)
<1>1. k \in 1 .. Len(P) /\ InEvent(R, e, trigger, v, regs, l, n, begin)
  BY DEF Within
<1>2. e \in Nat /\ v \in 1 .. MaxVersion /\ regs \in Seq(Firsts) /\ begin \in Seq(Calls)
  BY <1>1, EventIn
<1>3. n < Len(Chain(regs[l].list)) /\ er = Registration(v, regs[l].list, n + 1)
  OBVIOUS
<1>4. IF Backend(er).trigger = trigger
      THEN InEvent(Append(R, <<e, er>>), e, trigger, v, regs, l, n + 1, begin)
      ELSE InEvent(R, e, trigger, v, regs, l, n + 1, begin)
  <2> HIDE DEF e, trigger, v, regs, begin
  <2> QED
    BY <1>1, <1>2, <1>3, EventGoesOn
<1> QED
  BY <1>1, <1>4 DEF Within

(* At the end of a list *)
LEMMA ListTried ==
    ASSUME NEW E, NEW P, Described(E, P), NEW R, NEW k, NEW l,
           Within(R, E, P, k, l, Len(Chain(E[P[k]].reglist[l].list)))
    PROVE  IF l < Len(E[P[k]].reglist) THEN Within(R, E, P, k, l + 1, 0) ELSE Done(R, E, P, k)
<1> DEFINE e == P[k]
           trigger == E[e].trigger
           v == E[e].version
           regs == E[e].reglist
           begin == Joined(QueueCalls(E, P), k - 1)
<1>1. /\ k \in 1 .. Len(P)
      /\ InEvent(R, e, trigger, v, regs, l, Len(Chain(regs[l].list)), begin)
  BY DEF Within
<1>2. e \in Nat /\ v \in 1 .. MaxVersion /\ regs \in Seq(Firsts) /\ begin \in Seq(Calls)
      /\ k \in 0 .. Len(P)
      /\ Joined(QueueCalls(E, P), k) = begin \o EventCalls(e, trigger, v, regs)
  BY <1>1, EventIn
<1>3. CASE l < Len(regs)
  <2>1. InEvent(R, e, trigger, v, regs, l + 1, 0, begin)
    <3> HIDE DEF e, trigger, v, regs, begin
    <3> QED
      BY <1>1, <1>2, <1>3, NextList
  <2> QED
    BY <1>1, <1>3, <2>1 DEF Within
<1>4. CASE ~(l < Len(regs))
  <2>1. l \in 1 .. Len(regs)
    BY <1>1 DEF InEvent
  <2>2. l = Len(regs)
    BY <1>2, <1>4, <2>1
  <2>3. R = begin \o EventCalls(e, trigger, v, regs)
    <3> HIDE DEF e, trigger, v, regs, begin
    <3> QED
      BY <1>1, <1>2, <2>2, EventEnds
  <2> QED
    BY <1>2, <1>4, <2>3 DEF Done
<1> QED
  BY <1>3, <1>4

(* What was called begins what the events that were taken call. *)
LEMMA WithinBegins ==
    ASSUME NEW E, NEW P, Described(E, P), NEW R, NEW k, NEW l, NEW n, Within(R, E, P, k, l, n)
    PROVE  IsPrefix(R, Joined(QueueCalls(E, P), k))
<1> DEFINE e == P[k]
           trigger == E[e].trigger
           v == E[e].version
           regs == E[e].reglist
           begin == Joined(QueueCalls(E, P), k - 1)
           all == Joined(QueueCalls(E, P), k)
<1>1. k \in 1 .. Len(P) /\ InEvent(R, e, trigger, v, regs, l, n, begin)
  BY DEF Within
<1>2. e \in Nat /\ v \in 1 .. MaxVersion /\ regs \in Seq(Firsts) /\ begin \in Seq(Calls)
      /\ all = begin \o EventCalls(e, trigger, v, regs)
  BY <1>1, EventIn
<1> HIDE DEF e, trigger, v, regs, begin, all
<1>3. PICK rest \in Seq(Calls) : all = R \o rest
  <2>1. Begins(R, begin \o EventCalls(e, trigger, v, regs))
    BY <1>1, <1>2, EventBegun
  <2> QED
    BY <1>2, <2>1 DEF Begins
<1>4. EventParts(R, e, trigger, v, regs, l, n, begin)
  BY <1>1, <1>2, InEventParts
<1>5. R \in Seq(Calls)
  BY <1>4 DEF EventParts
<1>6. Len(R) <= Len(all) /\ \A i \in 1 .. Len(R) : R[i] = all[i]
  BY <1>3, <1>5
<1> QED
  BY <1>3, <1>5, <1>6 DEF IsPrefix, all

(* The events that were taken are the same. *)
Same(E, P, F, S, k) ==
    /\ Described(E, P) /\ Described(F, S) /\ k \in 0 .. Len(P) /\ k \in 0 .. Len(S)
    /\ \A i \in 1 .. k : /\ S[i] = P[i] /\ F[P[i]].trigger = E[P[i]].trigger
                         /\ F[P[i]].version = E[P[i]].version /\ F[P[i]].reglist = E[P[i]].reglist

(* The calls for events that stay as they are stay the same. *)
LEMMA SameCalls ==
    ASSUME NEW E, NEW P, NEW F, NEW S, NEW k, Same(E, P, F, S, k), NEW j \in 0 .. k
    PROVE  Joined(QueueCalls(F, S), j) = Joined(QueueCalls(E, P), j)
<1> DEFINE f == QueueCalls(E, P)
           d == QueueCalls(F, S)
<1>1. /\ Described(E, P) /\ Described(F, S) /\ k \in 0 .. Len(P) /\ k \in 0 .. Len(S)
      /\ \A i \in 1 .. k : /\ S[i] = P[i] /\ F[P[i]].trigger = E[P[i]].trigger
                           /\ F[P[i]].version = E[P[i]].version /\ F[P[i]].reglist = E[P[i]].reglist
  BY DEF Same
<1>2. Len(P) \in Nat /\ Len(S) \in Nat
  BY <1>1 DEF Described
<1>3. j \in 0 .. Len(P) /\ \A i \in 1 .. j : i \in 1 .. k /\ i # 0 /\ i \in 0 .. Len(P) /\ i \in 0 .. Len(S)
  BY <1>1, <1>2
<1>4. ASSUME NEW i \in 1 .. j PROVE d[i] = f[i]
  <2>1. f[i] = EventCalls(P[i], E[P[i]].trigger, E[P[i]].version, E[P[i]].reglist)
    BY <1>1, <1>3, QueueCallsParts
  <2>2. d[i] = EventCalls(S[i], F[S[i]].trigger, F[S[i]].version, F[S[i]].reglist)
    BY <1>1, <1>3, QueueCallsParts
  <2>3. /\ S[i] = P[i] /\ F[P[i]].trigger = E[P[i]].trigger
        /\ F[P[i]].version = E[P[i]].version /\ F[P[i]].reglist = E[P[i]].reglist
    BY <1>1, <1>3
  <2> QED
    BY <2>1, <2>2, <2>3
<1>5. Parts(f, j, Calls)
  BY <1>1, <1>3, QueueCallsParts
<1> HIDE DEF f, d
<1>6. Joined(d, j) = Joined(f, j)
  BY <1>4, <1>5, JoinedSame
<1> QED
  BY <1>6 DEF f, d

LEMMA SameProgress ==
    ASSUME NEW E, NEW P, NEW F, NEW S, NEW k, Same(E, P, F, S, k), NEW R
    PROVE  /\ Done(R, E, P, k) => Done(R, F, S, k)
           /\ \A l, n : Within(R, E, P, k, l, n) => Within(R, F, S, k, l, n)
<1>1. Len(P) \in Nat /\ Len(S) \in Nat /\ k \in 0 .. Len(P) /\ k \in 0 .. Len(S)
  BY DEF Same, Described
<1>2. Done(R, E, P, k) => Done(R, F, S, k)
  <2>1. k \in 0 .. k
    BY <1>1
  <2>2. Joined(QueueCalls(F, S), k) = Joined(QueueCalls(E, P), k)
    BY <2>1, SameCalls
  <2> QED
    BY <1>1, <2>2 DEF Done
<1>3. ASSUME NEW l, NEW n, Within(R, E, P, k, l, n)
      PROVE  Within(R, F, S, k, l, n)
  <2> DEFINE m == k - 1
  <2>1. /\ k \in 1 .. Len(P)
        /\ InEvent(R, P[k], E[P[k]].trigger, E[P[k]].version, E[P[k]].reglist, l, n,
                   Joined(QueueCalls(E, P), m))
    BY <1>3 DEF Within
  <2>2. k \in 1 .. Len(S) /\ k \in 1 .. k /\ m \in 0 .. k
    BY <1>1, <2>1
  <2>3. /\ S[k] = P[k] /\ F[P[k]].trigger = E[P[k]].trigger
        /\ F[P[k]].version = E[P[k]].version /\ F[P[k]].reglist = E[P[k]].reglist
    BY <2>2 DEF Same
  <2>4. Joined(QueueCalls(F, S), m) = Joined(QueueCalls(E, P), m)
    <3> HIDE DEF m
    <3> QED
      BY <2>2, SameCalls
  <2>5. InEvent(R, S[k], F[S[k]].trigger, F[S[k]].version, F[S[k]].reglist, l, n,
                Joined(QueueCalls(F, S), m))
    BY <2>1, <2>3, <2>4
  <2> QED
    BY <2>2, <2>5 DEF Within
<1> QED
  BY <1>2, <1>3

----------------------------------------------------------------------------
(* The order of the calls: the invariant *)

(* The configuration is read by the threads that look for chains in it, so *)
(* an event has the chains of one configuration.                           *)
Locks ==
    /\ configLock.writer \in {Nobody, Slave} /\ (Reading => configLock.writer = Slave)
    /\ configLock.writer # Nobody => configLock.readers = {}
    /\ \A t \in Emitters : emitter[t].at \in {"server", "mount"} =>
         t \in configLock.readers /\ events[emitter[t].event].version = version
    /\ configLock = [writer |-> configLock.writer, readers |-> configLock.readers]
OneVersion == \A e \in DOMAIN events : \A i \in 1 .. Len(events[e].reglist) :
    events[e].reglist[i].version = events[e].version

(* An event that was in the queue is not changed by who emits it.          *)
Settled ==
    /\ pushed \in Seq(Nat) /\ Len(queue) <= Len(pushed)
    /\ \A i \in 1 .. Len(pushed) :
         /\ pushed[i] \in DOMAIN events
         /\ \A t \in Emitters : emitter[t].at # "none" => emitter[t].event # pushed[i]

(* How many events were taken from the queue, and how many registrations   *)
(* of its list the event thread has passed.                                *)
Taken == Len(pushed) - Len(queue)
Passed == IF runner.at = "lock" THEN 0
          ELSE IF runner.at = "next" THEN runner.er.no ELSE runner.er.no - 1
AtEvent ==
    /\ Within(ran, events, pushed, Taken, runner.list, Passed)
    /\ runner.event = pushed[Taken]
    /\ runner.at \in {"config", "url"} => Matches(runner.er, runner.event)
InOrder ==
    running =>
        /\ \A i \in 1 .. Len(queue) : queue[i] = pushed[Taken + i]
        /\ runner.at # "ended" /\ runner.last = FALSE
        /\ IF runner.at = "pop" THEN Done(ran, events, pushed, Taken) ELSE AtEvent
Order == Locks /\ OneVersion /\ Settled /\ InOrder

(* The events that were queued are described, before and after a step. *)
LEMMA PushedDescribed ==
    ASSUME TypeOK, Settled
    PROVE  Described(events, pushed) /\ Len(pushed) \in Nat /\ Len(queue) \in Nat /\ Taken \in 0 .. Len(pushed)
<1>1. /\ pushed \in Seq(Nat) /\ Len(queue) <= Len(pushed)
      /\ \A i \in 1 .. Len(pushed) : pushed[i] \in DOMAIN events
  BY DEF Settled
<1>2. queue \in Seq(Nat) /\ \A e \in DOMAIN events : events[e] \in Event
  BY HolderTypes
<1>3. \A e \in DOMAIN events : events[e].version \in 1 .. MaxVersion /\ events[e].reglist \in Seq(Firsts)
  BY <1>2 DEF Event
<1>4. Described(events, pushed)
  BY <1>1, <1>3 DEF Described
<1>5. Len(pushed) \in Nat /\ Len(queue) \in Nat
  BY <1>1, <1>2
<1>6. Taken \in 0 .. Len(pushed)
  BY <1>1, <1>5 DEF Taken
<1> QED
  BY <1>4, <1>5, <1>6

LEMMA PushedDescribedNext ==
    ASSUME TypeOK', Settled'
    PROVE  Described(events', pushed') /\ Len(pushed') \in Nat /\ Len(queue') \in Nat
<1>1. /\ pushed' \in Seq(Nat) /\ \A i \in 1 .. Len(pushed') : pushed'[i] \in DOMAIN events'
  BY DEF Settled
<1>2. queue' \in Seq(Nat) /\ events' \in Seq(Event)
  BY DEF TypeOK
<1>3. \A e \in DOMAIN events' : events'[e].version \in 1 .. MaxVersion
                                /\ events'[e].reglist \in Seq(Firsts)
  <2>1. \A e \in DOMAIN events' : events'[e] \in Event
    BY <1>2
  <2> QED
    BY <2>1 DEF Event
<1> QED
  BY <1>1, <1>2, <1>3 DEF Described

(* The calls of the state are those of its events. *)
LEMMA CalledIs == CalledInQueue = QueueCalls(events, pushed)
<1>1. ASSUME NEW e, NEW list
      PROVE  CalledInChain(e, list) = ChainCalls(e, events[e].trigger, events[e].version, list)
  BY Zenon DEF CalledInChain, ChainCalls, Matches
<1>2. ASSUME NEW e
      PROVE  CalledInLists(e) = ListCalls(e, events[e].trigger, events[e].version, events[e].reglist)
  BY <1>1, Zenon DEF CalledInLists, ListCalls
<1>3. ASSUME NEW e
      PROVE  Called(e) = EventCalls(e, events[e].trigger, events[e].version, events[e].reglist)
  BY <1>2, Zenon DEF Called, EventCalls
<1> QED
  BY <1>3, Zenon DEF CalledInQueue, QueueCalls

(* The order implies that back ends are called for each event in turn. *)
LEMMA OrderRuns ==
    ASSUME IInv, Order
    PROVE  EventsRun
<1> DEFINE calls == Joined(CalledInQueue, Len(pushed) - Len(queue))
<1>1. TypeOK /\ Settled /\ InOrder
  BY DEF IInv, Core, Order
<1>2. Described(events, pushed) /\ Taken \in 0 .. Len(pushed)
  BY <1>1, PushedDescribed
<1>3. calls = Joined(QueueCalls(events, pushed), Taken)
  BY CalledIs DEF Taken
<1> SUFFICES ASSUME running
             PROVE  IsPrefix(ran, calls) /\ (runner.at = "pop" => ran = calls)
  BY DEF EventsRun
<1>4. CASE runner.at = "pop"
  <2>1. ran = calls
    BY <1>1, <1>3, <1>4 DEF InOrder, Done
  <2>2. Parts(QueueCalls(events, pushed), Taken, Calls)
    BY <1>2, QueueCallsParts
  <2>3. Joined(QueueCalls(events, pushed), Taken) \in Seq(Calls)
    BY <2>2, JoinedIs
  <2> HIDE DEF calls
  <2>4. calls \in Seq(Calls)
    BY <1>3, <2>3
  <2>5. IsPrefix(calls, calls)
    BY <2>4 DEF IsPrefix
  <2> QED
    BY <2>1, <2>5
<1>5. CASE runner.at # "pop"
  <2>1. Within(ran, events, pushed, Taken, runner.list, Passed)
    BY <1>1, <1>5 DEF InOrder, AtEvent
  <2>2. IsPrefix(ran, Joined(QueueCalls(events, pushed), Taken))
    BY <1>2, <2>1, WithinBegins
  <2> QED
    BY <1>3, <1>5, <2>2
<1> QED
  BY <1>4, <1>5

(* Nothing was called yet. *)
LEMMA InitOrder == Init => Order
<1> SUFFICES ASSUME Init PROVE Order
  OBVIOUS
<1>1. EventsInit /\ slave = "idle"
  BY DEF Init
<1>2. /\ configLock = [writer |-> Nobody, readers |-> {}] /\ events = <<>> /\ queue = <<>>
      /\ pushed = <<>> /\ runner = Waiting /\ ran = <<>>
      /\ emitter = [t \in Emitters |-> [at |-> "none", event |-> 0]]
  BY <1>1 DEF EventsInit
<1>3. \A t \in Emitters : emitter[t].at = "none"
  BY <1>2
<1>4. Locks
  BY <1>1, <1>2, <1>3 DEF Locks, Reading
<1>5. OneVersion /\ Settled
  BY <1>2 DEF OneVersion, Settled
<1>6. InOrder
  <2>1. runner.at = "pop" /\ runner.last = FALSE
    BY <1>2 DEF Waiting
  <2>2. Taken = 0 /\ Len(pushed) = 0 /\ Len(queue) = 0
    BY <1>2 DEF Taken
  <2> DEFINE zero == 0
  <2>3. Described(events, pushed) /\ zero \in 0 .. Len(pushed)
    BY <1>2 DEF Described
  <2>4. Parts(QueueCalls(events, pushed), zero, Calls)
    <3> HIDE DEF zero
    <3> QED
      BY <2>3, QueueCallsParts
  <2>5. Joined(QueueCalls(events, pushed), 0) = <<>>
    BY <2>4, JoinedIs
  <2>6. Done(ran, events, pushed, Taken)
    BY <1>2, <2>2, <2>3, <2>5 DEF Done
  <2> QED
    BY <2>1, <2>2, <2>6 DEF InOrder
<1> QED
  BY <1>4, <1>5, <1>6 DEF Order

----------------------------------------------------------------------------
(* The order of the calls: steps *)

(* What events call does not change. *)
Alike(e) == /\ events'[e].trigger = events[e].trigger /\ events'[e].version = events[e].version
            /\ events'[e].reglist = events[e].reglist

(* Steps that leave the event thread and the queue alone *)
LEMMA InOrderKept ==
    ASSUME IInv, Order, TypeOK', Settled', \A i \in 1 .. Len(pushed) : Alike(pushed[i]),
           UNCHANGED <<queue, pushed, running, runner, ran>>
    PROVE  InOrder'
<1>1. TypeOK /\ Settled /\ InOrder
  BY DEF IInv, Core, Order
<1>2. /\ Described(events, pushed) /\ Len(pushed) \in Nat /\ Len(queue) \in Nat
      /\ Taken \in 0 .. Len(pushed)
  BY <1>1, PushedDescribed
<1>3. Described(events', pushed)
  BY PushedDescribedNext
<1>4. Taken' = Taken /\ Passed' = Passed
  BY DEF Taken, Passed
<1>5. \A i \in 1 .. Taken : i \in 1 .. Len(pushed)
  BY <1>2
<1>6. Same(events, pushed, events', pushed, Taken)
  BY <1>2, <1>3, <1>5 DEF Same, Alike
<1> SUFFICES ASSUME running PROVE InOrder'
  BY DEF InOrder
<1>7. CASE runner.at = "pop"
  <2>1. Done(ran, events', pushed, Taken)
    BY <1>1, <1>6, <1>7, SameProgress DEF InOrder
  <2> QED
    BY <1>1, <1>4, <1>7, <2>1 DEF InOrder
<1>8. CASE runner.at # "pop"
  <2>1. Within(ran, events', pushed, Taken, runner.list, Passed)
    BY <1>1, <1>6, <1>8, SameProgress DEF InOrder, AtEvent
  <2>2. runner.event = pushed[Taken] /\ (runner.at \in {"config", "url"} => Matches(runner.er, runner.event))
    BY <1>1, <1>8 DEF InOrder, AtEvent
  <2>3. Taken \in 1 .. Len(pushed)
    BY <2>1 DEF Within
  <2>4. events'[runner.event].trigger = events[runner.event].trigger
    BY <2>2, <2>3 DEF Alike
  <2>5. AtEvent'
    BY <1>4, <2>1, <2>2, <2>4 DEF AtEvent, Matches
  <2> QED
    BY <1>1, <1>4, <1>8, <2>5 DEF InOrder
<1> QED
  BY <1>7, <1>8

(* Steps that do not emit events: registrations and counts may change. *)
LEMMA OrderElsewhere ==
    ASSUME IInv, IInv', Order, DOMAIN events' = DOMAIN events, \A e \in DOMAIN events : Alike(e),
           Locks', UNCHANGED <<queue, pushed, running, runner, ran, emitter>>
    PROVE  Order'
<1>1. Settled /\ OneVersion /\ TypeOK'
  BY DEF IInv, Core, Order
<1>2. OneVersion'
  BY <1>1 DEF OneVersion, Alike
<1>3. Settled'
  BY <1>1 DEF Settled
<1>4. InOrder'
  <2>1. \A i \in 1 .. Len(pushed) : Alike(pushed[i])
    BY <1>1 DEF Settled
  <2> QED
    BY <1>1, <1>3, <2>1, InOrderKept
<1> QED
  BY <1>2, <1>3, <1>4 DEF Order

(* The locks, when neither they nor the configuration change *)
LEMMA LocksKept ==
    ASSUME IInv, Order, \A e \in DOMAIN events : Alike(e), Reading' => Reading,
           UNCHANGED <<configLock, version, emitter>>
    PROVE  Locks'
<1>1. Locks
  BY DEF Order
<1>2. ASSUME NEW t \in Emitters, emitter[t].at \in {"server", "mount"}
      PROVE  t \in configLock.readers /\ events'[emitter[t].event].version = version
  <2>1. emitter[t].event \in DOMAIN events
    BY <1>2, EmitterAlone
  <2> QED
    BY <1>1, <1>2, <2>1 DEF Locks, Alike
<1> QED
  BY <1>1, <1>2 DEF Locks

(* Releases, the slave thread, threads that emit, sources and the main     *)
(* thread keep the order.                                                  *)
LEMMA ReleaseOrder ==
    ASSUME IInv, IInv', Order, NEW t \in Emitters \cup {Runner}, Release(t), UNCHANGED slave
    PROVE  Order'
<1>1. UNCHANGED <<queue, pushed, running, runner, ran, emitter, configLock, version>>
  BY DEF Release, ReleaseBegin, ReleaseRace, ReleaseEnd, ReleaseKeeps, queueVars, configVars, lockVars
<1>2. DOMAIN events' = DOMAIN events /\ \A e \in DOMAIN events : Alike(e)
  <2>1. CASE events' = events
    BY <2>1 DEF Alike
  <2>2. CASE ReleaseEnd(t)
    <3> DEFINE e == ToRelease(t)
               last == events[e].count = 1
               hang == IF last THEN <<>> ELSE events[e].next \o Tail(work[t])
               c == events[e].count - 1
    <3>1. events' = [events EXCEPT ![e].count = @ - 1,
                        ![e].next = IF last THEN <<>> ELSE @ \o Tail(work[t])]
      BY <2>2 DEF ReleaseEnd
    <3>2. TypeOK /\ events \in Seq(Event)
      BY DEF IInv, Core, TypeOK
    <3>3. e \in DOMAIN events
      <4>1. work[t] # <<>>
        BY <2>2 DEF ReleaseEnd
      <4> QED
        BY <4>1, WorkHolds, HeldLives DEF IInv, Core
    <3>4. events[e] \in Event
      BY <3>2, <3>3, HolderTypes
    <3> HIDE DEF e, last
    <3>5. events' = [events EXCEPT ![e] = [events[e] EXCEPT !.count = c, !.next = hang]]
      BY <3>1, <3>2, <3>3, <3>4 DEF Event
    <3> HIDE DEF c, hang
    <3>6. DOMAIN events' = DOMAIN events
      BY <3>5
    <3>7. \A x \in DOMAIN events : x # e => events'[x] = events[x]
      BY <3>5
    <3>8. events'[e] = [events[e] EXCEPT !.count = c, !.next = hang]
      BY <3>3, <3>5
    <3>9. Alike(e)
      BY <3>4, <3>8 DEF Alike, Event
    <3> QED
      BY <3>6, <3>7, <3>9 DEF Alike
  <2> QED
    BY <2>1, <2>2 DEF Release, ReleaseBegin, ReleaseRace
<1>3. Reading' => Reading
  BY DEF Reading
<1>4. Locks'
  BY <1>1, <1>2, <1>3, LocksKept
<1> QED
  BY <1>1, <1>2, <1>4, OrderElsewhere

LEMMA SlaveThreadOrder ==
    ASSUME IInv, IInv', Order, SlaveThread
    PROVE  Order'
<1>1. UNCHANGED <<queue, pushed, running, runner, ran, emitter, events>>
  BY DEF SlaveThread, ScheduledReread, GrabConfig, ClearAuth, ClearServer, ClearMounts, ClearEvents,
         SetConfig, RereadDone, SlaveEnds, eventsVars, queueVars
<1>2. DOMAIN events' = DOMAIN events /\ \A e \in DOMAIN events : Alike(e)
  BY <1>1 DEF Alike
<1>3. Locks
  BY DEF Order
<1>4. Slave # Nobody
  BY Distinct
<1>5. Locks'
  <2>1. CASE ScheduledReread \/ ClearAuth \/ ClearServer \/ ClearMounts \/ SlaveEnds
    <3>1. UNCHANGED <<configLock, version>>
      BY <2>1 DEF ScheduledReread, ClearAuth, ClearServer, ClearMounts, ClearEvents, SlaveEnds,
                  eventsVars, lockVars, configVars
    <3>2. Reading' => Reading
      BY <2>1 DEF ScheduledReread, ClearAuth, ClearServer, ClearMounts, SlaveEnds, SlaveAt, Reading
    <3> QED
      BY <1>1, <1>2, <3>1, <3>2, LocksKept
  <2>2. CASE GrabConfig
    <3>1. /\ configLock.readers = {} /\ configLock' = [configLock EXCEPT !.writer = Slave]
          /\ version' = version
      BY <2>2 DEF GrabConfig
    <3>2. configLock' = [writer |-> Slave, readers |-> {}]
      BY <1>3, <3>1 DEF Locks
    <3>3. \A t \in Emitters : emitter[t].at \notin {"server", "mount"}
      BY <1>3, <3>1 DEF Locks
    <3> QED
      BY <1>1, <3>2, <3>3 DEF Locks
  <2>3. CASE SetConfig
    <3>1. slave = "yp" /\ configLock' = configLock /\ slave' = "release"
      BY <2>3 DEF SetConfig, SlaveAt, lockVars
    <3>2. configLock.readers = {}
      BY <1>3, <1>4, <3>1 DEF Locks, Reading
    <3>3. \A t \in Emitters : emitter[t].at \notin {"server", "mount"}
      BY <1>3, <3>2 DEF Locks
    <3> QED
      BY <1>1, <1>3, <3>1, <3>3 DEF Locks, Reading
  <2>4. CASE RereadDone
    <3>1. /\ configLock' = [configLock EXCEPT !.writer = Nobody] /\ version' = version
          /\ slave' = "idle"
      BY <2>4 DEF RereadDone, SlaveAt, configVars
    <3>2. configLock' = [writer |-> Nobody, readers |-> configLock.readers]
      BY <1>3, <3>1 DEF Locks
    <3> QED
      BY <1>1, <1>3, <3>1, <3>2 DEF Locks, Reading
  <2> QED
    BY <2>1, <2>2, <2>3, <2>4 DEF SlaveThread
<1> QED
  BY <1>1, <1>2, <1>5, OrderElsewhere

(* event_emit_clientevent: the event has the current configuration. *)
LEMMA EmitStartOrder ==
    ASSUME IInv, IInv', Order, NEW t \in Emitters, NEW trigger, EmitStart(t, trigger), UNCHANGED slave
    PROVE  Order'
<1> DEFINE e == Len(events) + 1
           new == [trigger |-> trigger, version |-> version, reglist |-> <<>>, count |-> 1,
                   next |-> <<>>]
<1>1. TypeOK /\ TypeOK' /\ Locks /\ OneVersion /\ Settled
  BY DEF IInv, Core, Order
<1>2. /\ events' = Append(events, new)
      /\ emitter' = [emitter EXCEPT ![t] = [at |-> "server", event |-> e]]
      /\ UNCHANGED <<version, queue, pushed, running, runner, ran>>
  BY DEF EmitStart, configVars, queueVars
<1>3. configLock.writer = Nobody /\ configLock' = [configLock EXCEPT !.readers = @ \cup {t}]
  BY DEF EmitStart, GetConfig, MayRead
<1>4. events \in Seq(Event) /\ DOMAIN events = 1 .. Len(events) /\ Len(events) \in Nat
  BY <1>1, HolderTypes DEF TypeOK
<1>5. /\ DOMAIN events' = DOMAIN events \cup {e} /\ e \notin DOMAIN events
      /\ \A x \in DOMAIN events : events'[x] = events[x]
      /\ events'[e] = new
  <2> HIDE DEF new
  <2> QED
    BY <1>2, <1>4
<1>6. events'[e].version = version /\ events'[e].reglist = <<>>
  BY <1>5
<1> HIDE DEF new, e
<1>7. /\ emitter'[t].at = "server" /\ emitter'[t].event = e
      /\ \A u \in Emitters : u # t => emitter'[u] = emitter[u]
  BY <1>1, <1>2 DEF TypeOK
<1>8. Locks'
  <2>1. configLock' = [writer |-> Nobody, readers |-> configLock.readers \cup {t}]
    BY <1>1, <1>3 DEF Locks
  <2>2. ~Reading'
    BY <1>1, <1>3, Distinct DEF Locks, Reading
  <2>3. ASSUME NEW u \in Emitters, emitter'[u].at \in {"server", "mount"}
        PROVE  u \in configLock'.readers /\ events'[emitter'[u].event].version = version
    <3>1. CASE u = t
      BY <1>6, <1>7, <2>1, <3>1
    <3>2. CASE u # t
      <4>1. emitter'[u] = emitter[u]
        BY <1>7, <3>2
      <4>2. emitter[u].event \in DOMAIN events
        BY <2>3, <4>1, EmitterAlone
      <4>3. u \in configLock.readers /\ events[emitter[u].event].version = version
        BY <1>1, <2>3, <4>1 DEF Locks
      <4> QED
        BY <1>5, <2>1, <4>1, <4>2, <4>3
    <3> QED
      BY <3>1, <3>2
  <2> QED
    BY <1>2, <2>1, <2>2, <2>3 DEF Locks
<1>9. OneVersion'
  BY <1>1, <1>5, <1>6 DEF OneVersion
<1>10. Settled'
  <2>1. \A i \in 1 .. Len(pushed) : pushed[i] \in DOMAIN events' /\ pushed[i] # e
    BY <1>1, <1>5 DEF Settled
  <2>2. \A i \in 1 .. Len(pushed) : \A u \in Emitters :
          emitter'[u].at # "none" => emitter'[u].event # pushed[i]
    BY <1>1, <1>7, <2>1 DEF Settled
  <2> QED
    BY <1>1, <1>2, <2>1, <2>2 DEF Settled
<1>11. InOrder'
  <2>1. \A i \in 1 .. Len(pushed) : Alike(pushed[i])
    BY <1>1, <1>5 DEF Settled, Alike
  <2> QED
    BY <1>1, <1>2, <1>10, <2>1, InOrderKept
<1> QED
  BY <1>8, <1>9, <1>10, <1>11 DEF Order

(* event_push_reglist: the chains are those of the event's configuration. *)
LEMMA PushReglistOrder ==
    ASSUME IInv, IInv', Order, NEW t \in Emitters, NEW list, NEW next \in {"mount", "push"},
           emitter[t].at \in {"server", "mount"}, PushReglist(t, list), EmitterAt(t, next),
           IF next = "push" THEN ReleaseConfig(t) ELSE UNCHANGED configLock,
           UNCHANGED <<version, queue, pushed, running, runner, ran, slave>>
    PROVE  Order'
<1> DEFINE e == emitter[t].event
<1>1. TypeOK /\ TypeOK' /\ Locks /\ OneVersion /\ Settled
  BY DEF IInv, Core, Order
<1>2. /\ e \in DOMAIN events
      /\ \A u \in Emitters : u # t /\ emitter[u].at # "none" => emitter[u].event # e
  BY EmitterAlone
<1>3. events[e].version = version
  BY <1>1 DEF Locks
<1>4. /\ emitter'[t].at = next /\ emitter'[t].event = e
      /\ \A u \in Emitters : u # t => emitter'[u] = emitter[u]
  BY <1>1 DEF EmitterAt, TypeOK
<1>5. events[e] \in Event /\ events[e].reglist \in Seq(Firsts)
  <2>1. events[e] \in Event
    BY <1>1, <1>2, HolderTypes
  <2> QED
    BY <2>1 DEF Event
<1> HIDE DEF e
<1>6. /\ DOMAIN events' = DOMAIN events /\ \A x \in DOMAIN events : x # e => events'[x] = events[x]
      /\ events'[e].version = version
      /\ \A i \in 1 .. Len(events'[e].reglist) : events'[e].reglist[i].version = version
  <2>1. CASE events' = events
    BY <1>1, <1>2, <1>3, <2>1 DEF OneVersion
  <2>2. CASE events' # events
    <3>1. PICK er \in heads : /\ er.version = version
                              /\ events' = [events EXCEPT ![e].reglist = Append(@, er)]
      BY <2>2 DEF PushReglist, e
    <3> DEFINE regs == Append(events[e].reglist, er)
    <3>2. er \in Firsts
      BY <1>1, <3>1 DEF TypeOK
    <3>3. \A i \in 1 .. Len(regs) : regs[i].version = version
      <4>1. Len(events[e].reglist) \in Nat /\ Len(regs) = Len(events[e].reglist) + 1
        BY <1>5, <3>2
      <4>2. ASSUME NEW i \in 1 .. Len(regs) PROVE regs[i].version = version
        <5>1. CASE i = Len(events[e].reglist) + 1
          BY <1>5, <3>1, <3>2, <5>1
        <5>2. CASE i \in 1 .. Len(events[e].reglist)
          <6>1. regs[i] = events[e].reglist[i]
            BY <1>5, <3>2, <5>2
          <6> QED
            BY <1>1, <1>2, <1>3, <5>2, <6>1 DEF OneVersion
        <5> QED
          BY <4>1, <5>1, <5>2
      <4> QED
        BY <4>2
    <3> HIDE DEF regs
    <3>4. events' = [events EXCEPT ![e] = [events[e] EXCEPT !.reglist = regs]]
      BY <1>2, <3>1 DEF regs
    <3>5. DOMAIN events' = DOMAIN events /\ \A x \in DOMAIN events : x # e => events'[x] = events[x]
      BY <3>4
    <3>6. events'[e] = [events[e] EXCEPT !.reglist = regs]
      BY <1>2, <3>4
    <3>7. events'[e].reglist = regs /\ events'[e].version = events[e].version
      BY <1>5, <3>6 DEF Event
    <3> QED
      BY <1>3, <3>3, <3>5, <3>7
  <2> QED
    BY <2>1, <2>2
<1>7. Locks'
  <2>1. configLock' = [writer |-> configLock.writer,
                       readers |-> IF next = "push" THEN configLock.readers \ {t} ELSE configLock.readers]
    BY <1>1 DEF Locks, ReleaseConfig
  <2>2. Reading' <=> Reading
    BY DEF Reading
  <2>3. ASSUME NEW u \in Emitters, emitter'[u].at \in {"server", "mount"}
        PROVE  u \in configLock'.readers /\ events'[emitter'[u].event].version = version
    <3>1. CASE u = t
      <4>1. next = "mount" /\ t \in configLock.readers
        BY <1>1, <1>4, <2>3, <3>1 DEF Locks
      <4> QED
        BY <1>4, <1>6, <2>1, <3>1, <4>1
    <3>2. CASE u # t
      <4>1. emitter'[u] = emitter[u]
        BY <1>4, <3>2
      <4>2. emitter[u].event \in DOMAIN events /\ emitter[u].event # e
        BY <1>2, <2>3, <3>2, <4>1, EmitterAlone
      <4>3. u \in configLock.readers /\ events[emitter[u].event].version = version
        BY <1>1, <2>3, <4>1 DEF Locks
      <4> QED
        BY <1>6, <2>1, <3>2, <4>1, <4>2, <4>3
    <3> QED
      BY <3>1, <3>2
  <2> QED
    BY <1>1, <2>1, <2>2, <2>3 DEF Locks
<1>8. OneVersion'
  BY <1>1, <1>6 DEF OneVersion
<1>9. \A i \in 1 .. Len(pushed) : pushed[i] \in DOMAIN events /\ pushed[i] # e
  BY <1>1 DEF Settled, e
<1>10. Settled'
  <2>1. \A i \in 1 .. Len(pushed) : \A u \in Emitters :
          emitter'[u].at # "none" => emitter'[u].event # pushed[i]
    BY <1>1, <1>4, <1>9 DEF Settled
  <2> QED
    BY <1>1, <1>6, <1>9, <2>1 DEF Settled
<1>11. InOrder'
  <2>1. \A i \in 1 .. Len(pushed) : Alike(pushed[i])
    BY <1>6, <1>9 DEF Alike
  <2> QED
    BY <1>1, <1>10, <2>1, InOrderKept
<1> QED
  BY <1>7, <1>8, <1>10, <1>11 DEF Order

(* event_push: the event is the last of the queue. *)
LEMMA EmitPushOrder ==
    ASSUME IInv, IInv', Order, NEW t \in Emitters, EmitPush(t), UNCHANGED slave
    PROVE  Order'
<1> DEFINE e == emitter[t].event
           put == events[e].reglist # <<>> /\ Room
           none == [at |-> "none", event |-> 0]
<1>1. TypeOK /\ TypeOK' /\ Locks /\ OneVersion /\ Settled /\ InOrder
  BY DEF IInv, Core, Order
<1>2. /\ emitter[t].at = "push" /\ emitter' = [emitter EXCEPT ![t] = none]
      /\ UNCHANGED <<configLock, version, running, runner, ran>>
      /\ IF put THEN /\ queue' = Append(queue, e) /\ pushed' = Append(pushed, e)
                     /\ events' = [events EXCEPT ![e].count = @ + 1]
         ELSE UNCHANGED <<queue, pushed, events>>
  BY DEF EmitPush, lockVars, configVars
<1>3. /\ e \in DOMAIN events
      /\ \A u \in Emitters : u # t /\ emitter[u].at # "none" => emitter[u].event # e
  BY <1>2, EmitterAlone
<1>4. e \in Nat
  BY <1>1, <1>3, HolderTypes
<1>5. emitter'[t].at = "none" /\ \A u \in Emitters : u # t => emitter'[u] = emitter[u]
  BY <1>1, <1>2 DEF TypeOK
<1>6. events[e] \in Event
  BY <1>1, <1>3, HolderTypes
<1> HIDE DEF e, put
<1>7. DOMAIN events' = DOMAIN events /\ \A x \in DOMAIN events : Alike(x)
  <2>1. CASE ~put
    BY <1>2, <2>1 DEF Alike
  <2>2. CASE put
    <3> DEFINE c == events[e].count + 1
    <3>1. events' = [events EXCEPT ![e] = [events[e] EXCEPT !.count = c]]
      BY <1>2, <1>3, <2>2
    <3> HIDE DEF c
    <3>2. DOMAIN events' = DOMAIN events /\ \A x \in DOMAIN events : x # e => events'[x] = events[x]
      BY <3>1
    <3>3. events'[e] = [events[e] EXCEPT !.count = c]
      BY <1>3, <3>1
    <3>4. Alike(e)
      BY <1>6, <3>3 DEF Alike, Event
    <3> QED
      BY <3>2, <3>4 DEF Alike
  <2> QED
    BY <2>1, <2>2
<1>8. Locks'
  <2>1. Reading' <=> Reading
    BY DEF Reading
  <2>2. ASSUME NEW u \in Emitters, emitter'[u].at \in {"server", "mount"}
        PROVE  u \in configLock.readers /\ events'[emitter'[u].event].version = version
    <3>1. u # t /\ emitter'[u] = emitter[u]
      BY <1>5, <2>2
    <3>2. emitter[u].event \in DOMAIN events
      BY <2>2, <3>1, EmitterAlone
    <3> QED
      BY <1>1, <1>7, <2>2, <3>1, <3>2 DEF Locks, Alike
  <2> QED
    BY <1>1, <1>2, <2>1, <2>2 DEF Locks
<1>9. OneVersion'
  BY <1>1, <1>7 DEF OneVersion, Alike
<1>10. CASE ~put
  <2>1. UNCHANGED <<queue, pushed>>
    BY <1>2, <1>10
  <2>2. Settled'
    BY <1>1, <1>5, <1>7, <2>1 DEF Settled
  <2>3. InOrder'
    <3>1. \A i \in 1 .. Len(pushed) : Alike(pushed[i])
      BY <1>1, <1>7 DEF Settled
    <3> QED
      BY <1>1, <1>2, <2>1, <2>2, <3>1, InOrderKept
  <2> QED
    BY <1>8, <1>9, <2>2, <2>3 DEF Order
<1>11. CASE put
  <2>1. queue' = Append(queue, e) /\ pushed' = Append(pushed, e)
    BY <1>2, <1>11
  <2>2. /\ Described(events, pushed) /\ Len(pushed) \in Nat /\ Len(queue) \in Nat
        /\ Taken \in 0 .. Len(pushed) /\ pushed \in Seq(Nat) /\ queue \in Seq(Nat)
        /\ Len(queue) <= Len(pushed)
    BY <1>1, PushedDescribed DEF Settled, TypeOK
  <2>3. /\ pushed' \in Seq(Nat) /\ Len(pushed') = Len(pushed) + 1
        /\ pushed'[Len(pushed) + 1] = e /\ \A i \in 1 .. Len(pushed) : pushed'[i] = pushed[i]
    BY <1>4, <2>1, <2>2
  <2>4. /\ Len(queue') = Len(queue) + 1 /\ queue'[Len(queue) + 1] = e
        /\ \A i \in 1 .. Len(queue) : queue'[i] = queue[i]
    BY <1>4, <2>1, <2>2
  <2>5. Settled'
    <3>1. ASSUME NEW i \in 1 .. Len(pushed')
          PROVE  /\ pushed'[i] \in DOMAIN events'
                 /\ \A u \in Emitters : emitter'[u].at # "none" => emitter'[u].event # pushed'[i]
      <4>1. CASE i = Len(pushed) + 1
        BY <1>3, <1>5, <1>7, <2>3, <4>1
      <4>2. CASE i \in 1 .. Len(pushed)
        BY <1>1, <1>5, <1>7, <2>3, <4>2 DEF Settled
      <4> QED
        BY <2>2, <2>3, <4>1, <4>2
    <3> QED
      BY <2>2, <2>3, <2>4, <3>1 DEF Settled
  <2>6. Taken' = Taken /\ Passed' = Passed /\ Taken \in 0 .. Len(pushed')
    BY <1>2, <2>2, <2>3, <2>4 DEF Taken, Passed
  <2>7. Described(events', pushed')
    BY <1>1, <2>5, PushedDescribedNext
  <2>8. Same(events, pushed, events', pushed', Taken)
    <3>1. \A i \in 1 .. Taken : i \in 1 .. Len(pushed)
      BY <2>2
    <3>2. \A i \in 1 .. Len(pushed) : pushed[i] \in DOMAIN events /\ pushed'[i] = pushed[i]
      BY <1>1, <2>3 DEF Settled
    <3> QED
      BY <1>7, <2>2, <2>6, <2>7, <3>1, <3>2 DEF Same, Alike
  <2>9. InOrder'
    <3> SUFFICES ASSUME running PROVE InOrder'
      BY <1>2 DEF InOrder
    <3>1. ASSUME NEW i \in 1 .. Len(queue') PROVE queue'[i] = pushed'[Taken + i]
      <4>1. CASE i = Len(queue) + 1
        BY <2>2, <2>3, <2>4, <4>1 DEF Taken
      <4>2. CASE i \in 1 .. Len(queue)
        <5>1. Taken + i \in 1 .. Len(pushed)
          BY <2>2, <4>2 DEF Taken
        <5>2. queue[i] = pushed[Taken + i]
          BY <1>1, <4>2 DEF InOrder
        <5> QED
          BY <2>3, <2>4, <4>2, <5>1, <5>2
      <4> QED
        BY <2>2, <2>4, <4>1, <4>2
    <3>2. runner.at # "ended" /\ runner.last = FALSE
      BY <1>1 DEF InOrder
    <3>3. CASE runner.at = "pop"
      <4>1. Done(ran, events', pushed', Taken)
        BY <1>1, <2>8, <3>3, SameProgress DEF InOrder
      <4> QED
        BY <1>2, <2>6, <3>1, <3>2, <3>3, <4>1 DEF InOrder
    <3>4. CASE runner.at # "pop"
      <4>1. /\ Within(ran, events, pushed, Taken, runner.list, Passed) /\ runner.event = pushed[Taken]
            /\ runner.at \in {"config", "url"} => Matches(runner.er, runner.event)
        BY <1>1, <3>4 DEF InOrder, AtEvent
      <4>2. Within(ran, events', pushed', Taken, runner.list, Passed)
        BY <2>8, <4>1, SameProgress
      <4>3. Taken \in 1 .. Len(pushed)
        BY <4>1 DEF Within
      <4>4. pushed'[Taken] = pushed[Taken] /\ Alike(runner.event)
        BY <1>1, <1>7, <2>3, <4>1, <4>3 DEF Settled
      <4>5. AtEvent'
        BY <1>2, <2>6, <4>1, <4>2, <4>4 DEF AtEvent, Matches, Alike
      <4> QED
        BY <1>2, <2>6, <3>1, <3>2, <3>4, <4>5 DEF InOrder
    <3> QED
      BY <3>3, <3>4
  <2> QED
    BY <1>8, <1>9, <2>5, <2>9 DEF Order
<1> QED
  BY <1>10, <1>11

(* The event thread does not change events, and takes them from the queue. *)
LEMMA RunnerKeepsOrder ==
    ASSUME IInv, Order, UNCHANGED <<slave, pushed, running>>, RunnerKeeps,
           Pop \/ FirstRegistration \/ UrlConfig \/ UrlEmit \/ NextRegistration \/ LastRegistration
    PROVE  Locks' /\ OneVersion' /\ Settled'
<1>1. TypeOK /\ Locks /\ OneVersion /\ Settled /\ UNCHANGED <<events, emitter, version>>
  BY DEF IInv, Core, Order, RunnerKeeps, configVars
<1>2. Runner \notin Emitters
  BY Distinct
<1>3. Locks'
  <2>1. Reading' <=> Reading
    BY DEF Reading
  <2>2. CASE configLock' = configLock
    BY <1>1, <2>1, <2>2 DEF Locks
  <2>3. CASE UrlConfig
    <3>1. configLock.writer = Nobody /\ configLock' = [configLock EXCEPT !.readers = @ \cup {Runner}]
      BY <2>3 DEF UrlConfig, GetConfig, MayRead
    <3>2. configLock' = [writer |-> Nobody, readers |-> configLock.readers \cup {Runner}]
      BY <1>1, <3>1 DEF Locks
    <3>3. ~Reading
      BY <1>1, <3>1, Distinct DEF Locks
    <3> QED
      BY <1>1, <2>1, <3>2, <3>3 DEF Locks
  <2>4. CASE UrlEmit
    <3>1. configLock' = [writer |-> configLock.writer, readers |-> configLock.readers \ {Runner}]
      BY <1>1, <2>4 DEF Locks, UrlEmit, ReleaseConfig
    <3> QED
      BY <1>1, <1>2, <2>1, <3>1 DEF Locks
  <2> QED
    BY <2>2, <2>3, <2>4 DEF Pop, FirstRegistration, NextRegistration, LastRegistration, lockVars
<1>4. OneVersion'
  BY <1>1 DEF OneVersion
<1>5. Len(queue') <= Len(queue) /\ Len(queue') \in Nat
  <2>1. queue \in Seq(Nat)
    BY <1>1 DEF TypeOK
  <2>2. queue' = queue \/ (queue # <<>> /\ queue' = Tail(queue))
    BY DEF Pop, FirstRegistration, UrlConfig, UrlEmit, NextRegistration, LastRegistration, queueVars
  <2> QED
    BY <2>1, <2>2
<1>6. Len(queue') <= Len(pushed)
  BY <1>1, <1>5, PushedDescribed DEF Settled
<1>7. Settled'
  BY <1>1, <1>6 DEF Settled
<1> QED
  BY <1>3, <1>4, <1>7

(* event_run_thread: the first event of the queue is the next that was     *)
(* put in it.                                                              *)
LEMMA PopOrder ==
    ASSUME IInv, Order, Pop, UNCHANGED slave
    PROVE  InOrder'
<1> DEFINE e == Head(queue)
           last == ~running
<1>1. TypeOK /\ AtChain /\ Settled /\ InOrder /\ runner.at = "pop"
  BY DEF IInv, Core, Order, Pop
<1>2. UNCHANGED <<events, pushed, running, ran>>
  BY DEF Pop, RunnerKeeps
<1> SUFFICES ASSUME running PROVE InOrder'
  BY <1>2 DEF InOrder
<1>3. /\ queue # <<>> /\ queue' = Tail(queue)
      /\ runner' = [Waiting EXCEPT !.at = "lock", !.event = e, !.last = last]
  BY DEF Pop
<1>4. last = FALSE
  OBVIOUS
<1> HIDE DEF e, last
<1>5. runner'.at = "lock" /\ runner'.event = e /\ runner'.list = 1 /\ runner'.last = FALSE
  BY <1>3, <1>4 DEF Waiting
<1>6. /\ Described(events, pushed) /\ Len(pushed) \in Nat /\ Len(queue) \in Nat
      /\ Taken \in 0 .. Len(pushed) /\ queue \in Seq(Nat) /\ Len(queue) <= Len(pushed)
  BY <1>1, PushedDescribed DEF Settled, TypeOK
<1>7. /\ Len(queue') = Len(queue) - 1 /\ Len(queue) >= 1 /\ e = queue[1]
      /\ \A i \in 1 .. Len(queue') : queue'[i] = queue[i + 1] /\ i + 1 \in 1 .. Len(queue)
  BY <1>3, <1>6 DEF e
<1>8. Taken' = Taken + 1 /\ Taken < Len(pushed) /\ 1 \in 1 .. Len(queue)
  BY <1>2, <1>6, <1>7 DEF Taken
<1>9. \A i \in 1 .. Len(queue) : queue[i] = pushed[Taken + i]
  BY <1>1 DEF InOrder
<1>10. e = pushed[Taken + 1] /\ events[e].reglist # <<>>
  BY <1>1, <1>7, <1>8, <1>9 DEF AtChain
<1>11. \A i \in 1 .. Len(queue') : queue'[i] = pushed[(Taken + 1) + i]
  <2> SUFFICES ASSUME NEW i \in 1 .. Len(queue') PROVE queue'[i] = pushed[(Taken + 1) + i]
    OBVIOUS
  <2>1. queue'[i] = queue[i + 1] /\ i + 1 \in 1 .. Len(queue)
    BY <1>7
  <2>2. queue[i + 1] = pushed[Taken + (i + 1)]
    BY <1>9, <2>1
  <2>3. Taken + (i + 1) = (Taken + 1) + i
    BY <1>6, <1>7
  <2> QED
    BY <2>1, <2>2, <2>3
<1>12. Within(ran, events, pushed, Taken + 1, 1, 0)
  <2>1. Done(ran, events, pushed, Taken)
    BY <1>1 DEF InOrder
  <2>2. events[pushed[Taken + 1]].reglist # <<>>
    BY <1>10
  <2> QED
    BY <1>6, <1>8, <2>1, <2>2, EventTaken
<1>13. Passed' = 0
  BY <1>5 DEF Passed
<1>14. AtEvent'
  BY <1>2, <1>5, <1>8, <1>10, <1>12, <1>13 DEF AtEvent
<1> QED
  BY <1>2, <1>5, <1>8, <1>11, <1>14 DEF InOrder

(* Where the event thread is in its event *)
LEMMA RunnerWithin ==
    ASSUME IInv, Order, running, runner.at \in {"lock", "config", "url", "next"}
    PROVE  LET x == events[pushed[Taken]]
               list == x.reglist[runner.list].list
           IN  /\ Described(events, pushed) /\ runner.event = pushed[Taken]
               /\ Within(ran, events, pushed, Taken, runner.list, Passed)
               /\ x.reglist[runner.list] \in Firsts /\ x.reglist[runner.list].version = x.version
               /\ runner.at # "lock" => /\ runner.er \in Reg /\ runner.er.no \in Nat
                                        /\ runner.er = Registration(x.version, list, runner.er.no)
                                        /\ runner.er.list = list /\ runner.er.version = x.version
<1> DEFINE e == runner.event
           first == events[e].reglist[runner.list]
<1>1. TypeOK /\ AtChain /\ Settled /\ InOrder /\ OneVersion
  BY DEF IInv, Core, Order
<1>2. Described(events, pushed)
  BY <1>1, PushedDescribed
<1>3. e = pushed[Taken] /\ Within(ran, events, pushed, Taken, runner.list, Passed)
  BY <1>1 DEF InOrder, AtEvent
<1>4. e \in DOMAIN events
  BY <1>1, RunnerHolds, HeldLives DEF IInv, Core
<1>5. runner.list \in 1 .. Len(events[e].reglist) /\ events[e].reglist \in Seq(Firsts)
  <2>1. events[e] \in Event
    BY <1>1, <1>4, HolderTypes
  <2> QED
    BY <1>1, <2>1 DEF AtChain, Event
<1>6. first \in Firsts /\ first.version = events[e].version
  BY <1>1, <1>4, <1>5 DEF OneVersion
<1>7. ASSUME runner.at # "lock"
      PROVE  /\ runner.er \in Reg /\ runner.er.no \in Nat
             /\ runner.er = Registration(events[e].version, first.list, runner.er.no)
             /\ runner.er.list = first.list /\ runner.er.version = events[e].version
  <2>1. runner.er \in Reg /\ FirstIn(runner.er) = first
    BY <1>1, <1>7 DEF AtChain
  <2>2. /\ runner.er = Registration(runner.er.version, runner.er.list, runner.er.no)
        /\ runner.er.no \in 1 .. Len(Chain(runner.er.list))
    BY <2>1, RegForm
  <2>3. first.version = runner.er.version /\ first.list = runner.er.list
    BY <2>1, RegForm DEF FirstIn
  <2>4. runner.er.no \in Nat
    BY <2>2, ChainType
  <2> QED
    BY <1>6, <2>1, <2>2, <2>3, <2>4
<1> QED
  BY <1>2, <1>3, <1>6, <1>7

(* _try_event and event_emit_url: the registration behind those that were  *)
(* passed is called, if it is for the trigger.                             *)
LEMMA RegistrationOrder ==
    ASSUME IInv, Order, FirstRegistration \/ NextRegistration \/ UrlConfig \/ UrlEmit
    PROVE  InOrder'
<1> DEFINE x == events[pushed[Taken]]
           list == x.reglist[runner.list].list
           e == runner.event
<1>1. TypeOK /\ InOrder /\ runner.at \in {"lock", "config", "url", "next"}
  BY DEF IInv, Core, Order, FirstRegistration, NextRegistration, UrlConfig, UrlEmit
<1>2. UNCHANGED <<events, pushed, running, queue>>
  BY DEF FirstRegistration, NextRegistration, UrlConfig, UrlEmit, RunnerKeeps, queueVars
<1> SUFFICES ASSUME running PROVE InOrder'
  BY <1>2 DEF InOrder
<1>3. /\ Described(events, pushed) /\ e = pushed[Taken]
      /\ Within(ran, events, pushed, Taken, runner.list, Passed)
      /\ x.reglist[runner.list] \in Firsts /\ x.reglist[runner.list].version = x.version
      /\ runner.at # "lock" => /\ runner.er \in Reg /\ runner.er.no \in Nat
                               /\ runner.er = Registration(x.version, list, runner.er.no)
                               /\ runner.er.list = list /\ runner.er.version = x.version
  BY <1>1, RunnerWithin
<1>4. Passed \in 0 .. Len(Chain(list)) /\ Len(Chain(list)) \in Nat
  BY <1>3, ChainType DEF Within, InEvent
<1>5. Taken' = Taken
  BY <1>2 DEF Taken
<1>6. /\ \A i \in 1 .. Len(queue) : queue[i] = pushed[Taken + i]
      /\ runner.last = FALSE
  BY <1>1 DEF InOrder
<1>7. ASSUME NEW er, NEW at \in {"config", "url", "next"}, runner' = [runner EXCEPT !.at = at, !.er = er],
             Within(ran', events, pushed, Taken, runner.list, IF at = "next" THEN er.no ELSE er.no - 1),
             at # "next" => Matches(er, e)
      PROVE  InOrder'
  <2>1. /\ runner'.at = at /\ runner'.er = er /\ runner'.list = runner.list
        /\ runner'.event = e /\ runner'.last = FALSE
    BY <1>1, <1>6, <1>7 DEF TypeOK
  <2>2. Passed' = IF at = "next" THEN er.no ELSE er.no - 1
    BY <1>7, <2>1 DEF Passed
  <2>3. AtEvent'
    BY <1>2, <1>3, <1>5, <1>7, <2>1, <2>2 DEF AtEvent, Matches
  <2> QED
    BY <1>2, <1>5, <1>6, <1>7, <2>1, <2>3 DEF InOrder
<1>8. ASSUME NEW er, TryEvent(er), er = Registration(x.version, list, Passed + 1),
             Passed < Len(Chain(list))
      PROVE  InOrder'
  <2>1. er.no = Passed + 1 /\ er.no - 1 = Passed
    BY <1>4, <1>8, RegForm, SMTT(30)
  <2>2. IF Backend(er).trigger = x.trigger
        THEN Within(Append(ran, <<pushed[Taken], er>>), events, pushed, Taken, runner.list, Passed + 1)
        ELSE Within(ran, events, pushed, Taken, runner.list, Passed + 1)
    <3> DEFINE n == Passed
    <3> HIDE DEF n
    <3>1. /\ Within(ran, events, pushed, Taken, runner.list, n)
          /\ n < Len(Chain(events[pushed[Taken]].reglist[runner.list].list))
          /\ er = Registration(events[pushed[Taken]].version,
                               events[pushed[Taken]].reglist[runner.list].list, n + 1)
      BY <1>3, <1>8 DEF n
    <3>2. IF Backend(er).trigger = events[pushed[Taken]].trigger
          THEN Within(Append(ran, <<pushed[Taken], er>>), events, pushed, Taken, runner.list, n + 1)
          ELSE Within(ran, events, pushed, Taken, runner.list, n + 1)
      BY <1>3, <3>1, RegistrationTried
    <3> QED
      BY <3>2 DEF n
  <2>3. Matches(er, e) <=> Backend(er).trigger = x.trigger
    BY <1>3 DEF Matches
  <2>4. CASE ~Matches(er, e)
    <3>1. runner' = [runner EXCEPT !.at = "next", !.er = er] /\ ran' = ran
      BY <1>8, <2>4 DEF TryEvent
    <3>2. Within(ran', events, pushed, Taken, runner.list, er.no)
      BY <2>1, <2>2, <2>3, <2>4, <3>1
    <3> QED
      BY <1>7, <3>1, <3>2
  <2>5. CASE Matches(er, e) /\ Backend(er).type = "url"
    <3>1. runner' = [runner EXCEPT !.at = "config", !.er = er] /\ ran' = ran
      BY <1>8, <2>5 DEF TryEvent
    <3>2. Within(ran', events, pushed, Taken, runner.list, er.no - 1)
      BY <1>3, <2>1, <3>1
    <3> QED
      BY <1>7, <2>5, <3>1, <3>2
  <2>6. CASE Matches(er, e) /\ Backend(er).type # "url"
    <3>1. runner' = [runner EXCEPT !.at = "next", !.er = er] /\ ran' = Append(ran, <<e, er>>)
      BY <1>8, <2>6 DEF TryEvent, Call
    <3>2. Within(ran', events, pushed, Taken, runner.list, er.no)
      BY <1>3, <2>1, <2>2, <2>3, <2>6, <3>1
    <3> QED
      BY <1>7, <3>1, <3>2
  <2> QED
    BY <2>4, <2>5, <2>6
<1>9. CASE FirstRegistration
  <2> DEFINE first == x.reglist[runner.list]
  <2>1. runner.at = "lock" /\ TryEvent(first) /\ Passed = 0
    BY <1>3, <1>9 DEF FirstRegistration, Passed
  <2>2. first \in Reg /\ first.no = 1
    BY <1>3 DEF Firsts
  <2>3. first = Registration(first.version, first.list, first.no) /\ 1 \in 1 .. Len(Chain(first.list))
    BY <2>2, RegForm
  <2>4. first = Registration(x.version, list, 0 + 1) /\ 0 < Len(Chain(list))
    BY <1>3, <1>4, <2>2, <2>3
  <2> HIDE DEF first
  <2>5. first = Registration(x.version, list, Passed + 1) /\ Passed < Len(Chain(list))
    BY <2>1, <2>4
  <2> QED
    BY <1>8, <2>1, <2>5
<1>10. CASE NextRegistration
  <2> DEFINE er == Following(runner.er)
  <2>1. runner.at = "next" /\ TryEvent(er) /\ HasNext(runner.er)
    BY <1>10 DEF NextRegistration
  <2>2. Passed = runner.er.no
    BY <2>1 DEF Passed
  <2>3. er = Registration(x.version, list, Passed + 1) /\ Passed < Len(Chain(list))
    BY <1>3, <2>1, <2>2 DEF Following, HasNext
  <2> HIDE DEF er
  <2> QED
    BY <1>8, <2>1, <2>3
<1>11. CASE UrlConfig
  <2>1. runner.at = "config" /\ runner' = [runner EXCEPT !.at = "url"] /\ ran' = ran
    BY <1>11 DEF UrlConfig
  <2>2. runner' = [runner EXCEPT !.at = "url", !.er = runner.er]
    BY <1>1, <2>1 DEF TypeOK
  <2>3. Passed = runner.er.no - 1 /\ Matches(runner.er, e)
    BY <1>1, <2>1 DEF Passed, InOrder, AtEvent
  <2>4. Within(ran', events, pushed, Taken, runner.list, runner.er.no - 1)
    BY <1>3, <2>1, <2>3
  <2> QED
    BY <1>7, <2>2, <2>3, <2>4
<1>12. CASE UrlEmit
  <2> DEFINE er == runner.er
  <2>1. runner.at = "url" /\ runner' = [runner EXCEPT !.at = "next"] /\ ran' = Append(ran, <<e, er>>)
    BY <1>12 DEF UrlEmit, Call
  <2>2. runner' = [runner EXCEPT !.at = "next", !.er = er]
    BY <1>1, <2>1 DEF TypeOK
  <2>3. Passed = er.no - 1 /\ Matches(er, e)
    BY <1>1, <2>1 DEF Passed, InOrder, AtEvent
  <2>4. er \in Reg /\ er.no \in Nat /\ er = Registration(x.version, list, er.no) /\ er.list = list
    BY <1>3, <2>1
  <2>5. er.no \in 1 .. Len(Chain(list))
    BY <2>4, RegForm
  <2>6. Passed + 1 = er.no /\ Passed < Len(Chain(list))
    BY <1>4, <2>3, <2>4, <2>5
  <2> HIDE DEF er
  <2>7. Within(ran', events, pushed, Taken, runner.list, er.no)
    <3> DEFINE n == Passed
    <3> HIDE DEF n
    <3>1. /\ Within(ran, events, pushed, Taken, runner.list, n)
          /\ n < Len(Chain(events[pushed[Taken]].reglist[runner.list].list))
          /\ er = Registration(events[pushed[Taken]].version,
                               events[pushed[Taken]].reglist[runner.list].list, n + 1)
      BY <1>3, <2>4, <2>6 DEF n
    <3>2. IF Backend(er).trigger = events[pushed[Taken]].trigger
          THEN Within(Append(ran, <<pushed[Taken], er>>), events, pushed, Taken, runner.list, n + 1)
          ELSE Within(ran, events, pushed, Taken, runner.list, n + 1)
      BY <1>3, <3>1, RegistrationTried, ZenonT(60)
    <3>3. Backend(er).trigger = events[pushed[Taken]].trigger
      BY <1>3, <2>3 DEF Matches
    <3> QED
      BY <1>3, <2>1, <2>6, <3>2, <3>3 DEF n
  <2> QED
    BY <1>7, <2>2, <2>7
<1> QED
  BY <1>9, <1>10, <1>11, <1>12

(* The next list, or the next event *)
LEMMA LastRegistrationOrder ==
    ASSUME IInv, Order, LastRegistration
    PROVE  InOrder'
<1> DEFINE x == events[pushed[Taken]]
           list == x.reglist[runner.list].list
           more == runner.list < Len(events[runner.event].reglist)
<1>1. TypeOK /\ InOrder /\ runner.at = "next" /\ ~HasNext(runner.er)
  BY DEF IInv, Core, Order, LastRegistration
<1>2. UNCHANGED <<events, pushed, running, queue, ran>>
  BY DEF LastRegistration, RunnerKeeps, queueVars
<1> SUFFICES ASSUME running PROVE InOrder'
  BY <1>2 DEF InOrder
<1>3. /\ Described(events, pushed) /\ runner.event = pushed[Taken]
      /\ Within(ran, events, pushed, Taken, runner.list, Passed)
      /\ runner.er \in Reg /\ runner.er.no \in Nat /\ runner.er.list = list
  BY <1>1, RunnerWithin
<1>4. runner.er.no \in 1 .. Len(Chain(list)) /\ Len(Chain(list)) \in Nat
  BY <1>3, RegForm, ChainType
<1>5. Passed = Len(Chain(list))
  BY <1>1, <1>3, <1>4 DEF Passed, HasNext
<1>6. IF runner.list < Len(x.reglist) THEN Within(ran, events, pushed, Taken, runner.list + 1, 0)
      ELSE Done(ran, events, pushed, Taken)
  BY <1>3, <1>5, ListTried
<1>7. Taken' = Taken
  BY <1>2 DEF Taken
<1>8. runner.last = FALSE /\ \A i \in 1 .. Len(queue) : queue[i] = pushed[Taken + i]
  BY <1>1 DEF InOrder
<1>9. runner' = IF more THEN [runner EXCEPT !.at = "lock", !.list = @ + 1, !.er = Nobody]
                ELSE [Waiting EXCEPT !.at = IF runner.last THEN "ended" ELSE "pop"]
  BY DEF LastRegistration
<1>10. CASE more
  <2>1. /\ runner'.at = "lock" /\ runner'.list = runner.list + 1 /\ runner'.event = runner.event
        /\ runner'.last = FALSE
    BY <1>1, <1>8, <1>9, <1>10 DEF TypeOK
  <2>2. Passed' = 0
    BY <2>1 DEF Passed
  <2>3. AtEvent'
    BY <1>2, <1>3, <1>6, <1>7, <1>10, <2>1, <2>2 DEF AtEvent
  <2> QED
    BY <1>2, <1>7, <1>8, <2>1, <2>3 DEF InOrder
<1>11. CASE ~more
  <2>1. runner'.at = "pop" /\ runner'.last = FALSE
    BY <1>8, <1>9, <1>11 DEF Waiting
  <2>2. Done(ran, events, pushed, Taken)
    BY <1>3, <1>6, <1>11
  <2> QED
    BY <1>2, <1>7, <1>8, <2>1, <2>2 DEF InOrder
<1> QED
  BY <1>10, <1>11

(* Every step *)
LEMMA RunEventsOrder ==
    ASSUME IInv, IInv', Order, RunEvents, UNCHANGED slave
    PROVE  Order'
<1>1. CASE Release(Runner)
  BY <1>1, ReleaseOrder
<1>2. CASE Pop \/ FirstRegistration \/ UrlConfig \/ UrlEmit \/ NextRegistration \/ LastRegistration
  <2>1. UNCHANGED <<pushed, running>> /\ RunnerKeeps
    BY <1>2 DEF Pop, FirstRegistration, UrlConfig, UrlEmit, NextRegistration, LastRegistration,
                queueVars
  <2>2. Locks' /\ OneVersion' /\ Settled'
    BY <1>2, <2>1, RunnerKeepsOrder
  <2>3. InOrder'
    BY <1>2, PopOrder, RegistrationOrder, LastRegistrationOrder
  <2> QED
    BY <2>2, <2>3 DEF Order
<1> QED
  BY <1>1, <1>2 DEF RunEvents

LEMMA EmitOrder ==
    ASSUME IInv, IInv', Order, NEW t \in Emitters, Emit(t), UNCHANGED slave
    PROVE  Order'
<1>1. CASE EmitServer(t)
  <2> DEFINE next == IF t = Main THEN "push" ELSE "mount"
  <2>1. /\ emitter[t].at = "server" /\ PushReglist(t, "server") /\ EmitterAt(t, next)
        /\ IF next = "push" THEN ReleaseConfig(t) ELSE UNCHANGED configLock
        /\ UNCHANGED <<version, queue, pushed, running, runner, ran>>
    BY <1>1 DEF EmitServer, configVars, queueVars
  <2>2. next \in {"mount", "push"}
    OBVIOUS
  <2> HIDE DEF next
  <2> QED
    BY <2>1, <2>2, PushReglistOrder
<1>2. CASE EmitMount(t)
  <2>1. /\ emitter[t].at = "mount" /\ PushReglist(t, "mount") /\ EmitterAt(t, "push")
        /\ ReleaseConfig(t) /\ UNCHANGED <<version, queue, pushed, running, runner, ran>>
    BY <1>2 DEF EmitMount, configVars, queueVars
  <2> QED
    BY <2>1, PushReglistOrder
<1> QED
  BY <1>1, <1>2, EmitPushOrder, ReleaseOrder DEF Emit

(* Steps that have nothing to do with events *)
LEMMA OrderApart ==
    ASSUME IInv, IInv', Order, Reading' => Reading,
           UNCHANGED <<queue, pushed, running, runner, ran, emitter, events, configLock, version>>
    PROVE  Order'
<1>1. DOMAIN events' = DOMAIN events /\ \A e \in DOMAIN events : Alike(e)
  BY DEF Alike
<1>2. Locks'
  BY <1>1, LocksKept
<1> QED
  BY <1>1, <1>2, OrderElsewhere

LEMMA SourceOrder ==
    ASSUME IInv, IInv', Order, NEW s \in Source, SourceInit(s) \/ SourceThread(s)
    PROVE  Order'
<1>1. UNCHANGED slave /\ s \in Emitters
  BY DEF SourceInit, SourceThread, SourceShutdown, SourceDone, SourceKeeps, slaveVars, Emitters
<1>2. CASE SourceInit(s) \/ SourceShutdown(s)
  <2>1. PICK trigger : EmitStart(s, trigger)
    BY <1>2 DEF SourceInit, SourceShutdown
  <2> QED
    BY <1>1, <2>1, EmitStartOrder
<1>3. CASE SourceDone(s)
  <2>1. UNCHANGED <<queue, pushed, running, runner, ran, emitter, events, configLock, version>>
    BY <1>3 DEF SourceDone, eventsVars, lockVars, configVars, queueVars
  <2> QED
    BY <1>1, <2>1, OrderApart DEF Reading
<1>4. CASE Emit(s)
  BY <1>1, <1>4, EmitOrder
<1> QED
  BY <1>2, <1>3, <1>4 DEF SourceThread

LEMMA MainThreadOrder ==
    ASSUME IInv, IInv', Order, MainThread
    PROVE  Order'
<1>1. Main \in Emitters
  BY Distinct
<1>2. UNCHANGED slave
  BY DEF MainThread, Accepted, LeaveLoop, ServerStop, EventShutdown, EventJoined, EventDropped,
         SlaveShutdown, ThreadsJoined, ConfigShutdown, MainKeeps, slaveVars
<1>3. Reading' <=> Reading
  BY <1>2 DEF Reading
<1>4. CASE Accepted \/ LeaveLoop \/ SlaveShutdown \/ ThreadsJoined \/ ConfigShutdown
  <2>1. UNCHANGED <<queue, pushed, running, runner, ran, emitter, events, configLock, version>>
    BY <1>4 DEF Accepted, LeaveLoop, SlaveShutdown, ThreadsJoined, ConfigShutdown, eventsVars,
                lockVars, configVars, queueVars
  <2> QED
    BY <1>3, <2>1, OrderApart
<1>5. CASE ServerStop
  BY <1>1, <1>2, <1>5, EmitStartOrder DEF ServerStop
<1>6. CASE EventShutdown \/ EventJoined
  <2>1. UNCHANGED <<pushed, ran, emitter, events, configLock, version>>
    BY <1>6 DEF EventShutdown, EventJoined, StopEvents, DropQueue, lockVars, configVars
  <2>2. Order
    OBVIOUS
  <2>3. ~running' /\ (queue' = queue \/ queue' = <<>>)
    <3>1. CASE EventShutdown
      BY <3>1 DEF EventShutdown, StopEvents
    <3>2. CASE EventJoined
      <4>1. runner.at = "ended" /\ running' = running /\ queue' = <<>>
        BY <3>2 DEF EventJoined, DropQueue
      <4> QED
        BY <4>1 DEF Order, InOrder
    <3> QED
      BY <1>6, <3>1, <3>2
  <2>4. \A e \in DOMAIN events : Alike(e)
    BY <2>1 DEF Alike
  <2>5. Locks'
    BY <1>3, <2>1, <2>4, LocksKept
  <2>6. OneVersion'
    BY <2>1 DEF Order, OneVersion
  <2>7. Settled'
    <3>1. Settled /\ TypeOK
      BY DEF Order, IInv, Core
    <3>2. Len(queue') <= Len(pushed)
      BY <2>3, <3>1, PushedDescribed DEF Settled
    <3> QED
      BY <2>1, <3>1, <3>2 DEF Settled
  <2> QED
    BY <2>3, <2>5, <2>6, <2>7 DEF Order, InOrder
<1>7. CASE EventDropped
  BY <1>1, <1>2, <1>7, ReleaseOrder DEF EventDropped
<1>8. CASE Emit(Main)
  BY <1>1, <1>2, <1>8, EmitOrder
<1> QED
  BY <1>4, <1>5, <1>6, <1>7, <1>8 DEF MainThread

(* Every step keeps the order. *)
LEMMA NextOrder == IInv /\ IInv' /\ Order /\ [Next]_vars => Order'
<1> SUFFICES ASSUME IInv, IInv', Order, [Next]_vars PROVE Order'
  OBVIOUS
<1>1. CASE AuthQueued \/ AuthThread \/ YpThread \/ Accept \/ AdminReload \/ SigHup
           \/ SigHupHandled \/ SigDie \/ UNCHANGED vars
  <2>1. eventsVars' = eventsVars /\ UNCHANGED slave
    BY <1>1 DEF AuthQueued, AuthThread, AuthRefuses, AuthAnswers, YpThread, YpCheck, YpChecked,
                Accept, AdminReload, SigHup, SigHupHandled, SigDie, MainKeeps, slaveVars, vars
  <2>2. UNCHANGED <<queue, pushed, running, runner, ran, emitter, events, configLock, version>>
    BY <2>1 DEF eventsVars, lockVars, configVars, queueVars
  <2> QED
    BY <2>1, <2>2, OrderApart DEF Reading
<1>2. CASE EventThread
  <2>1. RunEvents /\ UNCHANGED slave
    BY <1>2 DEF EventThread, slaveVars
  <2> QED
    BY <2>1, RunEventsOrder
<1> QED
  BY <1>1, <1>2, SlaveThreadOrder, SourceOrder, MainThreadOrder DEF Next

----------------------------------------------------------------------------
(* What is proved *)

(* The types of the state of the events hold in every state. *)
THEOREM TypeCorrect == Spec => []TypeOK
<1>1. IInv => TypeOK
  BY DEF IInv, Core
<1> QED
  BY <1>1, InitInv, NextInv, PTL DEF Spec

(* event_registration_addref, event_registration_release and               *)
(* event_release, through any number of reloads, full queues and the       *)
(* shutdown: until two threads release an event at the same time, every    *)
(* registration is referred to as often as it is counted, exists exactly   *)
(* as long as it is referred to, and the event thread and the queue never  *)
(* have one, or an event, that is freed.                                   *)
THEOREM RegistrationsCounted == Spec => []RegistrationsExact
  BY InitInv, NextInv, Exact, PTL DEF Spec

(* event_run_thread, _try_registrations and _try_event, whatever is        *)
(* emitted, reloaded and released meanwhile: until the server shuts the    *)
(* events down, or two threads release an event at the same time, the back *)
(* ends that were called are, event by event in the order of the queue and *)
(* list by list, exactly those that were configured for the trigger of the *)
(* event when it was emitted, each once, and none is left when the event   *)
(* thread waits for the next event.                                        *)
THEOREM EventsInOrder == Spec => []EventsRun
<1>1. IInv /\ Order => EventsRun
  BY OrderRuns
<1> QED
  BY <1>1, InitInv, NextInv, InitOrder, NextOrder, PTL DEF Spec
=============================================================================
