---------------------------- MODULE StatsProofs ----------------------------
(***************************************************************************)
(* Proofs about Stats: for any mounts, subscribers and number of reports,  *)
(* the statistics are, with the events under way, the counters that they   *)
(* are taken from, and a subscriber that has read its queue knows what the *)
(* trees hold.                                                             *)
(***************************************************************************)
EXTENDS Stats, FiniteSetTheorems, SequenceTheorems, WellFoundedInduction, TLAPS

----------------------------------------------------------------------------
(* Induction up to a number, and functions defined by recursion up to it *)

(* A set with 0 and with the successor of each of its elements has all. *)
LEMMA UpTo ==
    ASSUME NEW n \in Nat, NEW G, 0 \in G, \A i \in 0 .. n - 1 : i \in G => i + 1 \in G
    PROVE  \A i \in 0 .. n : i \in G
<1> DEFINE R == OpToRel(<, Nat)
           B == {i \in 0 .. n : i \notin G}
<1>1. R = {p \in Nat \X Nat : p[1] < p[2]}
  BY Zenon DEF OpToRel
<1>2. IsWellFoundedOn(R, Nat)
  BY NatLessThanWellFounded, Zenon
<1> HIDE DEF R
<1>3. SUFFICES ASSUME B # {} PROVE FALSE
  OBVIOUS
<1>4. PICK m \in B : \A x \in B : ~(<<x, m>> \in R)
  <2>1. B \subseteq Nat
    OBVIOUS
  <2> HIDE DEF B
  <2> QED
    BY <1>2, <1>3, <2>1, WFMin
<1>5. m \in 1 .. n /\ m - 1 \in 0 .. n - 1 /\ m - 1 \in 0 .. n
  OBVIOUS
<1>6. m - 1 \in B
  BY <1>5
<1>7. <<m - 1, m>> \in Nat \X Nat /\ <<m - 1, m>>[1] < <<m - 1, m>>[2]
  BY <1>5
<1> QED
  BY <1>1, <1>4, <1>6, <1>7

(* g has the values of a recursion that begins with b. *)
Recursive(g, n, V, b, F) ==
    /\ g \in [0 .. n -> V] /\ g[0] = b
    /\ \A i \in 1 .. n : g[i] = F[i][g[i - 1]]

(* The values of a recursion exist: the next one is a function F of the    *)
(* number and of the one before it.                                        *)
LEMMA Recursion ==
    ASSUME NEW n \in Nat, NEW V, NEW b \in V, NEW F \in [1 .. n -> [V -> V]]
    PROVE  \E g : Recursive(g, n, V, b, F)
<1> DEFINE Good(k, g) == g[0] = b /\ \A i \in 1 .. k : g[i] = F[i][g[i - 1]]
           G == {k \in 0 .. n : \E g \in [0 .. k -> V] : Good(k, g)}
<1>1. 0 \in G
  <2> DEFINE g == [i \in 0 .. 0 |-> b]
  <2>1. g \in [0 .. 0 -> V] /\ Good(0, g)
    OBVIOUS
  <2> HIDE DEF g
  <2>2. \E h \in [0 .. 0 -> V] : Good(0, h)
    BY <2>1
  <2> HIDE DEF Good
  <2> QED
    BY <2>2
<1>2. ASSUME NEW k \in 0 .. n - 1, k \in G
      PROVE  k + 1 \in G
  <2>1. PICK g \in [0 .. k -> V] : Good(k, g)
    BY <1>2
  <2> DEFINE v == F[k + 1][g[k]]
             h == [i \in 0 .. k + 1 |-> IF i = k + 1 THEN v ELSE g[i]]
  <2>2. v \in V
    <3>1. k + 1 \in 1 .. n /\ g[k] \in V
      OBVIOUS
    <3> QED
      BY <3>1
  <2> HIDE DEF v
  <2>3. h \in [0 .. k + 1 -> V]
    BY <2>2
  <2>4. \A i \in 0 .. k : h[i] = g[i]
    OBVIOUS
  <2>5. h[k + 1] = v
    OBVIOUS
  <2> HIDE DEF h
  <2>6. ASSUME NEW i \in 1 .. k + 1
        PROVE  h[i] = F[i][h[i - 1]]
    <3>1. CASE i = k + 1
      BY <2>4, <2>5, <3>1 DEF v
    <3>2. CASE i \in 1 .. k
      <4>1. h[i] = g[i] /\ h[i - 1] = g[i - 1]
        BY <2>4, <3>2
      <4> QED
        BY <2>1, <3>2, <4>1
    <3> QED
      BY <3>1, <3>2
  <2>7. Good(k + 1, h)
    BY <2>1, <2>4, <2>6
  <2> HIDE DEF Good
  <2>8. \E f \in [0 .. k + 1 -> V] : Good(k + 1, f)
    BY <2>3, <2>7
  <2>9. k + 1 \in 0 .. n
    OBVIOUS
  <2> QED
    BY <2>8, <2>9
<1> HIDE DEF G
<1>3. n \in G
  <2>1. \A i \in 0 .. n : i \in G
    BY <1>1, <1>2, UpTo
  <2> QED
    BY <2>1
<1>4. PICK g \in [0 .. n -> V] : Good(n, g)
  BY <1>3 DEF G
<1>5. Recursive(g, n, V, b, F)
  BY <1>4 DEF Recursive
<1> QED
  BY <1>5
----------------------------------------------------------------------------
(* Events applied in turn *)

(* What InTurn is applied to, and the values that it goes through. *)
Turns(E, V, step, v, w) == step \in [E -> [V -> V]] /\ v \in V /\ w \in Seq(E)
Run(g, V, step, v, w) ==
    /\ g \in [0 .. Len(w) -> V] /\ g[0] = v
    /\ \A i \in 1 .. Len(w) : g[i] = step[w[i]][g[i - 1]]

(* InTurn is the last value of such a run. *)
LEMMA InTurnRun ==
    ASSUME NEW E, NEW V, NEW step, NEW v, NEW w, Turns(E, V, step, v, w)
    PROVE  \E g : Run(g, V, step, v, w) /\ InTurn(step, v, w) = g[Len(w)]
<1> DEFINE n == Len(w)
           F == [i \in 1 .. n |-> step[w[i]]]
           D(g) == [i \in 0 .. n |-> IF i = 0 THEN v ELSE step[w[i]][g[i - 1]]]
           c == CHOOSE g : g = D(g)
<1>1. n \in Nat /\ \A i \in 1 .. n : w[i] \in E
  BY DEF Turns
<1>2. InTurn(step, v, w) = c[n]
  BY DEF InTurn
<1> HIDE DEF n
<1>3. v \in V /\ \A e \in E : step[e] \in [V -> V]
  BY DEF Turns
<1>4. F \in [1 .. n -> [V -> V]]
  <2>1. \A i \in 1 .. n : step[w[i]] \in [V -> V]
    BY <1>1, <1>3
  <2> QED
    BY <2>1, Zenon
<1>5. PICK g : Recursive(g, n, V, v, F)
  <2> HIDE DEF F
  <2> QED
    BY <1>1, <1>3, <1>4, Recursion
<1>6. g \in [0 .. n -> V] /\ g[0] = v /\ \A i \in 1 .. n : g[i] = step[w[i]][g[i - 1]]
  <2>1. g \in [0 .. n -> V] /\ g[0] = v /\ \A i \in 1 .. n : g[i] = F[i][g[i - 1]]
    BY <1>5, Zenon DEF Recursive
  <2>2. \A i \in 1 .. n : F[i] = step[w[i]]
    BY Zenon
  <2> HIDE DEF F
  <2> QED
    BY <2>1, <2>2
<1>7. g = D(g)
  <2>1. g = [i \in 0 .. n |-> g[i]]
    BY <1>6
  <2>2. ASSUME NEW i \in 0 .. n PROVE g[i] = D(g)[i]
    <3>1. CASE i = 0
      BY <1>6, <3>1
    <3>2. CASE i # 0
      <4>1. i \in 1 .. n
        BY <1>1, <3>2
      <4> QED
        BY <1>6, <3>2, <4>1
    <3> QED
      BY <3>1, <3>2
  <2> HIDE DEF D
  <2>3. D(g) = [i \in 0 .. n |-> D(g)[i]]
    BY DEF D
  <2> QED
    BY <2>1, <2>2, <2>3
<1>8. c = D(c)
  BY <1>7
<1> HIDE DEF c
<1>9. c[0] = v /\ \A i \in 1 .. n : c[i] = step[w[i]][c[i - 1]]
  <2>1. ASSUME NEW i \in 0 .. n PROVE c[i] = D(c)[i]
    BY <1>8
  <2>2. 0 \in 0 .. n /\ \A i \in 1 .. n : i \in 0 .. n /\ i # 0
    BY <1>1
  <2>3. D(c)[0] = v
    BY <2>2
  <2>4. ASSUME NEW i \in 1 .. n PROVE D(c)[i] = step[w[i]][c[i - 1]]
    BY <2>2
  <2> QED
    BY <2>1, <2>2, <2>3, <2>4
<1>10. c = [i \in 0 .. n |-> c[i]]
  BY <1>8
<1>11. \A i \in 0 .. n : c[i] \in V
  <2> DEFINE G == {i \in 0 .. n : c[i] \in V}
  <2>1. 0 \in G
    <3>1. 0 \in 0 .. n /\ c[0] = v
      BY <1>1, <1>9
    <3> QED
      BY <1>3, <3>1
  <2>2. ASSUME NEW i \in 0 .. n - 1, i \in G PROVE i + 1 \in G
    <3>1. i + 1 \in 1 .. n /\ (i + 1) - 1 = i /\ i + 1 \in 0 .. n
      BY <1>1
    <3>2. c[i + 1] = step[w[i + 1]][c[i]]
      BY <1>9, <3>1
    <3>3. c[i] \in V /\ step[w[i + 1]] \in [V -> V]
      BY <1>1, <1>3, <2>2, <3>1
    <3> QED
      BY <3>1, <3>2, <3>3
  <2> HIDE DEF G
  <2>3. \A i \in 0 .. n : i \in G
    BY <1>1, <2>1, <2>2, UpTo
  <2> QED
    BY <2>3 DEF G
<1>12. c \in [0 .. n -> V]
  BY <1>10, <1>11
<1>13. Run(c, V, step, v, w)
  BY <1>9, <1>12 DEF Run, n
<1> QED
  BY <1>2, <1>13 DEF n

(* It is a value of the same kind. *)
LEMMA InTurnType ==
    ASSUME NEW E, NEW V, NEW step, NEW v, NEW w, Turns(E, V, step, v, w)
    PROVE  InTurn(step, v, w) \in V
<1>1. PICK g : Run(g, V, step, v, w) /\ InTurn(step, v, w) = g[Len(w)]
  BY InTurnRun
<1>2. Len(w) \in 0 .. Len(w)
  BY DEF Turns
<1> QED
  BY <1>1, <1>2 DEF Run

(* Without events nothing changes. *)
LEMMA InTurnNone ==
    ASSUME NEW E, NEW V, NEW step, NEW v, Turns(E, V, step, v, <<>>)
    PROVE  InTurn(step, v, <<>>) = v
<1>1. PICK g : Run(g, V, step, v, <<>>) /\ InTurn(step, v, <<>>) = g[Len(<<>>)]
  BY InTurnRun
<1> QED
  BY <1>1 DEF Run

(* An event at the end is applied last. *)
LEMMA InTurnAppend ==
    ASSUME NEW E, NEW V, NEW step, NEW v, NEW w, Turns(E, V, step, v, w), NEW e \in E
    PROVE  InTurn(step, v, Append(w, e)) = step[e][InTurn(step, v, w)]
<1> DEFINE n == Len(w)
           u == Append(w, e)
<1>1. /\ n \in Nat /\ Len(u) = n + 1 /\ u[n + 1] = e /\ u \in Seq(E)
      /\ \A i \in 1 .. n : u[i] = w[i]
  BY DEF Turns
<1>2. Turns(E, V, step, v, u)
  BY <1>1 DEF Turns
<1> HIDE DEF u
<1>3. PICK g : Run(g, V, step, v, w) /\ InTurn(step, v, w) = g[n]
  BY InTurnRun
<1>4. PICK h : Run(h, V, step, v, u) /\ InTurn(step, v, u) = h[n + 1]
  BY <1>1, <1>2, InTurnRun
<1>5. g[0] = v /\ \A i \in 1 .. n : g[i] = step[w[i]][g[i - 1]]
  BY <1>3 DEF Run
<1>6. h[0] = v /\ \A i \in 1 .. n + 1 : h[i] = step[u[i]][h[i - 1]]
  BY <1>1, <1>4 DEF Run
<1> HIDE DEF n
<1>7. h[n] = g[n]
  <2> DEFINE G == {i \in 0 .. n : h[i] = g[i]}
  <2>1. 0 \in G
    BY <1>1, <1>5, <1>6
  <2>2. ASSUME NEW i \in 0 .. n - 1, i \in G PROVE i + 1 \in G
    <3>1. i + 1 \in 1 .. n /\ (i + 1) - 1 = i /\ i + 1 \in 0 .. n /\ i + 1 \in 1 .. n + 1
      BY <1>1
    <3>2. g[i + 1] = step[w[i + 1]][g[i]] /\ h[i + 1] = step[u[i + 1]][h[i]]
      BY <1>5, <1>6, <3>1
    <3>3. u[i + 1] = w[i + 1] /\ h[i] = g[i]
      BY <1>1, <2>2, <3>1
    <3> QED
      BY <3>1, <3>2, <3>3
  <2> HIDE DEF G
  <2>3. \A i \in 0 .. n : i \in G
    BY <1>1, <2>1, <2>2, UpTo
  <2>4. n \in 0 .. n
    BY <1>1
  <2> QED
    BY <2>3, <2>4 DEF G
<1>8. n + 1 \in 1 .. n + 1 /\ (n + 1) - 1 = n
  BY <1>1
<1>9. h[n + 1] = step[e][h[n]]
  BY <1>1, <1>6, <1>8
<1> QED
  BY <1>3, <1>4, <1>7, <1>9 DEF u

(* The event at the beginning is applied first. *)
LEMMA InTurnHead ==
    ASSUME NEW E, NEW V, NEW step, NEW v, NEW w, Turns(E, V, step, v, w), w # <<>>
    PROVE  /\ Turns(E, V, step, step[Head(w)][v], Tail(w))
           /\ InTurn(step, v, w) = InTurn(step, step[Head(w)][v], Tail(w))
<1> DEFINE n == Len(w)
           u == Tail(w)
           x == step[Head(w)][v]
<1>1. /\ n \in Nat \ {0} /\ Len(u) = n - 1 /\ u \in Seq(E) /\ Head(w) = w[1]
      /\ w[1] \in E /\ \A i \in 1 .. n - 1 : u[i] = w[i + 1]
  BY DEF Turns
<1>2. v \in V /\ step \in [E -> [V -> V]]
  BY DEF Turns
<1>3. x \in V
  <2>1. step[Head(w)] \in [V -> V]
    BY <1>1, <1>2
  <2> QED
    BY <1>2, <2>1
<1> HIDE DEF u
<1>4. Turns(E, V, step, x, u)
  BY <1>1, <1>2, <1>3 DEF Turns
<1>5. x = step[w[1]][v]
  BY <1>1
<1> HIDE DEF x
<1>6. PICK g : Run(g, V, step, v, w) /\ InTurn(step, v, w) = g[n]
  BY InTurnRun
<1>7. PICK h : Run(h, V, step, x, u) /\ InTurn(step, x, u) = h[n - 1]
  BY <1>1, <1>4, InTurnRun
<1>8. g[0] = v /\ \A i \in 1 .. n : g[i] = step[w[i]][g[i - 1]]
  BY <1>6 DEF Run
<1>9. h[0] = x /\ \A i \in 1 .. n - 1 : h[i] = step[u[i]][h[i - 1]]
  BY <1>1, <1>7 DEF Run
<1> HIDE DEF n
<1>10. h[n - 1] = g[n]
  <2> DEFINE k == n - 1
             G == {i \in 0 .. k : h[i] = g[i + 1]}
  <2>1. k \in Nat
    BY <1>1
  <2>2. 0 \in G
    <3>1. 1 \in 1 .. n /\ 0 \in 0 .. k /\ 1 - 1 = 0 /\ 0 + 1 = 1
      BY <1>1
    <3>2. g[1] = step[w[1]][g[0]]
      BY <1>8, <3>1
    <3> HIDE DEF k
    <3> QED
      BY <1>8, <1>9, <1>5, <3>1, <3>2
  <2>3. ASSUME NEW i \in 0 .. k - 1, i \in G PROVE i + 1 \in G
    <3>1. /\ i + 1 \in 1 .. n - 1 /\ (i + 1) - 1 = i /\ i + 1 \in 0 .. k
          /\ (i + 1) + 1 \in 1 .. n /\ ((i + 1) + 1) - 1 = i + 1
      BY <1>1
    <3>2. h[i + 1] = step[u[i + 1]][h[i]]
      BY <1>9, <3>1
    <3>3. g[(i + 1) + 1] = step[w[(i + 1) + 1]][g[i + 1]]
      BY <1>8, <3>1
    <3>4. u[i + 1] = w[(i + 1) + 1] /\ h[i] = g[i + 1]
      BY <1>1, <2>3, <3>1
    <3>5. h[i + 1] = g[(i + 1) + 1]
      BY <3>2, <3>3, <3>4
    <3> QED
      BY <3>1, <3>5
  <2> HIDE DEF G, k
  <2>4. \A i \in 0 .. k : i \in G
    BY <2>1, <2>2, <2>3, UpTo
  <2>5. k \in 0 .. k
    BY <2>1
  <2>6. h[k] = g[k + 1]
    BY <2>4, <2>5 DEF G
  <2>7. k + 1 = n
    BY <1>1 DEF k
  <2> QED
    BY <2>6, <2>7 DEF k
<1> QED
  BY <1>4, <1>6, <1>7, <1>10 DEF u, x

----------------------------------------------------------------------------
(* What an event does *)

Globals == {"sources", "listeners", "stats"}

(* The keys, and the values that no other thing is taken for. *)
LEMMA Constants ==
    /\ Global \notin Mount /\ Null \notin Mount /\ Null \notin Names /\ Null \notin Int
    /\ Null \notin Reported /\ Reported \subseteq EventSet
    /\ \A name \in Globals : <<Global, name>> \in Key
    /\ \A m \in Mount : <<m, "slow">> \in Key
<1>1. Global \notin Mount /\ Null \notin Mount /\ Null \notin Names /\ Null \notin Int
  BY StatsAssumption
<1>2. Reported \subseteq EventSet
  BY DEF Reported, EventSet, Acts, Names
<1>3. Null \notin Reported
  BY <1>2, StatsAssumption
<1> QED
  BY <1>1, <1>2, <1>3 DEF Key, Globals

(* The forms that a reported event has. *)
LEMMA Forms ==
    ASSUME NEW e \in Reported
    PROVE  /\ e = Event(e.act, e.source, e.name, e.val)
           /\ \/ e.act \in {"set", "sub"} /\ e.source = Global /\ e.name \in Globals /\ e.val \in Int
              \/ e.act \in {"inc", "dec"} /\ e.source = Global /\ e.name \in Globals /\ e.val = Null
              \/ e.act = "set" /\ e.source \in Mount /\ e.name = "slow" /\ e.val \in Int
              \/ e.act \in {"inc", "remove"} /\ e.source \in Mount /\ e.name = "slow" /\ e.val = Null
              \/ e.act \in {"remove", "hidden"} /\ e.source \in Mount /\ e.name = Null /\ e.val = Null
<1>1. e = Event(e.act, e.source, e.name, e.val)
  BY DEF Reported, Event
<1>2. /\ \/ e.act \in {"set", "sub"} /\ e.source = Global /\ e.name \in Globals /\ e.val \in Int
         \/ e.act \in {"inc", "dec"} /\ e.source = Global /\ e.name \in Globals /\ e.val = Null
         \/ e.act = "set" /\ e.source \in Mount /\ e.name = "slow" /\ e.val \in Int
         \/ e.act \in {"inc", "remove"} /\ e.source \in Mount /\ e.name = "slow" /\ e.val = Null
         \/ e.act \in {"remove", "hidden"} /\ e.source \in Mount /\ e.name = Null /\ e.val = Null
  BY DEF Reported, Names, Globals
<1> QED
  BY <1>1, <1>2

(* The events of the threads that report are of these forms. *)
LEMMA FormsReported ==
    /\ \A n \in Globals, v \in Int : /\ Event("set", Global, n, v) \in Reported
                                     /\ Event("sub", Global, n, v) \in Reported
    /\ \A n \in Globals : /\ Event("inc", Global, n, Null) \in Reported
                          /\ Event("dec", Global, n, Null) \in Reported
    /\ \A m \in Mount : /\ MountEvents(m) \subseteq Reported
                        /\ Event("remove", m, Null, Null) \in Reported
                        /\ Event("hidden", m, Null, Null) \in Reported
                        /\ Event("set", m, "slow", 0) \in Reported
<1>1. \A n \in Globals, v \in Int : /\ Event("set", Global, n, v) \in Reported
                                    /\ Event("sub", Global, n, v) \in Reported
  BY DEF Globals, Reported, Event, Names
<1>2. \A n \in Globals : /\ Event("inc", Global, n, Null) \in Reported
                         /\ Event("dec", Global, n, Null) \in Reported
  BY DEF Globals, Reported, Event, Names
<1>3. ASSUME NEW m \in Mount
      PROVE  /\ Event("remove", m, Null, Null) \in Reported
             /\ Event("hidden", m, Null, Null) \in Reported
             /\ Event("set", m, "slow", 0) \in Reported
             /\ Event("inc", m, "slow", Null) \in Reported
             /\ Event("remove", m, "slow", Null) \in Reported
  BY DEF Reported, Event
<1>4. ASSUME NEW m \in Mount PROVE MountEvents(m) \subseteq Reported
  <2> HIDE DEF Event, Reported
  <2> QED
    BY <1>3 DEF MountEvents
<1> QED
  BY <1>1, <1>2, <1>3, <1>4

(* What it does to the statistic n. *)
LEMMA AppliedIs ==
    ASSUME NEW n \in Globals, NEW e \in Reported, NEW v \in Int
    PROVE  /\ Applied(n)[e][v] \in Int
           /\ e.source # Global \/ e.name # n => Applied(n)[e][v] = v
           /\ e.source = Global /\ e.name = n =>
                /\ e.act = "set" => Applied(n)[e][v] = e.val
                /\ e.act = "inc" => Applied(n)[e][v] = v + 1
                /\ e.act = "dec" => Applied(n)[e][v] = v - 1
                /\ e.act = "sub" => Applied(n)[e][v] = v - e.val
<1>1. Applied(n)[e][v] =
        IF <<e.source, e.name>> # <<Global, n>> THEN v
        ELSE CASE e.act = "set" -> e.val
               [] e.act = "inc" -> v + 1
               [] e.act = "dec" -> v - 1
               [] e.act = "sub" -> v - e.val
  BY DEF Applied
<1> DEFINE r == Applied(n)[e][v]
           a == e.act
           s == e.source
           m == e.name
           x == e.val
<1>2. r = IF <<s, m>> # <<Global, n>> THEN v
          ELSE CASE a = "set" -> x [] a = "inc" -> v + 1 [] a = "dec" -> v - 1 [] a = "sub" -> v - x
  BY <1>1
<1>3. s = Global => \/ a \in {"set", "sub"} /\ x \in Int
                    \/ a \in {"inc", "dec"}
  BY Forms, Constants
<1> HIDE DEF r, a, s, m, x
<1>4. /\ r \in Int
      /\ s # Global \/ m # n => r = v
      /\ s = Global /\ m = n => /\ a = "set" => r = x
                                /\ a = "inc" => r = v + 1
                                /\ a = "dec" => r = v - 1
                                /\ a = "sub" => r = v - x
  <2>1. CASE s # Global \/ m # n
    <3>1. <<s, m>> # <<Global, n>>
      BY <2>1
    <3> QED
      BY <1>2, <2>1, <3>1
  <2>2. CASE s = Global /\ m = n
    <3>1. r = CASE a = "set" -> x [] a = "inc" -> v + 1 [] a = "dec" -> v - 1 [] a = "sub" -> v - x
      BY <1>2, <2>2
    <3> QED
      BY <1>3, <2>2, <3>1
  <2> QED
    BY <2>1, <2>2
<1> QED
  BY <1>4 DEF r, a, s, m, x

(* So it is a function on the integers. *)
LEMMA AppliedType ==
    ASSUME NEW n \in Globals
    PROVE  Applied(n) \in [Reported -> [Int -> Int]]
<1>1. ASSUME NEW e \in Reported PROVE Applied(n)[e] \in [Int -> Int]
  <2>1. \A v \in Int : Applied(n)[e][v] \in Int
    BY AppliedIs
  <2> DEFINE B(v) == IF <<e.source, e.name>> # <<Global, n>> THEN v
                     ELSE CASE e.act = "set" -> e.val
                            [] e.act = "inc" -> v + 1
                            [] e.act = "dec" -> v - 1
                            [] e.act = "sub" -> v - e.val
  <2>2. Applied(n)[e] = [v \in Int |-> B(v)]
    BY Zenon DEF Applied
  <2> HIDE DEF B
  <2>3. Applied(n)[e] = [v \in Int |-> Applied(n)[e][v]]
    BY <2>2, Zenon
  <2> QED
    BY <2>1, <2>3
<1>2. Applied(n) = [e \in Reported |-> Applied(n)[e]]
  BY DEF Applied
<1> QED
  BY <1>1, <1>2, Zenon

(* And what a subscriber hears is knowledge again. *)
LEMMA HearingType ==
    /\ Hearing \in [EventSet -> [Knowledge -> Knowledge]]
    /\ \A e \in EventSet, known \in Knowledge : Hearing[e][known] = Heard(known, e)
<1>1. ASSUME NEW e \in EventSet, NEW known \in Knowledge
      PROVE  Heard(known, e) \in Knowledge
  <2>1. e.val \in Int \cup {Null}
    BY DEF EventSet
  <2>2. [k \in Key |-> IF k[1] = e.source THEN Null ELSE known[k]] \in Knowledge
    BY DEF Knowledge
  <2> DEFINE x == IF e.act = "sub" THEN Unknown ELSE e.val
             p == <<e.source, e.name>>
  <2>3. x \in Int \cup {Null, Unknown}
    BY <2>1
  <2> HIDE DEF x, p
  <2>4. [known EXCEPT ![p] = x] \in Knowledge
    BY <2>3 DEF Knowledge
  <2> QED
    BY <2>2, <2>4 DEF Heard, x, p
<1>2. ASSUME NEW e \in EventSet
      PROVE  [known \in Knowledge |-> Heard(known, e)] \in [Knowledge -> Knowledge]
  <2> HIDE DEF Heard, Knowledge
  <2> QED
    BY <1>1
<1> HIDE DEF Heard, Knowledge, EventSet
<1> QED
  BY <1>2, Zenon DEF Hearing

----------------------------------------------------------------------------
(* The inductive invariant *)

(* The threads of subscribers that are counted, and the sources that are. *)
Serving == {c \in Subscriber : sub[c] \in {"counted", "on", "leaving"}}
Occupied == {m \in Mount : up[m] # "off"}
Numbers == threads = Cardinality(Serving) /\ sources = Cardinality(Occupied)

IInv == TypeOK /\ Numbers /\ CountersExact /\ ToldIsTrue

(* The events that wait are reported ones. *)
LEMMA WaitingType ==
    ASSUME TypeOK, NEW n \in Globals
    PROVE  /\ Turns(Reported, Int, Applied(n), value[<<Global, n>>], Waiting)
           /\ Coming(n) \in Int
<1>1. Applied(n) \in [Reported -> [Int -> Int]]
  BY AppliedType
<1>2. value[<<Global, n>>] \in Int
  <2>1. <<Global, n>> \in Key /\ <<Global, n>>[1] = Global
    BY Constants
  <2>2. value \in [Key -> Int \cup {Null}] /\ \A k \in Key : value[k] = Null => k[1] # Global
    BY DEF TypeOK
  <2> HIDE DEF Key
  <2>3. value[<<Global, n>>] # Null
    BY <2>1, <2>2
  <2> QED
    BY <2>1, <2>2, <2>3
<1>3. Waiting \in Seq(Reported)
  <2>1. queue \in Seq(Reported) /\ hand \in Reported \cup {Null}
    BY DEF TypeOK
  <2> HIDE DEF Reported
  <2> QED
    BY <2>1 DEF Waiting
<1>4. Turns(Reported, Int, Applied(n), value[<<Global, n>>], Waiting)
  BY <1>1, <1>2, <1>3 DEF Turns
<1> QED
  BY <1>4, InTurnType DEF Coming

(* An event that is reported will be applied last. *)
LEMMA ComingAppend ==
    ASSUME TypeOK, NEW n \in Globals, NEW e \in Reported,
           queue' = Append(queue, e), hand' = hand, value' = value
    PROVE  Coming(n)' = Applied(n)[e][Coming(n)]
<1>1. Waiting' = Append(Waiting, e)
  <2>1. queue \in Seq(Reported) /\ hand \in Reported \cup {Null}
    BY DEF TypeOK
  <2> HIDE DEF Reported
  <2>2. CASE hand = Null
    <3>1. <<>> \o queue = queue /\ <<>> \o Append(queue, e) = Append(queue, e)
      BY <2>1
    <3> QED
      BY <2>2, <3>1 DEF Waiting
  <2>3. CASE hand # Null
    <3>1. <<hand>> \o Append(queue, e) = Append(<<hand>> \o queue, e)
      BY <2>1, <2>3
    <3> QED
      BY <2>3, <3>1 DEF Waiting
  <2> QED
    BY <2>2, <2>3
<1>2. Turns(Reported, Int, Applied(n), value[<<Global, n>>], Waiting)
  BY WaitingType
<1>3. InTurn(Applied(n), value[<<Global, n>>], Append(Waiting, e)) =
        Applied(n)[e][InTurn(Applied(n), value[<<Global, n>>], Waiting)]
  BY <1>2, InTurnAppend
<1>4. Coming(n)' = InTurn(Applied(n), value'[<<Global, n>>], Waiting')
  BY DEF Coming, Applied, InTurn, Reported
<1> QED
  BY <1>1, <1>3, <1>4 DEF Coming

(* A sequence of one or two events is added to the queue one by one. *)
LEMMA ReportsOne ==
    ASSUME TypeOK, NEW a \in Reported, Report(<<a>>)
    PROVE  queue' = Append(queue, a) /\ queue' \in Seq(Reported)
<1>1. queue \in Seq(Reported) /\ queue' = queue \o <<a>>
  BY DEF TypeOK, Report
<1> HIDE DEF Reported
<1> QED
  BY <1>1

(* Two reports are queued one behind the other. *)
LEMMA ReportsTwo ==
    ASSUME TypeOK, NEW a \in Reported, NEW b \in Reported, Report(<<a, b>>)
    PROVE  queue' = Append(Append(queue, a), b) /\ queue' \in Seq(Reported)
<1>1. queue \in Seq(Reported) /\ queue' = queue \o <<a, b>>
  BY DEF TypeOK, Report
<1> HIDE DEF Reported
<1> QED
  BY <1>1

(* Subscribers do not notice. *)
LEMMA ToldKept ==
    ASSUME ToldIsTrue, sub' = sub, feed' = feed, told' = told, value' = value, cleared' = cleared
    PROVE  ToldIsTrue'
<1>1. ASSUME NEW c \in Subscriber, sub'[c] = "on", NEW k \in Key
      PROVE  InTurn(Hearing, told'[c], feed'[c])[k] \in {value'[k], Unknown} \/ k[1] \in cleared'
  <2> HIDE DEF Hearing, InTurn, Key
  <2> QED
    BY <1>1 DEF ToldIsTrue
<1> QED
  BY <1>1 DEF ToldIsTrue

(* Only what a thread reports changes. *)
LEMMA ReportType ==
    ASSUME TypeOK, NEW events, Report(events), queue' \in Seq(Reported),
           up' \in [Mount -> {"off", "up", "ending"}], sources' \in Nat, listeners' \in Nat,
           unsaid' \in BOOLEAN
    PROVE  TypeOK'
<1>1. left' \in 0 .. MaxEvents
  BY StatsAssumption DEF TypeOK, Report
<1> HIDE DEF Reported, Knowledge, EventSet, Key
<1> QED
  BY <1>1, Zenon DEF TypeOK, Report, subVars

(* The sets that are counted are finite and grow or shrink by one. *)
LEMMA Finite ==
    /\ IsFiniteSet(Serving) /\ Cardinality(Serving) \in Nat
    /\ IsFiniteSet(Occupied) /\ Cardinality(Occupied) \in Nat
<1>1. Serving \subseteq Subscriber /\ Occupied \subseteq Mount
  BY DEF Serving, Occupied
<1>2. IsFiniteSet(Serving) /\ IsFiniteSet(Occupied)
  BY <1>1, StatsAssumption, FS_Subset
<1> QED
  BY <1>2, FS_CardinalityType

(* A set with one element more. *)
LEMMA OneMore ==
    ASSUME NEW S, NEW T, NEW x, IsFiniteSet(S), x \notin S, T = S \cup {x}
    PROVE  Cardinality(T) = Cardinality(S) + 1
  BY FS_AddElement

LEMMA OneLess ==
    ASSUME NEW S, NEW T, NEW x, IsFiniteSet(S), x \in S, T = S \ {x}
    PROVE  Cardinality(T) = Cardinality(S) - 1
  BY FS_RemoveElement

(* A source begins. *)
LEMMA OccupiedMore ==
    ASSUME TypeOK, Numbers, NEW m \in Mount, up[m] = "off", up' = [up EXCEPT ![m] = "up"]
    PROVE  /\ up' \in [Mount -> {"off", "up", "ending"}]
           /\ sources + 1 = Cardinality(Occupied') /\ sources + 1 \in Nat
<1>1. up \in [Mount -> {"off", "up", "ending"}] /\ sources \in Nat
  BY DEF TypeOK
<1>2. Occupied' = Occupied \cup {m} /\ m \notin Occupied
  BY <1>1 DEF Occupied
<1>3. Cardinality(Occupied') = Cardinality(Occupied) + 1
  BY <1>2, Finite, OneMore
<1> QED
  BY <1>1, <1>3 DEF Numbers

(* A source ends. *)
LEMMA OccupiedLess ==
    ASSUME TypeOK, Numbers, NEW m \in Mount, up[m] # "off", up' = [up EXCEPT ![m] = "off"]
    PROVE  /\ up' \in [Mount -> {"off", "up", "ending"}]
           /\ sources - 1 = Cardinality(Occupied') /\ sources - 1 \in Nat
<1>1. up \in [Mount -> {"off", "up", "ending"}] /\ sources \in Nat
  BY DEF TypeOK
<1>2. Occupied' = Occupied \ {m} /\ m \in Occupied
  BY <1>1 DEF Occupied
<1>3. Cardinality(Occupied') = Cardinality(Occupied) - 1
  BY <1>2, Finite, OneLess
<1>4. sources # 0
  BY <1>2, Finite, FS_EmptySet DEF Numbers
<1> QED
  BY <1>1, <1>3, <1>4 DEF Numbers

(* The threads of subscribers are the same. *)
LEMMA ServingKept ==
    ASSUME Numbers, sub' = sub, threads' = threads
    PROVE  threads' = Cardinality(Serving')
<1>1. Serving' = Serving
  BY DEF Serving
<1> QED
  BY <1>1 DEF Numbers

(* The sources stay. *)
LEMMA OccupiedKept ==
    ASSUME Numbers, up' = up, sources' = sources
    PROVE  sources' = Cardinality(Occupied')
<1>1. Occupied' = Occupied
  BY DEF Occupied
<1> QED
  BY <1>1 DEF Numbers

(* With nothing reported, the statistics to come are the same. *)
LEMMA ComingKept ==
    ASSUME TypeOK, NEW n \in Globals, queue' = queue, hand' = hand, value' = value
    PROVE  Coming(n)' = Coming(n)
<1>1. Waiting' = Waiting
  BY DEF Waiting
<1>2. Coming(n)' = InTurn(Applied(n), value'[<<Global, n>>], Waiting')
  BY DEF Coming, Applied, InTurn, Reported
<1> QED
  BY <1>1, <1>2 DEF Coming

(* An event about a mount does not change them. *)
LEMMA ComingMount ==
    ASSUME TypeOK, NEW n \in Globals, NEW a \in Reported, Report(<<a>>), a.source \in Mount
    PROVE  Coming(n)' = Coming(n)
<1>1. hand' = hand /\ value' = value /\ queue' = Append(queue, a)
  BY ReportsOne DEF Report
<1>2. Coming(n)' = Applied(n)[a][Coming(n)]
  BY <1>1, ComingAppend
<1>3. a.source # Global
  BY Constants
<1> QED
  BY <1>2, <1>3, AppliedIs, WaitingType

(* Reports of a mount change no global number. *)
LEMMA ComingMountTwo ==
    ASSUME TypeOK, NEW n \in Globals, NEW a \in Reported, NEW b \in Reported,
           Report(<<a, b>>), a.source \in Mount, b.source \in Mount
    PROVE  Coming(n)' = Coming(n)
<1>1. /\ hand' = hand /\ value' = value /\ queue' = Append(Append(queue, a), b)
      /\ queue \in Seq(Reported) /\ hand \in Reported \cup {Null}
  BY ReportsTwo DEF Report, TypeOK
<1>2. Waiting' = Append(Append(Waiting, a), b) /\ Append(Waiting, a) \in Seq(Reported)
  <2> HIDE DEF Reported
  <2>1. CASE hand = Null
    <3>1. <<>> \o queue = queue /\ <<>> \o Append(Append(queue, a), b) = Append(Append(queue, a), b)
      BY <1>1
    <3> QED
      BY <1>1, <2>1, <3>1 DEF Waiting
  <2>2. CASE hand # Null
    <3> DEFINE h == <<hand>>
    <3>1. h \in Seq(Reported)
      BY <1>1, <2>2
    <3> HIDE DEF h
    <3>2. h \o Append(Append(queue, a), b) = Append(Append(h \o queue, a), b)
      <4>1. h \o Append(queue, a) = Append(h \o queue, a)
        BY <1>1, <3>1
      <4> DEFINE q == Append(queue, a)
      <4>2. q \in Seq(Reported)
        BY <1>1
      <4> HIDE DEF q
      <4>3. h \o Append(q, b) = Append(h \o q, b)
        BY <3>1, <4>2
      <4> QED
        BY <4>1, <4>3 DEF q
    <3>3. Append(h \o queue, a) \in Seq(Reported)
      BY <1>1, <3>1
    <3> QED
      BY <1>1, <2>2, <3>2, <3>3 DEF Waiting, h
  <2> QED
    BY <2>1, <2>2
<1> DEFINE v == value[<<Global, n>>]
           p == Applied(n)
<1>3. Turns(Reported, Int, p, v, Waiting) /\ Coming(n) \in Int
  BY WaitingType
<1>4. Turns(Reported, Int, p, v, Append(Waiting, a))
  BY <1>2, <1>3 DEF Turns
<1>5. Coming(n)' = InTurn(p, v, Append(Append(Waiting, a), b))
  <2>1. Coming(n)' = InTurn(Applied(n), value'[<<Global, n>>], Waiting')
    BY DEF Coming, Applied, InTurn, Reported
  <2> QED
    BY <1>1, <1>2, <2>1
<1>6. InTurn(p, v, Waiting) = Coming(n)
  BY DEF Coming
<1> HIDE DEF v, p
<1>7. /\ InTurn(p, v, Append(Waiting, a)) = p[a][InTurn(p, v, Waiting)]
      /\ InTurn(p, v, Append(Append(Waiting, a), b)) = p[b][InTurn(p, v, Append(Waiting, a))]
  BY <1>3, <1>4, InTurnAppend
<1>8. a.source # Global /\ b.source # Global
  BY Constants
<1>9. p[a][Coming(n)] = Coming(n) /\ p[b][Coming(n)] = Coming(n)
  BY <1>3, <1>8, AppliedIs DEF p
<1> QED
  BY <1>5, <1>6, <1>7, <1>9

(* Then neither the counters nor the statistics to come change. *)
LEMMA ExactKept ==
    ASSUME CountersExact, \A n \in Globals : Coming(n)' = Coming(n),
           threads' = threads, listeners' = listeners, sources' = sources, unsaid' = unsaid,
           thread' # "freed" => thread # "freed"
    PROVE  CountersExact'
<1>1. /\ Coming("stats")' = Coming("stats") /\ Coming("listeners")' = Coming("listeners")
      /\ Coming("sources")' = Coming("sources")
  BY DEF Globals
<1> HIDE DEF Coming
<1> QED
  BY <1>1, Zenon DEF CountersExact

----------------------------------------------------------------------------
(* The threads that report *)

(* What one event about a global statistic changes: that statistic. *)
LEMMA ReportGlobal ==
    ASSUME TypeOK, NEW a \in Reported, Report(<<a>>), NEW n \in Globals
    PROVE  /\ Coming(n)' = Applied(n)[a][Coming(n)] /\ Coming(n) \in Int
           /\ a.name # n => Coming(n)' = Coming(n)
<1>1. hand' = hand /\ value' = value /\ queue' = Append(queue, a)
  BY ReportsOne DEF Report
<1>2. Coming(n)' = Applied(n)[a][Coming(n)] /\ Coming(n) \in Int
  BY <1>1, ComingAppend, WaitingType
<1> QED
  BY <1>2, AppliedIs

(* An event that sets the number of sources. *)
LEMMA ReportSources ==
    ASSUME TypeOK, CountersExact, NEW v \in Int, Report(<<Event("set", Global, "sources", v)>>),
           sources' = v, unsaid' = FALSE, listeners' = listeners
    PROVE  CountersExact' /\ queue' \in Seq(Reported)
<1> DEFINE a == Event("set", Global, "sources", v)
<1>1. a \in Reported
  BY FormsReported DEF Globals
<1>2. a.act = "set" /\ a.source = Global /\ a.name = "sources" /\ a.val = v
  BY DEF Event
<1>3. Report(<<a>>) /\ thread' = thread /\ threads' = threads
  BY DEF Report
<1> HIDE DEF a
<1>4. /\ Coming("stats")' = Coming("stats") /\ Coming("listeners")' = Coming("listeners")
      /\ Coming("sources")' = Applied("sources")[a][Coming("sources")]
      /\ Coming("sources") \in Int
  BY <1>1, <1>2, <1>3, ReportGlobal DEF Globals
<1>5. Applied("sources")[a][Coming("sources")] = v
  BY <1>1, <1>2, <1>4, AppliedIs DEF Globals
<1>6. queue' \in Seq(Reported)
  BY <1>1, <1>3, ReportsOne
<1> HIDE DEF Coming
<1> QED
  BY <1>3, <1>4, <1>5, <1>6 DEF CountersExact

(* An event about the listeners. *)
LEMMA ReportListeners ==
    ASSUME TypeOK, CountersExact, NEW a \in Reported, Report(<<a>>), a.source = Global,
           a.name = "listeners", listeners' = Applied("listeners")[a][listeners],
           UNCHANGED <<up, sources, unsaid>>
    PROVE  CountersExact' /\ queue' \in Seq(Reported)
<1>1. thread' = thread /\ threads' = threads
  BY DEF Report
<1>2. /\ Coming("stats")' = Coming("stats") /\ Coming("sources")' = Coming("sources")
      /\ Coming("listeners")' = Applied("listeners")[a][Coming("listeners")]
  BY ReportGlobal DEF Globals
<1>3. queue' \in Seq(Reported)
  BY ReportsOne
<1> HIDE DEF Coming
<1> QED
  BY <1>1, <1>2, <1>3 DEF CountersExact

(* Sources and listeners come, go and report. *)
LEMMA WorldInv ==
    ASSUME IInv,
           \/ \E m \in Mount : \/ SourceUp(m) \/ SourceEnds(m) \/ SourceDown(m) \/ SourceLost(m)
                               \/ MountReports(m) \/ VirtualMount(m)
           \/ ListenerUp \/ ListenerDown \/ ListenersDown
    PROVE  IInv'
<1>1. /\ TypeOK /\ Numbers /\ CountersExact /\ ToldIsTrue
      /\ sources \in Nat /\ listeners \in Nat /\ unsaid \in BOOLEAN
      /\ up \in [Mount -> {"off", "up", "ending"}]
  BY DEF IInv, TypeOK
(* A report leaves the subscribers alone. *)
<1>2. ASSUME NEW events, Report(events), queue' \in Seq(Reported),
             up' \in [Mount -> {"off", "up", "ending"}], sources' \in Nat, listeners' \in Nat,
             unsaid' \in BOOLEAN, sources' = Cardinality(Occupied'), CountersExact'
      PROVE  IInv'
  <2>1. /\ sub' = sub /\ feed' = feed /\ told' = told /\ value' = value /\ cleared' = cleared
        /\ threads' = threads /\ thread' = thread
    BY <1>2 DEF Report, subVars
  <2>2. TypeOK'
    BY <1>1, <1>2, ReportType
  <2>3. ToldIsTrue'
    BY <1>1, <2>1, ToldKept
  <2>4. threads' = Cardinality(Serving')
    BY <1>1, <2>1, ServingKept
  <2> QED
    BY <1>2, <2>2, <2>3, <2>4, Zenon DEF IInv, Numbers
<1>3. ASSUME NEW m \in Mount, SourceUp(m) PROVE IInv'
  <2>1. Report(<<Event("set", Global, "sources", sources + 1)>>)
    BY <1>3 DEF SourceUp
  <2>2. sources' = sources + 1 /\ unsaid' = FALSE /\ listeners' = listeners
    BY <1>3 DEF SourceUp
  <2>3. /\ up' \in [Mount -> {"off", "up", "ending"}]
        /\ sources + 1 = Cardinality(Occupied') /\ sources + 1 \in Nat
    BY <1>1, <1>3, OccupiedMore DEF SourceUp
  <2> DEFINE v == sources + 1
  <2>4. v \in Int /\ Report(<<Event("set", Global, "sources", v)>>) /\ sources' = v
    BY <1>1, <2>1, <2>2
  <2> HIDE DEF v
  <2>5. CountersExact' /\ queue' \in Seq(Reported)
    BY <1>1, <2>2, <2>4, ReportSources
  <2> QED
    BY <1>1, <1>2, <2>1, <2>2, <2>3, <2>5
<1>4. ASSUME NEW m \in Mount, SourceDown(m) PROVE IInv'
  <2>1. Report(<<Event("set", Global, "sources", sources - 1)>>)
    BY <1>4 DEF SourceDown
  <2>2. sources' = sources - 1 /\ unsaid' = FALSE /\ listeners' = listeners
    BY <1>4 DEF SourceDown
  <2>3. /\ up' \in [Mount -> {"off", "up", "ending"}]
        /\ sources - 1 = Cardinality(Occupied') /\ sources - 1 \in Nat
    BY <1>1, <1>4, OccupiedLess DEF SourceDown
  <2> DEFINE v == sources - 1
  <2>4. v \in Int /\ Report(<<Event("set", Global, "sources", v)>>) /\ sources' = v
    BY <1>1, <2>1, <2>2
  <2> HIDE DEF v
  <2>5. CountersExact' /\ queue' \in Seq(Reported)
    BY <1>1, <2>2, <2>4, ReportSources
  <2> QED
    BY <1>1, <1>2, <2>1, <2>2, <2>3, <2>5
<1>5. ASSUME NEW m \in Mount, SourceEnds(m) PROVE IInv'
  <2> DEFINE a == Event("remove", m, Null, Null)
  <2>1. a \in Reported /\ a.source \in Mount
    BY FormsReported DEF Event
  <2> HIDE DEF a
  <2>2. Report(<<a>>) /\ UNCHANGED <<sources, listeners, unsaid>>
    BY <1>5 DEF SourceEnds, a
  <2>3. up' \in [Mount -> {"off", "up", "ending"}] /\ Occupied' = Occupied
    BY <1>1, <1>5 DEF SourceEnds, Occupied
  <2>4. \A n \in Globals : Coming(n)' = Coming(n)
    BY <1>1, <2>1, <2>2, ComingMount
  <2>5. queue' \in Seq(Reported) /\ thread' = thread /\ threads' = threads
    BY <1>1, <2>1, <2>2, ReportsOne DEF Report
  <2>6. CountersExact'
    BY <1>1, <2>2, <2>4, <2>5, ExactKept
  <2>7. sources' = Cardinality(Occupied')
    BY <1>1, <2>2, <2>3 DEF Numbers
  <2> QED
    BY <1>1, <1>2, <2>2, <2>3, <2>5, <2>6, <2>7
<1>6. ASSUME NEW m \in Mount, SourceLost(m) PROVE IInv'
  <2>1. Report(<<>>) /\ sources' = sources - 1 /\ unsaid' = TRUE /\ listeners' = listeners
    BY <1>6 DEF SourceLost
  <2>2. /\ up' \in [Mount -> {"off", "up", "ending"}]
        /\ sources - 1 = Cardinality(Occupied') /\ sources - 1 \in Nat
    BY <1>1, <1>6, OccupiedLess DEF SourceLost
  <2>3. /\ queue' = queue /\ queue' \in Seq(Reported) /\ hand' = hand /\ value' = value
        /\ thread' = thread /\ threads' = threads
    <3>1. queue \in Seq(Reported) /\ queue' = queue \o <<>>
      BY <1>1, <2>1 DEF TypeOK, Report
    <3> HIDE DEF Reported
    <3>2. queue \o <<>> = queue
      BY <3>1
    <3> QED
      BY <2>1, <3>1, <3>2 DEF Report
  <2>4. \A n \in Globals : Coming(n)' = Coming(n)
    BY <1>1, <2>3, ComingKept
  <2>5. CountersExact'
    <3>1. Coming("stats")' = Coming("stats") /\ Coming("listeners")' = Coming("listeners")
      BY <2>4 DEF Globals
    <3> HIDE DEF Coming
    <3> QED
      BY <1>1, <2>1, <2>3, <3>1 DEF CountersExact
  <2> QED
    BY <1>1, <1>2, <2>1, <2>2, <2>3, <2>5
(* Events about mounts. *)
<1>7. ASSUME NEW events, Report(events), UNCHANGED <<up, sources, listeners, unsaid>>,
             queue' \in Seq(Reported), \A n \in Globals : Coming(n)' = Coming(n)
      PROVE  IInv'
  <2>1. thread' = thread /\ threads' = threads
    BY <1>7 DEF Report
  <2>2. CountersExact'
    BY <1>1, <1>7, <2>1, ExactKept
  <2>3. sources' = Cardinality(Occupied')
    BY <1>1, <1>7, OccupiedKept
  <2> QED
    BY <1>1, <1>2, <1>7, <2>2, <2>3
<1>8. ASSUME NEW m \in Mount, MountReports(m) PROVE IInv'
  <2>1. PICK a \in MountEvents(m) : Report(<<a>>)
    BY <1>8 DEF MountReports
  <2>2. a \in Reported /\ a.source \in Mount
    <3>1. a.source = m
      BY DEF MountEvents, Event
    <3> QED
      BY <3>1, FormsReported
  <2>3. queue' \in Seq(Reported) /\ \A n \in Globals : Coming(n)' = Coming(n)
    BY <1>1, <2>1, <2>2, ReportsOne, ComingMount
  <2> QED
    BY <1>7, <1>8, <2>1, <2>3 DEF MountReports
<1>9. ASSUME NEW m \in Mount, VirtualMount(m) PROVE IInv'
  <2> DEFINE a == Event("hidden", m, Null, Null)
             b == Event("set", m, "slow", 0)
             d == Event("remove", m, Null, Null)
  <2>1. /\ a \in Reported /\ b \in Reported /\ d \in Reported
        /\ a.source \in Mount /\ b.source \in Mount /\ d.source \in Mount
    BY FormsReported DEF Event
  <2> HIDE DEF a, b, d
  <2>2. Report(<<a, b>>) \/ Report(<<d>>)
    BY <1>9 DEF VirtualMount, a, b, d
  <2>3. UNCHANGED <<up, sources, listeners, unsaid>>
    BY <1>9 DEF VirtualMount
  <2>4. CASE Report(<<a, b>>)
    <3>1. queue' \in Seq(Reported) /\ \A n \in Globals : Coming(n)' = Coming(n)
      BY <1>1, <2>1, <2>4, ReportsTwo, ComingMountTwo
    <3> QED
      BY <1>7, <2>3, <2>4, <3>1
  <2>5. CASE Report(<<d>>)
    <3>1. queue' \in Seq(Reported) /\ \A n \in Globals : Coming(n)' = Coming(n)
      BY <1>1, <2>1, <2>5, ReportsOne, ComingMount
    <3> QED
      BY <1>7, <2>3, <2>5, <3>1
  <2> QED
    BY <2>2, <2>4, <2>5
(* Events about listeners. *)
<1>10. ASSUME NEW a \in Reported, Report(<<a>>), a.source = Global, a.name = "listeners",
              listeners' = Applied("listeners")[a][listeners], listeners' \in Nat,
              UNCHANGED <<up, sources, unsaid>>
       PROVE  IInv'
  <2>1. CountersExact' /\ queue' \in Seq(Reported)
    BY <1>1, <1>10, ReportListeners
  <2>2. sources' = Cardinality(Occupied')
    BY <1>1, <1>10, OccupiedKept
  <2> QED
    BY <1>1, <1>2, <1>10, <2>1, <2>2
<1>11. ASSUME ListenerUp PROVE IInv'
  <2> DEFINE a == Event("inc", Global, "listeners", Null)
  <2>1. a \in Reported /\ a.source = Global /\ a.name = "listeners" /\ a.act = "inc"
    BY FormsReported DEF Event, Globals
  <2> HIDE DEF a
  <2>2. Applied("listeners")[a][listeners] = listeners + 1
    BY <1>1, <2>1, AppliedIs DEF Globals
  <2>3. Report(<<a>>) /\ listeners' = listeners + 1 /\ UNCHANGED <<up, sources, unsaid>>
    BY <1>11 DEF ListenerUp, a
  <2> QED
    BY <1>1, <1>10, <2>1, <2>2, <2>3
<1>12. ASSUME ListenerDown PROVE IInv'
  <2> DEFINE a == Event("dec", Global, "listeners", Null)
  <2>1. a \in Reported /\ a.source = Global /\ a.name = "listeners" /\ a.act = "dec"
    BY FormsReported DEF Event, Globals
  <2> HIDE DEF a
  <2>2. Applied("listeners")[a][listeners] = listeners - 1
    BY <1>1, <2>1, AppliedIs DEF Globals
  <2>3. /\ Report(<<a>>) /\ listeners > 0 /\ listeners' = listeners - 1
        /\ UNCHANGED <<up, sources, unsaid>>
    BY <1>12 DEF ListenerDown, a
  <2> QED
    BY <1>1, <1>10, <2>1, <2>2, <2>3
<1>13. ASSUME ListenersDown PROVE IInv'
  <2> DEFINE a == Event("sub", Global, "listeners", listeners)
  <2>1. /\ a \in Reported /\ a.source = Global /\ a.name = "listeners" /\ a.act = "sub"
        /\ a.val = listeners
    <3>1. "listeners" \in Globals /\ listeners \in Int
      BY <1>1 DEF Globals
    <3>2. a \in Reported
      BY <3>1, FormsReported
    <3> QED
      BY <3>2 DEF Event
  <2> HIDE DEF a
  <2>2. Applied("listeners")[a][listeners] = 0
    BY <1>1, <2>1, AppliedIs DEF Globals
  <2>3. Report(<<a>>) /\ listeners' = 0 /\ UNCHANGED <<up, sources, unsaid>>
    BY <1>13 DEF ListenersDown, a
  <2> QED
    BY <1>1, <1>10, <2>1, <2>2, <2>3
<1> QED
  BY <1>3, <1>4, <1>5, <1>6, <1>8, <1>9, <1>11, <1>12, <1>13

----------------------------------------------------------------------------
(* The statistics thread *)

(* The values of the trees. *)
LEMMA Values ==
    ASSUME TypeOK
    PROVE  /\ value \in [Key -> Int \cup {Null}]
           /\ \A k \in Key : k[1] = Global => value[k] \in Int
           /\ \A n \in Globals : value[<<Global, n>>] \in Int
<1>1. value \in [Key -> Int \cup {Null}] /\ \A k \in Key : value[k] = Null => k[1] # Global
  BY DEF TypeOK
<1>2. \A n \in Globals : <<Global, n>> \in Key /\ <<Global, n>>[1] = Global
  BY Constants
<1> HIDE DEF Key
<1>3. \A k \in Key : k[1] = Global => value[k] \in Int
  BY <1>1
<1> QED
  BY <1>1, <1>2, <1>3

(* A mount is removed as a whole, by an event about a mount. *)
LEMMA Removals ==
    ASSUME NEW e \in Reported
    PROVE  /\ IsRemoval(e) \/ e.act = "hidden" => e.source \in Mount
           /\ ~IsRemoval(e) /\ e.act # "hidden" =>
                /\ <<e.source, e.name>> \in Key
                /\ e.source = Global => e.name \in Globals /\ e.act \in {"set", "inc", "dec", "sub"}
                /\ e.source # Global => e.source \in Mount /\ e.act \in {"set", "inc", "remove"}
<1>1. e.name = "slow" \/ e.name \in Globals => e.name # Null
  BY Constants DEF Names, Globals
<1>2. Global \notin Mount
  BY Constants
<1>3. ASSUME IsRemoval(e) \/ e.act = "hidden" PROVE e.source \in Mount
  BY <1>1, <1>3, Forms DEF IsRemoval
<1>4. ASSUME ~IsRemoval(e), e.act # "hidden"
      PROVE  /\ e.source = Global => e.name \in Globals /\ e.act \in {"set", "inc", "dec", "sub"}
             /\ e.source # Global => /\ e.source \in Mount /\ e.act \in {"set", "inc", "remove"}
                                     /\ e.name = "slow"
  BY <1>1, <1>2, <1>4, Forms DEF IsRemoval
<1>5. ASSUME ~IsRemoval(e), e.act # "hidden" PROVE <<e.source, e.name>> \in Key
  BY <1>4, <1>5, Constants
<1> QED
  BY <1>3, <1>4, <1>5

(* The value that a statistic gets. *)
LEMMA ModifiedIs ==
    ASSUME TypeOK, NEW e \in Reported, ~IsRemoval(e), e.act # "hidden"
    PROVE  /\ Modified(e) \in Int \cup {Null}
           /\ e.source = Global =>
                Modified(e) = Applied(e.name)[e][value[<<e.source, e.name>>]]
           /\ e.source # Global /\ Modified(e) # Null => e.act # "remove"
           /\ e.act \in {"set", "remove"} => Modified(e) = e.val
           /\ e.act \in {"inc", "dec"} => e.val = Null
           /\ e.val \in Int \cup {Null}
<1> DEFINE old == value[<<e.source, e.name>>]
           a == e.act
           x == e.val
           r == Modified(e)
<1>1. r = CASE a = "set" -> x
            [] a = "inc" -> IF old = Null THEN Null ELSE old + 1
            [] a = "dec" -> old - 1
            [] a = "sub" -> old - x
            [] a = "remove" -> Null
  BY DEF Modified
<1>2. old \in Int \cup {Null} /\ (e.source = Global => old \in Int)
  <2>1. <<e.source, e.name>> \in Key /\ <<e.source, e.name>>[1] = e.source
    BY Removals
  <2> HIDE DEF Key
  <2> QED
    BY <2>1, Values
<1>3. /\ e.source = Global => a \in {"set", "inc", "dec", "sub"} /\ e.name \in Globals
      /\ e.source # Global => a \in {"set", "inc", "remove"}
  BY Removals
<1>4. /\ a \in {"set", "sub"} => x \in Int
      /\ a \in {"inc", "dec", "remove"} => x = Null
      /\ x \in Int \cup {Null}
  BY Forms
<1>5. ASSUME e.source = Global
      PROVE  /\ a = "set" => Applied(e.name)[e][old] = x
             /\ a = "inc" => Applied(e.name)[e][old] = old + 1
             /\ a = "dec" => Applied(e.name)[e][old] = old - 1
             /\ a = "sub" => Applied(e.name)[e][old] = old - x
  BY <1>2, <1>3, <1>5, AppliedIs
<1>6. Null \notin Int
  BY Constants
<1> DEFINE y == Applied(e.name)[e][old]
           g == e.source = Global
<1> HIDE DEF old, a, x, r, y
<1>7. /\ r \in Int \cup {Null} /\ (g => r = y)
      /\ (~g /\ r # Null => a # "remove")
      /\ (a \in {"set", "remove"} => r = x)
  BY <1>1, <1>2, <1>3, <1>4, <1>5, <1>6 DEF y
<1> QED
  BY <1>4, <1>7 DEF old, a, x, r, y

(* What the trees are afterwards. *)
LEMMA ProcessedValue ==
    ASSUME TypeOK, NEW e \in Reported, value' = ValueAfter(e), present' = PresentAfter(e)
    PROVE  /\ value' \in [Key -> Int \cup {Null}] /\ present' \subseteq Mount
           /\ \A k \in Key : value'[k] = Null => k[1] # Global
           /\ \A k \in Key : k[1] # Global /\ value'[k] # Null => k[1] \in present'
           /\ \A n \in Globals : value'[<<Global, n>>] = Applied(n)[e][value[<<Global, n>>]]
<1>1. /\ value \in [Key -> Int \cup {Null}] /\ present \subseteq Mount
      /\ \A k \in Key : value[k] = Null => k[1] # Global
      /\ \A k \in Key : k[1] # Global /\ value[k] # Null => k[1] \in present
  BY DEF TypeOK
<1>2. /\ Null \notin Int /\ Global \notin Mount
      /\ \A n \in Globals : <<Global, n>> \in Key /\ <<Global, n>>[1] = Global
      /\ \A n \in Globals : value[<<Global, n>>] \in Int
  BY Constants, Values
<1>3. e.source \in Mount => \A n \in Globals :
        Applied(n)[e][value[<<Global, n>>]] = value[<<Global, n>>]
  BY <1>2, AppliedIs
<1>4. CASE IsRemoval(e)
  <2>1. e.source \in Mount /\ e.source # Global
    BY <1>2, <1>4, Removals
  <2>2. value' = [k \in Key |-> IF k[1] = e.source THEN Null ELSE value[k]]
    BY <1>4 DEF ValueAfter
  <2>3. present' = present \ {e.source}
    BY <1>4, <2>1 DEF PresentAfter
  <2> HIDE DEF Key, Globals
  <2>4. \A k \in Key : value'[k] = IF k[1] = e.source THEN Null ELSE value[k]
    BY <2>2
  <2>5. value' \in [Key -> Int \cup {Null}]
    BY <1>1, <2>2
  <2>6. \A n \in Globals : value'[<<Global, n>>] = value[<<Global, n>>]
    BY <1>2, <2>1, <2>4
  <2> QED
    BY <1>1, <1>3, <2>1, <2>3, <2>4, <2>5, <2>6
<1>5. CASE ~IsRemoval(e) /\ e.act = "hidden"
  <2>1. e.source \in Mount /\ e.source # Global
    BY <1>2, <1>5, Removals
  <2>2. value' = value /\ present' = present \cup {e.source}
    BY <1>5, <2>1 DEF ValueAfter, PresentAfter
  <2> HIDE DEF Key, Globals
  <2> QED
    BY <1>1, <1>3, <2>1, <2>2
<1>6. CASE ~IsRemoval(e) /\ e.act # "hidden"
  <2> DEFINE p == <<e.source, e.name>>
             r == Modified(e)
  <2>1. value' = [value EXCEPT ![p] = r]
    BY <1>6 DEF ValueAfter
  <2>2. p \in Key /\ p[1] = e.source
    BY <1>6, Removals
  <2>3. /\ r \in Int \cup {Null} /\ (e.source = Global => r = Applied(e.name)[e][value[p]])
        /\ e.source # Global /\ r # Null => e.act # "remove"
    BY <1>6, ModifiedIs
  <2>4. \A n \in Globals : <<Global, n>> = p <=> e.source = Global /\ e.name = n
    OBVIOUS
  <2>5. /\ e.source = Global => present' = present /\ e.name \in Globals
        /\ e.source # Global => /\ e.source \in Mount
                                /\ present' = IF e.act = "remove" THEN present
                                              ELSE present \cup {e.source}
    BY <1>6, Removals DEF PresentAfter
  <2> HIDE DEF p, r, Key, Globals
  <2>6. value' \in [Key -> Int \cup {Null}] /\ \A k \in Key : value'[k] = IF k = p THEN r ELSE value[k]
    BY <1>1, <2>1, <2>2, <2>3
  <2>7. e.source = Global => r \in Int
    <3> SUFFICES ASSUME e.source = Global PROVE r \in Int
      OBVIOUS
    <3>1. value[p] \in Int
      BY <1>1, <2>2
    <3> QED
      BY <2>3, <2>5, <3>1, AppliedIs
  <2>8. \A k \in Key : value'[k] = Null => k[1] # Global
    BY <1>1, <1>2, <2>2, <2>6, <2>7
  <2>9. \A k \in Key : k[1] # Global /\ value'[k] # Null => k[1] \in present'
    BY <1>1, <2>2, <2>3, <2>5, <2>6
  <2>10. ASSUME NEW n \in Globals
         PROVE  value'[<<Global, n>>] = Applied(n)[e][value[<<Global, n>>]]
    <3>1. CASE <<Global, n>> = p
      <4>1. value'[p] = r /\ e.name = n /\ e.source = Global
        BY <2>2, <2>4, <2>6, <3>1
      <4> QED
        BY <2>3, <3>1, <4>1
    <3>2. CASE <<Global, n>> # p
      <4>1. value'[<<Global, n>>] = value[<<Global, n>>]
        BY <1>2, <2>6, <3>2
      <4>2. e.source # Global \/ e.name # n
        BY <2>4, <3>2
      <4> QED
        BY <1>2, <4>1, <4>2, AppliedIs
    <3> QED
      BY <3>1, <3>2
  <2> QED
    BY <1>1, <2>5, <2>6, <2>8, <2>9, <2>10
<1> QED
  BY <1>4, <1>5, <1>6

(* The copy of an event tells the new value. *)
LEMMA CopiedIs ==
    ASSUME TypeOK, NEW e \in Reported
    PROVE  /\ Copied(e) \in EventSet
           /\ Copied(e).act = e.act /\ Copied(e).source = e.source /\ Copied(e).name = e.name
           /\ ~IsRemoval(e) /\ e.act \notin {"hidden", "sub"} => Copied(e).val = Modified(e)
<1>1. e = Event(e.act, e.source, e.name, e.val)
  BY Forms
<1>2. e \in EventSet
  BY Constants
<1>3. e.act \in {"inc", "dec"} => ~IsRemoval(e) /\ e.act # "hidden"
  BY DEF IsRemoval
<1>4. ~IsRemoval(e) /\ e.act # "hidden" =>
        /\ Modified(e) \in Int \cup {Null}
        /\ e.act \in {"set", "remove"} => Modified(e) = e.val
        /\ e.act \in {"inc", "dec"} => e.val = Null
  BY ModifiedIs
<1>5. e.act \in Acts
  BY <1>2 DEF EventSet
<1> DEFINE r == Modified(e)
<1>6. CASE e.act \in {"inc", "dec"}
  <2>1. Copied(e) = [e EXCEPT !.val = r]
    BY <1>3, <1>4, <1>6 DEF Copied
  <2>2. r \in Int \cup {Null}
    BY <1>3, <1>4, <1>6
  <2> HIDE DEF r
  <2>3. [e EXCEPT !.val = r] = Event(e.act, e.source, e.name, r)
    BY <1>1 DEF Event
  <2>4. Event(e.act, e.source, e.name, r) \in EventSet
    BY <1>2, <2>2 DEF Event, EventSet
  <2> QED
    BY <2>1, <2>3, <2>4 DEF Event, r
<1>7. CASE e.act \notin {"inc", "dec"}
  <2>1. Copied(e) = e
    BY <1>7 DEF Copied
  <2>2. ~IsRemoval(e) /\ e.act \notin {"hidden", "sub"} => e.act \in {"set", "remove"}
    BY <1>5, <1>7 DEF Acts
  <2> QED
    BY <1>2, <1>4, <2>1, <2>2
<1> QED
  BY <1>6, <1>7

(* One who knew the trees knows them after that copy. *)
LEMMA ProcessedTold ==
    ASSUME TypeOK, NEW e \in Reported, value' = ValueAfter(e),
           cleared' = (IF IsRemoval(e) THEN cleared \ {e.source} ELSE cleared),
           NEW known \in Knowledge,
           \A k \in Key : known[k] \in {value[k], Unknown} \/ k[1] \in cleared,
           NEW k \in Key
    PROVE  Heard(known, Copied(e))[k] \in {value'[k], Unknown} \/ k[1] \in cleared'
<1> DEFINE d == Copied(e)
<1>1. /\ d.act = e.act /\ d.source = e.source /\ d.name = e.name
      /\ ~IsRemoval(e) /\ e.act \notin {"hidden", "sub"} => d.val = Modified(e)
  BY CopiedIs
<1>2. IsRemoval(d) <=> IsRemoval(e)
  BY <1>1 DEF IsRemoval
<1> HIDE DEF d
<1>3. value \in [Key -> Int \cup {Null}] /\ known \in [Key -> Int \cup {Null, Unknown}]
  BY DEF TypeOK, Knowledge
<1>4. CASE IsRemoval(e)
  <2>1. Heard(known, d) = [j \in Key |-> IF j[1] = e.source THEN Null ELSE known[j]]
    BY <1>1, <1>2, <1>4 DEF Heard
  <2>2. value' = [j \in Key |-> IF j[1] = e.source THEN Null ELSE value[j]]
    BY <1>4 DEF ValueAfter
  <2>3. cleared' = cleared \ {e.source}
    BY <1>4
  <2> HIDE DEF Key
  <2>4. /\ Heard(known, d)[k] = IF k[1] = e.source THEN Null ELSE known[k]
        /\ value'[k] = IF k[1] = e.source THEN Null ELSE value[k]
    BY <2>1, <2>2
  <2> QED
    BY <2>3, <2>4 DEF d
<1>5. CASE ~IsRemoval(e) /\ e.act = "hidden"
  <2>1. Heard(known, d) = known /\ value' = value /\ cleared' = cleared
    BY <1>1, <1>2, <1>5 DEF Heard, ValueAfter
  <2> HIDE DEF Key
  <2> QED
    BY <2>1 DEF d
<1>6. CASE ~IsRemoval(e) /\ e.act # "hidden"
  <2> DEFINE p == <<e.source, e.name>>
             r == Modified(e)
             x == IF d.act = "sub" THEN Unknown ELSE d.val
  <2>1. Heard(known, d) = [known EXCEPT ![p] = x]
    BY <1>1, <1>2, <1>6 DEF Heard
  <2>2. value' = [value EXCEPT ![p] = r] /\ cleared' = cleared
    BY <1>6 DEF ValueAfter
  <2>3. x \in {r, Unknown}
    BY <1>1, <1>6
  <2> HIDE DEF p, r, x, Key
  <2>4. /\ Heard(known, d)[k] = IF k = p THEN x ELSE known[k]
        /\ value'[k] = IF k = p THEN r ELSE value[k]
    BY <1>3, <2>1, <2>2
  <2> QED
    BY <2>2, <2>3, <2>4 DEF d
<1> QED
  BY <1>4, <1>5, <1>6

(* What a subscriber will know is knowledge. *)
LEMMA ToldTurns ==
    ASSUME TypeOK, NEW c \in Subscriber
    PROVE  /\ Turns(EventSet, Knowledge, Hearing, told[c], feed[c])
           /\ InTurn(Hearing, told[c], feed[c]) \in Knowledge
<1>1. feed[c] \in Seq(EventSet) /\ told[c] \in Knowledge
  <2>1. feed \in [Subscriber -> Seq(EventSet)] /\ told \in [Subscriber -> Knowledge]
    BY DEF TypeOK
  <2> QED
    BY <2>1, Zenon
<1>2. Turns(EventSet, Knowledge, Hearing, told[c], feed[c])
  BY <1>1, HearingType, Zenon DEF Turns
<1> QED
  BY <1>2, InTurnType

(* The stats thread handles a report. *)
LEMMA ProcessEventInv ==
    ASSUME IInv, ProcessEvent
    PROVE  IInv'
<1> DEFINE e == hand
<1>1. TypeOK /\ Numbers /\ CountersExact /\ ToldIsTrue
  BY DEF IInv
<1>2. e \in Reported /\ e # Null
  BY <1>1 DEF TypeOK, ProcessEvent
<1>3. /\ present' = PresentAfter(e) /\ value' = ValueAfter(e)
      /\ cleared' = (IF IsRemoval(e) THEN cleared \ {e.source} ELSE cleared)
      /\ feed' = [c \in Subscriber |-> IF sub[c] = "on" THEN Append(feed[c], Copied(e))
                                       ELSE feed[c]]
      /\ hand' = Null
  BY DEF ProcessEvent
<1>4. UNCHANGED <<worldVars, queue, sub, told, threads, running, thread>>
  BY DEF ProcessEvent
<1>5. Copied(e) \in EventSet
  BY <1>1, <1>2, CopiedIs
<1> HIDE DEF e, ProcessEvent
<1>6. /\ value' \in [Key -> Int \cup {Null}] /\ present' \subseteq Mount
      /\ \A k \in Key : value'[k] = Null => k[1] # Global
      /\ \A k \in Key : k[1] # Global /\ value'[k] # Null => k[1] \in present'
      /\ \A n \in Globals : value'[<<Global, n>>] = Applied(n)[e][value[<<Global, n>>]]
  BY <1>1, <1>2, <1>3, ProcessedValue
<1>7. TypeOK'
  <2>1. feed' \in [Subscriber -> Seq(EventSet)]
    <3>1. feed \in [Subscriber -> Seq(EventSet)]
      BY <1>1 DEF TypeOK
    <3> HIDE DEF EventSet
    <3>2. \A c \in Subscriber : feed[c] \in Seq(EventSet) /\ Append(feed[c], Copied(e)) \in Seq(EventSet)
      BY <1>5, <3>1
    <3> QED
      BY <1>3, <3>2
  <2>2. cleared' \subseteq Mount
    <3>1. cleared \subseteq Mount
      BY <1>1 DEF TypeOK
    <3> QED
      BY <1>3, <3>1
  <2> HIDE DEF Reported, Key, Knowledge, EventSet
  <2> QED
    BY <1>1, <1>3, <1>4, <1>6, <2>1, <2>2, Zenon DEF TypeOK, worldVars
<1>8. Numbers'
  <2>1. sub' = sub /\ threads' = threads /\ up' = up /\ sources' = sources
    BY <1>4 DEF worldVars
  <2> QED
    BY <1>1, <2>1, ServingKept, OccupiedKept DEF Numbers
<1>9. CountersExact'
  <2>1. ASSUME NEW n \in Globals PROVE Coming(n)' = Coming(n)
    <3> DEFINE v == value[<<Global, n>>]
    <3>1. Turns(Reported, Int, Applied(n), v, Waiting)
      BY <1>1, WaitingType
    <3>2. Waiting # <<>> /\ Head(Waiting) = e /\ Tail(Waiting) = queue /\ Waiting' = queue
      <4>1. queue \in Seq(Reported)
        BY <1>1 DEF TypeOK
      <4>2. Waiting = <<e>> \o queue /\ Waiting' = <<>> \o queue
        BY <1>2, <1>3, <1>4 DEF Waiting, e
      <4> HIDE DEF Reported
      <4>3. /\ <<e>> \o queue # <<>> /\ Head(<<e>> \o queue) = e /\ Tail(<<e>> \o queue) = queue
            /\ <<>> \o queue = queue
        BY <1>2, <4>1
      <4> QED
        BY <4>2, <4>3
    <3>3. InTurn(Applied(n), v, Waiting) = InTurn(Applied(n), Applied(n)[e][v], queue)
      <4> DEFINE p == Applied(n)
                 w == Waiting
      <4>1. Turns(Reported, Int, p, v, w) /\ w # <<>>
        BY <3>1, <3>2
      <4> HIDE DEF v, p, w
      <4>2. InTurn(p, v, w) = InTurn(p, p[Head(w)][v], Tail(w))
        BY <4>1, InTurnHead
      <4> QED
        BY <3>2, <4>2 DEF p, w
    <3>4. Coming(n)' = InTurn(Applied(n), value'[<<Global, n>>], Waiting')
      BY DEF Coming, Applied, InTurn, Reported
    <3> QED
      BY <1>6, <3>2, <3>3, <3>4 DEF Coming
  <2>2. /\ threads' = threads /\ listeners' = listeners /\ sources' = sources
        /\ unsaid' = unsaid /\ thread' = thread
    BY <1>4 DEF worldVars
  <2> QED
    BY <1>1, <2>1, <2>2, ExactKept
<1>10. ToldIsTrue'
  <2>1. ASSUME NEW c \in Subscriber, sub'[c] = "on", NEW k \in Key
        PROVE  InTurn(Hearing, told'[c], feed'[c])[k] \in {value'[k], Unknown} \/ k[1] \in cleared'
    <3> DEFINE known == InTurn(Hearing, told[c], feed[c])
    <3>1. sub[c] = "on" /\ told'[c] = told[c] /\ feed'[c] = Append(feed[c], Copied(e))
      BY <1>3, <1>4, <2>1
    <3>2. Turns(EventSet, Knowledge, Hearing, told[c], feed[c]) /\ known \in Knowledge
      BY <1>1, ToldTurns
    <3>3. \A j \in Key : known[j] \in {value[j], Unknown} \/ j[1] \in cleared
      BY <1>1, <3>1 DEF ToldIsTrue
    <3>4. InTurn(Hearing, told'[c], feed'[c]) = Hearing[Copied(e)][known]
      BY <1>5, <3>1, <3>2, InTurnAppend
    <3> HIDE DEF known
    <3>5. Hearing[Copied(e)][known] = Heard(known, Copied(e))
      BY <1>5, <3>2, HearingType
    <3> QED
      BY <1>1, <1>2, <1>3, <3>2, <3>3, <3>4, <3>5, ProcessedTold
  <2> QED
    BY <2>1 DEF ToldIsTrue
<1> QED
  BY <1>7, <1>8, <1>9, <1>10 DEF IInv

(* TakeEvent, ThreadEnds, ClearVirtual: what waits is the same. *)
LEMMA ThreadInv ==
    ASSUME IInv, TakeEvent \/ ThreadEnds \/ ClearVirtual
    PROVE  IInv'
<1>1. TypeOK /\ Numbers /\ CountersExact /\ ToldIsTrue
  BY DEF IInv
<1>2. ASSUME TakeEvent PROVE IInv'
  <2>1. /\ queue # <<>> /\ hand = Null /\ hand' = Head(queue) /\ queue' = Tail(queue)
        /\ queue \in Seq(Reported)
    BY <1>1, <1>2 DEF TypeOK, TakeEvent
  <2>2. UNCHANGED <<worldVars, treeVars, subVars, threads, running, thread>>
    BY <1>2 DEF TakeEvent
  <2>3. hand' \in Reported /\ queue' \in Seq(Reported) /\ <<Head(queue)>> \o Tail(queue) = <<>> \o queue
    <3> HIDE DEF Reported
    <3> QED
      BY <2>1
  <2>4. Waiting' = Waiting
    <3>1. hand' # Null
      BY <2>3, Constants
    <3> QED
      BY <2>1, <2>3, <3>1 DEF Waiting
  <2>5. TypeOK'
    <3> HIDE DEF Reported, Key, Knowledge, EventSet
    <3> QED
      BY <1>1, <2>2, <2>3, Zenon DEF TypeOK, worldVars, treeVars, subVars
  <2>6. \A n \in Globals : Coming(n)' = Coming(n)
    <3> SUFFICES ASSUME NEW n \in Globals PROVE Coming(n)' = Coming(n)
      OBVIOUS
    <3>1. Coming(n)' = InTurn(Applied(n), value'[<<Global, n>>], Waiting')
      BY DEF Coming, Applied, InTurn, Reported
    <3>2. value' = value
      BY <2>2 DEF treeVars
    <3> QED
      BY <2>4, <3>1, <3>2 DEF Coming
  <2>7. CountersExact'
    BY <1>1, <2>2, <2>6, ExactKept DEF worldVars
  <2>8. ToldIsTrue'
    BY <1>1, <2>2, ToldKept DEF treeVars, subVars
  <2>9. Numbers'
    BY <1>1, <2>2, ServingKept, OccupiedKept DEF Numbers, worldVars, subVars
  <2> QED
    BY <2>5, <2>7, <2>8, <2>9 DEF IInv
<1>3. ASSUME ThreadEnds PROVE IInv'
  <2>1. /\ UNCHANGED <<worldVars, queue, hand, treeVars, subVars, threads, running>>
        /\ thread' = "gone" /\ thread = "loop"
    BY <1>3 DEF ThreadEnds
  <2>2. TypeOK'
    <3> HIDE DEF Reported, Key, Knowledge, EventSet
    <3> QED
      BY <1>1, <2>1, Zenon DEF TypeOK, worldVars, treeVars, subVars
  <2>3. \A n \in Globals : Coming(n)' = Coming(n)
    BY <1>1, <2>1, ComingKept DEF treeVars
  <2>4. CountersExact'
    BY <1>1, <2>1, <2>3, ExactKept DEF worldVars
  <2>5. ToldIsTrue'
    BY <1>1, <2>1, ToldKept DEF treeVars, subVars
  <2>6. Numbers'
    BY <1>1, <2>1, ServingKept, OccupiedKept DEF Numbers, worldVars, subVars
  <2> QED
    BY <2>2, <2>4, <2>5, <2>6 DEF IInv
<1>4. ASSUME ClearVirtual PROVE IInv'
  <2> DEFINE gone == {m \in present : up[m] = "off"}
  <2>1. /\ present' = present \ gone /\ cleared' = cleared \cup gone
        /\ value' = [k \in Key |-> IF k[1] \in gone THEN Null ELSE value[k]]
    BY <1>4 DEF ClearVirtual
  <2>2. UNCHANGED <<worldVars, queue, hand, subVars, threads, running, thread>>
    BY <1>4 DEF ClearVirtual
  <2>3. /\ present \subseteq Mount /\ cleared \subseteq Mount
        /\ value \in [Key -> Int \cup {Null}]
        /\ \A k \in Key : value[k] = Null => k[1] # Global
        /\ \A k \in Key : k[1] # Global /\ value[k] # Null => k[1] \in present
    BY <1>1 DEF TypeOK
  <2>4. gone \subseteq Mount /\ Global \notin gone
    BY <2>3, Constants
  <2> HIDE DEF gone
  <2>5. \A k \in Key : value'[k] = IF k[1] \in gone THEN Null ELSE value[k]
    BY <2>1, Zenon
  <2>6. /\ present' \subseteq Mount /\ cleared' \subseteq Mount
        /\ value' \in [Key -> Int \cup {Null}]
        /\ \A k \in Key : value'[k] = Null => k[1] # Global
        /\ \A k \in Key : k[1] # Global /\ value'[k] # Null => k[1] \in present'
    <3> HIDE DEF Key
    <3> QED
      BY <2>1, <2>3, <2>4, <2>5
  <2>7. TypeOK'
    <3> HIDE DEF Reported, Key, Knowledge, EventSet
    <3> QED
      BY <1>1, <2>2, <2>6, Zenon DEF TypeOK, worldVars, subVars
  <2>8. \A n \in Globals : Coming(n)' = Coming(n)
    <3> SUFFICES ASSUME NEW n \in Globals PROVE Coming(n)' = Coming(n)
      OBVIOUS
    <3>1. Coming(n)' = InTurn(Applied(n), value'[<<Global, n>>], Waiting')
      BY DEF Coming, Applied, InTurn, Reported
    <3>2. <<Global, n>> \in Key /\ <<Global, n>>[1] = Global
      BY Constants
    <3>3. value'[<<Global, n>>] = value[<<Global, n>>]
      BY <2>4, <2>5, <3>2
    <3>4. Waiting' = Waiting
      BY <2>2 DEF Waiting
    <3> QED
      BY <3>1, <3>3, <3>4 DEF Coming
  <2>9. CountersExact'
    BY <1>1, <2>2, <2>8, ExactKept DEF worldVars
  <2>10. ToldIsTrue'
    <3>1. ASSUME NEW c \in Subscriber, sub'[c] = "on", NEW k \in Key
          PROVE  InTurn(Hearing, told'[c], feed'[c])[k] \in {value'[k], Unknown} \/ k[1] \in cleared'
      <4>1. sub[c] = "on" /\ told' = told /\ feed' = feed
        BY <2>2, <3>1 DEF subVars
      <4> DEFINE known == InTurn(Hearing, told[c], feed[c])
      <4>2. known[k] \in {value[k], Unknown} \/ k[1] \in cleared
        BY <1>1, <4>1 DEF ToldIsTrue
      <4> HIDE DEF known
      <4>3. known[k] \in {value'[k], Unknown} \/ k[1] \in cleared'
        BY <2>1, <2>5, <4>2
      <4> QED
        BY <4>1, <4>3 DEF known
    <3> QED
      BY <3>1 DEF ToldIsTrue
  <2>11. Numbers'
    BY <1>1, <2>2, ServingKept, OccupiedKept DEF Numbers, worldVars, subVars
  <2> QED
    BY <2>7, <2>9, <2>10, <2>11 DEF IInv
<1> QED
  BY <1>2, <1>3, <1>4

----------------------------------------------------------------------------
(* The subscribers *)

(* There are finitely many statistics. *)
LEMMA KeysFinite ==
    /\ IsFiniteSet(Key)
    /\ \A k \in Key : /\ k = <<k[1], k[2]>> /\ k[1] \in Mount \cup {Global}
                      /\ k[2] \in Names
<1>1. IsFiniteSet({"slow"}) /\ IsFiniteSet({Global}) /\ IsFiniteSet({"sources", "listeners", "stats"})
  <2>1. IsFiniteSet({"slow"}) /\ IsFiniteSet({Global}) /\ IsFiniteSet({})
    BY FS_Singleton, FS_EmptySet
  <2>2. IsFiniteSet({"sources"})
    BY FS_Singleton
  <2>3. IsFiniteSet({"sources"} \cup {"listeners"})
    BY <2>2, FS_AddElement
  <2>4. IsFiniteSet(({"sources"} \cup {"listeners"}) \cup {"stats"})
    BY <2>3, FS_AddElement
  <2>5. ({"sources"} \cup {"listeners"}) \cup {"stats"} = {"sources", "listeners", "stats"}
    OBVIOUS
  <2> QED
    BY <2>1, <2>4, <2>5
<1>2. IsFiniteSet(Mount \X {"slow"}) /\ IsFiniteSet({Global} \X {"sources", "listeners", "stats"})
  BY <1>1, StatsAssumption, FS_Product
<1>3. IsFiniteSet(Key)
  BY <1>2, FS_Union DEF Key
<1>4. \A k \in Key : k = <<k[1], k[2]>> /\ k[1] \in Mount \cup {Global} /\ k[2] \in Names
  BY DEF Key, Names
<1> QED
  BY <1>3, <1>4

(* The elements of a finite set in some order. *)
LEMMA Enumerated ==
    ASSUME NEW S, IsFiniteSet(S)
    PROVE  /\ SetToSeq(S) \in Seq(S)
           /\ \A i \in 1 .. Len(SetToSeq(S)) : SetToSeq(S)[i] \in S
           /\ \A e \in S : \E i \in 1 .. Len(SetToSeq(S)) : SetToSeq(S)[i] = e
<1> DEFINE n == Cardinality(S)
           q == SetToSeq(S)
<1>1. n \in Nat /\ ExistsBijection(1 .. n, S)
  BY FS_CardinalityType
<1>2. \E f \in [1 .. n -> S] : IsInjective(f)
  BY <1>1 DEF ExistsBijection, Bijection, Injection
<1>3. q \in [1 .. n -> S] /\ IsInjective(q)
  BY <1>2 DEF SetToSeq
<1> HIDE DEF q
<1>4. q \in Surjection(1 .. n, S)
  <2>1. q \in Injection(1 .. n, S)
    BY <1>3 DEF Injection
  <2>2. Cardinality(1 .. n) = n
    BY <1>1, FS_Interval
  <2> QED
    BY <2>1, <2>2, FS_Injection
<1>5. \A e \in S : \E i \in 1 .. n : q[i] = e
  BY <1>4 DEF Surjection
<1> HIDE DEF n
<1>6. q \in Seq(S) /\ Len(q) = n /\ \A i \in 1 .. n : q[i] \in S
  BY <1>1, <1>3
<1> QED
  BY <1>5, <1>6 DEF q

(* A subscriber that reads the values of all statistics knows them. *)
LEMMA SnapshotTold ==
    ASSUME TypeOK
    PROVE  /\ Snapshot \in Seq(EventSet) /\ Nothing \in Knowledge
           /\ \A k \in Key : InTurn(Hearing, Nothing, Snapshot)[k] = value[k]
<1> DEFINE K == {k \in Key : value[k] # Null}
           Ev(k) == Event("set", k[1], k[2], value[k])
           S == {Ev(k) : k \in K}
           q == Snapshot
           n == Len(q)
<1>1. value \in [Key -> Int \cup {Null}]
  BY DEF TypeOK
<1>2. ASSUME NEW k \in Key
      PROVE  /\ Ev(k) \in EventSet /\ Ev(k).act = "set" /\ Ev(k).source = k[1]
             /\ Ev(k).name = k[2] /\ Ev(k).val = value[k] /\ k = <<k[1], k[2]>> /\ k[2] # Null
  <2>1. /\ k = <<k[1], k[2]>> /\ k[1] \in Mount \cup {Global} /\ k[2] \in Names
        /\ value[k] \in Int \cup {Null}
    BY <1>1, KeysFinite
  <2> HIDE DEF Key
  <2>2. k[2] # Null
    BY <2>1, Constants
  <2>3. Ev(k) \in EventSet
    BY <2>1 DEF Event, EventSet, Acts
  <2> QED
    BY <2>1, <2>2, <2>3 DEF Event
<1>3. IsFiniteSet(S) /\ S \subseteq EventSet
  <2>1. IsFiniteSet(K)
    BY KeysFinite, FS_Subset
  <2> HIDE DEF EventSet
  <2>2. S \subseteq EventSet
    BY <1>2
  <2> HIDE DEF K, Ev
  <2> DEFINE f == [k \in K |-> Ev(k)]
  <2>3. f \in Surjection(K, S)
    <3>1. f \in [K -> S] /\ \A e \in S : \E k \in K : f[k] = e
      OBVIOUS
    <3> HIDE DEF f, S
    <3> QED
      BY <3>1 DEF Surjection
  <2> HIDE DEF f, S
  <2>4. IsFiniteSet(S)
    BY <2>1, <2>3, FS_Surjection
  <2> QED
    BY <2>2, <2>4
<1>4. q = SetToSeq(S)
  BY DEF Snapshot
<1> HIDE DEF q
<1>5. /\ q \in Seq(S) /\ \A i \in 1 .. n : q[i] \in S
      /\ \A e \in S : \E i \in 1 .. n : q[i] = e
  <2> HIDE DEF S
  <2> QED
    BY <1>3, <1>4, Enumerated
<1>6. q \in Seq(EventSet) /\ n \in Nat
  <2> HIDE DEF S, EventSet
  <2> QED
    BY <1>3, <1>5
<1>7. Nothing \in Knowledge /\ \A k \in Key : Nothing[k] = Null
  BY DEF Nothing, Knowledge
<1>8. Turns(EventSet, Knowledge, Hearing, Nothing, q)
  BY <1>6, <1>7, HearingType, Zenon DEF Turns
<1>9. PICK g : Run(g, Knowledge, Hearing, Nothing, q) /\ InTurn(Hearing, Nothing, q) = g[n]
  BY <1>8, InTurnRun
<1>10. /\ g[0] = Nothing /\ \A i \in 0 .. n : g[i] \in Knowledge
       /\ \A i \in 1 .. n : g[i] = Hearing[q[i]][g[i - 1]]
  BY <1>9, Zenon DEF Run
<1>11. ASSUME NEW i \in 1 .. n, NEW j \in K, q[i] = Ev(j), NEW k \in Key
       PROVE  g[i][k] = IF k = j THEN value[j] ELSE g[i - 1][k]
  <2> DEFINE v == g[i - 1]
  <2>1. v \in Knowledge /\ Ev(j) \in EventSet
    <3>1. i - 1 \in 0 .. n
      BY <1>6
    <3> QED
      BY <1>2, <1>10, <3>1
  <2> HIDE DEF v
  <2>2. g[i] = Heard(v, Ev(j))
    BY <1>10, <1>11, <2>1, HearingType DEF v
  <2>3. ~IsRemoval(Ev(j))
    BY <1>2 DEF IsRemoval
  <2>4. Heard(v, Ev(j)) = [v EXCEPT ![j] = value[j]]
    BY <1>2, <2>3 DEF Heard
  <2> DEFINE x == value[j]
  <2> HIDE DEF Key, x
  <2>5. [v EXCEPT ![j] = x][k] = IF k = j THEN x ELSE v[k]
    BY <2>1 DEF Knowledge
  <2> QED
    BY <2>2, <2>4, <2>5 DEF x, v
<1> DEFINE Done(i, k) == \/ g[i][k] = value[k]
                         \/ g[i][k] = Null /\ \A j \in 1 .. i : q[j] # Ev(k)
           G == {i \in 0 .. n : \A k \in Key : Done(i, k)}
<1>12. 0 \in G
  <2>1. \A k \in Key : g[0][k] = Null
    BY <1>7, <1>10
  <2>2. 0 \in 0 .. n /\ 1 .. 0 = {}
    BY <1>6
  <2> HIDE DEF Ev, Key
  <2> QED
    BY <2>1, <2>2
<1>13. ASSUME NEW i \in 0 .. n - 1, i \in G PROVE i + 1 \in G
  <2>1. i + 1 \in 1 .. n /\ (i + 1) - 1 = i /\ i + 1 \in 0 .. n /\ i \in Nat
    BY <1>6
  <2>2. PICK j \in K : q[i + 1] = Ev(j)
    BY <1>5, <2>1
  <2>3. ASSUME NEW k \in Key PROVE Done(i + 1, k)
    <3>1. g[i + 1][k] = IF k = j THEN value[j] ELSE g[i][k]
      BY <1>11, <2>1, <2>2
    <3>2. Done(i, k)
      BY <1>13
    <3>3. CASE k = j
      BY <3>1, <3>3
    <3>4. CASE k # j
      <4>1. Ev(k) # Ev(j)
        BY <1>2, <3>4
      <4>2. \A l \in 1 .. i + 1 : l = i + 1 \/ l \in 1 .. i
        BY <2>1
      <4> HIDE DEF Ev
      <4> QED
        BY <2>2, <3>1, <3>2, <3>4, <4>1, <4>2
    <3> QED
      BY <3>3, <3>4
  <2> HIDE DEF Done
  <2> QED
    BY <2>1, <2>3
<1> HIDE DEF G
<1>14. \A i \in 0 .. n : i \in G
  <2> HIDE DEF n
  <2> QED
    BY <1>6, <1>12, <1>13, UpTo
<1>15. n \in 0 .. n
  BY <1>6
<1>16. n \in G
  BY <1>14, <1>15
<1>17. ASSUME NEW k \in Key PROVE g[n][k] = value[k]
  <2>1. Done(n, k)
    BY <1>16 DEF G
  <2>2. value[k] # Null => Ev(k) \in S
    OBVIOUS
  <2>3. value[k] # Null => \E j \in 1 .. n : q[j] = Ev(k)
    <3> HIDE DEF S, Ev
    <3> QED
      BY <1>5, <2>2
  <2> HIDE DEF Ev
  <2> QED
    BY <2>1, <2>3
<1> QED
  BY <1>6, <1>7, <1>9, <1>17 DEF q

(* A step of one subscriber that is not registered then. *)
LEMMA ToldOthers ==
    ASSUME TypeOK, ToldIsTrue, NEW c \in Subscriber, NEW p, p # "on",
           sub' = [sub EXCEPT ![c] = p],
           \A d \in Subscriber \ {c} : told'[d] = told[d] /\ feed'[d] = feed[d],
           value' = value, cleared' = cleared
    PROVE  ToldIsTrue'
<1>1. ASSUME NEW d \in Subscriber, sub'[d] = "on", NEW k \in Key
      PROVE  InTurn(Hearing, told'[d], feed'[d])[k] \in {value'[k], Unknown} \/ k[1] \in cleared'
  <2>1. DOMAIN sub = Subscriber
    BY DEF TypeOK
  <2>2. d # c /\ sub[d] = "on"
    BY <1>1, <2>1
  <2>3. told'[d] = told[d] /\ feed'[d] = feed[d]
    BY <2>2
  <2> DEFINE known == InTurn(Hearing, told[d], feed[d])
  <2>4. known[k] \in {value[k], Unknown} \/ k[1] \in cleared
    BY <2>2 DEF ToldIsTrue
  <2>5. InTurn(Hearing, told'[d], feed'[d]) = known
    BY <2>3
  <2> HIDE DEF known
  <2> QED
    BY <2>4, <2>5
<1> QED
  BY <1>1 DEF ToldIsTrue

(* It goes to another place and is counted there if p is one that is. *)
LEMMA SubMoved ==
    ASSUME TypeOK, NEW c \in Subscriber,
           NEW p \in {"none", "new", "counted", "on", "leaving", "gone"},
           sub' = [sub EXCEPT ![c] = p]
    PROVE  /\ sub' \in [Subscriber -> {"none", "new", "counted", "on", "leaving", "gone"}]
           /\ Serving' = IF p \in {"counted", "on", "leaving"} THEN Serving \cup {c}
                         ELSE Serving \ {c}
           /\ c \in Serving <=> sub[c] \in {"counted", "on", "leaving"}
           /\ (sub[c] \in {"counted", "on", "leaving"} <=> p \in {"counted", "on", "leaving"})
                => Serving' = Serving
<1>1. sub \in [Subscriber -> {"none", "new", "counted", "on", "leaving", "gone"}]
  BY DEF TypeOK
<1>2. /\ sub' \in [Subscriber -> {"none", "new", "counted", "on", "leaving", "gone"}]
      /\ Serving' = IF p \in {"counted", "on", "leaving"} THEN Serving \cup {c}
                    ELSE Serving \ {c}
      /\ c \in Serving <=> sub[c] \in {"counted", "on", "leaving"}
  BY <1>1 DEF Serving
<1>3. /\ c \in Serving => Serving \cup {c} = Serving
      /\ c \notin Serving => Serving \ {c} = Serving
  OBVIOUS
<1> QED
  BY <1>2, <1>3

(* The number of subscribers is set. *)
LEMMA ReportStats ==
    ASSUME TypeOK, CountersExact, NEW v \in Int,
           queue' = Append(queue, Event("set", Global, "stats", v)), hand' = hand,
           value' = value, threads' = v, listeners' = listeners, sources' = sources,
           unsaid' = unsaid, thread' = thread
    PROVE  CountersExact' /\ queue' \in Seq(Reported)
<1> DEFINE a == Event("set", Global, "stats", v)
<1>1. a \in Reported
  BY FormsReported DEF Globals
<1>2. a.act = "set" /\ a.source = Global /\ a.name = "stats" /\ a.val = v
  BY DEF Event
<1> HIDE DEF a
<1>3. \A n \in Globals : Coming(n)' = Applied(n)[a][Coming(n)] /\ Coming(n) \in Int
  BY <1>1, ComingAppend, WaitingType DEF a
<1>4. /\ Coming("stats")' = v /\ Coming("listeners")' = Coming("listeners")
      /\ Coming("sources")' = Coming("sources")
  BY <1>1, <1>2, <1>3, AppliedIs DEF Globals
<1>5. queue' \in Seq(Reported)
  <2>1. queue \in Seq(Reported) /\ queue' = Append(queue, a)
    BY DEF TypeOK, a
  <2> HIDE DEF Reported
  <2> QED
    BY <1>1, <2>1
<1> HIDE DEF Coming
<1> QED
  BY <1>4, <1>5 DEF CountersExact

(* A subscriber is told of the statistics. *)
LEMMA SubscriberInv ==
    ASSUME IInv, NEW c \in Subscriber, Subscribe(c) \/ SubThread(c)
    PROVE  IInv'
<1>1. /\ TypeOK /\ Numbers /\ CountersExact /\ ToldIsTrue
      /\ threads \in Nat
      /\ feed \in [Subscriber -> Seq(EventSet)] /\ told \in [Subscriber -> Knowledge]
  BY DEF IInv, TypeOK
(* The reports, the trees and the statistics thread are left alone. *)
<1>2. ASSUME UNCHANGED <<worldVars, hand, treeVars, running, thread>>,
             queue' \in Seq(Reported), threads' \in Nat,
             sub' \in [Subscriber -> {"none", "new", "counted", "on", "leaving", "gone"}],
             feed' \in [Subscriber -> Seq(EventSet)], told' \in [Subscriber -> Knowledge]
      PROVE  TypeOK' /\ sources' = Cardinality(Occupied')
  <2>1. sources' = Cardinality(Occupied')
    BY <1>1, <1>2, OccupiedKept DEF worldVars
  <2> HIDE DEF Reported, Key, Knowledge, EventSet
  <2>2. TypeOK'
    BY <1>1, <1>2, Zenon DEF TypeOK, worldVars, treeVars
  <2> QED
    BY <2>1, <2>2
(* And the number of subscribers may be, too. *)
<1>3. ASSUME UNCHANGED <<worldVars, queue, hand, treeVars, threads, running, thread>>
      PROVE  CountersExact' /\ queue' \in Seq(Reported) /\ threads' \in Nat
  <2>1. \A n \in Globals : Coming(n)' = Coming(n)
    BY <1>1, <1>3, ComingKept DEF treeVars
  <2>2. CountersExact'
    BY <1>1, <1>3, <2>1, ExactKept DEF worldVars
  <2>3. queue' \in Seq(Reported) /\ threads' \in Nat
    BY <1>1, <1>3 DEF TypeOK
  <2> QED
    BY <2>2, <2>3
<1>4. ASSUME Subscribe(c) PROVE IInv'
  <2>1. /\ sub[c] = "none" /\ sub' = [sub EXCEPT ![c] = "new"]
        /\ UNCHANGED <<worldVars, queue, hand, treeVars, feed, told, threads, running, thread>>
    BY <1>4 DEF Subscribe, SubGoto
  <2>2. /\ sub' \in [Subscriber -> {"none", "new", "counted", "on", "leaving", "gone"}]
        /\ Serving' = Serving
    BY <1>1, <2>1, SubMoved
  <2>3. ToldIsTrue'
    BY <1>1, <2>1, ToldOthers DEF treeVars
  <2>4. TypeOK' /\ sources' = Cardinality(Occupied') /\ CountersExact'
    BY <1>1, <1>2, <1>3, <2>1, <2>2
  <2> QED
    BY <1>1, <2>1, <2>2, <2>3, <2>4 DEF IInv, Numbers
<1>5. ASSUME CountThread(c) PROVE IInv'
  <2> DEFINE v == threads + 1
  <2>1. /\ sub[c] = "new" /\ sub' = [sub EXCEPT ![c] = "counted"] /\ threads' = v
        /\ queue' = Append(queue, Event("set", Global, "stats", v))
        /\ UNCHANGED <<worldVars, hand, treeVars, feed, told, running, thread>>
    BY <1>5 DEF CountThread, SubGoto
  <2>2. /\ sub' \in [Subscriber -> {"none", "new", "counted", "on", "leaving", "gone"}]
        /\ Serving' = Serving \cup {c} /\ c \notin Serving
    BY <1>1, <2>1, SubMoved
  <2>3. Cardinality(Serving') = Cardinality(Serving) + 1
    BY <2>2, Finite, OneMore
  <2>4. v = Cardinality(Serving') /\ v \in Nat
    BY <1>1, <2>3 DEF Numbers
  <2> HIDE DEF v
  <2>5. ToldIsTrue'
    BY <1>1, <2>1, ToldOthers DEF treeVars
  <2>6. CountersExact' /\ queue' \in Seq(Reported)
    <3>1. v \in Int
      BY <2>4
    <3>2. /\ value' = value /\ listeners' = listeners /\ sources' = sources
          /\ unsaid' = unsaid /\ thread' = thread
      BY <2>1 DEF treeVars, worldVars
    <3> QED
      BY <1>1, <2>1, <3>1, <3>2, ReportStats
  <2>7. TypeOK' /\ sources' = Cardinality(Occupied')
    BY <1>1, <1>2, <2>1, <2>2, <2>4, <2>6
  <2> QED
    BY <2>1, <2>4, <2>5, <2>6, <2>7 DEF IInv, Numbers
<1>6. ASSUME Register(c) PROVE IInv'
  <2>1. /\ sub[c] = "counted" /\ sub' = [sub EXCEPT ![c] = "on"]
        /\ feed' = [feed EXCEPT ![c] = Snapshot] /\ told' = [told EXCEPT ![c] = Nothing]
        /\ UNCHANGED <<worldVars, queue, hand, treeVars, threads, running, thread>>
    BY <1>6 DEF Register, SubGoto
  <2>2. /\ sub' \in [Subscriber -> {"none", "new", "counted", "on", "leaving", "gone"}]
        /\ Serving' = Serving
    BY <1>1, <2>1, SubMoved
  <2>3. /\ Snapshot \in Seq(EventSet) /\ Nothing \in Knowledge
        /\ \A k \in Key : InTurn(Hearing, Nothing, Snapshot)[k] = value[k]
    BY <1>1, SnapshotTold
  <2>4. feed' \in [Subscriber -> Seq(EventSet)] /\ told' \in [Subscriber -> Knowledge]
    <3> DEFINE E == Seq(EventSet)
    <3>1. feed \in [Subscriber -> E] /\ Snapshot \in E
      BY <1>1, <2>3
    <3> HIDE DEF E, Knowledge, Snapshot, Nothing
    <3>2. [feed EXCEPT ![c] = Snapshot] \in [Subscriber -> E]
      BY <3>1
    <3>3. [told EXCEPT ![c] = Nothing] \in [Subscriber -> Knowledge]
      BY <1>1, <2>3
    <3> QED
      BY <2>1, <3>2, <3>3 DEF E
  <2>5. TypeOK' /\ sources' = Cardinality(Occupied') /\ CountersExact'
    BY <1>1, <1>2, <1>3, <2>1, <2>2, <2>4
  <2>6. ASSUME NEW d \in Subscriber, sub'[d] = "on", NEW k \in Key
        PROVE  InTurn(Hearing, told'[d], feed'[d])[k] \in {value'[k], Unknown} \/ k[1] \in cleared'
    <3>1. value' = value /\ cleared' = cleared
      BY <2>1 DEF treeVars
    <3>2. CASE d = c
      <4>1. told'[d] = Nothing /\ feed'[d] = Snapshot
        BY <1>1, <2>1, <3>2, Zenon
      <4>2. InTurn(Hearing, told'[d], feed'[d])[k] = value[k]
        BY <2>3, <4>1
      <4> QED
        BY <3>1, <4>2
    <3>3. CASE d # c
      <4>1. told'[d] = told[d] /\ feed'[d] = feed[d]
        BY <1>1, <2>1, <3>3, Zenon
      <4>2. sub[d] = "on"
        BY <1>1, <2>1, <2>6, <3>3 DEF TypeOK
      <4> DEFINE known == InTurn(Hearing, told[d], feed[d])
      <4>3. known[k] \in {value[k], Unknown} \/ k[1] \in cleared
        BY <1>1, <4>2 DEF ToldIsTrue
      <4>4. InTurn(Hearing, told'[d], feed'[d]) = known
        BY <4>1
      <4> HIDE DEF known
      <4> QED
        BY <3>1, <4>3, <4>4
    <3> QED
      BY <3>2, <3>3
  <2>7. ToldIsTrue'
    BY <2>6 DEF ToldIsTrue
  <2> QED
    BY <1>1, <2>1, <2>2, <2>5, <2>7 DEF IInv, Numbers
<1>7. ASSUME Send(c) PROVE IInv'
  <2> DEFINE w == feed[c]
             v == told[c]
             x == Heard(v, Head(w))
  <2>1. /\ w # <<>> /\ told' = [told EXCEPT ![c] = x] /\ feed' = [feed EXCEPT ![c] = Tail(w)]
        /\ sub' = sub
        /\ UNCHANGED <<worldVars, queue, hand, treeVars, threads, running, thread>>
    BY <1>7 DEF Send
  <2>2. Turns(EventSet, Knowledge, Hearing, v, w)
    BY <1>1, ToldTurns
  <2>3. v \in Knowledge /\ w \in Seq(EventSet)
    BY <2>2 DEF Turns
  <2>4. Head(w) \in EventSet /\ Tail(w) \in Seq(EventSet)
    <3> HIDE DEF EventSet, w
    <3> QED
      BY <2>1, <2>3
  <2>5. Hearing[Head(w)][v] = x
    BY <2>3, <2>4, HearingType
  <2>6. x \in Knowledge /\ InTurn(Hearing, v, w) = InTurn(Hearing, x, Tail(w))
    <3> HIDE DEF v, w, x
    <3>1. /\ Turns(EventSet, Knowledge, Hearing, Hearing[Head(w)][v], Tail(w))
          /\ InTurn(Hearing, v, w) = InTurn(Hearing, Hearing[Head(w)][v], Tail(w))
      BY <2>1, <2>2, InTurnHead
    <3>2. Turns(EventSet, Knowledge, Hearing, x, Tail(w))
      BY <2>5, <3>1
    <3>3. x \in Knowledge
      BY <3>2, Zenon DEF Turns
    <3> QED
      BY <2>5, <3>1, <3>3
  <2>7. feed' \in [Subscriber -> Seq(EventSet)] /\ told' \in [Subscriber -> Knowledge]
    <3> DEFINE E == Seq(EventSet)
               t == Tail(w)
    <3>1. feed \in [Subscriber -> E] /\ t \in E
      BY <1>1, <2>4
    <3> HIDE DEF E, Knowledge, x, t
    <3>2. [feed EXCEPT ![c] = t] \in [Subscriber -> E]
      BY <3>1
    <3>3. [told EXCEPT ![c] = x] \in [Subscriber -> Knowledge]
      BY <1>1, <2>6
    <3> QED
      BY <2>1, <3>2, <3>3 DEF E, t
  <2>8. TypeOK' /\ sources' = Cardinality(Occupied') /\ CountersExact'
    <3>1. sub' \in [Subscriber -> {"none", "new", "counted", "on", "leaving", "gone"}]
      BY <1>1, <2>1 DEF TypeOK
    <3> QED
      BY <1>1, <1>2, <1>3, <2>1, <2>7, <3>1
  <2>9. ASSUME NEW d \in Subscriber, sub'[d] = "on", NEW k \in Key
        PROVE  InTurn(Hearing, told'[d], feed'[d])[k] \in {value'[k], Unknown} \/ k[1] \in cleared'
    <3>1. value' = value /\ cleared' = cleared /\ sub[d] = "on"
      BY <2>1, <2>9 DEF treeVars
    <3> DEFINE known == InTurn(Hearing, told[d], feed[d])
    <3>2. known[k] \in {value[k], Unknown} \/ k[1] \in cleared
      BY <1>1, <3>1 DEF ToldIsTrue
    <3>3. InTurn(Hearing, told'[d], feed'[d]) = known
      <4>1. CASE d = c
        <5>1. told'[d] = x /\ feed'[d] = Tail(w)
          BY <1>1, <2>1, <4>1, Zenon
        <5> QED
          BY <2>6, <4>1, <5>1
      <4>2. CASE d # c
        <5>1. told'[d] = told[d] /\ feed'[d] = feed[d]
          BY <1>1, <2>1, <4>2, Zenon
        <5> QED
          BY <5>1
      <4> QED
        BY <4>1, <4>2
    <3> HIDE DEF known
    <3> QED
      BY <3>1, <3>2, <3>3
  <2>10. ToldIsTrue'
    BY <2>9 DEF ToldIsTrue
  <2>11. threads' = Cardinality(Serving')
    BY <1>1, <2>1, ServingKept
  <2> QED
    BY <2>8, <2>10, <2>11 DEF IInv, Numbers
<1>8. ASSUME LeaveLoop(c) PROVE IInv'
  <2>1. /\ sub[c] = "on" /\ sub' = [sub EXCEPT ![c] = "leaving"]
        /\ UNCHANGED <<worldVars, queue, hand, treeVars, feed, told, threads, running, thread>>
    BY <1>8 DEF LeaveLoop, SubGoto
  <2>2. /\ sub' \in [Subscriber -> {"none", "new", "counted", "on", "leaving", "gone"}]
        /\ Serving' = Serving
    BY <1>1, <2>1, SubMoved
  <2>3. ToldIsTrue'
    BY <1>1, <2>1, ToldOthers DEF treeVars
  <2>4. TypeOK' /\ sources' = Cardinality(Occupied') /\ CountersExact'
    BY <1>1, <1>2, <1>3, <2>1, <2>2
  <2> QED
    BY <1>1, <2>1, <2>2, <2>3, <2>4 DEF IInv, Numbers
<1>9. ASSUME Unregister(c) PROVE IInv'
  <2> DEFINE v == threads - 1
  <2>1. /\ sub[c] = "leaving" /\ sub' = [sub EXCEPT ![c] = "gone"] /\ threads' = v
        /\ queue' = Append(queue, Event("set", Global, "stats", v))
        /\ feed' = [feed EXCEPT ![c] = <<>>] /\ told' = [told EXCEPT ![c] = Nothing]
        /\ UNCHANGED <<worldVars, hand, treeVars, running, thread>>
    BY <1>9 DEF Unregister, SubGoto
  <2>2. /\ sub' \in [Subscriber -> {"none", "new", "counted", "on", "leaving", "gone"}]
        /\ Serving' = Serving \ {c} /\ c \in Serving
    BY <1>1, <2>1, SubMoved
  <2>3. Cardinality(Serving') = Cardinality(Serving) - 1
    BY <2>2, Finite, OneLess
  <2>4. v = Cardinality(Serving') /\ v \in Nat
    <3>1. threads # 0
      BY <1>1, <2>2, Finite, FS_EmptySet DEF Numbers
    <3> QED
      BY <1>1, <2>3, <3>1 DEF Numbers
  <2> HIDE DEF v
  <2>5. \A d \in Subscriber \ {c} : told'[d] = told[d] /\ feed'[d] = feed[d]
    BY <1>1, <2>1, Zenon
  <2>6. ToldIsTrue'
    BY <1>1, <2>1, <2>5, ToldOthers DEF treeVars
  <2>7. CountersExact' /\ queue' \in Seq(Reported)
    <3>1. v \in Int
      BY <2>4
    <3>2. /\ value' = value /\ listeners' = listeners /\ sources' = sources
          /\ unsaid' = unsaid /\ thread' = thread
      BY <2>1 DEF treeVars, worldVars
    <3> QED
      BY <1>1, <2>1, <3>1, <3>2, ReportStats
  <2>8. feed' \in [Subscriber -> Seq(EventSet)] /\ told' \in [Subscriber -> Knowledge]
    <3> DEFINE E == Seq(EventSet)
               t == <<>>
    <3>1. feed \in [Subscriber -> E] /\ t \in E /\ Nothing \in Knowledge
      BY <1>1 DEF Nothing, Knowledge
    <3> HIDE DEF E, Knowledge, Nothing, t
    <3>2. [feed EXCEPT ![c] = t] \in [Subscriber -> E]
      BY <3>1
    <3>3. [told EXCEPT ![c] = Nothing] \in [Subscriber -> Knowledge]
      BY <1>1, <3>1
    <3> QED
      BY <2>1, <3>2, <3>3 DEF E, t
  <2>9. TypeOK' /\ sources' = Cardinality(Occupied')
    BY <1>1, <1>2, <2>1, <2>2, <2>4, <2>7, <2>8
  <2> QED
    BY <2>1, <2>4, <2>6, <2>7, <2>9 DEF IInv, Numbers
<1> QED
  BY <1>4, <1>5, <1>6, <1>7, <1>8, <1>9 DEF SubThread

----------------------------------------------------------------------------
(* The theorems *)

(* The statistics begin empty. *)
LEMMA InitInv == Init => IInv
<1> SUFFICES ASSUME Init PROVE IInv
  OBVIOUS
<1>1. /\ left = MaxEvents /\ up = [m \in Mount |-> "off"]
      /\ sources = 0 /\ listeners = 0 /\ unsaid = FALSE
      /\ queue = <<>> /\ hand = Null /\ present = {} /\ cleared = {}
      /\ value = [k \in Key |-> IF k[1] = Global THEN 0 ELSE Null]
      /\ sub = [c \in Subscriber |-> "none"] /\ feed = [c \in Subscriber |-> <<>>]
      /\ told = [c \in Subscriber |-> Nothing] /\ threads = 0
      /\ running = TRUE /\ thread = "loop"
  BY DEF Init
<1>2. TypeOK
  <2>1. left \in 0 .. MaxEvents /\ sources \in Nat /\ listeners \in Nat /\ threads \in Nat
    BY <1>1, StatsAssumption
  <2>2. queue \in Seq(Reported) /\ feed \in [Subscriber -> Seq(EventSet)]
    <3> HIDE DEF Reported, EventSet
    <3> QED
      BY <1>1
  <2>3. /\ value \in [Key -> Int \cup {Null}]
        /\ \A k \in Key : value[k] = Null => k[1] # Global
        /\ \A k \in Key : k[1] # Global /\ value[k] # Null => k[1] \in present
    <3>1. Null \notin Int
      BY Constants
    <3> HIDE DEF Key
    <3> QED
      BY <1>1, <3>1
  <2>4. told \in [Subscriber -> Knowledge]
    <3>1. Nothing \in Knowledge
      BY DEF Nothing, Knowledge
    <3> QED
      BY <1>1, <3>1, Zenon
  <2>5. /\ up \in [Mount -> {"off", "up", "ending"}]
        /\ sub \in [Subscriber -> {"none", "new", "counted", "on", "leaving", "gone"}]
        /\ unsaid \in BOOLEAN /\ running \in BOOLEAN /\ thread \in {"loop", "gone", "freed"}
        /\ present \subseteq Mount /\ cleared \subseteq Mount /\ hand \in Reported \cup {Null}
    BY <1>1, Zenon
  <2> QED
    BY <2>1, <2>2, <2>3, <2>4, <2>5, Zenon DEF TypeOK
<1>3. Numbers
  <2>1. Serving = {} /\ Occupied = {}
    BY <1>1 DEF Serving, Occupied
  <2> QED
    BY <1>1, <2>1, FS_EmptySet DEF Numbers
<1>4. \A n \in Globals : Coming(n) = 0
  <2> SUFFICES ASSUME NEW n \in Globals PROVE Coming(n) = 0
    OBVIOUS
  <2>1. Waiting = <<>>
    BY <1>1 DEF Waiting
  <2>2. <<Global, n>> \in Key /\ value[<<Global, n>>] = 0
    BY <1>1, Constants
  <2>3. Turns(Reported, Int, Applied(n), value[<<Global, n>>], <<>>)
    BY <1>2, <2>1, WaitingType
  <2> QED
    BY <2>1, <2>2, <2>3, InTurnNone DEF Coming
<1>5. CountersExact
  <2>1. Coming("stats") = 0 /\ Coming("listeners") = 0 /\ Coming("sources") = 0
    BY <1>4 DEF Globals
  <2> HIDE DEF Coming
  <2> QED
    BY <1>1, <2>1 DEF CountersExact
<1>6. ToldIsTrue
  <2>1. \A c \in Subscriber : sub[c] # "on"
    BY <1>1
  <2> QED
    BY <2>1, Zenon DEF ToldIsTrue
<1> QED
  BY <1>2, <1>3, <1>5, <1>6 DEF IInv

(* stats_shutdown. *)
LEMMA ShutdownInv ==
    ASSUME IInv, Shutdown \/ Free
    PROVE  IInv'
<1>1. TypeOK /\ Numbers /\ CountersExact /\ ToldIsTrue
  BY DEF IInv
<1>2. /\ UNCHANGED <<worldVars, hand, treeVars, subVars, threads>>
      /\ running' \in BOOLEAN /\ queue' \in Seq(Reported)
      /\ thread' = "freed" \/ (thread' = thread /\ queue' = queue)
      /\ thread' \in {"loop", "gone", "freed"}
  <2>1. running \in BOOLEAN /\ queue \in Seq(Reported) /\ thread \in {"loop", "gone", "freed"}
    BY <1>1 DEF TypeOK
  <2> HIDE DEF Reported
  <2>2. <<>> \in Seq(Reported)
    OBVIOUS
  <2>3. CASE Shutdown
    BY <2>1, <2>3, Zenon DEF Shutdown
  <2>4. CASE Free
    BY <2>1, <2>2, <2>4, Zenon DEF Free
  <2> QED
    BY <2>3, <2>4
<1>3. TypeOK'
  <2> HIDE DEF Reported, Key, Knowledge, EventSet
  <2> QED
    BY <1>1, <1>2, Zenon DEF TypeOK, worldVars, treeVars, subVars
<1>4. Numbers'
  BY <1>1, <1>2, ServingKept, OccupiedKept DEF Numbers, worldVars, subVars
<1>5. ToldIsTrue'
  BY <1>1, <1>2, ToldKept DEF treeVars, subVars
<1>6. CountersExact'
  <2>1. CASE thread' = "freed"
    BY <2>1, Zenon DEF CountersExact
  <2>2. CASE thread' = thread /\ queue' = queue
    <3>1. \A n \in Globals : Coming(n)' = Coming(n)
      BY <1>1, <1>2, <2>2, ComingKept DEF treeVars
    <3> QED
      BY <1>1, <1>2, <2>2, <3>1, ExactKept DEF worldVars
  <2> QED
    BY <1>2, <2>1, <2>2
<1> QED
  BY <1>3, <1>4, <1>5, <1>6 DEF IInv

(* Nothing changes. *)
LEMMA StutterInv ==
    ASSUME IInv, UNCHANGED vars
    PROVE  IInv'
<1>1. TypeOK /\ Numbers /\ CountersExact /\ ToldIsTrue
  BY DEF IInv
<1>2. /\ UNCHANGED <<worldVars, treeVars, subVars>>
      /\ queue' = queue /\ hand' = hand /\ threads' = threads
      /\ running' = running /\ thread' = thread
  BY DEF vars
<1>3. TypeOK'
  <2> HIDE DEF Reported, Key, Knowledge, EventSet
  <2> QED
    BY <1>1, <1>2, Zenon DEF TypeOK, worldVars, treeVars, subVars
<1>4. Numbers'
  BY <1>1, <1>2, ServingKept, OccupiedKept DEF Numbers, worldVars, subVars
<1>5. ToldIsTrue'
  BY <1>1, <1>2, ToldKept DEF treeVars, subVars
<1>6. \A n \in Globals : Coming(n)' = Coming(n)
  BY <1>1, <1>2, ComingKept DEF treeVars
<1>7. CountersExact'
  BY <1>1, <1>2, <1>6, ExactKept DEF worldVars
<1> QED
  BY <1>3, <1>4, <1>5, <1>7 DEF IInv

(* Every step keeps the invariant. *)
LEMMA NextInv == IInv /\ [Next]_vars => IInv'
<1> SUFFICES ASSUME IInv, [Next]_vars PROVE IInv'
  OBVIOUS
<1>1. CASE \/ \E m \in Mount : \/ SourceUp(m) \/ SourceEnds(m) \/ SourceDown(m) \/ SourceLost(m)
                               \/ MountReports(m) \/ VirtualMount(m)
           \/ ListenerUp \/ ListenerDown \/ ListenersDown
  BY <1>1, WorldInv
<1>2. CASE StatsThread \/ ClearVirtual
  BY <1>2, ProcessEventInv, ThreadInv DEF StatsThread
<1>3. CASE \E c \in Subscriber : Subscribe(c) \/ SubThread(c)
  BY <1>3, SubscriberInv
<1>4. CASE Shutdown \/ Free
  BY <1>4, ShutdownInv
<1>5. CASE UNCHANGED vars
  BY <1>5, StutterInv
<1> QED
  BY <1>1, <1>2, <1>3, <1>4, <1>5 DEF Next

(* The invariant holds in every state of every behaviour. *)
LEMMA Inductive == Spec => []IInv
<1>1. Init => IInv
  BY InitInv
<1>2. IInv /\ [Next]_vars => IInv'
  BY NextInv
<1> QED
  BY <1>1, <1>2, PTL DEF Spec

(* Every variable of the statistics keeps its type: the counters stay      *)
(* naturals, a global statistic never loses its value, and only a mount in *)
(* the tree has one (process_source_event, stats_clear_virtual_mounts).    *)
THEOREM TypeCorrect == Spec => []TypeOK
<1>1. IInv => TypeOK
  BY DEF IInv
<1> QED
  BY <1>1, Inductive, PTL

(* No update is lost or overtaken (queue_global_event, _stats_thread,      *)
(* modify_node_event): whatever threads report at once, the statistics     *)
(* with the events under way are the counters.                             *)
THEOREM StatisticsExact == Spec => []CountersExact
<1>1. IInv => CountersExact
  BY DEF IInv
<1> QED
  BY <1>1, Inductive, PTL

(* _register_listener and the copies of process_event leave no gap: once   *)
(* it has read its queue, a subscriber knows what the trees hold, except   *)
(* for a value changed by a subtraction and a mount cleared without event. *)
THEOREM SubscribersTold == Spec => []ToldIsTrue
<1>1. IInv => ToldIsTrue
  BY DEF IInv
<1> QED
  BY <1>1, Inductive, PTL
=============================================================================
