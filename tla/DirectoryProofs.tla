-------------------------- MODULE DirectoryProofs --------------------------
(***************************************************************************)
(* Proofs about Directory: for any mounts and any number of entries, a     *)
(* public stream has one entry and another one none, a change of the lists *)
(* is announced and a session is not given up behind the directory's back. *)
(***************************************************************************)
EXTENDS Directory, FiniteSetTheorems, SequenceTheorems, WellFoundedInduction, TLAPS

----------------------------------------------------------------------------
(* Induction up to a number, and functions defined by recursion up to it *)

(* A set with 0 and with the successor of each of its elements has all. *)
LEMMA UpTo ==
    ASSUME NEW n \in Nat, NEW G, 0 \in G, \A i \in 0 .. n - 1 : i \in G => i + 1 \in G
    PROVE  \A i \in 0 .. n : i \in G
<1> DEFINE R == OpToRel(<, Nat)
           B == {i \in 0 .. n : i \notin G}
<1>1. R = {p \in Nat \X Nat : p[1] < p[2]}
  BY Zenon DEF OpToRel
<1>2. IsWellFoundedOn(R, Nat)
  BY NatLessThanWellFounded, Zenon
<1> HIDE DEF R
<1>3. SUFFICES ASSUME B # {} PROVE FALSE
  OBVIOUS
<1>4. PICK m \in B : \A x \in B : ~(<<x, m>> \in R)
  <2>1. B \subseteq Nat
    OBVIOUS
  <2> HIDE DEF B
  <2> QED
    BY <1>2, <1>3, <2>1, WFMin
<1>5. m \in 1 .. n /\ m - 1 \in 0 .. n - 1 /\ m - 1 \in 0 .. n
  OBVIOUS
<1>6. m - 1 \in B
  BY <1>5
<1>7. <<m - 1, m>> \in Nat \X Nat /\ <<m - 1, m>>[1] < <<m - 1, m>>[2]
  BY <1>5
<1> QED
  BY <1>1, <1>4, <1>6, <1>7

(* g has the values of a recursion that begins with b. *)
Recursive(g, n, V, b, F) ==
    /\ g \in [0 .. n -> V] /\ g[0] = b
    /\ \A i \in 1 .. n : g[i] = F[i][g[i - 1]]

(* The values of a recursion exist: the next one is a function F of the    *)
(* number and of the one before it.                                        *)
LEMMA Recursion ==
    ASSUME NEW n \in Nat, NEW V, NEW b \in V, NEW F \in [1 .. n -> [V -> V]]
    PROVE  \E g : Recursive(g, n, V, b, F)
<1> DEFINE Good(k, g) == g[0] = b /\ \A i \in 1 .. k : g[i] = F[i][g[i - 1]]
           G == {k \in 0 .. n : \E g \in [0 .. k -> V] : Good(k, g)}
<1>1. 0 \in G
  <2> DEFINE g == [i \in 0 .. 0 |-> b]
  <2>1. g \in [0 .. 0 -> V] /\ Good(0, g)
    OBVIOUS
  <2> HIDE DEF g
  <2>2. \E h \in [0 .. 0 -> V] : Good(0, h)
    BY <2>1
  <2> HIDE DEF Good
  <2> QED
    BY <2>2
<1>2. ASSUME NEW k \in 0 .. n - 1, k \in G
      PROVE  k + 1 \in G
  <2>1. PICK g \in [0 .. k -> V] : Good(k, g)
    BY <1>2
  <2> DEFINE v == F[k + 1][g[k]]
             h == [i \in 0 .. k + 1 |-> IF i = k + 1 THEN v ELSE g[i]]
  <2>2. v \in V
    <3>1. k + 1 \in 1 .. n /\ g[k] \in V
      OBVIOUS
    <3> QED
      BY <3>1
  <2> HIDE DEF v
  <2>3. h \in [0 .. k + 1 -> V]
    BY <2>2
  <2>4. \A i \in 0 .. k : h[i] = g[i]
    OBVIOUS
  <2>5. h[k + 1] = v
    OBVIOUS
  <2> HIDE DEF h
  <2>6. ASSUME NEW i \in 1 .. k + 1
        PROVE  h[i] = F[i][h[i - 1]]
    <3>1. CASE i = k + 1
      BY <2>4, <2>5, <3>1 DEF v
    <3>2. CASE i \in 1 .. k
      <4>1. h[i] = g[i] /\ h[i - 1] = g[i - 1]
        BY <2>4, <3>2
      <4> QED
        BY <2>1, <3>2, <4>1
    <3> QED
      BY <3>1, <3>2
  <2>7. Good(k + 1, h)
    BY <2>1, <2>4, <2>6
  <2> QED
    BY <2>3, <2>7
<1> HIDE DEF G
<1>3. n \in G
  <2>1. \A i \in 0 .. n : i \in G
    BY <1>1, <1>2, UpTo
  <2> QED
    BY <2>1
<1>4. PICK g \in [0 .. n -> V] : Good(n, g)
  BY <1>3 DEF G
<1>5. Recursive(g, n, V, b, F)
  BY <1>4 DEF Recursive
<1> QED
  BY <1>5

----------------------------------------------------------------------------
(* delete_marked_yp *)

(* DeleteMarked is what its loop computes, entry by entry. *)
LEMMA DeleteMarkedDef ==
    ASSUME NEW list \in Seq(Entries)
    PROVE  \E g \in [0 .. Len(list) -> Seq(Entries)] :
             /\ g[0] = <<>>
             /\ \A i \in 1 .. Len(list) :
                  g[i] = IF Kept(list[i]) THEN Append(g[i - 1], list[i]) ELSE g[i - 1]
             /\ DeleteMarked(list) = g[Len(list)]
<1> DEFINE n == Len(list)
           V == Seq(Entries)
           F == [i \in 1 .. n |-> [v \in V |-> IF Kept(list[i]) THEN Append(v, list[i]) ELSE v]]
           D(g) == [i \in 0 .. n |->
                      IF i = 0 THEN <<>>
                      ELSE IF Kept(list[i]) THEN Append(g[i - 1], list[i]) ELSE g[i - 1]]
           c == CHOOSE g : g = D(g)
<1>1. n \in Nat /\ \A i \in 1 .. n : list[i] \in Entries
  OBVIOUS
<1>2. DeleteMarked(list) = c[n]
  BY DEF DeleteMarked
<1> HIDE DEF n
<1>3. <<>> \in V
  OBVIOUS
<1>4. F \in [1 .. n -> [V -> V]]
  BY <1>1
<1>5. PICK g \in [0 .. n -> V] : g[0] = <<>> /\ \A i \in 1 .. n : g[i] = F[i][g[i - 1]]
  <2> HIDE DEF V, F
  <2>1. \E g : Recursive(g, n, V, <<>>, F)
    BY <1>1, <1>3, <1>4, Recursion
  <2> QED
    BY <2>1 DEF Recursive
<1>6. \A i \in 1 .. n :
        g[i] = IF Kept(list[i]) THEN Append(g[i - 1], list[i]) ELSE g[i - 1]
  <2> SUFFICES ASSUME NEW i \in 1 .. n
               PROVE  g[i] = IF Kept(list[i]) THEN Append(g[i - 1], list[i]) ELSE g[i - 1]
    OBVIOUS
  <2>1. g[i - 1] \in V
    BY <1>1
  <2> QED
    BY <1>5, <2>1
<1>7. g = D(g)
  <2>1. DOMAIN g = 0 .. n /\ DOMAIN D(g) = 0 .. n /\ g = [i \in 0 .. n |-> g[i]]
    OBVIOUS
  <2>2. ASSUME NEW i \in 0 .. n PROVE g[i] = D(g)[i]
    <3>1. CASE i = 0
      BY <1>5, <3>1
    <3>2. CASE i # 0
      <4>1. i \in 1 .. n
        BY <1>1, <3>2
      <4> QED
        BY <1>6, <3>2, <4>1
    <3> QED
      BY <3>1, <3>2
  <2> HIDE DEF D
  <2>3. D(g) = [i \in 0 .. n |-> D(g)[i]]
    BY DEF D
  <2> QED
    BY <2>1, <2>2, <2>3
<1>8. c = D(c)
  BY <1>7
<1> HIDE DEF c
<1>9. c[0] = <<>> /\ \A i \in 1 .. n :
        c[i] = IF Kept(list[i]) THEN Append(c[i - 1], list[i]) ELSE c[i - 1]
  <2>1. ASSUME NEW i \in 0 .. n PROVE c[i] = D(c)[i]
    BY <1>8
  <2>2. 0 \in 0 .. n /\ \A i \in 1 .. n : i \in 0 .. n /\ i # 0
    BY <1>1
  <2>3. D(c)[0] = <<>>
    BY <2>2
  <2>4. ASSUME NEW i \in 1 .. n
        PROVE  D(c)[i] = IF Kept(list[i]) THEN Append(c[i - 1], list[i]) ELSE c[i - 1]
    BY <2>2
  <2> QED
    BY <2>1, <2>2, <2>3, <2>4
<1>10. c = [i \in 0 .. n |-> c[i]]
  BY <1>8
<1>11. \A i \in 0 .. n : c[i] \in V
  <2> DEFINE G == {i \in 0 .. n : c[i] \in V}
  <2>1. 0 \in G
    <3>1. 0 \in 0 .. n /\ c[0] = <<>>
      BY <1>1, <1>9
    <3> QED
      BY <1>3, <3>1
  <2>2. ASSUME NEW i \in 0 .. n - 1, i \in G PROVE i + 1 \in G
    <3>1. i + 1 \in 1 .. n /\ (i + 1) - 1 = i
      BY <1>1
    <3>2. c[i + 1] = IF Kept(list[i + 1]) THEN Append(c[i], list[i + 1]) ELSE c[i]
      BY <1>9, <3>1
    <3>3. c[i] \in V /\ list[i + 1] \in Entries
      BY <1>1, <2>2, <3>1
    <3>4. c[i + 1] \in V
      BY <3>2, <3>3
    <3> QED
      BY <1>1, <3>1, <3>4
  <2> HIDE DEF G
  <2>3. \A i \in 0 .. n : i \in G
    BY <1>1, <2>1, <2>2, UpTo
  <2> QED
    BY <2>3 DEF G
<1>12. c \in [0 .. n -> V]
  BY <1>10, <1>11
<1> QED
  BY <1>2, <1>9, <1>12 DEF n

(* h tells where the entries of new stand among the first k of list: the   *)
(* ones that are kept are there, each once.                                *)
Stands(h, list, k, new) ==
    /\ h \in [1 .. Len(new) -> 1 .. k]
    /\ \A i, j \in 1 .. Len(new) : h[i] = h[j] => i = j
    /\ \A i \in 1 .. Len(new) : new[i] = list[h[i]] /\ Kept(list[h[i]])
    /\ \A j \in 1 .. k : Kept(list[j]) => \E i \in 1 .. Len(new) : h[i] = j

(* The loop has one more entry. *)
LEMMA StandsNext ==
    ASSUME NEW list \in Seq(Entries), NEW k \in Nat, k + 1 \in 1 .. Len(list),
           NEW new \in Seq(Entries), NEW h, Stands(h, list, k, new), NEW next,
           next = IF Kept(list[k + 1]) THEN Append(new, list[k + 1]) ELSE new
    PROVE  \E f : Stands(f, list, k + 1, next)
<1> DEFINE n == Len(new)
<1>1. n \in Nat
  OBVIOUS
<1>2. CASE ~Kept(list[k + 1])
  <2>1. next = new
    BY <1>2
  <2>2. h \in [1 .. n -> 1 .. k + 1]
    BY DEF Stands
  <2>3. \A j \in 1 .. k + 1 : Kept(list[j]) => \E i \in 1 .. n : h[i] = j
    BY <1>2 DEF Stands
  <2>4. Stands(h, list, k + 1, new)
    BY <2>2, <2>3 DEF Stands
  <2> QED
    BY <2>1, <2>4
<1>3. CASE Kept(list[k + 1])
  <2> DEFINE f == [i \in 1 .. n + 1 |-> IF i = n + 1 THEN k + 1 ELSE h[i]]
  <2>1. next = Append(new, list[k + 1]) /\ list[k + 1] \in Entries
    BY <1>3
  <2>2. Len(next) = n + 1 /\ next[n + 1] = list[k + 1] /\ \A i \in 1 .. n : next[i] = new[i]
    BY <2>1
  <2> HIDE DEF n
  <2>3. f \in [1 .. n + 1 -> 1 .. k + 1]
    BY <1>1 DEF Stands, n
  <2>4. f[n + 1] = k + 1 /\ \A i \in 1 .. n : f[i] = h[i] /\ h[i] \in 1 .. k
    BY <1>1 DEF Stands, n
  <2>5. \A i \in 1 .. n + 1 : i = n + 1 \/ i \in 1 .. n
    BY <1>1
  <2> HIDE DEF f
  <2>6. ASSUME NEW i \in 1 .. n + 1, NEW j \in 1 .. n + 1, f[i] = f[j]
        PROVE  i = j
    <3>1. CASE i \in 1 .. n /\ j \in 1 .. n
      BY <2>4, <2>6, <3>1 DEF Stands, n
    <3>2. CASE i = n + 1 /\ j \in 1 .. n
      BY <2>4, <2>6, <3>2
    <3>3. CASE j = n + 1 /\ i \in 1 .. n
      BY <2>4, <2>6, <3>3
    <3> QED
      BY <2>5, <3>1, <3>2, <3>3
  <2>7. ASSUME NEW i \in 1 .. n + 1
        PROVE  next[i] = list[f[i]] /\ Kept(list[f[i]])
    <3>1. CASE i \in 1 .. n
      BY <2>2, <2>4, <3>1 DEF Stands, n
    <3>2. CASE i = n + 1
      BY <1>3, <2>2, <2>4, <3>2
    <3> QED
      BY <2>5, <3>1, <3>2
  <2>8. ASSUME NEW j \in 1 .. k + 1, Kept(list[j])
        PROVE  \E i \in 1 .. n + 1 : f[i] = j
    <3>1. CASE j = k + 1
      BY <1>1, <2>4, <3>1
    <3>2. CASE j \in 1 .. k
      <4>1. PICK i \in 1 .. n : h[i] = j
        BY <2>8, <3>2 DEF Stands, n
      <4>2. i \in 1 .. n + 1 /\ f[i] = j
        BY <1>1, <2>4, <4>1
      <4> QED
        BY <4>2
    <3> QED
      BY <3>1, <3>2
  <2>9. Stands(f, list, k + 1, next)
    BY <2>2, <2>3, <2>6, <2>7, <2>8 DEF Stands
  <2> QED
    BY <2>9
<1> QED
  BY <1>2, <1>3

(* What delete_marked_yp leaves are the entries that are kept. *)
LEMMA DeletedStands ==
    ASSUME NEW list \in Seq(Entries)
    PROVE  /\ DeleteMarked(list) \in Seq(Entries)
           /\ \E h : Stands(h, list, Len(list), DeleteMarked(list))
<1> DEFINE n == Len(list)
<1>1. n \in Nat
  OBVIOUS
<1>2. PICK g \in [0 .. n -> Seq(Entries)] :
        /\ g[0] = <<>>
        /\ \A i \in 1 .. n : g[i] = IF Kept(list[i]) THEN Append(g[i - 1], list[i]) ELSE g[i - 1]
        /\ DeleteMarked(list) = g[n]
  BY DeleteMarkedDef
<1> DEFINE G == {k \in 0 .. n : \E h : Stands(h, list, k, g[k])}
<1>3. 0 \in G
  <2>1. Len(<<>>) = 0 /\ 0 \in 0 .. n
    BY <1>1
  <2> DEFINE h == [i \in 1 .. 0 |-> 0]
  <2>2. h \in [1 .. 0 -> 1 .. 0]
    OBVIOUS
  <2>3. Stands(h, list, 0, <<>>)
    BY <2>1, <2>2 DEF Stands
  <2> HIDE DEF h
  <2>4. \E f : Stands(f, list, 0, g[0])
    BY <1>2, <2>3
  <2> QED
    BY <2>1, <2>4
<1>4. ASSUME NEW k \in 0 .. n - 1, k \in G
      PROVE  k + 1 \in G
  <2>1. PICK h : Stands(h, list, k, g[k])
    BY <1>4
  <2>2. k \in Nat /\ k + 1 \in 1 .. n /\ (k + 1) - 1 = k /\ k \in 0 .. n /\ k + 1 \in 0 .. n
    BY <1>1
  <2>3. g[k + 1] = IF Kept(list[k + 1]) THEN Append(g[k], list[k + 1]) ELSE g[k]
    BY <1>2, <2>2
  <2>4. g[k] \in Seq(Entries)
    BY <2>2
  <2>5. \E f : Stands(f, list, k + 1, g[k + 1])
    BY <2>1, <2>2, <2>3, <2>4, StandsNext
  <2> QED
    BY <2>2, <2>5
<1> HIDE DEF G
<1>5. n \in G
  <2>1. \A k \in 0 .. n : k \in G
    BY <1>1, <1>3, <1>4, UpTo
  <2> QED
    BY <1>1, <2>1
<1>6. \E h : Stands(h, list, n, g[n])
  BY <1>5 DEF G
<1> QED
  BY <1>1, <1>2, <1>6

----------------------------------------------------------------------------
(* Counting entries *)

(* The places of a list where an element of C is, and their number. *)
Spots(list, C) == {i \in 1 .. Len(list) : list[i] \in C}
Count(list, C) == Cardinality(Spots(list, C))

(* A map that is one to one and onto shows that two sets are equally large. *)
LEMMA SameSize ==
    ASSUME NEW S, NEW T, IsFiniteSet(S), NEW f \in [S -> T],
           \A x, y \in S : f[x] = f[y] => x = y,
           \A t \in T : \E x \in S : f[x] = t
    PROVE  IsFiniteSet(T) /\ Cardinality(T) = Cardinality(S)
<1>1. f \in Bijection(S, T)
  BY DEF Bijection, Injection, Surjection, IsInjective
<1>2. ExistsBijection(S, T)
  BY <1>1 DEF ExistsBijection
<1> QED
  BY <1>2, FS_Bijection

(* The places are finitely many. *)
LEMMA CountType ==
    ASSUME NEW list \in Seq(Entries), NEW C
    PROVE  IsFiniteSet(Spots(list, C)) /\ Count(list, C) \in Nat
<1>1. IsFiniteSet(1 .. Len(list))
  BY FS_Interval
<1>2. Spots(list, C) \in SUBSET (1 .. Len(list))
  BY DEF Spots
<1>3. IsFiniteSet(Spots(list, C))
  BY <1>1, <1>2, FS_Subset
<1> QED
  BY <1>3, FS_CardinalityType DEF Count

(* Lists that are put together. *)
LEMMA CountConcat ==
    ASSUME NEW s \in Seq(Entries), NEW t \in Seq(Entries), NEW C
    PROVE  Count(s \o t, C) = Count(s, C) + Count(t, C)
<1> DEFINE n == Len(s)
           A == Spots(s, C)
           B == Spots(t, C)
           M == {i \in n + 1 .. n + Len(t) : t[i - n] \in C}
<1>1. n \in Nat /\ Len(t) \in Nat
  OBVIOUS
<1>2. /\ s \o t \in Seq(Entries) /\ Len(s \o t) = n + Len(t)
      /\ \A i \in 1 .. n : (s \o t)[i] = s[i]
      /\ \A i \in n + 1 .. n + Len(t) : (s \o t)[i] = t[i - n]
  BY <1>1, ConcatProperties
<1>3. Spots(s \o t, C) = A \cup M /\ A \cap M = {}
  BY <1>1, <1>2 DEF Spots
<1>4. IsFiniteSet(A) /\ IsFiniteSet(B) /\ Count(s, C) \in Nat /\ Count(t, C) \in Nat
  BY CountType
<1>5. IsFiniteSet(M) /\ Cardinality(M) = Cardinality(B)
  <2> DEFINE f == [i \in B |-> i + n]
  <2>1. \A i \in B : i \in 1 .. Len(t) /\ t[i] \in C
    BY DEF Spots
  <2>2. f \in [B -> M]
    BY <1>1, <2>1
  <2>3. \A i, j \in B : f[i] = f[j] => i = j
    BY <1>1, <2>1
  <2>4. ASSUME NEW m \in M PROVE \E i \in B : f[i] = m
    <3>1. m - n \in B
      BY <1>1 DEF Spots
    <3>2. f[m - n] = m
      BY <1>1, <3>1
    <3> QED
      BY <3>1, <3>2
  <2> HIDE DEF f, B, M
  <2> QED
    BY <1>4, <2>2, <2>3, <2>4, SameSize
<1> HIDE DEF A, B, M
<1>6. Cardinality(A \cup M) = Cardinality(A) + Cardinality(M) - Cardinality(A \cap M)
  BY <1>4, <1>5, FS_Union
<1>7. Cardinality(A \cap M) = 0
  BY <1>3, FS_EmptySet
<1>8. Cardinality(A) = Count(s, C) /\ Cardinality(B) = Count(t, C)
  BY DEF A, B, Count
<1> QED
  BY <1>3, <1>4, <1>5, <1>6, <1>7, <1>8 DEF Count

(* What is kept is as often there as before. *)
LEMMA CountDeleted ==
    ASSUME NEW list \in Seq(Entries), NEW C, \A e \in C : Kept(e)
    PROVE  Count(DeleteMarked(list), C) = Count(list, C)
<1> DEFINE new == DeleteMarked(list)
           S == Spots(new, C)
           T == Spots(list, C)
<1>1. new \in Seq(Entries)
  BY DeletedStands
<1>2. PICK h : Stands(h, list, Len(list), new)
  BY DeletedStands
<1>3. \A i \in S : i \in 1 .. Len(new) /\ new[i] \in C
  BY DEF Spots
<1>4. \A i \in T : i \in 1 .. Len(list) /\ list[i] \in C /\ Kept(list[i])
  BY DEF Spots
<1>5. IsFiniteSet(S)
  BY <1>1, CountType
<1> DEFINE f == [i \in S |-> h[i]]
<1>6. f \in [S -> T]
  BY <1>2, <1>3 DEF Stands, Spots
<1>7. \A x, y \in S : f[x] = f[y] => x = y
  BY <1>2, <1>3 DEF Stands
<1>8. ASSUME NEW t \in T PROVE \E x \in S : f[x] = t
  <2>1. PICK i \in 1 .. Len(new) : h[i] = t
    BY <1>2, <1>4 DEF Stands
  <2>2. new[i] = list[t]
    BY <1>2, <2>1 DEF Stands
  <2>3. i \in S
    BY <1>4, <2>1, <2>2 DEF Spots
  <2> QED
    BY <2>1, <2>3
<1> HIDE DEF f, S, T
<1>9. Cardinality(T) = Cardinality(S)
  BY <1>5, <1>6, <1>7, <1>8, SameSize
<1> QED
  BY <1>9 DEF Count, S, T

(* An entry is put in front of a list. *)
LEMMA CountCons ==
    ASSUME NEW e \in Entries, NEW t \in Seq(Entries), NEW C
    PROVE  /\ <<e>> \o t \in Seq(Entries)
           /\ Count(<<e>> \o t, C) = Count(t, C) + (IF e \in C THEN 1 ELSE 0)
<1> DEFINE s == <<e>>
<1>1. s \in Seq(Entries) /\ Len(s) = 1 /\ s[1] = e
  OBVIOUS
<1> HIDE DEF s
<1>2. Spots(s, C) = IF e \in C THEN {1} ELSE {}
  BY <1>1 DEF Spots
<1>3. Count(s, C) = IF e \in C THEN 1 ELSE 0
  BY <1>2, FS_EmptySet, FS_Singleton DEF Count
<1>4. Count(s \o t, C) = Count(s, C) + Count(t, C) /\ Count(t, C) \in Nat
  BY <1>1, CountConcat, CountType
<1>5. s \o t \in Seq(Entries)
  BY <1>1, ConcatProperties
<1> QED
  BY <1>3, <1>4, <1>5 DEF s

(* A list that has the elements of C at the same places. *)
LEMMA CountSame ==
    ASSUME NEW s, NEW t, NEW C, Len(s) = Len(t),
           \A i \in 1 .. Len(s) : s[i] \in C <=> t[i] \in C
    PROVE  Count(s, C) = Count(t, C)
<1>1. Spots(s, C) = Spots(t, C)
  BY DEF Spots
<1> QED
  BY <1>1 DEF Count

(* One entry of a list is changed. *)
LEMMA EntryChanged ==
    ASSUME NEW s \in Seq(Entries), NEW k \in 1 .. Len(s), NEW e \in Entries
    PROVE  /\ [s EXCEPT ![k] = e] \in Seq(Entries) /\ Len([s EXCEPT ![k] = e]) = Len(s)
           /\ [s EXCEPT ![k] = e][k] = e
           /\ \A i \in 1 .. Len(s) : i # k => [s EXCEPT ![k] = e][i] = s[i]
  BY ExceptSeq

(* And it is in C as the one before. *)
LEMMA CountChanged ==
    ASSUME NEW s \in Seq(Entries), NEW k \in 1 .. Len(s), NEW e \in Entries, NEW C,
           e \in C <=> s[k] \in C
    PROVE  Count([s EXCEPT ![k] = e], C) = Count(s, C)
<1> DEFINE t == [s EXCEPT ![k] = e]
<1>1. Len(t) = Len(s) /\ t[k] = e /\ \A i \in 1 .. Len(s) : i # k => t[i] = s[i]
  BY EntryChanged
<1>2. \A i \in 1 .. Len(t) : t[i] \in C <=> s[i] \in C
  BY <1>1
<1> HIDE DEF t
<1>3. Count(t, C) = Count(s, C)
  BY <1>1, <1>2, CountSame
<1> QED
  BY <1>3 DEF t

(* The elements of a set in some order, each once. *)
LEMMA Enumerated ==
    ASSUME NEW S, IsFiniteSet(S), S \subseteq Entries
    PROVE  /\ SetToSeq(S) \in Seq(Entries)
           /\ \A i \in 1 .. Len(SetToSeq(S)) : SetToSeq(S)[i] \in S
           /\ \A C, e : S \cap C \subseteq {e} =>
                Count(SetToSeq(S), C) = IF e \in S \cap C THEN 1 ELSE 0
<1> DEFINE n == Cardinality(S)
           q == SetToSeq(S)
<1>1. n \in Nat /\ ExistsBijection(1 .. n, S)
  BY FS_CardinalityType
<1>2. \E f \in [1 .. n -> S] : IsInjective(f)
  BY <1>1 DEF ExistsBijection, Bijection, Injection
<1>3. q \in [1 .. n -> S] /\ IsInjective(q)
  BY <1>2 DEF SetToSeq
<1> HIDE DEF q
<1>4. q \in Seq(Entries) /\ Len(q) = n
  <2>1. q \in [1 .. n -> Entries]
    BY <1>3
  <2> HIDE DEF n
  <2> QED
    BY <1>1, <2>1
<1>5. q \in Surjection(1 .. n, S)
  <2>1. q \in Injection(1 .. n, S)
    BY <1>3 DEF Injection
  <2>2. Cardinality(1 .. n) = n
    BY <1>1, FS_Interval
  <2> QED
    BY <2>1, <2>2, FS_Injection
<1>6. \A e \in S : \E i \in 1 .. n : q[i] = e
  BY <1>5 DEF Surjection
<1>7. \A i, j \in 1 .. n : q[i] = q[j] => i = j
  BY <1>3 DEF IsInjective
<1>8. \A i \in 1 .. n : q[i] \in S
  BY <1>3
<1> HIDE DEF n
<1>9. ASSUME NEW C, NEW e, S \cap C \subseteq {e}
      PROVE  Count(q, C) = IF e \in S \cap C THEN 1 ELSE 0
  <2>1. CASE e \in S \cap C
    <3>1. PICK i \in 1 .. n : q[i] = e
      BY <1>6, <2>1
    <3>2. Spots(q, C) = {i}
      BY <1>4, <1>7, <1>8, <1>9, <2>1, <3>1 DEF Spots
    <3> QED
      BY <2>1, <3>2, FS_Singleton DEF Count
  <2>2. CASE e \notin S \cap C
    <3>1. Spots(q, C) = {}
      BY <1>4, <1>8, <1>9, <2>2 DEF Spots
    <3> QED
      BY <2>2, <3>1, FS_EmptySet DEF Count
  <2> QED
    BY <2>1, <2>2
<1> QED
  BY <1>4, <1>8, <1>9 DEF q

----------------------------------------------------------------------------
(* The inductive invariant *)

(* Match, with the entries counted as above. *)
CurrentOf(m) == {e \in Entries : e.mount = m /\ Current(e)}
CurrentCount(m) == Count(mounts, CurrentOf(m)) + Count(pending, CurrentOf(m))
Listed ==
    server = "active" =>
        \A m \in Mount \ missed :
            late[m] = "no" =>
                /\ CurrentCount(m) <= 1
                /\ stage[m] \in {"off", "removing", "unset"} => CurrentCount(m) = 0
                /\ stage[m] \in {"adding", "public"} => CurrentCount(m) = 1

(* Entries that wait are new.  An entry is removed at the directory after  *)
(* it was released.  One that is marked has no session, and the thread     *)
(* does not come to it again before it is deleted.                         *)
PendingNew == \A i \in 1 .. Len(pending) :
    Current(pending[i]) /\ pending[i].process = "add"
RemovedReleased == \A i \in 1 .. Len(mounts) :
    mounts[i].process = "remove" => mounts[i].release
MarkedPassed == \A i \in 1 .. Len(mounts) : mounts[i].remove =>
    /\ ~mounts[i].sid /\ update
    /\ yp = "check" \/ (yp \in {"pass", "wait"} /\ i < pos)
AtPosition == /\ yp \in {"pass", "wait"} => pos >= 1
              /\ yp = "wait" => pos <= Len(mounts)

IInv == /\ TypeOK /\ Listed /\ UpdateAnnounced
        /\ PendingNew /\ RemovedReleased /\ MarkedPassed /\ AtPosition

(* The current entries are the ones that are counted. *)
LEMMA SpotsCurrent ==
    ASSUME NEW list \in Seq(Entries), NEW m
    PROVE  /\ {i \in Of(list, m) : Current(list[i])} = Spots(list, CurrentOf(m))
           /\ (\A i \in 1 .. Len(list) : Current(list[i])) => Of(list, m) = Spots(list, CurrentOf(m))
           /\ Of(list, m) = {i \in 1 .. Len(list) : list[i].mount = m}
<1>1. DOMAIN list = 1 .. Len(list) /\ \A i \in 1 .. Len(list) : list[i] \in Entries
  OBVIOUS
<1> QED
  BY <1>1 DEF Of, Spots, CurrentOf

(* Hence Match is what the invariant says. *)
LEMMA ListedMatch ==
    ASSUME TypeOK, Listed, PendingNew
    PROVE  Match
<1>1. ASSUME NEW m \in Mount PROVE CurrentEntries(m) = CurrentCount(m)
  <2>1. mounts \in Seq(Entries) /\ pending \in Seq(Entries)
    BY DEF TypeOK
  <2>2. /\ {i \in Of(mounts, m) : Current(mounts[i])} = Spots(mounts, CurrentOf(m))
        /\ Of(pending, m) = Spots(pending, CurrentOf(m))
    BY <2>1, SpotsCurrent DEF PendingNew
  <2> QED
    BY <2>2 DEF CurrentEntries, CurrentCount, Count
<1> QED
  BY <1>1 DEF Listed, Match

(* The counts are naturals. *)
LEMMA CurrentType ==
    ASSUME TypeOK, NEW m
    PROVE  Count(mounts, CurrentOf(m)) \in Nat /\ Count(pending, CurrentOf(m)) \in Nat
  BY CountType DEF TypeOK

(* At the start there is no entry. *)
LEMMA InitInv == Init => IInv
<1> SUFFICES ASSUME Init PROVE IInv
  OBVIOUS
<1>1. Len(<<>>) = 0 /\ <<>> \in Seq(Entries)
  OBVIOUS
<1>2. TypeOK
  BY <1>1 DEF Init, TypeOK
<1>3. Listed
  BY DEF Init, Listed
<1>4. UpdateAnnounced
  BY DEF Init, UpdateAnnounced
<1>5. PendingNew /\ RemovedReleased /\ MarkedPassed /\ AtPosition
  BY <1>1 DEF Init, PendingNew, RemovedReleased, MarkedPassed, AtPosition
<1> QED
  BY <1>2, <1>3, <1>4, <1>5 DEF IInv

----------------------------------------------------------------------------
(* Steps of the YP thread and of time, which change one entry *)

(* The entry e is at k afterwards, about the same mount, and as current as *)
(* the one that was there.                                                 *)
LEMMA EntryStep ==
    ASSUME IInv, NEW k \in 1 .. Len(mounts), NEW e \in Entries,
           mounts' = [mounts EXCEPT ![k] = e], Stay,
           e.mount = mounts[k].mount, Current(e) <=> Current(mounts[k]),
           e.process = "remove" => e.release
    PROVE  /\ server = "active" /\ mounts' \in Seq(Entries) /\ Len(mounts') = Len(mounts)
           /\ mounts'[k] = e /\ \A i \in 1 .. Len(mounts) : i # k => mounts'[i] = mounts[i]
           /\ Listed' /\ PendingNew' /\ RemovedReleased'
<1>1. mounts \in Seq(Entries) /\ mounts[k] \in Entries
  BY DEF IInv, TypeOK
<1>2. /\ mounts' \in Seq(Entries) /\ Len(mounts') = Len(mounts) /\ mounts'[k] = e
      /\ \A i \in 1 .. Len(mounts) : i # k => mounts'[i] = mounts[i]
  BY <1>1, EntryChanged
<1>3. server = "active"
  BY DEF IInv, TypeOK
<1>4. Listed'
  <2>1. ASSUME NEW m PROVE CurrentCount(m)' = CurrentCount(m)
    <3>1. e \in CurrentOf(m) <=> mounts[k] \in CurrentOf(m)
      BY <1>1 DEF CurrentOf
    <3>2. Count(mounts', CurrentOf(m)) = Count(mounts, CurrentOf(m))
      BY <1>1, <3>1, CountChanged
    <3>3. Count(pending', CurrentOf(m)) = Count(pending, CurrentOf(m))
      BY DEF Stay
    <3> QED
      BY <3>2, <3>3 DEF CurrentCount
  <2>2. UNCHANGED <<stage, late, server, missed>>
    BY DEF Stay, sourceVars, serverVars
  <2> QED
    BY <2>1, <2>2 DEF IInv, Listed
<1>5. PendingNew'
  BY DEF IInv, PendingNew, Stay
<1>6. RemovedReleased'
  BY <1>2 DEF IInv, RemovedReleased
<1> QED
  BY <1>2, <1>3, <1>4, <1>5, <1>6

(* A step of a pass: e is what the thread makes of the entry it is at. *)
LEMMA PassStep ==
    ASSUME IInv, pos \in 1 .. Len(mounts), yp \in {"pass", "wait"}, NEW e \in Entries,
           mounts' = [mounts EXCEPT ![pos] = e], Stay,
           e.mount = mounts[pos].mount, Current(e) <=> Current(mounts[pos]),
           e.process = "remove" => e.release,
           e.remove => ~e.sid /\ update' /\ pos' = pos + 1,
           yp' \in {"pass", "wait"}, pos' \in {pos, pos + 1}, dead' \in BOOLEAN,
           yp' = "wait" => pos' = pos, update' \in BOOLEAN, update => update'
    PROVE  IInv'
<1>1. /\ server = "active" /\ mounts' \in Seq(Entries) /\ Len(mounts') = Len(mounts)
      /\ mounts'[pos] = e /\ \A i \in 1 .. Len(mounts) : i # pos => mounts'[i] = mounts[i]
      /\ Listed' /\ PendingNew' /\ RemovedReleased'
  BY EntryStep
<1>2. Len(mounts) \in Nat /\ DOMAIN mounts = 1 .. Len(mounts) /\ DOMAIN mounts' = 1 .. Len(mounts)
  BY <1>1 DEF IInv, TypeOK
<1>3. TypeOK'
  BY <1>1, <1>2 DEF IInv, TypeOK, Stay, sourceVars, serverVars
<1>4. UpdateAnnounced'
  BY <1>1, <1>2 DEF IInv, UpdateAnnounced, Stay, serverVars
<1>5. MarkedPassed'
  BY <1>1, <1>2 DEF IInv, MarkedPassed
<1>6. AtPosition'
  BY <1>1, <1>2 DEF AtPosition
<1> QED
  BY <1>1, <1>3, <1>4, <1>5, <1>6 DEF IInv

(* Two fields of an entry are changed one after the other. *)
LEMMA SkipEntryInv == IInv /\ SkipEntry => IInv'
<1> SUFFICES ASSUME IInv, SkipEntry PROVE IInv'
  OBVIOUS
<1> DEFINE old == mounts[pos]
           e == [old EXCEPT !.process = "add",
                            !.due = IF old.due = "ever" THEN "ever" ELSE "later"]
<1>1. pos \in 1 .. Len(mounts) /\ yp = "pass"
  BY DEF IInv, TypeOK, AtPosition, SkipEntry, AtEntry
<1>2. mounts \in Seq(Entries) /\ old \in Entries
  BY <1>1 DEF IInv, TypeOK
<1>3. mounts' = [mounts EXCEPT ![pos] = e]
  BY <1>1, <1>2 DEF SkipEntry
<1>4. ~old.remove
  BY <1>1 DEF IInv, TypeOK, MarkedPassed
<1>5. /\ e \in Entries /\ e.mount = old.mount /\ e.process = "add"
      /\ e.release = old.release /\ e.remove = old.remove
  BY <1>2 DEF Entries
<1>6. UNCHANGED <<update, yp, dead>> /\ pos' = pos + 1 /\ Stay
  BY DEF SkipEntry
<1> HIDE DEF e
<1>7. Current(e) <=> Current(old)
  BY <1>5 DEF Current
<1>8. dead' \in BOOLEAN /\ update' \in BOOLEAN
  BY <1>6 DEF IInv, TypeOK
<1> QED
  BY <1>1, <1>3, <1>4, <1>5, <1>6, <1>7, <1>8, PassStep

(* The entry that is forgotten is one that was released. *)
LEMMA ForgetEntryInv == IInv /\ ForgetEntry => IInv'
<1> SUFFICES ASSUME IInv, ForgetEntry PROVE IInv'
  OBVIOUS
<1> DEFINE old == mounts[pos]
           e == Forgotten(old)
<1>1. pos \in 1 .. Len(mounts) /\ yp = "pass"
  BY DEF IInv, TypeOK, AtPosition, ForgetEntry, AtEntry
<1>2. mounts \in Seq(Entries) /\ old \in Entries
  BY <1>1 DEF IInv, TypeOK
<1>3. mounts' = [mounts EXCEPT ![pos] = e] /\ update'
  BY DEF ForgetEntry, Mark
<1>4. old.release
  BY <1>1, <1>2 DEF ForgetEntry, WhatNext, IInv, RemovedReleased
<1>5. /\ e \in Entries /\ e.mount = old.mount /\ e.process = "add" /\ ~e.sid
      /\ e.release = old.release /\ e.remove
  BY <1>2 DEF Entries, Forgotten
<1>6. UNCHANGED <<yp, dead>> /\ pos' = pos + 1 /\ Stay /\ update' = TRUE
  BY DEF ForgetEntry, Mark
<1> HIDE DEF e
<1>7. Current(e) <=> Current(old)
  BY <1>4, <1>5 DEF Current
<1>8. dead' \in BOOLEAN /\ update' \in BOOLEAN
  BY <1>6 DEF IInv, TypeOK
<1> QED
  BY <1>1, <1>3, <1>5, <1>6, <1>7, <1>8, PassStep

(* Before the directory is asked, the entry says what for. *)
LEMMA AskInv == IInv /\ Ask => IInv'
<1> SUFFICES ASSUME IInv, Ask PROVE IInv'
  OBVIOUS
<1> DEFINE old == mounts[pos]
           e == [old EXCEPT !.process = WhatNext(old)]
<1>1. pos \in 1 .. Len(mounts) /\ yp = "pass"
  BY DEF IInv, TypeOK, AtPosition, Ask, AtEntry
<1>2. mounts \in Seq(Entries) /\ old \in Entries
  BY <1>1 DEF IInv, TypeOK
<1>3. mounts' = [mounts EXCEPT ![pos] = e]
  BY <1>1, <1>2 DEF Ask
<1>4. ~old.remove
  BY <1>1 DEF IInv, TypeOK, MarkedPassed
<1>5. /\ WhatNext(old) \in {"add", "touch", "remove"}
      /\ WhatNext(old) = "remove" => old.release
  BY <1>1, <1>2 DEF Entries, WhatNext, IInv, RemovedReleased
<1>6. /\ e \in Entries /\ e.mount = old.mount /\ e.process = WhatNext(old)
      /\ e.release = old.release /\ e.remove = old.remove
  BY <1>2, <1>5 DEF Entries
<1>7. UNCHANGED <<update, dead, pos>> /\ yp' = "wait" /\ Stay
  BY DEF Ask
<1> HIDE DEF e
<1>8. Current(e) <=> Current(old)
  BY <1>6 DEF Current
<1>9. dead' \in BOOLEAN /\ update' \in BOOLEAN
  BY <1>7 DEF IInv, TypeOK
<1> QED
  BY <1>1, <1>3, <1>4, <1>5, <1>6, <1>7, <1>8, <1>9, PassStep

(* The answer is about the entry that was asked for. *)
LEMMA AnswerInv == ASSUME NEW a \in Answers PROVE IInv /\ Answer(a) => IInv'
<1> SUFFICES ASSUME IInv, Answer(a) PROVE IInv'
  OBVIOUS
<1> DEFINE old == mounts[pos]
<1>1. pos \in 1 .. Len(mounts) /\ yp = "wait"
  BY DEF IInv, TypeOK, AtPosition, Answer
<1>2. mounts \in Seq(Entries) /\ old \in Entries
  BY <1>1 DEF IInv, TypeOK
<1>3. yp' = "pass" /\ pos' = pos + 1 /\ Stay /\ dead' \in BOOLEAN
  BY DEF Answer
<1>4. ~old.remove
  BY <1>1 DEF IInv, TypeOK, MarkedPassed
<1>5. CASE old.process = "remove"
  <2> DEFINE e == Forgotten(old)
  <2>1. old.release
    BY <1>1, <1>5 DEF IInv, RemovedReleased
  <2>2. mounts' = [mounts EXCEPT ![pos] = e] /\ update' = TRUE
    BY <1>5 DEF Answer, Mark
  <2>3. /\ e \in Entries /\ e.mount = old.mount /\ e.process = "add" /\ ~e.sid
        /\ e.release = old.release /\ e.remove
    BY <1>2 DEF Entries, Forgotten
  <2> HIDE DEF e
  <2>4. Current(e) <=> Current(old)
    BY <2>1, <2>3 DEF Current
  <2> QED
    BY <1>1, <1>3, <2>2, <2>3, <2>4, PassStep
<1>6. CASE old.process # "remove"
  <2> DEFINE e == IF old.process = "add" THEN AnswerAdd(old, a) ELSE AnswerTouch(old, a)
  <2>1. mounts' = [mounts EXCEPT ![pos] = e] /\ UNCHANGED update
    BY <1>6 DEF Answer
  <2>2. \E process \in {"add", "touch"}, sid \in BOOLEAN : e = Later(old, process, sid)
    <3>1. a \in {"ok", "no", "dead"} /\ old.sid \in BOOLEAN
      BY <1>2 DEF Answers, Entries
    <3> QED
      BY <3>1 DEF AnswerAdd, AnswerTouch
  <2>3. PICK process \in {"add", "touch"}, sid \in BOOLEAN : e = Later(old, process, sid)
    BY <2>2
  <2> HIDE DEF e
  <2>4. /\ e \in Entries /\ e.mount = old.mount /\ e.process = process
        /\ e.release = old.release /\ e.remove = old.remove
    BY <1>2, <2>3 DEF Entries, Later
  <2>5. Current(e) <=> Current(old)
    BY <2>4 DEF Current
  <2>6. update' \in BOOLEAN
    BY <2>1 DEF IInv, TypeOK
  <2> QED
    BY <1>1, <1>3, <1>4, <2>1, <2>4, <2>5, <2>6, PassStep
<1> QED
  BY <1>5, <1>6

(* No marked entry is there when the thread is idle. *)
LEMMA TimeInv ==
    ASSUME NEW m \in Mount, NEW release \in BOOLEAN
    PROVE  IInv /\ Time(m, release) => IInv'
<1> SUFFICES ASSUME IInv, Time(m, release) PROVE IInv'
  OBVIOUS
<1>1. mounts \in Seq(Entries) /\ DOMAIN mounts = 1 .. Len(mounts)
  BY DEF IInv, TypeOK
<1>2. PICK k \in 1 .. Len(mounts) : mounts' = [mounts EXCEPT ![k].due = "now"]
  BY <1>1 DEF Time, Of
<1> DEFINE old == mounts[k]
           e == [old EXCEPT !.due = "now"]
<1>3. old \in Entries /\ mounts' = [mounts EXCEPT ![k] = e]
  BY <1>1, <1>2
<1>4. /\ e \in Entries /\ e.mount = old.mount /\ e.process = old.process
      /\ e.release = old.release /\ e.remove = old.remove
  BY <1>3 DEF Entries
<1>5. UNCHANGED <<update, yp, pos, dead>> /\ Stay /\ yp = "idle"
  BY DEF Time, threadVars
<1> HIDE DEF e
<1>6. Current(e) <=> Current(old)
  BY <1>4 DEF Current
<1>7. e.process = "remove" => e.release
  BY <1>4 DEF IInv, RemovedReleased
<1>8. /\ server = "active" /\ mounts' \in Seq(Entries) /\ Len(mounts') = Len(mounts)
      /\ mounts'[k] = e /\ \A i \in 1 .. Len(mounts) : i # k => mounts'[i] = mounts[i]
      /\ Listed' /\ PendingNew' /\ RemovedReleased'
  BY <1>3, <1>4, <1>5, <1>6, <1>7, EntryStep
<1>9. \A i \in 1 .. Len(mounts) : ~mounts[i].remove
  BY <1>5 DEF IInv, MarkedPassed
<1>10. \A i \in 1 .. Len(mounts) : ~mounts'[i].remove
  BY <1>4, <1>8, <1>9
<1>11. DOMAIN mounts' = 1 .. Len(mounts)
  BY <1>8
<1>12. TypeOK'
  BY <1>5, <1>8 DEF IInv, TypeOK, Stay, sourceVars, serverVars
<1>13. UpdateAnnounced'
  BY <1>5, <1>8, <1>10, <1>11 DEF IInv, UpdateAnnounced, Stay, serverVars
<1>14. MarkedPassed' /\ AtPosition'
  BY <1>5, <1>8, <1>10 DEF MarkedPassed, AtPosition
<1> QED
  BY <1>8, <1>12, <1>13, <1>14 DEF IInv

----------------------------------------------------------------------------
(* Steps that leave the lists as they are *)

(* Match is kept if no stage goes from one of the groups it tells apart to *)
(* another.                                                                *)
LEMMA ListedKept ==
    ASSUME Listed, UNCHANGED <<mounts, pending, missed>>, server' = "active" => server = "active",
           \A m \in Mount : late'[m] = "no" =>
             /\ late[m] = "no"
             /\ stage'[m] \in {"off", "removing", "unset"} => stage[m] \in {"off", "removing", "unset"}
             /\ stage'[m] \in {"adding", "public"} => stage[m] \in {"adding", "public"}
    PROVE  Listed'
<1>1. \A m : CurrentCount(m)' = CurrentCount(m)
  BY DEF CurrentCount
<1> QED
  BY <1>1 DEF Listed

(* What else is said of the lists. *)
LEMMA ListsKept ==
    ASSUME IInv, UNCHANGED <<mounts, pending>>
    PROVE  PendingNew' /\ RemovedReleased' /\ DOMAIN mounts' = 1 .. Len(mounts)
  BY DEF IInv, TypeOK, PendingNew, RemovedReleased

(* The YP thread begins a pass over the list. *)
LEMMA BeginPassInv == IInv /\ BeginPass => IInv'
<1> SUFFICES ASSUME IInv, BeginPass PROVE IInv'
  OBVIOUS
<1> USE DEF BeginPass, Stay, sourceVars, serverVars
<1>1. Listed'
  BY ListedKept DEF IInv
<1>2. PendingNew' /\ RemovedReleased'
  BY ListsKept
<1>3. TypeOK'
  BY DEF IInv, TypeOK
<1>4. UpdateAnnounced'
  BY DEF IInv, UpdateAnnounced
<1>5. MarkedPassed' /\ AtPosition'
  BY DEF IInv, TypeOK, MarkedPassed, AtPosition
<1> QED
  BY <1>1, <1>2, <1>3, <1>4, <1>5 DEF IInv

(* It goes on to the next entry. *)
LEMMA LeaveEntryInv == IInv /\ LeaveEntry => IInv'
<1> SUFFICES ASSUME IInv, LeaveEntry PROVE IInv'
  OBVIOUS
<1> USE DEF LeaveEntry, AtEntry, Stay, sourceVars, serverVars
<1>1. Listed'
  BY ListedKept DEF IInv
<1>2. PendingNew' /\ RemovedReleased'
  BY ListsKept
<1>3. TypeOK'
  BY DEF IInv, TypeOK
<1>4. UpdateAnnounced'
  BY DEF IInv, UpdateAnnounced
<1>5. MarkedPassed' /\ AtPosition'
  BY DEF IInv, TypeOK, MarkedPassed, AtPosition
<1> QED
  BY <1>1, <1>2, <1>3, <1>4, <1>5 DEF IInv

(* It ends the pass. *)
LEMMA EndPassInv == IInv /\ EndPass => IInv'
<1> SUFFICES ASSUME IInv, EndPass PROVE IInv'
  OBVIOUS
<1> USE DEF EndPass, Stay, sourceVars, serverVars
<1>1. Listed'
  BY ListedKept DEF IInv
<1>2. PendingNew' /\ RemovedReleased'
  BY ListsKept
<1>3. TypeOK'
  BY DEF IInv, TypeOK
<1>4. UpdateAnnounced'
  BY DEF IInv, UpdateAnnounced
<1>5. MarkedPassed' /\ AtPosition'
  BY DEF IInv, TypeOK, MarkedPassed, AtPosition
<1> QED
  BY <1>1, <1>2, <1>3, <1>4, <1>5 DEF IInv

(* A marked entry would have been announced. *)
LEMMA NothingNewInv == IInv /\ NothingNew => IInv'
<1> SUFFICES ASSUME IInv, NothingNew PROVE IInv'
  OBVIOUS
<1> USE DEF NothingNew, Stay, sourceVars, serverVars
<1>1. Listed'
  BY ListedKept DEF IInv
<1>2. PendingNew' /\ RemovedReleased'
  BY ListsKept
<1>3. TypeOK'
  BY DEF IInv, TypeOK
<1>4. UpdateAnnounced'
  BY DEF IInv, UpdateAnnounced
<1>5. MarkedPassed' /\ AtPosition'
  BY DEF IInv, TypeOK, MarkedPassed, AtPosition
<1> QED
  BY <1>1, <1>2, <1>3, <1>4, <1>5 DEF IInv

(* The stages of sources and of their ends *)
LEMMA StagesInv ==
    ASSUME NEW m \in Mount
    PROVE  IInv /\ (SetPublic(m) \/ YpLook(m) \/ FreeSource(m) \/ FreeLook(m)) => IInv'
<1> SUFFICES ASSUME IInv, SetPublic(m) \/ YpLook(m) \/ FreeSource(m) \/ FreeLook(m) PROVE IInv'
  OBVIOUS
<1>1. UNCHANGED <<server, marked, announce, mounts, pending, update, yp, pos, dead, running, missed>>
  BY DEF SetPublic, YpLook, FreeSource, FreeLook, serverVars, threadVars
<1>2. TypeOK
  BY DEF IInv
<1>3. TypeOK'
  BY <1>1, <1>2 DEF TypeOK, SetPublic, YpLook, FreeSource, FreeLook, StageGoto, Found
<1>4. Listed'
  <2>1. ASSUME NEW n \in Mount, late'[n] = "no"
        PROVE  /\ late[n] = "no"
               /\ stage'[n] \in {"off", "removing", "unset"} =>
                     stage[n] \in {"off", "removing", "unset"}
               /\ stage'[n] \in {"adding", "public"} => stage[n] \in {"adding", "public"}
    <3>1. stage \in [Mount -> {"off", "adding", "public", "server", "nothing", "removing", "unset"}]
          /\ late \in [Mount -> {"no", "due", "server", "nothing"}]
      BY <1>2 DEF TypeOK
    <3>2. CASE SetPublic(m)
      BY <2>1, <3>1, <3>2 DEF SetPublic, StageGoto
    <3>3. CASE YpLook(m)
      BY <2>1, <3>1, <3>3 DEF YpLook, StageGoto, Found
    <3>4. CASE FreeSource(m)
      BY <2>1, <3>1, <3>4 DEF FreeSource, StageGoto
    <3>5. CASE FreeLook(m)
      BY <2>1, <3>1, <3>5 DEF FreeLook, Found
    <3> QED
      BY <3>2, <3>3, <3>4, <3>5
  <2> QED
    BY <1>1, <2>1, ListedKept DEF IInv
<1>5. PendingNew' /\ RemovedReleased'
  BY <1>1, ListsKept
<1>6. UpdateAnnounced' /\ MarkedPassed' /\ AtPosition'
  BY <1>1 DEF IInv, UpdateAnnounced, MarkedPassed, AtPosition
<1> QED
  BY <1>3, <1>4, <1>5, <1>6 DEF IInv

(* A reload of the configuration, and the shutdown *)
LEMMA ReloadInv == IInv /\ (ReloadWith \/ ReloadWithout \/ Announce \/ Shutdown) => IInv'
<1> SUFFICES ASSUME IInv, ReloadWith \/ ReloadWithout \/ Announce \/ Shutdown PROVE IInv'
  OBVIOUS
<1>1. /\ UNCHANGED <<stage, late, mounts, pending, yp, pos, dead, missed>>
      /\ server' = "active" <=> server = "active"
  BY DEF ReloadWith, ReloadWithout, Announce, Shutdown, sourceVars, serverVars, threadVars
<1>2. update => update'
  BY DEF ReloadWith, ReloadWithout, Announce, Shutdown
<1>3. TypeOK'
  BY <1>1 DEF IInv, TypeOK, ReloadWith, ReloadWithout, Announce, Shutdown, serverVars
<1>4. Listed'
  BY <1>1, ListedKept DEF IInv
<1>5. PendingNew' /\ RemovedReleased'
  BY <1>1, ListsKept
<1>6. UpdateAnnounced'
  BY DEF IInv, UpdateAnnounced, ReloadWith, ReloadWithout, Announce, Shutdown, serverVars
<1>7. MarkedPassed' /\ AtPosition'
  BY <1>1, <1>2 DEF IInv, MarkedPassed, AtPosition
<1> QED
  BY <1>3, <1>4, <1>5, <1>6, <1>7 DEF IInv

(* It ends. *)
LEMMA ThreadEndsInv == IInv /\ ThreadEnds => IInv'
<1> SUFFICES ASSUME IInv, ThreadEnds PROVE IInv'
  OBVIOUS
<1> USE DEF ThreadEnds, sourceVars
<1>1. Len(<<>>) = 0 /\ <<>> \in Seq(Entries) /\ DOMAIN <<>> = {}
  OBVIOUS
<1>2. TypeOK' /\ Listed' /\ UpdateAnnounced'
  BY <1>1 DEF IInv, TypeOK, Listed, UpdateAnnounced
<1>3. PendingNew' /\ RemovedReleased' /\ MarkedPassed' /\ AtPosition'
  BY <1>1 DEF PendingNew, RemovedReleased, MarkedPassed, AtPosition
<1> QED
  BY <1>2, <1>3 DEF IInv

----------------------------------------------------------------------------
(* Entries that are added and released *)

(* An entry in front of the ones that wait, or a mount that is missed. *)
LEMMA YpAddInv == ASSUME NEW m \in Mount PROVE IInv /\ YpAdd(m) => IInv'
<1> SUFFICES ASSUME IInv, YpAdd(m) PROVE IInv'
  OBVIOUS
<1>1. UNCHANGED <<late, server, marked, announce, mounts, yp, pos, dead, running>>
  BY DEF YpAdd, serverVars, threadVars
<1>2. TypeOK
  BY DEF IInv
<1>3. /\ stage' \in [Mount -> {"off", "adding", "public", "server", "nothing", "removing", "unset"}]
      /\ stage'[m] = "adding" /\ stage[m] \in {"off", "unset"}
      /\ \A n \in Mount : n # m => stage'[n] = stage[n]
  BY <1>2 DEF YpAdd, StageGoto, TypeOK
<1>4. missed \subseteq missed' /\ missed' \subseteq Mount /\ missed' \subseteq missed \cup {m}
  BY <1>2 DEF YpAdd, TypeOK
<1>5. mounts \in Seq(Entries) /\ pending \in Seq(Entries)
  BY <1>2 DEF TypeOK
<1>6. RemovedReleased' /\ AtPosition'
  BY <1>1 DEF IInv, RemovedReleased, AtPosition
<1>7. Of(mounts, m) = {i \in 1 .. Len(mounts) : mounts[i].mount = m}
  BY <1>5, SpotsCurrent
<1>8. CASE server = "active" /\ Of(mounts, m) = {}
  <2> DEFINE e == Entry(m, "later")
  <2>1. pending' = <<e>> \o pending /\ update' = TRUE
    BY <1>8 DEF YpAdd
  <2>2. /\ e \in Entries /\ Current(e) /\ e \in CurrentOf(m) /\ e.process = "add"
        /\ \A n \in Mount : n # m => e \notin CurrentOf(n)
    BY DEF Entry, Entries, Current, CurrentOf
  <2> HIDE DEF e
  <2>3. pending' \in Seq(Entries)
    BY <1>5, <2>1, <2>2, CountCons
  <2>4. TypeOK'
    BY <1>1, <1>2, <1>3, <1>4, <1>8, <2>1, <2>3 DEF TypeOK
  <2>5. Listed'
    <3>1. ASSUME NEW n \in Mount
          PROVE  /\ CurrentCount(n) \in Nat
                 /\ CurrentCount(n)' = CurrentCount(n) + (IF n = m THEN 1 ELSE 0)
      <4>1. Count(pending', CurrentOf(n)) =
              Count(pending, CurrentOf(n)) + (IF e \in CurrentOf(n) THEN 1 ELSE 0)
        BY <1>5, <2>1, <2>2, CountCons
      <4>2. Count(mounts', CurrentOf(n)) = Count(mounts, CurrentOf(n))
        BY <1>1
      <4>3. Count(mounts, CurrentOf(n)) \in Nat /\ Count(pending, CurrentOf(n)) \in Nat
        BY <1>2, CurrentType
      <4>4. e \in CurrentOf(n) <=> n = m
        BY <2>2
      <4> HIDE DEF CurrentOf
      <4> QED
        BY <4>1, <4>2, <4>3, <4>4 DEF CurrentCount
    <3>2. \A n \in Mount \ missed' : n \in Mount \ missed
      BY <1>4
    <3>3. Listed
      BY DEF IInv
    <3> QED
      BY <1>1, <1>3, <1>8, <3>1, <3>2, <3>3 DEF Listed
  <2>6. PendingNew'
    <3> DEFINE t == <<e>>
    <3>1. t \in Seq(Entries) /\ Len(t) = 1 /\ t[1] = e
      BY <2>2
    <3> HIDE DEF t
    <3>2. /\ Len(t \o pending) = Len(t) + Len(pending)
          /\ \A i \in 1 .. Len(t) : (t \o pending)[i] = t[i]
          /\ \A i \in Len(t) + 1 .. Len(t) + Len(pending) : (t \o pending)[i] = pending[i - Len(t)]
      <4>1. t \in Seq(Entries)
        BY <3>1
      <4> QED
        BY <1>5, <4>1, ConcatProperties
    <3>3. pending' = t \o pending
      BY <2>1 DEF t
    <3>4. ASSUME NEW i \in 1 .. 1 + Len(pending)
          PROVE  Current((t \o pending)[i]) /\ (t \o pending)[i].process = "add"
      <4>1. CASE i = 1
        BY <2>2, <3>1, <3>2, <4>1
      <4>2. CASE i # 1
        <5>1. i - 1 \in 1 .. Len(pending) /\ (t \o pending)[i] = pending[i - 1]
          BY <1>5, <3>1, <3>2, <4>2
        <5> QED
          BY <5>1 DEF IInv, PendingNew
      <4> QED
        BY <4>1, <4>2
    <3> QED
      BY <3>1, <3>2, <3>3, <3>4 DEF PendingNew
  <2>7. UpdateAnnounced' /\ MarkedPassed'
    BY <1>1, <2>1 DEF IInv, UpdateAnnounced, MarkedPassed
  <2> QED
    BY <1>6, <2>4, <2>5, <2>6, <2>7 DEF IInv
<1>9. CASE ~(server = "active" /\ Of(mounts, m) = {})
  <2>1. UNCHANGED <<pending, update>>
    BY <1>9 DEF YpAdd
  <2>2. TypeOK'
    BY <1>1, <1>2, <1>3, <1>4, <2>1 DEF TypeOK
  <2>3. Listed'
    <3>1. \A n : CurrentCount(n)' = CurrentCount(n)
      BY <1>1, <2>1 DEF CurrentCount
    <3>2. ASSUME server = "active", late[m] = "no", m \notin missed' PROVE FALSE
      <4>1. m \notin missed /\ \A i \in Of(mounts, m) : Current(mounts[i])
        BY <3>2 DEF YpAdd
      <4>2. CurrentCount(m) = 0
        BY <1>3, <3>2, <4>1 DEF IInv, Listed
      <4>3. Count(mounts, CurrentOf(m)) = 0 /\ IsFiniteSet(Spots(mounts, CurrentOf(m)))
        BY <1>2, <1>5, <4>2, CurrentType, CountType DEF CurrentCount
      <4>4. Spots(mounts, CurrentOf(m)) = {}
        BY <4>3, FS_EmptySet DEF Count
      <4>5. {i \in Of(mounts, m) : Current(mounts[i])} = {}
        BY <1>5, <4>4, SpotsCurrent
      <4> QED
        BY <1>9, <3>2, <4>1, <4>5
    <3> QED
      BY <1>1, <1>3, <1>4, <3>1, <3>2 DEF IInv, Listed
  <2>4. PendingNew' /\ UpdateAnnounced' /\ MarkedPassed'
    BY <1>1, <2>1 DEF IInv, PendingNew, UpdateAnnounced, MarkedPassed
  <2> QED
    BY <1>6, <2>2, <2>3, <2>4 DEF IInv
<1> QED
  BY <1>8, <1>9

(* Afterwards the mount has no current entry, or it is missed. *)
LEMMA ReleaseStep ==
    ASSUME IInv, NEW m \in Mount, NEW found, NEW wrongly \in BOOLEAN,
           ReleaseEntries(m, found, wrongly)
    PROVE  /\ mounts' \in Seq(Entries) /\ Len(mounts') = Len(mounts)
           /\ \A i \in 1 .. Len(mounts) :
                 /\ mounts'[i].sid = mounts[i].sid /\ mounts'[i].remove = mounts[i].remove
                 /\ mounts'[i].process = mounts[i].process
                 /\ mounts[i].release => mounts'[i].release
           /\ \A n \in Mount : n # m => CurrentCount(n)' = CurrentCount(n)
           /\ m \notin missed' => CurrentCount(m)' = 0 /\ ~wrongly
           /\ missed \subseteq missed' /\ missed' \subseteq missed \cup {m}
           /\ UNCHANGED <<server, marked, announce, pending, update, yp, pos, dead, running>>
<1>1. UNCHANGED <<server, marked, announce, pending, update, yp, pos, dead, running>>
  BY DEF ReleaseEntries, serverVars, threadVars
<1>2. /\ mounts \in Seq(Entries) /\ pending \in Seq(Entries) /\ DOMAIN mounts = 1 .. Len(mounts)
      /\ Len(mounts) \in Nat /\ \A i \in 1 .. Len(mounts) : mounts[i] \in Entries
  BY DEF IInv, TypeOK
<1>3. ASSUME NEW e \in Entries
      PROVE  /\ Released(e) \in Entries /\ ~Current(Released(e))
             /\ Released(e).sid = e.sid /\ Released(e).remove = e.remove
             /\ Released(e).process = e.process /\ Released(e).release
             /\ Released(e).mount = e.mount
  BY DEF Released, Entries, Current
<1>4. \A i \in 1 .. Len(mounts) : mounts'[i] =
        IF found = "server" /\ mounts[i].mount = m /\ Current(mounts[i])
        THEN Released(mounts[i]) ELSE mounts[i]
  BY <1>2 DEF ReleaseEntries
<1>5. mounts' \in Seq(Entries) /\ Len(mounts') = Len(mounts)
  <2> DEFINE k == Len(mounts)
  <2>1. mounts' = [i \in 1 .. k |-> mounts'[i]]
    BY <1>2 DEF ReleaseEntries
  <2>2. \A i \in 1 .. k : mounts'[i] \in Entries
    BY <1>2, <1>3, <1>4
  <2>3. k \in Nat
    BY <1>2
  <2> HIDE DEF k
  <2>4. mounts' \in [1 .. k -> Entries]
    BY <2>1, <2>2
  <2>5. mounts' \in Seq(Entries) /\ Len(mounts') = k
    BY <2>3, <2>4
  <2> QED
    BY <2>5 DEF k
<1>6. ASSUME NEW i \in 1 .. Len(mounts)
      PROVE  /\ mounts'[i].sid = mounts[i].sid /\ mounts'[i].remove = mounts[i].remove
             /\ mounts'[i].process = mounts[i].process
             /\ mounts[i].release => mounts'[i].release
             /\ mounts'[i].mount = mounts[i].mount
  BY <1>2, <1>3, <1>4
<1>7. ASSUME NEW n \in Mount, n # m
      PROVE  CurrentCount(n)' = CurrentCount(n)
  <2>1. \A i \in 1 .. Len(mounts') : mounts'[i] \in CurrentOf(n) <=> mounts[i] \in CurrentOf(n)
    BY <1>2, <1>3, <1>4, <1>5, <1>7 DEF CurrentOf
  <2>2. Count(mounts', CurrentOf(n)) = Count(mounts, CurrentOf(n))
    BY <1>5, <2>1, CountSame
  <2> QED
    BY <1>1, <2>2 DEF CurrentCount
<1>8. ASSUME m \notin missed'
      PROVE  CurrentCount(m)' = 0 /\ ~wrongly
  <2>1. ~wrongly /\ Of(pending, m) = {} /\ \A i \in Of(mounts, m) : ~Current(mounts'[i])
    BY <1>8 DEF ReleaseEntries
  <2>2. Spots(pending, CurrentOf(m)) = {}
    BY <1>2, <2>1, SpotsCurrent DEF IInv, PendingNew
  <2>3. /\ Of(mounts, m) = {i \in 1 .. Len(mounts) : mounts[i].mount = m}
        /\ Of(mounts', m) = {i \in 1 .. Len(mounts) : mounts'[i].mount = m}
    BY <1>2, <1>5, SpotsCurrent
  <2>4. Of(mounts', m) = Of(mounts, m)
    BY <1>6, <2>3
  <2>5. Spots(mounts', CurrentOf(m)) = {}
    BY <1>5, <2>1, <2>4, SpotsCurrent
  <2>6. Count(mounts', CurrentOf(m)) = 0 /\ Count(pending', CurrentOf(m)) = 0
    BY <1>1, <2>2, <2>5, FS_EmptySet DEF Count
  <2> QED
    BY <2>1, <2>6 DEF CurrentCount
<1>9. missed \subseteq missed' /\ missed' \subseteq missed \cup {m}
  BY DEF ReleaseEntries
<1> QED
  BY <1>1, <1>5, <1>6, <1>7, <1>8, <1>9

(* yp_remove of a source, and of one that was freed *)
LEMMA RemoveInv ==
    ASSUME NEW m \in Mount
    PROVE  IInv /\ (YpRemove(m) \/ FreeRemove(m)) => IInv'
<1> SUFFICES ASSUME IInv, YpRemove(m) \/ FreeRemove(m) PROVE IInv'
  OBVIOUS
<1> DEFINE found == IF YpRemove(m) THEN stage[m] ELSE late[m]
           wrongly == ~YpRemove(m) /\ stage[m] # "off"
<1>1. ReleaseEntries(m, found, wrongly) /\ wrongly \in BOOLEAN
  <2>1. CASE YpRemove(m)
    <3>1. found = stage[m] /\ wrongly = FALSE
      BY <2>1
    <3> QED
      BY <2>1, <3>1 DEF YpRemove
  <2>2. CASE ~YpRemove(m)
    <3>1. found = late[m] /\ wrongly = (stage[m] # "off") /\ FreeRemove(m)
      BY <2>2
    <3> QED
      BY <3>1 DEF FreeRemove
  <2> QED
    BY <2>1, <2>2
<1>2. TypeOK
  BY DEF IInv
<1>3. /\ stage' \in [Mount -> {"off", "adding", "public", "server", "nothing", "removing", "unset"}]
      /\ late' \in [Mount -> {"no", "due", "server", "nothing"}]
      /\ \A n \in Mount : n # m => stage'[n] = stage[n] /\ late'[n] = late[n]
  BY <1>2 DEF TypeOK, YpRemove, FreeRemove, StageGoto
<1>4. ~wrongly => stage'[m] \in {"removing", "off"}
  BY <1>2 DEF TypeOK, YpRemove, FreeRemove, StageGoto
<1> HIDE DEF found, wrongly
<1>5. /\ mounts' \in Seq(Entries) /\ Len(mounts') = Len(mounts)
      /\ \A i \in 1 .. Len(mounts) :
            /\ mounts'[i].sid = mounts[i].sid /\ mounts'[i].remove = mounts[i].remove
            /\ mounts'[i].process = mounts[i].process
            /\ mounts[i].release => mounts'[i].release
      /\ \A n \in Mount : n # m => CurrentCount(n)' = CurrentCount(n)
      /\ m \notin missed' => CurrentCount(m)' = 0 /\ ~wrongly
      /\ missed \subseteq missed' /\ missed' \subseteq missed \cup {m}
      /\ UNCHANGED <<server, marked, announce, pending, update, yp, pos, dead, running>>
  BY <1>1, ReleaseStep
<1>6. mounts \in Seq(Entries) /\ DOMAIN mounts = 1 .. Len(mounts) /\ DOMAIN mounts' = 1 .. Len(mounts)
  BY <1>2, <1>5 DEF TypeOK
<1>7. TypeOK'
  <2>1. server # "active" => mounts' = <<>>
    BY <1>2, <1>5, <1>6 DEF TypeOK
  <2> QED
    BY <1>2, <1>3, <1>5, <2>1 DEF TypeOK
<1>8. Listed'
  BY <1>3, <1>4, <1>5 DEF IInv, Listed
<1>9. PendingNew' /\ RemovedReleased' /\ UpdateAnnounced'
  BY <1>5, <1>6 DEF IInv, PendingNew, RemovedReleased, UpdateAnnounced
<1>10. MarkedPassed' /\ AtPosition'
  BY <1>5 DEF IInv, MarkedPassed, AtPosition
<1> QED
  BY <1>7, <1>8, <1>9, <1>10 DEF IInv

----------------------------------------------------------------------------
(* The update of the lists *)

(* A server that is taken up has one entry of each source it sees. *)
LEMMA NewServerInv == IInv /\ UpdateLists /\ server = "pending" => IInv'
<1> SUFFICES ASSUME IInv, UpdateLists, server = "pending" PROVE IInv'
  OBVIOUS
<1> DEFINE S == {Entry(m, "ever") : m \in Visible}
<1>1. TypeOK
  BY DEF IInv
<1>2. /\ server' = "active" /\ marked' = FALSE /\ update' = FALSE /\ pending' = <<>>
      /\ yp' = "idle" /\ missed' = Halfway /\ UNCHANGED <<stage, late, announce, pos, dead, running>>
  BY DEF UpdateLists, CheckServers
<1>3. mounts' = SetToSeq(S)
  BY <1>2 DEF UpdateLists
<1>4. \A m \in Mount : /\ Entry(m, "ever") \in Entries /\ Entry(m, "ever") \in CurrentOf(m)
                       /\ Entry(m, "ever").mount = m /\ Entry(m, "ever").process = "add"
                       /\ ~Entry(m, "ever").remove
  BY DEF Entry, Entries, CurrentOf, Current
<1>5. S \subseteq Entries /\ IsFiniteSet(S)
  <2>1. IsFiniteSet(Mount) /\ Visible \in SUBSET Mount
    BY DirectoryAssumption DEF Visible
  <2>2. IsFiniteSet(Visible)
    BY <2>1, FS_Subset
  <2>3. IsFiniteSet(S)
    <3> DEFINE f == [m \in Visible |-> Entry(m, "ever")]
    <3>1. f \in Surjection(Visible, S)
      BY DEF Surjection
    <3> HIDE DEF f, S
    <3> QED
      BY <2>2, <3>1, FS_Surjection
  <2> QED
    BY <1>4, <2>1, <2>3
<1>6. ASSUME NEW m \in Mount
      PROVE  Count(mounts', CurrentOf(m)) = IF m \in Visible THEN 1 ELSE 0
  <2> DEFINE e == Entry(m, "ever")
             C == CurrentOf(m)
  <2>1. S \cap C \subseteq {e}
    BY <1>4 DEF Visible, CurrentOf
  <2>2. e \in S \cap C <=> m \in Visible
    BY <1>4 DEF Visible
  <2> HIDE DEF S, C, e
  <2>3. Count(SetToSeq(S), C) = IF e \in S \cap C THEN 1 ELSE 0
    BY <1>5, <2>1, Enumerated
  <2> QED
    BY <1>3, <2>2, <2>3 DEF C
<1>7. mounts' \in Seq(Entries) /\ \A i \in 1 .. Len(mounts') : mounts'[i] \in S
  <2> HIDE DEF S
  <2> QED
    BY <1>3, <1>5, Enumerated
<1>8. Len(<<>>) = 0 /\ <<>> \in Seq(Entries) /\ \A C : Count(<<>>, C) = 0
  <2>1. Len(<<>>) = 0 /\ <<>> \in Seq(Entries)
    OBVIOUS
  <2>2. \A C : Spots(<<>>, C) = {}
    BY <2>1 DEF Spots
  <2> QED
    BY <2>1, <2>2, FS_EmptySet DEF Count
<1>9. TypeOK'
  BY <1>1, <1>2, <1>7, <1>8 DEF TypeOK, Halfway
<1>10. Listed'
  <2>1. ASSUME NEW m \in Mount PROVE CurrentCount(m)' = IF m \in Visible THEN 1 ELSE 0
    BY <1>2, <1>6, <1>8 DEF CurrentCount
  <2> QED
    BY <1>2, <2>1 DEF Listed, Halfway, Visible
<1>11. \A i \in 1 .. Len(mounts') : ~mounts'[i].remove /\ mounts'[i].process = "add"
  BY <1>4, <1>7 DEF Visible
<1>12. UpdateAnnounced'
  BY <1>2, <1>7, <1>11 DEF UpdateAnnounced
<1>13. PendingNew' /\ RemovedReleased' /\ MarkedPassed' /\ AtPosition'
  BY <1>2, <1>8, <1>11 DEF PendingNew, RemovedReleased, MarkedPassed, AtPosition
<1> QED
  BY <1>9, <1>10, <1>12, <1>13 DEF IInv

(* A server that was marked goes with all its entries. *)
LEMMA NoServerInv == IInv /\ UpdateLists /\ server' = "none" => IInv'
<1> SUFFICES ASSUME IInv, UpdateLists, server' = "none" PROVE IInv'
  OBVIOUS
<1>1. TypeOK
  BY DEF IInv
<1>2. /\ marked' = FALSE /\ update' = FALSE /\ pending' = <<>> /\ mounts' = <<>>
      /\ yp' = "idle" /\ missed' = {} /\ UNCHANGED <<announce, pos, dead, running>>
      /\ stage' = Orphaned(stage) /\ late' = Orphaned(late)
  BY DEF UpdateLists, CheckServers
<1>3. Len(<<>>) = 0 /\ <<>> \in Seq(Entries) /\ DOMAIN <<>> = {}
  OBVIOUS
<1>4. TypeOK'
  BY <1>1, <1>2, <1>3 DEF TypeOK, Orphaned
<1>5. Listed' /\ UpdateAnnounced'
  BY <1>2, <1>3 DEF Listed, UpdateAnnounced
<1>6. PendingNew' /\ RemovedReleased' /\ MarkedPassed' /\ AtPosition'
  BY <1>2, <1>3 DEF PendingNew, RemovedReleased, MarkedPassed, AtPosition
<1> QED
  BY <1>4, <1>5, <1>6 DEF IInv

(* What becomes of the lists of a server that stays *)
LEMMA UpdateStep ==
    ASSUME IInv, UpdateLists, server = "active", server' # "none"
    PROVE  /\ UNCHANGED <<stage, late, server, announce, pos, dead, running, missed>>
           /\ marked' = FALSE /\ update' = FALSE /\ pending' = <<>> /\ yp' = "idle"
           /\ mounts' = DeleteMarked(pending \o mounts) /\ mounts' \in Seq(Entries)
           /\ \A i \in 1 .. Len(mounts') :
                 /\ ~mounts'[i].remove
                 /\ mounts'[i].process = "remove" => mounts'[i].release
<1>1. /\ UNCHANGED <<stage, late, server, announce, pos, dead, running, missed>>
      /\ marked' = FALSE /\ update' = FALSE /\ pending' = <<>> /\ yp' = "idle"
      /\ mounts' = DeleteMarked(pending \o mounts)
  BY DEF UpdateLists, CheckServers, AddPending
<1> DEFINE list == pending \o mounts
<1>2. mounts \in Seq(Entries) /\ pending \in Seq(Entries)
  BY DEF IInv, TypeOK
<1>3. /\ list \in Seq(Entries) /\ Len(list) = Len(pending) + Len(mounts)
      /\ \A i \in 1 .. Len(pending) : list[i] = pending[i]
      /\ \A i \in Len(pending) + 1 .. Len(pending) + Len(mounts) : list[i] = mounts[i - Len(pending)]
  BY <1>2, ConcatProperties
<1>4. ASSUME NEW i \in 1 .. Len(list) PROVE list[i].process = "remove" => list[i].release
  <2>1. CASE i \in 1 .. Len(pending)
    BY <1>3, <2>1 DEF IInv, PendingNew
  <2>2. CASE i \notin 1 .. Len(pending)
    <3>1. i - Len(pending) \in 1 .. Len(mounts) /\ list[i] = mounts[i - Len(pending)]
      BY <1>2, <1>3, <2>2
    <3> QED
      BY <3>1 DEF IInv, RemovedReleased
  <2> QED
    BY <2>1, <2>2
<1> HIDE DEF list
<1>5. mounts' = DeleteMarked(list)
  BY <1>1 DEF list
<1>6. mounts' \in Seq(Entries)
  BY <1>3, <1>5, DeletedStands
<1>7. PICK h : Stands(h, list, Len(list), mounts')
  BY <1>3, <1>5, DeletedStands
<1>8. ASSUME NEW i \in 1 .. Len(mounts')
      PROVE  ~mounts'[i].remove /\ (mounts'[i].process = "remove" => mounts'[i].release)
  <2>1. h[i] \in 1 .. Len(list) /\ mounts'[i] = list[h[i]] /\ Kept(list[h[i]])
    BY <1>7 DEF Stands
  <2> QED
    BY <1>4, <2>1 DEF Kept
<1> QED
  BY <1>1, <1>6, <1>8

(* Entries are added and freed while the server stays. *)
LEMMA UpdateInv == IInv /\ UpdateLists /\ server = "active" /\ server' # "none" => IInv'
<1> SUFFICES ASSUME IInv, UpdateLists, server = "active", server' # "none" PROVE IInv'
  OBVIOUS
<1>1. /\ UNCHANGED <<stage, late, server, announce, pos, dead, running, missed>>
      /\ marked' = FALSE /\ update' = FALSE /\ pending' = <<>> /\ yp' = "idle"
      /\ mounts' = DeleteMarked(pending \o mounts) /\ mounts' \in Seq(Entries)
      /\ \A i \in 1 .. Len(mounts') :
            /\ ~mounts'[i].remove
            /\ mounts'[i].process = "remove" => mounts'[i].release
  BY UpdateStep
<1>2. TypeOK
  BY DEF IInv
<1>3. Len(<<>>) = 0 /\ <<>> \in Seq(Entries) /\ DOMAIN mounts' = 1 .. Len(mounts')
  BY <1>1
<1>4. TypeOK'
  BY <1>1, <1>2, <1>3 DEF TypeOK
<1>5. Listed'
  <2>1. ASSUME NEW m PROVE CurrentCount(m)' = CurrentCount(m)
    <3> DEFINE C == CurrentOf(m)
    <3>1. \A e \in C : Kept(e)
      BY DEF CurrentOf, Current, Kept
    <3>2. mounts \in Seq(Entries) /\ pending \in Seq(Entries)
      BY <1>2 DEF TypeOK
    <3>3. pending \o mounts \in Seq(Entries)
      BY <3>2, ConcatProperties
    <3> HIDE DEF C
    <3>4. Count(mounts', C) = Count(pending \o mounts, C)
      BY <1>1, <3>1, <3>3, CountDeleted
    <3>5. Count(pending \o mounts, C) = Count(pending, C) + Count(mounts, C)
      BY <3>2, CountConcat
    <3>6. Count(pending', C) = 0
      <4>1. Spots(pending', C) = {}
        BY <1>1, <1>3 DEF Spots
      <4> QED
        BY <4>1, FS_EmptySet DEF Count
    <3>7. Count(pending, C) \in Nat /\ Count(mounts, C) \in Nat
      BY <3>2, CountType
    <3>8. Count(mounts', C) + Count(pending', C) = Count(mounts, C) + Count(pending, C)
      BY <3>4, <3>5, <3>6, <3>7
    <3> QED
      BY <3>8 DEF CurrentCount, C
  <2> QED
    BY <1>1, <2>1 DEF IInv, Listed
<1>6. UpdateAnnounced'
  BY <1>1, <1>3 DEF UpdateAnnounced
<1>7. PendingNew' /\ RemovedReleased' /\ MarkedPassed' /\ AtPosition'
  BY <1>1, <1>3 DEF PendingNew, RemovedReleased, MarkedPassed, AtPosition
<1> QED
  BY <1>4, <1>5, <1>6, <1>7 DEF IInv

(* The lists are brought up to date. *)
LEMMA UpdateListsInv == IInv /\ UpdateLists => IInv'
<1> SUFFICES ASSUME IInv, UpdateLists PROVE IInv'
  OBVIOUS
<1>1. server = "pending" \/ server' = "none" \/ (server = "active" /\ server' # "none")
  BY DEF IInv, TypeOK, UpdateLists, CheckServers
<1> QED
  BY <1>1, NewServerInv, NoServerInv, UpdateInv

----------------------------------------------------------------------------
(* The invariant holds in every reachable state. *)
LEMMA NextInv == IInv /\ [Next]_vars => IInv'
<1> SUFFICES ASSUME IInv, [Next]_vars PROVE IInv'
  OBVIOUS
<1>1. CASE UNCHANGED vars
  <2>1. UNCHANGED <<stage, late, server, marked, announce, mounts, pending, update, yp, pos, dead,
                    running, missed>>
    BY <1>1 DEF vars, sourceVars, serverVars, threadVars
  <2>2. \A m : CurrentCount(m)' = CurrentCount(m)
    BY <2>1 DEF CurrentCount
  <2>3. TypeOK' /\ Listed' /\ UpdateAnnounced'
    BY <2>1, <2>2 DEF IInv, TypeOK, Listed, UpdateAnnounced
  <2>4. PendingNew' /\ RemovedReleased' /\ MarkedPassed' /\ AtPosition'
    BY <2>1 DEF IInv, PendingNew, RemovedReleased, MarkedPassed, AtPosition
  <2> QED
    BY <2>3, <2>4 DEF IInv
<1>2. ASSUME NEW m \in Mount,
             YpAdd(m) \/ YpRemove(m) \/ SetPublic(m) \/ YpLook(m) \/ FreeSource(m)
               \/ FreeLook(m) \/ FreeRemove(m)
      PROVE  IInv'
  BY <1>2, YpAddInv, RemoveInv, StagesInv
<1>3. CASE ReloadWith \/ ReloadWithout \/ Announce \/ Shutdown
  BY <1>3, ReloadInv
<1>4. CASE Thread
  <2>1. CASE \E a \in Answers : Answer(a)
    BY <2>1, AnswerInv
  <2>2. CASE BeginPass \/ SkipEntry \/ LeaveEntry \/ ForgetEntry \/ Ask
    BY <2>2, BeginPassInv, SkipEntryInv, LeaveEntryInv, ForgetEntryInv, AskInv
  <2>3. CASE EndPass \/ NothingNew \/ UpdateLists \/ ThreadEnds
    BY <2>3, EndPassInv, NothingNewInv, UpdateListsInv, ThreadEndsInv
  <2> QED
    BY <1>4, <2>1, <2>2, <2>3 DEF Thread
<1>5. ASSUME NEW m \in Mount, NEW release \in BOOLEAN, Time(m, release) PROVE IInv'
  BY <1>5, TimeInv
<1> QED
  BY <1>1, <1>2, <1>3, <1>4, <1>5 DEF Next

(* The invariant holds in every state of every behaviour. *)
LEMMA Invariance == Spec => []IInv
<1> QED
  BY InitInv, NextInv, PTL DEF Spec

(* Every variable has its type, and only a server in use has entries. *)
THEOREM TypeCorrect == Spec => []TypeOK
<1>1. IInv => TypeOK
  BY DEF IInv
<1> QED
  BY <1>1, Invariance, PTL

(* A stream is listed once while it is public and not afterwards, unless a *)
(* change passed it by: yp_add, yp_remove, the talk with the directory and *)
(* the update of the lists keep the two lists of entries in step with the  *)
(* sources.                                                                *)
THEOREM EntriesMatch == Spec => []Match
<1>1. IInv => Match
  BY ListedMatch DEF IInv
<1> QED
  BY <1>1, Invariance, PTL

(* Whatever waits for the next update of the lists is announced: yp_update *)
(* is set, or about to be, when there are pending entries, a pending       *)
(* server, one that is marked, or an entry that is.                        *)
THEOREM ChangesAnnounced == Spec => []UpdateAnnounced
<1>1. IInv => UpdateAnnounced
  BY DEF IInv
<1> QED
  BY <1>1, Invariance, PTL

----------------------------------------------------------------------------
(* Sessions *)

(* An entry with a session is not marked. *)
InSession == {e \in Entries : e.sid /\ ~e.remove}

(* The sessions are the entries that are in session. *)
LEMMA SessionCount == IInv => Sessions = Count(mounts, InSession) /\ Sessions \in Nat
<1> SUFFICES ASSUME IInv PROVE Sessions = Count(mounts, InSession) /\ Sessions \in Nat
  OBVIOUS
<1>1. /\ mounts \in Seq(Entries) /\ DOMAIN mounts = 1 .. Len(mounts)
      /\ \A i \in 1 .. Len(mounts) : mounts[i] \in Entries
  BY DEF IInv, TypeOK
<1>2. {i \in DOMAIN mounts : mounts[i].sid} = Spots(mounts, InSession)
  BY <1>1 DEF IInv, MarkedPassed, Spots, InSession
<1>3. Count(mounts, InSession) \in Nat
  BY <1>1, CountType
<1> QED
  BY <1>2, <1>3 DEF Sessions, Count

(* An entry is changed and its session is not. *)
LEMMA EntrySession ==
    ASSUME IInv, IInv', NEW k \in 1 .. Len(mounts), NEW e,
           mounts' = [mounts EXCEPT ![k] = e], e.sid = mounts[k].sid
    PROVE  Sessions' = Sessions
<1>1. mounts \in Seq(Entries) /\ mounts' \in Seq(Entries) /\ DOMAIN mounts = 1 .. Len(mounts)
  BY DEF IInv, TypeOK
<1>2. DOMAIN mounts' = DOMAIN mounts /\ \A i \in DOMAIN mounts : mounts'[i].sid = mounts[i].sid
  BY <1>1
<1>3. {i \in DOMAIN mounts' : mounts'[i].sid} = {i \in DOMAIN mounts : mounts[i].sid}
  BY <1>2
<1> QED
  BY <1>3 DEF Sessions

(* Only an answer of the directory, or the end of the server, takes one.   *)
LEMMA SessionStep ==
    ASSUME IInv, IInv', Next, yp # "wait", server' = "active"
    PROVE  Sessions' >= Sessions
<1>1. Sessions = Count(mounts, InSession) /\ Sessions' = Count(mounts', InSession)
      /\ Sessions \in Nat /\ Sessions' \in Nat
  <2>1. IInv => Sessions = Count(mounts, InSession) /\ Sessions \in Nat
    BY SessionCount
  <2>2. (IInv => Sessions = Count(mounts, InSession) /\ Sessions \in Nat)'
    BY SessionCount, PTL
  <2>3. InSession' = InSession
    BY DEF InSession, Entries
  <2> QED
    BY <2>1, <2>2, <2>3
<1>2. CASE UNCHANGED mounts
  BY <1>1, <1>2 DEF Sessions
<1>3. mounts \in Seq(Entries) /\ Len(mounts) \in Nat /\ DOMAIN mounts = 1 .. Len(mounts)
  BY DEF IInv, TypeOK
<1>4. AtEntry => pos \in 1 .. Len(mounts)
  BY DEF AtEntry, IInv, TypeOK, AtPosition
<1>5. CASE SkipEntry \/ Ask \/ ForgetEntry
  <2> DEFINE old == mounts[pos]
  <2>1. pos \in 1 .. Len(mounts) /\ old \in Entries
    BY <1>3, <1>4, <1>5 DEF SkipEntry, Ask, ForgetEntry
  <2>2. \E e : mounts' = [mounts EXCEPT ![pos] = e] /\ e.sid = old.sid
    <3>1. CASE SkipEntry
      <4> DEFINE e == [old EXCEPT !.process = "add",
                                  !.due = IF old.due = "ever" THEN "ever" ELSE "later"]
      <4>1. mounts' = [mounts EXCEPT ![pos] = e] /\ e.sid = old.sid
        BY <1>3, <2>1, <3>1 DEF SkipEntry, Entries
      <4> QED
        BY <4>1
    <3>2. CASE Ask
      <4> DEFINE e == [old EXCEPT !.process = WhatNext(old)]
      <4>1. mounts' = [mounts EXCEPT ![pos] = e] /\ e.sid = old.sid
        BY <1>3, <2>1, <3>2 DEF Ask, Entries
      <4> QED
        BY <4>1
    <3>3. CASE ForgetEntry
      <4>1. mounts' = [mounts EXCEPT ![pos] = Forgotten(old)] /\ Forgotten(old).sid = old.sid
        BY <2>1, <3>3 DEF ForgetEntry, Mark, Forgotten, Entries
      <4> QED
        BY <4>1
    <3> QED
      BY <1>5, <3>1, <3>2, <3>3
  <2>3. Sessions' = Sessions
    BY <2>1, <2>2, EntrySession
  <2> QED
    BY <1>1, <2>3
<1>6. ASSUME NEW m \in Mount, NEW release \in BOOLEAN, Time(m, release)
      PROVE  Sessions' >= Sessions
  <2>1. PICK k \in 1 .. Len(mounts) : mounts' = [mounts EXCEPT ![k].due = "now"]
    BY <1>3, <1>6 DEF Time, Of
  <2> DEFINE e == [mounts[k] EXCEPT !.due = "now"]
  <2>2. mounts[k] \in Entries
    BY <1>3
  <2>3. mounts' = [mounts EXCEPT ![k] = e] /\ e.sid = mounts[k].sid
    BY <2>1, <2>2 DEF Entries
  <2>4. Sessions' = Sessions
    BY <2>3, EntrySession
  <2> QED
    BY <1>1, <2>4
<1>7. ASSUME NEW m \in Mount, YpRemove(m) \/ FreeRemove(m)
      PROVE  Sessions' >= Sessions
  <2>1. \E found, wrongly : wrongly \in BOOLEAN /\ ReleaseEntries(m, found, wrongly)
    BY <1>7 DEF YpRemove, FreeRemove
  <2>2. PICK found, wrongly : wrongly \in BOOLEAN /\ ReleaseEntries(m, found, wrongly)
    BY <2>1
  <2>3. /\ mounts' \in Seq(Entries) /\ Len(mounts') = Len(mounts)
        /\ \A i \in 1 .. Len(mounts) : mounts'[i].sid = mounts[i].sid
    BY <2>2, ReleaseStep
  <2>4. {i \in DOMAIN mounts' : mounts'[i].sid} = {i \in DOMAIN mounts : mounts[i].sid}
    BY <1>3, <2>3
  <2>5. Sessions' = Sessions
    BY <2>4 DEF Sessions
  <2> QED
    BY <1>1, <2>5
<1>8. CASE UpdateLists
  <2>1. server \in {"pending", "active"}
    BY <1>8 DEF UpdateLists, CheckServers, IInv, TypeOK
  <2>2. CASE server = "pending"
    <3>1. mounts = <<>>
      BY <2>2 DEF IInv, TypeOK
    <3>2. {i \in DOMAIN mounts : mounts[i].sid} = {}
      BY <3>1
    <3>3. Sessions = 0
      BY <3>2, FS_EmptySet DEF Sessions
    <3> QED
      BY <1>1, <3>3
  <2>3. CASE server = "active"
    <3>1. mounts' = DeleteMarked(pending \o mounts)
      BY <1>8, <2>3, UpdateStep
    <3>2. pending \in Seq(Entries) /\ \A e \in InSession : Kept(e)
      BY DEF IInv, TypeOK, InSession, Kept
    <3>3. pending \o mounts \in Seq(Entries)
      BY <1>3, <3>2, ConcatProperties
    <3>4. Count(mounts', InSession) = Count(pending \o mounts, InSession)
      BY <3>1, <3>2, <3>3, CountDeleted
    <3>5. Count(pending \o mounts, InSession) = Count(pending, InSession) + Count(mounts, InSession)
      BY <1>3, <3>2, CountConcat
    <3>6. Count(pending, InSession) \in Nat
      BY <3>2, CountType
    <3> QED
      BY <1>1, <3>4, <3>5, <3>6
  <2> QED
    BY <2>1, <2>2, <2>3
<1>9. \A a : ~Answer(a)
  BY DEF Answer
<1>10. ~ThreadEnds
  BY DEF ThreadEnds
<1>11. CASE BeginPass \/ LeaveEntry \/ EndPass \/ NothingNew
  BY <1>2, <1>11 DEF BeginPass, LeaveEntry, EndPass, NothingNew
<1>12. CASE ReloadWith \/ ReloadWithout \/ Announce \/ Shutdown
  BY <1>2, <1>12 DEF ReloadWith, ReloadWithout, Announce, Shutdown
<1>13. ASSUME NEW m \in Mount, YpAdd(m) \/ SetPublic(m) \/ YpLook(m) \/ FreeSource(m) \/ FreeLook(m)
       PROVE  Sessions' >= Sessions
  BY <1>2, <1>13 DEF YpAdd, SetPublic, YpLook, FreeSource, FreeLook
<1> QED
  BY <1>5, <1>6, <1>7, <1>8, <1>9, <1>10, <1>11, <1>12, <1>13 DEF Next, Thread

(* A session is given up only on an answer of the directory, or with the   *)
(* server itself: not when an entry is released, skipped, marked or        *)
(* deleted, nor when the lists are put together.                           *)
THEOREM SessionsAreKept == Spec => SessionsKept
<1>1. IInv /\ IInv' /\ [Next]_vars => [yp # "wait" /\ server' = "active" => Sessions' >= Sessions]_vars
  BY SessionStep
<1> QED
  BY <1>1, Invariance, PTL DEF Spec, SessionsKept
=============================================================================
