-------------------------- MODULE FileServeProofs --------------------------
(***************************************************************************)
(* Proofs about FileServe: each client of the file serving engine is in    *)
(* one of its two lists, once, and at most one thread works on them, for   *)
(* any number of clients, threads and buffers.                             *)
(***************************************************************************)
EXTENDS FileServe, SequenceTheorems, FiniteSetTheorems, TLAPS

----------------------------------------------------------------------------
(* Lists without repetition *)

(* No element of the list occurs twice. *)
Distinct(s) == \A i, j \in 1 .. Len(s) : s[i] = s[j] => i = j

(* A list is put in front of another one. *)
LEMMA DistinctConcat ==
    ASSUME NEW S, NEW s \in Seq(S), NEW t \in Seq(S),
           Distinct(s), Distinct(t), Range(s) \cap Range(t) = {}
    PROVE  /\ s \o t \in Seq(S)
           /\ Len(s \o t) = Len(s) + Len(t)
           /\ Range(s \o t) = Range(s) \cup Range(t)
           /\ Distinct(s \o t)
<1>1. /\ s \o t \in Seq(S)
      /\ Len(s \o t) = Len(s) + Len(t)
      /\ \A i \in 1 .. Len(s) + Len(t) : (s \o t)[i] =
             IF i <= Len(s) THEN s[i] ELSE t[i - Len(s)]
  BY ConcatProperties
<1>2. Range(s \o t) = Range(s) \cup Range(t)
  BY RangeConcatenation
<1>3. \A i \in 1 .. Len(s), j \in 1 .. Len(t) : s[i] # t[j]
  <2>1. Range(s) = {s[i] : i \in 1 .. Len(s)}
    BY RangeEquality
  <2>2. Range(t) = {t[i] : i \in 1 .. Len(t)}
    BY RangeEquality
  <2>3. ASSUME NEW i \in 1 .. Len(s), NEW j \in 1 .. Len(t), s[i] = t[j]
        PROVE  FALSE
    <3>1. s[i] \in Range(s)
      BY <2>1
    <3>2. t[j] \in Range(t)
      BY <2>2
    <3> QED
      BY <2>3, <3>1, <3>2
  <2> QED
    BY <2>3
<1>4. Len(s) \in Nat /\ Len(t) \in Nat
  BY LenProperties
<1>5. ASSUME NEW i \in 1 .. Len(s) + Len(t), NEW j \in 1 .. Len(s) + Len(t),
             (s \o t)[i] = (s \o t)[j]
      PROVE  i = j
  <2>1. CASE i <= Len(s) /\ j <= Len(s)
    BY <1>1, <1>4, <1>5, <2>1 DEF Distinct
  <2>2. CASE i <= Len(s) /\ ~(j <= Len(s))
    <3>1. j - Len(s) \in 1 .. Len(t) /\ i \in 1 .. Len(s)
      BY <1>4, <2>2
    <3> QED
      BY <1>1, <1>3, <1>5, <2>2, <3>1
  <2>3. CASE ~(i <= Len(s)) /\ j <= Len(s)
    <3>1. i - Len(s) \in 1 .. Len(t) /\ j \in 1 .. Len(s)
      BY <1>4, <2>3
    <3> QED
      BY <1>1, <1>3, <1>5, <2>3, <3>1
  <2>4. CASE ~(i <= Len(s)) /\ ~(j <= Len(s))
    <3>1. i - Len(s) \in 1 .. Len(t) /\ j - Len(s) \in 1 .. Len(t)
      BY <1>4, <2>4
    <3>2. t[i - Len(s)] = t[j - Len(s)]
      BY <1>1, <1>5, <2>4
    <3>3. i - Len(s) = j - Len(s)
      BY <3>1, <3>2 DEF Distinct
    <3> QED
      BY <1>4, <3>3
  <2> QED
    BY <2>1, <2>2, <2>3, <2>4
<1> QED
  BY <1>1, <1>2, <1>5 DEF Distinct

(* An element is put in front of a list. *)
LEMMA DistinctCons ==
    ASSUME NEW S, NEW s \in Seq(S), NEW e \in S, Distinct(s), e \notin Range(s)
    PROVE  /\ <<e>> \o s \in Seq(S)
           /\ Range(<<e>> \o s) = Range(s) \cup {e}
           /\ Distinct(<<e>> \o s)
<1> DEFINE q == <<e>>
<1>1. q \in Seq(S) /\ Len(q) = 1 /\ q[1] = e
  OBVIOUS
<1> HIDE DEF q
<1>2. Range(q) = {q[i] : i \in 1 .. 1}
  BY <1>1, RangeEquality
<1>3. Distinct(q) /\ Range(q) = {e}
  BY <1>1, <1>2 DEF Distinct
<1>4. Range(q) \cap Range(s) = {}
  BY <1>3
<1>5. q \o s \in Seq(S) /\ Range(q \o s) = Range(q) \cup Range(s) /\ Distinct(q \o s)
  BY <1>1, <1>3, <1>4, DistinctConcat
<1> QED
  BY <1>3, <1>5 DEF q

(* A list is turned round. *)
LEMMA DistinctReverse ==
    ASSUME NEW S, NEW s \in Seq(S), Distinct(s)
    PROVE  /\ Reverse(s) \in Seq(S)
           /\ Len(Reverse(s)) = Len(s)
           /\ Range(Reverse(s)) = Range(s)
           /\ Distinct(Reverse(s))
<1> DEFINE n == Len(s)
           r == Reverse(s)
<1>1. n \in Nat /\ s \in [1 .. n -> S]
  BY LenProperties
<1>2. \A i \in 1 .. n : (n - i) + 1 \in 1 .. n
  BY <1>1
<1>3. r \in [1 .. n -> S] /\ \A i \in 1 .. n : r[i] = s[(n - i) + 1]
  BY <1>1, <1>2 DEF Reverse
<1>4. r \in Seq(S)
  BY <1>1, <1>3, SeqDef
<1>5. Len(r) = n
  BY <1>1, <1>3
<1>6. Range(r) = Range(s)
  <2>1. Range(r) = {r[i] : i \in 1 .. n} /\ Range(s) = {s[i] : i \in 1 .. n}
    BY <1>4, <1>5, RangeEquality
  <2>2. \A i \in 1 .. n : s[i] = r[(n - i) + 1]
    BY <1>1, <1>2, <1>3
  <2> HIDE DEF r, n
  <2>3. ASSUME NEW i \in 1 .. n
        PROVE  r[i] \in Range(s)
    BY <1>2, <1>3, <2>1
  <2>4. ASSUME NEW i \in 1 .. n
        PROVE  s[i] \in Range(r)
    BY <1>2, <2>1, <2>2
  <2> QED
    BY <2>1, <2>3, <2>4
<1>7. Distinct(r)
  <2> SUFFICES ASSUME NEW i \in 1 .. n, NEW j \in 1 .. n, r[i] = r[j]
               PROVE  i = j
    BY <1>5 DEF Distinct
  <2>1. (n - i) + 1 = (n - j) + 1
    BY <1>2, <1>3 DEF Distinct
  <2> QED
    BY <1>1, <2>1
<1> QED
  BY <1>4, <1>5, <1>6, <1>7

(* One element is taken out of a list. *)
LEMMA DistinctRemove ==
    ASSUME NEW S, NEW s \in Seq(S), Distinct(s), NEW k \in 1 .. Len(s)
    PROVE  /\ RemoveAt(s, k) \in Seq(S)
           /\ Len(RemoveAt(s, k)) = Len(s) - 1
           /\ Range(RemoveAt(s, k)) = Range(s) \ {s[k]}
           /\ Distinct(RemoveAt(s, k))
<1> DEFINE n == Len(s)
           a == SubSeq(s, 1, k - 1)
           b == SubSeq(s, k + 1, n)
<1>1. n \in Nat /\ s \in [1 .. n -> S]
  BY LenProperties
<1>2. n \in Nat /\ k \in Nat /\ 1 <= k /\ k <= n
  BY <1>1
<1>3. \A i, j \in 1 .. n : s[i] = s[j] => i = j
  BY DEF Distinct
<1> HIDE DEF n, a, b
<1>4. /\ a \in Seq(S) /\ Len(a) = k - 1
      /\ \A i \in 1 .. k - 1 : a[i] = s[i]
  <2>1. \A i \in 1 .. k - 1 : s[i] \in S
    BY <1>1
  <2>2. /\ a \in Seq(S) /\ Len(a) = IF 1 <= k - 1 THEN (k - 1) - 1 + 1 ELSE 0
        /\ \A i \in 1 .. (k - 1) - 1 + 1 : a[i] = s[1 + i - 1]
    BY <1>2, <2>1, SubSeqProperties DEF a
  <2>3. Len(a) = k - 1
    BY <1>1, <2>2
  <2>4. \A i \in 1 .. k - 1 : a[i] = s[i]
    BY <1>1, <2>2
  <2> QED
    BY <2>2, <2>3, <2>4
<1>5. /\ b \in Seq(S) /\ Len(b) = n - k
      /\ \A i \in 1 .. n - k : b[i] = s[k + i]
  <2>1. \A i \in k + 1 .. n : s[i] \in S
    BY <1>1
  <2>2. /\ b \in Seq(S) /\ Len(b) = IF k + 1 <= n THEN n - (k + 1) + 1 ELSE 0
        /\ \A i \in 1 .. n - (k + 1) + 1 : b[i] = s[(k + 1) + i - 1]
    BY <1>2, <2>1, SubSeqProperties DEF b
  <2>3. Len(b) = n - k
    <3>1. CASE k + 1 <= n
      <4>1. n - (k + 1) + 1 = n - k
        BY <1>1
      <4> QED
        BY <2>2, <3>1, <4>1
    <3>2. CASE ~(k + 1 <= n)
      <4>1. n = k
        BY <1>2, <3>2
      <4> QED
        BY <1>2, <2>2, <3>2, <4>1
    <3> QED
      BY <3>1, <3>2
  <2>4. ASSUME NEW i \in 1 .. n - k
        PROVE  b[i] = s[k + i]
    <3>1. i \in 1 .. n - (k + 1) + 1 /\ (k + 1) + i - 1 = k + i
      BY <1>1
    <3> QED
      BY <2>2, <3>1
  <2> QED
    BY <2>2, <2>3, <2>4
<1>6. Distinct(a) /\ Distinct(b)
  <2>1. ASSUME NEW i \in 1 .. k - 1, NEW j \in 1 .. k - 1, s[i] = s[j]
        PROVE  i = j
    BY <1>2, <1>3, <2>1
  <2>2. ASSUME NEW i \in 1 .. n - k, NEW j \in 1 .. n - k, s[k + i] = s[k + j]
        PROVE  i = j
    <3>1. k + i \in 1 .. n /\ k + j \in 1 .. n
      BY <1>1
    <3>2. k + i = k + j
      BY <1>3, <2>2, <3>1
    <3> QED
      BY <1>1, <3>2
  <2>3. Distinct(a)
    BY <1>4, <2>1 DEF Distinct
  <2>4. Distinct(b)
    BY <1>5, <2>2 DEF Distinct
  <2> QED
    BY <2>3, <2>4
<1>7. /\ Range(a) = {s[i] : i \in 1 .. k - 1}
      /\ Range(b) = {s[i] : i \in k + 1 .. n}
      /\ Range(s) = {s[i] : i \in 1 .. n}
  <2>1. Range(a) = {a[i] : i \in 1 .. k - 1} /\ Range(b) = {b[i] : i \in 1 .. n - k}
    BY <1>4, <1>5, RangeEquality
  <2>2. Range(a) = {s[i] : i \in 1 .. k - 1}
    BY <1>4, <2>1
  <2>3. \A i \in 1 .. n - k : k + i \in k + 1 .. n
    BY <1>1
  <2>4. \A i \in k + 1 .. n : i - k \in 1 .. n - k /\ k + (i - k) = i
    BY <1>1
  <2>5. Range(b) = {s[i] : i \in k + 1 .. n}
    <3>1. Range(b) = {s[k + i] : i \in 1 .. n - k}
      BY <1>5, <2>1
    <3> QED
      BY <2>3, <2>4, <3>1
  <2> QED
    BY <2>2, <2>5, RangeEquality DEF n
<1>8. Range(a) \cap Range(b) = {}
  <2>1. ASSUME NEW i \in 1 .. k - 1, NEW j \in k + 1 .. n
        PROVE  s[i] # s[j]
    BY <1>1, <1>3
  <2> QED
    BY <1>7, <2>1
<1>9. Range(a) \cup Range(b) = Range(s) \ {s[k]}
  <2>1. ASSUME NEW i \in 1 .. n
        PROVE  s[i] # s[k] <=> i \in 1 .. k - 1 \/ i \in k + 1 .. n
    BY <1>1, <1>3
  <2>2. 1 .. k - 1 \subseteq 1 .. n /\ k + 1 .. n \subseteq 1 .. n
    BY <1>1
  <2> QED
    BY <1>7, <2>1, <2>2
<1>10. /\ a \o b \in Seq(S) /\ Len(a \o b) = Len(a) + Len(b)
      /\ Range(a \o b) = Range(a) \cup Range(b) /\ Distinct(a \o b)
  <2>1. a \in Seq(S) /\ b \in Seq(S)
    BY <1>4, <1>5
  <2> QED
    BY <1>6, <1>8, <2>1, DistinctConcat
<1>11. Len(a) + Len(b) = n - 1
  BY <1>2, <1>4, <1>5
<1> QED
  BY <1>9, <1>10, <1>11 DEF RemoveAt, n, a, b

(* The first element is taken off a list. *)
LEMMA DistinctTail ==
    ASSUME NEW S, NEW s \in Seq(S), Distinct(s), s # <<>>
    PROVE  /\ Tail(s) \in Seq(S) /\ Head(s) \in S
           /\ Head(s) = s[1] /\ 1 \in 1 .. Len(s)
           /\ Range(Tail(s)) = Range(s) \ {Head(s)}
           /\ Distinct(Tail(s))
<1> DEFINE n == Len(s)
<1>1. n \in Nat /\ n # 0 /\ s \in [1 .. n -> S]
  BY LenProperties, EmptySeq
<1>2. /\ Head(s) \in S /\ Tail(s) \in Seq(S) /\ Len(Tail(s)) = n - 1
      /\ \A i \in 1 .. n - 1 : Tail(s)[i] = s[i + 1]
  BY HeadTailProperties
<1>3. Head(s) = s[1]
  OBVIOUS
<1>4. ASSUME NEW i \in 1 .. n - 1
      PROVE  i + 1 \in 1 .. n
  BY <1>1
<1>5. ASSUME NEW i \in 1 .. n, i # 1
      PROVE  i - 1 \in 1 .. n - 1 /\ (i - 1) + 1 = i
  BY <1>1, <1>5
<1>6. \A i, j \in 1 .. n : s[i] = s[j] => i = j
  BY DEF Distinct
<1>7. Distinct(Tail(s))
  <2> SUFFICES ASSUME NEW i \in 1 .. n - 1, NEW j \in 1 .. n - 1, s[i + 1] = s[j + 1]
               PROVE  i = j
    BY <1>2 DEF Distinct
  <2>1. i + 1 = j + 1
    BY <1>4, <1>6
  <2> QED
    BY <2>1
<1>8. Range(Tail(s)) = Range(s) \ {s[1]}
  <2>1. Range(Tail(s)) = {Tail(s)[i] : i \in 1 .. n - 1} /\ Range(s) = {s[i] : i \in 1 .. n}
    BY <1>2, RangeEquality
  <2>2. \A i \in 1 .. n - 1 : s[i + 1] # s[1]
    BY <1>1, <1>4, <1>6
  <2>3. \A i \in 1 .. n : s[i] # s[1] => Tail(s)[i - 1] = s[i] /\ i - 1 \in 1 .. n - 1
    BY <1>1, <1>2, <1>5
  <2>4. ASSUME NEW e \in Range(Tail(s))
        PROVE  e \in Range(s) \ {s[1]}
    <3>1. PICK i \in 1 .. n - 1 : e = s[i + 1]
      BY <1>2, <2>1, <2>4
    <3> QED
      BY <1>4, <2>1, <2>2, <3>1
  <2>5. ASSUME NEW e \in Range(s), e # s[1]
        PROVE  e \in Range(Tail(s))
    <3>1. PICK i \in 1 .. n : e = s[i]
      BY <2>1, <2>5
    <3> QED
      BY <2>1, <2>3, <2>5, <3>1
  <2> QED
    BY <2>4, <2>5
<1> QED
  BY <1>1, <1>2, <1>3, <1>7, <1>8

(* Such a list is as long as it has elements. *)
LEMMA DistinctLength ==
    ASSUME NEW S, NEW s \in Seq(S), Distinct(s)
    PROVE  IsFiniteSet(Range(s)) /\ Cardinality(Range(s)) = Len(s)
<1> DEFINE n == Len(s)
<1>1. n \in Nat /\ s \in [1 .. n -> S]
  BY LenProperties
<1>2. Range(s) = {s[i] : i \in 1 .. n}
  BY RangeEquality
<1>3. s \in Bijection(1 .. n, Range(s))
  <2>1. s \in [1 .. n -> Range(s)]
    BY <1>1, <1>2
  <2>2. \A i, j \in 1 .. n : s[i] = s[j] => i = j
    BY DEF Distinct
  <2>3. \A e \in Range(s) : \E i \in 1 .. n : s[i] = e
    BY <1>2
  <2>4. s \in Injection(1 .. n, Range(s))
    BY <2>1, <2>2 DEF Injection, IsInjective
  <2>5. s \in Surjection(1 .. n, Range(s))
    BY <2>1, <2>3 DEF Surjection
  <2> QED
    BY <2>4, <2>5 DEF Bijection
<1>4. ExistsBijection(1 .. n, Range(s))
  BY <1>3 DEF ExistsBijection
<1>5. IsFiniteSet(1 .. n) /\ Cardinality(1 .. n) = n
  BY <1>1, FS_Interval
<1> QED
  BY <1>4, <1>5, FS_Bijection

----------------------------------------------------------------------------
(* The inductive invariant *)

(* Each client that exists is in one of the two lists, once. *)
Lists ==
    /\ Distinct(pending) /\ Distinct(active)
    /\ Range(pending) \cap Range(active) = {}
    /\ Range(pending) \cup Range(active) = alive
    /\ file \subseteq alive

(* One thread at most is there, *)
Alone == \A t, u \in Thread : thread[t].at # "none" /\ thread[u].at # "none" => t = u

(* and run_fserv says whether, until fserve_shutdown clears it for good. *)
Running == IF main = "up" THEN run <=> \E t \in Thread : thread[t].at # "none"
           ELSE ~run

(* The number of clients and the sockets to poll are those of the active   *)
(* list, and the client that a thread looks at is in this list.            *)
Active ==
    main = "up" =>
        /\ count = Len(active)
        /\ ~changed /\ ufds # Null => ufds = active
        /\ \A t \in Thread : thread[t].at = "serve" => thread[t].node \in Range(active)

IInv == TypeOK /\ Lists /\ Alone /\ Running /\ Active

----------------------------------------------------------------------------
(* The steps *)

(* A thread that is there goes to another place, or ends. *)
LEMMA ThreadMoves ==
    ASSUME TypeOK, Alone, NEW t \in Thread, thread[t].at # "none",
           NEW l \in Places, NEW n \in Client \cup {Null}, ThreadAt(t, l, n)
    PROVE  /\ thread' \in [Thread -> [at : Places, node : Client \cup {Null}]]
           /\ thread'[t].at = l /\ thread'[t].node = n
           /\ \A u \in Thread : u # t => thread'[u].at = "none"
           /\ Alone'
<1>1. /\ thread' \in [Thread -> [at : Places, node : Client \cup {Null}]]
      /\ thread'[t] = [at |-> l, node |-> n]
      /\ \A u \in Thread : u # t => thread'[u] = thread[u]
  BY DEF TypeOK, ThreadAt
<1>2. \A u \in Thread : u # t => thread'[u].at = "none"
  BY <1>1 DEF Alone
<1>3. thread'[t].at = l /\ thread'[t].node = n
  BY <1>1
<1> QED
  BY <1>1, <1>2, <1>3 DEF Alone

(* A thread is started where none is. *)
LEMMA ThreadStarts ==
    ASSUME TypeOK, NEW t \in Thread, \A u \in Thread : thread[u].at = "none",
           ThreadAt(t, "wait", Null)
    PROVE  /\ thread' \in [Thread -> [at : Places, node : Client \cup {Null}]]
           /\ thread'[t].at = "wait"
           /\ \A u \in Thread : u # t => thread'[u].at = "none"
           /\ Alone'
<1>1. /\ thread' \in [Thread -> [at : Places, node : Client \cup {Null}]]
      /\ thread'[t] = [at |-> "wait", node |-> Null]
      /\ \A u \in Thread : u # t => thread'[u] = thread[u]
  BY DEF TypeOK, ThreadAt, Places
<1> QED
  BY <1>1 DEF Alone

(* What is sent to a client has at most MaxSize + 1 buffers. *)
LEMMA ResponseType ==
    ASSUME NEW r \in Responses
    PROVE  r.body \in 0 .. MaxSize + 1 /\ r.file \in BOOLEAN
<1>1. MaxSize \in Nat
  BY FileServeAssumption
<1>2. Text.body \in 0 .. MaxSize + 1 /\ Text.file \in BOOLEAN
  BY <1>1 DEF Text
<1>3. ASSUME NEW size \in 0 .. MaxSize
      PROVE  Whole(size).body \in 0 .. MaxSize + 1 /\ Whole(size).file \in BOOLEAN
  BY <1>1 DEF Whole
<1>4. ASSUME NEW size \in 0 .. MaxSize, NEW range \in -1 .. MaxSize + 1
      PROVE  /\ Part(size, range).body \in 0 .. MaxSize + 1
             /\ Part(size, range).file \in BOOLEAN
  <2>1. CASE range \notin 0 .. size
    BY <1>2, <2>1 DEF Part
  <2>2. CASE range \in 0 .. size
    <3>1. Part(size, range) = [file |-> TRUE, body |-> size - range]
      BY <2>2 DEF Part
    <3>2. size - range \in 0 .. MaxSize + 1
      BY <1>1, <2>2
    <3> QED
      BY <3>1, <3>2
  <2> QED
    BY <2>1, <2>2
<1> QED
  BY <1>2, <1>3, <1>4 DEF Responses

(* The lists hold no more clients than there are. *)
LEMMA ListsBounded ==
    ASSUME IInv
    PROVE  /\ Cardinality(Client) \in Nat
           /\ Len(pending) \in Nat /\ Len(active) \in Nat
           /\ Len(pending) + Len(active) <= Cardinality(Client)
           /\ Distinct(pending \o active)
           /\ Range(pending \o active) = alive
           /\ Len(pending \o active) = Len(pending) + Len(active)
           /\ pending \o active \in Seq(Client)
<1>1. pending \in Seq(Client) /\ active \in Seq(Client)
  BY DEF IInv, TypeOK
<1>2. /\ Distinct(pending) /\ Distinct(active)
      /\ Range(pending) \cap Range(active) = {}
      /\ Range(pending) \cup Range(active) = alive
  BY DEF IInv, Lists
<1>3. /\ pending \o active \in Seq(Client)
      /\ Len(pending \o active) = Len(pending) + Len(active)
      /\ Range(pending \o active) = Range(pending) \cup Range(active)
      /\ Distinct(pending \o active)
  BY <1>1, <1>2, DistinctConcat
<1>4. Cardinality(Range(pending \o active)) = Len(pending \o active)
  BY <1>3, DistinctLength
<1>5. alive \in SUBSET Client /\ IsFiniteSet(Client)
  BY FileServeAssumption DEF IInv, TypeOK
<1>6. Cardinality(alive) <= Cardinality(Client) /\ Cardinality(Client) \in Nat
  BY <1>5, FS_Subset, FS_CardinalityType
<1>7. Len(pending) \in Nat /\ Len(active) \in Nat
  BY <1>1, LenProperties
<1> QED
  BY <1>2, <1>3, <1>4, <1>6, <1>7

(* The client that the loop looks at is at its index of the active list;   *)
(* the one after it is another client of this list.                        *)
LEMMA LoopPlace ==
    ASSUME IInv, NEW t \in Thread, NEW c \in Client, Serving(t, c)
    PROVE  /\ Index(c) \in 1 .. Len(active) /\ active[Index(c)] = c
           /\ c \in Range(active)
           /\ After(c) \in (Range(active) \ {c}) \cup {Null}
           /\ After(c) \in Client \cup {Null}
<1>1. active \in Seq(Client) /\ Distinct(active)
  BY DEF IInv, TypeOK, Lists
<1>2. c \in Range(active)
  BY DEF IInv, Active, Serving, ActiveValid
<1>3. Range(active) = {active[i] : i \in 1 .. Len(active)} /\ Range(active) \subseteq Client
  BY <1>1, RangeEquality, RangeOfSeq
<1>4. Index(c) \in 1 .. Len(active) /\ active[Index(c)] = c
  BY <1>2, <1>3 DEF Index
<1>5. ASSUME Index(c) # Len(active)
      PROVE  /\ active[Index(c) + 1] \in Range(active)
             /\ active[Index(c) + 1] # c
  <2>1. Index(c) + 1 \in 1 .. Len(active) /\ Index(c) + 1 # Index(c)
    BY <1>1, <1>4, <1>5, LenProperties
  <2> QED
    BY <1>1, <1>3, <1>4, <2>1 DEF Distinct
<1> QED
  BY <1>2, <1>3, <1>4, <1>5 DEF After

(* The loop goes on to another client of the active list, or is over. *)
LEMMA LoopMoves ==
    ASSUME IInv, NEW t \in Thread, NEW c \in Client, Serving(t, c), Onward(t, c)
    PROVE  /\ thread' \in [Thread -> [at : Places, node : Client \cup {Null}]]
           /\ Alone'
           /\ thread'[t].at # "none"
           /\ \A u \in Thread : thread'[u].at = "serve" =>
                 thread'[u].node \in Range(active) \ {c}
<1>1. thread[t].at # "none" /\ TypeOK /\ Alone
  BY DEF Serving, IInv
<1>2. /\ After(c) \in (Range(active) \ {c}) \cup {Null}
      /\ After(c) \in Client \cup {Null}
  BY LoopPlace
<1>3. "wait" \in Places /\ "serve" \in Places
  BY DEF Places
<1>4. CASE After(c) = Null
  <2>1. ThreadAt(t, "wait", Null)
    BY <1>4 DEF Onward
  <2> QED
    BY <1>1, <1>3, <2>1, ThreadMoves
<1>5. CASE After(c) # Null
  <2>1. ThreadAt(t, "serve", After(c))
    BY <1>5 DEF Onward
  <2>2. /\ thread' \in [Thread -> [at : Places, node : Client \cup {Null}]]
        /\ thread'[t].at = "serve" /\ thread'[t].node = After(c)
        /\ \A u \in Thread : u # t => thread'[u].at = "none"
        /\ Alone'
    BY <1>1, <1>2, <1>3, <2>1, ThreadMoves
  <2> QED
    BY <1>2, <1>5, <2>2
<1> QED
  BY <1>4, <1>5

(* No client, no thread: the engine at first. *)
LEMMA InitInv == Init => IInv
<1> SUFFICES ASSUME Init PROVE IInv
  OBVIOUS
<1>1. Range(<<>>) = {} /\ Distinct(<<>>)
  BY DEF Range, Distinct
<1>2. 0 \in 0 .. Cardinality(Client) /\ 0 \in 0 .. MaxSize + 1
  BY FileServeAssumption, FS_CardinalityType
<1>3. TypeOK
  <2>1. thread \in [Thread -> [at : Places, node : Client \cup {Null}]]
    BY DEF Init, Places
  <2>2. left \in [Client -> 0 .. MaxSize + 1] /\ count \in 0 .. Cardinality(Client)
    BY <1>2 DEF Init
  <2>3. pending \in Seq(Client) /\ active \in Seq(Client)
    BY DEF Init
  <2> QED
    BY <2>1, <2>2, <2>3 DEF Init, TypeOK
<1>4. Lists
  BY <1>1 DEF Init, Lists
<1>5. Alone /\ Running /\ Active
  BY DEF Init, Alone, Running, Active
<1> QED
  BY <1>3, <1>4, <1>5 DEF IInv

(* fserve_add_pending keeps the invariant: it starts a thread exactly when *)
(* there is none.                                                          *)
LEMMA AddInv ==
    ASSUME IInv, NEW c \in Client, NEW r \in Responses, Add(c, r)
    PROVE  IInv'
<1> USE DEF IInv
<1>1. main = "up" /\ main' = "up" /\ c \notin alive /\ run' = TRUE
  BY DEF Add
<1>2. /\ UNCHANGED <<active, count, changed, ufds, ready>>
      /\ pending' = <<c>> \o pending /\ alive' = alive \cup {c}
  BY DEF Add, Respond
<1>3. file' \subseteq file \cup {c}
  <2>1. file' = file \cup {c} \/ file' = file \ {c}
    BY DEF Add, Respond
  <2> QED
    BY <2>1
<1>4. left' \in [Client -> 0 .. MaxSize + 1]
  BY ResponseType DEF Add, Respond, TypeOK
<1>5. /\ pending' \in Seq(Client) /\ Distinct(pending')
      /\ Range(pending') = Range(pending) \cup {c}
  <2>1. pending \in Seq(Client) /\ Distinct(pending) /\ c \notin Range(pending)
    BY <1>1 DEF TypeOK, Lists
  <2> QED
    BY <1>2, <2>1, DistinctCons
<1>6. /\ thread' \in [Thread -> [at : Places, node : Client \cup {Null}]]
      /\ Alone' /\ \E t \in Thread : thread'[t].at # "none"
      /\ \A t \in Thread : thread'[t].at = "serve" => thread'[t] = thread[t]
  <2>1. CASE run
    <3>1. thread' = thread
      BY <2>1 DEF Add, StartThread
    <3> QED
      BY <1>1, <2>1, <3>1 DEF TypeOK, Alone, Running
  <2>2. CASE ~run
    <3>1. \A u \in Thread : thread[u].at = "none"
      BY <1>1, <2>2 DEF Running
    <3>2. PICK t \in Thread : ThreadAt(t, "wait", Null)
      BY <2>2 DEF Add, StartThread
    <3>3. /\ thread' \in [Thread -> [at : Places, node : Client \cup {Null}]]
          /\ thread'[t].at = "wait"
          /\ \A u \in Thread : u # t => thread'[u].at = "none"
          /\ Alone'
      BY <3>1, <3>2, ThreadStarts
    <3> QED
      BY <3>3
  <2> QED
    BY <2>1, <2>2 DEF TypeOK
<1>7. TypeOK'
  BY <1>1, <1>2, <1>3, <1>4, <1>5, <1>6 DEF TypeOK
<1>8. Lists'
  <2>1. Range(pending') \cap Range(active) = {}
    BY <1>1, <1>5 DEF Lists
  <2>2. Range(pending') \cup Range(active) = alive'
    BY <1>2, <1>5 DEF Lists
  <2> QED
    BY <1>2, <1>3, <1>5, <2>1, <2>2 DEF Lists
<1>9. Running'
  BY <1>1, <1>6 DEF Running
<1>10. Active'
  BY <1>1, <1>2, <1>6 DEF Active
<1> QED
  BY <1>6, <1>7, <1>8, <1>9, <1>10

(* The thread moves the pending clients into its list. *)
LEMMA MovePendingInv ==
    ASSUME IInv, NEW t \in Thread, MovePending(t)
    PROVE  IInv'
<1> USE DEF IInv
<1>1. /\ thread[t].at = "wait" /\ run /\ main = "up"
      /\ UNCHANGED <<run, ufds, ready, alive, file, left, main>>
  BY DEF MovePending, Running, content
<1>2. /\ active' = Reverse(pending) \o active /\ pending' = <<>>
      /\ count' = count + Len(pending)
      /\ changed' = (changed \/ pending # <<>>)
      /\ ThreadAt(t, "moved", Null)
  BY DEF MovePending
<1>3. /\ thread' \in [Thread -> [at : Places, node : Client \cup {Null}]]
      /\ thread'[t].at = "moved"
      /\ \A u \in Thread : u # t => thread'[u].at = "none"
      /\ Alone'
  <2>1. "moved" \in Places /\ Null \in Client \cup {Null}
    BY DEF Places
  <2> QED
    BY <1>1, <1>2, <2>1, ThreadMoves
<1>4. pending \in Seq(Client) /\ active \in Seq(Client) /\ count = Len(active)
  BY <1>1 DEF TypeOK, Active
<1>5. /\ Distinct(pending) /\ Distinct(active)
      /\ Range(pending) \cap Range(active) = {}
      /\ Range(pending) \cup Range(active) = alive
  BY DEF Lists
<1>6. /\ Reverse(pending) \in Seq(Client) /\ Len(Reverse(pending)) = Len(pending)
      /\ Range(Reverse(pending)) = Range(pending) /\ Distinct(Reverse(pending))
  BY <1>4, <1>5, DistinctReverse
<1>7. /\ active' \in Seq(Client) /\ Len(active') = Len(pending) + Len(active)
      /\ Range(active') = Range(pending) \cup Range(active) /\ Distinct(active')
  <2> DEFINE q == Reverse(pending)
  <2>1. /\ q \in Seq(Client) /\ Len(q) = Len(pending) /\ Range(q) = Range(pending)
        /\ Distinct(q) /\ active' = q \o active
    BY <1>2, <1>6
  <2>2. Range(q) \cap Range(active) = {}
    BY <1>5, <2>1
  <2> HIDE DEF q
  <2>3. /\ q \o active \in Seq(Client) /\ Len(q \o active) = Len(q) + Len(active)
        /\ Range(q \o active) = Range(q) \cup Range(active) /\ Distinct(q \o active)
    <3>1. q \in Seq(Client) /\ active \in Seq(Client) /\ Distinct(q) /\ Distinct(active)
      BY <1>4, <1>5, <2>1
    <3> HIDE DEF IInv
    <3> QED
      BY <2>2, <3>1, DistinctConcat
  <2> QED
    BY <2>1, <2>3
<1>8. pending' \in Seq(Client) /\ Range(pending') = {} /\ Distinct(pending')
  BY <1>2 DEF Range, Distinct
<1>9. count' = Len(active') /\ count' \in 0 .. Cardinality(Client)
  BY <1>2, <1>4, <1>7, ListsBounded
<1>10. changed' \in BOOLEAN
  BY <1>2, Zenon DEF TypeOK
<1>11. TypeOK'
  BY <1>1, <1>3, <1>7, <1>8, <1>9, <1>10 DEF TypeOK
<1>12. Lists'
  BY <1>1, <1>5, <1>7, <1>8 DEF Lists
<1>13. Running'
  BY <1>1, <1>3 DEF Running
<1>14. ~changed' => active' = active /\ ~changed
  <2> SUFFICES ASSUME ~changed' PROVE active' = active /\ ~changed
    OBVIOUS
  <2>1. ~changed /\ pending = <<>>
    BY <1>2
  <2>2. Len(Reverse(pending)) = 0
    BY <1>6, <2>1
  <2>3. Reverse(pending) = <<>>
    BY <1>6, <2>2, EmptySeq
  <2> QED
    BY <1>2, <1>4, <2>1, <2>3, ConcatEmptySeq
<1>15. Active'
  BY <1>1, <1>3, <1>9, <1>14 DEF Active
<1> QED
  BY <1>3, <1>11, <1>12, <1>13, <1>15

(* The thread ends, builds its list of sockets, or waits for them. *)
LEMMA WaitInv ==
    ASSUME IInv, NEW t \in Thread,
           \/ NotRunning(t) \/ Rebuild(t) \/ Stop(t)
           \/ \E S \in SUBSET (1 .. count) : Poll(t, S)
    PROVE  IInv'
<1> USE DEF IInv, lists, content
<1>0. /\ Null \in Client \cup {Null}
      /\ "none" \in Places /\ "stop" \in Places /\ "poll" \in Places
      /\ "wait" \in Places /\ "serve" \in Places
  BY DEF Places
<1>1. CASE NotRunning(t)
  <2>1. /\ thread[t].at = "wait" /\ ~run /\ ThreadAt(t, "none", Null)
        /\ UNCHANGED <<lists, run, ufds, ready, alive, content, main>>
    BY <1>1 DEF NotRunning
  <2>2. /\ thread' \in [Thread -> [at : Places, node : Client \cup {Null}]]
        /\ thread'[t].at = "none"
        /\ \A u \in Thread : u # t => thread'[u].at = "none"
        /\ Alone'
    BY <1>0, <2>1, ThreadMoves
  <2>3. TypeOK' /\ Lists'
    BY <2>1, <2>2 DEF TypeOK, Lists
  <2>4. Running' /\ Active'
    BY <2>1, <2>2 DEF Running, Active
  <2> QED
    BY <2>2, <2>3, <2>4
<1>2. CASE Rebuild(t)
  <2>1. /\ thread[t].at = "moved" /\ main = "up"
        /\ ufds' = (IF changed THEN Rebuilt ELSE ufds) /\ changed' = FALSE
        /\ UNCHANGED <<pending, active, count, run, ready, alive, file, left, main>>
    BY <1>2 DEF Rebuild, ActiveValid
  <2>2. PICK l \in {"stop", "poll"} : ThreadAt(t, l, Null)
    BY <1>2 DEF Rebuild
  <2>3. /\ thread' \in [Thread -> [at : Places, node : Client \cup {Null}]]
        /\ thread'[t].at = l
        /\ \A u \in Thread : u # t => thread'[u].at = "none"
        /\ Alone'
    BY <1>0, <2>1, <2>2, ThreadMoves
  <2>4. /\ ufds' \in Seq(Client) \cup {Null}
        /\ ufds' # Null => ufds' = active
    BY <2>1 DEF TypeOK, Rebuilt, Active
  <2>5. TypeOK'
    BY <2>1, <2>3, <2>4 DEF TypeOK
  <2>6. Lists'
    BY <2>1 DEF Lists
  <2>7. Running' /\ Active'
    BY <2>1, <2>3, <2>4 DEF Running, Active
  <2> QED
    BY <2>3, <2>5, <2>6, <2>7
<1>3. CASE Stop(t)
  <2>1. /\ thread[t].at = "stop" /\ ThreadAt(t, "none", Null) /\ run' = FALSE
        /\ UNCHANGED <<lists, ufds, ready, alive, content, main>>
    BY <1>3 DEF Stop
  <2>2. /\ thread' \in [Thread -> [at : Places, node : Client \cup {Null}]]
        /\ thread'[t].at = "none"
        /\ \A u \in Thread : u # t => thread'[u].at = "none"
        /\ Alone'
    BY <1>0, <2>1, ThreadMoves
  <2>3. TypeOK' /\ Lists'
    BY <2>1, <2>2 DEF TypeOK, Lists
  <2>4. Running' /\ Active'
    BY <2>1, <2>2 DEF Running, Active
  <2> QED
    BY <2>2, <2>3, <2>4
<1>4. ASSUME NEW S \in SUBSET (1 .. count), Poll(t, S)
      PROVE  IInv'
  <2>1. /\ thread[t].at = "poll" /\ main = "up"
        /\ ready' = ready \cup {active[i] : i \in S}
        /\ UNCHANGED <<lists, run, ufds, alive, content, main>>
    BY <1>4 DEF Poll, ActiveValid
  <2>2. active \in Seq(Client) /\ count = Len(active) /\ Distinct(active)
    BY <2>1 DEF TypeOK, Active, Lists
  <2>3. ready' \subseteq Client
    BY <2>1, <2>2, ElementOfSeq DEF TypeOK
  <2>4. /\ thread' \in [Thread -> [at : Places, node : Client \cup {Null}]]
        /\ thread'[t].at # "none"
        /\ \A u \in Thread : thread'[u].at = "serve" => thread'[u].node \in Range(active)
        /\ Alone'
    <3>1. CASE S = {}
      BY <1>0, <1>4, <2>1, <3>1, ThreadMoves DEF Poll
    <3>2. CASE S # {}
      <4>1. ThreadAt(t, "serve", Head(active))
        BY <1>4, <3>2 DEF Poll
      <4>2. active # <<>>
        <5>1. PICK i \in 1 .. Len(active) : i \in S
          BY <2>2, <3>2
        <5> QED
          BY <5>1
      <4>3. Head(active) \in Client /\ Head(active) = active[1] /\ 1 \in 1 .. Len(active)
        BY <2>2, <4>2, DistinctTail
      <4>4. Head(active) \in Range(active)
        BY <2>2, <4>3, RangeEquality
      <4>5. /\ thread' \in [Thread -> [at : Places, node : Client \cup {Null}]]
            /\ thread'[t].at = "serve" /\ thread'[t].node = Head(active)
            /\ \A u \in Thread : u # t => thread'[u].at = "none"
            /\ Alone'
        BY <1>0, <2>1, <4>1, <4>3, ThreadMoves
      <4> QED
        BY <4>4, <4>5
    <3> QED
      BY <3>1, <3>2
  <2>5. TypeOK'
    BY <2>1, <2>3, <2>4 DEF TypeOK
  <2>6. Lists'
    BY <2>1 DEF Lists
  <2>7. Running' /\ Active'
    BY <2>1, <2>4 DEF Running, Active
  <2> QED
    BY <2>4, <2>5, <2>6, <2>7
<1> QED
  BY <1>1, <1>2, <1>3, <1>4

(* The loop over the active list passes a client, or sends it a buffer. *)
LEMMA ServeInv ==
    ASSUME IInv, NEW t \in Thread, NEW c \in Client,
           ServeNext(t, c) \/ ServeBuffer(t, c)
    PROVE  IInv'
<1>1. /\ Serving(t, c) /\ Onward(t, c) /\ main = "up"
      /\ UNCHANGED <<pending, active, count, changed, run, ufds, alive, file, main>>
      /\ ready' \subseteq ready
  BY DEF ServeNext, ServeBuffer, Serving, ActiveValid, lists, content
<1>2. left' \in [Client -> 0 .. MaxSize + 1]
  <2>1. left \in [Client -> 0 .. MaxSize + 1] /\ MaxSize \in Nat
    BY FileServeAssumption DEF IInv, TypeOK
  <2>2. left' = left \/ (left[c] > 0 /\ left' = [left EXCEPT ![c] = @ - 1])
    BY DEF ServeNext, ServeBuffer, content
  <2> QED
    BY <2>1, <2>2
<1>3. /\ thread' \in [Thread -> [at : Places, node : Client \cup {Null}]]
      /\ Alone' /\ thread'[t].at # "none"
      /\ \A u \in Thread : thread'[u].at = "serve" => thread'[u].node \in Range(active) \ {c}
  BY <1>1, LoopMoves
<1>4. thread[t].at # "none"
  BY <1>1 DEF Serving
<1>5. TypeOK'
  BY <1>1, <1>2, <1>3 DEF IInv, TypeOK
<1>6. Lists'
  BY <1>1 DEF IInv, Lists
<1>7. Running'
  BY <1>1, <1>3, <1>4 DEF IInv, Running
<1>8. Active'
  BY <1>1, <1>3 DEF IInv, Active
<1> QED
  BY <1>3, <1>5, <1>6, <1>7, <1>8 DEF IInv

(* A client is served to its end: it leaves the active list and is         *)
(* destroyed, or comes back to the pending list.                           *)
LEMMA ServeEndInv ==
    ASSUME IInv, NEW t \in Thread, NEW c \in Client, ServeEnd(t, c)
    PROVE  IInv'
<1>1. /\ Serving(t, c) /\ Onward(t, c) /\ main = "up" /\ thread[t].at # "none"
      /\ active' = RemoveAt(active, Index(c)) /\ count' = count - 1
      /\ changed' = TRUE /\ ready' \subseteq ready
      /\ UNCHANGED <<run, ufds, main>>
  BY DEF ServeEnd, Serving, ActiveValid, Unlink
<1>2. /\ pending \in Seq(Client) /\ active \in Seq(Client)
      /\ Distinct(pending) /\ Distinct(active)
      /\ Range(pending) \cap Range(active) = {}
      /\ Range(pending) \cup Range(active) = alive
      /\ file \subseteq alive /\ count = Len(active)
  BY <1>1 DEF IInv, TypeOK, Lists, Active
<1>3. Index(c) \in 1 .. Len(active) /\ active[Index(c)] = c /\ c \in Range(active)
  BY <1>1, LoopPlace
<1>4. /\ active' \in Seq(Client) /\ Len(active') = Len(active) - 1
      /\ Range(active') = Range(active) \ {c} /\ Distinct(active')
  BY <1>1, <1>2, <1>3, DistinctRemove
<1>5. count' = Len(active') /\ count' \in 0 .. Cardinality(Client)
  <2>1. /\ Len(pending) \in Nat /\ Len(active) \in Nat /\ Cardinality(Client) \in Nat
        /\ Len(pending) + Len(active) <= Cardinality(Client)
    BY ListsBounded
  <2> QED
    BY <1>1, <1>2, <1>3, <1>4, <2>1
<1>6. /\ thread' \in [Thread -> [at : Places, node : Client \cup {Null}]]
      /\ Alone' /\ thread'[t].at # "none"
      /\ \A u \in Thread : thread'[u].at = "serve" => thread'[u].node \in Range(active) \ {c}
  BY <1>1, LoopMoves
<1>7. /\ pending' \in Seq(Client) /\ Distinct(pending')
      /\ Range(pending') \cap Range(active') = {}
      /\ Range(pending') \cup Range(active') = alive'
      /\ file' \subseteq alive' /\ alive' \subseteq Client
      /\ left' \in [Client -> 0 .. MaxSize + 1]
  <2>0. alive \subseteq Client /\ left \in [Client -> 0 .. MaxSize + 1]
    BY DEF IInv, TypeOK
  <2>1. CASE c \in Refused
    <3>1. /\ pending' = <<c>> \o pending /\ alive' = alive \cup {c}
          /\ file' = file \ {c} /\ left' = [left EXCEPT ![c] = 1]
      BY <2>1 DEF ServeEnd, Respond, Text
    <3>2. c \notin Range(pending)
      BY <1>2, <1>3
    <3>3. /\ pending' \in Seq(Client) /\ Distinct(pending')
          /\ Range(pending') = Range(pending) \cup {c}
      BY <1>2, <3>1, <3>2, DistinctCons
    <3>4. left' \in [Client -> 0 .. MaxSize + 1]
      BY <2>0, <3>1, FileServeAssumption
    <3> QED
      BY <1>2, <1>3, <1>4, <2>0, <3>1, <3>3, <3>4
  <2>2. CASE c \notin Refused
    <3>1. pending' = pending /\ left' = left /\ alive' = alive \ {c} /\ file' = file \ {c}
      BY <2>2 DEF ServeEnd, Destroy
    <3> QED
      BY <1>2, <1>3, <1>4, <2>0, <3>1
  <2> QED
    BY <2>1, <2>2
<1>8. TypeOK'
  BY <1>1, <1>4, <1>5, <1>6, <1>7 DEF IInv, TypeOK
<1>9. Lists'
  BY <1>4, <1>7 DEF Lists
<1>10. Running'
  BY <1>1, <1>6 DEF IInv, Running
<1>11. Active'
  BY <1>1, <1>4, <1>5, <1>6 DEF Active
<1> QED
  BY <1>6, <1>8, <1>9, <1>10, <1>11 DEF IInv

(* fserve_shutdown clears run_fserv and frees the clients of both lists. *)
LEMMA MainInv ==
    ASSUME IInv, Main
    PROVE  IInv'
<1> USE DEF lists, content
<1>1. CASE Shutdown
  <2>1. main' = "freeing" /\ run' = FALSE
    BY <1>1 DEF Shutdown
  <2>2. UNCHANGED <<lists, ufds, ready, alive, content, thread>>
    BY <1>1 DEF Shutdown
  <2> QED
    BY <2>1, <2>2 DEF IInv, TypeOK, Lists, Alone, Running, Active
<1>2. CASE ShutdownDone
  <2>1. main = "freeing" /\ main' = "down"
    BY <1>2 DEF ShutdownDone
  <2>2. UNCHANGED <<lists, run, ufds, ready, alive, content, thread>>
    BY <1>2 DEF ShutdownDone
  <2> QED
    BY <2>1, <2>2 DEF IInv, TypeOK, Lists, Alone, Running, Active
<1>3. CASE ShutdownFrees
  <2> DEFINE c == Head(pending \o active)
  <2>1. /\ main = "freeing" /\ main' \in {"freeing", "waiting"}
        /\ alive' = alive \ {c} /\ file' = file \ {c}
        /\ UNCHANGED <<run, count, changed, ufds, ready, left, thread>>
        /\ pending \o active # <<>>
    BY <1>3 DEF ShutdownFrees, Destroy
  <2>2. /\ pending \in Seq(Client) /\ active \in Seq(Client)
        /\ Distinct(pending) /\ Distinct(active)
        /\ Range(pending) \cap Range(active) = {}
        /\ Range(pending) \cup Range(active) = alive
        /\ file \subseteq alive
    BY DEF IInv, TypeOK, Lists
  <2>3. /\ pending' \in Seq(Client) /\ Distinct(pending')
        /\ active' \in Seq(Client) /\ Distinct(active')
        /\ Range(pending') \cap Range(active') = {}
        /\ Range(pending') \cup Range(active') = alive \ {c}
    <3>1. CASE pending # <<>>
      <4>1. pending' = Tail(pending) /\ active' = active
        BY <1>3, <3>1 DEF ShutdownFrees
      <4>2. /\ Tail(pending) \in Seq(Client) /\ Distinct(Tail(pending))
            /\ Range(Tail(pending)) = Range(pending) \ {Head(pending)}
            /\ Head(pending) = pending[1] /\ 1 \in 1 .. Len(pending)
        BY <2>2, <3>1, DistinctTail
      <4>3. Head(pending) \in Range(pending)
        BY <2>2, <4>2, RangeEquality
      <4>4. c = Head(pending)
        <5>1. (pending \o active)[1] = pending[1]
          BY <2>2, <4>2, ConcatProperties, LenProperties
        <5> QED
          BY <4>2, <5>1
      <4> QED
        BY <2>2, <4>1, <4>2, <4>3, <4>4
    <3>2. CASE pending = <<>>
      <4>1. active' = Tail(active) /\ pending' = pending
        BY <1>3, <3>2 DEF ShutdownFrees
      <4>2. pending \o active = active /\ Range(pending) = {}
        BY <2>2, <3>2, ConcatEmptySeq DEF Range
      <4>3. /\ Tail(active) \in Seq(Client) /\ Distinct(Tail(active))
            /\ Range(Tail(active)) = Range(active) \ {Head(active)}
        BY <2>1, <2>2, <4>2, DistinctTail
      <4> QED
        BY <2>2, <4>1, <4>2, <4>3
    <3> QED
      BY <3>1, <3>2
  <2> HIDE DEF c
  <2>4. TypeOK'
    BY <2>1, <2>2, <2>3 DEF IInv, TypeOK
  <2>5. Lists'
    BY <2>1, <2>2, <2>3 DEF Lists
  <2>6. Alone' /\ Running' /\ Active'
    BY <2>1 DEF IInv, Alone, Running, Active
  <2> QED
    BY <2>4, <2>5, <2>6 DEF IInv
<1> QED
  BY <1>1, <1>2, <1>3 DEF Main

----------------------------------------------------------------------------
(* The theorems *)

(* Every step of fserve.c keeps the inductive invariant. *)
LEMMA NextInv ==
    ASSUME IInv, [Next]_vars
    PROVE  IInv'
<1>1. CASE UNCHANGED vars
  BY <1>1 DEF vars, lists, content, IInv, TypeOK, Lists, Alone, Running, Active
<1>2. ASSUME NEW c \in Client, NEW r \in Responses, Add(c, r)
      PROVE  IInv'
  BY <1>2, AddInv
<1>3. ASSUME NEW t \in Thread, Server(t)
      PROVE  IInv'
  BY <1>3, MovePendingInv, WaitInv, ServeInv, ServeEndInv DEF Server
<1>4. CASE Main
  BY <1>4, MainInv
<1> QED
  BY <1>1, <1>2, <1>3, <1>4 DEF Next

(* The invariant holds in every state. *)
LEMMA SpecInv == Spec => []IInv
BY InitInv, NextInv, PTL DEF Spec

(* The variables of the file serving engine keep their types; fserve_clients *)
(* never exceeds the number of clients and never falls below zero.         *)
THEOREM FileServeTyped == Spec => []TypeOK
<1>1. IInv => TypeOK
  BY DEF IInv
<1> QED
  BY <1>1, SpecInv, PTL

(* Every client of the engine is in one of its lists once, fserve_clients  *)
(* and the polled sockets agree with the active list, and at most one      *)
(* thread works on it, however additions, the thread's end and             *)
(* fserve_shutdown interleave.                                             *)
THEOREM FileServeOwned == Spec => []Owned
<1>1. IInv => Owned
  <2> SUFFICES ASSUME IInv PROVE Owned
    OBVIOUS
  <2>1. Range(pending \o active) = alive
    BY ListsBounded
  <2>2. Len(pending \o active) = Cardinality(alive)
    BY <2>1, ListsBounded, DistinctLength
  <2>3. OneServer
    <3> DEFINE there == {t \in Thread : thread[t].at # "none"}
    <3>1. run => there # {}
      BY DEF IInv, Running
    <3>2. Cardinality(there) <= 1
      <4>1. CASE there = {}
        BY <4>1, FS_EmptySet
      <4>2. CASE there # {}
        <5>1. PICK t \in there : TRUE
          BY <4>2
        <5>2. there = {t}
          BY <5>1 DEF IInv, Alone
        <5> HIDE DEF there
        <5> QED
          BY <5>2, FS_Singleton
      <4> QED
        BY <4>1, <4>2
    <3> QED
      BY <3>1, <3>2 DEF OneServer
  <2>4. file \subseteq alive
    BY DEF IInv, Lists
  <2>5. main = "up" => /\ count = Len(active)
                       /\ ~changed /\ ufds # Null => ufds = active
    BY DEF IInv, Active
  <2> QED
    BY <2>1, <2>2, <2>3, <2>4, <2>5 DEF Owned
<1> QED
  BY <1>1, SpecInv, PTL
=============================================================================
