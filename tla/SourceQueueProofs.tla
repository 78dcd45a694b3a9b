------------------------- MODULE SourceQueueProofs -------------------------
(***************************************************************************)
(* Proofs about SourceQueue: the reference counts of the stream queue are  *)
(* exact, nothing points at freed data, the queue trimming makes progress  *)
(* and never reports an unexpected state, for any number of listeners and  *)
(* any buffers and settings.  About Ebml, which fills the queue of a WebM  *)
(* source: listeners can be sent what the source sent, in order, and the   *)
(* clusters they may start with are marked, for any stream and any cut of  *)
(* it into reads.  About Mp3, which fills the queue of a source without a  *)
(* container: listeners get the stream without the blocks of metadata that *)
(* the source put into it, and with whole blocks at their own interval,    *)
(* wherever reads and the sockets cut the blocks and the buffers.          *)
(***************************************************************************)
EXTENDS SourceQueue, Ebml, Mp3, FiniteSetTheorems, SequenceTheorems,
        WellFoundedInduction, TLAPS

(* A non-empty set of naturals has a least element, and Min returns it. *)
LEMMA MinOfNats ==
    ASSUME NEW S \in SUBSET Nat, S # {}
    PROVE  /\ Min(S) \in S
           /\ \A x \in S : Min(S) <= x
<1> DEFINE R == OpToRel(<, Nat)
<1>1. R = {p \in Nat \X Nat : p[1] < p[2]}
  BY Zenon DEF OpToRel
<1>2. IsWellFoundedOn(R, Nat)
  BY NatLessThanWellFounded, Zenon
<1> HIDE DEF R
<1>3. PICK m \in S : \A x \in S : ~(<<x, m>> \in R)
  BY <1>2, WFMin
<1>4. ASSUME NEW x \in S PROVE m <= x
  <2>1. <<x, m>> \in Nat \X Nat /\ <<x, m>>[1] = x /\ <<x, m>>[2] = m
    OBVIOUS
  <2> QED
    BY <1>1, <1>3, <2>1
<1> QED
  BY <1>4 DEF Min

(* The number of listeners whose place in the queue, given by cur, is x. *)
Readers(cur, x) == Cardinality({d \in Listeners : cur[d] = x})

(* The effect of client_set_queue on the number of references listeners    *)
(* hold on buffer x.                                                       *)
LEMMA ReadersUpdate ==
    ASSUME NEW cur \in [Listeners -> Nat], NEW new \in [Listeners -> Nat],
           NEW c \in Listeners, \A d \in Listeners \ {c} : new[d] = cur[d],
           NEW x \in Nat
    PROVE  Readers(new, x)
             = Readers(cur, x) + (IF x = new[c] THEN 1 ELSE 0)
                               - (IF x = cur[c] THEN 1 ELSE 0)
<1> DEFINE old == {d \in Listeners : cur[d] = x}
           now == {d \in Listeners : new[d] = x}
<1>1. IsFiniteSet(old) /\ Cardinality(old) \in Nat
  BY ListenersFinite, FS_Subset, FS_CardinalityType
<1>2. c \in old <=> x = cur[c]
  OBVIOUS
<1>3. x = new[c] => now = old \cup {c}
  OBVIOUS
<1>4. x # new[c] => now = old \ {c}
  OBVIOUS
<1>5. Readers(new, x) = Cardinality(now) /\ Readers(cur, x) = Cardinality(old)
  BY DEF Readers
<1> HIDE DEF old, now
<1>6. /\ Cardinality(old \cup {c})
           = IF c \in old THEN Cardinality(old) ELSE Cardinality(old) + 1
      /\ Cardinality(old \ {c})
           = IF c \in old THEN Cardinality(old) - 1 ELSE Cardinality(old)
  BY <1>1, FS_AddElement, FS_RemoveElement
<1>7. x = new[c] => Cardinality(now)
                      = IF c \in old THEN Cardinality(old) ELSE Cardinality(old) + 1
  BY <1>3, <1>6
<1>8. x # new[c] => Cardinality(now)
                      = IF c \in old THEN Cardinality(old) - 1 ELSE Cardinality(old)
  BY <1>4, <1>6
<1> QED
  BY <1>1, <1>2, <1>5, <1>7, <1>8

(* HeldBy counts the listeners at a buffer; it is zero exactly when there  *)
(* is none.                                                                *)
LEMMA HeldType ==
    ASSUME NEW x
    PROVE  /\ HeldBy(Listeners, x) \in Nat
           /\ HeldBy(Listeners, x) = 0
                <=> \A c \in Listeners : cursor[c] # x
<1>1. IsFiniteSet({c \in Listeners : cursor[c] = x})
  BY ListenersFinite, FS_Subset
<1> QED
  BY <1>1, FS_CardinalityType, FS_EmptySet DEF HeldBy

(* What the reference counts say of a buffer, with the sums spelled out.   *)
LEMMA CountBounds ==
    ASSUME TypeOK, RefCountExact, PointersInQueue, NEW b \in Buffers
    PROVE  /\ b \in Linked => count[b] >= 1
           /\ b \in burst .. tail => count[b] >= 2
           /\ count[b] = 1 /\ b \in Linked
                => b \notin burst .. tail /\ HeldBy(Listeners, b) = 0
<1>1. HeldBy(Listeners, b) \in Nat
  BY HeldType
<1>2. b \in burst .. tail => b \in Linked
  BY DEF TypeOK, PointersInQueue, Linked, Buffers
<1>3. count[b] = (IF b \in Linked THEN 1 ELSE 0)
                  + (IF b \in burst .. tail THEN 1 ELSE 0)
                  + HeldBy(Listeners, b)
  BY DEF RefCountExact, One
<1> QED
  BY <1>1, <1>2, <1>3

(* A step that leaves the queue and the listeners' places in it alone      *)
(* keeps everything that is said about them.                               *)
LEMMA QueueUntouched ==
    ASSUME IInv, UNCHANGED <<queueVars, cursor>>
    PROVE  RefCountExact' /\ SizesExact' /\ EndMonotone' /\ BurstFits'
<1> USE DEF IInv, queueVars
<1>1. RefCountExact'
  BY DEF RefCountExact, Buffers, Linked, HeldBy, One
<1>2. SizesExact' /\ EndMonotone'
  BY DEF SizesExact, EndMonotone
<1>3. BurstFits'
  BY DEF BurstFits
<1> QED
  BY <1>1, <1>2, <1>3

(* client_set_queue keeps the counts exact. *)
LEMMA SetQueueCounts ==
    ASSUME IInv, NEW c \in Listeners, NEW b \in Linked \cup {0},
           SetQueue(c, b), UNCHANGED <<head, tail, burst>>
    PROVE  /\ RefCountExact'
           /\ count' \in [Buffers' -> Nat]
           /\ cursor' \in [Listeners -> (0 .. tail)']
<1> USE DEF IInv
<1>1. b \in 0 .. tail /\ b \in Nat
  BY DEF TypeOK, Linked
<1>2. cursor' \in [Listeners -> (0 .. tail)']
  BY <1>1 DEF TypeOK, SetQueue
<1>3. ASSUME NEW x \in Buffers
      PROVE  /\ count'[x] = One((x \in Linked)') + One((x \in burst .. tail)')
                            + HeldBy(Listeners, x)'
             /\ count'[x] \in Nat
  <2>1. x \in Nat /\ cursor \in [Listeners -> Nat]
    BY DEF TypeOK, Buffers
  <2>2. HeldBy(Listeners, x)'
          = HeldBy(Listeners, x) + (IF x = b THEN 1 ELSE 0)
                                 - (IF x = cursor[c] THEN 1 ELSE 0)
    <3>1. cursor' \in [Listeners -> Nat] /\ cursor'[c] = b
          /\ \A d \in Listeners \ {c} : cursor'[d] = cursor[d]
      BY <1>1, <2>1 DEF SetQueue
    <3>2. HeldBy(Listeners, x)' = Readers(cursor', x)
          /\ HeldBy(Listeners, x) = Readers(cursor, x)
      BY DEF HeldBy, Readers
    <3> QED
      BY <2>1, <3>1, <3>2, ReadersUpdate
  <2>3. count'[x] = count[x] + (IF x = b THEN 1 ELSE 0)
                             - (IF x = cursor[c] THEN 1 ELSE 0)
    BY DEF SetQueue
  <2>4. count[x] = One(x \in Linked) + One(x \in burst .. tail)
                     + HeldBy(Listeners, x)
    BY DEF RefCountExact
  <2>5. HeldBy(Listeners, x) \in Nat /\ (x = cursor[c] => HeldBy(Listeners, x) # 0)
    BY HeldType
  <2>6. (x \in Linked)' = (x \in Linked)
        /\ (x \in burst .. tail)' = (x \in burst .. tail)
    BY DEF Linked
  <2> QED
    BY <2>2, <2>3, <2>4, <2>5, <2>6 DEF One
<1>4. Buffers' = Buffers
  BY DEF Buffers
<1>5. count' = [x \in Buffers |-> count'[x]]
  BY DEF SetQueue
<1> QED
  BY <1>2, <1>3, <1>4, <1>5 DEF RefCountExact

(* The initial states satisfy the invariant. *)
LEMMA InitInv == Init => IInv
<1> SUFFICES ASSUME Init PROVE IInv
  OBVIOUS
<1> USE DEF Init
<1>1. TypeOK
  <2>1. 0 .. tail = {0} /\ Buffers = {}
    BY DEF Buffers
  <2>2. end \in [0 .. tail -> Nat] /\ count \in [Buffers -> Nat]
    BY <2>1
  <2>3. intro \in [Listeners -> -1 .. IntroLen]
    BY BoundsAreNat
  <2>4. cursor \in [Listeners -> 0 .. tail]
    BY <2>1
  <2> QED
    BY <2>2, <2>3, <2>4 DEF TypeOK, Modes
<1>2. RefCountExact
  BY DEF RefCountExact, Buffers
<1>3. PointersInQueue /\ SizesExact /\ EndMonotone
  BY DEF PointersInQueue, SizesExact, EndMonotone
<1>4. QueueShape /\ ServedLeftHead /\ BurstFits
  BY DEF QueueShape, ServedLeftHead, BurstFits
<1> QED
  BY <1>1, <1>2, <1>3, <1>4 DEF IInv

(* What a step that leaves the queue and every place in it alone still has *)
(* to keep: the part of the invariant about the listeners.                 *)
ListenersOK ==
    /\ pc \in {"off", "read", "check", "serve", "trim", "shutdown", "clear"}
    /\ running \in BOOLEAN /\ removeFromQ \in BOOLEAN
    /\ setting \in Settings \cup {NoSetting}
    /\ pending \subseteq Listeners /\ tree \subseteq Listeners
    /\ todo \subseteq tree /\ pending \cap tree = {}
    /\ mode \in [Listeners -> Modes]
    /\ done \in [Listeners -> BOOLEAN]
    /\ intro \in [Listeners -> -1 .. IntroLen]
    /\ \A c \in Listeners :
          /\ mode[c] = "queue" => cursor[c] \in Linked /\ c \in tree
          /\ mode[c] # "queue" => cursor[c] = 0
    /\ QueueShape
    /\ ServedLeftHead

(* A step that leaves the queue and the listeners alone. *)
LEMMA QuietInv ==
    ASSUME IInv, UNCHANGED <<queueVars, cursor>>, ListenersOK'
    PROVE  IInv'
<1>1. RefCountExact' /\ SizesExact' /\ EndMonotone' /\ BurstFits'
  BY QueueUntouched
<1>2. TypeOK'
  BY DEF IInv, TypeOK, ListenersOK, Buffers, queueVars
<1>3. PointersInQueue'
  BY DEF IInv, PointersInQueue, ListenersOK, queueVars
<1> QED
  BY <1>1, <1>2, <1>3 DEF IInv, ListenersOK

(* The steps of the other threads that only change one listener's standing *)
(* with the source, the settings or the running flag.                      *)
LEMMA AddListenerInv ==
    ASSUME IInv, NEW c \in Listeners, NEW i \in -1 .. IntroLen,
           AddListener(c) \/ MoveIn(c, i)
    PROVE  IInv'
<1> USE DEF AddListener, MoveIn
<1>1. UNCHANGED <<queueVars, cursor>>
  BY DEF queueVars
<1>2. c \notin pending \cup tree /\ pending' = pending \cup {c}
      /\ UNCHANGED <<pc, running, removeFromQ, setting, tree, todo, done>>
  BY DEF IInv, QueueShape
<1>3. mode' \in [Listeners -> Modes] /\ mode'[c] \in {"http", "moved"}
      /\ \A d \in Listeners \ {c} : mode'[d] = mode[d]
  BY DEF IInv, TypeOK, Modes
<1>4. intro' \in [Listeners -> -1 .. IntroLen]
  BY DEF IInv, TypeOK
<1>5. mode[c] = "none"
  OBVIOUS
<1> HIDE DEF AddListener, MoveIn
<1>6. QueueShape'
  BY <1>1, <1>2, <1>3 DEF IInv, QueueShape, queueVars
<1>7. ServedLeftHead'
  BY <1>1, <1>2, <1>3 DEF IInv, TypeOK, ServedLeftHead, queueVars
<1>8. \A d \in Listeners :
          /\ mode'[d] = "queue" => cursor'[d] \in Linked' /\ d \in tree'
          /\ mode'[d] # "queue" => cursor'[d] = 0
  BY <1>1, <1>2, <1>3, <1>5 DEF IInv, PointersInQueue, Linked, queueVars
<1>9. ListenersOK'
  BY <1>1, <1>2, <1>3, <1>4, <1>6, <1>7, <1>8 DEF IInv, TypeOK, ListenersOK
<1> QED
  BY <1>1, <1>9, QuietInv

(* Steps that only change the flags of listeners or of the source. *)
LEMMA FlagsInv ==
    ASSUME IInv,
           \/ Start \/ ReadNothing \/ CheckLimit \/ NoFallback
           \/ Reload \/ Stop \/ UNCHANGED vars
    PROVE  IInv'
<1> USE DEF Start, ReadNothing, CheckLimit, NoFallback, Reload, Stop, vars,
            clientVars
<1>1. UNCHANGED <<queueVars, cursor>>
  BY DEF queueVars
<1>2. UNCHANGED <<pending, tree, mode, done, intro>>
  OBVIOUS
<1>3. /\ pc' \in {"off", "read", "check", "serve", "trim", "shutdown", "clear"}
      /\ running' \in BOOLEAN /\ removeFromQ' \in BOOLEAN
      /\ setting' \in Settings \cup {NoSetting}
      /\ todo' \subseteq tree'
  <2>1. /\ pc' \in {"off", "read", "check", "serve", "trim", "shutdown", "clear"}
        /\ setting' \in Settings \cup {NoSetting}
        /\ todo' \subseteq tree'
    BY DEF IInv, TypeOK
  <2>2. running' \in BOOLEAN
    BY Zenon DEF IInv, TypeOK
  <2>3. removeFromQ' \in BOOLEAN
    <3>1. removeFromQ' = (queueSize > setting.limit) \/ removeFromQ' = removeFromQ
      OBVIOUS
    <3>2. (queueSize > setting.limit) \in BOOLEAN
      OBVIOUS
    <3> QED
      BY <3>1, <3>2, Zenon DEF IInv, TypeOK
  <2> QED
    BY <2>1, <2>2, <2>3
<1>4. QueueShape'
  BY <1>1, <1>2 DEF IInv, QueueShape, queueVars
<1>5. ServedLeftHead'
  BY <1>1, <1>2 DEF IInv, TypeOK, QueueShape, ServedLeftHead, queueVars
<1>6. ListenersOK'
  BY <1>1, <1>2, <1>3, <1>4, <1>5
     DEF IInv, TypeOK, PointersInQueue, ListenersOK, Linked, queueVars
<1> QED
  BY <1>1, <1>6, QuietInv

(* Pending listeners join the tree or are dropped. *)
LEMMA AdmitPendingInv ==
    ASSUME IInv, AdmitPending
    PROVE  IInv'
<1> USE DEF AdmitPending
<1>1. UNCHANGED <<queueVars, cursor>>
  BY DEF queueVars
<1>2. PICK K \in SUBSET pending :
          /\ tree' = tree \cup K
          /\ mode' = [c \in Listeners |->
                        IF c \in pending \ K THEN "none" ELSE mode[c]]
          /\ intro' = [c \in Listeners |->
                        IF c \in pending \ K THEN -1 ELSE intro[c]]
  OBVIOUS
<1>3. pending' = {} /\ pc = "serve" /\ pc' = "trim" /\ todo = {}
      /\ UNCHANGED <<running, removeFromQ, setting, todo, done>>
  OBVIOUS
<1> HIDE DEF AdmitPending
<1>4. mode' \in [Listeners -> Modes] /\ intro' \in [Listeners -> -1 .. IntroLen]
  BY <1>2, BoundsAreNat DEF IInv, TypeOK, Modes
<1>5. \A d \in Listeners : d \in pending => mode[d] # "queue" /\ cursor[d] = 0
  BY DEF IInv, TypeOK, PointersInQueue
<1>6. \A d \in Listeners :
          /\ mode'[d] = "queue" => cursor'[d] \in Linked' /\ d \in tree'
          /\ mode'[d] # "queue" => cursor'[d] = 0
  BY <1>1, <1>2, <1>5 DEF IInv, PointersInQueue, Linked, queueVars
<1>7. QueueShape'
  BY <1>1, <1>2, <1>3 DEF IInv, TypeOK, QueueShape, queueVars
<1>8. ServedLeftHead'
  BY <1>1, <1>2, <1>3, <1>5 DEF IInv, TypeOK, ServedLeftHead, queueVars
<1>9. ListenersOK'
  BY <1>1, <1>2, <1>3, <1>4, <1>6, <1>7, <1>8 DEF IInv, TypeOK, ListenersOK
<1> QED
  BY <1>1, <1>9, QuietInv

(* The listeners leave for another source. *)
LEMMA LeaveAllInv ==
    ASSUME IInv, Fallback \/ MoveOut
    PROVE  IInv'
<1> USE DEF IInv
<1>1. /\ LeaveAll
      /\ UNCHANGED <<running, head, tail, burst, end, sync, queueSize,
                     burstOffset, setting, removeFromQ, todo>>
      /\ pc \notin {"off", "serve", "trim"} /\ pc' \notin {"off", "serve", "trim"}
      /\ pc' \in {"read", "check", "shutdown", "clear"}
  BY DEF Fallback, MoveOut, TreesFree, TypeOK
<1>2. Buffers' = Buffers /\ Linked' = Linked /\ (burst .. tail)' = burst .. tail
  BY <1>1 DEF Buffers, Linked
<1>3. ASSUME NEW b \in Buffers
      PROVE  /\ count'[b] = One((b \in Linked)') + One((b \in burst .. tail)')
                            + HeldBy(Listeners, b)'
             /\ count'[b] \in Nat
  <2>1. HeldBy(Listeners, b)' = 0
    <3>1. {c \in Listeners : cursor'[c] = b} = {}
      BY <1>1 DEF LeaveAll, Buffers
    <3> QED
      BY <3>1, FS_EmptySet DEF HeldBy
  <2>2. count'[b] = count[b] - HeldBy(Listeners, b)
    BY <1>1 DEF LeaveAll
  <2>3. count[b] = One(b \in Linked) + One(b \in burst .. tail)
                     + HeldBy(Listeners, b)
    BY DEF RefCountExact
  <2>4. HeldBy(Listeners, b) \in Nat
    BY HeldType
  <2>5. ((b \in Linked)' <=> b \in Linked)
        /\ ((b \in burst .. tail)' <=> b \in burst .. tail)
    BY <1>2
  <2> QED
    BY <2>1, <2>2, <2>3, <2>4, <2>5 DEF One
<1>4. RefCountExact'
  BY <1>2, <1>3 DEF RefCountExact
<1>5. count' \in [Buffers' -> Nat]
  <2>1. count' = [b \in Buffers |-> count'[b]]
    BY <1>1 DEF LeaveAll
  <2> QED
    BY <1>2, <1>3, <2>1
<1>6. /\ pending' = {} /\ tree' = {} /\ todo' = {}
      /\ mode' = [c \in Listeners |-> "none"]
      /\ cursor' = [c \in Listeners |-> 0]
      /\ done' = [c \in Listeners |-> FALSE]
      /\ intro' = [c \in Listeners |-> -1]
  BY <1>1 DEF LeaveAll, QueueShape
<1>7. TypeOK'
  <2>1. intro' \in [Listeners -> -1 .. IntroLen]
    BY <1>6, BoundsAreNat
  <2>2. cursor' \in [Listeners -> 0 .. tail'] /\ done' \in [Listeners -> BOOLEAN]
        /\ mode' \in [Listeners -> Modes]
    BY <1>1, <1>6 DEF TypeOK, Modes
  <2> QED
    BY <1>1, <1>2, <1>5, <1>6, <2>1, <2>2 DEF TypeOK
<1>8. PointersInQueue' /\ SizesExact' /\ EndMonotone'
  BY <1>1, <1>6 DEF PointersInQueue, SizesExact, EndMonotone
<1>9. QueueShape' /\ ServedLeftHead' /\ BurstFits'
  BY <1>1, <1>6 DEF QueueShape, ServedLeftHead, BurstFits
<1> QED
  BY <1>4, <1>7, <1>8, <1>9

(* source_clear_source: the queue is freed, and nobody is left to read it. *)
LEMMA ClearSourceInv ==
    ASSUME IInv, ClearSource
    PROVE  IInv'
<1> USE DEF ClearSource
<1>1. cursor' = [c \in Listeners |-> 0]
  <2>1. \A c \in Listeners : c \notin tree \cup pending => cursor[c] = 0
    BY DEF IInv, PointersInQueue
  <2> QED
    BY <2>1
<1>2. 0 .. tail' = {0} /\ Buffers' = {}
  BY DEF Buffers
<1>3. TypeOK'
  <2>1. end' \in [0 .. tail' -> Nat] /\ count' \in [Buffers' -> Nat]
    BY <1>2
  <2>2. intro' \in [Listeners -> -1 .. IntroLen]
    BY BoundsAreNat
  <2>3. cursor' \in [Listeners -> 0 .. tail']
    BY <1>1, <1>2
  <2>4. running' \in BOOLEAN
    BY Zenon DEF IInv, TypeOK
  <2> QED
    BY <2>1, <2>2, <2>3, <2>4 DEF TypeOK, Modes
<1>4. RefCountExact'
  BY <1>2 DEF RefCountExact
<1>5. PointersInQueue' /\ SizesExact' /\ EndMonotone'
  BY <1>1 DEF PointersInQueue, SizesExact, EndMonotone
<1>6. QueueShape' /\ ServedLeftHead' /\ BurstFits'
  BY DEF QueueShape, ServedLeftHead, BurstFits
<1> QED
  BY <1>3, <1>4, <1>5, <1>6 DEF IInv

(* The trim loop stops at a linked buffer in use, no later than the burst  *)
(* point, and everything before it is referenced by the queue alone.       *)
LEMMA TrimStopProps ==
    ASSUME IInv, head # 0
    PROVE  /\ TrimStop \in head .. burst
           /\ InUse(TrimStop)
           /\ \A b \in head .. (TrimStop - 1) :
                 b \in Buffers /\ b < burst /\ count[b] = 1
                 /\ HeldBy(Listeners, b) = 0
<1> USE DEF IInv
<1> DEFINE S == {b \in Linked : InUse(b) \/ LastStop(b)}
<1>1. /\ tail # 0 /\ head \in 1 .. burst /\ burst \in head .. tail
      /\ Linked = head .. tail /\ head \in Nat /\ burst \in Nat /\ tail \in Nat
  BY DEF QueueShape, PointersInQueue, Linked, TypeOK
<1>2. burst \in S /\ S \in SUBSET Nat
  BY <1>1 DEF LastStop
<1>3. TrimStop \in S /\ \A x \in S : TrimStop <= x
  <2> HIDE DEF S
  <2>1. Min(S) \in S /\ \A x \in S : Min(S) <= x
    BY <1>2, MinOfNats
  <2> QED
    BY <2>1 DEF S, TrimStop
<1>4. TrimStop \in head .. burst
  BY <1>1, <1>2, <1>3
<1>5. InUse(TrimStop)
  <2>1. TrimStop = burst \/ TrimStop = tail => count[TrimStop] >= 2
    BY <1>1, CountBounds DEF Buffers
  <2> QED
    BY <1>3, <2>1 DEF InUse, LastStop
<1>6. ASSUME NEW b \in head .. (TrimStop - 1)
      PROVE  b \in Buffers /\ b < burst /\ count[b] = 1
             /\ HeldBy(Listeners, b) = 0
  <2>1. b \in Linked /\ b \in Buffers /\ b < burst
    BY <1>1, <1>4 DEF Buffers
  <2>2. b \notin S
    BY <1>1, <1>3, <1>4
  <2>3. count[b] = 1
    BY <2>1, <2>2 DEF InUse
  <2> QED
    BY <2>1, <2>3, CountBounds
<1> QED
  BY <1>4, <1>5, <1>6

(* Cutting the oldest buffer off the queue, as the end of source_main does. *)
LEMMA TrimQueueInv ==
    ASSUME IInv, TrimQueue
    PROVE  IInv'
<1> USE DEF IInv
<1>1. CASE head = 0
  <2>1. UNCHANGED <<queueVars, cursor, running, setting, removeFromQ, pending,
                    tree, todo, mode, done, intro>>
        /\ pc = "trim" /\ pc' \in {"read", "shutdown"}
    BY <1>1 DEF TrimQueue, queueVars, clientVars
  <2>2. ListenersOK'
    BY <2>1 DEF ListenersOK, TypeOK, PointersInQueue, QueueShape, Linked,
                ServedLeftHead, queueVars
  <2> QED
    BY <2>1, <2>2, QuietInv
<1>2. CASE head # 0
  <2> DEFINE t == TrimStop
  <2>1. /\ t \in head .. burst /\ InUse(t)
        /\ \A b \in head .. (t - 1) :
              b \in Buffers /\ b < burst /\ count[b] = 1
              /\ HeldBy(Listeners, b) = 0
    BY <1>2, TrimStopProps
  <2>2. /\ pc = "trim" /\ pc' \in {"read", "shutdown"}
        /\ head' = t
        /\ queueSize' = queueSize - (end[t - 1] - end[head - 1])
        /\ count' = [b \in Buffers |->
                        IF b \in head .. (t - 1) THEN 0 ELSE count[b]]
        /\ UNCHANGED <<tail, burst, end, sync, burstOffset, setting,
                       removeFromQ, pending, tree, todo, mode, cursor, done,
                       intro>>
    BY <1>2 DEF TrimQueue, clientVars
  <2>3. running' = running
    BY <1>2, <2>1 DEF TrimQueue, TypeOK
  <2> HIDE DEF t
  <2>4. /\ tail # 0 /\ head \in 1 .. burst /\ burst \in head .. tail
        /\ head \in Nat /\ burst \in Nat /\ tail \in Nat /\ t \in Nat /\ t # 0
        /\ Linked = head .. tail /\ Linked' = t .. tail
        /\ Buffers' = Buffers
    BY <1>2, <2>1, <2>2
       DEF QueueShape, PointersInQueue, Linked, TypeOK, Buffers
  <2>5. \A c \in Listeners : mode[c] = "queue" => cursor[c] \in t .. tail
    <3> SUFFICES ASSUME NEW c \in Listeners, mode[c] = "queue"
                 PROVE  cursor[c] \in t .. tail
      OBVIOUS
    <3>1. cursor[c] \in head .. tail
      BY <2>4 DEF PointersInQueue
    <3>2. cursor[c] \notin head .. (t - 1)
      BY <2>1, HeldType
    <3> QED
      BY <2>4, <3>1, <3>2
  <2>6. ASSUME NEW b \in Buffers
        PROVE  count'[b] = One((b \in Linked)') + One((b \in burst .. tail)')
                           + HeldBy(Listeners, b)'
    <3>1. HeldBy(Listeners, b)' = HeldBy(Listeners, b)
      BY <2>2 DEF HeldBy
    <3>2. count[b] = One(b \in Linked) + One(b \in burst .. tail)
                       + HeldBy(Listeners, b)
      BY DEF RefCountExact
    <3>3. (burst .. tail)' = burst .. tail
      BY <2>2
    <3>4. CASE b \in head .. (t - 1)
      <4>1. count'[b] = 0 /\ HeldBy(Listeners, b) = 0 /\ b < burst
        BY <2>1, <2>2, <3>4
      <4>2. b \notin t .. tail /\ b \notin burst .. tail
        BY <2>4, <3>4, <4>1
      <4>3. ~(b \in Linked)' /\ ~(b \in burst .. tail)'
        BY <2>4, <3>3, <4>2
      <4> QED
        BY <3>1, <4>1, <4>3 DEF One
    <3>5. CASE b \notin head .. (t - 1)
      <4>1. count'[b] = count[b]
        BY <2>2, <3>5
      <4>2. b \in head .. tail <=> b \in t .. tail
        BY <2>1, <2>4, <3>5 DEF Buffers
      <4> QED
        BY <2>4, <3>1, <3>2, <3>3, <4>1, <4>2 DEF One
    <3> QED
      BY <3>4, <3>5
  <2>7. RefCountExact'
    BY <2>4, <2>6 DEF RefCountExact
  <2>8. queueSize' = end[tail] - end[t - 1] /\ queueSize' \in Nat
    <3>1. queueSize = end[tail] - end[head - 1]
      BY <2>4 DEF SizesExact
    <3>2. t - 1 \in 0 .. tail /\ head - 1 \in 0 .. tail /\ tail \in 0 .. tail
          /\ t - 1 <= tail
      BY <2>1, <2>4
    <3>3. end[t - 1] \in Nat /\ end[head - 1] \in Nat /\ end[tail] \in Nat
      BY <3>2 DEF TypeOK
    <3>4. end[t - 1] <= end[tail]
      BY <3>2 DEF EndMonotone
    <3> QED
      BY <2>2, <3>1, <3>3, <3>4
  <2>9. TypeOK'
    <3>1. count' \in [Buffers -> Nat]
      BY <2>2 DEF TypeOK
    <3> QED
      BY <2>2, <2>3, <2>4, <2>8, <3>1 DEF TypeOK
  <2>10. PointersInQueue'
    BY <2>1, <2>2, <2>4, <2>5 DEF PointersInQueue
  <2>11. SizesExact' /\ EndMonotone' /\ BurstFits'
    BY <2>2, <2>8 DEF SizesExact, EndMonotone, BurstFits
  <2>12. QueueShape' /\ ServedLeftHead'
    BY <2>2, <2>4 DEF QueueShape, ServedLeftHead
  <2> QED
    BY <2>7, <2>9, <2>10, <2>11, <2>12
<1> QED
  BY <1>1, <1>2

(* The part of a Serve step that is the same for every outcome. *)
Visit(c) ==
    /\ pc = "serve" /\ c \in todo
    /\ todo' = todo \ {c}
    /\ UNCHANGED <<pc, running, head, tail, burst, end, sync, queueSize,
                   burstOffset, setting, removeFromQ, pending>>

(* A listener that has been served takes a place b in the queue, not the   *)
(* head if that is to be cut, or gives up its place and leaves.            *)
LEMMA PlaceInv ==
    ASSUME IInv, NEW c \in Listeners, Visit(c),
           NEW b \in Linked \cup {0}, SetQueue(c, b),
           NEW m, mode' = [mode EXCEPT ![c] = m],
           \/ m = "none" /\ b = 0 /\ tree' = tree \ {c}
           \/ m = "queue" /\ b # 0 /\ tree' = tree /\ (removeFromQ => b # head),
           done' \in [Listeners -> BOOLEAN],
           intro' \in [Listeners -> -1 .. IntroLen]
    PROVE  IInv'
<1> USE DEF IInv, Visit
<1>1. /\ RefCountExact'
      /\ count' \in [Buffers' -> Nat]
      /\ cursor' \in [Listeners -> (0 .. tail)']
  BY SetQueueCounts
<1>2. cursor' = [cursor EXCEPT ![c] = b]
  BY DEF SetQueue
<1>3. Buffers' = Buffers /\ Linked' = Linked
  BY DEF Buffers, Linked
<1>4. TypeOK'
  BY <1>1, <1>3 DEF TypeOK, Modes
<1>5. 0 \notin Linked
  BY DEF Linked, TypeOK, QueueShape
<1>6. c \in tree /\ c \notin pending
  BY DEF TypeOK
<1>7. PointersInQueue'
  <2>1. ASSUME NEW d \in Listeners
        PROVE  /\ mode'[d] = "queue" => cursor'[d] \in Linked' /\ d \in tree'
               /\ mode'[d] # "queue" => cursor'[d] = 0
    BY <1>2, <1>3, <1>5, <1>6 DEF PointersInQueue, TypeOK
  <2>2. (tail # 0 => head \in 1 .. burst /\ burst \in head .. tail)'
    BY DEF PointersInQueue
  <2> QED
    BY <2>1, <2>2 DEF PointersInQueue
<1>8. SizesExact' /\ EndMonotone' /\ BurstFits'
  BY DEF SizesExact, EndMonotone, BurstFits
<1>9. QueueShape'
  <2>1. ASSUME NEW d \in Listeners
        PROVE  mode'[d] = "none" <=> d \notin (pending \cup tree)'
    BY <1>6 DEF QueueShape, TypeOK
  <2> QED
    BY <2>1 DEF QueueShape
<1>10. ServedLeftHead'
  BY <1>2 DEF ServedLeftHead, TypeOK
<1> QED
  BY <1>1, <1>4, <1>7, <1>8, <1>9, <1>10

(* A listener that has been served stays where it is, outside the queue. *)
LEMMA StayInv ==
    ASSUME IInv, NEW c \in Listeners, Visit(c),
           UNCHANGED <<count, cursor, done, tree>>,
           mode[c] \in {"http", "file", "moved"},
           NEW m \in {"http", "file", "moved"}, mode' = [mode EXCEPT ![c] = m],
           NEW i \in -1 .. IntroLen, intro' = [intro EXCEPT ![c] = i]
    PROVE  IInv'
<1> USE DEF IInv, Visit
<1>1. UNCHANGED <<queueVars, cursor>>
  BY DEF queueVars
<1>2. mode' \in [Listeners -> Modes] /\ intro' \in [Listeners -> -1 .. IntroLen]
  BY DEF TypeOK, Modes
<1>3. QueueShape'
  BY DEF QueueShape, TypeOK
<1>4. ServedLeftHead'
  BY DEF ServedLeftHead, TypeOK
<1>5. \A d \in Listeners :
          /\ mode'[d] = "queue" => cursor'[d] \in Linked' /\ d \in tree'
          /\ mode'[d] # "queue" => cursor'[d] = 0
  BY DEF PointersInQueue, TypeOK, Linked
<1>6. ListenersOK'
  BY <1>2, <1>3, <1>4, <1>5 DEF ListenersOK, TypeOK
<1> QED
  BY <1>1, <1>6, QuietInv

(* find_client_start returns a linked buffer or nothing. *)
LEMMA ClientStartLinked ==
    ASSUME IInv, NEW i
    PROVE  ClientStart(i) \in Linked \cup {0}
<1> DEFINE found == {b \in sync : WalkEnd(i) <= b}
           stops == {tail} \cup {b \in burst .. tail : SizeLeft(i, b) = 0}
<1>1. CASE tail = 0 \/ found = {}
  BY <1>1 DEF ClientStart
<1>2. CASE tail # 0 /\ found # {}
  <2>1. /\ head \in 1 .. burst /\ burst \in head .. tail /\ Linked = head .. tail
        /\ tail \in Nat /\ head \in Nat /\ burst \in Nat
    BY <1>2 DEF IInv, PointersInQueue, QueueShape, Linked, TypeOK
  <2>2. WalkEnd(i) \in burst .. tail
    <3>1. stops # {} /\ \A x \in stops : x \in burst .. tail
      BY <2>1
    <3>2. stops \in SUBSET Nat
      BY <2>1, <3>1
    <3> HIDE DEF stops
    <3>3. Min(stops) \in stops
      BY <3>1, <3>2, MinOfNats
    <3>4. WalkEnd(i) = tail \/ WalkEnd(i) = Min(stops)
      BY DEF WalkEnd, stops
    <3>5. Min(stops) \in burst .. tail /\ tail \in burst .. tail
      BY <2>1, <3>1, <3>3
    <3> QED
      BY <3>4, <3>5
  <2>3. found \in SUBSET (head .. tail) /\ found \in SUBSET Nat
    <3>1. sync \subseteq 1 .. tail
      BY DEF IInv, TypeOK, Buffers
    <3>2. ASSUME NEW b \in found PROVE b \in head .. tail /\ b \in Nat
      <4>1. b \in 1 .. tail /\ WalkEnd(i) <= b
        BY <3>1
      <4> HIDE DEF found
      <4> QED
        BY <2>1, <2>2, <4>1
    <3> QED
      BY <3>2
  <2>4. ClientStart(i) = Min(found)
    BY <1>2 DEF ClientStart
  <2> HIDE DEF found
  <2>5. Min(found) \in found
    BY <1>2, <2>3, MinOfNats
  <2> QED
    BY <2>1, <2>3, <2>4, <2>5
<1> QED
  BY <1>1, <1>2

(* A listener that leaves the source gives its reference back. *)
LEMMA RemoveInv ==
    ASSUME IInv, NEW c \in Listeners, Visit(c), RemoveClient(c)
    PROVE  IInv'
<1>1. /\ SetQueue(c, 0) /\ mode' = [mode EXCEPT ![c] = "none"]
      /\ tree' = tree \ {c}
  BY DEF RemoveClient
<1>2. done' \in [Listeners -> BOOLEAN] /\ intro' \in [Listeners -> -1 .. IntroLen]
  BY BoundsAreNat DEF RemoveClient, IInv, TypeOK
<1> QED
  BY <1>1, <1>2, PlaceInv

(* The end of the turn of a listener in send_to_listener. *)
LEMMA SettleInv ==
    ASSUME IInv, NEW c \in Listeners, Visit(c),
           NEW b \in Linked, NEW isDone \in BOOLEAN, Settle(c, b, isDone)
    PROVE  IInv'
<1>1. CASE removeFromQ /\ b = head
  BY <1>1, RemoveInv DEF Settle
<1>2. CASE ~(removeFromQ /\ b = head)
  <2>1. /\ SetQueue(c, b) /\ mode' = [mode EXCEPT ![c] = "queue"]
        /\ tree' = tree
    BY <1>2 DEF Settle
  <2>2. done' \in [Listeners -> BOOLEAN] /\ intro' \in [Listeners -> -1 .. IntroLen]
    <3>1. done' = [done EXCEPT ![c] = isDone] /\ intro' = [intro EXCEPT ![c] = -1]
      BY <1>2 DEF Settle
    <3>2. done' \in [Listeners -> BOOLEAN]
      BY <3>1, Zenon DEF IInv, TypeOK
    <3>3. intro' \in [Listeners -> -1 .. IntroLen]
      BY <3>1, BoundsAreNat DEF IInv, TypeOK
    <3> QED
      BY <3>2, <3>3
  <2>3. b # 0
    BY DEF Linked, IInv, TypeOK, QueueShape
  <2> QED
    BY <1>2, <2>1, <2>2, <2>3, PlaceInv
<1> QED
  BY <1>1, <1>2

(* find_client_start puts a listener on a buffer of the queue. *)
LEMMA FindStartInv ==
    ASSUME IInv, NEW c \in Listeners, Visit(c), NEW i \in -1 .. IntroLen,
           mode[c] \in {"file", "moved"}, FindStart(c, i)
    PROVE  IInv'
<1>1. CASE ClientStart(i) # 0
  <2>1. ClientStart(i) \in Linked
    BY <1>1, ClientStartLinked
  <2>2. Settle(c, ClientStart(i), FALSE)
    BY <1>1 DEF FindStart
  <2> QED
    BY <2>1, <2>2, SettleInv
<1>2. CASE ClientStart(i) = 0
  BY <1>2, StayInv DEF FindStart
<1> QED
  BY <1>1, <1>2

(* One step of send_to_listener. *)
LEMMA ServeInv ==
    ASSUME IInv, NEW c \in Listeners, Serve(c)
    PROVE  IInv'
<1>1. Visit(c)
  BY DEF Serve, Visit
<1>2. intro[c] \in -1 .. IntroLen
  BY DEF IInv, TypeOK
<1>3. CASE SendHeaders(c)
  <2>1. PICK sent \in BOOLEAN :
          /\ mode' = [mode EXCEPT ![c] = IF sent THEN "file" ELSE "http"]
          /\ intro' = [intro EXCEPT ![c] = IF sent THEN 0 ELSE intro[c]]
    BY <1>3 DEF SendHeaders
  <2>2. UNCHANGED <<count, cursor, done, tree>> /\ mode[c] = "http"
    BY <1>3 DEF SendHeaders
  <2>3. CASE sent
    <3>1. mode' = [mode EXCEPT ![c] = "file"] /\ intro' = [intro EXCEPT ![c] = 0]
      BY <2>1, <2>3
    <3>2. 0 \in -1 .. IntroLen
      BY BoundsAreNat
    <3> QED
      BY <1>1, <2>2, <3>1, <3>2, StayInv
  <2>4. CASE ~sent
    BY <1>1, <1>2, <2>1, <2>2, <2>4, StayInv
  <2> QED
    BY <2>3, <2>4
<1>4. CASE SendIntro(c)
  <2>1. PICK i \in intro[c] .. IntroLen : intro' = [intro EXCEPT ![c] = i]
    BY <1>4 DEF SendIntro
  <2>2. UNCHANGED <<mode, count, cursor, done, tree>> /\ mode[c] = "file"
    BY <1>4 DEF SendIntro
  <2>3. mode' = [mode EXCEPT ![c] = "file"] /\ i \in -1 .. IntroLen
    BY <1>2, <2>1, <2>2, BoundsAreNat DEF IInv, TypeOK
  <2> QED
    BY <1>1, <2>1, <2>2, <2>3, StayInv
<1>5. CASE IntroEnds(c)
  <2>1. CASE tail # 0
    BY <1>1, <1>5, <2>1, FindStartInv, BoundsAreNat DEF IntroEnds
  <2>2. CASE tail = 0
    <3>1. mode' = [mode EXCEPT ![c] = "file"] /\ mode[c] = "file"
          /\ UNCHANGED <<count, cursor, done, tree>>
          /\ intro' = [intro EXCEPT ![c] = 0]
      BY <1>5, <2>2 DEF IntroEnds, IInv, TypeOK
    <3>2. 0 \in -1 .. IntroLen
      BY BoundsAreNat
    <3> QED
      BY <1>1, <3>1, <3>2, StayInv
  <2> QED
    BY <2>1, <2>2
<1>6. CASE SendMoved(c)
  BY <1>1, <1>2, <1>6, FindStartInv DEF SendMoved
<1>7. CASE SendQueue(c)
  <2>1. PICK b \in cursor[c] .. tail, isDone \in BOOLEAN : Settle(c, b, isDone)
    BY <1>7 DEF SendQueue
  <2>2. b \in Linked
    <3>1. cursor[c] \in Linked
      BY <1>7 DEF SendQueue, IInv, PointersInQueue
    <3> QED
      BY <3>1, <2>1 DEF Linked, IInv, TypeOK
  <2> QED
    BY <1>1, <2>1, <2>2, SettleInv
<1>8. CASE SendError(c)
  BY <1>1, <1>8, RemoveInv DEF SendError
<1> QED
  BY <1>3, <1>4, <1>5, <1>6, <1>7, <1>8 DEF Serve

(* The burst point stops between its old place and the new tail, at a      *)
(* place where the burst fits its size unless that is the tail itself.     *)
LEMMA BurstStopProps ==
    ASSUME NEW from \in Nat, NEW to \in Nat, from <= to, NEW ends, NEW size
    PROVE  /\ BurstStop(from, to, ends, size) \in from .. to
           /\ BurstStop(from, to, ends, size) # to
                => ends[to] - ends[BurstStop(from, to, ends, size) - 1] <= size
<1> DEFINE S == {to} \cup {b \in from .. to : ends[to] - ends[b - 1] <= size}
<1>1. S # {} /\ S \in SUBSET Nat
  OBVIOUS
<1>2. \A b \in S : b \in from .. to /\ (b # to => ends[to] - ends[b - 1] <= size)
  OBVIOUS
<1>3. BurstStop(from, to, ends, size) = Min(S)
  BY DEF BurstStop
<1> HIDE DEF S
<1>4. Min(S) \in S
  BY <1>1, MinOfNats
<1> QED
  BY <1>2, <1>3, <1>4

(* get_next_buffer appends a buffer and moves the burst point. *)
LEMMA ReadBufferInv ==
    ASSUME IInv, ReadBuffer
    PROVE  IInv'
<1> DEFINE t == tail + 1
           from == IF head = 0 THEN t ELSE burst
<1>1. PICK len \in Lens, isSync \in BOOLEAN : AppendBuffer(len, isSync)
  BY DEF ReadBuffer
<1>2. /\ pc = "read" /\ pc' = "check" /\ running' \in BOOLEAN
      /\ UNCHANGED <<setting, removeFromQ, pending, tree, todo, mode, cursor,
                     done, intro>>
  BY DEF ReadBuffer, clientVars
<1> DEFINE ends == [b \in 0 .. t |-> IF b = t THEN end[tail] + len ELSE end[b]]
           to == BurstStop(from, t, ends, setting.burst)
<1>3. /\ tail' = t /\ end' = ends /\ burst' = to
      /\ head' = (IF head = 0 THEN t ELSE head)
      /\ sync' = (IF isSync THEN sync \cup {t} ELSE sync)
      /\ queueSize' = queueSize + len
      /\ burstOffset' = burstOffset + len - (ends[to - 1] - ends[from - 1])
      /\ count' = [b \in 1 .. t |->
                      (IF b = t THEN 2 ELSE count[b])
                      - (IF b \in from .. (to - 1) THEN 1 ELSE 0)]
  BY <1>1 DEF AppendBuffer
<1>4. /\ tail \in Nat /\ t \in Nat /\ t = tail + 1 /\ head \in Nat /\ burst \in Nat
      /\ len \in Nat /\ len > 0
      /\ head # 0 => head \in 1 .. burst /\ burst \in head .. tail
      /\ head = 0 => tail = 0 /\ t = 1 /\ burst = 0 /\ queueSize = 0
                     /\ burstOffset = 0
  BY LensPositive DEF IInv, TypeOK, PointersInQueue, QueueShape
<1>5. from \in Nat /\ from <= t /\ from >= 1
      /\ (head # 0 => from = burst) /\ (head = 0 => from = t)
  BY <1>4
<1>6. /\ \A b \in 0 .. tail : ends[b] = end[b] /\ ends[b] \in Nat
      /\ ends[t] = end[tail] + len /\ ends[t] \in Nat
      /\ end[tail] \in Nat
  BY <1>4 DEF IInv, TypeOK
<1>7. ends \in [0 .. t -> Nat]
  <2>1. \A b \in 0 .. t : ends[b] \in Nat
    <3>1. \A b \in 0 .. t : b = t \/ b \in 0 .. tail
      BY <1>4
    <3> HIDE DEF ends, t
    <3> QED
      BY <1>6, <3>1
  <2> QED
    BY <2>1
<1>8. \A x, y \in 0 .. t : x <= y => ends[x] <= ends[y]
  <2>1. \A x, y \in 0 .. tail : x <= y => end[x] <= end[y]
    BY DEF IInv, EndMonotone
  <2>2. \A x \in 0 .. t : x # t => x \in 0 .. tail
    BY <1>4
  <2>3. tail \in 0 .. tail
    BY <1>4
  <2> HIDE DEF ends, t
  <2> QED
    BY <1>4, <1>6, <2>1, <2>2, <2>3
<1>9. to \in from .. t /\ (to # t => ends[t] - ends[to - 1] <= setting.burst)
  <2> HIDE DEF ends, t, from
  <2> QED
    BY <1>4, <1>5, BurstStopProps
<1> HIDE DEF ends, to, from, t
<1>10. to \in Nat /\ to - 1 \in 0 .. tail /\ from - 1 \in 0 .. tail
  BY <1>4, <1>5, <1>9
<1>11. queueSize' = ends[t] - ends[head' - 1] /\ queueSize' \in Nat
  <2>1. CASE head = 0
    <3>1. end[0] \in Nat /\ ends[0] = end[0]
      BY <1>4, <1>6
    <3> QED
      BY <1>3, <1>4, <1>6, <2>1, <3>1
  <2>2. CASE head # 0
    <3>1. queueSize = end[tail] - end[head - 1] /\ queueSize \in Nat
      BY <1>4, <2>2 DEF IInv, SizesExact, TypeOK, QueueShape
    <3>2. head - 1 \in 0 .. tail
      BY <1>4, <2>2
    <3>3. head' = head /\ queueSize' = queueSize + len
      BY <1>3, <2>2
    <3>4. ends[head - 1] = end[head - 1] /\ end[head - 1] \in Nat
      BY <1>6, <3>2
    <3>5. ends[t] = end[tail] + len /\ end[tail] \in Nat /\ len \in Nat
      BY <1>4, <1>6
    <3>6. queueSize + len = ends[t] - ends[head - 1]
      BY <3>1, <3>4, <3>5
    <3> QED
      BY <1>4, <3>1, <3>3, <3>6
  <2> QED
    BY <2>1, <2>2
<1>12. burstOffset' = ends[t] - ends[to - 1] /\ burstOffset' \in Nat
  <2>1. ends[from - 1] \in Nat /\ ends[to - 1] \in Nat /\ ends[to - 1] <= ends[t]
    BY <1>4, <1>6, <1>8, <1>10
  <2>2. burstOffset + len = ends[t] - ends[from - 1]
    <3>1. CASE head = 0
      <4>1. from - 1 = tail
        BY <1>4, <1>5, <3>1
      <4> QED
        BY <1>4, <1>6, <3>1, <4>1, <2>1
    <3>2. CASE head # 0
      <4>1. burstOffset = end[tail] - end[burst - 1]
        BY <1>4, <3>2 DEF IInv, SizesExact, QueueShape
      <4>2. from = burst
        BY <1>5, <3>2
      <4> QED
        BY <1>4, <1>6, <1>10, <4>1, <4>2
    <3> QED
      BY <3>1, <3>2
  <2>3. burstOffset' = burstOffset + len - (ends[to - 1] - ends[from - 1])
        /\ burstOffset \in Nat
    BY <1>3 DEF IInv, TypeOK
  <2> QED
    BY <1>4, <1>6, <2>1, <2>2, <2>3
<1>13. Buffers = 1 .. tail /\ Buffers' = 1 .. t
  BY <1>3 DEF Buffers
<1>14. Linked' = head' .. t /\ (head # 0 => Linked = head .. tail)
       /\ (head = 0 => Linked = {})
  BY <1>3, <1>4 DEF Linked
<1>15. ASSUME NEW b \in 1 .. t
       PROVE  /\ count'[b] = One((b \in Linked)') + One((b \in burst .. tail)')
                             + HeldBy(Listeners, b)'
              /\ count'[b] \in Nat
  <2>1. HeldBy(Listeners, b)' = HeldBy(Listeners, b)
    BY <1>2 DEF HeldBy
  <2>2. (b \in burst .. tail)' <=> b \in to .. t
    BY <1>3
  <2>3. CASE b = t
    <3>1. HeldBy(Listeners, b) = 0
      BY <1>4, <2>3, HeldType DEF IInv, TypeOK
    <3>2. count'[b] = 2 /\ b \in to .. t /\ b \in head' .. t
      BY <1>3, <1>4, <1>9, <2>3
    <3> QED
      BY <1>14, <2>1, <2>2, <3>1, <3>2 DEF One
  <2>4. CASE b # t
    <3>1. b \in 1 .. tail /\ head # 0 /\ tail # 0
      BY <1>4, <2>4
    <3>2. count[b] = One(b \in Linked) + One(b \in burst .. tail)
                       + HeldBy(Listeners, b)
      BY <1>13, <3>1 DEF IInv, RefCountExact
    <3>3. count'[b] = count[b] - (IF b \in burst .. (to - 1) THEN 1 ELSE 0)
      BY <1>3, <1>5, <2>4, <3>1
    <3>4. (b \in Linked)' <=> b \in Linked
      BY <1>3, <1>4, <1>14, <3>1
    <3>5. b \in burst .. tail <=> b \in burst .. (to - 1) \/ b \in to .. t
      BY <1>4, <1>5, <1>9, <3>1
    <3>6. ~(b \in burst .. (to - 1) /\ b \in to .. t)
      BY <1>4, <1>9, <1>10
    <3>7. HeldBy(Listeners, b) \in Nat
      BY HeldType
    <3> QED
      BY <2>1, <2>2, <3>2, <3>3, <3>4, <3>5, <3>6, <3>7 DEF One
  <2> QED
    BY <2>3, <2>4
<1>16. RefCountExact'
  BY <1>13, <1>15 DEF RefCountExact
<1>17. TypeOK'
  <2>1. count' \in [Buffers' -> Nat]
    BY <1>3, <1>13, <1>15
  <2>2. sync' \subseteq Buffers'
    BY <1>3, <1>4, <1>13 DEF IInv, TypeOK
  <2>3. cursor' \in [Listeners -> 0 .. tail']
    BY <1>2, <1>3, <1>4 DEF IInv, TypeOK
  <2>4. head' \in Nat /\ tail' \in Nat /\ burst' \in Nat
        /\ end' \in [0 .. tail' -> Nat]
    BY <1>3, <1>4, <1>7, <1>10
  <2> QED
    BY <1>2, <1>11, <1>12, <2>1, <2>2, <2>3, <2>4 DEF IInv, TypeOK
<1>18. PointersInQueue'
  <2>1. head' \in 1 .. to /\ to \in head' .. t
    BY <1>3, <1>4, <1>5, <1>9
  <2>2. ASSUME NEW c \in Listeners
        PROVE  /\ mode'[c] = "queue" => cursor'[c] \in Linked' /\ c \in tree'
               /\ mode'[c] # "queue" => cursor'[c] = 0
    BY <1>2, <1>3, <1>4, <1>14 DEF IInv, PointersInQueue
  <2> QED
    BY <1>3, <2>1, <2>2 DEF PointersInQueue
<1>19. SizesExact' /\ EndMonotone'
  <2>1. ASSUME NEW b \in 1 .. t PROVE ends[b] - ends[b - 1] \in Lens
    <3>1. CASE b = t
      BY <1>4, <1>6, <3>1
    <3>2. CASE b # t
      <4>1. b \in 1 .. tail /\ b \in 0 .. tail /\ b - 1 \in 0 .. tail
        BY <1>4, <3>2
      <4> QED
        BY <1>6, <4>1 DEF IInv, EndMonotone
    <3> QED
      BY <3>1, <3>2
  <2> QED
    BY <1>3, <1>8, <1>11, <1>12, <2>1 DEF SizesExact, EndMonotone
<1>20. QueueShape' /\ ServedLeftHead'
  BY <1>2, <1>3, <1>4 DEF IInv, QueueShape, ServedLeftHead
<1>21. BurstFits'
  <2>1. setting \in Settings
    BY <1>2 DEF IInv, QueueShape
  <2> QED
    BY <1>3, <1>9, <1>12, <2>1 DEF BurstFits
<1> QED
  BY <1>16, <1>17, <1>18, <1>19, <1>20, <1>21 DEF IInv

----------------------------------------------------------------------------
(* The invariant is inductive. *)
LEMMA NextInv == IInv /\ [Next]_vars => IInv'
<1> SUFFICES ASSUME IInv, [Next]_vars PROVE IInv'
  OBVIOUS
<1>1. ASSUME NEW c \in Listeners, Serve(c) PROVE IInv'
  BY <1>1, ServeInv
<1>2. ASSUME NEW c \in Listeners, AddListener(c) PROVE IInv'
  <2>1. -1 \in -1 .. IntroLen
    BY BoundsAreNat
  <2> QED
    BY <1>2, <2>1, AddListenerInv
<1>3. ASSUME NEW c \in Listeners, NEW i \in -1 .. IntroLen, MoveIn(c, i)
      PROVE  IInv'
  BY <1>3, AddListenerInv
<1>4. CASE Fallback \/ MoveOut
  BY <1>4, LeaveAllInv
<1>5. CASE \/ Start \/ ReadNothing \/ CheckLimit \/ NoFallback
           \/ Reload \/ Stop \/ UNCHANGED vars
  BY <1>5, FlagsInv
<1>6. CASE ReadBuffer
  BY <1>6, ReadBufferInv
<1>7. CASE AdmitPending
  BY <1>7, AdmitPendingInv
<1>8. CASE TrimQueue
  BY <1>8, TrimQueueInv
<1>9. CASE ClearSource
  BY <1>9, ClearSourceInv
<1> QED
  BY <1>1, <1>2, <1>3, <1>4, <1>5, <1>6, <1>7, <1>8, <1>9
     DEF Next, SourceThread

(* The queue of every reachable state satisfies the inductive invariant. *)
THEOREM Invariance == Spec => []IInv
<1> QED
  BY InitInv, NextInv, PTL DEF Spec

(* Type correctness: the variables of the source keep their types over any *)
(* sequence of reads, sends, moves, reloads and restarts.                  *)
THEOREM TypeCorrect == Spec => []TypeOK
<1>1. IInv => TypeOK
  BY DEF IInv
<1> QED
  BY <1>1, Invariance, PTL

(* The reference count of every buffer is the number of its holders, so    *)
(* source_main, source_move_clients and client_set_queue never free a      *)
(* buffer in use and never leak one.                                       *)
THEOREM CountsExact == Spec => []RefCountExact
<1>1. IInv => RefCountExact
  BY DEF IInv
<1> QED
  BY <1>1, Invariance, PTL

(* No listener and no burst point refers to a buffer outside the queue.    *)
THEOREM NoDangling == Spec => []PointersInQueue
<1>1. IInv => PointersInQueue
  BY DEF IInv
<1> QED
  BY <1>1, Invariance, PTL

(* queue_size and burst_offset never drift from the real amount of data.   *)
THEOREM SizesCorrect == Spec => []SizesExact
<1>1. IInv => SizesExact
  BY DEF IInv
<1> QED
  BY <1>1, Invariance, PTL

(* "queue state is unexpected" is unreachable: the trim loop never stops   *)
(* the source.                                                             *)
THEOREM TrimHarmless == Spec => TrimNeverStopsSource
<1>1. IInv /\ [Next]_vars
        => (pc = "trim" /\ pc' # "trim" => running' = running) \/ UNCHANGED vars
  <2> SUFFICES ASSUME IInv, Next, pc = "trim", pc' # "trim"
               PROVE  running' = running
    BY DEF vars
  <2>1. TrimQueue
    BY DEF Next, SourceThread, Start, ReadBuffer, ReadNothing, CheckLimit,
           Serve, AdmitPending, Fallback, NoFallback, ClearSource,
           AddListener, MoveIn, MoveOut, Reload, Stop, TreesFree
  <2>2. CASE head = 0
    BY <2>1, <2>2 DEF TrimQueue
  <2>3. CASE head # 0
    <3>1. InUse(TrimStop)
      BY <2>3, TrimStopProps
    <3>2. running' = (running /\ InUse(TrimStop))
      BY <2>1, <2>3 DEF TrimQueue
    <3> QED
      BY <3>1, <3>2 DEF IInv, TypeOK
  <2> QED
    BY <2>2, <2>3
<1> QED
  BY <1>1, Invariance, PTL DEF Spec, TrimNeverStopsSource

(* A queue found over its limit loses its head in the same iteration,      *)
(* unless that is burst data: every listener still there was removed.      *)
THEOREM TrimProgress == Spec => OverLimitIsCut
<1>1. IInv /\ [Next]_vars
        => (pc = "trim" /\ pc' # "trim" /\ removeFromQ
              => head' > head \/ head' = burst)
           \/ UNCHANGED vars
  <2> SUFFICES ASSUME IInv, Next, pc = "trim", pc' # "trim", removeFromQ
               PROVE  head' > head \/ head' = burst
    BY DEF vars
  <2>1. TrimQueue
    BY DEF Next, SourceThread, Start, ReadBuffer, ReadNothing, CheckLimit,
           Serve, AdmitPending, Fallback, NoFallback, ClearSource,
           AddListener, MoveIn, MoveOut, Reload, Stop, TreesFree
  <2>2. CASE head = 0
    BY <2>1, <2>2 DEF TrimQueue, IInv, QueueShape
  <2>3. CASE head # 0
    <3>1. head' = TrimStop /\ TrimStop \in head .. burst /\ InUse(TrimStop)
      BY <2>1, <2>3, TrimStopProps DEF TrimQueue
    <3>2. head \in Nat /\ burst \in head .. tail /\ tail \in Nat /\ head \in Buffers
      BY <2>3 DEF IInv, TypeOK, PointersInQueue, QueueShape, Buffers
    <3>3. ASSUME head' = head, head # burst
          PROVE  FALSE
      <4>1. \A c \in Listeners : cursor[c] # head
        BY <2>3 DEF IInv, TypeOK, QueueShape, PointersInQueue, ServedLeftHead
      <4>2. HeldBy(Listeners, head) = 0
        BY <4>1, HeldType
      <4>3. head \in Linked /\ head \notin burst .. tail
        BY <2>3, <3>1, <3>2, <3>3 DEF Linked
      <4>4. count[head] = One(head \in Linked) + One(head \in burst .. tail)
                            + HeldBy(Listeners, head)
        BY <3>2 DEF IInv, RefCountExact
      <4>5. count[head] = 1
        BY <4>2, <4>3, <4>4 DEF One
      <4> QED
        BY <3>1, <3>3, <4>5 DEF InUse
    <3> QED
      BY <3>1, <3>2, <3>3
  <2> QED
    BY <2>2, <2>3
<1> QED
  BY <1>1, Invariance, PTL DEF Spec, OverLimitIsCut

(* With every queue size at least as large as every burst size and every   *)
(* buffer, the buffers taken from slow listeners are never burst data.     *)
THEOREM BurstIsSafe ==
    ASSUME \A s, t \in Settings : s.burst <= t.limit,
           \A n \in Lens, t \in Settings : n <= t.limit
    PROVE  Spec => []BurstNotEvicted
<1>1. Init => BurstNotEvicted
  BY DEF Init, BurstNotEvicted
<1>2. IInv /\ BurstNotEvicted /\ [Next]_vars => BurstNotEvicted'
  <2> SUFFICES ASSUME IInv, BurstNotEvicted, [Next]_vars,
                      pc' = "serve", removeFromQ'
               PROVE  head' < burst'
    BY DEF BurstNotEvicted
  <2>1. CASE CheckLimit
    <3>1. head' = head /\ burst' = burst /\ queueSize > setting.limit
      BY <2>1 DEF CheckLimit, queueVars
    <3>2. setting \in Settings /\ setting.limit \in Nat
      BY <2>1, SettingsAreSizes DEF CheckLimit, IInv, QueueShape
    <3>3. tail # 0 /\ queueSize \in Nat /\ head \in Nat /\ burst \in Nat
          /\ tail \in Nat /\ head <= burst
      BY <3>1, <3>2 DEF IInv, QueueShape, TypeOK, PointersInQueue
    <3>4. ASSUME head = burst
          PROVE  FALSE
      <4>1. queueSize = burstOffset
        BY <3>3, <3>4 DEF IInv, SizesExact
      <4>2. CASE burst = tail
        <5>1. queueSize \in Lens
          BY <3>3, <3>4, <4>2 DEF IInv, SizesExact, EndMonotone
        <5> QED
          BY <3>1, <3>2, <3>3, <5>1
      <4>3. CASE burst # tail
        <5>1. PICK s \in Settings : burstOffset <= s.burst
          BY <3>3, <4>3 DEF IInv, BurstFits
        <5>2. s.burst <= setting.limit /\ s.burst \in Nat
          BY <3>2, SettingsAreSizes
        <5> QED
          BY <3>1, <3>2, <3>3, <4>1, <5>1, <5>2
      <4> QED
        BY <4>2, <4>3
    <3> QED
      BY <3>1, <3>3, <3>4
  <2>2. CASE ~CheckLimit
    <3>1. pc = "serve" /\ removeFromQ /\ head' = head /\ burst' = burst
      BY <2>2 DEF Next, SourceThread, Start, ReadBuffer, ReadNothing, Serve,
           AdmitPending, TrimQueue, Fallback, NoFallback, ClearSource,
           AddListener, MoveIn, MoveOut, Reload, Stop, TreesFree, PendingFree,
           vars, queueVars
    <3> QED
      BY <3>1 DEF BurstNotEvicted
  <2> QED
    BY <2>1, <2>2
<1> QED
  BY <1>1, <1>2, Invariance, PTL DEF Spec

----------------------------------------------------------------------------
(* Induction up to a number, and functions defined by recursion up to it *)

(* A set with 0 and with the successor of each of its elements has all. *)
LEMMA UpTo ==
    ASSUME NEW n \in Nat, NEW G, 0 \in G, \A i \in 0 .. n - 1 : i \in G => i + 1 \in G
    PROVE  \A i \in 0 .. n : i \in G
<1> DEFINE R == OpToRel(<, Nat)
           B == {i \in 0 .. n : i \notin G}
<1>1. R = {p \in Nat \X Nat : p[1] < p[2]}
  BY Zenon DEF OpToRel
<1>2. IsWellFoundedOn(R, Nat)
  BY NatLessThanWellFounded, Zenon
<1> HIDE DEF R
<1>3. SUFFICES ASSUME B # {} PROVE FALSE
  OBVIOUS
<1>4. PICK m \in B : \A x \in B : ~(<<x, m>> \in R)
  <2>1. B \subseteq Nat
    OBVIOUS
  <2> HIDE DEF B
  <2> QED
    BY <1>2, <1>3, <2>1, WFMin
<1>5. m \in 1 .. n /\ m - 1 \in 0 .. n - 1 /\ m - 1 \in 0 .. n
  OBVIOUS
<1>6. m - 1 \in B
  BY <1>5
<1>7. <<m - 1, m>> \in Nat \X Nat /\ <<m - 1, m>>[1] < <<m - 1, m>>[2]
  BY <1>5
<1> QED
  BY <1>1, <1>4, <1>6, <1>7

(* g has the values of a recursion that begins with b. *)
Recursive(g, n, V, b, F) ==
    /\ g \in [0 .. n -> V] /\ g[0] = b
    /\ \A i \in 1 .. n : g[i] = F[i][g[i - 1]]

(* The values of a recursion exist: the next one is a function F of the    *)
(* number and of the one before it.                                        *)
LEMMA Recursion ==
    ASSUME NEW n \in Nat, NEW V, NEW b \in V, NEW F \in [1 .. n -> [V -> V]]
    PROVE  \E g : Recursive(g, n, V, b, F)
<1> DEFINE Good(k, g) == g[0] = b /\ \A i \in 1 .. k : g[i] = F[i][g[i - 1]]
           G == {k \in 0 .. n : \E g \in [0 .. k -> V] : Good(k, g)}
<1>1. 0 \in G
  <2> DEFINE g == [i \in 0 .. 0 |-> b]
  <2>1. g \in [0 .. 0 -> V] /\ Good(0, g)
    OBVIOUS
  <2> HIDE DEF g
  <2>2. \E h \in [0 .. 0 -> V] : Good(0, h)
    BY <2>1
  <2> HIDE DEF Good
  <2> QED
    BY <2>2
<1>2. ASSUME NEW k \in 0 .. n - 1, k \in G
      PROVE  k + 1 \in G
  <2>1. PICK g \in [0 .. k -> V] : Good(k, g)
    BY <1>2
  <2> DEFINE v == F[k + 1][g[k]]
             h == [i \in 0 .. k + 1 |-> IF i = k + 1 THEN v ELSE g[i]]
  <2>2. v \in V
    <3>1. k + 1 \in 1 .. n /\ g[k] \in V
      OBVIOUS
    <3> QED
      BY <3>1
  <2> HIDE DEF v
  <2>3. h \in [0 .. k + 1 -> V]
    BY <2>2
  <2>4. \A i \in 0 .. k : h[i] = g[i]
    OBVIOUS
  <2>5. h[k + 1] = v
    OBVIOUS
  <2> HIDE DEF h
  <2>6. ASSUME NEW i \in 1 .. k + 1
        PROVE  h[i] = F[i][h[i - 1]]
    <3>1. CASE i = k + 1
      BY <2>4, <2>5, <3>1 DEF v
    <3>2. CASE i \in 1 .. k
      <4>1. h[i] = g[i] /\ h[i - 1] = g[i - 1]
        BY <2>4, <3>2
      <4> QED
        BY <2>1, <3>2, <4>1
    <3> QED
      BY <3>1, <3>2
  <2>7. Good(k + 1, h)
    BY <2>1, <2>4, <2>6
  <2> HIDE DEF Good
  <2>8. \E f \in [0 .. k + 1 -> V] : Good(k + 1, f)
    BY <2>3, <2>7
  <2>9. k + 1 \in 0 .. n
    OBVIOUS
  <2> QED
    BY <2>8, <2>9
<1> HIDE DEF G
<1>3. n \in G
  <2>1. \A i \in 0 .. n : i \in G
    BY <1>1, <1>2, UpTo
  <2> QED
    BY <2>1
<1>4. PICK g \in [0 .. n -> V] : Good(n, g)
  BY <1>3 DEF G
<1>5. Recursive(g, n, V, b, F)
  BY <1>4 DEF Recursive
<1> QED
  BY <1>5

----------------------------------------------------------------------------
(* Flattened sequences *)

(* A sequence behind another. *)
LEMMA Behind ==
    ASSUME NEW T, NEW s \in Seq(T), NEW t \in Seq(T), NEW u, u = s \o t
    PROVE  /\ u \in Seq(T) /\ Len(s) \in Nat /\ Len(t) \in Nat /\ Len(u) = Len(s) + Len(t)
           /\ \A p \in 1 .. Len(s) : u[p] = s[p]
           /\ \A k \in 1 .. Len(t) : u[Len(s) + k] = t[k]
<1>1. /\ u \in Seq(T) /\ Len(u) = Len(s) + Len(t)
      /\ \A i \in 1 .. Len(s) + Len(t) : u[i] = IF i <= Len(s) THEN s[i] ELSE t[i - Len(s)]
  BY ConcatProperties
<1>2. Len(s) \in Nat /\ Len(t) \in Nat
  OBVIOUS
<1>3. ASSUME NEW k \in 1 .. Len(t) PROVE u[Len(s) + k] = t[k]
  <2>1. /\ Len(s) + k \in 1 .. Len(s) + Len(t) /\ ~(Len(s) + k <= Len(s))
        /\ (Len(s) + k) - Len(s) = k
    BY <1>2
  <2> QED
    BY <1>1, <2>1
<1> QED
  BY <1>1, <1>2, <1>3

(* The part of s behind the first a elements up to the one with number b. *)
Part(s, a, b) == SubSeq(s, a + 1, b)
Cuts(s, a, b) == a \in Nat /\ b \in Nat /\ a <= b /\ b <= Len(s)

(* A part has the elements of its place. *)
LEMMA PartIs ==
    ASSUME NEW T, NEW s \in Seq(T), NEW a, NEW b, Cuts(s, a, b)
    PROVE  /\ Part(s, a, b) \in Seq(T) /\ Len(Part(s, a, b)) = b - a
           /\ \A k \in 1 .. b - a : Part(s, a, b)[k] = s[a + k]
<1>1. a \in Nat /\ b \in Nat /\ a <= b /\ b <= Len(s)
  BY DEF Cuts
<1>2. \A i \in a + 1 .. b : s[i] \in T
  BY <1>1
<1>3. /\ Part(s, a, b) \in Seq(T)
      /\ Len(Part(s, a, b)) = IF a + 1 <= b THEN b - (a + 1) + 1 ELSE 0
      /\ \A i \in 1 .. b - (a + 1) + 1 : Part(s, a, b)[i] = s[(a + 1) + i - 1]
  <2>1. a + 1 \in Int /\ b \in Int
    BY <1>1
  <2> QED
    BY <1>2, <2>1, SubSeqProperties DEF Part
<1>4. b - (a + 1) + 1 = b - a /\ \A i \in 1 .. b - a : (a + 1) + i - 1 = a + i
  BY <1>1
<1>5. Len(Part(s, a, b)) = b - a
  BY <1>1, <1>3
<1>6. ASSUME NEW k \in 1 .. b - a PROVE Part(s, a, b)[k] = s[a + k]
  BY <1>1, <1>3, <1>4
<1> QED
  BY <1>3, <1>5, <1>6

(* A part and the one behind it. *)
LEMMA PartsJoin ==
    ASSUME NEW T, NEW s \in Seq(T), NEW a, NEW b, NEW c, Cuts(s, a, b), Cuts(s, b, c)
    PROVE  Part(s, a, b) \o Part(s, b, c) = Part(s, a, c) /\ Cuts(s, a, c)
<1>1. a \in Nat /\ b \in Nat /\ c \in Nat /\ a <= b /\ b <= c /\ c <= Len(s) /\ Len(s) \in Nat
  BY DEF Cuts
<1>2. a + 1 \in 1 .. Len(s) + 1 /\ b \in (a + 1) - 1 .. Len(s) /\ c \in b .. Len(s)
  BY <1>1
<1>3. Cuts(s, a, c)
  BY <1>1 DEF Cuts
<1> QED
  BY <1>2, <1>3, ConcatAdjacentSubSeq DEF Part

(* A part of a part is a part. *)
LEMMA PartOfPart ==
    ASSUME NEW T, NEW s \in Seq(T), NEW a, NEW b, Cuts(s, a, b),
           NEW m, NEW k, Cuts(Part(s, a, b), m, k)
    PROVE  Part(Part(s, a, b), m, k) = Part(s, a + m, a + k) /\ Cuts(s, a + m, a + k)
<1> DEFINE u == Part(s, a, b)
           v == Part(u, m, k)
           w == Part(s, a + m, a + k)
<1>1. u \in Seq(T) /\ Len(u) = b - a /\ \A i \in 1 .. b - a : u[i] = s[a + i]
  BY PartIs
<1>2. /\ a \in Nat /\ b \in Nat /\ a <= b /\ b <= Len(s) /\ m \in Nat /\ k \in Nat /\ m <= k
      /\ k <= b - a /\ Len(s) \in Nat /\ Cuts(u, m, k)
  BY <1>1 DEF Cuts
<1>3. Cuts(s, a + m, a + k)
  BY <1>2 DEF Cuts
<1>4. v \in Seq(T) /\ Len(v) = k - m /\ \A i \in 1 .. k - m : v[i] = u[m + i]
  <2>1. u \in Seq(T) /\ Cuts(u, m, k)
    BY <1>1, <1>2
  <2> HIDE DEF u
  <2> QED
    BY ONLY <2>1, PartIs
<1>5. w \in Seq(T) /\ Len(w) = k - m /\ \A i \in 1 .. k - m : w[i] = s[(a + m) + i]
  <2>1. (a + k) - (a + m) = k - m
    BY <1>2
  <2>2. /\ w \in Seq(T) /\ Len(w) = (a + k) - (a + m)
        /\ \A i \in 1 .. (a + k) - (a + m) : w[i] = s[(a + m) + i]
    BY <1>3, PartIs
  <2> QED
    BY <2>1, <2>2
<1> HIDE DEF u, v, w
<1>6. ASSUME NEW i \in 1 .. k - m PROVE v[i] = w[i]
  <2>1. m + i \in 1 .. b - a /\ a + (m + i) = (a + m) + i
    BY <1>2
  <2> QED
    BY <1>1, <1>4, <1>5, <2>1
<1>7. v = w
  BY <1>4, <1>5, <1>6
<1> QED
  BY <1>7, <1>3 DEF u, v, w

(* All of a sequence, and nothing of it. *)
LEMMA PartWhole ==
    ASSUME NEW T, NEW s \in Seq(T)
    PROVE  Part(s, 0, Len(s)) = s /\ \A a \in Nat : Part(s, a, a) = <<>>
<1>1. SubSeq(s, 1, Len(s)) = s
  BY SubSeqFull
<1>2. \A a \in Nat : SubSeq(s, a + 1, a) = <<>>
  BY SubSeqEmpty
<1> QED
  BY <1>1, <1>2 DEF Part

(* What is flattened after each of the parts. *)
Joins(g, f, T) ==
    /\ g \in [0 .. Len(f) -> Seq(T)] /\ g[0] = <<>>
    /\ \A i \in 1 .. Len(f) : g[i] = g[i - 1] \o f[i]

(* FlattenSeq joins the parts one after the other. *)
LEMMA FlattenRun ==
    ASSUME NEW T, NEW f \in Seq(Seq(T))
    PROVE  \E g : Joins(g, f, T) /\ FlattenSeq(f) = g[Len(f)]
<1> DEFINE V == Seq(T)
           n == Len(f)
           F == [i \in 1 .. n |-> [s \in V |-> s \o f[i]]]
           D(g) == [i \in 1 .. n |-> IF i = 1 THEN f[i] ELSE g[i - 1] \o f[i]]
           c == CHOOSE g : g = D(g)
<1>1. n \in Nat /\ <<>> \in V /\ \A i \in 1 .. n : f[i] \in V
  OBVIOUS
<1>2. FlattenSeq(f) = IF n = 0 THEN f ELSE c[n]
  BY DEF FlattenSeq
<1>3. \A s, t \in V : s \o t \in V
  OBVIOUS
<1>4. \A s \in V : <<>> \o s = s
  OBVIOUS
<1>5. n = 0 => f = <<>>
  OBVIOUS
<1> HIDE DEF V, n
<1>6. F \in [1 .. n -> [V -> V]]
  <2>1. \A i \in 1 .. n : [s \in V |-> s \o f[i]] \in [V -> V]
    BY <1>1, <1>3
  <2> QED
    BY <2>1, Zenon
<1>7. PICK g : Recursive(g, n, V, <<>>, F)
  <2> HIDE DEF F
  <2> QED
    BY <1>1, <1>6, Recursion
<1>8. g \in [0 .. n -> V] /\ g[0] = <<>> /\ \A i \in 1 .. n : g[i] = g[i - 1] \o f[i]
  <2>1. g \in [0 .. n -> V] /\ g[0] = <<>> /\ \A i \in 1 .. n : g[i] = F[i][g[i - 1]]
    BY <1>7, Zenon DEF Recursive
  <2>2. ASSUME NEW i \in 1 .. n PROVE g[i] = g[i - 1] \o f[i]
    <3>1. g[i - 1] \in V
      BY <1>1, <2>1
    <3>2. F[i][g[i - 1]] = g[i - 1] \o f[i]
      BY <3>1, Zenon
    <3> QED
      BY <2>1, <3>2
  <2> QED
    BY <2>1, <2>2
<1>9. ASSUME NEW i \in 1 .. n, i = 1 PROVE g[i] = f[i]
  <2> HIDE DEF D, c, F
  <2>1. g[i] = g[0] \o f[i] /\ f[i] \in V
    <3>1. i - 1 = 0
      BY <1>9
    <3>2. g[i] = g[i - 1] \o f[i]
      BY <1>8
    <3> QED
      BY <1>1, <3>1, <3>2
  <2> QED
    BY <1>4, <1>8, <2>1
<1> DEFINE h == [i \in 1 .. n |-> g[i]]
<1>10. h = D(h)
  <2>1. ASSUME NEW i \in 1 .. n PROVE h[i] = D(h)[i]
    <3>1. CASE i = 1
      <4>1. h[i] = g[i] /\ D(h)[i] = f[i]
        BY <3>1
      <4> HIDE DEF h, D
      <4> QED
        BY <1>9, <3>1, <4>1
    <3>2. CASE i # 1
      <4>1. i - 1 \in 1 .. n /\ h[i - 1] = g[i - 1]
        BY <1>1, <3>2
      <4>2. D(h)[i] = h[i - 1] \o f[i] /\ h[i] = g[i]
        BY <3>2
      <4> HIDE DEF h, D
      <4> QED
        BY <1>8, <4>1, <4>2
    <3> QED
      BY <3>1, <3>2
  <2>2. h = [i \in 1 .. n |-> h[i]]
    OBVIOUS
  <2> HIDE DEF D, h
  <2>3. D(h) = [i \in 1 .. n |-> D(h)[i]]
    BY DEF D
  <2> QED
    BY <2>1, <2>2, <2>3
<1>11. c = D(c)
  BY <1>10
<1> HIDE DEF c, h
<1> DEFINE G == {i \in 0 .. n : i = 0 \/ c[i] = g[i]}
<1>12. \A i \in 0 .. n : i \in G
  <2>1. 0 \in G
    BY <1>1
  <2>2. ASSUME NEW i \in 0 .. n - 1, i \in G PROVE i + 1 \in G
    <3>1. i + 1 \in 1 .. n /\ (i + 1) - 1 = i /\ i + 1 \in 0 .. n
      BY <1>1
    <3>2. D(c)[i + 1] = IF i = 0 THEN f[i + 1] ELSE c[i] \o f[i + 1]
      BY <3>1
    <3>3. g[i + 1] = g[i] \o f[i + 1] /\ f[i + 1] \in V
      BY <1>1, <1>8, <3>1
    <3>4. c[i + 1] = D(c)[i + 1]
      BY <1>11
    <3>5. i = 0 => g[i] \o f[i + 1] = f[i + 1]
      BY <1>4, <1>8, <3>3
    <3> HIDE DEF D
    <3> QED
      BY <2>2, <3>1, <3>2, <3>3, <3>4, <3>5
  <2> HIDE DEF G
  <2> QED
    BY <1>1, <2>1, <2>2, UpTo
<1>13. FlattenSeq(f) = g[n]
  <2>1. n \in 0 .. n /\ n \in G
    BY <1>1, <1>12
  <2> HIDE DEF D
  <2> QED
    BY <1>2, <1>8, <1>5, <2>1
<1>14. Joins(g, f, T)
  BY <1>8, Zenon DEF Joins, V, n
<1> QED
  BY <1>13, <1>14 DEF n

(* The same parts give the same. *)
LEMMA JoinsAgree ==
    ASSUME NEW T, NEW f \in Seq(Seq(T)), NEW d \in Seq(Seq(T)), NEW g, NEW h,
           Joins(g, f, T), Joins(h, d, T), NEW k \in 0 .. Len(f), k <= Len(d),
           \A i \in 1 .. k : d[i] = f[i]
    PROVE  g[k] = h[k]
<1> DEFINE n == Len(f)
           m == Len(d)
<1>1. n \in Nat /\ m \in Nat /\ k \in 0 .. n /\ k <= m
  OBVIOUS
<1>2. /\ g[0] = <<>> /\ \A i \in 1 .. n : g[i] = g[i - 1] \o f[i]
      /\ h[0] = <<>> /\ \A i \in 1 .. m : h[i] = h[i - 1] \o d[i]
  BY DEF Joins
<1> HIDE DEF n, m
<1> DEFINE G == {i \in 0 .. k : h[i] = g[i]}
<1>3. 0 \in G
  BY <1>1, <1>2
<1>4. ASSUME NEW i \in 0 .. k - 1, i \in G PROVE i + 1 \in G
  <2>1. i + 1 \in 1 .. k /\ (i + 1) - 1 = i /\ i + 1 \in 0 .. k /\ i + 1 \in 1 .. n /\ i + 1 \in 1 .. m
    BY <1>1
  <2>2. g[i + 1] = g[i] \o f[i + 1] /\ h[i + 1] = h[i] \o d[i + 1]
    BY <1>2, <2>1
  <2>3. d[i + 1] = f[i + 1] /\ h[i] = g[i]
    BY <1>4, <2>1
  <2> QED
    BY <2>1, <2>2, <2>3
<1> HIDE DEF G
<1>5. k \in Nat /\ k \in 0 .. k
  BY <1>1
<1>6. \A i \in 0 .. k : i \in G
  BY <1>3, <1>4, <1>5, UpTo
<1> QED
  BY <1>5, <1>6 DEF G

(* A part more. *)
LEMMA FlattenAppend ==
    ASSUME NEW T, NEW f \in Seq(Seq(T)), NEW d \in Seq(T)
    PROVE  /\ FlattenSeq(f) \in Seq(T)
           /\ FlattenSeq(Append(f, d)) = FlattenSeq(f) \o d
<1> DEFINE a == Append(f, d)
           n == Len(f)
<1>1. a \in Seq(Seq(T)) /\ Len(a) = n + 1 /\ a[n + 1] = d /\ n \in Nat
      /\ \A i \in 1 .. n : a[i] = f[i]
  OBVIOUS
<1>2. PICK g : Joins(g, f, T) /\ FlattenSeq(f) = g[n]
  BY FlattenRun
<1> HIDE DEF a
<1>3. PICK h : Joins(h, a, T) /\ FlattenSeq(a) = h[Len(a)]
  BY <1>1, FlattenRun
<1>4. g[n] = h[n]
  <2>1. n \in 0 .. Len(f) /\ n <= Len(a)
    BY <1>1
  <2>2. /\ f \in Seq(Seq(T)) /\ a \in Seq(Seq(T)) /\ Joins(g, f, T) /\ Joins(h, a, T)
        /\ \A i \in 1 .. n : a[i] = f[i]
    BY <1>1, <1>2, <1>3
  <2> HIDE DEF n
  <2>3. n \in 0 .. Len(f)
    BY <2>1
  <2>4. n <= Len(a)
    BY <2>1
  <2> QED
    BY ONLY <2>2, <2>3, <2>4, JoinsAgree, SMT
<1>5. h[n + 1] = h[(n + 1) - 1] \o a[n + 1]
  <2>1. n + 1 \in 1 .. Len(a)
    BY <1>1
  <2> QED
    BY <1>3, <2>1 DEF Joins
<1>6. g[n] \in Seq(T)
  <2>1. n \in 0 .. n
    BY <1>1
  <2> QED
    BY <1>2, <2>1, Zenon DEF Joins
<1>7. (n + 1) - 1 = n
  BY <1>1
<1>8. FlattenSeq(a) = FlattenSeq(f) \o d
  BY <1>1, <1>2, <1>3, <1>4, <1>5, <1>7
<1> QED
  BY <1>2, <1>6, <1>8 DEF a

----------------------------------------------------------------------------
(* Where the elements are in the stream *)

Bytes == Nat \X Nat
Count == Len(elements)
Size(i) == elements[i].tag + elements[i].size

(* The elements are those of a stream that sources may send. *)
Stream ==
    /\ Count \in Nat /\ DOMAIN elements = 1 .. Count
    /\ \A i \in 1 .. Count :
         /\ elements[i].tag \in Nat \ {0} /\ elements[i].size \in Nat
         /\ elements[i].kind = "cluster" => elements[i].size = 0

(* off has the number of bytes before each element.  Off is chosen for the *)
(* elements, so that it stays what it is as long as they do.               *)
LayoutIn(es, bytes, off) ==
    /\ off \in [1 .. Len(es) + 1 -> Nat] /\ off[1] = 0
    /\ bytes \in Seq(Bytes) /\ Len(bytes) = off[Len(es) + 1]
    /\ \A i \in 1 .. Len(es) : off[i + 1] = off[i] + (es[i].tag + es[i].size)
    /\ \A i \in 1 .. Len(es) : \A k \in 1 .. es[i].tag + es[i].size : bytes[off[i] + k] = <<i, k>>
OffIn(es, bytes) == CHOOSE off : LayoutIn(es, bytes, off)
Layout(off) ==
    /\ off \in [1 .. Count + 1 -> Nat] /\ off[1] = 0
    /\ StreamBytes \in Seq(Bytes) /\ Len(StreamBytes) = off[Count + 1]
    /\ \A i \in 1 .. Count : off[i + 1] = off[i] + Size(i)
    /\ \A i \in 1 .. Count : \A k \in 1 .. Size(i) : StreamBytes[off[i] + k] = <<i, k>>
Off == OffIn(elements, StreamBytes)

(* What a source sends is a stream. *)
LEMMA StreamOf ==
    ASSUME elements \in EbmlStreams
    PROVE  Stream
BY StreamAssumption DEF Stream, Count

(* The bytes behind each other, and how they begin. *)
LEMMA JoinsGrow ==
    ASSUME NEW T, NEW f \in Seq(Seq(T)), NEW g, Joins(g, f, T),
           NEW i \in 0 .. Len(f), NEW j \in i .. Len(f)
    PROVE  /\ g[i] \in Seq(T) /\ g[j] \in Seq(T)
           /\ Len(g[i]) <= Len(g[j])
           /\ \A p \in 1 .. Len(g[i]) : g[j][p] = g[i][p]
<1> DEFINE n == Len(f)
           Begins(m) == Len(g[i]) <= Len(g[m]) /\ \A p \in 1 .. Len(g[i]) : g[m][p] = g[i][p]
           G == {m \in 0 .. n : m < i \/ Begins(m)}
<1>1. n \in Nat /\ i \in 0 .. n /\ j \in 0 .. n /\ ~(j < i)
  OBVIOUS
<1>2. /\ \A m \in 0 .. n : g[m] \in Seq(T)
      /\ \A m \in 1 .. n : g[m] = g[m - 1] \o f[m]
      /\ \A m \in 1 .. n : f[m] \in Seq(T)
  <2>1. \A m \in 1 .. n : f[m] \in Seq(T)
    OBVIOUS
  <2> QED
    BY <2>1, Zenon DEF Joins
<1> HIDE DEF n
<1>3. Begins(i)
  BY <1>1, <1>2
<1>4. 0 \in G
  BY <1>1, <1>3
<1>5. ASSUME NEW m \in 0 .. n - 1, m \in G PROVE m + 1 \in G
  <2>1. m + 1 \in 1 .. n /\ (m + 1) - 1 = m /\ m + 1 \in 0 .. n /\ m \in 0 .. n
    BY <1>1
  <2>2. CASE m < i
    <3>1. m + 1 < i \/ m + 1 = i
      BY <1>1, <2>1, <2>2
    <3> QED
      BY <1>3, <2>1, <3>1
  <2>3. CASE ~(m < i)
    <3>1. Begins(m)
      BY <1>5, <2>3
    <3>2. g[m + 1] = g[m] \o f[m + 1] /\ g[m] \in Seq(T) /\ f[m + 1] \in Seq(T) /\ g[i] \in Seq(T)
      BY <1>1, <1>2, <2>1
    <3> DEFINE a == g[i]
               b == g[m]
               d == f[m + 1]
               e == g[m + 1]
    <3>4. Len(a) <= Len(b) /\ \A p \in 1 .. Len(a) : b[p] = a[p]
      BY <3>1
    <3>6. e = b \o d /\ b \in Seq(T) /\ d \in Seq(T) /\ a \in Seq(T)
      BY <3>2
    <3> HIDE DEF a, b, d, e
    <3>3. /\ a \in Seq(T) /\ Len(b) \in Nat /\ Len(d) \in Nat /\ Len(e) = Len(b) + Len(d)
          /\ \A p \in 1 .. Len(b) : e[p] = b[p]
      BY <3>6, Behind
    <3>5. Len(a) <= Len(e) /\ \A p \in 1 .. Len(a) : e[p] = a[p]
      <4>1. Len(a) \in Nat
        BY <3>3
      <4>2. \A p \in 1 .. Len(a) : p \in 1 .. Len(b)
        BY <3>3, <3>4, <4>1
      <4>3. Len(a) <= Len(e)
        BY <3>3, <3>4, <4>1
      <4> QED
        BY <3>3, <3>4, <4>2, <4>3
    <3>7. Begins(m + 1)
      BY <3>5 DEF a, e
    <3> QED
      BY <2>1, <3>7
  <2> QED
    BY <2>2, <2>3
<1> HIDE DEF G
<1>6. \A m \in 0 .. n : m \in G
  BY <1>1, <1>4, <1>5, UpTo
<1>7. Begins(j)
  BY <1>1, <1>6 DEF G
<1> QED
  BY <1>1, <1>2, <1>7

(* There is a layout. *)
LEMMA OffIsLayout ==
    ASSUME Stream
    PROVE  Layout(Off)
<1> DEFINE f == [i \in DOMAIN elements |-> [k \in 1 .. elements[i].tag + elements[i].size |-> <<i, k>>]]
           n == Count
<1>1. n \in Nat /\ DOMAIN elements = 1 .. n /\ \A i \in 1 .. n : Size(i) \in Nat
  BY DEF Stream, Size
<1>2. \A i \in 1 .. n : f[i] = [k \in 1 .. Size(i) |-> <<i, k>>]
  BY <1>1 DEF Size
<1>3. ASSUME NEW i \in 1 .. n
      PROVE  f[i] \in Seq(Bytes) /\ Len(f[i]) = Size(i) /\ \A k \in 1 .. Size(i) : f[i][k] = <<i, k>>
  <2>1. \A k \in 1 .. Size(i) : <<i, k>> \in Bytes
    BY <1>1 DEF Bytes
  <2>2. Size(i) \in Nat
    BY <1>1
  <2> HIDE DEF f
  <2> DEFINE z == Size(i)
             e == [k \in 1 .. z |-> <<i, k>>]
  <2> HIDE DEF z
  <2>3. e \in Seq(Bytes) /\ Len(e) = z /\ \A k \in 1 .. z : e[k] = <<i, k>>
    BY <2>1, <2>2 DEF z
  <2> QED
    BY <1>2, <2>3 DEF z
<1>4. f \in Seq(Seq(Bytes)) /\ Len(f) = n
  <2>1. f = [i \in 1 .. n |-> f[i]] /\ \A i \in 1 .. n : f[i] \in Seq(Bytes)
    BY <1>1, <1>3
  <2> HIDE DEF f
  <2> QED
    BY <1>1, <2>1
<1>5. StreamBytes = FlattenSeq(f)
  BY DEF StreamBytes
<1> HIDE DEF f, n
<1>6. PICK g : Joins(g, f, Bytes) /\ FlattenSeq(f) = g[n]
  BY <1>4, FlattenRun
<1>7. /\ g \in [0 .. n -> Seq(Bytes)] /\ g[0] = <<>>
      /\ \A i \in 1 .. n : g[i] = g[i - 1] \o f[i]
  BY <1>4, <1>6 DEF Joins
<1> DEFINE off == [i \in 1 .. n + 1 |-> Len(g[i - 1])]
<1>8. \A i \in 0 .. n : g[i] \in Seq(Bytes) /\ Len(g[i]) \in Nat
  BY <1>7
<1>9. off \in [1 .. n + 1 -> Nat] /\ off[1] = 0
  <2>1. \A i \in 1 .. n + 1 : i - 1 \in 0 .. n
    BY <1>1
  <2>2. 1 \in 1 .. n + 1 /\ 1 - 1 = 0 /\ Len(g[0]) = 0
    BY <1>1, <1>7
  <2> QED
    BY <1>8, <2>1, <2>2
<1>10. StreamBytes \in Seq(Bytes) /\ Len(StreamBytes) = off[n + 1]
  <2>1. n + 1 \in 1 .. n + 1 /\ (n + 1) - 1 = n /\ n \in 0 .. n
    BY <1>1
  <2> QED
    BY <1>5, <1>6, <1>8, <2>1
<1>11. ASSUME NEW i \in 1 .. n
       PROVE  /\ off[i + 1] = off[i] + Size(i)
              /\ \A k \in 1 .. Size(i) : StreamBytes[off[i] + k] = <<i, k>>
  <2>1. i \in 1 .. n + 1 /\ i + 1 \in 1 .. n + 1 /\ (i + 1) - 1 = i /\ i - 1 \in 0 .. n /\ i \in 0 .. n
    BY <1>1
  <2>2. off[i + 1] = Len(g[i]) /\ off[i] = Len(g[i - 1])
    BY <2>1
  <2> HIDE DEF off
  <2>3. g[i] = g[i - 1] \o f[i] /\ g[i - 1] \in Seq(Bytes) /\ f[i] \in Seq(Bytes) /\ Len(f[i]) = Size(i)
    BY <1>3, <1>7, <1>8, <2>1
  <2>4. Len(g[i]) = Len(g[i - 1]) + Size(i)
        /\ \A k \in 1 .. Size(i) : g[i][Len(g[i - 1]) + k] = f[i][k]
    <3> DEFINE b == g[i - 1]
               d == f[i]
               e == g[i]
    <3>1. e = b \o d /\ b \in Seq(Bytes) /\ d \in Seq(Bytes)
      BY <2>3
    <3> HIDE DEF b, d, e
    <3>2. Len(e) = Len(b) + Len(d) /\ \A k \in 1 .. Len(d) : e[Len(b) + k] = d[k]
      BY <3>1, Behind
    <3> QED
      BY <2>3, <3>2 DEF b, d, e
  <2>5. \A p \in 1 .. Len(g[i]) : g[n][p] = g[i][p]
    <3>1. i \in 0 .. Len(f) /\ n \in i .. Len(f)
      BY <1>1, <1>4
    <3>2. f \in Seq(Seq(Bytes)) /\ Joins(g, f, Bytes)
      BY <1>4, <1>6
    <3> QED
      BY <3>1, <3>2, JoinsGrow, SMTT(30)
  <2>6. ASSUME NEW k \in 1 .. Size(i)
        PROVE  StreamBytes[off[i] + k] = <<i, k>>
    <3>1. off[i] + k \in 1 .. Len(g[i])
      <4> DEFINE a == off[i]
                 b == Len(g[i])
                 z == Size(i)
      <4>1. a \in Nat /\ b = a + z /\ z \in Nat /\ k \in 1 .. z
        BY <1>1, <1>8, <2>1, <2>2, <2>4
      <4> HIDE DEF a, b, z
      <4>2. a + k \in 1 .. b
        BY <4>1
      <4> QED
        BY <4>2 DEF a, b
    <3>2. g[i][off[i] + k] = <<i, k>>
      BY <1>3, <2>2, <2>4
    <3> QED
      BY <1>5, <1>6, <2>5, <3>1, <3>2
  <2> QED
    BY <2>2, <2>4, <2>6
<1> HIDE DEF off
<1>12. Layout(off)
  BY <1>9, <1>10, <1>11 DEF Layout, n
<1>13. \A o : LayoutIn(elements, StreamBytes, o) <=> Layout(o)
  BY DEF LayoutIn, Layout, Count, Size
<1>14. LayoutIn(elements, StreamBytes, OffIn(elements, StreamBytes))
  <2>1. \E o : LayoutIn(elements, StreamBytes, o)
    BY <1>12, <1>13
  <2> QED
    BY <2>1, Zenon DEF OffIn
<1> QED
  BY <1>13, <1>14 DEF Off

(* Elements begin one behind the other. *)
LEMMA OffGrows ==
    ASSUME Stream, NEW i \in 1 .. Count + 1, NEW j \in 1 .. Count + 1, i < j
    PROVE  Off[i] \in Nat /\ Off[j] \in Nat /\ Off[i] < Off[j]
<1> DEFINE n == Count
           G == {m \in 0 .. n : \A a \in 1 .. m : Off[a] < Off[m + 1]}
<1>1. /\ n \in Nat /\ \A a \in 1 .. n + 1 : Off[a] \in Nat
      /\ \A a \in 1 .. n : Off[a + 1] = Off[a] + Size(a) /\ Size(a) \in Nat \ {0}
  <2>1. Layout(Off)
    BY OffIsLayout
  <2>2. n \in Nat /\ \A a \in 1 .. n : Size(a) \in Nat \ {0}
    BY DEF Stream, Size
  <2> QED
    BY <2>1, <2>2 DEF Layout
<1> HIDE DEF n
<1>2. 0 \in G
  BY <1>1
<1>3. ASSUME NEW m \in 0 .. n - 1, m \in G PROVE m + 1 \in G
  <2>1. m + 1 \in 0 .. n /\ m + 1 \in 1 .. n /\ (m + 1) + 1 \in 1 .. n + 1 /\ m + 1 \in 1 .. n + 1
    BY <1>1
  <2>2. Off[(m + 1) + 1] = Off[m + 1] + Size(m + 1) /\ Size(m + 1) \in Nat \ {0} /\ Off[m + 1] \in Nat
    BY <1>1, <2>1
  <2>3. ASSUME NEW a \in 1 .. m + 1 PROVE Off[a] < Off[(m + 1) + 1]
    <3>1. CASE a = m + 1
      BY <2>2, <3>1
    <3>2. CASE a # m + 1
      <4>1. a \in 1 .. m /\ a \in 1 .. n + 1
        BY <1>1, <2>3, <3>2
      <4>2. Off[a] < Off[m + 1] /\ Off[a] \in Nat
        BY <1>1, <1>3, <4>1
      <4> QED
        BY <2>2, <4>2
    <3> QED
      BY <3>1, <3>2
  <2> QED
    BY <2>1, <2>3
<1> HIDE DEF G
<1>4. \A m \in 0 .. n : m \in G
  BY <1>1, <1>2, <1>3, UpTo
<1>5. j - 1 \in 0 .. n /\ i \in 1 .. j - 1 /\ (j - 1) + 1 = j /\ i \in 1 .. n + 1 /\ j \in 1 .. n + 1
  BY <1>1 DEF n
<1>6. Off[i] < Off[(j - 1) + 1]
  BY <1>4, <1>5 DEF G
<1> QED
  BY <1>1, <1>5, <1>6

(* Every byte before an element is one of an element before it. *)
LEMMA ByteOf ==
    ASSUME Stream, NEW j \in 1 .. Count + 1, NEW q \in 1 .. Off[j]
    PROVE  \E i \in 1 .. Count : /\ i < j /\ Off[i] < q /\ q <= Off[i + 1]
                                  /\ StreamBytes[q] = <<i, q - Off[i]>>
<1> DEFINE n == Count
           In(i) == Off[i] < q /\ q <= Off[i + 1] /\ StreamBytes[q] = <<i, q - Off[i]>>
           G == {m \in 0 .. n : q <= Off[m + 1] => \E i \in 1 .. m : In(i)}
<1>1. /\ n \in Nat /\ \A a \in 1 .. n + 1 : Off[a] \in Nat
      /\ \A a \in 1 .. n : Off[a + 1] = Off[a] + Size(a) /\ Size(a) \in Nat \ {0}
      /\ \A a \in 1 .. n : \A k \in 1 .. Size(a) : StreamBytes[Off[a] + k] = <<a, k>>
      /\ Off[1] = 0
  <2>1. Layout(Off)
    BY OffIsLayout
  <2>2. n \in Nat /\ \A a \in 1 .. n : Size(a) \in Nat \ {0}
    BY DEF Stream, Size
  <2> QED
    BY <2>1, <2>2 DEF Layout
<1>2. j \in 1 .. n + 1 /\ q \in Nat \ {0} /\ q <= Off[j]
  BY <1>1
<1> HIDE DEF n
<1>3. 0 \in G
  <2>1. ~(q <= Off[0 + 1]) /\ 0 \in 0 .. n
    BY <1>1, <1>2
  <2> QED
    BY <2>1
<1>4. ASSUME NEW m \in 0 .. n - 1, m \in G PROVE m + 1 \in G
  <2>1. m + 1 \in 0 .. n /\ m + 1 \in 1 .. n /\ (m + 1) + 1 \in 1 .. n + 1 /\ m + 1 \in 1 .. n + 1
    BY <1>1
  <2>2. Off[(m + 1) + 1] = Off[m + 1] + Size(m + 1) /\ Size(m + 1) \in Nat \ {0} /\ Off[m + 1] \in Nat
    BY <1>1, <2>1
  <2>3. ASSUME q <= Off[(m + 1) + 1] PROVE \E i \in 1 .. m + 1 : In(i)
    <3>1. CASE q <= Off[m + 1]
      <4>1. PICK i \in 1 .. m : In(i)
        BY <1>4, <3>1
      <4>2. i \in 1 .. m + 1
        BY <2>1
      <4> HIDE DEF In
      <4> QED
        BY <4>1, <4>2
    <3>2. CASE ~(q <= Off[m + 1])
      <4>1. q - Off[m + 1] \in 1 .. Size(m + 1) /\ Off[m + 1] + (q - Off[m + 1]) = q
        BY <1>2, <2>2, <2>3, <3>2
      <4>2. StreamBytes[Off[m + 1] + (q - Off[m + 1])] = <<m + 1, q - Off[m + 1]>>
        BY <1>1, <2>1, <4>1
      <4>3. In(m + 1)
        BY <1>2, <2>2, <2>3, <3>2, <4>1, <4>2
      <4>4. m + 1 \in 1 .. m + 1
        BY <2>1
      <4> HIDE DEF In
      <4> QED
        BY <4>3, <4>4
    <3> QED
      BY <3>1, <3>2
  <2> QED
    BY <2>1, <2>3
<1> HIDE DEF G
<1>5. \A m \in 0 .. n : m \in G
  BY <1>1, <1>3, <1>4, UpTo
<1>6. j - 1 \in 0 .. n /\ (j - 1) + 1 = j
  BY <1>1, <1>2
<1>7. PICK i \in 1 .. j - 1 : In(i)
  BY <1>2, <1>5, <1>6 DEF G
<1>8. i \in 1 .. Count /\ i < j
  BY <1>1, <1>2 DEF n
<1> QED
  BY <1>7, <1>8

----------------------------------------------------------------------------
(* The invariant *)

TrackNumbers == {NoTrack} \cup {elements[i].track : i \in DOMAIN elements}

Parsers ==
    [output : {"header", "clusters"},
     state : {"header", "copy header", "start", "clusters", "copy data"},
     copyLen : Nat, clusterStart : Int, keyframe : {"no", "unknown", "yes"}, flush : BOOLEAN,
     buffer : Seq(Bytes), input : Seq(Bytes), header : Seq(Bytes), headerSize : Nat,
     keyTrack : TrackNumbers, parsingTrack : TrackNumbers, isVideo : BOOLEAN]

EbmlTypeOK ==
    /\ elements \in EbmlStreams /\ given \in Nat
    /\ parsing \in BOOLEAN /\ failed \in BOOLEAN
    /\ streamHeader \in Seq(Bytes)
    /\ chunks \in Seq([data : Seq(Bytes), sync : BOOLEAN])
    /\ dump \in [state : {"open", "closed", "undefined"}, content : Seq(Bytes)]
    /\ listener \in [state : {"none", "dropped", "header", "generic"}, pos : Nat, got : Seq(Bytes)]
    /\ ebml \in Parsers

(* The place of the parser and of its buffer in the stream. *)
Pos == given - Len(ebml.input)
Base == Pos - Len(ebml.buffer)
ChunkData == [i \in DOMAIN chunks |-> chunks[i].data]
InHeader == ebml.state \in {"header", "copy header"}
Copying == ebml.state \in {"copy header", "copy data"}

(* What there is of the stream, and where. *)
Pieces ==
    /\ given <= Len(StreamBytes)
    /\ Len(ebml.input) <= given /\ Len(ebml.buffer) <= Pos /\ Len(ebml.header) <= Base
    /\ Len(ebml.buffer) <= Slice
    /\ ebml.input = Part(StreamBytes, Pos, given)
    /\ ebml.buffer = Part(StreamBytes, Base, Pos)
    /\ FlattenSeq(ChunkData) = Part(StreamBytes, Len(ebml.header), Base)
    /\ ebml.header = Part(StreamBytes, 0, Len(ebml.header))

(* The header is collected first. *)
Stages ==
    /\ InHeader => /\ ebml.output = "header" /\ ebml.headerSize = 0
                   /\ Len(ebml.header) = Pos /\ ebml.clusterStart = -1
    /\ ebml.headerSize \in {0, Len(ebml.header)}
    /\ ebml.output = "header" => chunks = <<>> /\ streamHeader = <<>>
    /\ ebml.output = "clusters" => ~InHeader /\ streamHeader = ebml.header

(* Who has got what of it. *)
Received ==
    /\ chunks # <<>> => FlattenSeq(ChunkData) # <<>>
    /\ dump.state = "open" => dump.content =
          IF chunks = <<>> THEN <<>> ELSE streamHeader \o FlattenSeq(ChunkData)
    /\ IF listener.state \in {"header", "generic"}
       THEN /\ streamHeader # <<>> /\ listener.pos <= Len(streamHeader)
            /\ listener.got = SubSeq(streamHeader, 1, listener.pos)
            /\ listener.state = "generic" => listener.pos = Len(streamHeader)
       ELSE listener.pos = 0 /\ listener.got = <<>>

(* The parser has read the elements before i, or is copying the last one.  *)
At(i) ==
    /\ i \in 1 .. Count + 1
    /\ Off[i] = Pos + IF Copying THEN ebml.copyLen ELSE 0
    /\ Copying => ebml.copyLen > 0 /\ i > 1 /\ Off[i - 1] <= Pos
    /\ ebml.state = "start" => /\ i <= Count /\ elements[i].kind = "cluster"
                               /\ ebml.input # <<>>

NoCluster(i, j) == \A k \in i .. j : elements[k].kind # "cluster"

(* The header ends where the first cluster, f, begins. *)
HeaderEnds(i) ==
    IF InHeader THEN NoCluster(1, i - 1)
    ELSE \E f \in 1 .. Count :
            /\ elements[f].kind = "cluster" /\ NoCluster(1, f - 1)
            /\ Len(ebml.header) = Off[f] /\ f <= i
            /\ f = i => ebml.state = "start"

(* What is known of the first video frame of cluster c. *)
Frames(c, i) ==
    /\ ebml.keyframe = "unknown" => \A k \in c + 1 .. i - 1 :
          elements[k].kind = "block" => elements[k].track # VideoTrack
    /\ ebml.keyframe = "yes" => \E j \in FirstFrame(c) : elements[j].key
    /\ ebml.keyframe = "no" => \E j \in FirstFrame(c) : ~elements[j].key

(* The cluster in the buffer, if there is one: c begins at clusterStart. *)
Buffered(c, i) ==
    /\ c \in 1 .. i - 1 /\ elements[c].kind = "cluster" /\ NoCluster(c + 1, i - 1)
    /\ Off[c] = Base + ebml.clusterStart /\ ebml.clusterStart <= Len(ebml.buffer)
    /\ \A q \in Base + 1 .. Pos : ClusterByte(StreamBytes[q]) => q = Off[c] + 1
    /\ TracksInHeader => Frames(c, i)
InBuffer(i) ==
    IF ebml.clusterStart < 0
    THEN /\ ebml.clusterStart = -1
         /\ \A q \in Base + 1 .. Pos : ~ClusterByte(StreamBytes[q])
         /\ Copying => elements[i - 1].kind # "cluster" \/ Off[i - 1] < Pos
    ELSE /\ \E c \in 1 .. Count : Buffered(c, i)
         /\ ebml.flush => ebml.state = "start"

(* What the parser has learned of the tracks from the elements before i. *)
InEntry(k, i) == EntryOf(k) = EntryOf(i - 1)
IsVideoTrack(j) == \E k \in DOMAIN elements : SaysVideo(j, k)
Learned(i) ==
    /\ \A k \in 1 .. i - 1 : elements[k].kind = "number" /\ InEntry(k, i) =>
          ebml.parsingTrack = elements[k].track
    /\ ebml.parsingTrack # NoTrack => \E k \in 1 .. i - 1 :
          elements[k].kind = "number" /\ InEntry(k, i) /\ ebml.parsingTrack = elements[k].track
    /\ ebml.isVideo <=> \E k \in 1 .. i - 1 :
          elements[k].kind = "type" /\ elements[k].key /\ InEntry(k, i)
    /\ ebml.keyTrack = NoTrack => \A j, k \in 1 .. i - 1 : ~SaysVideo(j, k)
    /\ ebml.keyTrack # NoTrack => \E j \in 1 .. i - 1 :
          /\ ebml.keyTrack = elements[j].track /\ IsVideoTrack(j)
          /\ \A x \in DOMAIN elements : IsVideoTrack(x) => j <= x

Parsed ==
    \E i \in 1 .. Count + 1 :
        /\ At(i) /\ HeaderEnds(i) /\ InBuffer(i)
        /\ TracksInHeader => Learned(i)

EbmlInv ==
    /\ EbmlTypeOK /\ Pieces /\ Stages /\ Received /\ Parsed
    /\ ClustersBegin
    /\ TracksInHeader => SyncPoints

----------------------------------------------------------------------------
(* The stream of a source does not change. *)

(* Nor does what is defined by its elements. *)
LEMMA StreamKept ==
    ASSUME UNCHANGED elements
    PROVE  /\ StreamBytes' = StreamBytes /\ Off' = Off /\ Count' = Count
           /\ VideoTrack' = VideoTrack /\ (TracksInHeader' <=> TracksInHeader)
           /\ TrackNumbers' = TrackNumbers
<1>1. StreamBytes' = StreamBytes
  BY DEF StreamBytes
<1>2. Off' = Off
  BY <1>1 DEF Off
<1>3. VideoTrack' = VideoTrack
  BY DEF VideoTrack, SaysVideo, EntryOf
<1>4. TracksInHeader' <=> TracksInHeader
  BY DEF TracksInHeader, EntryOf
<1> QED
  BY <1>1, <1>2, <1>3, <1>4 DEF Count, TrackNumbers

(* The states a parser may be in depend on the stream only. *)
LEMMA ParsersKept ==
    ASSUME UNCHANGED elements
    PROVE  Parsers' = Parsers
BY StreamKept DEF Parsers

(* So does the first frame of a cluster, *)
LEMMA FirstFrameKept ==
    ASSUME UNCHANGED elements, NEW c
    PROVE  FirstFrame(c)' = FirstFrame(c)
BY StreamKept DEF FirstFrame

(* the distance of an element from its cluster, *)
LEMMA DistanceKept ==
    ASSUME UNCHANGED elements, NEW c, NEW j
    PROVE  Distance(c, j)' = Distance(c, j)
BY StreamKept DEF Distance

(* the bytes clusters start with, *)
LEMMA ClusterByteKept ==
    ASSUME UNCHANGED elements, NEW b
    PROVE  ClusterByte(b)' <=> ClusterByte(b)
BY DEF ClusterByte

(* the elements between which there is no cluster, *)
LEMMA NoClusterKept ==
    ASSUME UNCHANGED elements, NEW i, NEW j
    PROVE  NoCluster(i, j)' <=> NoCluster(i, j)
BY DEF NoCluster

(* and the entries of the tracks. *)
LEMMA EntryKept ==
    ASSUME UNCHANGED elements
    PROVE  /\ \A k, i : InEntry(k, i)' <=> InEntry(k, i)
           /\ \A j, k : SaysVideo(j, k)' <=> SaysVideo(j, k)
           /\ \A j : IsVideoTrack(j)' <=> IsVideoTrack(j)
BY DEF InEntry, EntryOf, SaysVideo, IsVideoTrack

(* What depends on the stream and on some fields of the parser only. *)
LEMMA LearnedKept ==
    ASSUME UNCHANGED elements, NEW i, Learned(i), ebml'.parsingTrack = ebml.parsingTrack,
           ebml'.isVideo = ebml.isVideo, ebml'.keyTrack = ebml.keyTrack
    PROVE  Learned(i)'
BY EntryKept DEF Learned

(* What is known of the frames of a cluster. *)
LEMMA FramesKept ==
    ASSUME UNCHANGED elements, NEW c, NEW i, Frames(c, i), ebml'.keyframe = ebml.keyframe
    PROVE  Frames(c, i)'
BY StreamKept, FirstFrameKept DEF Frames

(* What is known of the cluster in the buffer. *)
LEMMA BufferedKept ==
    ASSUME UNCHANGED elements, NEW c, NEW i, Buffered(c, i), Base' = Base, Pos' = Pos,
           ebml'.keyframe = ebml.keyframe, ebml'.clusterStart = ebml.clusterStart,
           ebml'.buffer = ebml.buffer
    PROVE  Buffered(c, i)'
BY StreamKept, FramesKept, ClusterByteKept, NoClusterKept DEF Buffered

(* What is known of the buffer. *)
LEMMA InBufferKept ==
    ASSUME UNCHANGED elements, NEW i, InBuffer(i), Base' = Base, Pos' = Pos,
           ebml'.keyframe = ebml.keyframe, ebml'.clusterStart = ebml.clusterStart,
           ebml'.buffer = ebml.buffer, ebml'.flush = ebml.flush, ebml'.state = ebml.state
    PROVE  InBuffer(i)'
<1>1. CASE ebml.clusterStart < 0
  BY <1>1, StreamKept, ClusterByteKept DEF InBuffer, Copying
<1>2. CASE ~(ebml.clusterStart < 0)
  BY <1>2, StreamKept, BufferedKept DEF InBuffer
<1> QED
  BY <1>1, <1>2

(* Where the header ends. *)
LEMMA HeaderEndsKept ==
    ASSUME UNCHANGED elements, NEW i, HeaderEnds(i),
           ebml'.header = ebml.header, ebml'.state = ebml.state
    PROVE  HeaderEnds(i)'
BY StreamKept, NoClusterKept DEF HeaderEnds, InHeader

(* The parser stays where it is. *)
LEMMA ParsedKept ==
    ASSUME UNCHANGED elements, Parsed, Base' = Base, Pos' = Pos,
           ebml'.keyframe = ebml.keyframe, ebml'.clusterStart = ebml.clusterStart,
           ebml'.buffer = ebml.buffer, ebml'.flush = ebml.flush, ebml'.state = ebml.state,
           ebml'.header = ebml.header, ebml'.copyLen = ebml.copyLen,
           ebml'.parsingTrack = ebml.parsingTrack,
           ebml'.isVideo = ebml.isVideo, ebml'.keyTrack = ebml.keyTrack,
           ebml.input # <<>> => ebml'.input # <<>>
    PROVE  Parsed'
<1>1. PICK i \in 1 .. Count + 1 : /\ At(i) /\ HeaderEnds(i) /\ InBuffer(i)
                                  /\ TracksInHeader => Learned(i)
  BY DEF Parsed
<1>2. At(i)'
  BY <1>1, StreamKept DEF At, Copying
<1>3. HeaderEnds(i)'
  BY <1>1, HeaderEndsKept
<1>4. InBuffer(i)'
  BY <1>1, InBufferKept
<1>5. TracksInHeader' => Learned(i)'
  BY <1>1, LearnedKept, StreamKept
<1>6. i \in 1 .. Count' + 1
  BY StreamKept
<1> QED
  BY <1>2, <1>3, <1>4, <1>5, <1>6 DEF Parsed

(* The chunks keep their properties. *)
LEMMA ChunksKept ==
    ASSUME UNCHANGED <<elements, chunks>>, ClustersBegin, TracksInHeader => SyncPoints
    PROVE  ClustersBegin' /\ (TracksInHeader' => SyncPoints')
<1>1. ClustersBegin'
  BY ClusterByteKept DEF ClustersBegin
<1>2. ASSUME TracksInHeader', NEW c \in DOMAIN chunks
      PROVE  (/\ chunks[c].sync => ClusterByte(chunks[c].data[1])
              /\ ClusterByte(chunks[c].data[1]) /\ ~chunks[c].sync =>
                    \E j \in FirstFrame(chunks[c].data[1][1]) : ~elements[j].key
              /\ chunks[c].sync =>
                    \A j \in FirstFrame(chunks[c].data[1][1]) :
                        elements[j].key \/ Distance(chunks[c].data[1][1], j) >= Slice)'
  <2>1. TracksInHeader
    BY <1>2, StreamKept
  <2> QED
    BY <2>1, ClusterByteKept, FirstFrameKept, DistanceKept DEF SyncPoints
<1> QED
  BY <1>1, <1>2 DEF SyncPoints

----------------------------------------------------------------------------
(* The steps that leave the parser where it is *)

(* The fields of the parser and the stream. *)
LEMMA Fields ==
    ASSUME EbmlTypeOK
    PROVE  /\ ebml.output \in {"header", "clusters"}
           /\ ebml.state \in {"header", "copy header", "start", "clusters", "copy data"}
           /\ ebml.copyLen \in Nat /\ ebml.clusterStart \in Int
           /\ ebml.keyframe \in {"no", "unknown", "yes"} /\ ebml.flush \in BOOLEAN
           /\ ebml.buffer \in Seq(Bytes) /\ ebml.input \in Seq(Bytes) /\ ebml.header \in Seq(Bytes)
           /\ ebml.headerSize \in Nat /\ ebml.keyTrack \in TrackNumbers
           /\ ebml.parsingTrack \in TrackNumbers /\ ebml.isVideo \in BOOLEAN
BY DEF EbmlTypeOK, Parsers

(* The lengths of the buffers are numbers. *)
LEMMA Lengths ==
    ASSUME EbmlTypeOK
    PROVE  /\ given \in Nat /\ Len(ebml.buffer) \in Nat /\ Len(ebml.input) \in Nat
           /\ Len(ebml.header) \in Nat /\ Pos \in Int /\ Base \in Int
           /\ Pos = given - Len(ebml.input) /\ Base = Pos - Len(ebml.buffer)
<1>1. given \in Nat /\ ebml.buffer \in Seq(Bytes) /\ ebml.input \in Seq(Bytes) /\ ebml.header \in Seq(Bytes)
  BY Fields DEF EbmlTypeOK
<1>2. Len(ebml.buffer) \in Nat /\ Len(ebml.input) \in Nat /\ Len(ebml.header) \in Nat
  BY <1>1
<1> QED
  BY <1>1, <1>2 DEF Pos, Base

(* There is a stream, with a layout. *)
LEMMA StreamThere ==
    ASSUME EbmlTypeOK
    PROVE  /\ Stream /\ Layout(Off) /\ StreamBytes \in Seq(Bytes) /\ Len(StreamBytes) \in Nat
           /\ Count \in Nat
<1>1. Stream
  BY StreamOf DEF EbmlTypeOK
<1>2. Layout(Off)
  BY <1>1, OffIsLayout
<1>3. StreamBytes \in Seq(Bytes)
  BY <1>2 DEF Layout
<1> QED
  BY <1>1, <1>2, <1>3 DEF Stream

(* The plugin begins with empty buffers. *)
LEMMA EbmlInitInv == EbmlInit => EbmlInv
<1> SUFFICES ASSUME EbmlInit PROVE EbmlInv
  OBVIOUS
<1> USE DEF EbmlInit
<1>1. EbmlTypeOK
  <2>1. <<>> \in Seq(Bytes) /\ <<>> \in Seq([data : Seq(Bytes), sync : BOOLEAN])
    OBVIOUS
  <2>2. NoTrack \in TrackNumbers /\ -1 \in Int
    BY DEF TrackNumbers
  <2>3. ebml \in Parsers
    BY <2>1, <2>2 DEF Parsers
  <2>4. /\ dump \in [state : {"open", "closed", "undefined"}, content : Seq(Bytes)]
        /\ listener \in [state : {"none", "dropped", "header", "generic"}, pos : Nat, got : Seq(Bytes)]
    BY <2>1
  <2> QED
    BY <2>1, <2>3, <2>4 DEF EbmlTypeOK
<1>2. /\ given = 0 /\ ebml.input = <<>> /\ ebml.buffer = <<>> /\ ebml.header = <<>> /\ chunks = <<>>
      /\ ebml.state = "header" /\ ebml.clusterStart = -1 /\ ebml.output = "header" /\ ebml.headerSize = 0
      /\ ebml.keyTrack = NoTrack /\ ebml.parsingTrack = NoTrack /\ ebml.isVideo = FALSE
      /\ streamHeader = <<>> /\ dump.content = <<>> /\ listener.state = "none"
      /\ listener.pos = 0 /\ listener.got = <<>>
  OBVIOUS
<1>3. Stream /\ Layout(Off) /\ StreamBytes \in Seq(Bytes) /\ Len(StreamBytes) \in Nat /\ Count \in Nat
  BY <1>1, StreamThere
<1> HIDE DEF EbmlInit
<1>4. Len(ebml.input) = 0 /\ Len(ebml.buffer) = 0 /\ Len(ebml.header) = 0 /\ Pos = 0 /\ Base = 0
  <2>1. Len(ebml.input) = 0 /\ Len(ebml.buffer) = 0 /\ Len(ebml.header) = 0
    BY <1>2
  <2>2. given = 0
    BY <1>2
  <2>3. given - Len(ebml.input) = 0
    BY <2>1, <2>2
  <2>4. Pos = 0
    BY <2>3 DEF Pos
  <2> QED
    BY <2>1, <2>4 DEF Base
<1>5. FlattenSeq(ChunkData) = <<>>
  <2>1. ChunkData = <<>>
    BY <1>2 DEF ChunkData
  <2> QED
    BY <2>1 DEF FlattenSeq
<1>6. Pieces
  <2>1. Part(StreamBytes, 0, 0) = <<>>
    BY <1>3, PartWhole
  <2> QED
    BY <1>2, <1>3, <1>4, <1>5, <2>1, SliceAssumption DEF Pieces
<1>7. Stages
  BY <1>2, <1>4 DEF Stages, InHeader
<1>8. Received
  BY <1>2 DEF Received
<1>9. Parsed
  <2>1. At(1)
    BY <1>2, <1>3, <1>4 DEF At, Copying, Layout
  <2>2. HeaderEnds(1)
    BY <1>2 DEF HeaderEnds, InHeader, NoCluster
  <2>3. InBuffer(1)
    BY <1>2, <1>4 DEF InBuffer, Copying
  <2>4. Learned(1)
    BY <1>2 DEF Learned
  <2>5. 1 \in 1 .. Count + 1
    BY <1>3
  <2> QED
    BY <2>1, <2>2, <2>3, <2>4, <2>5 DEF Parsed
<1>10. ClustersBegin /\ SyncPoints
  BY <1>2 DEF ClustersBegin, SyncPoints
<1> QED
  BY <1>1, <1>6, <1>7, <1>8, <1>9, <1>10 DEF EbmlInv

(* Nothing but the program's place changes. *)
LEMMA EbmlQuietInv ==
    ASSUME EbmlInv, UNCHANGED <<elements, given, ebml, streamHeader, chunks, others>>,
           parsing' \in BOOLEAN, failed' \in BOOLEAN
    PROVE  EbmlInv'
<1> USE DEF others
<1>1. EbmlTypeOK
  BY DEF EbmlInv
<1>2. EbmlTypeOK'
  BY <1>1, ParsersKept DEF EbmlTypeOK
<1>3. Pos' = Pos /\ Base' = Base /\ ChunkData' = ChunkData
  BY DEF Pos, Base, ChunkData
<1>4. Pieces'
  BY <1>3, StreamKept DEF Pieces, EbmlInv
<1>5. Stages'
  BY <1>3 DEF Stages, InHeader, EbmlInv
<1>6. Received'
  BY <1>3 DEF Received, EbmlInv
<1>7. Parsed'
  BY <1>3, ParsedKept DEF EbmlInv
<1>8. ClustersBegin' /\ (TracksInHeader' => SyncPoints')
  BY ChunksKept DEF EbmlInv
<1> QED
  BY <1>2, <1>4, <1>5, <1>6, <1>7, <1>8 DEF EbmlInv

(* The listener gets more of the header. *)
LEMMA ListenerInv ==
    ASSUME EbmlInv, CreateClientData \/ (\E n \in 1 .. Slice : SendHeader(n)) \/ GoGeneric
    PROVE  EbmlInv'
<1>1. EbmlTypeOK /\ Received /\ streamHeader \in Seq(Bytes)
  BY DEF EbmlInv, EbmlTypeOK
<1>2. UNCHANGED <<elements, given, ebml, parsing, streamHeader, chunks, dump, failed>>
  BY DEF CreateClientData, SendHeader, GoGeneric, sourceSide
<1>3. Pos' = Pos /\ Base' = Base /\ ChunkData' = ChunkData
  BY <1>2 DEF Pos, Base, ChunkData
<1>4. Pieces'
  BY <1>2, <1>3, StreamKept DEF Pieces, EbmlInv
<1>5. Stages'
  BY <1>2, <1>3 DEF Stages, InHeader, EbmlInv
<1>6. Parsed'
  BY <1>2, <1>3, ParsedKept DEF EbmlInv
<1>7. ClustersBegin' /\ (TracksInHeader' => SyncPoints')
  BY <1>2, ChunksKept DEF EbmlInv
<1>8. /\ listener' \in [state : {"none", "dropped", "header", "generic"}, pos : Nat, got : Seq(Bytes)]
      /\ IF listener'.state \in {"header", "generic"}
         THEN /\ streamHeader # <<>> /\ listener'.pos <= Len(streamHeader)
              /\ listener'.got = SubSeq(streamHeader, 1, listener'.pos)
              /\ listener'.state = "generic" => listener'.pos = Len(streamHeader)
         ELSE listener'.pos = 0 /\ listener'.got = <<>>
  <2>1. listener \in [state : {"none", "dropped", "header", "generic"}, pos : Nat, got : Seq(Bytes)]
    BY <1>1 DEF EbmlTypeOK
  <2>2. CASE CreateClientData
    <3>1. SubSeq(streamHeader, 1, 0) = <<>> /\ Len(streamHeader) \in Nat
      BY <1>1, SubSeqEmpty
    <3> QED
      BY <1>1, <2>1, <2>2, <3>1 DEF CreateClientData, Received
  <2>3. ASSUME NEW n \in 1 .. Slice, SendHeader(n)
        PROVE  <1>8!1 /\ <1>8!2
    <3> DEFINE p == listener.pos
               q == p + n
    <3>1. p \in Nat /\ n \in Nat /\ q \in Nat /\ Len(streamHeader) \in Nat
      BY <1>1, <2>1, SliceAssumption
    <3>2. /\ listener.state = "header" /\ n <= Fewer(Slice, Len(streamHeader) - p)
          /\ listener' = [listener EXCEPT !.pos = q, !.got = @ \o Part(streamHeader, p, q)]
      BY <2>1, <2>3 DEF SendHeader, Part
    <3>3. listener.got = SubSeq(streamHeader, 1, p) /\ streamHeader # <<>>
      BY <1>1, <3>2 DEF Received
    <3>4. q <= Len(streamHeader)
      BY <3>1, <3>2, SliceAssumption DEF Fewer
    <3>5. Part(streamHeader, 0, p) \o Part(streamHeader, p, q) = Part(streamHeader, 0, q)
          /\ Part(streamHeader, 0, q) \in Seq(Bytes)
      <4> HIDE DEF p, q
      <4>1. p <= q
        BY <3>1 DEF q
      <4>2. Cuts(streamHeader, 0, p) /\ Cuts(streamHeader, p, q) /\ Cuts(streamHeader, 0, q)
        BY <3>1, <3>4, <4>1 DEF Cuts
      <4> QED
        BY <1>1, <4>2, PartsJoin, PartIs
    <3>6. listener.got = Part(streamHeader, 0, p) /\ Part(streamHeader, 0, q) = SubSeq(streamHeader, 1, q)
      BY <3>3 DEF Part
    <3> HIDE DEF q, p
    <3>7. listener'.pos = q /\ listener'.got = Part(streamHeader, 0, q) /\ listener'.state = "header"
      BY <2>1, <3>2, <3>5, <3>6
    <3>8. listener' \in [state : {"none", "dropped", "header", "generic"}, pos : Nat, got : Seq(Bytes)]
      BY <2>1, <3>1, <3>2, <3>5, <3>6
    <3> QED
      BY <3>3, <3>4, <3>6, <3>7, <3>8
  <2>4. CASE GoGeneric
    BY <1>1, <2>1, <2>4 DEF GoGeneric, Received
  <2> QED
    BY <2>2, <2>3, <2>4
<1>9. EbmlTypeOK'
  BY <1>1, <1>2, <1>8, ParsersKept DEF EbmlTypeOK
<1>10. Received'
  BY <1>1, <1>2, <1>3, <1>8 DEF Received
<1> QED
  BY <1>4, <1>5, <1>6, <1>7, <1>9, <1>10 DEF EbmlInv

(* The header becomes the header of the source. *)
LEMMA ReadHeaderInv ==
    ASSUME EbmlInv, ReadHeader
    PROVE  EbmlInv'
<1>1. EbmlTypeOK /\ Received /\ Stages /\ Pieces
  BY DEF EbmlInv
<1>2. /\ UNCHANGED <<elements, given, parsing, chunks, failed, dump, listener>>
      /\ ebml' = [ebml EXCEPT !.output = "clusters"] /\ ebml.headerSize # 0 /\ ebml.output = "header"
      /\ streamHeader' = SubSeq(ebml.header, 1, ebml.headerSize)
  BY DEF ReadHeader, others
<1>3. /\ ebml'.output = "clusters" /\ ebml'.state = ebml.state /\ ebml'.copyLen = ebml.copyLen
      /\ ebml'.clusterStart = ebml.clusterStart /\ ebml'.keyframe = ebml.keyframe
      /\ ebml'.flush = ebml.flush /\ ebml'.buffer = ebml.buffer /\ ebml'.input = ebml.input
      /\ ebml'.header = ebml.header /\ ebml'.headerSize = ebml.headerSize
      /\ ebml'.keyTrack = ebml.keyTrack /\ ebml'.parsingTrack = ebml.parsingTrack
      /\ ebml'.isVideo = ebml.isVideo
  BY <1>1, <1>2 DEF EbmlTypeOK, Parsers
<1>4. streamHeader' = ebml.header /\ ebml.header \in Seq(Bytes) /\ chunks = <<>> /\ streamHeader = <<>>
      /\ ~InHeader
  <2>1. ebml.header \in Seq(Bytes)
    BY <1>1, Fields
  <2>2. ebml.headerSize = Len(ebml.header) /\ chunks = <<>> /\ streamHeader = <<>> /\ ~InHeader
    BY <1>1, <1>2 DEF Stages
  <2> QED
    BY <1>2, <2>1, <2>2, SubSeqFull
<1>5. EbmlTypeOK'
  <2>1. ebml' \in Parsers
    BY <1>1, <1>2 DEF EbmlTypeOK, Parsers
  <2> QED
    BY <1>1, <1>2, <1>4, <2>1, ParsersKept DEF EbmlTypeOK
<1>6. Pos' = Pos /\ Base' = Base /\ ChunkData' = ChunkData
  BY <1>2, <1>3 DEF Pos, Base, ChunkData
<1>7. Pieces'
  BY <1>1, <1>2, <1>3, <1>6, StreamKept DEF Pieces
<1>8. Stages'
  BY <1>1, <1>2, <1>3, <1>4 DEF Stages, InHeader
<1>9. Received'
  BY <1>1, <1>2, <1>4, <1>6 DEF Received
<1>10. Parsed'
  BY <1>2, <1>3, <1>6, ParsedKept DEF EbmlInv
<1>11. ClustersBegin' /\ (TracksInHeader' => SyncPoints')
  BY <1>2, ChunksKept DEF EbmlInv
<1> QED
  BY <1>5, <1>7, <1>8, <1>9, <1>10, <1>11 DEF EbmlInv

(* Where everything is. *)
LEMMA Placed ==
    ASSUME EbmlTypeOK, Pieces
    PROVE  /\ given \in Nat /\ Len(ebml.buffer) \in Nat /\ Len(ebml.input) \in Nat
           /\ Len(ebml.header) \in Nat /\ Pos \in Nat /\ Base \in Nat
           /\ Len(ebml.input) = given - Pos /\ Len(ebml.buffer) = Pos - Base
           /\ Len(ebml.header) <= Base /\ Base <= Pos /\ Pos <= given
           /\ given <= Len(StreamBytes) /\ Len(StreamBytes) \in Nat /\ StreamBytes \in Seq(Bytes)
           /\ Cuts(StreamBytes, 0, Len(ebml.header)) /\ Cuts(StreamBytes, Len(ebml.header), Base)
           /\ Cuts(StreamBytes, Base, Pos) /\ Cuts(StreamBytes, Pos, given)
<1>1. /\ given \in Nat /\ Len(ebml.buffer) \in Nat /\ Len(ebml.input) \in Nat
      /\ Len(ebml.header) \in Nat /\ Pos \in Int /\ Base \in Int
      /\ Pos = given - Len(ebml.input) /\ Base = Pos - Len(ebml.buffer)
  BY Lengths
<1>2. StreamBytes \in Seq(Bytes) /\ Len(StreamBytes) \in Nat
  BY StreamThere
<1>3. /\ given <= Len(StreamBytes)
      /\ Len(ebml.input) <= given /\ Len(ebml.buffer) <= Pos /\ Len(ebml.header) <= Base
  BY DEF Pieces
<1> DEFINE a == Len(ebml.input)
           b == Len(ebml.buffer)
           h == Len(ebml.header)
           n == Len(StreamBytes)
           p == Pos
           q == Base
<1>4. given \in Nat /\ a \in Nat /\ b \in Nat /\ h \in Nat /\ n \in Nat /\ p = given - a /\ q = p - b
      /\ given <= n /\ a <= given /\ b <= p /\ h <= q
  BY <1>1, <1>2, <1>3
<1> HIDE DEF a, b, h, n, p, q
<1>5. p \in Nat /\ q \in Nat /\ q <= p /\ p <= given /\ a = given - p /\ b = p - q
  BY <1>4
<1>6. /\ Cuts(StreamBytes, 0, h) /\ Cuts(StreamBytes, h, q)
      /\ Cuts(StreamBytes, q, p) /\ Cuts(StreamBytes, p, given)
  <2>1. h <= n /\ q <= n /\ p <= n
    BY <1>4, <1>5
  <2> QED
    BY <1>4, <1>5, <2>1 DEF Cuts, n
<1> QED
  BY <1>2, <1>4, <1>5, <1>6 DEF a, b, h, n, p, q

(* More of the stream is read. *)
LEMMA FeedInv ==
    ASSUME EbmlInv, NEW n \in 0 .. Slice, Feed(n)
    PROVE  EbmlInv'
<1>1. EbmlTypeOK /\ Received /\ Stages /\ Pieces
  BY DEF EbmlInv
<1> DEFINE more == Part(StreamBytes, given, given + n)
<1>2. /\ UNCHANGED <<elements, streamHeader, chunks, failed, dump, listener>>
      /\ given' = given + n /\ parsing' = TRUE /\ given + n <= Len(StreamBytes)
      /\ ebml' = [ebml EXCEPT !.input = @ \o more]
  BY DEF Feed, others, Part
<1>3. n \in Nat /\ given + n \in Nat /\ given \in Nat /\ Len(ebml.input) \in Nat /\ Pos \in Nat
      /\ Pos <= given /\ StreamBytes \in Seq(Bytes) /\ given <= Len(StreamBytes)
      /\ ebml.input = Part(StreamBytes, Pos, given) /\ ebml.input \in Seq(Bytes)
  <2>1. n \in Nat
    BY SliceAssumption
  <2>2. ebml.input = Part(StreamBytes, Pos, given)
    BY <1>1 DEF Pieces
  <2>3. /\ given \in Nat /\ Len(ebml.input) \in Nat /\ Pos \in Nat
        /\ Pos <= given /\ StreamBytes \in Seq(Bytes) /\ given <= Len(StreamBytes)
    BY <1>1, Placed
  <2>4. ebml.input \in Seq(Bytes)
    BY <1>1, Fields
  <2>5. given + n \in Nat
    BY <2>1, <2>3
  <2> QED
    BY <2>1, <2>2, <2>3, <2>4, <2>5
<1>4. /\ ebml.input \o more = Part(StreamBytes, Pos, given + n)
      /\ more \in Seq(Bytes) /\ Len(more) = n /\ ebml.input \o more \in Seq(Bytes)
      /\ Len(ebml.input \o more) = Len(ebml.input) + n
  <2>1. Cuts(StreamBytes, Pos, given) /\ Cuts(StreamBytes, given, given + n)
    BY <1>2, <1>3 DEF Cuts
  <2>2. more \in Seq(Bytes) /\ Len(more) = n
    <3>1. more \in Seq(Bytes) /\ Len(more) = (given + n) - given
      BY <1>3, <2>1, PartIs
    <3> QED
      BY <1>3, <3>1
  <2>3. Part(StreamBytes, Pos, given) \o more = Part(StreamBytes, Pos, given + n)
    BY <1>3, <2>1, PartsJoin
  <2> HIDE DEF more
  <2>4. ebml.input \o more \in Seq(Bytes) /\ Len(ebml.input \o more) = Len(ebml.input) + Len(more)
    <3>1. ebml.input \in Seq(Bytes) /\ more \in Seq(Bytes)
      BY <1>3, <2>2
    <3> QED
      BY <3>1, ConcatProperties
  <2> QED
    BY <1>3, <2>2, <2>3, <2>4
<1> HIDE DEF more
<1>5. /\ ebml'.output = ebml.output /\ ebml'.state = ebml.state /\ ebml'.copyLen = ebml.copyLen
      /\ ebml'.clusterStart = ebml.clusterStart /\ ebml'.keyframe = ebml.keyframe
      /\ ebml'.flush = ebml.flush /\ ebml'.buffer = ebml.buffer
      /\ ebml'.input = ebml.input \o more
      /\ ebml'.header = ebml.header /\ ebml'.headerSize = ebml.headerSize
      /\ ebml'.keyTrack = ebml.keyTrack /\ ebml'.parsingTrack = ebml.parsingTrack
      /\ ebml'.isVideo = ebml.isVideo
  BY <1>1, <1>2 DEF EbmlTypeOK, Parsers
<1>6. ebml' \in Parsers
  BY <1>1, <1>2, <1>4 DEF EbmlTypeOK, Parsers
<1>7. EbmlTypeOK'
  BY <1>1, <1>2, <1>3, <1>6, ParsersKept DEF EbmlTypeOK
<1>8. Pos' = Pos /\ Base' = Base /\ ChunkData' = ChunkData
  <2>1. given' - Len(ebml'.input) = given - Len(ebml.input)
    BY <1>2, <1>3, <1>4, <1>5
  <2>2. Pos' = Pos
    BY <2>1 DEF Pos
  <2> QED
    BY <1>2, <1>5, <2>2 DEF Base, ChunkData
<1>9. Pieces'
  <2>1. ebml'.input = Part(StreamBytes, Pos, given + n) /\ Len(ebml'.input) <= given + n
    BY <1>1, <1>3, <1>4, <1>5 DEF Pieces
  <2> QED
    BY <1>1, <1>2, <1>5, <1>8, <2>1, StreamKept DEF Pieces
<1>10. Stages'
  BY <1>1, <1>2, <1>5, <1>8 DEF Stages, InHeader
<1>11. Received'
  BY <1>1, <1>2, <1>8 DEF Received
<1>12. Parsed'
  <2>1. ebml.input # <<>> => ebml'.input # <<>>
    BY <1>3, <1>4, <1>5
  <2> QED
    BY <1>2, <1>5, <1>8, <2>1, ParsedKept DEF EbmlInv
<1>13. ClustersBegin' /\ (TracksInHeader' => SyncPoints')
  BY <1>2, ChunksKept DEF EbmlInv
<1> QED
  BY <1>7, <1>9, <1>10, <1>11, <1>12, <1>13 DEF EbmlInv

----------------------------------------------------------------------------
(* The element that the parser is at *)

(* The input begins with the first byte of the next element. *)
LEMMA AtElement ==
    ASSUME EbmlTypeOK, Pieces, NEW i, At(i), ~Copying, ebml.input # <<>>
    PROVE  /\ i \in 1 .. Count /\ Head(ebml.input) = <<i, 1>> /\ Elem = elements[i]
           /\ Off[i] = Pos /\ Off[i + 1] = Pos + Size(i) /\ Size(i) \in Nat \ {0}
           /\ i \in Nat /\ i + 1 \in 1 .. Count + 1
<1>1. /\ given \in Nat /\ Len(ebml.input) = given - Pos /\ Pos \in Nat
      /\ given <= Len(StreamBytes) /\ StreamBytes \in Seq(Bytes) /\ Cuts(StreamBytes, Pos, given)
      /\ Len(StreamBytes) \in Nat
  BY Placed
<1>2. ebml.input = Part(StreamBytes, Pos, given) /\ ebml.input \in Seq(Bytes)
  BY Fields DEF Pieces
<1>3. Len(ebml.input) > 0 /\ Head(ebml.input) = ebml.input[1] /\ Len(ebml.input) \in Nat
  BY <1>2
<1>4. Head(ebml.input) = StreamBytes[Pos + 1]
  <2>1. StreamBytes \in Seq(Bytes) /\ Cuts(StreamBytes, Pos, given)
    BY <1>1
  <2>2. \A k \in 1 .. given - Pos : Part(StreamBytes, Pos, given)[k] = StreamBytes[Pos + k]
    BY ONLY <2>1, PartIs
  <2>3. 1 \in 1 .. given - Pos
    BY <1>1, <1>3
  <2> QED
    BY <1>2, <1>3, <2>2, <2>3
<1>5. Layout(Off) /\ Stream /\ Count \in Nat
  BY StreamThere
<1>6. i \in 1 .. Count + 1 /\ Off[i] = Pos
  <2>1. Off[i] = Pos + 0 /\ i \in 1 .. Count + 1
    BY DEF At
  <2> QED
    BY <1>1, <2>1
<1>7. Pos < Off[Count + 1]
  <2>1. Off[Count + 1] = Len(StreamBytes)
    BY <1>5 DEF Layout
  <2>2. given - Pos > 0
    BY <1>1, <1>3
  <2> HIDE DEF Pos
  <2> QED
    BY <1>1, <2>1, <2>2
<1>8. i \in 1 .. Count
  BY <1>1, <1>5, <1>6, <1>7
<1>9. Size(i) \in Nat \ {0}
  BY <1>5, <1>8 DEF Stream, Size
<1>10. Off[i + 1] = Off[i] + Size(i) /\ StreamBytes[Off[i] + 1] = <<i, 1>>
  <2>1. 1 \in 1 .. Size(i)
    BY <1>9
  <2> QED
    BY <1>5, <1>8, <2>1 DEF Layout
<1>11. Head(ebml.input) = <<i, 1>>
  BY <1>4, <1>6, <1>10
<1>12. Elem = elements[i]
  BY <1>11 DEF Elem
<1> QED
  BY <1>5, <1>6, <1>8, <1>9, <1>10, <1>11, <1>12

----------------------------------------------------------------------------
(* The tracks *)

(* A later element is in the same entry or in a later one. *)
LEMMA EntryGrows ==
    ASSUME NEW j \in Int, NEW k \in Int, j <= k
    PROVE  EntryOf(j) \subseteq EntryOf(k)
BY DEF EntryOf

(* Another element. *)
LEMMA EntryStep ==
    ASSUME NEW i \in Nat \ {0}
    PROVE  /\ elements[i].kind # "entry" => EntryOf(i) = EntryOf(i - 1)
           /\ elements[i].kind = "entry" => \A k \in 1 .. i - 1 : EntryOf(k) # EntryOf(i)
<1>1. ASSUME elements[i].kind # "entry" PROVE EntryOf(i) = EntryOf(i - 1)
  BY <1>1 DEF EntryOf
<1>2. ASSUME elements[i].kind = "entry", NEW k \in 1 .. i - 1 PROVE EntryOf(k) # EntryOf(i)
  <2>1. i \in EntryOf(i)
    BY <1>2 DEF EntryOf
  <2>2. i \notin EntryOf(k)
    BY DEF EntryOf
  <2> QED
    BY <2>1, <2>2
<1> QED
  BY <1>1, <1>2

(* Before the first video track is known, none comes before another. *)
LEMMA FirstVideo ==
    ASSUME Stream, TracksInHeader, NEW i \in 1 .. Count, NEW j \in 1 .. i,
           elements[j].kind = "number",
           \A a, b \in 1 .. i - 1 : ~SaysVideo(a, b)
    PROVE  \A x \in DOMAIN elements : IsVideoTrack(x) => j <= x
<1>1. Count \in Nat /\ DOMAIN elements = 1 .. Count
  BY DEF Stream
<1> SUFFICES ASSUME NEW x \in DOMAIN elements, NEW y \in DOMAIN elements, SaysVideo(x, y), x < j
             PROVE  FALSE
  BY <1>1 DEF IsVideoTrack
<1>2. elements[x].kind = "number" /\ EntryOf(y) = EntryOf(x)
  BY DEF SaysVideo
<1>3. j \in DOMAIN elements /\ x \in Int /\ y \in Int /\ j \in Int
  BY <1>1
<1>4. EntryOf(x) # EntryOf(j)
  BY <1>2, <1>3 DEF TracksInHeader
<1>5. EntryOf(x) \subseteq EntryOf(j)
  BY <1>3, EntryGrows
<1>6. ~(j <= y)
  <2>1. j <= y => EntryOf(j) \subseteq EntryOf(y)
    BY <1>3, EntryGrows
  <2> QED
    BY <1>2, <1>4, <1>5, <2>1
<1>7. x \in 1 .. i - 1 /\ y \in 1 .. i - 1
  BY <1>1, <1>6
<1> QED
  BY <1>7

(* At the clusters, the video track is known. *)
LEMMA VideoKnown ==
    ASSUME Stream, TracksInHeader, NEW i \in 1 .. Count + 1, Learned(i),
           NEW c \in 1 .. i - 1, elements[c].kind = "cluster"
    PROVE  ebml.keyTrack = VideoTrack
<1> DEFINE video == {j \in DOMAIN elements : \E k \in DOMAIN elements : SaysVideo(j, k)}
<1>1. Count \in Nat /\ DOMAIN elements = 1 .. Count /\ c \in DOMAIN elements /\ video \subseteq DOMAIN elements
  BY DEF Stream
<1>2. VideoTrack = IF video = {} THEN NoTrack
                   ELSE elements[CHOOSE j \in video : \A k \in video : j <= k].track
  BY DEF VideoTrack
<1>3. \A j : j \in video <=> j \in DOMAIN elements /\ IsVideoTrack(j)
  BY DEF IsVideoTrack
<1>4. ASSUME NEW j \in DOMAIN elements, NEW k \in DOMAIN elements, SaysVideo(j, k)
      PROVE  j \in 1 .. i - 1 /\ k \in 1 .. i - 1
  <2>1. elements[j].kind = "number" /\ elements[k].kind = "type"
    BY <1>4 DEF SaysVideo
  <2>2. ~(c < j) /\ ~(c < k)
    BY <1>1, <1>4, <2>1 DEF TracksInHeader
  <2> QED
    BY <1>1, <2>2
<1>5. CASE ebml.keyTrack = NoTrack
  <2>1. video = {}
    BY <1>4, <1>5 DEF Learned
  <2> QED
    BY <1>2, <1>5, <2>1
<1>6. CASE ebml.keyTrack # NoTrack
  <2>1. PICK j \in 1 .. i - 1 : /\ ebml.keyTrack = elements[j].track /\ IsVideoTrack(j)
                                /\ \A x \in DOMAIN elements : IsVideoTrack(x) => j <= x
    BY <1>6 DEF Learned
  <2>2. j \in DOMAIN elements
    BY <1>1
  <2> HIDE DEF video
  <2>3. j \in video /\ \A k \in video : j <= k
    BY <1>3, <2>1, <2>2
  <2>4. (CHOOSE x \in video : \A k \in video : x <= k) = j
    <3> DEFINE x == CHOOSE x \in video : \A k \in video : x <= k
    <3>1. x \in video /\ \A k \in video : x <= k
      BY <2>3
    <3> HIDE DEF x
    <3>2. x <= j /\ j <= x /\ x \in Nat /\ j \in Nat
      BY <1>1, <2>3, <3>1
    <3>3. x = j
      BY <3>2
    <3> QED
      BY <3>3 DEF x
  <2> QED
    BY <1>2, <2>1, <2>3, <2>4
<1> QED
  BY <1>5, <1>6

(* What the probe of an element changes. *)
LEMMA ProbedIs ==
    ASSUME EbmlTypeOK, NEW i \in 1 .. Count, Elem = elements[i]
    PROVE  /\ Probed \in Parsers
           /\ Probed.output = ebml.output /\ Probed.state = ebml.state
           /\ Probed.clusterStart = ebml.clusterStart /\ Probed.flush = ebml.flush
           /\ Probed.buffer = ebml.buffer /\ Probed.input = ebml.input
           /\ Probed.header = ebml.header /\ Probed.headerSize = ebml.headerSize
           /\ Probed.keyframe =
                IF elements[i].kind = "block" /\ ebml.keyframe = "unknown"
                   /\ elements[i].track = ebml.keyTrack
                THEN IF elements[i].key THEN "yes" ELSE "no" ELSE ebml.keyframe
           /\ Probed.parsingTrack =
                IF elements[i].kind = "entry" THEN NoTrack
                ELSE IF elements[i].kind = "number" THEN elements[i].track ELSE ebml.parsingTrack
           /\ Probed.isVideo =
                IF elements[i].kind = "entry" THEN FALSE
                ELSE IF elements[i].kind = "type" /\ elements[i].key THEN TRUE ELSE ebml.isVideo
           /\ Probed.keyTrack =
                IF /\ ebml.keyTrack = NoTrack
                   /\ \/ elements[i].kind = "number"
                      \/ elements[i].kind = "type" /\ elements[i].key
                   /\ Probed.isVideo /\ Probed.parsingTrack # NoTrack
                THEN Probed.parsingTrack ELSE ebml.keyTrack
<1>1. ebml \in Parsers
  BY DEF EbmlTypeOK
<1>2. elements[i].track \in TrackNumbers /\ NoTrack \in TrackNumbers
  <2>1. DOMAIN elements = 1 .. Count
    BY StreamThere DEF Stream
  <2> QED
    BY <2>1 DEF TrackNumbers
<1> DEFINE e == elements[i]
<1> HIDE DEF e
<1>3. CASE e.kind = "block"
  BY <1>1, <1>2, <1>3 DEF Probed, Parsers, e
<1>4. CASE e.kind = "entry"
  BY <1>1, <1>2, <1>4 DEF Probed, Parsers, e
<1>5. CASE e.kind = "number"
  BY <1>1, <1>2, <1>5 DEF Probed, Parsers, CheckTrack, e
<1>6. CASE e.kind = "type"
  BY <1>1, <1>2, <1>6 DEF Probed, Parsers, CheckTrack, e
<1>7. CASE e.kind \notin {"block", "entry", "number", "type"}
  BY <1>1, <1>2, <1>7 DEF Probed, Parsers, e
<1> QED
  BY <1>3, <1>4, <1>5, <1>6, <1>7

(* Another element is learned of. *)
LEMMA LearnedStep ==
    ASSUME EbmlTypeOK, UNCHANGED elements, TracksInHeader, NEW i \in 1 .. Count, Learned(i),
           Elem = elements[i], ebml'.parsingTrack = Probed.parsingTrack,
           ebml'.isVideo = Probed.isVideo, ebml'.keyTrack = Probed.keyTrack
    PROVE  Learned(i + 1)'
<1> DEFINE e == elements[i]
           track == Probed.parsingTrack
           video == Probed.isVideo
           key == Probed.keyTrack
<1>1. /\ Stream /\ Count \in Nat /\ DOMAIN elements = 1 .. Count /\ i \in DOMAIN elements
      /\ i \in Nat \ {0} /\ (i + 1) - 1 = i
  BY StreamThere DEF Stream
<1>2. /\ track = IF e.kind = "entry" THEN NoTrack
                 ELSE IF e.kind = "number" THEN e.track ELSE ebml.parsingTrack
      /\ video = IF e.kind = "entry" THEN FALSE
                 ELSE IF e.kind = "type" /\ e.key THEN TRUE ELSE ebml.isVideo
      /\ key = IF /\ ebml.keyTrack = NoTrack /\ (e.kind = "number" \/ (e.kind = "type" /\ e.key))
                  /\ video /\ track # NoTrack
               THEN track ELSE ebml.keyTrack
  BY ProbedIs
<1> HIDE DEF track, video, key
<1>3. \A k \in 1 .. i : k \in 1 .. i - 1 \/ k = i
  BY <1>1
<1>4. \A k \in 1 .. i - 1 : k \in 1 .. i
  BY <1>1
<1>5. i \in 1 .. i
  BY <1>1
(* The numbers and types of the entry. *)
<1>6. \A k \in 1 .. i : e.kind = "entry" /\ elements[k].kind \in {"number", "type"} => ~InEntry(k, i + 1)
  BY <1>1, <1>3, EntryStep DEF InEntry
<1>7. e.kind # "entry" => \A k : InEntry(k, i + 1) <=> InEntry(k, i)
  BY <1>1, EntryStep DEF InEntry
<1>8. InEntry(i, i + 1)
  BY <1>1 DEF InEntry
<1>9. \A j, k : SaysVideo(j, k) <=> /\ elements[j].kind = "number" /\ elements[k].kind = "type"
                                    /\ elements[k].key /\ EntryOf(k) = EntryOf(j)
  BY DEF SaysVideo
<1>10. \A k \in 1 .. i : elements[k].kind = "number" /\ InEntry(k, i + 1) => track = elements[k].track
  <2>1. ASSUME NEW k \in 1 .. i, elements[k].kind = "number", InEntry(k, i + 1)
        PROVE  track = elements[k].track
    <3>1. e.kind # "entry"
      BY <1>6, <2>1
    <3>2. CASE e.kind = "number"
      <4>1. EntryOf(k) = EntryOf(i) /\ k \in DOMAIN elements
        BY <1>1, <2>1 DEF InEntry
      <4>2. k = i
        BY <1>1, <2>1, <3>2, <4>1 DEF TracksInHeader
      <4> QED
        BY <1>2, <3>2, <4>2
    <3>3. CASE e.kind # "number"
      <4>1. k \in 1 .. i - 1 /\ InEntry(k, i)
        BY <1>3, <1>7, <2>1, <3>1, <3>3
      <4> QED
        BY <1>2, <2>1, <3>1, <3>3, <4>1 DEF Learned
    <3> QED
      BY <3>2, <3>3
  <2> QED
    BY <2>1
<1>11. track # NoTrack => \E k \in 1 .. i :
          elements[k].kind = "number" /\ InEntry(k, i + 1) /\ track = elements[k].track
  <2> SUFFICES ASSUME track # NoTrack
               PROVE  \E k \in 1 .. i :
                         elements[k].kind = "number" /\ InEntry(k, i + 1) /\ track = elements[k].track
    OBVIOUS
  <2>1. CASE e.kind = "number"
    BY <1>2, <1>5, <1>8, <2>1
  <2>2. CASE e.kind # "number"
    <3>1. e.kind # "entry" /\ track = ebml.parsingTrack
      BY <1>2, <2>2
    <3>2. PICK k \in 1 .. i - 1 :
             elements[k].kind = "number" /\ InEntry(k, i) /\ ebml.parsingTrack = elements[k].track
      BY <3>1 DEF Learned
    <3> QED
      BY <1>4, <1>7, <3>1, <3>2
  <2> QED
    BY <2>1, <2>2
<1>12. video <=> \E k \in 1 .. i :
          elements[k].kind = "type" /\ elements[k].key /\ InEntry(k, i + 1)
  <2>1. CASE e.kind = "entry"
    BY <1>2, <1>6, <2>1
  <2>2. CASE e.kind = "type" /\ e.key
    BY <1>2, <1>5, <1>8, <2>2
  <2>3. CASE e.kind # "entry" /\ ~(e.kind = "type" /\ e.key)
    <3>1. video = ebml.isVideo
      BY <1>2, <2>3
    <3>2. ebml.isVideo <=> \E k \in 1 .. i - 1 :
             elements[k].kind = "type" /\ elements[k].key /\ InEntry(k, i)
      BY DEF Learned
    <3> QED
      BY <1>3, <1>4, <1>7, <2>3, <3>1, <3>2
  <2> QED
    BY <2>1, <2>2, <2>3
<1>13. key = NoTrack => \A j, k \in 1 .. i : ~SaysVideo(j, k)
  <2>1. ASSUME key = NoTrack, NEW j \in 1 .. i, NEW k \in 1 .. i, SaysVideo(j, k)
        PROVE  FALSE
    <3>1. ebml.keyTrack = NoTrack /\ elements[j].track # NoTrack
      <4>1. j \in DOMAIN elements /\ elements[j].kind = "number"
        BY <1>1, <1>9, <2>1
      <4>2. elements[j].track # NoTrack
        BY <4>1 DEF TracksInHeader
      <4> QED
        BY <1>2, <2>1, <4>2
    <3>2. ~(j \in 1 .. i - 1 /\ k \in 1 .. i - 1)
      BY <2>1, <3>1 DEF Learned
    <3>3. CASE j = i
      <4>1. InEntry(k, i + 1) /\ e.kind = "number" /\ elements[k].kind = "type" /\ elements[k].key
        BY <1>1, <1>9, <2>1, <3>3 DEF InEntry
      <4>2. video
        BY <1>12, <2>1, <4>1
      <4>3. track = e.track
        BY <1>2, <4>1
      <4> QED
        BY <1>2, <2>1, <3>1, <3>3, <4>1, <4>2, <4>3
    <3>4. CASE k = i
      <4>1. InEntry(j, i + 1) /\ e.kind = "type" /\ e.key /\ elements[j].kind = "number"
        BY <1>1, <1>9, <2>1, <3>4 DEF InEntry
      <4>2. video /\ track = elements[j].track
        BY <1>2, <1>10, <2>1, <4>1
      <4> QED
        BY <1>2, <2>1, <3>1, <4>1, <4>2
    <3> QED
      BY <1>3, <3>2, <3>3, <3>4
  <2> QED
    BY <2>1
<1>14. key # NoTrack => \E j \in 1 .. i :
          /\ key = elements[j].track /\ IsVideoTrack(j)
          /\ \A x \in DOMAIN elements : IsVideoTrack(x) => j <= x
  <2> SUFFICES ASSUME key # NoTrack
               PROVE  \E j \in 1 .. i :
                         /\ key = elements[j].track /\ IsVideoTrack(j)
                         /\ \A x \in DOMAIN elements : IsVideoTrack(x) => j <= x
    OBVIOUS
  <2>1. CASE ebml.keyTrack # NoTrack
    <3>1. key = ebml.keyTrack
      BY <1>2, <2>1
    <3>2. PICK j \in 1 .. i - 1 :
             /\ ebml.keyTrack = elements[j].track /\ IsVideoTrack(j)
             /\ \A x \in DOMAIN elements : IsVideoTrack(x) => j <= x
      BY <2>1 DEF Learned
    <3> QED
      BY <1>4, <3>1, <3>2
  <2>2. CASE ebml.keyTrack = NoTrack
    <3>1. key = track /\ video /\ track # NoTrack
      BY <1>2, <2>2
    <3>2. PICK j \in 1 .. i : elements[j].kind = "number" /\ InEntry(j, i + 1) /\ track = elements[j].track
      BY <1>11, <3>1
    <3>3. PICK k \in 1 .. i : elements[k].kind = "type" /\ elements[k].key /\ InEntry(k, i + 1)
      BY <1>12, <3>1
    <3>4. SaysVideo(j, k) /\ k \in DOMAIN elements
      BY <1>1, <1>9, <3>2, <3>3 DEF InEntry
    <3>5. IsVideoTrack(j)
      BY <3>4 DEF IsVideoTrack
    <3>6. \A a, b \in 1 .. i - 1 : ~SaysVideo(a, b)
      BY <2>2 DEF Learned
    <3>7. \A x \in DOMAIN elements : IsVideoTrack(x) => j <= x
      BY <1>1, <3>2, <3>6, FirstVideo
    <3> QED
      BY <3>1, <3>2, <3>5, <3>7
  <2> QED
    BY <2>1, <2>2
<1> QED
  BY <1>1, <1>10, <1>11, <1>12, <1>13, <1>14, EntryKept DEF Learned, track, video, key

----------------------------------------------------------------------------
(* The steps of the parser through the tags *)

(* The buffers and the chunks stay where they are. *)
LEMMA PiecesKept ==
    ASSUME Pieces, UNCHANGED <<elements, given, chunks>>, ebml'.input = ebml.input,
           ebml'.buffer = ebml.buffer, ebml'.header = ebml.header
    PROVE  /\ Pieces' /\ Pos' = Pos /\ Base' = Base /\ ChunkData' = ChunkData
<1>1. Pos' = Pos /\ ChunkData' = ChunkData
  BY DEF Pos, ChunkData
<1>2. Base' = Base
  BY <1>1 DEF Base
<1> QED
  BY <1>1, <1>2, StreamKept DEF Pieces

(* Nobody gets more. *)
LEMMA ReceivedKept ==
    ASSUME Received, UNCHANGED <<chunks, streamHeader, dump, listener>>
    PROVE  Received'
<1>1. ChunkData' = ChunkData
  BY DEF ChunkData
<1> QED
  BY <1>1 DEF Received

(* ebml_wrote meets a cluster. *)
LEMMA FindClusterInv ==
    ASSUME EbmlInv, FindCluster
    PROVE  EbmlInv'
<1>1. EbmlTypeOK /\ Received /\ Stages /\ Pieces /\ Parsed
  BY DEF EbmlInv
<1>2. /\ UNCHANGED <<elements, given, parsing, streamHeader, chunks, failed, dump, listener>>
      /\ ebml' = [ebml EXCEPT !.state = "start"]
      /\ ebml.state \in {"header", "clusters"} /\ ebml.input # <<>> /\ Elem.kind = "cluster"
  BY DEF FindCluster, Continue, others, InTags, TagThere
<1>3. /\ ebml'.output = ebml.output /\ ebml'.state = "start" /\ ebml'.copyLen = ebml.copyLen
      /\ ebml'.clusterStart = ebml.clusterStart /\ ebml'.keyframe = ebml.keyframe
      /\ ebml'.flush = ebml.flush /\ ebml'.buffer = ebml.buffer /\ ebml'.input = ebml.input
      /\ ebml'.header = ebml.header /\ ebml'.headerSize = ebml.headerSize
      /\ ebml'.keyTrack = ebml.keyTrack /\ ebml'.parsingTrack = ebml.parsingTrack
      /\ ebml'.isVideo = ebml.isVideo /\ ebml' \in Parsers
  BY <1>1, <1>2 DEF EbmlTypeOK, Parsers
<1>4. EbmlTypeOK'
  BY <1>1, <1>2, <1>3, ParsersKept DEF EbmlTypeOK
<1>5. Pieces' /\ Pos' = Pos /\ Base' = Base
  BY <1>1, <1>2, <1>3, PiecesKept
<1>6. Stages'
  BY <1>1, <1>2, <1>3 DEF Stages, InHeader
<1>7. Received'
  BY <1>1, <1>2, ReceivedKept
<1>8. Parsed'
  <2>1. PICK i \in 1 .. Count + 1 : /\ At(i) /\ HeaderEnds(i) /\ InBuffer(i)
                                    /\ TracksInHeader => Learned(i)
    BY <1>1 DEF Parsed
  <2>2. ~Copying /\ ~Copying'
    BY <1>2, <1>3 DEF Copying
  <2>3. i \in 1 .. Count /\ Elem = elements[i] /\ Off[i] = Pos /\ i \in Nat
    BY <1>1, <1>2, <2>1, <2>2, AtElement
  <2>4. Pos \in Nat /\ Count \in Nat
    BY <1>1, Placed, StreamThere
  <2>5. At(i)'
    BY <1>2, <1>3, <1>5, <2>2, <2>3, <2>4, StreamKept DEF At
  <2>6. HeaderEnds(i)'
    <3>1. ~InHeader'
      BY <1>3 DEF InHeader
    <3>2. CASE InHeader
      <4>1. NoCluster(1, i - 1) /\ Len(ebml.header) = Off[i] /\ elements[i].kind = "cluster"
        BY <1>1, <1>2, <2>1, <2>3, <3>2 DEF HeaderEnds, Stages
      <4> QED
        BY <1>2, <1>3, <2>3, <3>1, <4>1, StreamKept, NoClusterKept DEF HeaderEnds
    <3>3. CASE ~InHeader
      BY <1>2, <1>3, <2>1, <3>1, <3>3, StreamKept, NoClusterKept DEF HeaderEnds
    <3> QED
      BY <3>2, <3>3
  <2>7. InBuffer(i)'
    <3>1. CASE ebml.clusterStart < 0
      BY <1>2, <1>3, <1>5, <2>1, <2>2, <3>1, StreamKept, ClusterByteKept DEF InBuffer
    <3>2. CASE ~(ebml.clusterStart < 0)
      BY <1>2, <1>3, <1>5, <2>1, <3>2, StreamKept, BufferedKept DEF InBuffer
    <3> QED
      BY <3>1, <3>2
  <2>8. TracksInHeader' => Learned(i)'
    BY <1>2, <1>3, <2>1, LearnedKept, StreamKept
  <2>9. i \in 1 .. Count' + 1
    BY <1>2, StreamKept
  <2> QED
    BY <2>5, <2>6, <2>7, <2>8, <2>9 DEF Parsed
<1>9. ClustersBegin' /\ (TracksInHeader' => SyncPoints')
  BY <1>2, ChunksKept DEF EbmlInv
<1> QED
  BY <1>4, <1>5, <1>6, <1>7, <1>8, <1>9 DEF EbmlInv

(* The cluster waits for the one in the buffer. *)
LEMMA WaitForFlushInv ==
    ASSUME EbmlInv, WaitForFlush
    PROVE  EbmlInv'
<1>1. EbmlTypeOK /\ Received /\ Stages /\ Pieces /\ Parsed
  BY DEF EbmlInv
<1>2. /\ UNCHANGED <<elements, given, streamHeader, chunks, failed, dump, listener>>
      /\ ebml' = [ebml EXCEPT !.flush = TRUE] /\ parsing' = FALSE
      /\ ebml.state = "start"
  BY DEF WaitForFlush, Wait, others
<1>3. /\ ebml'.output = ebml.output /\ ebml'.state = ebml.state /\ ebml'.copyLen = ebml.copyLen
      /\ ebml'.clusterStart = ebml.clusterStart /\ ebml'.keyframe = ebml.keyframe
      /\ ebml'.buffer = ebml.buffer /\ ebml'.input = ebml.input
      /\ ebml'.header = ebml.header /\ ebml'.headerSize = ebml.headerSize
      /\ ebml'.keyTrack = ebml.keyTrack /\ ebml'.parsingTrack = ebml.parsingTrack
      /\ ebml'.isVideo = ebml.isVideo /\ ebml' \in Parsers
  BY <1>1, <1>2 DEF EbmlTypeOK, Parsers
<1>4. EbmlTypeOK'
  BY <1>1, <1>2, <1>3, ParsersKept DEF EbmlTypeOK
<1>5. Pieces' /\ Pos' = Pos /\ Base' = Base
  BY <1>1, <1>2, <1>3, PiecesKept
<1>6. Stages'
  BY <1>1, <1>2, <1>3, <1>5 DEF Stages, InHeader
<1>7. Received'
  BY <1>1, <1>2, ReceivedKept
<1>8. Parsed'
  <2>1. PICK i \in 1 .. Count + 1 : /\ At(i) /\ HeaderEnds(i) /\ InBuffer(i)
                                    /\ TracksInHeader => Learned(i)
    BY <1>1 DEF Parsed
  <2>2. At(i)'
    BY <1>2, <1>3, <1>5, <2>1, StreamKept DEF At, Copying
  <2>3. HeaderEnds(i)'
    BY <1>2, <1>3, <2>1, HeaderEndsKept
  <2>4. InBuffer(i)'
    <3>1. CASE ebml.clusterStart < 0
      BY <1>2, <1>3, <1>5, <2>1, <3>1, StreamKept, ClusterByteKept DEF InBuffer, Copying
    <3>2. CASE ~(ebml.clusterStart < 0)
      BY <1>2, <1>3, <1>5, <2>1, <3>2, StreamKept, BufferedKept DEF InBuffer
    <3> QED
      BY <3>1, <3>2
  <2>5. TracksInHeader' => Learned(i)'
    BY <1>2, <1>3, <2>1, LearnedKept, StreamKept
  <2>6. i \in 1 .. Count' + 1
    BY <1>2, StreamKept
  <2> QED
    BY <2>2, <2>3, <2>4, <2>5, <2>6 DEF Parsed
<1>9. ClustersBegin' /\ (TracksInHeader' => SyncPoints')
  BY <1>2, ChunksKept DEF EbmlInv
<1> QED
  BY <1>4, <1>5, <1>6, <1>7, <1>8, <1>9 DEF EbmlInv

(* What is known of the video frames when element i is probed. *)
LEMMA FramesStep ==
    ASSUME EbmlTypeOK, UNCHANGED elements, TracksInHeader, NEW i \in 1 .. Count, Learned(i),
           Elem = elements[i], elements[i].kind # "cluster", NEW c \in 1 .. i - 1,
           elements[c].kind = "cluster", NoCluster(c + 1, i - 1), Frames(c, i),
           ebml'.keyframe = Probed.keyframe
    PROVE  Frames(c, i + 1)'
<1>1. Stream /\ Count \in Nat /\ DOMAIN elements = 1 .. Count /\ c \in Nat /\ i \in Nat /\ c < i
      /\ i \in DOMAIN elements /\ i \in 1 .. Count + 1 /\ (i + 1) - 1 = i
  BY StreamThere DEF Stream
<1>2. ebml.keyTrack = VideoTrack
  BY <1>1, VideoKnown
<1>3. ebml'.keyframe = IF elements[i].kind = "block" /\ ebml.keyframe = "unknown"
                          /\ elements[i].track = ebml.keyTrack
                       THEN IF elements[i].key THEN "yes" ELSE "no" ELSE ebml.keyframe
  BY ProbedIs
<1>4. VideoTrack' = VideoTrack /\ FirstFrame(c)' = FirstFrame(c)
  BY StreamKept, FirstFrameKept
<1>5. CASE /\ elements[i].kind = "block" /\ ebml.keyframe = "unknown"
           /\ elements[i].track = ebml.keyTrack
  <2>1. \A k \in c + 1 .. i - 1 : /\ elements[k].kind # "cluster"
                                  /\ elements[k].kind = "block" => elements[k].track # VideoTrack
    BY <1>5 DEF NoCluster, Frames
  <2>2. i \in FirstFrame(c)
    BY <1>1, <1>2, <1>5, <2>1 DEF FirstFrame
  <2>3. ebml'.keyframe = IF elements[i].key THEN "yes" ELSE "no"
    BY <1>3, <1>5
  <2> QED
    BY <1>4, <2>2, <2>3 DEF Frames
<1>6. CASE ~(/\ elements[i].kind = "block" /\ ebml.keyframe = "unknown"
             /\ elements[i].track = ebml.keyTrack)
  <2>1. ebml'.keyframe = ebml.keyframe
    BY <1>3, <1>6
  <2>2. ASSUME ebml.keyframe = "unknown", NEW k \in c + 1 .. i, elements[k].kind = "block"
        PROVE  elements[k].track # VideoTrack
    <3>1. CASE k = i
      BY <1>2, <1>6, <2>2, <3>1
    <3>2. CASE k # i
      <4>1. k \in c + 1 .. i - 1
        BY <1>1, <3>2
      <4> QED
        BY <2>2, <4>1 DEF Frames
    <3> QED
      BY <3>1, <3>2
  <2> QED
    BY <1>1, <1>4, <2>1, <2>2 DEF Frames
<1> QED
  BY <1>5, <1>6

(* ebml_wrote takes an element that is no cluster. *)
LEMMA TakeElementInv ==
    ASSUME EbmlInv, TakeElement
    PROVE  EbmlInv'
<1>1. EbmlTypeOK /\ Received /\ Stages /\ Pieces /\ Parsed
  BY DEF EbmlInv
<1>2. /\ UNCHANGED <<elements, given, parsing, streamHeader, chunks, failed, dump, listener>>
      /\ ebml.state \in {"header", "clusters"} /\ ebml.input # <<>> /\ Elem.kind # "cluster"
      /\ ebml' = [Probed EXCEPT !.copyLen = Elem.tag + Elem.size,
                     !.state = IF @ = "header" THEN "copy header" ELSE "copy data"]
  BY DEF TakeElement, Continue, others, InTags, TagThere
<1>3. PICK i \in 1 .. Count + 1 : /\ At(i) /\ HeaderEnds(i) /\ InBuffer(i)
                                  /\ TracksInHeader => Learned(i)
  BY <1>1 DEF Parsed
<1>4. ~Copying
  BY <1>2 DEF Copying
<1>5. /\ i \in 1 .. Count /\ Elem = elements[i] /\ Off[i] = Pos /\ i \in Nat
      /\ Off[i + 1] = Pos + Size(i) /\ Size(i) \in Nat \ {0} /\ i + 1 \in 1 .. Count + 1
  BY <1>1, <1>2, <1>3, <1>4, AtElement
<1>6. /\ Probed \in Parsers
      /\ Probed.output = ebml.output /\ Probed.state = ebml.state
      /\ Probed.clusterStart = ebml.clusterStart /\ Probed.flush = ebml.flush
      /\ Probed.buffer = ebml.buffer /\ Probed.input = ebml.input
      /\ Probed.header = ebml.header /\ Probed.headerSize = ebml.headerSize
  BY <1>1, <1>5, ProbedIs
<1>7. /\ ebml'.output = ebml.output /\ ebml'.copyLen = Size(i)
      /\ ebml'.state = IF ebml.state = "header" THEN "copy header" ELSE "copy data"
      /\ ebml'.clusterStart = ebml.clusterStart /\ ebml'.keyframe = Probed.keyframe
      /\ ebml'.flush = ebml.flush /\ ebml'.buffer = ebml.buffer /\ ebml'.input = ebml.input
      /\ ebml'.header = ebml.header /\ ebml'.headerSize = ebml.headerSize
      /\ ebml'.keyTrack = Probed.keyTrack /\ ebml'.parsingTrack = Probed.parsingTrack
      /\ ebml'.isVideo = Probed.isVideo /\ ebml' \in Parsers
  <2>1. Elem.tag + Elem.size = Size(i) /\ Size(i) \in Nat
    BY <1>5 DEF Size
  <2> QED
    BY <1>2, <1>6, <2>1 DEF Parsers
<1>8. EbmlTypeOK'
  BY <1>1, <1>2, <1>7, ParsersKept DEF EbmlTypeOK
<1>9. Pieces' /\ Pos' = Pos /\ Base' = Base
  BY <1>1, <1>2, <1>7, PiecesKept
<1>10. InHeader' <=> InHeader
  <2>1. CASE ebml.state = "header"
    <3>1. ebml'.state = "copy header"
      BY <1>7, <2>1
    <3> QED
      BY <2>1, <3>1 DEF InHeader
  <2>2. CASE ebml.state = "clusters"
    <3>1. ebml'.state = "copy data"
      BY <1>7, <2>2
    <3> QED
      BY <2>2, <3>1 DEF InHeader
  <2> QED
    BY <1>2, <2>1, <2>2
<1>11. Stages'
  BY <1>1, <1>2, <1>7, <1>9, <1>10 DEF Stages
<1>12. Received'
  BY <1>1, <1>2, ReceivedKept
<1>13. Pos \in Nat /\ Base \in Nat /\ Count \in Nat /\ (i + 1) - 1 = i /\ Off' = Off /\ Count' = Count
  BY <1>1, <1>2, <1>5, Placed, StreamThere, StreamKept
<1>14. Copying' /\ ebml'.state # "start"
  <2>1. ebml'.state \in {"copy header", "copy data"}
    BY <1>7
  <2> QED
    BY <2>1 DEF Copying
<1>15. \A a \in Nat \ {0} : NoCluster(a, i - 1) => NoCluster(a, i)'
  BY <1>2, <1>5 DEF NoCluster
<1>16. At(i + 1)'
  <2>1. i + 1 \in 1 .. Count' + 1 /\ Off'[i + 1] = Pos' + ebml'.copyLen
    BY <1>5, <1>7, <1>9, <1>13
  <2>2. ebml'.copyLen > 0 /\ i + 1 > 1
    <3>1. Size(i) > 0 /\ i + 1 > 1
      BY <1>5
    <3> QED
      BY <1>7, <3>1, Zenon
  <2>3. Off'[(i + 1) - 1] <= Pos'
    BY <1>5, <1>9, <1>13
  <2> QED
    BY <1>14, <2>1, <2>2, <2>3 DEF At
<1>17. HeaderEnds(i + 1)'
  <2>1. CASE InHeader
    <3>1. NoCluster(1, i)'
      BY <1>3, <1>15, <2>1 DEF HeaderEnds
    <3> QED
      BY <1>10, <1>13, <2>1, <3>1 DEF HeaderEnds
  <2>2. CASE ~InHeader
    <3>1. PICK f \in 1 .. Count :
            /\ elements[f].kind = "cluster" /\ NoCluster(1, f - 1)
            /\ Len(ebml.header) = Off[f] /\ f <= i
      BY <1>3, <2>2 DEF HeaderEnds
    <3>2. f <= i + 1 /\ f # i + 1
      BY <1>5, <3>1
    <3>3. NoCluster(1, f - 1)' /\ Len(ebml'.header) = Off'[f] /\ elements'[f].kind = "cluster"
      BY <1>2, <1>7, <1>13, <3>1, NoClusterKept
    <3> QED
      BY <1>10, <1>13, <2>2, <3>2, <3>3 DEF HeaderEnds
  <2> QED
    BY <2>1, <2>2
<1>18. InBuffer(i + 1)'
  <2>1. CASE ebml.clusterStart < 0
    <3>1. elements'[i].kind # "cluster"
      BY <1>2, <1>5
    <3>2. \A q \in Base' + 1 .. Pos' : ~ClusterByte(StreamBytes[q])'
      BY <1>2, <1>3, <1>9, <2>1, StreamKept, ClusterByteKept DEF InBuffer
    <3> QED
      BY <1>3, <1>7, <1>13, <2>1, <3>1, <3>2 DEF InBuffer
  <2>2. CASE ~(ebml.clusterStart < 0)
    <3>1. PICK c \in 1 .. Count : Buffered(c, i)
      BY <1>3, <2>2 DEF InBuffer
    <3>2. ~ebml.flush
      BY <1>2, <1>3, <2>2 DEF InBuffer
    <3>3. c \in 1 .. i - 1 /\ elements[c].kind = "cluster" /\ NoCluster(c + 1, i - 1)
      BY <3>1 DEF Buffered
    <3>4. c \in 1 .. i /\ NoCluster(c + 1, i)' /\ elements'[c].kind = "cluster"
      BY <1>2, <1>5, <1>15, <3>3
    <3>5. TracksInHeader' => Frames(c, i + 1)'
      <4>1. ASSUME TracksInHeader PROVE Frames(c, i + 1)'
        <5>1. Learned(i) /\ Frames(c, i)
          BY <1>3, <3>1, <4>1 DEF Buffered
        <5> QED
          BY <1>1, <1>2, <1>5, <1>7, <3>3, <4>1, <5>1, FramesStep
      <4> QED
        BY <1>2, <4>1, StreamKept
    <3>6. \A q \in Base' + 1 .. Pos' : ClusterByte(StreamBytes[q])' => q = Off'[c] + 1
      BY <1>2, <1>9, <1>13, <3>1, StreamKept, ClusterByteKept DEF Buffered
    <3>7. Off'[c] = Base' + ebml'.clusterStart /\ ebml'.clusterStart <= Len(ebml'.buffer)
      BY <1>7, <1>9, <1>13, <3>1 DEF Buffered
    <3>8. Buffered(c, i + 1)'
      BY <1>13, <3>4, <3>5, <3>6, <3>7 DEF Buffered
    <3> QED
      BY <1>7, <1>13, <2>2, <3>2, <3>8 DEF InBuffer
  <2> QED
    BY <2>1, <2>2
<1>19. TracksInHeader' => Learned(i + 1)'
  BY <1>1, <1>2, <1>3, <1>5, <1>7, StreamKept, LearnedStep
<1>20. Parsed'
  BY <1>5, <1>13, <1>16, <1>17, <1>18, <1>19 DEF Parsed
<1>21. ClustersBegin' /\ (TracksInHeader' => SyncPoints')
  BY <1>2, ChunksKept DEF EbmlInv
<1> QED
  BY <1>8, <1>9, <1>11, <1>12, <1>20, <1>21 DEF EbmlInv

(* A cluster begins in the buffer; the first one ends the header. *)
LEMMA StartClusterInv ==
    ASSUME EbmlInv, StartCluster
    PROVE  EbmlInv'
<1>1. EbmlTypeOK /\ Received /\ Stages /\ Pieces /\ Parsed
  BY DEF EbmlInv
<1>2. /\ UNCHANGED <<elements, given, parsing, streamHeader, chunks, failed, dump, listener>>
      /\ ebml.state = "start" /\ ebml.clusterStart < 0
      /\ ebml' = [ebml EXCEPT
           !.headerSize = Len(ebml.header), !.clusterStart = Len(ebml.buffer),
           !.keyframe = "unknown", !.flush = FALSE,
           !.copyLen = Elem.tag, !.state = "copy data"]
  BY DEF StartCluster, Continue, others
<1>3. PICK i \in 1 .. Count + 1 : /\ At(i) /\ HeaderEnds(i) /\ InBuffer(i)
                                  /\ TracksInHeader => Learned(i)
  BY <1>1 DEF Parsed
<1>4. ~Copying /\ ebml.input # <<>> /\ elements[i].kind = "cluster"
  BY <1>2, <1>3 DEF Copying, At
<1>5. /\ i \in 1 .. Count /\ Elem = elements[i] /\ Off[i] = Pos /\ i \in Nat
      /\ Off[i + 1] = Pos + Size(i) /\ Size(i) \in Nat \ {0} /\ i + 1 \in 1 .. Count + 1
  BY <1>1, <1>3, <1>4, AtElement
<1>6. Elem.tag = Size(i)
  BY <1>1, <1>4, <1>5, StreamThere DEF Stream, Size
<1>7. /\ Pos \in Nat /\ Base \in Nat /\ Len(ebml.buffer) \in Nat /\ Len(ebml.header) \in Nat
      /\ Len(ebml.buffer) = Pos - Base
  BY <1>1, Placed
<1>8. /\ ebml'.output = ebml.output /\ ebml'.copyLen = Size(i) /\ ebml'.state = "copy data"
      /\ ebml'.clusterStart = Len(ebml.buffer) /\ ebml'.keyframe = "unknown"
      /\ ebml'.flush = FALSE /\ ebml'.buffer = ebml.buffer /\ ebml'.input = ebml.input
      /\ ebml'.header = ebml.header /\ ebml'.headerSize = Len(ebml.header)
      /\ ebml'.keyTrack = ebml.keyTrack /\ ebml'.parsingTrack = ebml.parsingTrack
      /\ ebml'.isVideo = ebml.isVideo
  BY <1>1, <1>2, <1>6 DEF EbmlTypeOK, Parsers
<1>9. EbmlTypeOK'
  <2>1. ebml' \in Parsers
    <3> DEFINE t == Elem.tag
               h == Len(ebml.header)
               b == Len(ebml.buffer)
    <3>1. t \in Nat /\ h \in Nat /\ b \in Int
      BY <1>5, <1>6, <1>7
    <3>2. ebml' = [ebml EXCEPT !.headerSize = h, !.clusterStart = b, !.keyframe = "unknown",
                               !.flush = FALSE, !.copyLen = t, !.state = "copy data"]
      BY <1>2
    <3> HIDE DEF t, h, b
    <3> QED
      BY <1>1, <3>1, <3>2 DEF EbmlTypeOK, Parsers
  <2> QED
    BY <1>1, <1>2, <2>1, ParsersKept DEF EbmlTypeOK
<1>10. Pieces' /\ Pos' = Pos /\ Base' = Base
  BY <1>1, <1>2, <1>8, PiecesKept
<1>11. Copying' /\ ~InHeader' /\ ~InHeader /\ ebml'.state # "start"
  BY <1>2, <1>8 DEF Copying, InHeader
<1>12. Stages'
  BY <1>1, <1>2, <1>8, <1>11 DEF Stages
<1>13. Received'
  BY <1>1, <1>2, ReceivedKept
<1>14. Count \in Nat /\ (i + 1) - 1 = i /\ Off' = Off /\ Count' = Count
  BY <1>1, <1>2, <1>5, StreamThere, StreamKept
<1>15. At(i + 1)'
  <2>1. i + 1 \in 1 .. Count' + 1 /\ Off'[i + 1] = Pos' + ebml'.copyLen
    BY <1>5, <1>8, <1>10, <1>14
  <2>2. ebml'.copyLen > 0 /\ i + 1 > 1
    <3>1. Size(i) > 0 /\ i + 1 > 1
      BY <1>5
    <3> QED
      BY <1>8, <3>1, Zenon
  <2>3. Off'[(i + 1) - 1] <= Pos'
    BY <1>5, <1>7, <1>10, <1>14
  <2> QED
    BY <1>11, <2>1, <2>2, <2>3 DEF At
<1>16. HeaderEnds(i + 1)'
  <2>1. PICK f \in 1 .. Count :
          /\ elements[f].kind = "cluster" /\ NoCluster(1, f - 1)
          /\ Len(ebml.header) = Off[f] /\ f <= i
    BY <1>3, <1>11 DEF HeaderEnds
  <2>2. f <= i + 1 /\ f # i + 1
    BY <1>5, <2>1
  <2>3. NoCluster(1, f - 1)' /\ Len(ebml'.header) = Off'[f] /\ elements'[f].kind = "cluster"
    BY <1>2, <1>8, <1>14, <2>1, NoClusterKept
  <2> QED
    BY <1>11, <1>14, <2>2, <2>3 DEF HeaderEnds
<1>17. InBuffer(i + 1)'
  <2>1. i \in 1 .. i /\ elements'[i].kind = "cluster" /\ NoCluster(i + 1, i)'
    BY <1>2, <1>4, <1>5 DEF NoCluster
  <2>2. Off'[i] = Base' + ebml'.clusterStart /\ ebml'.clusterStart <= Len(ebml'.buffer)
    <3>1. Off[i] = Base + Len(ebml.buffer) /\ Len(ebml.buffer) <= Len(ebml.buffer)
      BY <1>5, <1>7
    <3> QED
      BY <1>8, <1>10, <1>14, <3>1, Zenon
  <2>3. \A q \in Base' + 1 .. Pos' : ~ClusterByte(StreamBytes[q])'
    BY <1>2, <1>3, <1>10, StreamKept, ClusterByteKept DEF InBuffer
  <2>4. Frames(i, i + 1)'
    <3>1. \A k \in i + 1 .. i : FALSE
      BY <1>5
    <3> QED
      BY <1>8, <1>14, <3>1 DEF Frames
  <2>5. Buffered(i, i + 1)'
    BY <1>14, <2>1, <2>2, <2>3, <2>4 DEF Buffered
  <2>6. ~(ebml'.clusterStart < 0)
    <3>1. ~(Len(ebml.buffer) < 0)
      BY <1>7
    <3> QED
      BY <1>8, <3>1, Zenon
  <2> QED
    BY <1>5, <1>8, <1>14, <2>5, <2>6 DEF InBuffer
<1>18. TracksInHeader' => Learned(i + 1)'
  <2>1. /\ ebml'.parsingTrack = Probed.parsingTrack /\ ebml'.isVideo = Probed.isVideo
        /\ ebml'.keyTrack = Probed.keyTrack
    BY <1>1, <1>4, <1>5, <1>8, ProbedIs
  <2> QED
    BY <1>1, <1>2, <1>3, <1>5, <2>1, StreamKept, LearnedStep
<1>19. Parsed'
  BY <1>5, <1>14, <1>15, <1>16, <1>17, <1>18 DEF Parsed
<1>20. ClustersBegin' /\ (TracksInHeader' => SyncPoints')
  BY <1>2, ChunksKept DEF EbmlInv
<1> QED
  BY <1>9, <1>10, <1>12, <1>13, <1>19, <1>20 DEF EbmlInv

----------------------------------------------------------------------------
(* The steps that copy *)

(* The first n bytes of the input, and the others. *)
LEMMA InputCut ==
    ASSUME EbmlTypeOK, Pieces, NEW n \in Nat, n <= Len(ebml.input)
    PROVE  /\ SubSeq(ebml.input, 1, n) = Part(StreamBytes, Pos, Pos + n)
           /\ SubSeq(ebml.input, n + 1, Len(ebml.input)) = Part(StreamBytes, Pos + n, given)
           /\ Cuts(StreamBytes, Pos, Pos + n) /\ Cuts(StreamBytes, Pos + n, given)
           /\ Len(Part(StreamBytes, Pos + n, given)) = given - (Pos + n)
           /\ Part(StreamBytes, Pos + n, given) \in Seq(Bytes)
<1> DEFINE l == Len(ebml.input)
           p == Pos
<1>1. /\ given \in Nat /\ l \in Nat /\ p \in Nat /\ l = given - p /\ p <= given
      /\ StreamBytes \in Seq(Bytes) /\ Cuts(StreamBytes, p, given)
  BY Placed
<1>2. ebml.input = Part(StreamBytes, p, given) /\ l = Len(ebml.input)
  BY DEF Pieces
<1>3. n <= l
  OBVIOUS
<1> HIDE DEF l, p
<1>4. Cuts(Part(StreamBytes, p, given), 0, n) /\ Cuts(Part(StreamBytes, p, given), n, l)
  BY <1>1, <1>2, <1>3 DEF Cuts
<1>5. /\ Part(ebml.input, 0, n) = Part(StreamBytes, p + 0, p + n) /\ Cuts(StreamBytes, p + 0, p + n)
      /\ Part(ebml.input, n, l) = Part(StreamBytes, p + n, p + l) /\ Cuts(StreamBytes, p + n, p + l)
  BY <1>1, <1>2, <1>4, PartOfPart
<1>6. p + 0 = p /\ p + l = given
  BY <1>1
<1>7. /\ Len(Part(StreamBytes, p + n, given)) = given - (p + n)
      /\ Part(StreamBytes, p + n, given) \in Seq(Bytes)
  BY <1>1, <1>5, <1>6, PartIs
<1>8. Part(ebml.input, 0, n) = SubSeq(ebml.input, 1, n)
  BY DEF Part
<1>9. Part(ebml.input, n, l) = SubSeq(ebml.input, n + 1, l)
  BY DEF Part
<1> QED
  BY <1>5, <1>6, <1>7, <1>8, <1>9 DEF p, l

(* The parser goes on behind what was copied. *)
LEMMA AtCopied ==
    ASSUME EbmlTypeOK, Pieces, UNCHANGED elements, NEW i, At(i), Copying, NEW n \in Nat,
           n <= ebml.copyLen, Pos' = Pos + n, ebml'.copyLen = ebml.copyLen - n,
           IF ebml.copyLen = n THEN ebml'.state \in {"header", "clusters"}
           ELSE ebml'.state = ebml.state
    PROVE  At(i)' /\ (Copying' => ebml.copyLen # n)
<1>1. i \in 1 .. Count + 1 /\ Off[i] = Pos + ebml.copyLen /\ i > 1 /\ Off[i - 1] <= Pos
  BY DEF At
<1>2. Off' = Off /\ Count' = Count /\ Pos \in Nat /\ ebml.copyLen \in Nat
  BY Placed, Fields, StreamKept
<1>3. ebml'.state # "start" /\ (Copying' <=> ebml.copyLen # n)
  BY DEF Copying
<1>4. CASE ebml.copyLen = n
  <2>1. Off'[i] = Pos' + 0
    BY <1>1, <1>2, <1>4
  <2> QED
    BY <1>1, <1>2, <1>3, <1>4, <2>1 DEF At
<1>5. CASE ebml.copyLen # n
  <2> DEFINE l == ebml.copyLen
             m == ebml'.copyLen
             o == Off[i - 1]
  <2>1. l \in Nat /\ m = l - n /\ n <= l /\ l # n /\ Pos' = Pos + n /\ Off[i] = Pos + l /\ o <= Pos
    BY <1>1, <1>2, <1>5
  <2>2. o \in Nat
    <3>1. Layout(Off) /\ Count \in Nat /\ i - 1 \in 1 .. Count + 1
      BY <1>1, StreamThere
    <3> QED
      BY <3>1 DEF Layout
  <2> HIDE DEF l, m, o
  <2>3. m > 0 /\ Off[i] = Pos' + m /\ o <= Pos'
    BY <1>2, <2>1, <2>2
  <2> QED
    BY <1>1, <1>2, <1>3, <1>5, <2>3 DEF At, l, m, o
<1> QED
  BY <1>3, <1>4, <1>5

(* More of an element is copied to the header. *)
LEMMA CopyToHeaderInv ==
    ASSUME EbmlInv, CopyToHeader
    PROVE  EbmlInv'
<1>1. EbmlTypeOK /\ Received /\ Stages /\ Pieces /\ Parsed
  BY DEF EbmlInv
<1> DEFINE n == Fewer(ebml.copyLen, Len(ebml.input))
           e == [ebml EXCEPT !.header = @ \o SubSeq(ebml.input, 1, n)]
<1>2. /\ ebml.state = "copy header" /\ parsing
      /\ IF Len(ebml.header) + n > HeaderMax THEN Fail ELSE Copied(e, n, "header")
  BY DEF CopyToHeader
<1>3. n \in Nat /\ n <= ebml.copyLen /\ n <= Len(ebml.input)
  <2>1. ebml.copyLen \in Nat /\ Len(ebml.input) \in Nat
    BY <1>1, Fields, Placed
  <2> QED
    BY <2>1 DEF Fewer
<1> HIDE DEF n
<1>4. CASE Fail
  <2>1. UNCHANGED <<elements, given, ebml, streamHeader, chunks, others>>
        /\ parsing' \in BOOLEAN /\ failed' \in BOOLEAN
    BY <1>4 DEF Fail
  <2> QED
    BY <2>1, EbmlQuietInv
<1>5. CASE Copied(e, n, "header")
  <2> DEFINE front == ebml.header \o SubSeq(ebml.input, 1, n)
             rest == SubSeq(ebml.input, n + 1, Len(ebml.input))
  <2>1. /\ UNCHANGED <<elements, given, streamHeader, chunks, failed, dump, listener>>
        /\ parsing' \in BOOLEAN
        /\ ebml' = IF ebml.copyLen = n
                   THEN [ebml EXCEPT !.header = front, !.input = rest, !.copyLen = @ - n, !.state = "header"]
                   ELSE [ebml EXCEPT !.header = front, !.input = rest, !.copyLen = @ - n]
    <3>1. e.input = ebml.input /\ e.copyLen = ebml.copyLen
      BY <1>1 DEF EbmlTypeOK, Parsers
    <3>2. CASE ebml.copyLen = n
      BY <1>1, <1>2, <1>5, <3>1, <3>2 DEF Copied, Continue, others, EbmlTypeOK, Parsers
    <3>3. CASE ebml.copyLen # n
      BY <1>1, <1>2, <1>5, <3>1, <3>3 DEF Copied, Wait, others, EbmlTypeOK, Parsers
    <3> QED
      BY <3>2, <3>3
  <2> HIDE DEF e, front, rest
  <2>2. /\ ebml'.output = ebml.output /\ ebml'.copyLen = ebml.copyLen - n
        /\ ebml'.state = (IF ebml.copyLen = n THEN "header" ELSE ebml.state)
        /\ ebml'.clusterStart = ebml.clusterStart /\ ebml'.keyframe = ebml.keyframe
        /\ ebml'.flush = ebml.flush /\ ebml'.buffer = ebml.buffer /\ ebml'.input = rest
        /\ ebml'.header = front /\ ebml'.headerSize = ebml.headerSize
        /\ ebml'.keyTrack = ebml.keyTrack /\ ebml'.parsingTrack = ebml.parsingTrack
        /\ ebml'.isVideo = ebml.isVideo
    BY <1>1, <2>1 DEF EbmlTypeOK, Parsers
  (* Everything is in the header. *)
  <2>3. /\ InHeader /\ Copying /\ InHeader' /\ ebml.output = "header" /\ ebml.headerSize = 0
        /\ Len(ebml.header) = Pos /\ ebml.clusterStart = -1 /\ chunks = <<>> /\ streamHeader = <<>>
    <3>1. InHeader /\ Copying /\ InHeader'
      BY <1>2, <2>2 DEF InHeader, Copying
    <3> QED
      BY <1>1, <3>1 DEF Stages
  <2>4. /\ Base = Pos /\ Pos \in Nat /\ Pos + n \in Nat /\ Len(ebml.buffer) = 0 /\ given \in Nat
        /\ StreamBytes \in Seq(Bytes) /\ given <= Len(StreamBytes) /\ Pos <= given
        /\ Cuts(StreamBytes, 0, Pos) /\ ebml.header = Part(StreamBytes, 0, Pos)
    <3>1. /\ Pos \in Nat /\ Base \in Nat /\ Len(ebml.header) <= Base /\ Base <= Pos
          /\ Len(ebml.buffer) = Pos - Base /\ given \in Nat
          /\ StreamBytes \in Seq(Bytes) /\ given <= Len(StreamBytes) /\ Pos <= given
          /\ Cuts(StreamBytes, 0, Len(ebml.header))
      BY <1>1, Placed
    <3>2. ebml.header = Part(StreamBytes, 0, Len(ebml.header))
      BY <1>1 DEF Pieces
    <3>3. Base = Pos
      BY <2>3, <3>1
    <3> QED
      BY <1>3, <2>3, <3>1, <3>2, <3>3
  <2>5. /\ front = Part(StreamBytes, 0, Pos + n) /\ Cuts(StreamBytes, 0, Pos + n)
        /\ rest = Part(StreamBytes, Pos + n, given) /\ Cuts(StreamBytes, Pos + n, given)
        /\ rest \in Seq(Bytes) /\ Len(rest) = given - (Pos + n)
    <3>1. /\ SubSeq(ebml.input, 1, n) = Part(StreamBytes, Pos, Pos + n)
          /\ Cuts(StreamBytes, Pos, Pos + n) /\ Cuts(StreamBytes, Pos + n, given)
          /\ rest = Part(StreamBytes, Pos + n, given)
          /\ Len(Part(StreamBytes, Pos + n, given)) = given - (Pos + n)
          /\ Part(StreamBytes, Pos + n, given) \in Seq(Bytes)
      BY <1>1, <1>3, InputCut DEF rest
    <3>2. /\ Part(StreamBytes, 0, Pos) \o Part(StreamBytes, Pos, Pos + n) = Part(StreamBytes, 0, Pos + n)
          /\ Cuts(StreamBytes, 0, Pos + n)
      BY <2>4, <3>1, PartsJoin
    <3> QED
      BY <2>4, <3>1, <3>2 DEF front
  <2>6. front \in Seq(Bytes) /\ Len(front) = Pos + n
    <3>1. front \in Seq(Bytes) /\ Len(front) = (Pos + n) - 0
      BY <2>4, <2>5, PartIs
    <3> QED
      BY <2>4, <3>1
  <2>7. EbmlTypeOK'
    <3>1. ebml.copyLen - n \in Nat
      <4>1. ebml.copyLen \in Nat
        BY <1>1, Fields
      <4> QED
        BY <1>3, <4>1
    <3>2. ebml' \in Parsers
      BY <1>1, <2>1, <2>5, <2>6, <3>1 DEF EbmlTypeOK, Parsers
    <3> QED
      BY <1>1, <2>1, <3>2, ParsersKept DEF EbmlTypeOK
  <2>8. Pos' = Pos + n /\ Base' = Pos + n /\ ChunkData' = ChunkData
    <3>1. given' - Len(ebml'.input) = Pos + n
      BY <2>1, <2>2, <2>4, <2>5
    <3>2. Pos' = Pos + n
      BY <3>1 DEF Pos
    <3>3. Pos' - Len(ebml'.buffer) = Pos + n
      BY <2>2, <2>4, <3>2
    <3> QED
      BY <2>1, <3>2, <3>3 DEF Base, ChunkData
  <2>9. Pieces'
    <3>1. ebml.buffer = <<>> /\ FlattenSeq(ChunkData) = <<>>
      <4>1. Part(StreamBytes, Pos, Pos) = <<>>
        BY <2>4, PartWhole
      <4> QED
        BY <1>1, <2>3, <2>4, <4>1 DEF Pieces
    <3>2. Part(StreamBytes, Pos + n, Pos + n) = <<>>
      BY <2>4, PartWhole
    <3>3. /\ Len(ebml'.input) <= given' /\ Len(ebml'.buffer) <= Pos' /\ Len(ebml'.header) <= Base'
          /\ Len(ebml'.buffer) <= Slice
      <4>1. Len(rest) <= given /\ 0 <= Pos + n /\ Pos + n <= Pos + n /\ 0 <= Slice
        BY <2>4, <2>5, SliceAssumption
      <4> QED
        BY <2>1, <2>2, <2>4, <2>6, <2>8, <4>1, Zenon
    <3> QED
      BY <2>1, <2>2, <2>4, <2>5, <2>6, <2>8, <3>1, <3>2, <3>3, StreamKept DEF Pieces
  <2>10. Stages'
    BY <2>1, <2>2, <2>3, <2>6, <2>8 DEF Stages
  <2>11. Received'
    BY <1>1, <2>1, ReceivedKept
  <2>12. Parsed'
    <3>1. PICK i \in 1 .. Count + 1 : /\ At(i) /\ HeaderEnds(i) /\ InBuffer(i)
                                      /\ TracksInHeader => Learned(i)
      BY <1>1 DEF Parsed
    <3>2. At(i)'
      BY <1>1, <1>3, <2>1, <2>2, <2>3, <2>8, <3>1, AtCopied
    <3>3. NoCluster(1, i - 1)
      BY <2>3, <3>1 DEF HeaderEnds
    <3>4. HeaderEnds(i)'
      BY <2>1, <2>3, <3>3, NoClusterKept DEF HeaderEnds
    <3>5. InBuffer(i)'
      <4>1. i > 1 /\ Count \in Nat
        BY <1>1, <2>3, <3>1, StreamThere DEF At
      <4>2. elements'[i - 1].kind # "cluster"
        BY <2>1, <3>3, <4>1 DEF NoCluster
      <4>3. \A q \in Base' + 1 .. Pos' : FALSE
        BY <2>4, <2>8
      <4>4. ebml'.clusterStart = -1
        BY <2>2, <2>3
      <4> QED
        BY <4>2, <4>3, <4>4 DEF InBuffer
    <3>6. TracksInHeader' => Learned(i)'
      BY <2>1, <2>2, <3>1, LearnedKept, StreamKept
    <3>7. i \in 1 .. Count' + 1
      BY <2>1, StreamKept
    <3> QED
      BY <3>2, <3>4, <3>5, <3>6, <3>7 DEF Parsed
  <2>13. ClustersBegin' /\ (TracksInHeader' => SyncPoints')
    BY <2>1, ChunksKept DEF EbmlInv
  <2> QED
    BY <2>7, <2>9, <2>10, <2>11, <2>12, <2>13 DEF EbmlInv
<1> QED
  BY <1>2, <1>4, <1>5

(* The bytes that are copied are those of the element before i. *)
LEMMA CopiedBytes ==
    ASSUME EbmlTypeOK, Pieces, NEW i, At(i), Copying, NEW q \in Pos + 1 .. Pos + ebml.copyLen
    PROVE  ClusterByte(StreamBytes[q]) => elements[i - 1].kind = "cluster" /\ q = Off[i - 1] + 1
<1>1. i \in 1 .. Count + 1 /\ Off[i] = Pos + ebml.copyLen /\ i > 1 /\ Off[i - 1] <= Pos
  BY DEF At
<1>2. Pos \in Nat /\ ebml.copyLen \in Nat /\ Layout(Off) /\ Count \in Nat
  BY Placed, Fields, StreamThere
<1> DEFINE j == i - 1
           l == ebml.copyLen
           k == q - Off[j]
<1>3. j \in 1 .. Count /\ j \in 1 .. Count + 1 /\ j + 1 = i
  BY <1>1, <1>2
<1>4. l \in Nat /\ Off[i] = Pos + l /\ Off[j] <= Pos /\ q \in Pos + 1 .. Pos + l
  BY <1>1, <1>2
<1> HIDE DEF j, l
<1>5. Off[j + 1] = Off[j] + Size(j) /\ Off[j] \in Nat
  BY <1>2, <1>3 DEF Layout
<1>6. Size(j) \in Nat
  <2>1. Stream
    BY StreamThere
  <2> QED
    BY <1>3, <2>1 DEF Stream, Size
<1>7. k \in 1 .. Size(j) /\ Off[j] + k = q
  BY <1>2, <1>3, <1>4, <1>5, <1>6
<1> HIDE DEF k
<1>8. StreamBytes[q] = <<j, k>>
  <2>1. StreamBytes[Off[j] + k] = <<j, k>>
    BY <1>2, <1>3, <1>7 DEF Layout
  <2> QED
    BY <1>7, <2>1
<1>9. ClusterByte(StreamBytes[q]) => k = 1 /\ elements[j].kind = "cluster"
  BY <1>8 DEF ClusterByte
<1> QED
  BY <1>7, <1>9 DEF j

(* More of an element is copied to the buffer. *)
LEMMA CopyToDataInv ==
    ASSUME EbmlInv, CopyToData
    PROVE  EbmlInv'
<1>1. EbmlTypeOK /\ Received /\ Stages /\ Pieces /\ Parsed
  BY DEF EbmlInv
<1> DEFINE n == Fewer(Fewer(ebml.copyLen, Len(ebml.input)), Slice - Len(ebml.buffer))
           e == [ebml EXCEPT !.buffer = @ \o SubSeq(ebml.input, 1, n)]
           data == ebml.buffer \o SubSeq(ebml.input, 1, n)
           rest == SubSeq(ebml.input, n + 1, Len(ebml.input))
<1>2. ebml.state = "copy data" /\ parsing /\ Copied(e, n, "clusters")
  BY DEF CopyToData
<1>3. /\ n \in Nat /\ n <= ebml.copyLen /\ n <= Len(ebml.input) /\ n <= Slice - Len(ebml.buffer)
  <2>1. ebml.copyLen \in Nat /\ Len(ebml.input) \in Nat /\ Len(ebml.buffer) \in Nat
    BY <1>1, Fields, Placed
  <2>2. Len(ebml.buffer) <= Slice
    BY <1>1 DEF Pieces
  <2> QED
    BY <2>1, <2>2, SliceAssumption DEF Fewer
<1> HIDE DEF n
<1>4. /\ UNCHANGED <<elements, given, streamHeader, chunks, failed, dump, listener>>
      /\ parsing' \in BOOLEAN
      /\ ebml' = IF ebml.copyLen = n
                 THEN [ebml EXCEPT !.buffer = data, !.input = rest, !.copyLen = @ - n, !.state = "clusters"]
                 ELSE [ebml EXCEPT !.buffer = data, !.input = rest, !.copyLen = @ - n]
  <2>1. e.input = ebml.input /\ e.copyLen = ebml.copyLen
    BY <1>1 DEF EbmlTypeOK, Parsers
  <2>2. CASE ebml.copyLen = n
    BY <1>1, <1>2, <2>1, <2>2 DEF Copied, Continue, others, EbmlTypeOK, Parsers
  <2>3. CASE ebml.copyLen # n
    BY <1>1, <1>2, <2>1, <2>3 DEF Copied, Wait, others, EbmlTypeOK, Parsers
  <2> QED
    BY <2>2, <2>3
<1> HIDE DEF e, data, rest
<1>5. /\ ebml'.output = ebml.output /\ ebml'.copyLen = ebml.copyLen - n
      /\ ebml'.state = (IF ebml.copyLen = n THEN "clusters" ELSE ebml.state)
      /\ ebml'.clusterStart = ebml.clusterStart /\ ebml'.keyframe = ebml.keyframe
      /\ ebml'.flush = ebml.flush /\ ebml'.buffer = data /\ ebml'.input = rest
      /\ ebml'.header = ebml.header /\ ebml'.headerSize = ebml.headerSize
      /\ ebml'.keyTrack = ebml.keyTrack /\ ebml'.parsingTrack = ebml.parsingTrack
      /\ ebml'.isVideo = ebml.isVideo
  BY <1>1, <1>4 DEF EbmlTypeOK, Parsers
<1>6. ~InHeader /\ Copying /\ ~InHeader' /\ ebml.state # "start" /\ ebml'.state # "start"
  BY <1>2, <1>5 DEF InHeader, Copying
<1>7. /\ Base \in Nat /\ Pos \in Nat /\ Pos + n \in Nat /\ Len(ebml.buffer) = Pos - Base /\ given \in Nat
      /\ StreamBytes \in Seq(Bytes) /\ Base <= Pos /\ Cuts(StreamBytes, Base, Pos)
      /\ ebml.buffer = Part(StreamBytes, Base, Pos)
  <2>1. /\ Pos \in Nat /\ Base \in Nat /\ Base <= Pos /\ Len(ebml.buffer) = Pos - Base /\ given \in Nat
        /\ StreamBytes \in Seq(Bytes) /\ Cuts(StreamBytes, Base, Pos)
    BY <1>1, Placed
  <2>2. ebml.buffer = Part(StreamBytes, Base, Pos)
    BY <1>1 DEF Pieces
  <2> QED
    BY <1>3, <2>1, <2>2
<1>8. /\ data = Part(StreamBytes, Base, Pos + n) /\ Cuts(StreamBytes, Base, Pos + n)
      /\ rest = Part(StreamBytes, Pos + n, given) /\ Cuts(StreamBytes, Pos + n, given)
      /\ rest \in Seq(Bytes) /\ Len(rest) = given - (Pos + n)
  <2>1. /\ SubSeq(ebml.input, 1, n) = Part(StreamBytes, Pos, Pos + n)
        /\ Cuts(StreamBytes, Pos, Pos + n) /\ Cuts(StreamBytes, Pos + n, given)
        /\ rest = Part(StreamBytes, Pos + n, given)
        /\ Len(Part(StreamBytes, Pos + n, given)) = given - (Pos + n)
        /\ Part(StreamBytes, Pos + n, given) \in Seq(Bytes)
    BY <1>1, <1>3, InputCut DEF rest
  <2>2. /\ Part(StreamBytes, Base, Pos) \o Part(StreamBytes, Pos, Pos + n) = Part(StreamBytes, Base, Pos + n)
        /\ Cuts(StreamBytes, Base, Pos + n)
    BY <1>7, <2>1, PartsJoin
  <2> QED
    BY <1>7, <2>1, <2>2 DEF data
<1>9. data \in Seq(Bytes) /\ Len(data) = (Pos + n) - Base
  BY <1>7, <1>8, PartIs
<1>10. EbmlTypeOK'
  <2>1. ebml.copyLen - n \in Nat
    <3>1. ebml.copyLen \in Nat
      BY <1>1, Fields
    <3> QED
      BY <1>3, <3>1
  <2>2. ebml' \in Parsers
    BY <1>1, <1>4, <1>8, <1>9, <2>1 DEF EbmlTypeOK, Parsers
  <2> QED
    BY <1>1, <1>4, <2>2, ParsersKept DEF EbmlTypeOK
<1>11. Pos' = Pos + n /\ Base' = Base /\ ChunkData' = ChunkData
  <2>1. given' - Len(ebml'.input) = Pos + n
    BY <1>4, <1>5, <1>7, <1>8
  <2>2. Pos' = Pos + n
    BY <2>1 DEF Pos
  <2>3. Pos' - Len(ebml'.buffer) = Base
    BY <1>5, <1>7, <1>9, <2>2
  <2> QED
    BY <1>4, <2>2, <2>3 DEF Base, ChunkData
<1>12. Pieces'
  <2>1. Len(rest) <= given /\ Len(data) <= Pos + n /\ Len(data) <= Slice
    BY <1>3, <1>7, <1>8, <1>9, SliceAssumption
  <2>2. Len(ebml'.input) <= given' /\ Len(ebml'.buffer) <= Pos' /\ Len(ebml'.buffer) <= Slice
    BY <1>4, <1>5, <1>11, <2>1, Zenon
  <2> QED
    BY <1>1, <1>4, <1>5, <1>8, <1>11, <2>2, StreamKept DEF Pieces
<1>13. Stages'
  BY <1>1, <1>4, <1>5, <1>6 DEF Stages
<1>14. Received'
  BY <1>1, <1>4, ReceivedKept
<1>15. Parsed'
  <2>1. PICK i \in 1 .. Count + 1 : /\ At(i) /\ HeaderEnds(i) /\ InBuffer(i)
                                    /\ TracksInHeader => Learned(i)
    BY <1>1 DEF Parsed
  <2>2. At(i)'
    BY <1>1, <1>3, <1>4, <1>5, <1>6, <1>11, <2>1, AtCopied
  <2>3. HeaderEnds(i)'
    BY <1>4, <1>5, <1>6, <2>1, StreamKept, NoClusterKept DEF HeaderEnds
  <2>4. ASSUME NEW q \in Pos + 1 .. Pos + n, ClusterByte(StreamBytes[q])
        PROVE  elements[i - 1].kind = "cluster" /\ q = Off[i - 1] + 1
    <3>1. q \in Pos + 1 .. Pos + ebml.copyLen
      <4>1. ebml.copyLen \in Nat
        BY <1>1, Fields
      <4> QED
        BY <1>3, <1>7, <4>1
    <3> QED
      BY <1>1, <1>6, <2>1, <2>4, <3>1, CopiedBytes
  <2>5. \A q \in Base + 1 .. Pos + n : q \in Base + 1 .. Pos \/ q \in Pos + 1 .. Pos + n
    BY <1>7
  <2>6. /\ i \in Nat /\ i > 1 /\ Off[i - 1] <= Pos /\ Off[i - 1] \in Nat /\ Off' = Off
        /\ StreamBytes' = StreamBytes /\ Count' = Count /\ i - 1 \in 1 .. Count
    <3>1. i > 1 /\ Off[i - 1] <= Pos
      BY <1>6, <2>1 DEF At
    <3>2. Layout(Off) /\ Count \in Nat
      BY <1>1, StreamThere
    <3>3. i \in Nat /\ i - 1 \in 1 .. Count /\ i - 1 \in 1 .. Count + 1
      BY <3>1, <3>2
    <3>4. Off[i - 1] \in Nat
      BY <3>2, <3>3 DEF Layout
    <3> QED
      BY <1>4, <3>1, <3>3, <3>4, StreamKept
  <2>7. InBuffer(i)'
    <3>1. CASE ebml.clusterStart < 0
      <4>1. /\ \A q \in Base + 1 .. Pos : ~ClusterByte(StreamBytes[q])
            /\ elements[i - 1].kind # "cluster" \/ Off[i - 1] < Pos
            /\ ebml.clusterStart = -1
        BY <1>6, <2>1, <3>1 DEF InBuffer
      <4>2. ASSUME NEW q \in Base + 1 .. Pos + n PROVE ~ClusterByte(StreamBytes[q])
        <5>1. CASE q \in Base + 1 .. Pos
          BY <4>1, <5>1
        <5>2. CASE q \in Pos + 1 .. Pos + n
          <6>1. ClusterByte(StreamBytes[q]) => Off[i - 1] < Pos /\ q = Off[i - 1] + 1
            BY <2>4, <4>1, <5>2
          <6>2. q > Pos
            BY <1>7, <5>2
          <6> QED
            BY <1>7, <2>6, <6>1, <6>2
        <5> QED
          BY <2>5, <5>1, <5>2
      <4>3. Off[i - 1] < Pos => Off[i - 1] < Pos + n
        BY <1>3, <1>7, <2>6
      <4>4. elements'[i - 1].kind # "cluster" \/ Off'[i - 1] < Pos'
        BY <1>4, <1>11, <2>6, <4>1, <4>3
      <4>5. \A q \in Base' + 1 .. Pos' : ~ClusterByte(StreamBytes[q])'
        BY <1>4, <1>11, <2>6, <4>2, ClusterByteKept
      <4> QED
        BY <1>5, <3>1, <4>1, <4>4, <4>5 DEF InBuffer
    <3>2. CASE ~(ebml.clusterStart < 0)
      <4>1. PICK c \in 1 .. Count : Buffered(c, i)
        BY <2>1, <3>2 DEF InBuffer
      <4>2. ~ebml.flush
        BY <1>6, <2>1, <3>2 DEF InBuffer
      <4>3. /\ c \in 1 .. i - 1 /\ elements[c].kind = "cluster" /\ NoCluster(c + 1, i - 1)
            /\ Off[c] = Base + ebml.clusterStart /\ ebml.clusterStart <= Len(ebml.buffer)
            /\ \A q \in Base + 1 .. Pos : ClusterByte(StreamBytes[q]) => q = Off[c] + 1
        BY <4>1 DEF Buffered
      <4>4. elements[i - 1].kind = "cluster" => c = i - 1
        BY <2>6, <4>3 DEF NoCluster
      <4>5. ASSUME NEW q \in Base + 1 .. Pos + n, ClusterByte(StreamBytes[q]) PROVE q = Off[c] + 1
        BY <2>4, <2>5, <4>3, <4>4, <4>5
      <4>6. ebml'.clusterStart <= Len(ebml'.buffer)
        <5> DEFINE a == ebml.clusterStart
                   b == Len(ebml.buffer)
        <5>1. a \in Int /\ b = Pos - Base /\ a <= b
          BY <1>1, <1>7, <4>3, Fields
        <5> HIDE DEF a, b
        <5>2. a <= (Pos + n) - Base
          BY <1>3, <1>7, <5>1
        <5> QED
          BY <1>5, <1>9, <5>2, Zenon DEF a
      <4>7. TracksInHeader' => Frames(c, i)'
        BY <1>4, <1>5, <4>1, StreamKept, FramesKept DEF Buffered
      <4>8. \A q \in Base' + 1 .. Pos' : ClusterByte(StreamBytes[q])' => q = Off'[c] + 1
        BY <1>4, <1>11, <2>6, <4>5, ClusterByteKept
      <4>9. NoCluster(c + 1, i - 1)' /\ Off'[c] = Base' + ebml'.clusterStart
        BY <1>4, <1>5, <1>11, <2>6, <4>3, NoClusterKept
      <4>10. Buffered(c, i)'
        BY <1>4, <4>3, <4>6, <4>7, <4>8, <4>9 DEF Buffered
      <4> QED
        BY <1>5, <2>6, <3>2, <4>2, <4>10 DEF InBuffer
    <3> QED
      BY <3>1, <3>2
  <2>8. TracksInHeader' => Learned(i)'
    BY <1>4, <1>5, <2>1, LearnedKept, StreamKept
  <2>9. i \in 1 .. Count' + 1
    BY <2>6
  <2> QED
    BY <2>2, <2>3, <2>7, <2>8, <2>9 DEF Parsed
<1>16. ClustersBegin' /\ (TracksInHeader' => SyncPoints')
  BY <1>4, ChunksKept DEF EbmlInv
<1> QED
  BY <1>10, <1>12, <1>13, <1>14, <1>15, <1>16 DEF EbmlInv

----------------------------------------------------------------------------
(* A chunk is read *)

(* A cluster has one first video frame at most. *)
LEMMA OneFirstFrame ==
    ASSUME Stream, NEW c \in Nat, NEW j \in FirstFrame(c), NEW k \in FirstFrame(c)
    PROVE  j = k
<1>1. DOMAIN elements = 1 .. Count /\ Count \in Nat
  BY DEF Stream
<1>2. \A a, b \in FirstFrame(c) : a \in Nat /\ b \in Nat /\ ~(a < b)
  <2> SUFFICES ASSUME NEW a \in FirstFrame(c), NEW b \in FirstFrame(c)
               PROVE  a \in Nat /\ b \in Nat /\ ~(a < b)
    OBVIOUS
  <2>1. /\ a \in DOMAIN elements /\ b \in DOMAIN elements /\ a > c
        /\ elements[a].kind = "block" /\ elements[a].track = VideoTrack
        /\ \A x \in c + 1 .. b - 1 : elements[x].kind = "block" => elements[x].track # VideoTrack
    BY DEF FirstFrame
  <2>2. a \in Nat /\ b \in Nat /\ (a < b => a \in c + 1 .. b - 1)
    BY <1>1, <2>1
  <2> QED
    BY <2>1, <2>2
<1> QED
  BY <1>2

(* The bytes from one element to another. *)
LEMMA DistanceOff ==
    ASSUME Stream, NEW c \in 1 .. Count, NEW j \in 1 .. Count + 1, c < j
    PROVE  Distance(c, j) \in Nat /\ Distance(c, j) >= Off[j] - Off[c]
<1> DEFINE D == {n \in DOMAIN StreamBytes : c <= StreamBytes[n][1] /\ StreamBytes[n][1] < j}
           I == Off[c] + 1 .. Off[j]
<1>1. /\ Layout(Off) /\ Count \in Nat /\ StreamBytes \in Seq(Bytes)
      /\ \A a \in 1 .. Count + 1 : Off[a] \in Nat
  <2>1. Layout(Off)
    BY OffIsLayout
  <2> QED
    BY <2>1 DEF Layout, Stream
<1>2. Off[c] \in Nat /\ Off[j] \in Nat /\ Off[c] < Off[j] /\ c \in Nat /\ j \in Nat
  <2>1. c \in 1 .. Count + 1
    BY <1>1
  <2> QED
    BY <1>1, <2>1, OffGrows
<1>3. Off[j] <= Len(StreamBytes) /\ Len(StreamBytes) \in Nat /\ DOMAIN StreamBytes = 1 .. Len(StreamBytes)
  <2>1. Len(StreamBytes) = Off[Count + 1] /\ Count + 1 \in 1 .. Count + 1
    BY <1>1 DEF Layout
  <2>2. j # Count + 1 => Off[j] < Off[Count + 1]
    <3>1. j # Count + 1 => j < Count + 1
      BY <1>1
    <3> QED
      BY <2>1, <3>1, OffGrows
  <2>3. Off[j] <= Off[Count + 1] /\ Off[Count + 1] \in Nat
    BY <1>1, <1>2, <2>1, <2>2
  <2> QED
    BY <1>1, <2>1, <2>3
<1>4. I \subseteq D
  <2> SUFFICES ASSUME NEW q \in I PROVE q \in D
    OBVIOUS
  <2>1. q \in 1 .. Off[j] /\ q \in DOMAIN StreamBytes /\ q > Off[c] /\ q \in Nat
    BY <1>2, <1>3
  <2>2. PICK i \in 1 .. Count : /\ i < j /\ Off[i] < q /\ q <= Off[i + 1]
                                /\ StreamBytes[q] = <<i, q - Off[i]>>
    BY <2>1, ByteOf
  <2>3. ~(i < c)
    <3> SUFFICES ASSUME i < c PROVE FALSE
      OBVIOUS
    <3>1. i + 1 \in 1 .. Count + 1 /\ c \in 1 .. Count + 1 /\ (i + 1 = c \/ i + 1 < c)
      BY <1>1
    <3>2. Off[i + 1] <= Off[c] /\ Off[i + 1] \in Nat
      <4>1. CASE i + 1 = c
        BY <1>2, <4>1
      <4>2. CASE i + 1 < c
        <5>1. Off[i + 1] \in Nat /\ Off[i + 1] < Off[c]
          BY <3>1, <4>2, OffGrows
        <5> QED
          BY <1>2, <5>1
      <4> QED
        BY <3>1, <4>1, <4>2
    <3> QED
      BY <1>2, <2>1, <2>2, <3>2
  <2>4. c <= i /\ StreamBytes[q][1] = i
    BY <1>2, <2>2, <2>3
  <2> QED
    BY <2>1, <2>2, <2>4
<1>5. IsFiniteSet(D)
  <2>1. D \subseteq 1 .. Len(StreamBytes) /\ IsFiniteSet(1 .. Len(StreamBytes))
    <3>1. D \subseteq 1 .. Len(StreamBytes)
      BY <1>3
    <3>2. IsFiniteSet(1 .. Len(StreamBytes))
      BY <1>3, FS_Interval
    <3> QED
      BY <3>1, <3>2
  <2> HIDE DEF D
  <2> QED
    BY <2>1, FS_Subset
<1>6. Cardinality(I) = Off[j] - Off[c]
  <2>1. Off[c] + 1 \in Int /\ Off[j] \in Int /\ ~(Off[c] + 1 > Off[j])
    BY <1>2
  <2>2. Cardinality(I) = Off[j] - (Off[c] + 1) + 1
    BY <2>1, FS_Interval
  <2> QED
    BY <1>2, <2>2
<1>7. Distance(c, j) = Cardinality(D)
  BY DEF Distance
<1> HIDE DEF D, I
<1>8. Cardinality(D) \in Nat /\ Cardinality(I) <= Cardinality(D)
  BY <1>4, <1>5, FS_Subset, FS_CardinalityType
<1> QED
  BY <1>2, <1>6, <1>7, <1>8

(* What is read, and what stays. *)
LEMMA ChunkIs ==
    ASSUME EbmlTypeOK, Pieces, NEW i \in 1 .. Count + 1, InBuffer(i), ReadSpace > 0
    PROVE  /\ ReadSpace \in Nat /\ ReadSpace <= Len(ebml.buffer)
           /\ ebml.clusterStart > 0 => ReadSpace = ebml.clusterStart
           /\ ~(ebml.clusterStart > 0) =>
                 ReadSpace = Len(ebml.buffer) /\ (ebml.flush \/ Len(ebml.buffer) = Slice)
           /\ SubSeq(ebml.buffer, 1, ReadSpace) = Part(StreamBytes, Base, Base + ReadSpace)
           /\ SubSeq(ebml.buffer, ReadSpace + 1, Len(ebml.buffer)) =
                 Part(StreamBytes, Base + ReadSpace, Pos)
           /\ Cuts(StreamBytes, Base, Base + ReadSpace) /\ Cuts(StreamBytes, Base + ReadSpace, Pos)
<1> DEFINE l == Len(ebml.buffer)
           a == ebml.clusterStart
           r == ReadSpace
<1>1. /\ l \in Nat /\ Base \in Nat /\ Pos \in Nat /\ l = Pos - Base
      /\ StreamBytes \in Seq(Bytes) /\ Cuts(StreamBytes, Base, Pos)
  BY Placed
<1>2. ebml.buffer = Part(StreamBytes, Base, Pos)
  BY DEF Pieces
<1>3. a \in Int /\ r > 0
  BY Fields
<1>4. r = IF a > 0 THEN a ELSE IF ebml.flush \/ l = Slice THEN l ELSE 0
  BY DEF ReadSpace
<1>5. a > 0 => a <= l
  <2>1. ASSUME a > 0 PROVE a <= l
    <3>1. ~(ebml.clusterStart < 0)
      BY <1>3, <2>1
    <3> QED
      BY <3>1 DEF InBuffer, Buffered
  <2> QED
    BY <2>1
<1>6. l = Len(ebml.buffer)
  OBVIOUS
<1> HIDE DEF l, a, r
<1>7. r \in Nat /\ r <= l /\ (a > 0 => r = a) /\ (~(a > 0) => r = l /\ (ebml.flush \/ l = Slice))
  BY <1>1, <1>3, <1>4, <1>5
<1>8. Cuts(Part(StreamBytes, Base, Pos), 0, r) /\ Cuts(Part(StreamBytes, Base, Pos), r, l)
  BY <1>1, <1>2, <1>6, <1>7 DEF Cuts
<1>9. /\ Part(ebml.buffer, 0, r) = Part(StreamBytes, Base + 0, Base + r)
      /\ Part(ebml.buffer, r, l) = Part(StreamBytes, Base + r, Base + l)
      /\ Cuts(StreamBytes, Base + 0, Base + r) /\ Cuts(StreamBytes, Base + r, Base + l)
  BY <1>1, <1>2, <1>8, PartOfPart
<1>10. Base + 0 = Base /\ Base + l = Pos
  BY <1>1
<1>11. Part(ebml.buffer, 0, r) = SubSeq(ebml.buffer, 1, r)
  BY DEF Part
<1>12. Part(ebml.buffer, r, l) = SubSeq(ebml.buffer, r + 1, l)
  BY DEF Part
<1> QED
  BY <1>7, <1>9, <1>10, <1>11, <1>12 DEF l, a, r

(* A cluster begins a chunk. *)
LEMMA ChunkBegins ==
    ASSUME EbmlTypeOK, Pieces, NEW i \in 1 .. Count + 1, InBuffer(i), ReadSpace > 0,
           NEW k \in 1 .. ReadSpace, ClusterByte(StreamBytes[Base + k])
    PROVE  k = 1 /\ ebml.clusterStart = 0
<1> DEFINE a == ebml.clusterStart
           r == ReadSpace
<1>1. /\ Len(ebml.buffer) \in Nat /\ Base \in Nat /\ Pos \in Nat /\ Len(ebml.buffer) = Pos - Base
  BY Placed
<1>2. r \in Nat /\ r <= Len(ebml.buffer) /\ (a > 0 => r = a) /\ a \in Int
  BY ChunkIs, Fields
<1>3. k \in Nat /\ k <= r /\ Base + k \in Base + 1 .. Pos
  BY <1>1, <1>2
<1>4. ~(a < 0)
  BY <1>3 DEF InBuffer
<1>5. PICK c \in 1 .. Count : Buffered(c, i)
  BY <1>4 DEF InBuffer
<1>6. Base + k = Off[c] + 1 /\ Off[c] = Base + a
  BY <1>3, <1>5 DEF Buffered
<1> HIDE DEF a, r
<1>7. k = a + 1
  BY <1>1, <1>2, <1>3, <1>6
<1>8. a = 0
  BY <1>2, <1>3, <1>4, <1>7
<1> QED
  BY <1>7, <1>8 DEF a

(* A chunk that begins with a cluster is marked as it should be. *)
LEMMA ChunkSync ==
    ASSUME EbmlTypeOK, Pieces, TracksInHeader, NEW i \in 1 .. Count + 1, At(i), InBuffer(i),
           ReadSpace > 0, ebml.clusterStart = 0
    PROVE  \E c \in 1 .. Count :
              /\ StreamBytes[Base + 1] = <<c, 1>> /\ elements[c].kind = "cluster"
              /\ ebml.keyframe = "no" => \E j \in FirstFrame(c) : ~elements[j].key
              /\ ebml.keyframe # "no" =>
                    \A j \in FirstFrame(c) : elements[j].key \/ Distance(c, j) >= Slice
<1>1. PICK c \in 1 .. Count : Buffered(c, i)
  BY DEF InBuffer
<1>2. /\ c \in 1 .. i - 1 /\ elements[c].kind = "cluster" /\ NoCluster(c + 1, i - 1)
      /\ Off[c] = Base + 0 /\ Frames(c, i)
  BY <1>1 DEF Buffered
<1>3. /\ Stream /\ Layout(Off) /\ Count \in Nat /\ DOMAIN elements = 1 .. Count
      /\ Base \in Nat /\ Pos \in Nat /\ Len(ebml.buffer) \in Nat /\ Len(ebml.buffer) = Pos - Base
  BY StreamThere, Placed DEF Stream
<1>4. Off[c] = Base /\ c \in Nat /\ i \in Nat /\ c < i
  BY <1>2, <1>3
<1>5. StreamBytes[Base + 1] = <<c, 1>>
  <2>1. 1 \in 1 .. Size(c)
    BY <1>3 DEF Stream, Size
  <2>2. StreamBytes[Off[c] + 1] = <<c, 1>>
    BY <1>3, <2>1 DEF Layout
  <2> QED
    BY <1>4, <2>2
<1>6. ASSUME ebml.keyframe # "no", NEW j \in FirstFrame(c)
      PROVE  elements[j].key \/ Distance(c, j) >= Slice
  <2>1. ebml.keyframe \in {"yes", "unknown"}
    BY <1>6, Fields
  <2>2. CASE ebml.keyframe = "yes"
    <3>1. PICK k \in FirstFrame(c) : elements[k].key
      BY <1>2, <2>2 DEF Frames
    <3>2. j = k
      BY <1>3, <1>4, <1>6, OneFirstFrame
    <3> QED
      BY <3>1, <3>2
  <2>3. CASE ebml.keyframe = "unknown"
    <3>1. /\ j \in 1 .. Count /\ j > c /\ elements[j].kind = "block" /\ elements[j].track = VideoTrack
          /\ \A k \in c + 1 .. j - 1 : elements[k].kind # "cluster"
      BY <1>3, <1>6 DEF FirstFrame
    <3>2. j \notin c + 1 .. i - 1
      BY <1>2, <2>3, <3>1 DEF Frames
    <3>3. j \in Nat /\ i <= j /\ j \in 1 .. Count + 1
      BY <1>3, <1>4, <3>1, <3>2
    <3>4. ebml.flush \/ Len(ebml.buffer) = Slice
      BY ChunkIs
    <3>5. CASE ebml.flush
      <4>1. ebml.state = "start"
        BY <3>5 DEF InBuffer
      <4>2. elements[i].kind = "cluster"
        BY <4>1 DEF At
      <4>3. i # j /\ i \notin c + 1 .. j - 1
        BY <3>1, <4>2
      <4> QED
        BY <1>4, <3>3, <4>3
    <3>6. CASE Len(ebml.buffer) = Slice
      <4>1. Off[i] \in Nat /\ Off[i] >= Pos
        <5>1. Off[i] \in Nat
          BY <1>3 DEF Layout
        <5>2. CASE Copying
          <6>1. Off[i] = Pos + ebml.copyLen /\ ebml.copyLen \in Nat
            BY <5>2, Fields DEF At
          <6> QED
            BY <1>3, <6>1
        <5>3. CASE ~Copying
          <6>1. Off[i] = Pos + 0
            BY <5>3 DEF At
          <6> QED
            BY <1>3, <6>1
        <5> QED
          BY <5>1, <5>2, <5>3
      <4>2. Off[j] \in Nat /\ Off[j] >= Off[i]
        <5>1. CASE i = j
          BY <4>1, <5>1
        <5>2. CASE i # j
          <6>1. i < j
            BY <1>4, <3>3, <5>2
          <6>2. Off[j] \in Nat /\ Off[i] < Off[j]
            BY <1>3, <3>3, <6>1, OffGrows
          <6> QED
            BY <4>1, <6>2
        <5> QED
          BY <5>1, <5>2
      <4>3. Pos - Base = Slice
        BY <1>3, <3>6
      <4>4. Off[j] - Off[c] >= Slice
        BY <1>3, <1>4, <4>1, <4>2, <4>3, SliceAssumption
      <4>5. Distance(c, j) \in Nat /\ Distance(c, j) >= Off[j] - Off[c]
        <5>1. c < j
          BY <1>4, <3>3
        <5> QED
          BY <1>3, <3>3, <5>1, DistanceOff
      <4>6. Distance(c, j) >= Slice
        BY <1>3, <1>4, <4>2, <4>4, <4>5, SliceAssumption
      <4> QED
        BY <4>6
    <3> QED
      BY <3>4, <3>5, <3>6
  <2> QED
    BY <2>1, <2>2, <2>3
<1>7. ebml.keyframe = "no" => \E j \in FirstFrame(c) : ~elements[j].key
  BY <1>2 DEF Frames
<1> QED
  BY <1>2, <1>5, <1>6, <1>7

(* One chunk more. *)
LEMMA ChunksGrow ==
    ASSUME chunks \in Seq([data : Seq(Bytes), sync : BOOLEAN]), NEW d \in Seq(Bytes),
           NEW b \in BOOLEAN, chunks' = Append(chunks, [data |-> d, sync |-> b])
    PROVE  /\ chunks' \in Seq([data : Seq(Bytes), sync : BOOLEAN]) /\ chunks' # <<>>
           /\ FlattenSeq(ChunkData') = FlattenSeq(ChunkData) \o d
           /\ \A c \in DOMAIN chunks' :
                 (c \in DOMAIN chunks /\ chunks'[c] = chunks[c]) \/ chunks'[c] = [data |-> d, sync |-> b]
<1> DEFINE C == [data : Seq(Bytes), sync : BOOLEAN]
           k == [data |-> d, sync |-> b]
           n == Len(chunks)
<1>1. k \in C /\ k.data = d /\ chunks \in Seq(C) /\ n \in Nat
  OBVIOUS
<1>2. \A c \in C : c.data \in Seq(Bytes)
  OBVIOUS
<1>3. chunks' = Append(chunks, k)
  OBVIOUS
<1> HIDE DEF C, k
<1>4. /\ chunks' \in Seq(C) /\ Len(chunks') = n + 1 /\ DOMAIN chunks' = 1 .. n + 1
      /\ DOMAIN chunks = 1 .. n /\ chunks'[n + 1] = k /\ \A c \in 1 .. n : chunks'[c] = chunks[c]
  BY <1>1, <1>3
<1>5. chunks' # <<>>
  BY <1>1, <1>4
<1>6. \A c \in 1 .. n : chunks[c] \in C /\ chunks[c].data \in Seq(Bytes)
  BY <1>1, <1>2
<1>7. ChunkData \in Seq(Seq(Bytes)) /\ Len(ChunkData) = n /\ \A c \in 1 .. n : ChunkData[c] = chunks[c].data
  <2>1. ChunkData = [c \in 1 .. n |-> chunks[c].data]
    BY <1>4 DEF ChunkData
  <2> QED
    BY <1>1, <1>6, <2>1
<1>8. ChunkData' = Append(ChunkData, d)
  <2>1. ChunkData' = [c \in 1 .. n + 1 |-> chunks'[c].data]
    BY <1>4 DEF ChunkData
  <2>2. Append(ChunkData, d) \in Seq(Seq(Bytes)) /\ Len(Append(ChunkData, d)) = n + 1
        /\ Append(ChunkData, d)[n + 1] = d /\ \A c \in 1 .. n : Append(ChunkData, d)[c] = chunks[c].data
    BY <1>7
  <2> DEFINE A == Append(ChunkData, d)
  <2> HIDE DEF A
  <2>3. A = [c \in 1 .. n + 1 |-> A[c]]
    <3>1. A \in Seq(Seq(Bytes)) /\ Len(A) = n + 1
      BY <2>2 DEF A
    <3> QED
      BY <3>1
  <2>4. ASSUME NEW c \in 1 .. n + 1 PROVE chunks'[c].data = A[c]
    <3>1. CASE c = n + 1
      BY <1>1, <1>4, <2>2, <3>1 DEF A
    <3>2. CASE c # n + 1
      <4>1. c \in 1 .. n
        BY <1>1, <3>2
      <4> QED
        BY <1>4, <2>2, <4>1 DEF A
    <3> QED
      BY <3>1, <3>2
  <2>5. ChunkData' = A
    BY <2>1, <2>3, <2>4
  <2> QED
    BY <2>5 DEF A
<1>9. FlattenSeq(ChunkData') = FlattenSeq(ChunkData) \o d
  <2>1. FlattenSeq(Append(ChunkData, d)) = FlattenSeq(ChunkData) \o d
    BY <1>7, FlattenAppend
  <2> QED
    BY <1>8, <2>1
<1>10. \A c \in 1 .. n + 1 : c \in 1 .. n \/ c = n + 1
  BY <1>1
<1> QED
  BY <1>4, <1>5, <1>9, <1>10 DEF C, k

(* ebml_read returns a chunk. *)
LEMMA ReadChunkInv ==
    ASSUME EbmlInv, ReadChunk
    PROVE  EbmlInv'
<1>1. EbmlTypeOK /\ Received /\ Stages /\ Pieces /\ Parsed
  BY DEF EbmlInv
<1>2. PICK i \in 1 .. Count + 1 : /\ At(i) /\ HeaderEnds(i) /\ InBuffer(i)
                                  /\ TracksInHeader => Learned(i)
  BY <1>1 DEF Parsed
<1> DEFINE r == ReadSpace
           d == SubSeq(ebml.buffer, 1, r)
           rest == SubSeq(ebml.buffer, r + 1, Len(ebml.buffer))
           mark == ebml.clusterStart = 0 /\ ebml.keyframe # "no"
           start == IF ebml.clusterStart > 0 THEN ebml.clusterStart - r ELSE -1
           full == ebml.flush \/ (ebml.clusterStart <= 0 /\ Len(ebml.buffer) = Slice)
           h == Len(ebml.header)
<1>3. /\ UNCHANGED <<elements, given, parsing, streamHeader, failed, listener>>
      /\ ebml.output = "clusters" /\ r > 0 /\ Dump(d)
      /\ chunks' = Append(chunks, [data |-> d, sync |-> mark])
      /\ ebml' = [ebml EXCEPT !.buffer = rest, !.clusterStart = start, !.flush = full]
  <2>1. ebml \in Parsers
    BY <1>1 DEF EbmlTypeOK
  <2> QED
    BY <2>1 DEF ReadChunk, Parsers
<1>4. /\ r \in Nat /\ r <= Len(ebml.buffer)
      /\ ebml.clusterStart > 0 => r = ebml.clusterStart
      /\ ~(ebml.clusterStart > 0) => r = Len(ebml.buffer)
      /\ d = Part(StreamBytes, Base, Base + r) /\ rest = Part(StreamBytes, Base + r, Pos)
      /\ Cuts(StreamBytes, Base, Base + r) /\ Cuts(StreamBytes, Base + r, Pos)
  BY <1>1, <1>2, <1>3, ChunkIs
<1>5. /\ given \in Nat /\ Len(ebml.buffer) \in Nat /\ h \in Nat /\ Pos \in Nat /\ Base \in Nat
      /\ Len(ebml.buffer) = Pos - Base /\ h <= Base /\ Base <= Pos /\ Pos <= given
      /\ StreamBytes \in Seq(Bytes) /\ Cuts(StreamBytes, 0, h) /\ Cuts(StreamBytes, h, Base)
  BY <1>1, Placed
<1>6. /\ d \in Seq(Bytes) /\ Len(d) = r /\ \A k \in 1 .. r : d[k] = StreamBytes[Base + k]
      /\ rest \in Seq(Bytes) /\ Len(rest) = Pos - (Base + r)
  <2> HIDE DEF d, rest, r
  <2>1. /\ StreamBytes \in Seq(Bytes) /\ Cuts(StreamBytes, Base, Base + r)
        /\ Cuts(StreamBytes, Base + r, Pos)
    BY <1>4, <1>5
  <2>2. /\ Part(StreamBytes, Base, Base + r) \in Seq(Bytes)
        /\ Len(Part(StreamBytes, Base, Base + r)) = (Base + r) - Base
        /\ \A k \in 1 .. (Base + r) - Base : Part(StreamBytes, Base, Base + r)[k] = StreamBytes[Base + k]
    BY ONLY <2>1, PartIs
  <2>3. /\ Part(StreamBytes, Base + r, Pos) \in Seq(Bytes)
        /\ Len(Part(StreamBytes, Base + r, Pos)) = Pos - (Base + r)
    BY ONLY <2>1, PartIs
  <2>4. (Base + r) - Base = r
    BY <1>4, <1>5
  <2> QED
    BY <1>4, <2>2, <2>3, <2>4
<1>7. mark \in BOOLEAN /\ full \in BOOLEAN /\ start \in Int
  <2>1. ebml.clusterStart \in Int /\ ebml.flush \in BOOLEAN
    BY <1>1, Fields
  <2>2. mark \in BOOLEAN /\ full \in BOOLEAN
    BY <2>1
  <2>3. start \in Int
    BY <1>4, <2>1
  <2> QED
    BY <2>2, <2>3
<1> HIDE DEF r, d, rest, full, start, mark, h
<1>8. /\ ebml'.output = "clusters" /\ ebml'.copyLen = ebml.copyLen /\ ebml'.state = ebml.state
      /\ ebml'.clusterStart = start /\ ebml'.keyframe = ebml.keyframe
      /\ ebml'.flush = full /\ ebml'.buffer = rest /\ ebml'.input = ebml.input
      /\ ebml'.header = ebml.header /\ ebml'.headerSize = ebml.headerSize
      /\ ebml'.keyTrack = ebml.keyTrack /\ ebml'.parsingTrack = ebml.parsingTrack
      /\ ebml'.isVideo = ebml.isVideo
  BY <1>1, <1>3 DEF EbmlTypeOK, Parsers
<1>9. /\ chunks' \in Seq([data : Seq(Bytes), sync : BOOLEAN]) /\ chunks' # <<>>
      /\ FlattenSeq(ChunkData') = FlattenSeq(ChunkData) \o d
      /\ \A c \in DOMAIN chunks' : \/ c \in DOMAIN chunks /\ chunks'[c] = chunks[c]
                                   \/ chunks'[c] = [data |-> d, sync |-> mark]
  <2>1. chunks \in Seq([data : Seq(Bytes), sync : BOOLEAN])
    BY <1>1 DEF EbmlTypeOK
  <2> QED
    BY <1>3, <1>6, <1>7, <2>1, ChunksGrow
<1>10. Pos' = Pos /\ Base' = Base + r
  <2>1. Pos' = Pos
    BY <1>3, <1>8 DEF Pos
  <2>2. Len(ebml'.buffer) = Len(rest)
    BY <1>8
  <2>3. Pos - Len(rest) = Base + r
    <3>1. r \in Nat /\ Base \in Nat /\ Pos \in Nat /\ Len(rest) = Pos - (Base + r)
      BY <1>4, <1>5, <1>6
    <3> QED
      BY ONLY <3>1
  <2> QED
    BY <2>1, <2>2, <2>3 DEF Base
<1>11. ~InHeader /\ ~InHeader' /\ streamHeader = ebml.header
  <2>1. ~InHeader /\ streamHeader = ebml.header
    BY <1>1, <1>3 DEF Stages
  <2> QED
    BY <1>8, <2>1 DEF InHeader
<1>12. Stages'
  BY <1>1, <1>3, <1>8, <1>11 DEF Stages
(* The bytes that went out. *)
<1>13. /\ FlattenSeq(ChunkData) = Part(StreamBytes, h, Base) /\ ebml.header = Part(StreamBytes, 0, h)
       /\ FlattenSeq(ChunkData') = Part(StreamBytes, h, Base + r)
       /\ Cuts(StreamBytes, h, Base + r)
  <2>1. FlattenSeq(ChunkData) = Part(StreamBytes, h, Base) /\ ebml.header = Part(StreamBytes, 0, h)
    BY <1>1 DEF Pieces, h
  <2>2. /\ Part(StreamBytes, h, Base) \o Part(StreamBytes, Base, Base + r) = Part(StreamBytes, h, Base + r)
        /\ Cuts(StreamBytes, h, Base + r)
    BY <1>4, <1>5, PartsJoin
  <2> QED
    BY <1>4, <1>9, <2>1, <2>2
<1>14. Pieces'
  <2>1. Len(rest) <= Pos /\ Len(rest) <= Slice /\ h <= Base + r
    <3>1. Len(ebml.buffer) <= Slice
      BY <1>1 DEF Pieces
    <3> QED
      BY <1>4, <1>5, <1>6, <3>1, SliceAssumption
  <2>2. Len(ebml'.buffer) <= Pos' /\ Len(ebml'.buffer) <= Slice /\ Len(ebml'.header) <= Base'
    BY <1>8, <1>10, <2>1, Zenon DEF h
  <2> QED
    BY <1>1, <1>3, <1>4, <1>8, <1>10, <1>13, <2>2, StreamKept DEF Pieces, h
<1>15. EbmlTypeOK' /\ Received'
  <2>1. ebml' \in Parsers
    BY <1>1, <1>3, <1>6, <1>7 DEF EbmlTypeOK, Parsers
  <2>2. FlattenSeq(ChunkData') # <<>>
    <3>1. Len(Part(StreamBytes, h, Base + r)) = (Base + r) - h
      BY <1>5, <1>13, PartIs
    <3>2. (Base + r) - h # 0
      BY <1>3, <1>4, <1>5
    <3>3. Len(<<>>) = 0
      OBVIOUS
    <3> QED
      BY <1>13, <3>1, <3>2, <3>3
  <2>3. /\ dump' \in [state : {"open", "closed", "undefined"}, content : Seq(Bytes)]
        /\ dump'.state = "open" => dump'.content = streamHeader \o FlattenSeq(ChunkData')
    <3> DEFINE all == (IF dump.content = <<>> THEN streamHeader ELSE dump.content) \o d
    <3>1. /\ dump \in [state : {"open", "closed", "undefined"}, content : Seq(Bytes)]
          /\ streamHeader \in Seq(Bytes)
      BY <1>1 DEF EbmlTypeOK
    <3>2. ASSUME dump.state = "open" PROVE all = streamHeader \o FlattenSeq(ChunkData')
      <4>1. /\ Part(StreamBytes, 0, h) \o Part(StreamBytes, h, Base) = Part(StreamBytes, 0, Base)
            /\ Cuts(StreamBytes, 0, Base)
        BY <1>5, PartsJoin
      <4>2. Part(StreamBytes, 0, Base) \o Part(StreamBytes, Base, Base + r) = Part(StreamBytes, 0, Base + r)
        BY <1>4, <1>5, <4>1, PartsJoin
      <4>3. Part(StreamBytes, 0, h) \o Part(StreamBytes, h, Base + r) = Part(StreamBytes, 0, Base + r)
        BY <1>5, <1>13, PartsJoin
      <4>4. (IF dump.content = <<>> THEN streamHeader ELSE dump.content) = Part(StreamBytes, 0, Base)
        <5>1. CASE chunks = <<>>
          <6>1. dump.content = <<>>
            BY <1>1, <3>2, <5>1 DEF Received
          <6>2. ChunkData = <<>>
            BY <5>1 DEF ChunkData
          <6>3. FlattenSeq(ChunkData) = <<>>
            BY <6>2 DEF FlattenSeq
          <6>4. Len(Part(StreamBytes, h, Base)) = Base - h /\ Len(<<>>) = 0
            BY <1>5, PartIs
          <6>5. Base - h = 0
            BY <1>13, <6>3, <6>4
          <6>6. Base = h
            BY <1>5, <6>5
          <6> QED
            BY <1>11, <1>13, <6>1, <6>6
        <5>2. CASE chunks # <<>>
          <6>1. dump.content = streamHeader \o FlattenSeq(ChunkData) /\ FlattenSeq(ChunkData) # <<>>
            BY <1>1, <3>2, <5>2 DEF Received
          <6>2. dump.content = Part(StreamBytes, 0, Base)
            BY <1>11, <1>13, <4>1, <6>1
          <6>3. Len(Part(StreamBytes, h, Base)) = Base - h /\ Len(Part(StreamBytes, 0, Base)) = Base - 0
                /\ Part(StreamBytes, h, Base) \in Seq(Bytes)
            BY <1>5, <4>1, PartIs
          <6>4. Base - h # 0
            BY <1>13, <6>1, <6>3
          <6>5. Base - 0 # 0 /\ Len(<<>>) = 0
            BY <1>5, <6>4
          <6> QED
            BY <6>2, <6>3, <6>5
        <5> QED
          BY <5>1, <5>2
      <4> QED
        BY <1>4, <1>11, <1>13, <4>2, <4>3, <4>4
    <3>3. all \in Seq(Bytes)
      <4> DEFINE a == IF dump.content = <<>> THEN streamHeader ELSE dump.content
      <4>1. a \in Seq(Bytes)
        BY <3>1
      <4> HIDE DEF a
      <4>2. a \o d \in Seq(Bytes)
        BY <1>6, <4>1
      <4> QED
        BY <4>2 DEF a
    <3>4. \/ dump.state # "open" /\ dump' = dump
          \/ dump.state = "open" /\ dump' = [dump EXCEPT !.content = all]
          \/ dump' = [dump EXCEPT !.state = "closed"]
          \/ dump' = [dump EXCEPT !.state = "undefined"]
      BY <1>3, <3>1 DEF Dump
    <3> HIDE DEF all
    <3> QED
      BY <3>1, <3>2, <3>3, <3>4
  <2>4. EbmlTypeOK'
    BY <1>1, <1>3, <1>9, <2>1, <2>3, ParsersKept DEF EbmlTypeOK
  <2>5. Received'
    BY <1>1, <1>3, <1>9, <2>2, <2>3 DEF Received
  <2> QED
    BY <2>4, <2>5
<1>16. InBuffer(i)'
  <2>1. Off' = Off /\ StreamBytes' = StreamBytes /\ Count' = Count /\ Count \in Nat /\ i \in Nat
    BY <1>1, <1>3, StreamKept, StreamThere
  <2>2. (Copying' <=> Copying) /\ ebml.clusterStart \in Int
    BY <1>1, <1>8, Fields DEF Copying
  <2>3. CASE ebml.clusterStart > 0
    <3>1. PICK c \in 1 .. Count : Buffered(c, i)
      BY <1>2, <2>2, <2>3 DEF InBuffer
    <3>2. start = 0 /\ r = ebml.clusterStart
      BY <1>4, <2>2, <2>3 DEF start
    <3>3. full => ebml.state = "start"
      BY <1>2, <2>2, <2>3 DEF InBuffer, full
    <3>4. Off[c] = Base + r
      BY <3>1, <3>2 DEF Buffered
    <3>5. Off'[c] = Base' + ebml'.clusterStart
      BY <1>4, <1>5, <1>8, <1>10, <2>1, <3>2, <3>4
    <3>6. ebml'.clusterStart <= Len(ebml'.buffer)
      <4>1. 0 <= Len(rest)
        BY <1>6
      <4> QED
        BY <1>8, <3>2, <4>1, Zenon
    <3>7. \A q \in Base' + 1 .. Pos' : ClusterByte(StreamBytes[q])' => q = Off'[c] + 1
      <4>1. \A q \in Base + r + 1 .. Pos : q \in Base + 1 .. Pos
        BY <1>4, <1>5
      <4> QED
        BY <1>3, <1>10, <2>1, <3>1, <4>1, ClusterByteKept DEF Buffered
    <3>8. TracksInHeader' => Frames(c, i)'
      BY <1>3, <1>8, <3>1, StreamKept, FramesKept DEF Buffered
    <3>9. Buffered(c, i)'
      BY <1>3, <3>1, <3>5, <3>6, <3>7, <3>8, NoClusterKept DEF Buffered
    <3>10. ~(ebml'.clusterStart < 0)
      BY <1>8, <3>2
    <3> QED
      BY <1>8, <2>1, <3>3, <3>9, <3>10 DEF InBuffer
  <2>4. CASE ~(ebml.clusterStart > 0)
    <3>1. ebml'.clusterStart = -1 /\ r = Len(ebml.buffer)
      BY <1>4, <1>8, <2>4 DEF start
    <3>2. Base' = Pos' /\ Base < Pos
      BY <1>3, <1>4, <1>5, <1>10, <3>1
    <3>3. \A q \in Base' + 1 .. Pos' : FALSE
      BY <1>5, <1>10, <3>2
    <3>4. ASSUME Copying PROVE elements[i - 1].kind # "cluster" \/ Off[i - 1] < Pos
      <4>1. CASE ebml.clusterStart < 0
        BY <1>2, <3>4, <4>1 DEF InBuffer
      <4>2. CASE ebml.clusterStart = 0
        <5>1. PICK c \in 1 .. Count : Buffered(c, i)
          BY <1>2, <4>2 DEF InBuffer
        <5>2. c \in 1 .. i - 1 /\ NoCluster(c + 1, i - 1) /\ Off[c] = Base + 0
          BY <4>2, <5>1 DEF Buffered
        <5>3. elements[i - 1].kind = "cluster" => c = i - 1
          BY <2>1, <5>2 DEF NoCluster
        <5>4. Off[c] < Pos
          BY <1>5, <3>2, <5>2
        <5> QED
          BY <5>3, <5>4
      <4> QED
        BY <2>2, <2>4, <4>1, <4>2
    <3>5. Copying' => elements'[i - 1].kind # "cluster" \/ Off'[i - 1] < Pos'
      BY <1>3, <1>10, <2>1, <2>2, <3>4
    <3> QED
      BY <3>1, <3>3, <3>5 DEF InBuffer
  <2> QED
    BY <2>3, <2>4
<1>17. Parsed'
  <2>1. At(i)'
    BY <1>2, <1>3, <1>8, <1>10, StreamKept DEF At, Copying
  <2>2. HeaderEnds(i)'
    BY <1>2, <1>3, <1>8, HeaderEndsKept
  <2>3. TracksInHeader' => Learned(i)'
    BY <1>2, <1>3, <1>8, LearnedKept, StreamKept
  <2>4. i \in 1 .. Count' + 1
    BY <1>3, StreamKept
  <2> QED
    BY <1>16, <2>1, <2>2, <2>3, <2>4 DEF Parsed
<1>18. ClustersBegin'
  <2> SUFFICES ASSUME NEW c \in DOMAIN chunks', NEW k \in DOMAIN chunks'[c].data,
                      ClusterByte(chunks'[c].data[k])
               PROVE  k = 1
    BY <1>3, ClusterByteKept DEF ClustersBegin
  <2>1. CASE c \in DOMAIN chunks /\ chunks'[c] = chunks[c]
    <3>1. ClustersBegin
      BY DEF EbmlInv
    <3> QED
      BY <2>1, <3>1 DEF ClustersBegin
  <2>2. CASE chunks'[c] = [data |-> d, sync |-> mark]
    <3>1. chunks'[c].data = d /\ DOMAIN d = 1 .. r
      BY <1>6, <2>2
    <3>2. k \in 1 .. r /\ ClusterByte(StreamBytes[Base + k])
      BY <1>6, <3>1
    <3> QED
      BY <1>1, <1>2, <1>3, <3>2, ChunkBegins DEF r
  <2> QED
    BY <1>9, <2>1, <2>2
<1>19. ASSUME TracksInHeader' PROVE SyncPoints'
  <2>1. TracksInHeader
    BY <1>3, <1>19, StreamKept
  <2> DEFINE Right(x) ==
        /\ x.sync => ClusterByte(x.data[1])
        /\ ClusterByte(x.data[1]) /\ ~x.sync =>
              \E j \in FirstFrame(x.data[1][1]) : ~elements[j].key
        /\ x.sync => \A j \in FirstFrame(x.data[1][1]) :
                        elements[j].key \/ Distance(x.data[1][1], j) >= Slice
  <2>2. ASSUME NEW c \in DOMAIN chunks' PROVE Right(chunks'[c])
    <3>1. CASE c \in DOMAIN chunks /\ chunks'[c] = chunks[c]
      <4>1. SyncPoints
        BY <2>1 DEF EbmlInv
      <4>2. Right(chunks[c])
        BY <3>1, <4>1 DEF SyncPoints
      <4> QED
        BY <3>1, <4>2
    <3>2. CASE chunks'[c] = [data |-> d, sync |-> mark]
      <4> DEFINE x == chunks'[c]
      <4>1. x.data = d /\ x.sync = mark /\ d[1] = StreamBytes[Base + 1] /\ 1 \in 1 .. r
        <5>1. x.data = d /\ x.sync = mark
          BY <3>2
        <5>2. 1 \in 1 .. r
          BY <1>3, <1>4
        <5> QED
          BY <1>6, <5>1, <5>2
      <4> HIDE DEF x
      <4>2. CASE ebml.clusterStart # 0
        <5>1. ~mark
          BY <4>2 DEF mark
        <5>2. ~ClusterByte(StreamBytes[Base + 1])
          BY <1>1, <1>2, <1>3, <4>1, <4>2, ChunkBegins DEF r
        <5>3. Right(x)
          BY <4>1, <5>1, <5>2
        <5> QED
          BY <5>3 DEF x
      <4>3. CASE ebml.clusterStart = 0
        <5>1. PICK f \in 1 .. Count :
                /\ StreamBytes[Base + 1] = <<f, 1>> /\ elements[f].kind = "cluster"
                /\ ebml.keyframe = "no" => \E j \in FirstFrame(f) : ~elements[j].key
                /\ ebml.keyframe # "no" =>
                      \A j \in FirstFrame(f) : elements[j].key \/ Distance(f, j) >= Slice
          BY <1>1, <1>2, <1>3, <2>1, <4>3, ChunkSync DEF r
        <5>2. x.data[1] = <<f, 1>> /\ x.data[1][1] = f /\ ClusterByte(x.data[1])
          BY <4>1, <5>1 DEF ClusterByte
        <5>3. x.sync <=> ebml.keyframe # "no"
          BY <4>1, <4>3 DEF mark
        <5>4. Right(x)
          BY <5>1, <5>2, <5>3
        <5> QED
          BY <5>4 DEF x
      <4> QED
        BY <4>2, <4>3
    <3> QED
      BY <1>9, <3>1, <3>2
  <2> QED
    BY <1>3, <2>2, StreamKept, SMTT(60) DEF SyncPoints, FirstFrame, Distance, ClusterByte
<1> QED
  BY <1>12, <1>14, <1>15, <1>17, <1>18, <1>19 DEF EbmlInv

----------------------------------------------------------------------------
(* The theorem *)

(* Every step keeps the invariant. *)
LEMMA EbmlNextInv ==
    EbmlInv /\ [EbmlNext]_ebmlVars => EbmlInv'
<1> SUFFICES ASSUME EbmlInv, [EbmlNext]_ebmlVars PROVE EbmlInv'
  OBVIOUS
<1>1. parsing \in BOOLEAN /\ failed \in BOOLEAN
  BY DEF EbmlInv, EbmlTypeOK
<1>2. CASE CreateClientData \/ (\E n \in 1 .. Slice : SendHeader(n)) \/ GoGeneric
  BY <1>2, ListenerInv
<1>3. CASE ReadHeader
  BY <1>3, ReadHeaderInv
<1>4. CASE ReadChunk
  BY <1>4, ReadChunkInv
<1>5. CASE \E n \in 0 .. Slice : Feed(n)
  BY <1>5, FeedInv
<1>6. CASE FeedFull \/ HungUp \/ ParseError \/ WaitForTag \/ WaitForProbe \/ UNCHANGED ebmlVars
  <2>1. /\ UNCHANGED <<elements, given, ebml, streamHeader, chunks, others>>
        /\ parsing' \in BOOLEAN /\ failed' \in BOOLEAN
    BY <1>1, <1>6 DEF FeedFull, HungUp, ParseError, WaitForTag, WaitForProbe, Fail, Wait, ebmlVars
  <2> QED
    BY <2>1, EbmlQuietInv
<1>7. CASE FindCluster
  BY <1>7, FindClusterInv
<1>8. CASE TakeElement
  BY <1>8, TakeElementInv
<1>9. CASE WaitForFlush
  BY <1>9, WaitForFlushInv
<1>10. CASE StartCluster
  BY <1>10, StartClusterInv
<1>11. CASE CopyToHeader
  BY <1>11, CopyToHeaderInv
<1>12. CASE CopyToData
  BY <1>12, CopyToDataInv
<1> QED
  BY <1>2, <1>3, <1>4, <1>5, <1>6, <1>7, <1>8, <1>9, <1>10, <1>11, <1>12 DEF EbmlNext

(* Nothing is lost, and the header is what comes before the first cluster. *)
LEMMA EbmlInvFaithful ==
    EbmlInv => EbmlFaithful
<1> SUFFICES ASSUME EbmlInv PROVE EbmlFaithful
  OBVIOUS
<1>1. EbmlTypeOK /\ Received /\ Stages /\ Pieces /\ Parsed
  BY DEF EbmlInv
<1> DEFINE h == Len(ebml.header)
           S == StreamBytes
<1>2. /\ S \in Seq(Bytes) /\ Cuts(S, 0, h) /\ Cuts(S, h, Base) /\ Cuts(S, Base, Pos)
      /\ Cuts(S, Pos, given)
  BY <1>1, Placed
<1>3. /\ ebml.header = Part(S, 0, h) /\ FlattenSeq(ChunkData) = Part(S, h, Base)
      /\ ebml.buffer = Part(S, Base, Pos) /\ ebml.input = Part(S, Pos, given)
  BY <1>1 DEF Pieces
<1> HIDE DEF h
<1>4. InOrder
  <2>1. Part(S, 0, h) \o Part(S, h, Base) = Part(S, 0, Base) /\ Cuts(S, 0, Base)
    BY <1>2, PartsJoin
  <2>2. Part(S, 0, Base) \o Part(S, Base, Pos) = Part(S, 0, Pos) /\ Cuts(S, 0, Pos)
    BY <1>2, <2>1, PartsJoin
  <2>3. Part(S, 0, Pos) \o Part(S, Pos, given) = Part(S, 0, given)
    BY <1>2, <2>2, PartsJoin
  <2>4. ((ebml.header \o FlattenSeq(ChunkData)) \o ebml.buffer) \o ebml.input = Part(S, 0, given)
    BY <1>3, <2>1, <2>2, <2>3
  <2>5. (IF ebml.output = "clusters" THEN streamHeader ELSE ebml.header) = ebml.header
    BY <1>1 DEF Stages
  <2>6. Part(S, 0, given) = SubSeq(S, 1, given)
    BY DEF Part
  <2> QED
    BY <2>4, <2>5, <2>6 DEF InOrder, ChunkData
<1>5. HeadersFirst
  <2>1. dump.state = "open" /\ chunks # <<>> => dump.content = streamHeader \o FlattenSeq(ChunkData)
    BY <1>1 DEF Received
  <2>2. ASSUME listener.state = "generic" PROVE BeforeClusters(listener.got)
    <3>1. streamHeader # <<>> /\ listener.got = SubSeq(streamHeader, 1, Len(streamHeader))
      BY <1>1, <2>2 DEF Received
    <3>2. listener.got = ebml.header /\ ~InHeader
      <4>1. ebml.output = "clusters"
        BY <1>1, <3>1, Fields DEF Stages
      <4>2. streamHeader = ebml.header /\ ~InHeader /\ ebml.header \in Seq(Bytes)
        BY <1>1, <4>1, Fields DEF Stages
      <4> QED
        BY <3>1, <4>2, SubSeqFull
    <3>3. PICK f \in 1 .. Count :
            elements[f].kind = "cluster" /\ NoCluster(1, f - 1) /\ h = Off[f]
      BY <1>1, <3>2 DEF Parsed, HeaderEnds, h
    <3>4. Stream /\ Layout(Off) /\ Count \in Nat /\ f \in 1 .. Count + 1 /\ f \in Nat
      <4>1. Stream /\ Layout(Off) /\ Count \in Nat
        BY <1>1, StreamThere
      <4> QED
        BY <4>1
    <3>5. ebml.header = SubSeq(S, 1, Len(ebml.header))
      BY <1>3 DEF Part, h
    <3>6. ASSUME NEW k \in 1 .. h PROVE ~ClusterByte(S[k])
      <4>1. k \in 1 .. Off[f]
        BY <3>3
      <4>2. PICK i \in 1 .. Count : i < f /\ S[k] = <<i, k - Off[i]>>
        BY <3>4, <4>1, ByteOf
      <4>3. elements[i].kind # "cluster"
        BY <3>3, <3>4, <4>2 DEF NoCluster
      <4> QED
        BY <4>2, <4>3 DEF ClusterByte
    <3>7. ClusterByte(S[h + 1])
      <4>1. 1 \in 1 .. Size(f)
        BY <3>4 DEF Stream, Size
      <4>2. S[Off[f] + 1] = <<f, 1>>
        BY <3>4, <4>1 DEF Layout
      <4> QED
        BY <3>3, <4>2 DEF ClusterByte
    <3>8. BeforeClusters(ebml.header)
      BY <3>5, <3>6, <3>7 DEF BeforeClusters, h
    <3> QED
      BY <3>2, <3>8
  <2> QED
    BY <2>1, <2>2 DEF HeadersFirst, ChunkData
<1> QED
  BY <1>4, <1>5 DEF EbmlFaithful, EbmlInv

(* Whatever elements a WebM source sends and however its bytes are cut     *)
(* into reads, the header and the buffers that ebml_get_buffer returned    *)
(* are the stream in order, cut where clusters begin; listeners and dump   *)
(* files get the header first; and, when the tracks are described in the   *)
(* header, a cluster is marked as sync point as its first video frame      *)
(* says.                                                                   *)
THEOREM EbmlKeepsStream == EbmlInit /\ [][EbmlNext]_ebmlVars => []EbmlFaithful
<1>1. EbmlInit => EbmlInv
  BY EbmlInitInv
<1>2. EbmlInv /\ [EbmlNext]_ebmlVars => EbmlInv'
  BY EbmlNextInv
<1>3. EbmlInv => EbmlFaithful
  BY EbmlInvFaithful
<1> QED
  BY <1>1, <1>2, <1>3, PTL

----------------------------------------------------------------------------
(* The first parts of a flattened sequence *)

(* What the first m parts have. *)
FirstOf(f, m) == FlattenSeq([i \in 1 .. m |-> f[i]])

(* They are joined one after the other. *)
LEMMA FirstStep ==
    ASSUME NEW T, NEW f \in Seq(Seq(T)), NEW m \in 0 .. Len(f)
    PROVE  /\ FirstOf(f, m) \in Seq(T)
           /\ m = 0 => FirstOf(f, m) = <<>>
           /\ m # 0 => FirstOf(f, m) = FirstOf(f, m - 1) \o f[m]
<1> DEFINE F(k) == [i \in 1 .. k |-> f[i]]
<1>1. Len(f) \in Nat /\ \A i \in 1 .. Len(f) : f[i] \in Seq(T)
  OBVIOUS
<1>2. ASSUME NEW k \in 0 .. Len(f)
      PROVE  F(k) \in Seq(Seq(T)) /\ Len(F(k)) = k
  <2>1. k \in Nat /\ \A i \in 1 .. k : f[i] \in Seq(T)
    BY <1>1
  <2> QED
    BY <2>1
<1>3. FirstOf(f, m) = FlattenSeq(F(m))
  BY DEF FirstOf
<1>4. CASE m = 0
  <2>1. F(m) = <<>>
    BY <1>2, <1>4
  <2>2. FlattenSeq(<<>>) = <<>>
    BY DEF FlattenSeq
  <2>3. <<>> \in Seq(T)
    OBVIOUS
  <2> QED
    BY <1>3, <1>4, <2>1, <2>2, <2>3
<1>5. CASE m # 0
  <2>1. m - 1 \in 0 .. Len(f) /\ m \in 1 .. Len(f) /\ (m - 1) + 1 = m
    BY <1>1, <1>5
  <2> DEFINE a == F(m - 1)
             b == F(m)
             d == f[m]
  <2>2. a \in Seq(Seq(T)) /\ Len(a) = m - 1 /\ d \in Seq(T) /\ b \in Seq(Seq(T)) /\ Len(b) = m
    BY <1>1, <1>2, <2>1
  <2>3. ASSUME NEW i \in 1 .. m PROVE b[i] = IF i = m THEN d ELSE a[i]
    BY <2>1
  <2>4. b[m] = d /\ \A i \in 1 .. m - 1 : b[i] = a[i]
    BY <2>1, <2>3
  <2>5. FirstOf(f, m - 1) = FlattenSeq(a)
    BY DEF FirstOf
  <2> HIDE DEF a, b, d
  <2>6. b = Append(a, d)
    BY <2>1, <2>2, <2>4
  <2>7. FlattenSeq(a) \in Seq(T) /\ FlattenSeq(Append(a, d)) = FlattenSeq(a) \o d
    BY <2>2, FlattenAppend
  <2>8. FlattenSeq(b) = FlattenSeq(a) \o d /\ FlattenSeq(b) \in Seq(T)
    BY <2>2, <2>6, <2>7
  <2>9. FlattenSeq(F(m)) = FlattenSeq(b)
    BY DEF b
  <2> QED
    BY <1>3, <1>5, <2>5, <2>8, <2>9 DEF d
<1> QED
  BY <1>4, <1>5

(* All of them. *)
LEMMA FirstAll ==
    ASSUME NEW T, NEW f \in Seq(Seq(T))
    PROVE  FirstOf(f, Len(f)) = FlattenSeq(f)
<1>1. f = [i \in 1 .. Len(f) |-> f[i]]
  OBVIOUS
<1> QED
  BY <1>1 DEF FirstOf

(* Fewer of them are the beginning of more. *)
LEMMA FirstGrows ==
    ASSUME NEW T, NEW f \in Seq(Seq(T)), NEW i \in 0 .. Len(f), NEW j \in i .. Len(f)
    PROVE  \E rest \in Seq(T) : FirstOf(f, j) = FirstOf(f, i) \o rest
<1> DEFINE n == Len(f)
           Grows(m) == \E rest \in Seq(T) : FirstOf(f, m) = FirstOf(f, i) \o rest
           G == {m \in 0 .. n : m < i \/ Grows(m)}
<1>1. n \in Nat /\ i \in 0 .. n /\ j \in 0 .. n /\ ~(j < i) /\ \A m \in 1 .. n : f[m] \in Seq(T)
  OBVIOUS
<1>2. \A m \in 0 .. n : FirstOf(f, m) \in Seq(T)
  BY FirstStep
<1>3. \A m \in 1 .. n : FirstOf(f, m) = FirstOf(f, m - 1) \o f[m]
  <2>1. \A m \in 1 .. n : m \in 0 .. n /\ m # 0
    BY <1>1
  <2> QED
    BY <2>1, FirstStep
<1> HIDE DEF n
<1>4. Grows(i)
  <2>1. <<>> \in Seq(T) /\ FirstOf(f, i) = FirstOf(f, i) \o <<>>
    BY <1>1, <1>2
  <2> QED
    BY <2>1
<1>5. ASSUME NEW m \in 0 .. n - 1, m \in G PROVE m + 1 \in G
  <2>1. m + 1 \in 1 .. n /\ (m + 1) - 1 = m /\ m + 1 \in 0 .. n /\ m \in 0 .. n
    BY <1>1
  <2>2. CASE m < i
    <3>1. m + 1 < i \/ m + 1 = i
      BY <1>1, <2>1, <2>2
    <3> HIDE DEF Grows
    <3> QED
      BY <1>4, <2>1, <3>1
  <2>3. CASE ~(m < i)
    <3>1. PICK rest \in Seq(T) : FirstOf(f, m) = FirstOf(f, i) \o rest
      BY <1>5, <2>3
    <3>2. FirstOf(f, m + 1) = FirstOf(f, m) \o f[m + 1] /\ f[m + 1] \in Seq(T) /\ FirstOf(f, i) \in Seq(T)
      BY <1>1, <1>2, <1>3, <2>1
    <3> DEFINE a == FirstOf(f, i)
               d == f[m + 1]
    <3> HIDE DEF a, d
    <3>3. a \in Seq(T) /\ d \in Seq(T) /\ rest \in Seq(T)
      BY <3>1, <3>2 DEF a, d
    <3>4. (a \o rest) \o d = a \o (rest \o d) /\ rest \o d \in Seq(T)
      BY <3>3
    <3>5. FirstOf(f, m + 1) = a \o (rest \o d)
      BY <3>1, <3>2, <3>4 DEF a, d
    <3>6. Grows(m + 1)
      BY <3>4, <3>5 DEF a
    <3> HIDE DEF Grows
    <3> QED
      BY <2>1, <3>6
  <2> QED
    BY <2>2, <2>3
<1>6. 0 \in G
  <2>1. i = 0 \/ 0 < i
    BY <1>1
  <2> HIDE DEF Grows
  <2> QED
    BY <1>1, <1>4, <2>1
<1> HIDE DEF G
<1>7. \A m \in 0 .. n : m \in G
  BY <1>1, <1>5, <1>6, UpTo
<1>8. Grows(j)
  BY <1>1, <1>7 DEF G
<1> QED
  BY <1>8

----------------------------------------------------------------------------
(* The bytes of the stream in a sequence of bytes *)

(* The byte, if it is one of the stream. *)
Only(x) == IF x.data THEN <<x>> ELSE <<>>

(* One more byte. *)
LEMMA StreamAppend ==
    ASSUME NEW T, NEW s \in Seq(T), NEW x \in T
    PROVE  StreamOnly(s) \in Seq(T) /\ StreamOnly(Append(s, x)) = StreamOnly(s) \o Only(x)
<1> DEFINE t == Append(s, x)
           f == [i \in DOMAIN s |-> Only(s[i])]
           g == [i \in DOMAIN t |-> Only(t[i])]
           n == Len(s)
<1>1. \A y \in T : Only(y) \in Seq(T)
  <2>1. \A y \in T : <<y>> \in Seq(T) /\ <<>> \in Seq(T)
    OBVIOUS
  <2> QED
    BY <2>1 DEF Only
<1>2. n \in Nat /\ DOMAIN s = 1 .. n /\ \A i \in 1 .. n : s[i] \in T
  OBVIOUS
<1>3. DOMAIN t = 1 .. n + 1 /\ t[n + 1] = x /\ \A i \in 1 .. n : t[i] = s[i]
  OBVIOUS
<1>4. StreamOnly(s) = FlattenSeq(f) /\ StreamOnly(t) = FlattenSeq(g)
  BY DEF StreamOnly, Only
<1> HIDE DEF t, n
<1>5. f \in Seq(Seq(T)) /\ Len(f) = n
  <2>1. f = [i \in 1 .. n |-> Only(s[i])] /\ \A i \in 1 .. n : Only(s[i]) \in Seq(T)
    BY <1>1, <1>2
  <2> HIDE DEF f
  <2> QED
    BY <1>2, <2>1
<1>6. Only(x) \in Seq(T)
  BY <1>1
<1>7. g = Append(f, Only(x))
  <2>1. g = [i \in 1 .. n + 1 |-> Only(t[i])]
    BY <1>3
  <2>2. \A i \in 1 .. n : f[i] = Only(s[i])
    BY <1>2
  <2> HIDE DEF f, g
  <2> DEFINE a == Append(f, Only(x))
  <2>3. /\ a \in Seq(Seq(T)) /\ Len(a) = n + 1 /\ a[n + 1] = Only(x)
        /\ \A i \in 1 .. n : a[i] = f[i]
    BY <1>5, <1>6, AppendProperties
  <2> HIDE DEF a
  <2>4. ASSUME NEW i \in 1 .. n + 1 PROVE Only(t[i]) = a[i]
    <3>1. CASE i = n + 1
      BY <1>3, <2>3, <3>1
    <3>2. CASE i # n + 1
      <4>1. i \in 1 .. n
        BY <1>2, <3>2
      <4> QED
        BY <1>3, <2>2, <2>3, <4>1
    <3> QED
      BY <3>1, <3>2
  <2>5. a = [i \in 1 .. n + 1 |-> a[i]]
    BY <1>2, <2>3
  <2> QED
    BY <2>1, <2>4, <2>5 DEF a
<1> HIDE DEF f, g
<1>8. FlattenSeq(f) \in Seq(T) /\ FlattenSeq(Append(f, Only(x))) = FlattenSeq(f) \o Only(x)
  BY <1>5, <1>6, FlattenAppend
<1> QED
  BY <1>4, <1>7, <1>8 DEF t

(* Nothing has no bytes of the stream. *)
LEMMA StreamNone == StreamOnly(<<>>) = <<>>
<1>1. [i \in DOMAIN <<>> |-> Only(<<>>[i])] = <<>>
  OBVIOUS
<1>2. FlattenSeq(<<>>) = <<>>
  BY DEF FlattenSeq
<1>3. StreamOnly(<<>>) = FlattenSeq([i \in DOMAIN <<>> |-> Only(<<>>[i])])
  BY DEF StreamOnly, Only
<1> QED
  BY <1>1, <1>2, <1>3

(* The bytes of the stream are some of those given. *)
LEMMA StreamType ==
    ASSUME NEW T, NEW s \in Seq(T)
    PROVE  StreamOnly(s) \in Seq(T)
<1>1. CASE T = {}
  <2>1. s = <<>> /\ <<>> \in Seq(T)
    BY <1>1
  <2> QED
    BY <2>1, StreamNone
<1>2. CASE T # {}
  BY <1>2, StreamAppend
<1> QED
  BY <1>1, <1>2

(* The beginning of a sequence with one element more. *)
LEMMA PartMore ==
    ASSUME NEW T, NEW s \in Seq(T), NEW k \in 0 .. Len(s) - 1
    PROVE  /\ Part(s, 0, k) \in Seq(T) /\ s[k + 1] \in T
           /\ Part(s, 0, k + 1) = Append(Part(s, 0, k), s[k + 1])
<1>1. Len(s) \in Nat /\ Cuts(s, 0, k) /\ Cuts(s, 0, k + 1) /\ k + 1 \in 1 .. Len(s) /\ k \in Nat
  BY DEF Cuts
<1> DEFINE a == Part(s, 0, k)
           b == Part(s, 0, k + 1)
<1>2. a \in Seq(T) /\ Len(a) = k - 0 /\ \A i \in 1 .. k - 0 : a[i] = s[0 + i]
  BY <1>1, PartIs
<1>3. b \in Seq(T) /\ Len(b) = (k + 1) - 0 /\ \A i \in 1 .. (k + 1) - 0 : b[i] = s[0 + i]
  BY <1>1, PartIs
<1>4. s[k + 1] \in T
  BY <1>1
<1> HIDE DEF a, b
<1>5. b[k + 1] = s[k + 1] /\ \A i \in 1 .. k : b[i] = a[i]
  <2>1. k + 1 \in 1 .. (k + 1) - 0 /\ 0 + (k + 1) = k + 1
    BY <1>1
  <2>2. ASSUME NEW i \in 1 .. k PROVE b[i] = a[i]
    <3>1. i \in 1 .. k - 0 /\ i \in 1 .. (k + 1) - 0 /\ 0 + i = i
      BY <1>1
    <3> QED
      BY <1>2, <1>3, <3>1
  <2> QED
    BY <1>3, <2>1, <2>2
<1>6. b = Append(a, s[k + 1])
  BY <1>1, <1>2, <1>3, <1>4, <1>5
<1> QED
  BY <1>2, <1>4, <1>6 DEF a, b

(* Two sequences of bytes, one behind the other. *)
LEMMA StreamConcat ==
    ASSUME NEW T, NEW s \in Seq(T), NEW t \in Seq(T)
    PROVE  StreamOnly(s \o t) = StreamOnly(s) \o StreamOnly(t)
<1> DEFINE n == Len(t)
           p(k) == Part(t, 0, k)
           G == {k \in 0 .. n : StreamOnly(s \o p(k)) = StreamOnly(s) \o StreamOnly(p(k))}
<1>1. n \in Nat /\ p(0) = <<>> /\ p(n) = t
  BY PartWhole
<1>2. \A k \in 0 .. n - 1 : p(k) \in Seq(T) /\ t[k + 1] \in T /\ p(k + 1) = Append(p(k), t[k + 1])
  BY PartMore
<1> HIDE DEF n, p
<1>3. 0 \in G
  <2>1. s \o <<>> = s
    BY ConcatEmptySeq
  <2>2. StreamOnly(s) \o <<>> = StreamOnly(s)
    BY StreamType, ConcatEmptySeq
  <2>3. StreamOnly(s \o p(0)) = StreamOnly(s) \o StreamOnly(p(0))
    BY <1>1, <2>1, <2>2, StreamNone
  <2> QED
    BY <1>1, <2>3
<1>4. ASSUME NEW k \in 0 .. n - 1, k \in G PROVE k + 1 \in G
  <2> DEFINE a == p(k)
             x == t[k + 1]
  <2>1. a \in Seq(T) /\ x \in T /\ p(k + 1) = Append(a, x) /\ k + 1 \in 0 .. n
    BY <1>1, <1>2
  <2>2. StreamOnly(s \o a) = StreamOnly(s) \o StreamOnly(a)
    BY <1>4
  <2> HIDE DEF a, x
  <2>3. s \o a \in Seq(T) /\ s \o Append(a, x) = Append(s \o a, x)
    BY <2>1
  <2>4. StreamOnly(Append(s \o a, x)) = StreamOnly(s \o a) \o Only(x)
    BY <2>1, <2>3, StreamAppend
  <2>5. StreamOnly(Append(a, x)) = StreamOnly(a) \o Only(x)
    BY <2>1, StreamAppend
  <2>6. StreamOnly(s) \in Seq(T) /\ StreamOnly(a) \in Seq(T) /\ Only(x) \in Seq(T)
    <3>1. <<x>> \in Seq(T) /\ <<>> \in Seq(T)
      BY <2>1
    <3> QED
      BY <2>1, <3>1, StreamAppend DEF Only
  <2>7. (StreamOnly(s) \o StreamOnly(a)) \o Only(x) = StreamOnly(s) \o (StreamOnly(a) \o Only(x))
    <3> DEFINE u == StreamOnly(s)
               v == StreamOnly(a)
               w == Only(x)
    <3>1. u \in Seq(T) /\ v \in Seq(T) /\ w \in Seq(T)
      BY <2>6
    <3> HIDE DEF u, v, w
    <3>2. (u \o v) \o w = u \o (v \o w)
      BY <3>1
    <3> QED
      BY <3>2 DEF u, v, w
  <2>8. StreamOnly(s \o p(k + 1)) = StreamOnly(s) \o StreamOnly(p(k + 1))
    BY <2>1, <2>2, <2>3, <2>4, <2>5, <2>7
  <2> QED
    BY <2>1, <2>8
<1> HIDE DEF G
<1>5. \A k \in 0 .. n : k \in G
  BY <1>1, <1>3, <1>4, UpTo
<1>6. n \in G
  BY <1>1, <1>5
<1> QED
  BY <1>1, <1>6 DEF G

(* A sequence of bytes of the stream, and one without any. *)
LEMMA StreamAll ==
    ASSUME NEW T, NEW t \in Seq(T)
    PROVE  /\ (\A i \in 1 .. Len(t) : t[i].data) => StreamOnly(t) = t
           /\ (\A i \in 1 .. Len(t) : ~t[i].data) => StreamOnly(t) = <<>>
<1> DEFINE n == Len(t)
           p(k) == Part(t, 0, k)
           A == \A i \in 1 .. n : t[i].data
           B == \A i \in 1 .. n : ~t[i].data
           G == {k \in 0 .. n : (A => StreamOnly(p(k)) = p(k)) /\ (B => StreamOnly(p(k)) = <<>>)}
<1>1. n \in Nat /\ p(0) = <<>> /\ p(n) = t
  BY PartWhole
<1>2. \A k \in 0 .. n - 1 : p(k) \in Seq(T) /\ t[k + 1] \in T /\ p(k + 1) = Append(p(k), t[k + 1])
  BY PartMore
<1>3. \A i \in 1 .. n : (A => t[i].data) /\ (B => ~t[i].data)
  OBVIOUS
<1> HIDE DEF n, p, A, B
<1>4. 0 \in G
  BY <1>1, StreamNone
<1>5. ASSUME NEW k \in 0 .. n - 1, k \in G PROVE k + 1 \in G
  <2> DEFINE a == p(k)
             x == t[k + 1]
  <2>1. a \in Seq(T) /\ x \in T /\ p(k + 1) = Append(a, x) /\ k + 1 \in 0 .. n /\ k + 1 \in 1 .. n
    BY <1>1, <1>2
  <2>2. (A => StreamOnly(a) = a) /\ (B => StreamOnly(a) = <<>>)
    BY <1>5
  <2>3. (A => x.data) /\ (B => ~x.data)
    BY <1>3, <2>1
  <2> HIDE DEF a, x
  <2>4. StreamOnly(Append(a, x)) = StreamOnly(a) \o Only(x)
    BY <2>1, StreamAppend
  <2>5. A => StreamOnly(Append(a, x)) = Append(a, x)
    <3>1. Append(a, x) = a \o <<x>>
      BY <2>1, AppendIsConcat
    <3> QED
      BY <2>2, <2>3, <2>4, <3>1 DEF Only
  <2>6. B => StreamOnly(Append(a, x)) = <<>>
    <3>1. <<>> \o <<>> = <<>>
      OBVIOUS
    <3> QED
      BY <2>2, <2>3, <2>4, <3>1 DEF Only
  <2> QED
    BY <2>1, <2>5, <2>6
<1> HIDE DEF G
<1>6. \A k \in 0 .. n : k \in G
  BY <1>1, <1>4, <1>5, UpTo
<1>7. n \in G
  BY <1>1, <1>6
<1> QED
  BY <1>1, <1>7 DEF G, A, B, n

----------------------------------------------------------------------------
(* Where the blocks are in what the source sends *)

(* The bytes a source sends, its blocks and where they end. *)
SourceByte == [data : BOOLEAN, no : Int]
StreamByte == [data : {TRUE}, no : Int]
BlockCount == Len(blocks)
Extent(b) == BlockLen(blocks[b].units)
Ends(b) == Len(BytesTo(b))

Song ==
    /\ BlockCount \in Nat /\ DOMAIN blocks = 1 .. BlockCount
    /\ \A b \in 1 .. BlockCount : blocks[b].units \in Nat

(* A stream of the model has blocks of some length each. *)
LEMMA SongOf ==
    ASSUME blocks \in Mp3Streams
    PROVE  Song
BY BlocksAssumption DEF Song, BlockCount

(* A block has a byte with its length, and a text if that is not zero. *)
LEMMA BlockLenIs ==
    ASSUME NEW n \in Nat
    PROVE  BlockLen(n) \in Nat \ {0} /\ (BlockLen(n) > 1 <=> n > 0)
<1>1. Unit \in Nat /\ Unit > 0
  BY Mp3Assumption
<1>2. Unit * n \in Nat
  BY <1>1
<1>3. n > 0 => Unit * n > 0
  BY <1>1
<1>4. n = 0 => Unit * n = 0
  BY <1>1
<1> QED
  BY <1>2, <1>3, <1>4 DEF BlockLen

(* The bytes of a block. *)
LEMMA BytesOfIs ==
    ASSUME Song, NEW b \in 1 .. BlockCount
    PROVE  /\ BytesOf(b) \in Seq(SourceByte) /\ Len(BytesOf(b)) = MetaInt + Extent(b)
           /\ MetaInt \in Nat \ {0} /\ Extent(b) \in Nat \ {0}
           /\ \A k \in 1 .. MetaInt : BytesOf(b)[k].data = TRUE
           /\ \A k \in 1 .. Extent(b) : BytesOf(b)[MetaInt + k] = [data |-> FALSE, no |-> b]
<1> DEFINE m == MetaInt
           z == Extent(b)
           x(i) == [data |-> TRUE, no |-> (b - 1) * MetaInt + i]
           y == [data |-> FALSE, no |-> b]
           s == [i \in 1 .. m |-> x(i)]
           t == [i \in 1 .. z |-> y]
<1>1. m \in Nat \ {0} /\ z \in Nat \ {0}
  BY Mp3Assumption, BlockLenIs DEF Song, Extent
<1>2. \A i \in 1 .. m : x(i) \in SourceByte /\ x(i).data = TRUE
  <2>1. b - 1 \in Int /\ m \in Int
    BY <1>1 DEF Song
  <2>2. \A i \in 1 .. m : (b - 1) * m + i \in Int
    BY <1>1, <2>1
  <2> QED
    BY <2>2 DEF SourceByte
<1>3. y \in SourceByte
  BY DEF SourceByte, Song
<1>4. BytesOf(b) = s \o t
  BY DEF BytesOf, Extent
<1> HIDE DEF m, z, x, y
<1>5. s \in Seq(SourceByte) /\ Len(s) = m /\ \A i \in 1 .. m : s[i] = x(i)
  BY <1>1, <1>2
<1>6. t \in Seq(SourceByte) /\ Len(t) = z /\ \A i \in 1 .. z : t[i] = y
  BY <1>1, <1>3
<1> HIDE DEF s, t
<1> DEFINE u == BytesOf(b)
<1>7. u = s \o t
  BY <1>4
<1> HIDE DEF u
<1>8. /\ u \in Seq(SourceByte) /\ Len(u) = Len(s) + Len(t)
      /\ \A p \in 1 .. Len(s) : u[p] = s[p]
      /\ \A k \in 1 .. Len(t) : u[Len(s) + k] = t[k]
  <2>1. s \in Seq(SourceByte) /\ t \in Seq(SourceByte)
    BY <1>5, <1>6
  <2> QED
    BY ONLY <1>7, <2>1, Behind
<1>9. \A k \in 1 .. m : u[k].data = TRUE
  BY <1>2, <1>5, <1>8
<1>10. \A k \in 1 .. z : u[m + k] = y
  BY <1>5, <1>6, <1>8
<1> QED
  BY <1>1, <1>5, <1>6, <1>8, <1>9, <1>10 DEF m, z, y, u

(* The blocks up to one. *)
LEMMA BytesToIs ==
    ASSUME Song, NEW b \in 0 .. BlockCount
    PROVE  /\ BytesTo(b) \in Seq(SourceByte) /\ Ends(b) \in Nat
           /\ b = 0 => BytesTo(b) = <<>> /\ Ends(b) = 0
           /\ b # 0 => /\ BytesTo(b) = BytesTo(b - 1) \o BytesOf(b)
                       /\ BytesTo(b - 1) \in Seq(SourceByte) /\ Ends(b - 1) \in Nat
                       /\ Ends(b) = Ends(b - 1) + MetaInt + Extent(b)
           /\ \E rest \in Seq(SourceByte) : SourceBytes = BytesTo(b) \o rest
<1> DEFINE n == BlockCount
           f == [i \in 1 .. n |-> BytesOf(i)]
<1>1. n \in Nat /\ b \in 0 .. n
  BY DEF Song
<1>2. \A i \in 1 .. n : BytesOf(i) \in Seq(SourceByte)
  BY BytesOfIs
<1>3. f \in Seq(Seq(SourceByte)) /\ Len(f) = n /\ \A i \in 1 .. n : f[i] = BytesOf(i)
  <2> HIDE DEF n
  <2> QED
    BY <1>1, <1>2
<1>4. ASSUME NEW k \in 0 .. n PROVE BytesTo(k) = FirstOf(f, k)
  <2>1. [i \in 1 .. k |-> BytesOf(i)] = [i \in 1 .. k |-> f[i]]
    <3>1. \A i \in 1 .. k : i \in 1 .. n
      BY <1>1
    <3> QED
      BY <1>3, <3>1
  <2> QED
    BY <2>1 DEF BytesTo, FirstOf
<1>5. SourceBytes = FirstOf(f, n)
  <2>1. n \in 0 .. n
    BY <1>1
  <2> QED
    BY <1>4, <2>1 DEF SourceBytes, BlockCount
<1> HIDE DEF f
<1>6. ASSUME NEW k \in 0 .. n
      PROVE  /\ BytesTo(k) \in Seq(SourceByte) /\ (k = 0 => BytesTo(k) = <<>>)
             /\ k # 0 => BytesTo(k) = FirstOf(f, k - 1) \o f[k]
  <2>1. k \in 0 .. Len(f)
    BY <1>3
  <2> QED
    BY <1>3, <1>4, <2>1, FirstStep
<1>7. BytesTo(b) \in Seq(SourceByte) /\ Ends(b) \in Nat
  <2>1. BytesTo(b) \in Seq(SourceByte)
    BY <1>1, <1>6
  <2> QED
    BY <2>1, LenProperties DEF Ends
<1>8. b = 0 => BytesTo(b) = <<>> /\ Ends(b) = 0
  <2>1. b = 0 => BytesTo(b) = <<>>
    BY <1>1, <1>6
  <2>2. Len(<<>>) = 0
    OBVIOUS
  <2> QED
    BY <2>1, <2>2 DEF Ends
<1>9. ASSUME b # 0
      PROVE  /\ BytesTo(b) = BytesTo(b - 1) \o BytesOf(b)
             /\ BytesTo(b - 1) \in Seq(SourceByte) /\ Ends(b - 1) \in Nat
             /\ Ends(b) = Ends(b - 1) + MetaInt + Extent(b)
  <2>1. b \in 1 .. n /\ b - 1 \in 0 .. n
    BY <1>1, <1>9
  <2>2. BytesTo(b) = BytesTo(b - 1) \o BytesOf(b)
    BY <1>1, <1>3, <1>4, <1>6, <1>9, <2>1
  <2>3. BytesTo(b - 1) \in Seq(SourceByte)
    BY <1>6, <2>1
  <2>4. BytesOf(b) \in Seq(SourceByte) /\ Len(BytesOf(b)) = MetaInt + Extent(b)
        /\ MetaInt \in Nat /\ Extent(b) \in Nat
    BY <2>1, BytesOfIs
  <2> DEFINE s == BytesTo(b - 1)
             t == BytesOf(b)
             u == BytesTo(b)
  <2>5. s \in Seq(SourceByte) /\ t \in Seq(SourceByte) /\ u = s \o t
    BY <2>2, <2>3, <2>4
  <2> HIDE DEF s, t, u
  <2>6. Len(u) = Len(s) + Len(t) /\ Len(s) \in Nat
    BY <2>5, Behind
  <2>7. Len(u) = Len(s) + MetaInt + Extent(b)
    BY <2>4, <2>6 DEF t
  <2> QED
    BY <2>2, <2>3, <2>6, <2>7 DEF s, u, Ends
<1>10. \E rest \in Seq(SourceByte) : SourceBytes = BytesTo(b) \o rest
  <2>1. b \in 0 .. Len(f) /\ n \in b .. Len(f)
    BY <1>1, <1>3
  <2>2. \E rest \in Seq(SourceByte) : FirstOf(f, n) = FirstOf(f, b) \o rest
    <3>1. f \in Seq(Seq(SourceByte))
      BY <1>3
    <3> QED
      BY ONLY <2>1, <3>1, FirstGrows
  <2> QED
    BY <1>1, <1>4, <1>5, <2>2
<1> QED
  BY <1>7, <1>8, <1>9, <1>10

(* The bytes of the blocks in the stream. *)
LEMMA SourceIs ==
    ASSUME Song, NEW b \in 1 .. BlockCount
    PROVE  /\ SourceBytes \in Seq(SourceByte) /\ Len(SourceBytes) \in Nat
           /\ Ends(b - 1) \in Nat /\ Ends(b) \in Nat /\ Ends(b) <= Len(SourceBytes)
           /\ MetaInt \in Nat \ {0} /\ Extent(b) \in Nat \ {0}
           /\ Ends(b) = Ends(b - 1) + MetaInt + Extent(b)
           /\ \A k \in 1 .. MetaInt : SourceBytes[Ends(b - 1) + k].data = TRUE
           /\ \A k \in 1 .. Extent(b) :
                SourceBytes[Ends(b - 1) + MetaInt + k] = [data |-> FALSE, no |-> b]
<1> DEFINE s == BytesTo(b - 1)
           t == BytesOf(b)
           u == BytesTo(b)
           v == SourceBytes
           m == MetaInt
           z == Extent(b)
<1>1. b \in 0 .. BlockCount /\ b # 0
  BY DEF Song
<1>2. /\ u \in Seq(SourceByte) /\ s \in Seq(SourceByte) /\ u = s \o t
      /\ Ends(b - 1) = Len(s) /\ Ends(b) = Len(u) /\ Ends(b) = Ends(b - 1) + m + z
  BY <1>1, BytesToIs DEF Ends
<1>3. PICK rest \in Seq(SourceByte) : v = u \o rest
  BY <1>1, BytesToIs
<1>4. /\ t \in Seq(SourceByte) /\ Len(t) = m + z /\ m \in Nat \ {0} /\ z \in Nat \ {0}
      /\ \A k \in 1 .. m : t[k].data = TRUE
      /\ \A k \in 1 .. z : t[m + k] = [data |-> FALSE, no |-> b]
  BY BytesOfIs
<1> HIDE DEF s, t, u, v, m, z
<1>5. /\ Len(s) \in Nat /\ Len(u) = Len(s) + Len(t)
      /\ \A k \in 1 .. Len(t) : u[Len(s) + k] = t[k]
  <2>1. s \in Seq(SourceByte) /\ t \in Seq(SourceByte) /\ u = s \o t
    BY <1>2, <1>4
  <2> QED
    BY ONLY <2>1, Behind
<1>6. /\ v \in Seq(SourceByte) /\ Len(rest) \in Nat /\ Len(v) = Len(u) + Len(rest)
      /\ \A p \in 1 .. Len(u) : v[p] = u[p]
  <2>1. u \in Seq(SourceByte) /\ rest \in Seq(SourceByte) /\ v = u \o rest
    BY <1>2, <1>3
  <2> QED
    BY ONLY <2>1, Behind
<1> DEFINE ls == Len(s)
           lt == Len(t)
           lu == Len(u)
<1>7. ASSUME NEW k \in 1 .. m + z PROVE v[ls + k] = t[k]
  <2>1. ls \in Nat /\ lt = m + z /\ lu = ls + lt
    BY <1>4, <1>5
  <2> HIDE DEF ls, lt, lu
  <2>2. ls + k \in 1 .. lu /\ k \in 1 .. lt
    BY <1>4, <2>1
  <2> QED
    BY <1>5, <1>6, <2>2 DEF ls, lt, lu
<1>8. ASSUME NEW k \in 1 .. m PROVE v[ls + k].data = TRUE
  <2>1. k \in 1 .. m + z
    BY <1>4
  <2> QED
    BY <1>4, <1>7, <2>1
<1>9. ASSUME NEW k \in 1 .. z PROVE v[ls + m + k] = [data |-> FALSE, no |-> b]
  <2>1. m + k \in 1 .. m + z /\ ls + m + k = ls + (m + k)
    BY <1>4, <1>5
  <2> QED
    BY <1>4, <1>7, <2>1
<1>10. Len(v) \in Nat /\ Len(u) <= Len(v) /\ Len(u) \in Nat
  <2>1. Len(u) \in Nat
    BY <1>2, LenProperties
  <2> QED
    BY <1>6, <2>1
<1> QED
  BY <1>2, <1>4, <1>5, <1>6, <1>8, <1>9, <1>10 DEF v, m, z

(* A later block ends later. *)
LEMMA EndsGrow ==
    ASSUME Song, NEW i \in 0 .. BlockCount, NEW j \in 0 .. BlockCount, i < j
    PROVE  Ends(i) \in Nat /\ Ends(j) \in Nat /\ Ends(i) < Ends(j)
<1> DEFINE n == BlockCount
           G == {m \in 0 .. n : \A a \in 0 .. m - 1 : Ends(a) < Ends(m)}
<1>1. n \in Nat /\ \A a \in 0 .. n : Ends(a) \in Nat
  BY BytesToIs DEF Song
<1>2. \A a \in 1 .. n : Ends(a - 1) < Ends(a)
  <2>1. ASSUME NEW a \in 1 .. n PROVE Ends(a - 1) < Ends(a)
    <3>1. /\ Ends(a - 1) \in Nat /\ MetaInt \in Nat \ {0} /\ Extent(a) \in Nat \ {0}
          /\ Ends(a) = Ends(a - 1) + MetaInt + Extent(a)
      BY SourceIs
    <3> QED
      BY <3>1
  <2> QED
    BY <2>1
<1> HIDE DEF n
<1>3. 0 \in G
  BY <1>1
<1>4. ASSUME NEW m \in 0 .. n - 1, m \in G PROVE m + 1 \in G
  <2>1. m + 1 \in 0 .. n /\ m + 1 \in 1 .. n /\ (m + 1) - 1 = m /\ m \in 0 .. n
    BY <1>1
  <2>2. Ends(m) < Ends(m + 1) /\ Ends(m) \in Nat /\ Ends(m + 1) \in Nat
    BY <1>1, <1>2, <2>1
  <2>3. ASSUME NEW a \in 0 .. (m + 1) - 1 PROVE Ends(a) < Ends(m + 1)
    <3>1. CASE a = m
      BY <2>2, <3>1
    <3>2. CASE a # m
      <4>1. a \in 0 .. m - 1 /\ a \in 0 .. n
        BY <1>1, <2>1, <3>2
      <4>2. Ends(a) < Ends(m) /\ Ends(a) \in Nat
        BY <1>1, <1>4, <4>1
      <4> QED
        BY <2>2, <4>2
    <3> QED
      BY <3>1, <3>2
  <2> QED
    BY <2>1, <2>3
<1> HIDE DEF G
<1>5. \A m \in 0 .. n : m \in G
  BY <1>1, <1>3, <1>4, UpTo
<1>6. j \in 0 .. n /\ i \in 0 .. n /\ i \in 0 .. j - 1
  BY <1>1 DEF n
<1> QED
  BY <1>1, <1>5, <1>6 DEF G

----------------------------------------------------------------------------
(* The invariant of Mp3 *)

(* The bytes that may be sent, the titles, the buffers and the listener. *)
MetaByte == [data : {FALSE}, meta : Nat, byte : Nat]
Sendable == StreamByte \cup MetaByte
Titles == {[text |-> "", units |-> 1], [text |-> "set", units |-> 1]}
          \cup {blocks[b] : b \in 1 .. BlockCount}
Mp3Buffer == [data : Seq(StreamByte), meta : Nat]
Mp3Client == [at : Nat \ {0}, pos : Nat, since : Nat, inMeta : BOOLEAN, metaOffset : Nat,
              begun : Nat, associated : Nat, got : Seq(Sendable)]

(* The types of the variables. *)
Mp3TypeOK ==
    /\ blocks \in Mp3Streams /\ taken \in Nat
    /\ readData \in Seq(SourceByte) /\ work \in Seq(SourceByte) /\ kept \in Seq(StreamByte)
    /\ filtering \in BOOLEAN /\ stopped \in BOOLEAN /\ update \in BOOLEAN /\ updates \in Nat
    /\ offset \in Nat /\ build \in [no : Nat, len : Nat, offset : Nat]
    /\ metas \in Seq(Titles) /\ metadata \in 1 .. Len(metas)
    /\ queue \in Seq(Mp3Buffer)
    /\ client \in Mp3Client

(* What was read and what was looked at of it. *)
ReadTo == taken - Len(readData)
Place == ReadTo - Len(work)
ReadParts ==
    /\ Cuts(SourceBytes, ReadTo, taken) /\ readData = Part(SourceBytes, ReadTo, taken)
    /\ stopped => ~filtering
    /\ ~stopped => /\ Cuts(SourceBytes, Place, ReadTo) /\ work = Part(SourceBytes, Place, ReadTo)
                   /\ filtering => readData = <<>>
                   /\ ~filtering => work = <<>>

(* The filter is in block b, before its text or in it. *)
InBlock(b) ==
    IF build.len = 0
    THEN Place = Ends(b - 1) + offset /\ offset <= MetaInt /\ (b > BlockCount => offset = 0)
    ELSE /\ b <= BlockCount /\ offset = MetaInt
         /\ build.no = b /\ build.len = Extent(b) /\ build.offset < build.len
         /\ Place = Ends(b - 1) + MetaInt + build.offset

(* The title is that of the blocks before. *)
TitleAt(B) == IF B = {} THEN "" ELSE blocks[CHOOSE b \in B : \A x \in B : x <= b].text
Texts(b) == {k \in 1 .. b - 1 : blocks[k].units > 0}
AtBlock ==
    ~stopped => \E b \in 1 .. BlockCount + 1 :
        /\ InBlock(b)
        /\ updates = 0 => ~update /\ metas[metadata].text = TitleAt(Texts(b))

(* The queue has the stream up to there. *)
QueueData == [i \in DOMAIN queue |-> queue[i].data]
QueueHas ==
    /\ ~stopped => FlattenSeq(QueueData) \o (IF filtering THEN kept ELSE <<>>)
                     = Intro.data \o StreamOnly(Part(SourceBytes, 0, Place))
    /\ \A i \in 1 .. Len(queue) : queue[i].meta <= Len(metas)

(* What a listener has got: as much of the queue as its position says, and *)
(* blocks where they belong.                                               *)
SentTo(c) == FirstOf(QueueData, c.at - 1) \o Part(queue[c.at].data, 0, c.pos)
StreamCount(g, k) == Cardinality({j \in 1 .. k : g[j].data})
BlockEnds(x) == x.byte = 0 \/ x.byte = MetaLen(x.meta)
Fits(g, i) ==
    IF g[i].data
    THEN IF g[i - 1].data THEN Interval = 0 \/ StreamCount(g, i - 1) % Interval # 0
         ELSE BlockEnds(g[i - 1])
    ELSE IF g[i].byte <= 1
         THEN g[i - 1].data /\ Interval # 0 /\ StreamCount(g, i - 1) % Interval = 0
         ELSE g[i - 1] = [g[i] EXCEPT !.byte = @ - 1]
Framed(g) ==
    /\ \A i \in 2 .. Len(g) : Fits(g, i)
    /\ g # <<>> => g[1].data
    /\ \A i \in 1 .. Len(g) : ~g[i].data => g[i].meta <= Len(metas)

(* How far the listener is from the next block, or in it. *)
LastByte(g) == g[Len(g)]
InText(c) ==
    /\ c.since = Interval /\ c.got # <<>>
    /\ LastByte(c.got) = [data |-> FALSE, meta |-> c.begun, byte |-> c.metaOffset]
    /\ c.metaOffset < MetaLen(c.begun) /\ c.begun <= Len(metas)
    /\ c.begun = 0 \/ c.begun # c.associated
Between(c) ==
    /\ c.metaOffset = 0 /\ (c.inMeta => c.since = Interval)
    /\ c.since > 0 => c.got # <<>> /\ LastByte(c.got).data
    /\ c.since = 0 /\ c.got # <<>> => ~LastByte(c.got).data /\ BlockEnds(LastByte(c.got))
Aligned(c) ==
    IF Interval = 0 THEN ~c.inMeta /\ (c.got # <<>> => LastByte(c.got).data)
    ELSE /\ c.since <= Interval /\ c.since <= StreamCount(c.got, Len(c.got))
         /\ (StreamCount(c.got, Len(c.got)) - c.since) % Interval = 0
         /\ IF c.inMeta /\ c.metaOffset > 0 THEN InText(c) ELSE Between(c)
ListenerHas(c) ==
    /\ c \in Mp3Client /\ c.at <= Len(queue) /\ c.pos <= Len(queue[c.at].data)
    /\ StreamOnly(c.got) = SentTo(c) /\ Framed(c.got) /\ Aligned(c)

(* All of it. *)
Mp3Inv == Mp3TypeOK /\ ReadParts /\ AtBlock /\ QueueHas /\ ListenerHas(client)

----------------------------------------------------------------------------
(* Counting bytes, and intervals *)

(* Multiples of a number. *)
LEMMA Multiples ==
    ASSUME NEW z \in Nat \ {0}, NEW x \in Nat, x % z = 0
    PROVE  (x + z) % z = 0 /\ \A j \in 1 .. z - 1 : (x + j) % z # 0
<1> DEFINE q == x \div z
<1>1. q \in Int /\ x = z * q
  OBVIOUS
<1> HIDE DEF q
<1>2. (x + z) % z = 0
  <2> DEFINE r == (x + z) % z
             p == (x + z) \div z
  <2>1. r \in 0 .. z - 1 /\ p \in Int /\ x + z = z * p + r
    OBVIOUS
  <2> HIDE DEF r, p
  <2>2. r = z * (q + 1 - p)
    BY <1>1, <2>1
  <2>3. q + 1 - p >= 1 => z * (q + 1 - p) >= z
    BY <1>1, <2>1
  <2>4. q + 1 - p <= -1 => z * (q + 1 - p) <= -z
    BY <1>1, <2>1
  <2>5. q + 1 - p = 0 => z * (q + 1 - p) = 0
    OBVIOUS
  <2>6. r = 0
    BY <1>1, <2>1, <2>2, <2>3, <2>4, <2>5
  <2> QED
    BY <2>6 DEF r
<1>3. ASSUME NEW j \in 1 .. z - 1, (x + j) % z = 0 PROVE FALSE
  <2> DEFINE p == (x + j) \div z
  <2>1. p \in Int /\ x + j = z * p
    BY <1>3
  <2> HIDE DEF p
  <2>2. j = z * (p - q)
    BY <1>1, <2>1
  <2>3. p - q >= 1 => z * (p - q) >= z
    BY <1>1, <2>1
  <2>4. p - q <= 0 => z * (p - q) <= 0
    BY <1>1, <2>1
  <2> QED
    BY <1>1, <2>1, <2>2, <2>3, <2>4
<1> QED
  BY <1>2, <1>3

(* How many bytes of the stream there are. *)
LEMMA CountType ==
    ASSUME NEW g, NEW k \in Nat
    PROVE  /\ StreamCount(g, k) \in Nat /\ IsFiniteSet({j \in 1 .. k : g[j].data})
           /\ k = 0 => StreamCount(g, k) = 0
<1> DEFINE A == {j \in 1 .. k : g[j].data}
<1>1. IsFiniteSet(1 .. k)
  BY FS_Interval
<1>2. A \in SUBSET (1 .. k)
  OBVIOUS
<1>3. k = 0 => A = {}
  OBVIOUS
<1> HIDE DEF A
<1>4. IsFiniteSet(A)
  BY <1>1, <1>2, FS_Subset
<1>5. Cardinality(A) \in Nat /\ (A = {} => Cardinality(A) = 0)
  BY <1>4, FS_CardinalityType, FS_EmptySet
<1> QED
  BY <1>3, <1>4, <1>5 DEF A, StreamCount

(* What follows a sequence does not change the count in it. *)
LEMMA CountBefore ==
    ASSUME NEW T, NEW g \in Seq(T), NEW d \in Seq(T), NEW h, h = g \o d, NEW k \in 0 .. Len(g)
    PROVE  StreamCount(h, k) = StreamCount(g, k)
<1>1. Len(g) \in Nat /\ \A p \in 1 .. Len(g) : h[p] = g[p]
  BY ONLY g \in Seq(T), d \in Seq(T), h = g \o d, Behind
<1>2. \A j \in 1 .. k : h[j] = g[j]
  BY <1>1
<1>3. {j \in 1 .. k : h[j].data} = {j \in 1 .. k : g[j].data}
  BY <1>2
<1> QED
  BY <1>3 DEF StreamCount

(* Bytes of the stream, and others, behind a sequence. *)
LEMMA CountBehind ==
    ASSUME NEW T, NEW g \in Seq(T), NEW d \in Seq(T), NEW h, h = g \o d, NEW k \in 0 .. Len(d)
    PROVE  /\ (\A i \in 1 .. Len(d) : d[i].data) =>
                 StreamCount(h, Len(g) + k) = StreamCount(g, Len(g)) + k
           /\ (\A i \in 1 .. Len(d) : ~d[i].data) =>
                 StreamCount(h, Len(g) + k) = StreamCount(g, Len(g))
<1> DEFINE n == Len(g)
           A == {j \in 1 .. n : g[j].data}
           B == n + 1 .. n + k
           C == {j \in 1 .. n + k : h[j].data}
<1>1. /\ n \in Nat /\ Len(d) \in Nat /\ \A p \in 1 .. n : h[p] = g[p]
      /\ \A i \in 1 .. Len(d) : h[n + i] = d[i]
  BY ONLY g \in Seq(T), d \in Seq(T), h = g \o d, Behind
<1>2. k \in Nat /\ \A i \in 1 .. k : i \in 1 .. Len(d)
  BY <1>1
<1> HIDE DEF n
<1>3. ASSUME NEW j \in 1 .. n + k PROVE j \in 1 .. n \/ (j \in B /\ j - n \in 1 .. k /\ n + (j - n) = j)
  BY <1>1, <1>2
<1>4. IsFiniteSet(A) /\ Cardinality(A) = StreamCount(g, n) /\ Cardinality(A) \in Nat
  BY <1>1, CountType DEF StreamCount
<1>5. ASSUME \A i \in 1 .. Len(d) : d[i].data
      PROVE  StreamCount(h, n + k) = StreamCount(g, n) + k
  <2>1. ASSUME NEW j \in B PROVE h[j].data /\ j \in 1 .. n + k
    <3>1. j - n \in 1 .. k /\ n + (j - n) = j /\ j \in 1 .. n + k
      BY <1>1, <1>2
    <3>2. h[j] = d[j - n] /\ d[j - n].data
      BY <1>1, <1>2, <1>5, <3>1
    <3> QED
      BY <3>1, <3>2
  <2>2. C = A \cup B
    <3>1. ASSUME NEW j \in 1 .. n PROVE j \in 1 .. n + k /\ h[j].data = g[j].data
      <4>1. j \in 1 .. n + k
        BY <1>1, <1>2
      <4> QED
        BY <1>1, <4>1
    <3> HIDE DEF B
    <3> QED
      BY <1>3, <2>1, <3>1
  <2>3. A \cap B = {}
    BY <1>1, <1>2
  <2>4. IsFiniteSet(B) /\ Cardinality(B) = k
    <3>1. n + 1 \in Int /\ n + k \in Int
      BY <1>1, <1>2
    <3>2. IsFiniteSet(B) /\ Cardinality(B) = IF n + 1 > n + k THEN 0 ELSE (n + k) - (n + 1) + 1
      BY <3>1, FS_Interval
    <3> HIDE DEF B
    <3> QED
      BY <1>1, <1>2, <3>2
  <2> HIDE DEF A, B, C
  <2>5. Cardinality(A \cup B) = Cardinality(A) + Cardinality(B) - Cardinality(A \cap B)
    BY <1>4, <2>4, FS_Union
  <2>6. Cardinality(A \cap B) = 0
    BY <2>3, FS_EmptySet
  <2>7. Cardinality(C) = Cardinality(A) + k
    BY <1>2, <1>4, <2>2, <2>4, <2>5, <2>6
  <2> QED
    BY <1>4, <2>7 DEF C, StreamCount
<1>6. ASSUME \A i \in 1 .. Len(d) : ~d[i].data
      PROVE  StreamCount(h, n + k) = StreamCount(g, n)
  <2>1. ASSUME NEW j \in B PROVE ~h[j].data
    <3>1. j - n \in 1 .. k /\ n + (j - n) = j /\ j \in 1 .. n + k
      BY <1>1, <1>2
    <3> QED
      BY <1>1, <1>2, <1>6, <3>1
  <2>2. C = A
    <3>1. ASSUME NEW j \in 1 .. n PROVE j \in 1 .. n + k /\ h[j].data = g[j].data
      <4>1. j \in 1 .. n + k
        BY <1>1, <1>2
      <4> QED
        BY <1>1, <4>1
    <3> HIDE DEF B
    <3> QED
      BY <1>3, <2>1, <3>1
  <2> HIDE DEF A, C
  <2> QED
    BY <1>4, <2>2 DEF C, StreamCount
<1> QED
  BY <1>5, <1>6 DEF n

(* Whether a byte fits does not depend on what follows. *)
LEMMA FitsBefore ==
    ASSUME NEW T, NEW g \in Seq(T), NEW d \in Seq(T), NEW h, h = g \o d, NEW i \in 2 .. Len(g)
    PROVE  Fits(h, i) <=> Fits(g, i)
<1>1. Len(g) \in Nat /\ \A p \in 1 .. Len(g) : h[p] = g[p]
  BY ONLY g \in Seq(T), d \in Seq(T), h = g \o d, Behind
<1>2. i \in 1 .. Len(g) /\ i - 1 \in 1 .. Len(g) /\ i - 1 \in 0 .. Len(g)
  BY <1>1
<1>3. h[i] = g[i] /\ h[i - 1] = g[i - 1]
  BY <1>1, <1>2
<1>4. StreamCount(h, i - 1) = StreamCount(g, i - 1)
  BY ONLY <1>2, g \in Seq(T), d \in Seq(T), h = g \o d, CountBefore
<1> QED
  BY <1>3, <1>4, Zenon DEF Fits

(* Bytes that fit behind a sequence. *)
Follows(g, d, h) ==
    /\ g = <<>> /\ d # <<>> => d[1].data
    /\ \A i \in 1 .. Len(d) : Len(g) + i > 1 => Fits(h, Len(g) + i)
    /\ \A i \in 1 .. Len(d) : ~d[i].data => d[i].meta <= Len(metas)

(* What is well framed stays so with bytes that fit behind it. *)
LEMMA FramedBehind ==
    ASSUME NEW T, NEW g \in Seq(T), NEW d \in Seq(T), NEW h, h = g \o d, Framed(g), Follows(g, d, h)
    PROVE  Framed(h)
<1> DEFINE n == Len(g)
           m == Len(d)
<1>1. /\ h \in Seq(T) /\ n \in Nat /\ m \in Nat /\ Len(h) = n + m
      /\ \A p \in 1 .. n : h[p] = g[p]
      /\ \A k \in 1 .. m : h[n + k] = d[k]
  BY ONLY g \in Seq(T), d \in Seq(T), h = g \o d, Behind
<1>2. /\ \A i \in 2 .. n : Fits(g, i)
      /\ g # <<>> => g[1].data
      /\ \A i \in 1 .. n : ~g[i].data => g[i].meta <= Len(metas)
  BY DEF Framed
<1>3. /\ g = <<>> /\ d # <<>> => d[1].data
      /\ \A i \in 1 .. m : n + i > 1 => Fits(h, n + i)
      /\ \A i \in 1 .. m : ~d[i].data => d[i].meta <= Len(metas)
  BY DEF Follows
<1>4. \A i \in 2 .. n : Fits(h, i) <=> Fits(g, i)
  BY ONLY g \in Seq(T), d \in Seq(T), h = g \o d, FitsBefore
<1>5. (g = <<>> <=> n = 0) /\ (d = <<>> <=> m = 0) /\ (h = <<>> <=> n + m = 0)
  BY <1>1
<1> HIDE DEF n, m
<1>6. ASSUME NEW i \in 1 .. n + m PROVE i \in 1 .. n \/ (i - n \in 1 .. m /\ n + (i - n) = i)
  BY <1>1
<1>7. ASSUME NEW i \in 2 .. n + m PROVE Fits(h, i)
  <2>1. CASE i \in 1 .. n
    <3>1. i \in 2 .. n
      BY <2>1
    <3> QED
      BY <1>2, <1>4, <3>1
  <2>2. CASE i \notin 1 .. n
    <3>1. i - n \in 1 .. m /\ n + (i - n) = i /\ i > 1
      BY <1>1, <2>2
    <3> QED
      BY <1>3, <3>1
  <2> QED
    BY <2>1, <2>2
<1>8. h # <<>> => h[1].data
  <2>1. CASE n = 0
    <3>1. h # <<>> => 1 \in 1 .. m /\ n + 1 = 1 /\ d # <<>>
      BY <1>1, <1>5, <2>1
    <3> QED
      BY <1>1, <1>3, <1>5, <2>1, <3>1
  <2>2. CASE n # 0
    <3>1. 1 \in 1 .. n
      BY <1>1, <2>2
    <3> QED
      BY <1>1, <1>2, <1>5, <2>2, <3>1
  <2> QED
    BY <2>1, <2>2
<1>9. ASSUME NEW i \in 1 .. n + m, ~h[i].data PROVE h[i].meta <= Len(metas)
  <2>1. CASE i \in 1 .. n
    BY <1>1, <1>2, <1>9, <2>1
  <2>2. CASE i \notin 1 .. n
    <3>1. i - n \in 1 .. m /\ n + (i - n) = i
      BY <1>6, <2>2
    <3>2. h[i] = d[i - n]
      BY <1>1, <3>1
    <3> QED
      BY <1>3, <1>9, <3>1, <3>2
  <2> QED
    BY <2>1, <2>2
<1> QED
  BY <1>1, <1>7, <1>8, <1>9 DEF Framed

(* Bytes of the stream fit behind a block, and up to the next. *)
DataFits(g, d, n) ==
    /\ \A i \in 1 .. Len(d) : d[i].data
    /\ n = StreamCount(g, Len(g))
    /\ g # <<>> /\ d # <<>> => IF LastByte(g).data THEN Interval = 0 \/ n % Interval # 0
                               ELSE BlockEnds(LastByte(g))
    /\ \A j \in 1 .. Len(d) - 1 : Interval = 0 \/ (n + j) % Interval # 0

(* Bytes of the stream fit up to the next block. *)
LEMMA FramedData ==
    ASSUME NEW g \in Seq(Sendable), NEW d \in Seq(Sendable), NEW h, h = g \o d, Framed(g),
           NEW n, DataFits(g, d, n)
    PROVE  Framed(h)
<1>0. /\ \A i \in 1 .. Len(d) : d[i].data
      /\ n = StreamCount(g, Len(g))
      /\ g # <<>> /\ d # <<>> => IF LastByte(g).data THEN Interval = 0 \/ n % Interval # 0
                                 ELSE BlockEnds(LastByte(g))
      /\ \A j \in 1 .. Len(d) - 1 : Interval = 0 \/ (n + j) % Interval # 0
  BY DEF DataFits
<1> DEFINE a == Len(g)
           b == Len(d)
<1>1. /\ h \in Seq(Sendable) /\ a \in Nat /\ b \in Nat /\ Len(h) = a + b
      /\ \A p \in 1 .. a : h[p] = g[p]
      /\ \A k \in 1 .. b : h[a + k] = d[k]
  BY ONLY g \in Seq(Sendable), d \in Seq(Sendable), h = g \o d, Behind
<1>2. \A k \in 0 .. b : (\A i \in 1 .. b : d[i].data) => StreamCount(h, a + k) = n + k
  <2>1. \A k \in 0 .. b : (\A i \in 1 .. b : d[i].data) => StreamCount(h, a + k) = StreamCount(g, a) + k
    BY ONLY g \in Seq(Sendable), d \in Seq(Sendable), h = g \o d, CountBehind
  <2> QED
    BY <1>0, <2>1
<1>3. (g = <<>> <=> a = 0) /\ (d = <<>> <=> b = 0) /\ LastByte(g) = g[a]
  BY <1>1 DEF LastByte
<1> HIDE DEF a, b
<1>4. n \in Nat
  BY <1>0, <1>1, CountType DEF a
<1>5. ASSUME NEW i \in 1 .. b, a + i > 1 PROVE Fits(h, a + i)
  <2>1. h[a + i].data
    BY <1>0, <1>1 DEF b
  <2>2. CASE i = 1
    <3>1. a \in 1 .. a /\ (a + i) - 1 = a /\ a # 0 /\ b # 0 /\ 0 \in 0 .. b /\ a + 0 = a /\ n + 0 = n
      BY <1>1, <1>4, <1>5, <2>2
    <3>2. h[a] = LastByte(g) /\ StreamCount(h, a) = n
      BY <1>0, <1>1, <1>2, <1>3, <3>1 DEF b
    <3>3. IF h[a].data THEN Interval = 0 \/ StreamCount(h, a) % Interval # 0 ELSE BlockEnds(h[a])
      BY <1>0, <1>3, <3>1, <3>2
    <3> QED
      BY <2>1, <3>1, <3>3 DEF Fits
  <2>3. CASE i # 1
    <3>1. i - 1 \in 1 .. b /\ i - 1 \in 0 .. b /\ i - 1 \in 1 .. b - 1 /\ (a + i) - 1 = a + (i - 1)
      BY <1>1, <2>3
    <3>2. h[a + (i - 1)].data /\ StreamCount(h, a + (i - 1)) = n + (i - 1)
      BY <1>0, <1>1, <1>2, <3>1 DEF b
    <3>3. Interval = 0 \/ (n + (i - 1)) % Interval # 0
      BY <1>0, <3>1 DEF b
    <3> QED
      BY <2>1, <3>1, <3>2, <3>3 DEF Fits
  <2> QED
    BY <2>2, <2>3
<1>6. d # <<>> => 1 \in 1 .. b
  BY <1>1, <1>3
<1>7. Follows(g, d, h)
  BY <1>0, <1>5, <1>6 DEF Follows, a, b
<1> QED
  BY ONLY <1>7, g \in Seq(Sendable), d \in Seq(Sendable), h = g \o d, Framed(g), FramedBehind

(* A byte of a block. *)
BlockByte(m, k) == [data |-> FALSE, meta |-> m, byte |-> k]

(* The fields of a byte of a block. *)
LEMMA BlockByteIs ==
    ASSUME NEW m \in Nat, NEW k \in Nat
    PROVE  /\ BlockByte(m, k) \in MetaByte
           /\ BlockByte(m, k).data = FALSE /\ BlockByte(m, k).meta = m /\ BlockByte(m, k).byte = k
<1>1. BlockByte(m, k) \in MetaByte
  BY DEF BlockByte, MetaByte
<1>2. BlockByte(m, k).data = FALSE /\ BlockByte(m, k).meta = m /\ BlockByte(m, k).byte = k
  BY DEF BlockByte
<1> QED
  BY <1>1, <1>2

(* The byte before it. *)
LEMMA ByteBefore ==
    ASSUME NEW m \in Nat, NEW k \in Nat
    PROVE  [BlockByte(m, k) EXCEPT !.byte = @ - 1] = BlockByte(m, k - 1)
<1> DEFINE x == BlockByte(m, k)
           y == [x EXCEPT !.byte = k - 1]
<1>1. x = [data |-> FALSE, meta |-> m, byte |-> k]
  BY DEF BlockByte
<1>2. x.byte = k /\ x.data = FALSE /\ x.meta = m
  BY <1>1
<1> HIDE DEF x
<1>3. [x EXCEPT !.byte = @ - 1] = y
  BY <1>2
<1>4. x \in [data : {FALSE}, meta : Nat, byte : Int] /\ k - 1 \in Int
  BY <1>1
<1>5. y \in [data : {FALSE}, meta : Nat, byte : Int]
  BY <1>4
<1>6. y.data = FALSE /\ y.meta = m /\ y.byte = k - 1
  BY <1>1, <1>2, <1>4
<1> HIDE DEF y
<1>7. y = [data |-> y.data, meta |-> y.meta, byte |-> y.byte]
  BY <1>5
<1>8. y = [data |-> FALSE, meta |-> m, byte |-> k - 1]
  BY <1>6, <1>7, Zenon
<1>9. y = BlockByte(m, k - 1)
  BY <1>8 DEF BlockByte
<1> QED
  BY <1>3, <1>9 DEF x

(* The bytes of a block fit behind the interval, or behind what was sent   *)
(* of it before.                                                           *)
BlockPart(d, m, from) ==
    \A i \in 1 .. Len(d) : d[i] = BlockByte(m, from + i - 1)

(* A block, or a part of it behind the part before, fits at its interval. *)
LEMMA FramedMeta ==
    ASSUME NEW g \in Seq(Sendable), NEW d \in Seq(Sendable), NEW h, h = g \o d, Framed(g),
           g # <<>>, NEW m \in Nat, m <= Len(metas), NEW from \in Nat, BlockPart(d, m, from),
           from = 0 => Len(d) <= 1,
           from <= 1 => /\ LastByte(g).data /\ Interval # 0
                        /\ StreamCount(g, Len(g)) % Interval = 0,
           from > 1 => LastByte(g) = BlockByte(m, from - 1)
    PROVE  Framed(h)
<1> DEFINE a == Len(g)
           b == Len(d)
<1>1. /\ h \in Seq(Sendable) /\ a \in Nat /\ b \in Nat /\ Len(h) = a + b
      /\ \A p \in 1 .. a : h[p] = g[p]
      /\ \A k \in 1 .. b : h[a + k] = d[k]
  BY ONLY g \in Seq(Sendable), d \in Seq(Sendable), h = g \o d, Behind
<1>2. 0 \in 0 .. a /\ a \in 0 .. a /\ StreamCount(h, a) = StreamCount(g, a)
  <2>1. a \in 0 .. a
    BY <1>1
  <2>2. \A k \in 0 .. a : StreamCount(h, k) = StreamCount(g, k)
    BY ONLY g \in Seq(Sendable), d \in Seq(Sendable), h = g \o d, CountBefore
  <2> QED
    BY <1>1, <2>1, <2>2
<1>3. a # 0 /\ LastByte(g) = g[a]
  BY <1>1 DEF LastByte
<1>4. \A i \in 1 .. b : d[i] = BlockByte(m, from + i - 1)
  BY DEF BlockPart
<1> HIDE DEF a, b
<1>5. ASSUME NEW i \in 1 .. b PROVE a + i > 1 /\ Fits(h, a + i)
  <2> DEFINE x == h[a + i]
             p == from + i - 1
             y == h[(a + i) - 1]
  <2>0. i \in Nat /\ i >= 1
    BY <1>1
  <2>1. p \in Nat /\ x = BlockByte(m, p) /\ a + i > 1
    <3>1. p \in Nat /\ a + i > 1
      BY <1>1, <1>3, <2>0
    <3> QED
      BY <1>1, <1>4, <3>1
  <2>2. Fits(h, a + i) <=> IF x.data THEN IF y.data THEN Interval = 0 \/ StreamCount(h, (a + i) - 1) % Interval # 0
                                          ELSE BlockEnds(y)
                           ELSE IF x.byte <= 1 THEN y.data /\ Interval # 0 /\ StreamCount(h, (a + i) - 1) % Interval = 0
                           ELSE y = [x EXCEPT !.byte = @ - 1]
    BY Zenon DEF Fits
  <2> HIDE DEF x
  <2>3. x.data = FALSE /\ x.byte = p /\ [x EXCEPT !.byte = @ - 1] = BlockByte(m, p - 1)
    <3> HIDE DEF p
    <3> QED
      BY <2>1, BlockByteIs, ByteBefore, Zenon
  <2>4. CASE i = 1
    <3>1. a \in 1 .. a /\ (a + i) - 1 = a /\ p = from
      BY <1>1, <1>3, <2>4
    <3>2. y = LastByte(g)
      BY <1>1, <1>3, <3>1
    <3>3. CASE from <= 1
      <4>1. y.data /\ Interval # 0 /\ StreamCount(h, a) % Interval = 0
        BY <1>2, <3>2, <3>3 DEF a
      <4> HIDE DEF y
      <4> QED
        BY <2>1, <2>2, <2>3, <3>1, <3>3, <4>1
    <3>4. CASE ~(from <= 1)
      <4>1. y = BlockByte(m, p - 1) /\ ~(p <= 1)
        BY <3>1, <3>2, <3>4
      <4> HIDE DEF y, p
      <4> QED
        BY <2>1, <2>2, <2>3, <4>1, Zenon
    <3> QED
      BY <3>3, <3>4
  <2>5. CASE i # 1
    <3>1. i - 1 \in 1 .. b /\ (a + i) - 1 = a + (i - 1) /\ i >= 2
      <4> HIDE DEF x, y, p
      <4> QED
        BY <1>1, <2>0, <2>5
    <3>2. from >= 1
      <4>1. b >= 2
        BY <1>1, <3>1
      <4> QED
        BY <4>1 DEF b
    <3>3. y = BlockByte(m, from + (i - 1) - 1)
      BY <1>1, <1>4, <3>1
    <3>4. from + (i - 1) - 1 = p - 1 /\ ~(p <= 1)
      BY <3>1, <3>2
    <3> HIDE DEF y, p
    <3> QED
      BY <2>1, <2>2, <2>3, <3>3, <3>4, Zenon
  <2> QED
    BY <2>1, <2>4, <2>5
<1>6. ASSUME NEW i \in 1 .. b PROVE d[i].data = FALSE /\ d[i].meta = m
  <2>1. from + i - 1 \in Nat /\ d[i] = BlockByte(m, from + i - 1)
    BY <1>1, <1>4
  <2> DEFINE p == from + i - 1
  <2> HIDE DEF p
  <2>2. p \in Nat /\ d[i] = BlockByte(m, p)
    BY <2>1 DEF p
  <2>3. BlockByte(m, p).data = FALSE /\ BlockByte(m, p).meta = m
    BY <2>2, BlockByteIs
  <2> QED
    BY <2>2, <2>3, Zenon
<1>7. Follows(g, d, h)
  <2>1. g # <<>>
    OBVIOUS
  <2> QED
    BY <1>5, <1>6, <2>1 DEF Follows, a, b
<1> QED
  BY ONLY <1>7, g \in Seq(Sendable), d \in Seq(Sendable), h = g \o d, Framed(g), FramedBehind

----------------------------------------------------------------------------
(* What is sent to a listener *)

(* The buffers of the queue. *)
LEMMA QueueIs ==
    ASSUME Mp3TypeOK, QueueHas
    PROVE  /\ Len(queue) \in Nat /\ QueueData \in Seq(Seq(StreamByte)) /\ Len(QueueData) = Len(queue)
           /\ \A i \in 1 .. Len(queue) : /\ QueueData[i] = queue[i].data
                                         /\ queue[i].data \in Seq(StreamByte)
                                         /\ queue[i].meta \in Nat /\ queue[i].meta <= Len(metas)
<1> DEFINE n == Len(queue)
<1>1. queue \in Seq(Mp3Buffer) /\ n \in Nat /\ DOMAIN queue = 1 .. n
  BY DEF Mp3TypeOK
<1>2. \A i \in 1 .. n : queue[i] \in Mp3Buffer
  BY <1>1
<1>3. \A i \in 1 .. n : queue[i].data \in Seq(StreamByte) /\ queue[i].meta \in Nat
  BY <1>2 DEF Mp3Buffer
<1>4. \A i \in 1 .. n : queue[i].meta <= Len(metas)
  BY DEF QueueHas
<1>5. QueueData = [i \in 1 .. n |-> queue[i].data]
  BY <1>1 DEF QueueData
<1> HIDE DEF n
<1> DEFINE f == QueueData
<1>6. f = [i \in 1 .. n |-> queue[i].data]
  BY <1>5
<1> HIDE DEF f
<1>7. f \in Seq(Seq(StreamByte)) /\ Len(f) = n /\ \A i \in 1 .. n : f[i] = queue[i].data
  BY <1>1, <1>3, <1>6
<1> QED
  BY <1>1, <1>3, <1>4, <1>7 DEF n, f

(* Bytes of the stream can be sent. *)
LEMMA StreamSendable ==
    ASSUME NEW d \in Seq(StreamByte)
    PROVE  d \in Seq(Sendable) /\ \A i \in 1 .. Len(d) : d[i].data
<1>1. Len(d) \in Nat /\ \A i \in 1 .. Len(d) : d[i] \in StreamByte
  OBVIOUS
<1>2. \A x \in StreamByte : x.data /\ x \in Sendable
  BY DEF StreamByte, Sendable
<1> QED
  BY <1>1, <1>2

(* The length of a buffer with metadata. *)
LEMMA MetaLenIs ==
    ASSUME Mp3TypeOK, NEW m \in Nat, m <= Len(metas)
    PROVE  MetaLen(m) \in Nat \ {0}
<1> DEFINE z == IF m = 0 THEN 1 ELSE metas[m].units
<1>1. Song
  BY SongOf DEF Mp3TypeOK
<1>2. \A x \in Titles : x.units \in Nat
  <2>1. \A b \in 1 .. BlockCount : blocks[b].units \in Nat
    BY <1>1 DEF Song
  <2>2. [text |-> "", units |-> 1].units = 1 /\ [text |-> "set", units |-> 1].units = 1
    OBVIOUS
  <2>3. ASSUME NEW x \in Titles
        PROVE  \/ x = [text |-> "", units |-> 1] \/ x = [text |-> "set", units |-> 1]
               \/ \E b \in 1 .. BlockCount : x = blocks[b]
    BY DEF Titles
  <2>4. ASSUME NEW x \in Titles PROVE x.units \in Nat
    <3>1. 1 \in Nat
      OBVIOUS
    <3> QED
      BY <2>1, <2>2, <2>3, <3>1, Zenon
  <2> QED
    BY <2>4
<1>3. m # 0 => metas[m] \in Titles
  BY DEF Mp3TypeOK
<1>4. z \in Nat
  BY <1>2, <1>3
<1>5. MetaLen(m) = BlockLen(z)
  BY DEF MetaLen
<1> HIDE DEF z
<1> QED
  BY <1>4, <1>5, BlockLenIs

(* What a listener has of a stream, and some bytes of it more. *)
Continues(a, p, k, g, d) ==
    /\ a \in 1 .. Len(queue) /\ p \in Nat /\ k \in Nat /\ p + k <= Len(queue[a].data)
    /\ g \in Seq(Sendable) /\ d = Part(queue[a].data, p, p + k)
    /\ StreamOnly(g) = FirstOf(QueueData, a - 1) \o Part(queue[a].data, 0, p)

(* Bytes of a buffer behind what was sent are the next ones of the queue. *)
LEMMA SentMore ==
    ASSUME Mp3TypeOK, QueueHas, NEW a, NEW p, NEW k, NEW g, NEW d, Continues(a, p, k, g, d)
    PROVE  /\ d \in Seq(StreamByte) /\ Len(d) = k /\ g \o d \in Seq(Sendable)
           /\ StreamOnly(g \o d) = FirstOf(QueueData, a - 1) \o Part(queue[a].data, 0, p + k)
<1>0. /\ a \in 1 .. Len(queue) /\ p \in Nat /\ k \in Nat /\ p + k <= Len(queue[a].data)
      /\ g \in Seq(Sendable) /\ d = Part(queue[a].data, p, p + k)
      /\ StreamOnly(g) = FirstOf(QueueData, a - 1) \o Part(queue[a].data, 0, p)
  BY DEF Continues
<1> DEFINE q == queue[a].data
           u == FirstOf(QueueData, a - 1)
           v == Part(q, 0, p)
           w == Part(q, 0, p + k)
<1>1. q \in Seq(StreamByte) /\ Len(q) \in Nat
  BY <1>0, QueueIs
<1>2. u \in Seq(StreamByte)
  <2>1. QueueData \in Seq(Seq(StreamByte)) /\ a - 1 \in 0 .. Len(QueueData)
    BY <1>0, QueueIs
  <2> QED
    BY <2>1, FirstStep
<1> HIDE DEF q, u
<1>3. Cuts(q, 0, p) /\ Cuts(q, p, p + k) /\ 0 \in Nat
  BY <1>0, <1>1 DEF Cuts, q
<1>4. d = Part(q, p, p + k)
  BY <1>0 DEF q
<1>5. d \in Seq(StreamByte) /\ Len(d) = (p + k) - p
  BY <1>1, <1>3, <1>4, PartIs
<1>6. v \in Seq(StreamByte) /\ v \o d = w
  BY <1>1, <1>3, <1>4, PartIs, PartsJoin
<1>7. d \in Seq(Sendable) /\ \A i \in 1 .. Len(d) : d[i].data
  BY <1>5, StreamSendable
<1>8. StreamOnly(d) = d
  BY <1>7, StreamAll
<1>9. StreamOnly(g \o d) = StreamOnly(g) \o d
  <2>1. g \in Seq(Sendable) /\ d \in Seq(Sendable)
    BY <1>0, <1>7
  <2>2. StreamOnly(g \o d) = StreamOnly(g) \o StreamOnly(d)
    BY ONLY <2>1, StreamConcat
  <2> QED
    BY <1>8, <2>2
<1>10. StreamOnly(g) = u \o v
  BY <1>0 DEF u, q
<1> HIDE DEF v, w
<1>11. (u \o v) \o d = u \o (v \o d)
  <2>1. u \in Seq(StreamByte) /\ v \in Seq(StreamByte) /\ d \in Seq(StreamByte)
    BY <1>2, <1>5, <1>6
  <2> QED
    BY ONLY <2>1, ConcatAssociative
<1>12. StreamOnly(g \o d) = u \o w
  BY <1>6, <1>9, <1>10, <1>11
<1>13. Len(d) = k /\ g \o d \in Seq(Sendable)
  BY <1>0, <1>5, <1>7
<1> QED
  BY <1>5, <1>12, <1>13 DEF u, w, q

(* client_send_bytes of the stream: the fields of the client. *)
SentData(c, s, n, k) ==
    /\ k = Least(n, s.left)
    /\ SendData(s, n).left = s.left - k /\ s.left - k \in Nat
    /\ SendData(s, n).full = (k < n)
    /\ SendData(s, n).client = [c EXCEPT !.pos = @ + k, !.since = @ + k,
                              !.got = @ \o Part(queue[c.at].data, c.pos, c.pos + k)]

(* The socket takes some of the bytes of the buffer. *)
LEMMA SendDataIs ==
    ASSUME NEW c \in Mp3Client, NEW s, s.client = c, s.left \in Nat, NEW n \in Nat
    PROVE  \E k \in 0 .. n : SentData(c, s, n, k)
<1> DEFINE k == Least(n, s.left)
           e == [c EXCEPT !.pos = @ + k, !.since = @ + k,
                              !.got = @ \o Part(queue[c.at].data, c.pos, c.pos + k)]
<1>1. k \in 0 .. n /\ s.left - k \in Nat
  BY DEF Least
<1>2. SendData(s, n) = [client |-> e, left |-> s.left - k, full |-> k < n]
  BY DEF SendData, Part
<1> HIDE DEF k, e
<1>3. SendData(s, n).client = e /\ SendData(s, n).left = s.left - k /\ SendData(s, n).full = (k < n)
  BY <1>2
<1>4. SentData(c, s, n, k)
  BY <1>1, <1>3 DEF SentData, k, e
<1> QED
  BY <1>1, <1>4

(* The client with more bytes of the stream. *)
Grown(c, e, k, d) ==
    /\ e.at = c.at /\ e.pos = c.pos + k /\ e.since = c.since + k /\ e.inMeta = c.inMeta
    /\ e.metaOffset = c.metaOffset /\ e.begun = c.begun /\ e.associated = c.associated
    /\ e.got = c.got \o d

(* The listener's fields after bytes of the stream were sent. *)
LEMMA GrownIs ==
    ASSUME NEW c \in Mp3Client, NEW k \in Nat, NEW d \in Seq(Sendable),
           NEW e, e = [c EXCEPT !.pos = @ + k, !.since = @ + k, !.got = @ \o d]
    PROVE  e \in Mp3Client /\ Grown(c, e, k, d)
<1>1. c.pos + k \in Nat /\ c.since + k \in Nat /\ c.got \o d \in Seq(Sendable)
  BY DEF Mp3Client
<1> DEFINE p == c.pos + k
           q == c.since + k
           g == c.got \o d
<1>2. e = [c EXCEPT !.pos = p, !.since = q, !.got = g]
  OBVIOUS
<1>3. p \in Nat /\ q \in Nat /\ g \in Seq(Sendable)
  BY <1>1
<1> HIDE DEF p, q, g
<1>4. e \in Mp3Client
  BY <1>2, <1>3 DEF Mp3Client
<1>5. /\ e.at = c.at /\ e.pos = p /\ e.since = q /\ e.inMeta = c.inMeta
      /\ e.metaOffset = c.metaOffset /\ e.begun = c.begun /\ e.associated = c.associated
      /\ e.got = g
  BY <1>2, <1>3 DEF Mp3Client
<1> QED
  BY <1>4, <1>5 DEF Grown, p, q, g

(* Bytes of the stream up to the next block keep the listener in step. *)
LEMMA AlignedGrows ==
    ASSUME NEW c \in Mp3Client, Framed(c.got), Aligned(c), ~c.inMeta,
           NEW k \in Nat, Interval = 0 \/ c.since + k <= Interval,
           NEW d \in Seq(Sendable), Len(d) = k, \A i \in 1 .. Len(d) : d[i].data,
           NEW e \in Mp3Client, Grown(c, e, k, d)
    PROVE  Framed(e.got) /\ Aligned(e)
<1> DEFINE g == c.got
           h == e.got
           x == StreamCount(g, Len(g))
           t == c.since
           z == Interval
<1>1. g \in Seq(Sendable) /\ h = g \o d /\ t \in Nat /\ z \in Nat /\ Len(g) \in Nat
  BY Mp3Assumption DEF Grown, Mp3Client
<1>2. /\ e.inMeta = FALSE /\ e.metaOffset = c.metaOffset /\ e.since = t + k
      /\ c.inMeta = FALSE
  BY DEF Grown, Mp3Client
<1>3. x \in Nat
  BY <1>1, CountType
<1> HIDE DEF g, h
<1>4. /\ h \in Seq(Sendable) /\ Len(h) = Len(g) + Len(d)
      /\ \A p \in 1 .. Len(g) : h[p] = g[p]
      /\ \A i \in 1 .. Len(d) : h[Len(g) + i] = d[i]
  <2>1. g \in Seq(Sendable)
    BY <1>1
  <2>2. h = g \o d
    BY <1>1
  <2> QED
    BY ONLY <2>1, <2>2, d \in Seq(Sendable), Behind
<1>5. StreamCount(h, Len(h)) = x + k
  <2>1. g \in Seq(Sendable) /\ h = g \o d
    BY <1>1
  <2>2. \A j \in 0 .. Len(d) : (\A i \in 1 .. Len(d) : d[i].data) =>
                 StreamCount(h, Len(g) + j) = StreamCount(g, Len(g)) + j
    BY ONLY <2>1, d \in Seq(Sendable), CountBehind
  <2>3. Len(d) \in 0 .. Len(d)
    OBVIOUS
  <2> QED
    BY <1>4, <2>2, <2>3
<1>6. k > 0 => h # <<>> /\ LastByte(h).data
  <2> SUFFICES ASSUME k > 0 PROVE h # <<>> /\ LastByte(h).data
    OBVIOUS
  <2>1. k \in 1 .. Len(d) /\ Len(h) = Len(g) + k
    BY <1>4
  <2>2. h[Len(g) + k] = d[k] /\ d[k].data
    BY <1>4, <2>1
  <2>3. h # <<>>
    BY <1>1, <1>4, <2>1
  <2> QED
    BY <2>1, <2>2, <2>3 DEF LastByte
<1>7. k = 0 => h = g
  <2>1. k = 0 => d = <<>>
    OBVIOUS
  <2>2. g \o <<>> = g
    BY <1>1, ConcatEmptySeq
  <2> QED
    BY <1>1, <2>1, <2>2
<1>8. d # <<>> => k > 0
  OBVIOUS
<1>9. CASE z = 0
  <2>1. g # <<>> => LastByte(g).data
    BY <1>9 DEF Aligned, g
  <2>2. Framed(h)
    <3>1. g \in Seq(Sendable) /\ h = g \o d /\ Framed(g)
      BY <1>1 DEF g
    <3>2. DataFits(g, d, x)
      BY <1>9, <2>1 DEF DataFits
    <3> QED
      BY ONLY <3>1, <3>2, d \in Seq(Sendable), FramedData
  <2>3. h # <<>> => LastByte(h).data
    <3>1. k = 0 \/ k > 0
      OBVIOUS
    <3> QED
      BY <1>6, <1>7, <2>1, <3>1
  <2>4. Aligned(e)
    BY <1>2, <1>9, <2>3 DEF Aligned, h
  <2> QED
    BY <2>2, <2>4 DEF h
<1>10. CASE z # 0
  <2> DEFINE y == x - t
  <2>1. t <= z /\ t <= x /\ y % z = 0 /\ Between(c)
    BY <1>2, <1>10 DEF Aligned, g
  <2>2. /\ c.metaOffset = 0
        /\ t > 0 => g # <<>> /\ LastByte(g).data
        /\ t = 0 /\ g # <<>> => ~LastByte(g).data /\ BlockEnds(LastByte(g))
    BY <2>1 DEF Between, g
  <2> HIDE DEF x, t, z
  <2>3. y \in Nat /\ z \in Nat \ {0} /\ t + k <= z
    BY <1>1, <1>3, <1>10, <2>1 DEF z, t
  <2> HIDE DEF y
  <2>4. \A j \in 1 .. z - 1 : (y + j) % z # 0
    BY <2>1, <2>3, Multiples
  <2>5. y + t = x /\ (x + k) - (t + k) = y /\ t + k <= x + k
    BY <1>1, <1>3, <2>1 DEF y
  <2>6. g # <<>> /\ d # <<>> => IF LastByte(g).data THEN z = 0 \/ x % z # 0
                                   ELSE BlockEnds(LastByte(g))
    <3> SUFFICES ASSUME g # <<>>, d # <<>>
                 PROVE  IF LastByte(g).data THEN z = 0 \/ x % z # 0 ELSE BlockEnds(LastByte(g))
      OBVIOUS
    <3>1. CASE t = 0
      BY <2>2, <3>1
    <3>2. CASE t # 0
      <4>1. t > 0 /\ t \in 1 .. z - 1
        BY <1>1, <1>8, <2>3, <3>2
      <4> QED
        BY <2>2, <2>4, <2>5, <4>1
    <3> QED
      BY <3>1, <3>2
  <2>7. \A j \in 1 .. Len(d) - 1 : z = 0 \/ (x + j) % z # 0
    <3>1. ASSUME NEW j \in 1 .. k - 1 PROVE (x + j) % z # 0
      <4>1. t + j \in 1 .. z - 1 /\ y + (t + j) = x + j
        BY <1>1, <1>3, <2>3, <2>5
      <4> QED
        BY <2>4, <4>1
    <3> QED
      BY <3>1
  <2>8. Framed(h)
    <3>1. g \in Seq(Sendable) /\ h = g \o d /\ Framed(g) /\ x = StreamCount(g, Len(g))
      BY <1>1 DEF g, x
    <3>2. DataFits(g, d, x)
      BY <2>6, <2>7, <3>1 DEF DataFits, z
    <3> QED
      BY ONLY <3>1, <3>2, d \in Seq(Sendable), FramedData
  <2>9. Between(e)
    <3>1. t + k > 0 => h # <<>> /\ LastByte(h).data
      <4>1. k > 0 \/ (k = 0 /\ t + k = t)
        BY <1>1
      <4> QED
        BY <1>6, <1>7, <2>2, <4>1
    <3>2. t + k = 0 /\ h # <<>> => ~LastByte(h).data /\ BlockEnds(LastByte(h))
      <4>1. t + k = 0 => k = 0 /\ t = 0
        BY <1>1
      <4> QED
        BY <1>7, <2>2, <4>1
    <3> QED
      BY <1>2, <2>2, <3>1, <3>2 DEF Between, h
  <2>10. Aligned(e)
    <3>1. t + k <= Interval /\ t + k <= x + k /\ ((x + k) - (t + k)) % Interval = 0 /\ Interval # 0
      BY <2>1, <2>3, <2>5 DEF z, y
    <3>2. e.since = t + k /\ StreamCount(e.got, Len(e.got)) = x + k
      BY <1>2, <1>5 DEF h
    <3> QED
      BY <1>2, <2>9, <3>1, <3>2 DEF Aligned
  <2> QED
    BY <2>8, <2>10 DEF h
<1> QED
  BY <1>9, <1>10

(* Bytes of the stream are sent. *)
LEMMA SendDataKeeps ==
    ASSUME Mp3TypeOK, QueueHas, NEW c, ListenerHas(c), ~c.inMeta, NEW s, s.client = c,
           s.left \in Nat, NEW n \in Nat, c.pos + n <= Len(queue[c.at].data),
           Interval = 0 \/ c.since + n <= Interval
    PROVE  LET r == SendData(s, n)
           IN  /\ ListenerHas(r.client) /\ ~r.client.inMeta /\ r.client.at = c.at
               /\ r.left \in Nat /\ r.full \in BOOLEAN
               /\ ~r.full => r.client.pos = c.pos + n /\ r.client.since = c.since + n
<1>1. /\ c \in Mp3Client /\ c.at \in 1 .. Len(queue) /\ c.pos \in Nat /\ c.got \in Seq(Sendable)
      /\ Framed(c.got) /\ Aligned(c)
      /\ StreamOnly(c.got) = FirstOf(QueueData, c.at - 1) \o Part(queue[c.at].data, 0, c.pos)
  <2>1. /\ c \in Mp3Client /\ c.at <= Len(queue) /\ Framed(c.got) /\ Aligned(c)
        /\ StreamOnly(c.got) = SentTo(c)
    BY DEF ListenerHas
  <2>2. c.at \in Nat \ {0} /\ c.pos \in Nat /\ c.got \in Seq(Sendable)
    BY <2>1 DEF Mp3Client
  <2>3. c.at \in 1 .. Len(queue)
    BY <2>1, <2>2, QueueIs
  <2> QED
    BY <2>1, <2>2, <2>3 DEF SentTo
<1> DEFINE a == c.at
           p == c.pos
           g == c.got
           q == queue[c.at].data
<1>2. PICK k \in 0 .. n : SentData(c, s, n, k)
  BY <1>1, SendDataIs
<1> DEFINE e == SendData(s, n).client
<1> DEFINE d == Part(queue[c.at].data, c.pos, c.pos + k)
<1>3. q \in Seq(StreamByte) /\ Len(q) \in Nat /\ k \in Nat
  BY <1>1, QueueIs
<1>4. p + k <= Len(q) /\ (Interval = 0 \/ c.since + k <= Interval) /\ c.since \in Nat
  <2>1. c.since \in Nat
    BY <1>1 DEF Mp3Client
  <2> DEFINE t == c.since
             l == Len(q)
  <2>2. p \in Nat /\ l \in Nat /\ p + n <= l /\ t \in Nat /\ (Interval = 0 \/ t + n <= Interval)
    BY <1>1, <1>3, <2>1
  <2> HIDE DEF p, l, t
  <2>3. p + k <= l
    BY <2>2
  <2>4. Interval = 0 \/ t + k <= Interval
    BY <2>2, Mp3Assumption
  <2> QED
    BY <2>1, <2>3, <2>4 DEF l, t
<1>5. /\ d \in Seq(StreamByte) /\ Len(d) = k /\ g \o d \in Seq(Sendable)
      /\ StreamOnly(g \o d) = FirstOf(QueueData, a - 1) \o Part(queue[a].data, 0, p + k)
  <2> HIDE DEF a, p, g
  <2>1. /\ a \in 1 .. Len(queue) /\ p \in Nat /\ k \in Nat /\ p + k <= Len(queue[a].data)
        /\ g \in Seq(Sendable) /\ d = Part(queue[a].data, p, p + k)
        /\ StreamOnly(g) = FirstOf(QueueData, a - 1) \o Part(queue[a].data, 0, p)
    BY <1>1, <1>3, <1>4 DEF a, p, g
  <2> HIDE DEF d
  <2>2. Continues(a, p, k, g, d)
    BY <2>1 DEF Continues
  <2> QED
    BY <2>2, SentMore
<1>6. d \in Seq(Sendable) /\ \A i \in 1 .. Len(d) : d[i].data
  BY <1>5, StreamSendable
<1>7. e = [c EXCEPT !.pos = @ + k, !.since = @ + k, !.got = @ \o d]
  BY <1>2 DEF SentData
<1> HIDE DEF d, e
<1>8. e \in Mp3Client /\ Grown(c, e, k, d)
  BY <1>1, <1>3, <1>6, <1>7, GrownIs
<1>9. Framed(e.got) /\ Aligned(e)
  BY <1>1, <1>3, <1>4, <1>5, <1>6, <1>8, AlignedGrows
<1>10. /\ e.at = c.at /\ e.pos = p + k /\ e.got = g \o d /\ e.inMeta = c.inMeta
       /\ e.since = c.since + k
  BY <1>8 DEF Grown
<1>11. ListenerHas(e)
  <2>1. e.at <= Len(queue) /\ e.pos <= Len(queue[e.at].data)
    BY <1>1, <1>4, <1>10
  <2>2. StreamOnly(e.got) = SentTo(e)
    BY <1>5, <1>10 DEF SentTo
  <2> QED
    BY <1>8, <1>9, <2>1, <2>2 DEF ListenerHas
<1>12. ~(k < n) => k = n
  OBVIOUS
<1> HIDE DEF p, g
<1>13. (k < n) \in BOOLEAN /\ (~(k < n) => e.pos = p + n /\ e.since = c.since + n)
  BY <1>10, <1>12
<1>14. SendData(s, n).client = e /\ SendData(s, n).left \in Nat /\ SendData(s, n).full = (k < n)
  BY <1>2 DEF SentData, e
<1> QED
  BY <1>10, <1>11, <1>13, <1>14 DEF p

(* The bytes of metadata that are to be sent. *)
Whole(c, m) == m = 0 \/ m # c.associated
From(c, m) == IF Whole(c, m) THEN c.metaOffset + 1 ELSE 0
Rest(c, m) == IF Whole(c, m) THEN MetaLen(m) - c.metaOffset ELSE 1
RestBytes(c, m) == IF Whole(c, m) THEN MetaBytes(m, ResumeAt(c), MetaLen(m)) ELSE ZeroByte(m)

(* What is left of a block are its bytes from the offset on. *)
LEMMA RestIs ==
    ASSUME NEW c \in Mp3Client, NEW m \in Nat, MetaLen(m) \in Nat, c.metaOffset < MetaLen(m)
    PROVE  /\ RestBytes(c, m) \in Seq(Sendable) /\ Len(RestBytes(c, m)) = Rest(c, m)
           /\ From(c, m) \in Nat /\ Rest(c, m) \in Nat \ {0}
           /\ \A i \in 1 .. Rest(c, m) : RestBytes(c, m)[i] = BlockByte(m, From(c, m) + i - 1)
<1> DEFINE o == c.metaOffset
           z == MetaLen(m)
           f == From(c, m)
           n == Rest(c, m)
           b == RestBytes(c, m)
<1>1. o \in Nat /\ z \in Nat /\ o < z
  BY DEF Mp3Client
<1>2. ASSUME NEW k \in Nat PROVE BlockByte(m, k) \in Sendable
  BY BlockByteIs DEF Sendable
<1>3. CASE Whole(c, m)
  <2>1. /\ f = o + 1 /\ n = z - o
        /\ b = [i \in 1 .. z - (o + 1) + 1 |-> BlockByte(m, (o + 1) + i - 1)]
    BY <1>3 DEF From, Rest, RestBytes, MetaBytes, ResumeAt, BlockByte
  <2> HIDE DEF o, z, f, n, b
  <2>2. f \in Nat /\ n \in Nat \ {0} /\ z - (o + 1) + 1 = n
    BY <1>1, <2>1
  <2>3. b = [i \in 1 .. n |-> BlockByte(m, f + i - 1)]
    BY <2>1, <2>2
  <2>4. \A i \in 1 .. n : BlockByte(m, f + i - 1) \in Sendable
    <3>1. \A i \in 1 .. n : f + i - 1 \in Nat
      BY <2>2
    <3> QED
      BY <1>2, <3>1
  <2>5. b \in Seq(Sendable) /\ Len(b) = n /\ \A i \in 1 .. n : b[i] = BlockByte(m, f + i - 1)
    BY <2>2, <2>3, <2>4
  <2> QED
    BY <2>2, <2>5 DEF f, n, b
<1>4. CASE ~Whole(c, m)
  <2>1. f = 0 /\ n = 1 /\ b = <<BlockByte(m, 0)>>
    BY <1>4 DEF From, Rest, RestBytes, ZeroByte, BlockByte
  <2> HIDE DEF f, n, b
  <2>2. BlockByte(m, 0) \in Sendable
    BY <1>2
  <2>3. b \in Seq(Sendable) /\ Len(b) = n /\ b[1] = BlockByte(m, 0)
    BY <2>1, <2>2
  <2>4. ASSUME NEW i \in 1 .. n PROVE b[i] = BlockByte(m, f + i - 1)
    <3>1. i = 1 /\ f + i - 1 = 0
      BY <2>1
    <3> QED
      BY <2>3, <3>1
  <2> QED
    BY <2>1, <2>3, <2>4 DEF f, n, b
<1> QED
  BY <1>3, <1>4

(* send_stream_metadata: as much of them as the socket takes. *)
SentMeta(c, s, m, k, d) ==
    /\ k \in 0 .. Rest(c, m) /\ d \in Seq(Sendable) /\ Len(d) = k
    /\ BlockPart(d, m, From(c, m))
    /\ SendMeta(s).left \in Nat /\ SendMeta(s).full = (k < Rest(c, m))
    /\ SendMeta(s).client = IF k = Rest(c, m)
                            THEN [c EXCEPT !.got = @ \o d, !.associated = m, !.metaOffset = 0,
                                           !.inMeta = FALSE, !.since = 0]
                            ELSE [c EXCEPT !.got = @ \o d, !.metaOffset = @ + k, !.begun = m,
                                           !.inMeta = TRUE]

(* The socket takes some of the block: it ends, or it is cut off. *)
LEMMA SendMetaIs ==
    ASSUME NEW c \in Mp3Client, NEW m \in Nat, m = queue[c.at].meta, MetaLen(m) \in Nat,
           c.metaOffset < MetaLen(m), NEW s, s.client = c, s.left \in Nat
    PROVE  \E k, d : SentMeta(c, s, m, k, d)
<1> DEFINE b == RestBytes(c, m)
           n == Rest(c, m)
           f == From(c, m)
           k == Least(Len(b), s.left)
           d == SubSeq(b, 1, k)
           sent == [c EXCEPT !.got = @ \o d]
           e == IF k = Len(b)
                THEN [sent EXCEPT !.associated = m, !.metaOffset = 0, !.inMeta = FALSE, !.since = 0]
                ELSE [sent EXCEPT !.metaOffset = @ + k, !.begun = m, !.inMeta = TRUE]
           w == IF k = n
                THEN [c EXCEPT !.got = @ \o d, !.associated = m, !.metaOffset = 0,
                               !.inMeta = FALSE, !.since = 0]
                ELSE [c EXCEPT !.got = @ \o d, !.metaOffset = @ + k, !.begun = m, !.inMeta = TRUE]
<1>1. SendMeta(s) = [client |-> e, left |-> s.left - k, full |-> k < Len(b)]
  BY DEF SendMeta, RestBytes, Whole
<1>2. /\ b \in Seq(Sendable) /\ Len(b) = n /\ f \in Nat /\ n \in Nat \ {0}
      /\ \A i \in 1 .. n : b[i] = BlockByte(m, f + i - 1)
  BY RestIs
<1>3. e = w
  <2>1. DOMAIN c = {"at", "pos", "since", "inMeta", "metaOffset", "begun", "associated", "got"}
    BY DEF Mp3Client
  <2> HIDE DEF k, d, b, n
  <2>2. CASE k = n
    BY <1>2, <2>1, <2>2
  <2>3. CASE k # n
    BY <1>2, <2>1, <2>3
  <2> QED
    BY <2>2, <2>3
<1>4. d = Part(b, 0, k)
  BY DEF Part
<1> HIDE DEF b, n, f, d, sent, e
<1>5. k \in 0 .. n /\ s.left - k \in Nat /\ Cuts(b, 0, k)
  BY <1>2 DEF Least, Cuts
<1> HIDE DEF k
<1>6. d \in Seq(Sendable) /\ Len(d) = k - 0 /\ \A i \in 1 .. k - 0 : d[i] = b[0 + i]
  BY <1>2, <1>4, <1>5, PartIs
<1>7. d \in Seq(Sendable) /\ Len(d) = k /\ BlockPart(d, m, f)
  <2>1. k - 0 = k /\ k \in Nat
    BY <1>2, <1>5
  <2>2. ASSUME NEW i \in 1 .. k PROVE d[i] = BlockByte(m, f + i - 1)
    <3>1. i \in 1 .. n /\ 0 + i = i
      BY <1>2, <1>5, <2>1
    <3> QED
      BY <1>2, <1>6, <2>1, <3>1
  <2> QED
    BY <1>6, <2>1, <2>2 DEF BlockPart
<1>8. SendMeta(s).client = w /\ SendMeta(s).left = s.left - k /\ SendMeta(s).full = (k < n)
  BY <1>1, <1>2, <1>3
<1>9. SentMeta(c, s, m, k, d)
  BY <1>5, <1>7, <1>8 DEF SentMeta, n, f
<1> QED
  BY <1>9

(* The client with a whole block, and with a part of one. *)
Ended(c, e, m, d) ==
    /\ e.at = c.at /\ e.pos = c.pos /\ e.since = 0 /\ e.inMeta = FALSE
    /\ e.metaOffset = 0 /\ e.begun = c.begun /\ e.associated = m
    /\ e.got = c.got \o d
CutOff(c, e, m, k, d) ==
    /\ e.at = c.at /\ e.pos = c.pos /\ e.since = c.since /\ e.inMeta = TRUE
    /\ e.metaOffset = c.metaOffset + k /\ e.begun = m /\ e.associated = c.associated
    /\ e.got = c.got \o d

(* The listener's fields after the end of a block. *)
LEMMA EndedIs ==
    ASSUME NEW c \in Mp3Client, NEW m \in Nat, NEW d \in Seq(Sendable),
           NEW e, e = [c EXCEPT !.got = @ \o d, !.associated = m, !.metaOffset = 0,
                                !.inMeta = FALSE, !.since = 0]
    PROVE  e \in Mp3Client /\ Ended(c, e, m, d)
<1> DEFINE g == c.got \o d
<1>1. g \in Seq(Sendable)
  BY DEF Mp3Client
<1>2. e = [c EXCEPT !.got = g, !.associated = m, !.metaOffset = 0, !.inMeta = FALSE, !.since = 0]
  OBVIOUS
<1> HIDE DEF g
<1>3. e \in Mp3Client
  <2> DEFINE a == [c EXCEPT !.got = g, !.associated = m]
             b == [a EXCEPT !.metaOffset = 0, !.inMeta = FALSE, !.since = 0]
  <2>1. a \in Mp3Client
    BY <1>1 DEF Mp3Client
  <2>2. e = b
    BY <1>2
  <2> HIDE DEF a
  <2>3. b \in Mp3Client
    BY <2>1 DEF Mp3Client
  <2> QED
    BY <2>2, <2>3
<1>4. /\ e.at = c.at /\ e.pos = c.pos /\ e.since = 0 /\ e.inMeta = FALSE
      /\ e.metaOffset = 0 /\ e.begun = c.begun /\ e.associated = m
      /\ e.got = g
  BY <1>2 DEF Mp3Client
<1> QED
  BY <1>3, <1>4 DEF Ended, g

(* The listener's fields when a block is cut off. *)
LEMMA CutOffIs ==
    ASSUME NEW c \in Mp3Client, NEW m \in Nat, NEW k \in Nat, NEW d \in Seq(Sendable),
           NEW e, e = [c EXCEPT !.got = @ \o d, !.metaOffset = @ + k, !.begun = m,
                                !.inMeta = TRUE]
    PROVE  e \in Mp3Client /\ CutOff(c, e, m, k, d)
<1> DEFINE g == c.got \o d
           p == c.metaOffset + k
<1>1. g \in Seq(Sendable) /\ p \in Nat
  BY DEF Mp3Client
<1>2. e = [c EXCEPT !.got = g, !.metaOffset = p, !.begun = m, !.inMeta = TRUE]
  OBVIOUS
<1> HIDE DEF g, p
<1>3. e \in Mp3Client
  BY <1>1, <1>2 DEF Mp3Client
<1>4. /\ e.at = c.at /\ e.pos = c.pos /\ e.since = c.since /\ e.inMeta = TRUE
      /\ e.metaOffset = p /\ e.begun = m /\ e.associated = c.associated
      /\ e.got = g
  BY <1>2 DEF Mp3Client
<1> QED
  BY <1>3, <1>4 DEF CutOff, g, p

(* A block is due, or the rest of one. *)
Due(c, m) ==
    /\ Interval # 0 /\ c.since = Interval /\ m \in Nat /\ m <= Len(metas)
    /\ c.inMeta /\ c.metaOffset > 0 => c.begun = m

(* When a block is due the listener is at its start, or in this block. *)
LEMMA DueIs ==
    ASSUME NEW c \in Mp3Client, Aligned(c), NEW m, Due(c, m), Mp3TypeOK
    PROVE  /\ c.metaOffset < MetaLen(m) /\ MetaLen(m) \in Nat /\ c.got # <<>>
           /\ StreamCount(c.got, Len(c.got)) \in Nat
           /\ StreamCount(c.got, Len(c.got)) % Interval = 0
           /\ c.metaOffset = 0 => LastByte(c.got).data
           /\ c.metaOffset > 0 => LastByte(c.got) = BlockByte(m, c.metaOffset) /\ Whole(c, m)
                                  /\ c.begun = m
<1> DEFINE g == c.got
           x == StreamCount(g, Len(g))
           z == Interval
           o == c.metaOffset
<1>1. /\ z \in Nat \ {0} /\ c.since = z /\ m \in Nat /\ m <= Len(metas)
      /\ (c.inMeta /\ o > 0 => c.begun = m) /\ o \in Nat /\ g \in Seq(Sendable) /\ Len(g) \in Nat
  BY Mp3Assumption DEF Due, Mp3Client
<1>2. /\ z <= x /\ (x - z) % z = 0 /\ (IF c.inMeta /\ o > 0 THEN InText(c) ELSE Between(c))
  BY <1>1 DEF Aligned
<1>3. x \in Nat
  BY <1>1, CountType
<1>4. MetaLen(m) \in Nat \ {0}
  BY <1>1, MetaLenIs
<1>5. x % z = 0
  <2> HIDE DEF x, z
  <2> DEFINE y == x - z
  <2>1. y \in Nat /\ y % z = 0 /\ y + z = x
    BY <1>1, <1>2, <1>3
  <2> HIDE DEF y
  <2>2. (y + z) % z = 0
    BY <1>1, <2>1, Multiples
  <2> QED
    BY <2>1, <2>2
<1>6. CASE c.inMeta /\ o > 0
  <2>1. g # <<>> /\ LastByte(g) = BlockByte(m, o) /\ o < MetaLen(m) /\ Whole(c, m) /\ c.begun = m
    <3>1. InText(c) /\ c.begun = m
      BY <1>1, <1>2, <1>6
    <3>2. /\ g # <<>> /\ LastByte(g) = BlockByte(c.begun, o) /\ o < MetaLen(c.begun)
          /\ c.begun = 0 \/ c.begun # c.associated
      BY <3>1 DEF InText, BlockByte
    <3> QED
      BY <3>1, <3>2, Zenon DEF Whole
  <2>2. o # 0
    BY <1>6
  <2> QED
    BY <1>3, <1>4, <1>5, <2>1, <2>2
<1>7. CASE ~(c.inMeta /\ o > 0)
  <2>1. o = 0 /\ g # <<>> /\ LastByte(g).data
    BY <1>1, <1>2, <1>7 DEF Between
  <2>2. o < MetaLen(m) /\ ~(o > 0)
    BY <1>4, <2>1
  <2> QED
    BY <1>3, <1>4, <1>5, <2>1, <2>2
<1> QED
  BY <1>6, <1>7

(* What a listener has got with bytes of a block behind it. *)
MetaBehind(c, h, m, k) ==
    /\ h \in Seq(Sendable) /\ h # <<>> /\ Framed(h) /\ StreamOnly(h) = StreamOnly(c.got)
    /\ StreamCount(h, Len(h)) = StreamCount(c.got, Len(c.got))
    /\ k > 0 => LastByte(h) = BlockByte(m, From(c, m) + k - 1)
    /\ k = 0 => h = c.got

(* What a listener got is well framed with the block behind it. *)
LEMMA MetaBehindIs ==
    ASSUME Mp3TypeOK, NEW c \in Mp3Client, Framed(c.got), Aligned(c), NEW m, Due(c, m),
           NEW k, NEW s, NEW d, SentMeta(c, s, m, k, d), NEW h, h = c.got \o d
    PROVE  MetaBehind(c, h, m, k)
<1> DEFINE g == c.got
           x == StreamCount(g, Len(g))
           o == c.metaOffset
           f == From(c, m)
<1>1. /\ o < MetaLen(m) /\ MetaLen(m) \in Nat /\ g # <<>> /\ x \in Nat /\ x % Interval = 0
      /\ o = 0 => LastByte(g).data
      /\ o > 0 => LastByte(g) = BlockByte(m, o) /\ Whole(c, m)
  BY DueIs
<1>2. m \in Nat /\ m <= Len(metas) /\ Interval # 0
  BY DEF Due
<1>3. o \in Nat /\ g \in Seq(Sendable)
  BY DEF Mp3Client
<1>4. f \in Nat /\ Rest(c, m) \in Nat \ {0} /\ (f = IF Whole(c, m) THEN o + 1 ELSE 0)
      /\ (~Whole(c, m) => Rest(c, m) = 1)
  BY <1>1, <1>2, RestIs DEF From, Rest
<1>5. k \in 0 .. Rest(c, m) /\ d \in Seq(Sendable) /\ Len(d) = k /\ BlockPart(d, m, f)
  BY DEF SentMeta
<1> HIDE DEF g, x, o, f
<1>6. /\ h \in Seq(Sendable) /\ Len(g) \in Nat /\ Len(h) = Len(g) + Len(d)
      /\ \A i \in 1 .. Len(d) : h[Len(g) + i] = d[i]
  <2>1. g \in Seq(Sendable) /\ d \in Seq(Sendable) /\ h = g \o d
    BY <1>3, <1>5 DEF g
  <2> QED
    BY ONLY <2>1, Behind
<1>7. \A i \in 1 .. Len(d) : d[i].data = FALSE /\ d[i] = BlockByte(m, f + i - 1)
  <2>1. \A i \in 1 .. k : f + i - 1 \in Nat
    BY <1>4, <1>5
  <2>2. \A i \in 1 .. k : d[i] = BlockByte(m, f + i - 1)
    BY <1>5 DEF BlockPart
  <2>3. ASSUME NEW i \in 1 .. k PROVE d[i].data = FALSE
    <3> DEFINE p == f + i - 1
    <3>1. p \in Nat /\ d[i] = BlockByte(m, p)
      BY <2>1, <2>2
    <3> HIDE DEF p
    <3>2. BlockByte(m, p).data = FALSE
      BY <1>2, <3>1, BlockByteIs
    <3> QED
      BY <3>1, <3>2
  <2> QED
    BY <1>5, <2>2, <2>3
<1>8. StreamCount(h, Len(h)) = x
  <2>1. g \in Seq(Sendable) /\ d \in Seq(Sendable) /\ h = g \o d
    BY <1>3, <1>5 DEF g
  <2>2. \A j \in 0 .. Len(d) : (\A i \in 1 .. Len(d) : ~d[i].data) =>
                 StreamCount(h, Len(g) + j) = StreamCount(g, Len(g))
    BY ONLY <2>1, CountBehind
  <2>3. Len(d) \in 0 .. Len(d)
    BY <1>5
  <2> QED
    BY <1>6, <1>7, <2>2, <2>3 DEF x
<1>9. StreamOnly(h) = StreamOnly(g)
  <2>1. g \in Seq(Sendable) /\ d \in Seq(Sendable) /\ h = g \o d
    BY <1>3, <1>5 DEF g
  <2>2. StreamOnly(g \o d) = StreamOnly(g) \o StreamOnly(d)
    BY ONLY <2>1, StreamConcat
  <2>3. (\A i \in 1 .. Len(d) : ~d[i].data) => StreamOnly(d) = <<>>
    BY ONLY <2>1, StreamAll
  <2>4. StreamOnly(g) \in Seq(Sendable)
    BY ONLY <2>1, StreamType
  <2>5. StreamOnly(g) \o <<>> = StreamOnly(g)
    BY <2>4, ConcatEmptySeq
  <2> QED
    BY <1>7, <2>1, <2>2, <2>3, <2>5
<1>10. Framed(h)
  <2>1. g \in Seq(Sendable) /\ d \in Seq(Sendable) /\ h = g \o d /\ Framed(g) /\ g # <<>>
    BY <1>1, <1>3, <1>5 DEF g
  <2>2. f = 0 => Len(d) <= 1
    BY <1>3, <1>4, <1>5
  <2>3. f <= 1 => /\ LastByte(g).data /\ Interval # 0 /\ StreamCount(g, Len(g)) % Interval = 0
    <3>1. f <= 1 => o = 0
      BY <1>1, <1>3, <1>4
    <3> QED
      BY <1>1, <1>2, <3>1 DEF x
  <2>4. f > 1 => LastByte(g) = BlockByte(m, f - 1)
    <3>1. f > 1 => o > 0 /\ f - 1 = o
      BY <1>3, <1>4
    <3> QED
      BY <1>1, <3>1
  <2> QED
    BY <1>2, <1>4, <1>5, <2>1, <2>2, <2>3, <2>4, FramedMeta
<1>11. k > 0 => LastByte(h) = BlockByte(m, f + k - 1)
  <2> SUFFICES ASSUME k > 0 PROVE LastByte(h) = BlockByte(m, f + k - 1)
    OBVIOUS
  <2>1. k \in 1 .. Len(d) /\ Len(h) = Len(g) + k
    BY <1>5, <1>6
  <2> QED
    BY <1>6, <1>7, <2>1 DEF LastByte
<1>12. k = 0 => h = g
  <2>1. k = 0 => d = <<>>
    BY <1>5
  <2>2. g \o <<>> = g
    BY <1>3, ConcatEmptySeq
  <2> QED
    BY <2>1, <2>2 DEF g
<1>13. h # <<>>
  <2>1. Len(g) # 0
    BY <1>1, <1>3
  <2> QED
    BY <1>5, <1>6, <2>1
<1> QED
  BY <1>6, <1>8, <1>9, <1>10, <1>11, <1>12, <1>13 DEF MetaBehind, g, x, f

(* The block is complete, or is to be continued. *)
LEMMA AlignedEnded ==
    ASSUME Mp3TypeOK, NEW c \in Mp3Client, Aligned(c), NEW m, Due(c, m),
           NEW k, k = Rest(c, m), NEW h, MetaBehind(c, h, m, k), NEW d,
           NEW e \in Mp3Client, Ended(c, e, m, d), e.got = h
    PROVE  Aligned(e)
<1> DEFINE x == StreamCount(h, Len(h))
           o == c.metaOffset
           p == From(c, m) + k - 1
<1>1. /\ o < MetaLen(m) /\ MetaLen(m) \in Nat /\ x \in Nat /\ x % Interval = 0
  BY DueIs DEF MetaBehind
<1>2. m \in Nat /\ Interval \in Nat \ {0} /\ o \in Nat
  BY Mp3Assumption DEF Due, Mp3Client
<1>3. k \in Nat \ {0} /\ p = IF Whole(c, m) THEN MetaLen(m) ELSE 0
  <2> DEFINE z == MetaLen(m)
  <2>1. CASE Whole(c, m)
    <3>1. p = (o + 1) + (z - o) - 1 /\ k = z - o
      BY <2>1 DEF From, Rest
    <3>2. z \in Nat /\ o < z
      BY <1>1
    <3> HIDE DEF z, o, p
    <3>3. p = z /\ k \in Nat \ {0}
      BY <1>2, <3>1, <3>2
    <3> QED
      BY <2>1, <3>3 DEF z
  <2>2. CASE ~Whole(c, m)
    BY <2>2 DEF From, Rest
  <2> QED
    BY <2>1, <2>2
<1>4. LastByte(h) = BlockByte(m, p)
  BY <1>3 DEF MetaBehind
<1> HIDE DEF p
<1>5. p \in Nat
  BY <1>1, <1>3
<1>6. LastByte(h).data = FALSE /\ LastByte(h).meta = m /\ LastByte(h).byte = p
  <2>1. BlockByte(m, p).data = FALSE /\ BlockByte(m, p).meta = m /\ BlockByte(m, p).byte = p
    BY <1>2, <1>5, BlockByteIs
  <2> QED
    BY <1>4, <2>1
<1>7. BlockEnds(LastByte(h))
  BY <1>3, <1>6, Zenon DEF BlockEnds
<1>8. e.since = 0 /\ e.inMeta = FALSE /\ e.metaOffset = 0
  BY DEF Ended
<1>9. Between(e)
  BY <1>6, <1>7, <1>8 DEF Between
<1>10. 0 <= Interval /\ 0 <= x /\ (x - 0) % Interval = 0
  <2> HIDE DEF x
  <2>1. x - 0 = x
    BY <1>1
  <2> QED
    BY <1>1, <1>2, <2>1
<1> QED
  BY <1>2, <1>8, <1>9, <1>10 DEF Aligned

(* A block that is cut off goes on where the listener's offset says. *)
LEMMA AlignedCutOff ==
    ASSUME Mp3TypeOK, NEW c \in Mp3Client, Aligned(c), NEW m, Due(c, m),
           NEW k \in Nat, k < Rest(c, m), NEW h, MetaBehind(c, h, m, k), NEW d,
           NEW e \in Mp3Client, CutOff(c, e, m, k, d), e.got = h
    PROVE  Aligned(e)
<1> DEFINE x == StreamCount(h, Len(h))
           o == c.metaOffset
           z == MetaLen(m)
<1>1. /\ o < z /\ z \in Nat /\ x \in Nat /\ x % Interval = 0
      /\ (o = 0 => LastByte(c.got).data)
      /\ (o > 0 => LastByte(c.got) = BlockByte(m, o) /\ Whole(c, m))
  BY DueIs DEF MetaBehind
<1>2. m \in Nat /\ m <= Len(metas) /\ Interval \in Nat \ {0} /\ o \in Nat /\ c.since = Interval
  BY Mp3Assumption DEF Due, Mp3Client
<1>3. /\ e.since = Interval /\ e.inMeta = TRUE /\ e.metaOffset = o + k /\ e.begun = m
      /\ e.associated = c.associated
  BY <1>2 DEF CutOff
<1>4. Interval <= x /\ (x - Interval) % Interval = 0
  BY <1>2 DEF Aligned, MetaBehind
<1>5. h # <<>> /\ (k = 0 => h = c.got)
      /\ (k > 0 => LastByte(h) = BlockByte(m, From(c, m) + k - 1))
  BY DEF MetaBehind
<1>6. CASE o + k = 0
  <2>1. k = 0 /\ o = 0
    BY <1>2, <1>6
  <2>2. LastByte(h).data
    BY <1>1, <1>5, <2>1
  <2>3. Between(e)
    BY <1>2, <1>3, <1>5, <1>6, <2>2 DEF Between
  <2>4. ~(e.inMeta /\ e.metaOffset > 0)
    BY <1>3, <1>6
  <2> QED
    BY <1>2, <1>3, <1>4, <2>3, <2>4 DEF Aligned
<1>7. CASE o + k # 0
  <2>1. Whole(c, m)
    <3>1. CASE o > 0
      BY <1>1, <3>1
    <3>2. CASE ~(o > 0)
      <4>1. k > 0
        BY <1>2, <1>7, <3>2
      <4> QED
        BY <4>1 DEF Rest
    <3> QED
      BY <3>1, <3>2
  <2>2. From(c, m) = o + 1 /\ Rest(c, m) = z - o
    BY <2>1 DEF From, Rest
  <2> HIDE DEF o, z
  <2>3. o + k < z /\ (o + 1) + k - 1 = o + k /\ o + k > 0 /\ o + k \in Nat
    BY <1>1, <1>2, <1>7, <2>2
  <2>4. LastByte(h) = BlockByte(m, o + k)
    <3>1. CASE k = 0
      <4>1. o > 0 /\ o + k = o
        BY <1>2, <1>7, <3>1
      <4> QED
        BY <1>1, <1>5, <3>1, <4>1
    <3>2. CASE k # 0
      <4>1. k > 0
        BY <3>2
      <4> QED
        BY <1>5, <2>2, <2>3, <4>1
    <3> QED
      BY <3>1, <3>2
  <2>5. InText(e)
    <3>1. LastByte(e.got) = BlockByte(e.begun, e.metaOffset)
      BY <1>3, <2>4
    <3>2. e.metaOffset < MetaLen(e.begun) /\ e.begun <= Len(metas) /\ e.got # <<>>
      BY <1>2, <1>3, <1>5, <2>3 DEF z
    <3>3. e.begun = 0 \/ e.begun # e.associated
      BY <1>3, <2>1, Zenon DEF Whole
    <3> QED
      BY <1>3, <3>1, <3>2, <3>3 DEF InText, BlockByte
  <2>6. e.inMeta /\ e.metaOffset > 0
    BY <1>3, <2>3
  <2> QED
    BY <1>2, <1>3, <1>4, <2>5, <2>6 DEF Aligned
<1> QED
  BY <1>6, <1>7

(* Bytes of a block are sent. *)
LEMMA SendMetaKeeps ==
    ASSUME Mp3TypeOK, QueueHas, NEW c, ListenerHas(c), Due(c, queue[c.at].meta),
           NEW s, s.client = c, s.left \in Nat
    PROVE  LET r == SendMeta(s)
           IN  /\ ListenerHas(r.client) /\ r.client.at = c.at /\ r.client.pos = c.pos
               /\ r.left \in Nat /\ r.full \in BOOLEAN
               /\ ~r.full => ~r.client.inMeta /\ r.client.since = 0
<1> DEFINE m == queue[c.at].meta
           e == SendMeta(s).client
<1>1. /\ c \in Mp3Client /\ c.at <= Len(queue) /\ c.pos <= Len(queue[c.at].data)
      /\ Framed(c.got) /\ Aligned(c) /\ StreamOnly(c.got) = SentTo(c)
  BY DEF ListenerHas
<1>2. m \in Nat /\ Due(c, m) /\ m = queue[c.at].meta
  BY DEF Due
<1> HIDE DEF m, e
<1>3. c.metaOffset < MetaLen(m) /\ MetaLen(m) \in Nat
  BY <1>1, <1>2, DueIs
<1>4. PICK k, d : SentMeta(c, s, m, k, d)
  BY <1>1, <1>2, <1>3, SendMetaIs
<1> DEFINE h == c.got \o d
<1>5. MetaBehind(c, h, m, k)
  BY <1>1, <1>2, <1>4, MetaBehindIs
<1>6. Rest(c, m) \in Nat \ {0}
  BY <1>1, <1>2, <1>3, RestIs
<1>7. /\ k \in Nat /\ k <= Rest(c, m) /\ d \in Seq(Sendable)
      /\ SendMeta(s).left \in Nat /\ SendMeta(s).full = (k < Rest(c, m))
  BY <1>4, <1>6 DEF SentMeta
<1>8. e = IF k = Rest(c, m)
          THEN [c EXCEPT !.got = @ \o d, !.associated = m, !.metaOffset = 0,
                         !.inMeta = FALSE, !.since = 0]
          ELSE [c EXCEPT !.got = @ \o d, !.metaOffset = @ + k, !.begun = m, !.inMeta = TRUE]
  BY <1>4 DEF SentMeta, e
<1>9. /\ e \in Mp3Client /\ Aligned(e) /\ e.got = h /\ e.at = c.at /\ e.pos = c.pos
      /\ k = Rest(c, m) => ~e.inMeta /\ e.since = 0
  <2>1. CASE k = Rest(c, m)
    <3>1. e \in Mp3Client /\ Ended(c, e, m, d)
      BY <1>1, <1>2, <1>7, <1>8, <2>1, EndedIs
    <3>2. e.got = h /\ e.at = c.at /\ e.pos = c.pos /\ ~e.inMeta /\ e.since = 0
      BY <3>1 DEF Ended
    <3> HIDE DEF h
    <3>3. Aligned(e)
      BY <1>1, <1>2, <1>5, <2>1, <3>1, <3>2, AlignedEnded
    <3> QED
      BY <3>1, <3>2, <3>3
  <2>2. CASE k # Rest(c, m)
    <3>1. e \in Mp3Client /\ CutOff(c, e, m, k, d)
      BY <1>1, <1>2, <1>7, <1>8, <2>2, CutOffIs
    <3>2. e.got = h /\ e.at = c.at /\ e.pos = c.pos
      BY <3>1 DEF CutOff
    <3>3. k < Rest(c, m)
      BY <1>6, <1>7, <2>2
    <3> HIDE DEF h
    <3>4. Aligned(e)
      BY <1>1, <1>2, <1>5, <1>7, <3>1, <3>2, <3>3, AlignedCutOff
    <3> QED
      BY <2>2, <3>1, <3>2, <3>4
  <2> QED
    BY <2>1, <2>2
<1>10. Framed(h) /\ StreamOnly(h) = StreamOnly(c.got)
  BY <1>5 DEF MetaBehind
<1> HIDE DEF h
<1>11. ListenerHas(e)
  <2>1. SentTo(e) = SentTo(c)
    BY <1>9 DEF SentTo
  <2> QED
    BY <1>1, <1>9, <1>10, <2>1 DEF ListenerHas
<1>12. SendMeta(s).full \in BOOLEAN /\ (~SendMeta(s).full => k = Rest(c, m))
  <2>1. ~(k < Rest(c, m)) => k = Rest(c, m)
    BY <1>6, <1>7
  <2>2. (k < Rest(c, m)) \in BOOLEAN
    BY <1>6, <1>7
  <2> QED
    BY <1>7, <2>1, <2>2, Zenon
<1> QED
  BY <1>7, <1>9, <1>11, <1>12 DEF e

(* format_mp3_write_buf_to_client: all that is sent at a time. *)
LEMMA WrittenKeeps ==
    ASSUME Mp3TypeOK, QueueHas, NEW c, ListenerHas(c), ~Tears(c), NEW left \in Nat
    PROVE  ListenerHas(Written(c, left).client)
<1> DEFINE len == Len(queue[c.at].data) - c.pos
           start == [client |-> c, left |-> left, full |-> FALSE]
           first == IF c.inMeta THEN SendMeta(start) ELSE start
           remaining == Interval - first.client.since
           second == SendData(first, remaining)
           third == SendMeta(second)
           fourth == SendData(third, Least(len - remaining, Interval))
           fifth == SendData(first, len)
<1>1. /\ c \in Mp3Client /\ c.at \in 1 .. Len(queue) /\ c.pos <= Len(queue[c.at].data)
      /\ c.pos \in Nat /\ Len(queue[c.at].data) \in Nat /\ Aligned(c)
  <2>1. c \in Mp3Client /\ c.at <= Len(queue) /\ c.pos <= Len(queue[c.at].data) /\ Aligned(c)
    BY DEF ListenerHas
  <2>2. c.at \in Nat \ {0} /\ c.pos \in Nat
    BY <2>1 DEF Mp3Client
  <2>3. c.at \in 1 .. Len(queue)
    BY <2>1, <2>2, QueueIs
  <2>4. queue[c.at].data \in Seq(StreamByte)
    BY <2>3, QueueIs
  <2> QED
    BY <2>1, <2>2, <2>3, <2>4
<1>2. queue[c.at].meta \in Nat /\ queue[c.at].meta <= Len(metas)
  BY <1>1, QueueIs
<1>3. start.client = c /\ start.left \in Nat /\ start.full = FALSE
  OBVIOUS
<1>4. Written(c, left) = IF first.full THEN first
        ELSE IF Interval = 0 \/ remaining > len THEN fifth
        ELSE IF second.full THEN second
        ELSE IF third.full THEN third
        ELSE fourth
  BY DEF Written
<1> HIDE DEF start
<1>5. len \in Nat /\ Interval \in Nat
  BY <1>1, Mp3Assumption
<1>6. ASSUME NEW e, ListenerHas(e)
      PROVE  /\ e.since \in Nat /\ e.pos \in Nat /\ e.got \in Seq(Sendable) /\ Aligned(e)
             /\ Interval # 0 => e.since <= Interval
             /\ ~e.inMeta /\ Interval # 0 => e.metaOffset = 0
  BY <1>6 DEF ListenerHas, Mp3Client, Aligned, Between
<1>7. /\ ListenerHas(first.client) /\ first.client.at = c.at /\ first.client.pos = c.pos
      /\ first.left \in Nat /\ first.full \in BOOLEAN /\ (~first.full => ~first.client.inMeta)
  <2>1. CASE ~c.inMeta
    BY <1>3, <2>1
  <2>2. CASE c.inMeta
    <3>1. Interval # 0
      BY <1>1, <2>2 DEF Aligned
    <3>2. c.since = Interval
      BY <1>1, <2>2, <3>1 DEF Aligned, InText, Between
    <3>3. Due(c, queue[c.at].meta)
      BY <1>2, <2>2, <3>1, <3>2 DEF Due, Tears
    <3>4. first = SendMeta(start)
      BY <2>2
    <3> HIDE DEF first
    <3> QED
      BY <1>3, <3>3, <3>4, SendMetaKeeps
  <2> QED
    BY <2>1, <2>2
<1> HIDE DEF first, len
<1> DEFINE e == first.client
           l == Len(queue[c.at].data)
<1>8. /\ e.since \in Nat /\ (Interval # 0 => e.since <= Interval)
      /\ e.pos = c.pos /\ len = l - c.pos
  BY <1>6, <1>7 DEF len
<1>9. ASSUME ~first.full, Interval = 0 \/ remaining > len
      PROVE  ListenerHas(fifth.client)
  <2>1. e.pos + len <= Len(queue[e.at].data)
    BY <1>1, <1>7, <1>8
  <2>2. Interval = 0 \/ e.since + len <= Interval
    BY <1>5, <1>8, <1>9
  <2> QED
    BY <1>5, <1>7, <1>9, <2>1, <2>2, SendDataKeeps
<1>10. ASSUME ~first.full, ~(Interval = 0 \/ remaining > len)
       PROVE  /\ ListenerHas(second.client) /\ ~second.client.inMeta /\ second.client.at = c.at
              /\ second.left \in Nat /\ second.full \in BOOLEAN
              /\ ~second.full => second.client.pos = c.pos + remaining /\ second.client.since = Interval
              /\ remaining \in Nat /\ remaining <= len
  <2>1. remaining \in Nat /\ remaining <= len
    BY <1>5, <1>8, <1>10
  <2>2. e.pos + remaining <= Len(queue[e.at].data)
    BY <1>1, <1>7, <1>8, <2>1
  <2>3. e.since + remaining = Interval /\ e.since + remaining <= Interval
    BY <1>5, <1>8
  <2> HIDE DEF e, remaining
  <2>4. LET r == SendData(first, remaining)
           IN  /\ ListenerHas(r.client) /\ ~r.client.inMeta /\ r.client.at = e.at
               /\ r.left \in Nat /\ r.full \in BOOLEAN
               /\ ~r.full => r.client.pos = e.pos + remaining /\ r.client.since = e.since + remaining
    <3>1. ListenerHas(e) /\ ~e.inMeta /\ first.client = e /\ first.left \in Nat
      BY <1>7, <1>10 DEF e
    <3> QED
      BY <2>1, <2>2, <2>3, <3>1, SendDataKeeps
  <2>5. e.at = c.at /\ e.pos = c.pos
    BY <1>7 DEF e
  <2> QED
    BY <2>1, <2>3, <2>4, <2>5
<1> HIDE DEF second, remaining
<1>11. ASSUME ~first.full, ~(Interval = 0 \/ remaining > len), ~second.full
       PROVE  /\ ListenerHas(third.client) /\ third.client.at = c.at
              /\ third.client.pos = c.pos + remaining
              /\ third.left \in Nat /\ third.full \in BOOLEAN
              /\ ~third.full => ~third.client.inMeta /\ third.client.since = 0
  <2> DEFINE b == second.client
  <2>1. /\ ListenerHas(b) /\ ~b.inMeta /\ b.at = c.at /\ b.pos = c.pos + remaining
        /\ b.since = Interval /\ second.left \in Nat /\ second.client = b
    BY <1>10, <1>11
  <2> HIDE DEF b
  <2>2. Due(b, queue[b.at].meta)
    BY <1>2, <1>11, <2>1 DEF Due
  <2> QED
    BY <2>1, <2>2, SendMetaKeeps
<1> HIDE DEF third
<1>12. ASSUME ~first.full, ~(Interval = 0 \/ remaining > len), ~second.full, ~third.full
       PROVE  ListenerHas(fourth.client)
  <2> DEFINE b == third.client
             n == Least(len - remaining, Interval)
  <2>1. /\ ListenerHas(b) /\ ~b.inMeta /\ b.at = c.at /\ b.pos = c.pos + remaining
        /\ b.since = 0 /\ third.left \in Nat /\ third.client = b
    BY <1>11, <1>12
  <2>2. remaining \in Nat /\ remaining <= len
    BY <1>10, <1>12
  <2>3. n \in Nat /\ n <= len - remaining /\ n <= Interval
    BY <1>5, <2>2 DEF Least
  <2> HIDE DEF b, n
  <2>4. b.pos + n <= Len(queue[b.at].data)
    <3> DEFINE t == c.pos
    <3>1. t \in Nat /\ l \in Nat /\ len = l - t
      BY <1>1, <1>8
    <3>2. b.pos = t + remaining /\ Len(queue[b.at].data) = l
      BY <2>1
    <3> HIDE DEF t, l
    <3>3. (t + remaining) + n <= l
      BY <1>5, <2>2, <2>3, <3>1
    <3> QED
      BY <3>2, <3>3
  <2>5. b.since + n <= Interval
    BY <1>5, <2>1, <2>3
  <2>6. ListenerHas(SendData(third, n).client)
    BY <2>1, <2>3, <2>4, <2>5, SendDataKeeps
  <2> QED
    BY <2>6 DEF n
<1> HIDE DEF fourth, fifth
<1>13. CASE first.full
  BY <1>4, <1>7, <1>13
<1>14. CASE ~first.full /\ (Interval = 0 \/ remaining > len)
  BY <1>4, <1>9, <1>14
<1>15. CASE ~first.full /\ ~(Interval = 0 \/ remaining > len) /\ second.full
  BY <1>4, <1>10, <1>15
<1>16. CASE ~first.full /\ ~(Interval = 0 \/ remaining > len) /\ ~second.full /\ third.full
  BY <1>4, <1>11, <1>16
<1>17. CASE ~first.full /\ ~(Interval = 0 \/ remaining > len) /\ ~second.full /\ ~third.full
  BY <1>4, <1>12, <1>17
<1> QED
  BY <1>13, <1>14, <1>15, <1>16, <1>17

(* format_advance_queue: the next buffer, when all of this one was sent. *)
LEMMA AdvancedKeeps ==
    ASSUME Mp3TypeOK, QueueHas, NEW c, ListenerHas(c), Exhausted(c) => c.at < Len(queue)
    PROVE  ListenerHas(Advanced(c))
<1>1. CASE ~Exhausted(c)
  BY <1>1 DEF Advanced
<1>2. CASE Exhausted(c)
  <2> DEFINE e == [c EXCEPT !.at = @ + 1, !.pos = 0]
             a == c.at
             q == queue[a].data
             f == QueueData
  <2>1. Advanced(c) = e
    BY <1>2 DEF Advanced
  <2>2. /\ c \in Mp3Client /\ Framed(c.got) /\ Aligned(c) /\ StreamOnly(c.got) = SentTo(c)
        /\ c.pos = Len(q)
    BY <1>2 DEF ListenerHas, Exhausted
  <2>3. e \in Mp3Client
    <3> DEFINE b == c.at + 1
    <3>1. b \in Nat \ {0} /\ 0 \in Nat
      BY <2>2 DEF Mp3Client
    <3>2. e = [c EXCEPT !.at = b, !.pos = 0]
      OBVIOUS
    <3> HIDE DEF b
    <3> QED
      BY <2>2, <3>1, <3>2 DEF Mp3Client
  <2>4. /\ e.at = a + 1 /\ e.pos = 0 /\ e.since = c.since /\ e.inMeta = c.inMeta
        /\ e.metaOffset = c.metaOffset /\ e.begun = c.begun /\ e.associated = c.associated
        /\ e.got = c.got
    BY <2>2 DEF Mp3Client
  <2> HIDE DEF e
  <2>5. Aligned(e)
    BY <2>2, <2>4 DEF Aligned, InText, Between
  <2>6. a \in 1 .. Len(queue) /\ a + 1 \in 1 .. Len(queue) /\ (a + 1) - 1 = a /\ a # 0
    <3>1. a \in Nat \ {0} /\ a < Len(queue) /\ Len(queue) \in Nat
      BY <1>2, <2>2, QueueIs DEF Mp3Client
    <3> QED
      BY <3>1
  <2>7. /\ f \in Seq(Seq(StreamByte)) /\ Len(f) = Len(queue) /\ f[a] = q /\ q \in Seq(StreamByte)
        /\ queue[a + 1].data \in Seq(StreamByte)
    BY <2>6, QueueIs
  <2>8. FirstOf(f, a) = FirstOf(f, a - 1) \o q /\ FirstOf(f, a) \in Seq(StreamByte)
    <3>1. a \in 0 .. Len(f)
      BY <2>6, <2>7
    <3> QED
      BY <2>6, <2>7, <3>1, FirstStep
  <2>9. Part(q, 0, Len(q)) = q /\ Part(queue[a + 1].data, 0, 0) = <<>>
    <3>1. 0 \in Nat
      OBVIOUS
    <3> QED
      BY <2>7, <3>1, PartWhole
  <2>10. SentTo(c) = FirstOf(f, a)
    BY <2>2, <2>8, <2>9 DEF SentTo
  <2>11. SentTo(e) = FirstOf(f, a) \o <<>>
    BY <2>4, <2>6, <2>9 DEF SentTo
  <2>12. FirstOf(f, a) \o <<>> = FirstOf(f, a)
    BY <2>8, ConcatEmptySeq
  <2>13. e.at <= Len(queue) /\ e.pos <= Len(queue[e.at].data)
    <3>1. Len(queue[a + 1].data) \in Nat
      BY <2>7
    <3> QED
      BY <2>4, <2>6, <3>1
  <2>14. ListenerHas(e)
    BY <2>2, <2>3, <2>4, <2>5, <2>10, <2>11, <2>12, <2>13 DEF ListenerHas
  <2> QED
    BY <2>1, <2>14
<1> QED
  BY <1>1, <1>2

(* The listener is served. *)
LEMMA WriteKeeps ==
    ASSUME Mp3Inv, NEW left \in 0 .. BufSize + 2, WriteToClient(left)
    PROVE  Mp3Inv'
<1>1. Mp3TypeOK /\ QueueHas /\ ReadParts /\ AtBlock /\ ListenerHas(client)
  BY DEF Mp3Inv
<1>2. left \in Nat
  BY Mp3Assumption
<1> DEFINE c == Advanced(client)
<1>3. ListenerHas(c)
  BY <1>1, AdvancedKeeps DEF WriteToClient
<1>4. /\ blocks' = blocks /\ taken' = taken /\ readData' = readData /\ work' = work /\ kept' = kept
      /\ filtering' = filtering /\ offset' = offset /\ build' = build /\ metas' = metas
      /\ metadata' = metadata /\ update' = update /\ updates' = updates /\ queue' = queue
      /\ stopped' = stopped
  BY DEF WriteToClient, sourceReads
<1>5. client' = client \/ (~Tears(c) /\ client' = Written(c, left).client)
  BY DEF WriteToClient
<1> HIDE DEF c
<1>6. ListenerHas(client')
  BY <1>1, <1>2, <1>3, <1>5, WrittenKeeps
<1>7. client' \in Mp3Client
  BY <1>6 DEF ListenerHas
<1>8. Mp3TypeOK'
  BY <1>1, <1>4, <1>7 DEF Mp3TypeOK, Titles, BlockCount
<1>9. ReadParts'
  BY <1>1, <1>4 DEF ReadParts, ReadTo, Place, SourceBytes, BytesTo, BytesOf
<1>10. AtBlock'
  BY <1>1, <1>4 DEF AtBlock, InBlock, TitleAt, Texts, Place, ReadTo, Ends, Extent, BytesTo, BytesOf, BlockCount
<1>11. QueueHas'
  BY <1>1, <1>4 DEF QueueHas, QueueData, Place, ReadTo, SourceBytes, BytesTo, BytesOf
<1>12. ListenerHas(client)'
  BY <1>4, <1>6 DEF ListenerHas, SentTo, QueueData, Framed, Fits, BlockEnds, MetaLen, Aligned, InText, Between
<1> QED
  BY <1>8, <1>9, <1>10, <1>11, <1>12 DEF Mp3Inv

----------------------------------------------------------------------------
(* Steps of the source do not change what a listener has got *)

(* Buffers and metadata are only added. *)
Extended ==
    /\ blocks' = blocks /\ client' = client
    /\ Len(metas) <= Len(metas)' /\ \A m \in 1 .. Len(metas) : metas'[m] = metas[m]
    /\ Len(queue) <= Len(queue)' /\ \A i \in 1 .. Len(queue) : queue'[i] = queue[i]

(* The length of a block that a buffer refers to does not change. *)
LEMMA MetaLenStays ==
    ASSUME Mp3TypeOK, Extended, NEW m \in Nat, m <= Len(metas)
    PROVE  MetaLen(m)' = MetaLen(m) /\ m <= Len(metas)'
<1>1. Len(metas) \in Nat /\ Len(metas) <= Len(metas)' /\ \A k \in 1 .. Len(metas) : metas'[k] = metas[k]
  BY DEF Mp3TypeOK, Extended
<1>2. m <= Len(metas)'
  <2>1. Len(metas)' \in Nat
    OBVIOUS
  <2> QED
    BY <1>1, <2>1
<1>3. m # 0 => m \in 1 .. Len(metas)
  BY <1>1
<1>4. m # 0 => metas'[m] = metas[m]
  BY <1>1, <1>3
<1> QED
  BY <1>2, <1>4 DEF MetaLen

(* What was well framed stays so when titles and buffers are added. *)
LEMMA FramedStays ==
    ASSUME Mp3TypeOK, Extended, NEW g \in Seq(Sendable), Framed(g)
    PROVE  /\ Framed(g)'
           /\ \A i \in 1 .. Len(g) : ~g[i].data => BlockEnds(g[i])' = BlockEnds(g[i])
<1> DEFINE n == Len(g)
<1>1. /\ n \in Nat /\ (\A i \in 2 .. n : Fits(g, i)) /\ (g # <<>> => g[1].data)
      /\ \A i \in 1 .. n : ~g[i].data => g[i].meta <= Len(metas)
  BY DEF Framed
<1>2. \A x \in Sendable : ~x.data => x.meta \in Nat
  BY DEF Sendable, StreamByte, MetaByte
<1>3. ASSUME NEW i \in 1 .. n, ~g[i].data
      PROVE  g[i].meta <= Len(metas)' /\ MetaLen(g[i].meta)' = MetaLen(g[i].meta)
  <2> DEFINE m == g[i].meta
  <2>1. m \in Nat /\ m <= Len(metas)
    BY <1>1, <1>2, <1>3
  <2> HIDE DEF m
  <2>2. MetaLen(m)' = MetaLen(m) /\ m <= Len(metas)'
    BY <2>1, MetaLenStays
  <2> QED
    BY <2>2 DEF m
<1>4. ASSUME NEW i \in 1 .. n, ~g[i].data PROVE BlockEnds(g[i])' = BlockEnds(g[i])
  <2>1. MetaLen(g[i].meta)' = MetaLen(g[i].meta)
    BY <1>3, <1>4
  <2> QED
    BY <2>1 DEF BlockEnds
<1>5. ASSUME NEW i \in 2 .. n PROVE Fits(g, i)'
  <2>1. Fits(g, i) /\ i - 1 \in 1 .. n
    BY <1>1
  <2>2. ~g[i - 1].data => BlockEnds(g[i - 1])' = BlockEnds(g[i - 1])
    BY <1>4, <2>1
  <2>3. StreamCount(g, i - 1)' = StreamCount(g, i - 1)
    BY DEF StreamCount
  <2> QED
    BY <2>1, <2>2, <2>3 DEF Fits
<1>6. Framed(g)'
  BY <1>1, <1>3, <1>5 DEF Framed
<1> QED
  BY <1>4, <1>6

(* What the source does leaves what a listener has got in place. *)
LEMMA ListenerStays ==
    ASSUME Mp3TypeOK, Extended, QueueHas, ListenerHas(client),
           Mp3TypeOK', QueueHas'
    PROVE  ListenerHas(client)'
<1> DEFINE g == client.got
           a == client.at
<1>1. /\ client \in Mp3Client /\ a <= Len(queue) /\ client.pos <= Len(queue[a].data)
      /\ StreamOnly(g) = SentTo(client) /\ Framed(g) /\ Aligned(client)
  BY DEF ListenerHas
<1>2. client' = client /\ Mp3Client' = Mp3Client
  BY DEF Extended, Mp3Client
<1>3. a \in 1 .. Len(queue) /\ g \in Seq(Sendable) /\ client.metaOffset \in Nat /\ client.begun \in Nat
  BY <1>1, QueueIs DEF Mp3Client
<1>4. queue'[a] = queue[a] /\ a <= Len(queue)'
  <2>1. Len(queue) \in Nat /\ Len(queue)' \in Nat /\ Len(queue) <= Len(queue)'
    BY QueueIs DEF Extended
  <2> HIDE DEF a
  <2> QED
    BY <1>3, <2>1 DEF Extended
<1>5. SentTo(client)' = SentTo(client)
  <2> DEFINE f == QueueData
             h == QueueData'
  <2>1. /\ Len(queue) \in Nat
        /\ \A i \in 1 .. Len(queue) : f[i] = queue[i].data
    BY QueueIs
  <2>2. /\ Len(queue)' \in Nat
        /\ \A i \in 1 .. Len(queue)' : h[i] = queue'[i].data
    <3>1. \A i \in 1 .. Len(queue)' : QueueData'[i] = queue'[i].data
      <4>1. queue' \in Seq(Mp3Buffer') /\ DOMAIN queue' = 1 .. Len(queue)'
        BY DEF Mp3TypeOK
      <4>2. QueueData' = [i \in 1 .. Len(queue)' |-> queue'[i].data]
        BY <4>1 DEF QueueData
      <4> QED
        BY <4>2
    <3> QED
      BY <3>1
  <2>3. ASSUME NEW i \in 1 .. a - 1 PROVE f[i] = h[i]
    <3>1. i \in 1 .. Len(queue) /\ i \in 1 .. Len(queue)'
      BY <1>3, <1>4, <2>1, <2>2
    <3>2. queue'[i] = queue[i]
      BY <3>1 DEF Extended
    <3> QED
      BY <2>1, <2>2, <3>1, <3>2
  <2> HIDE DEF f, h, a
  <2>4. [i \in 1 .. a - 1 |-> f[i]] = [i \in 1 .. a - 1 |-> h[i]]
    BY <2>3
  <2>5. FirstOf(f, a - 1) = FirstOf(h, a - 1)
    BY <2>4 DEF FirstOf
  <2>6. SentTo(client) = FirstOf(f, a - 1) \o Part(queue[a].data, 0, client.pos)
    BY DEF SentTo, f, a
  <2>7. SentTo(client)' = FirstOf(h, a - 1) \o Part(queue'[a].data, 0, client.pos)
    BY <1>2 DEF SentTo, h, a, FirstOf, Part
  <2> QED
    BY <1>4, <2>5, <2>6, <2>7
<1>6. Framed(g)' /\ \A i \in 1 .. Len(g) : ~g[i].data => BlockEnds(g[i])' = BlockEnds(g[i])
  <2> HIDE DEF g
  <2>1. g' = g
    BY <1>2 DEF g
  <2> QED
    BY <1>1, <1>2, <1>3, <2>1, FramedStays
<1>7. Aligned(client)'
  <2>1. StreamCount(g, Len(g))' = StreamCount(g, Len(g))
    BY <1>2 DEF StreamCount
  <2>2. InText(client) => InText(client)'
    <3> SUFFICES ASSUME InText(client) PROVE InText(client)'
      OBVIOUS
    <3> DEFINE b == client.begun
    <3>1. b <= Len(metas) /\ b \in Nat
      BY <1>3 DEF InText
    <3> HIDE DEF b
    <3>2. MetaLen(b)' = MetaLen(b) /\ b <= Len(metas)'
      BY <1>2, <3>1, MetaLenStays DEF b
    <3> QED
      BY <1>2, <3>2 DEF InText, LastByte, b
  <2>3. Between(client) => Between(client)'
    <3> SUFFICES ASSUME Between(client) PROVE Between(client)'
      OBVIOUS
    <3>1. g # <<>> => Len(g) \in 1 .. Len(g)
      BY <1>3
    <3>2. g # <<>> /\ ~LastByte(g).data => BlockEnds(LastByte(g))' = BlockEnds(LastByte(g))
      BY <1>2, <1>6, <3>1 DEF LastByte
    <3> QED
      BY <1>2, <3>2 DEF Between, LastByte
  <2> QED
    BY <1>1, <1>2, <2>1, <2>2, <2>3 DEF Aligned, LastByte
<1> QED
  BY <1>1, <1>2, <1>4, <1>5, <1>6, <1>7 DEF ListenerHas, StreamOnly

----------------------------------------------------------------------------
(* The filter of the source *)

(* The stream does not change. *)
LEMMA BlocksStay ==
    ASSUME blocks' = blocks
    PROVE  /\ SourceBytes' = SourceBytes /\ BlockCount' = BlockCount /\ Titles' = Titles
           /\ \A b : Ends(b)' = Ends(b) /\ Extent(b)' = Extent(b) /\ Texts(b)' = Texts(b)
           /\ \A B : TitleAt(B)' = TitleAt(B)
BY DEF SourceBytes, BytesTo, BytesOf, BlockCount, Titles, Ends, Extent, Texts, TitleAt

(* The bytes of the source are those of all its blocks. *)
LEMMA SourceType ==
    ASSUME Song
    PROVE  SourceBytes \in Seq(SourceByte) /\ Len(SourceBytes) \in Nat /\ Ends(BlockCount) = Len(SourceBytes)
<1>1. BlockCount \in 0 .. BlockCount
  BY DEF Song
<1>2. SourceBytes \in Seq(SourceByte)
  BY <1>1, BytesToIs DEF SourceBytes, BlockCount
<1> QED
  BY <1>2 DEF Ends, SourceBytes, BlockCount

(* Where the filter is in what the source sends. *)
LEMMA PlaceIs ==
    ASSUME Mp3TypeOK, ReadParts, ~stopped
    PROVE  /\ Song /\ SourceBytes \in Seq(SourceByte) /\ Len(SourceBytes) \in Nat
           /\ Place \in Nat /\ ReadTo \in Nat /\ taken \in Nat /\ Len(work) \in Nat
           /\ Place + Len(work) = ReadTo /\ ReadTo <= taken /\ taken <= Len(SourceBytes)
           /\ Cuts(SourceBytes, 0, Place) /\ Cuts(SourceBytes, Place, ReadTo)
           /\ work = Part(SourceBytes, Place, ReadTo)
           /\ \A k \in 1 .. Len(work) : work[k] = SourceBytes[Place + k]
<1> DEFINE S == SourceBytes
           p == Place
           r == ReadTo
           n == Len(work)
<1>1. Song
  BY SongOf DEF Mp3TypeOK
<1>2. S \in Seq(SourceByte) /\ Len(S) \in Nat
  BY <1>1, SourceType
<1>3. work \in Seq(SourceByte) /\ n \in Nat
  BY DEF Mp3TypeOK
<1>4. Cuts(S, r, taken) /\ Cuts(S, p, r) /\ work = Part(S, p, r)
  BY DEF ReadParts
<1>5. p = r - n
  BY DEF Place
<1> HIDE DEF S, p, r, n
<1>6. p \in Nat /\ r \in Nat /\ taken \in Nat /\ r <= taken /\ taken <= Len(S) /\ p <= r
  BY <1>4 DEF Cuts
<1>7. p + n = r /\ r - p = n
  BY <1>3, <1>5, <1>6
<1>8. Cuts(S, 0, p)
  BY <1>2, <1>6 DEF Cuts
<1>9. \A k \in 1 .. r - p : work[k] = S[p + k]
  <2>1. \A k \in 1 .. r - p : Part(S, p, r)[k] = S[p + k]
    BY <1>2, <1>4, PartIs
  <2> QED
    BY <1>4, <2>1
<1> QED
  BY <1>1, <1>2, <1>3, <1>4, <1>6, <1>7, <1>8, <1>9 DEF S, p, r, n

(* There is a block when there is something to be looked at. *)
LEMMA BlockThere ==
    ASSUME Mp3TypeOK, ReadParts, ~stopped, work # <<>>,
           NEW b \in 1 .. BlockCount + 1, InBlock(b)
    PROVE  b \in 1 .. BlockCount
<1>1. /\ Song /\ Place \in Nat /\ Len(work) \in Nat /\ Place + Len(work) <= Len(SourceBytes)
      /\ Len(SourceBytes) \in Nat
  <2>1. /\ Song /\ Len(SourceBytes) \in Nat
        /\ Place \in Nat /\ ReadTo \in Nat /\ taken \in Nat /\ Len(work) \in Nat
        /\ Place + Len(work) = ReadTo /\ ReadTo <= taken /\ taken <= Len(SourceBytes)
    BY PlaceIs
  <2> QED
    BY <2>1
<1>2. Len(work) # 0
  BY DEF Mp3TypeOK
<1>3. BlockCount \in Nat /\ Ends(BlockCount) = Len(SourceBytes)
  BY <1>1, SourceType DEF Song
<1>4. ASSUME b = BlockCount + 1 PROVE FALSE
  <2>1. b > BlockCount /\ b - 1 = BlockCount /\ ~(b <= BlockCount)
    BY <1>3, <1>4
  <2>2. build.len = 0
    BY <2>1 DEF InBlock
  <2>3. offset = 0
    BY <2>1, <2>2 DEF InBlock
  <2>4. Place = Ends(b - 1) + offset
    BY <2>2 DEF InBlock
  <2>5. Place = Len(SourceBytes)
    BY <1>1, <1>3, <2>1, <2>3, <2>4
  <2> QED
    BY <1>1, <1>2, <2>5
<1> QED
  BY <1>3, <1>4

(* More of what the source sends. *)
LEMMA StreamMore ==
    ASSUME NEW s \in Seq(SourceByte), NEW p, NEW n, Cuts(s, 0, p), Cuts(s, p, n)
    PROVE  StreamOnly(Part(s, 0, n)) = StreamOnly(Part(s, 0, p)) \o StreamOnly(Part(s, p, n))
           /\ StreamOnly(Part(s, 0, p)) \in Seq(SourceByte)
<1> DEFINE a == Part(s, 0, p)
           b == Part(s, p, n)
           d == Part(s, 0, n)
<1>1. a \in Seq(SourceByte) /\ b \in Seq(SourceByte) /\ d = a \o b
  BY PartIs, PartsJoin
<1> HIDE DEF a, b, d
<1>2. StreamOnly(a \o b) = StreamOnly(a) \o StreamOnly(b) /\ StreamOnly(a) \in Seq(SourceByte)
  BY <1>1, StreamConcat, StreamType
<1> QED
  BY <1>1, <1>2 DEF a, b, d

(* Together with what the listener has, a step of the source keeps all. *)
Kept == Mp3TypeOK' /\ Extended /\ ReadParts' /\ AtBlock' /\ QueueHas'

(* Then the invariant holds after the step. *)
LEMMA KeptIsAll ==
    ASSUME Mp3Inv, Kept
    PROVE  Mp3Inv'
BY ListenerStays DEF Mp3Inv, Kept

(* A title set by other means is a new buffer for the next block. *)
LEMMA SetTagKeeps ==
    ASSUME Mp3Inv, SetTag
    PROVE  Kept
<1>1. /\ blocks' = blocks /\ taken' = taken /\ readData' = readData /\ work' = work /\ kept' = kept
      /\ filtering' = filtering /\ offset' = offset /\ build' = build /\ metas' = metas
      /\ metadata' = metadata /\ queue' = queue /\ stopped' = stopped /\ client' = client
      /\ update' = TRUE /\ updates' = updates + 1 /\ updates \in Nat
  BY DEF SetTag, sourceReads, listenerVars, Mp3Inv, Mp3TypeOK
<1>2. Mp3TypeOK /\ ReadParts /\ AtBlock /\ QueueHas
  BY DEF Mp3Inv
<1>3. Mp3TypeOK'
  <2>1. Titles' = Titles /\ updates' \in Nat /\ update' \in BOOLEAN
    BY <1>1, BlocksStay
  <2> QED
    BY <1>1, <1>2, <2>1 DEF Mp3TypeOK
<1>4. Extended
  BY <1>1 DEF Extended
<1>5. ReadParts'
  BY <1>1, <1>2 DEF ReadParts, ReadTo, Place, SourceBytes, BytesTo, BytesOf
<1>6. AtBlock'
  <2>1. updates' # 0
    BY <1>1
  <2> SUFFICES ASSUME ~stopped' PROVE \E b \in 1 .. BlockCount' + 1 : InBlock(b)'
    BY <2>1 DEF AtBlock
  <2>2. PICK b \in 1 .. BlockCount + 1 : InBlock(b)
    BY <1>1, <1>2 DEF AtBlock
  <2>3. InBlock(b)' /\ BlockCount' = BlockCount
    BY <1>1, <2>2 DEF InBlock, Place, ReadTo, Ends, Extent, BytesTo, BytesOf, BlockCount
  <2> QED
    BY <2>2, <2>3
<1>7. QueueHas'
  BY <1>1, <1>2 DEF QueueHas, QueueData, Place, ReadTo, SourceBytes, BytesTo, BytesOf
<1> QED
  BY <1>3, <1>4, <1>5, <1>6, <1>7 DEF Kept

(* mp3_set_title: metadata is added, and only when some was set. *)
LEMMA SetTitleIs ==
    ASSUME Mp3TypeOK, SetTitle, blocks' = blocks
    PROVE  /\ metas' \in Seq(Titles) /\ metadata' \in 1 .. Len(metas') /\ update' \in BOOLEAN
           /\ Len(metas) <= Len(metas)' /\ \A m \in 1 .. Len(metas) : metas'[m] = metas[m]
           /\ ~update => update' = update /\ metas' = metas /\ metadata' = metadata
<1> DEFINE t == [text |-> "set", units |-> 1]
<1>1. t \in Titles
  BY DEF Titles
<1> HIDE DEF t
<1>2. metas \in Seq(Titles) /\ metadata \in 1 .. Len(metas) /\ update \in BOOLEAN /\ Len(metas) \in Nat
  BY DEF Mp3TypeOK
<1>3. \/ update' = FALSE /\ update /\ metas' = Append(metas, t) /\ metadata' = Len(metas) + 1
      \/ update' = FALSE /\ update /\ metas' = metas /\ metadata' = metadata
      \/ ~update /\ update' = update /\ metas' = metas /\ metadata' = metadata
  BY DEF SetTitle, t
<1>4. CASE metas' = Append(metas, t) /\ metadata' = Len(metas) + 1 /\ update' = FALSE /\ update
  <2>1. /\ metas' \in Seq(Titles) /\ Len(metas') = Len(metas) + 1
        /\ \A m \in 1 .. Len(metas) : metas'[m] = metas[m]
    BY <1>1, <1>2, <1>4
  <2>2. metadata' \in 1 .. Len(metas') /\ Len(metas) <= Len(metas)'
    BY <1>2, <1>4, <2>1
  <2> QED
    BY <1>4, <2>1, <2>2
<1>5. CASE metas' = metas /\ metadata' = metadata /\ update' \in BOOLEAN /\ (~update => update' = update)
  BY <1>2, <1>5
<1> QED
  BY <1>2, <1>3, <1>4, <1>5

(* complete_read: the bytes join those that were read before. *)
LEMMA CompleteReadKeeps ==
    ASSUME Mp3Inv, NEW n \in 1 .. BufSize, CompleteRead(n)
    PROVE  Kept
<1> DEFINE S == SourceBytes
           r == ReadTo
           all == readData \o SubSeq(SourceBytes, taken + 1, taken + n)
<1>1. Mp3TypeOK /\ ReadParts /\ AtBlock /\ QueueHas
  BY DEF Mp3Inv
<1>2. /\ ~filtering /\ ~stopped /\ taken + n <= Len(S) /\ taken' = taken + n
      /\ blocks' = blocks /\ offset' = offset /\ build' = build /\ updates' = updates
      /\ queue' = queue /\ stopped' = stopped /\ client' = client
  BY DEF CompleteRead, listenerVars
<1>3. \/ /\ readData' = all /\ work' = work /\ kept' = kept /\ filtering' = filtering
         /\ metas' = metas /\ metadata' = metadata /\ update' = update
      \/ /\ readData' = <<>> /\ work' = all /\ kept' = <<>> /\ filtering' = TRUE /\ SetTitle
  BY DEF CompleteRead
<1>4. /\ S \in Seq(SourceByte) /\ Len(S) \in Nat /\ Place \in Nat /\ r \in Nat /\ taken \in Nat
      /\ Place = r /\ work = <<>> /\ Cuts(S, r, taken) /\ readData = Part(S, r, taken)
      /\ r <= taken /\ r = taken - Len(readData)
  <2>1. work = <<>> /\ Cuts(S, r, taken) /\ readData = Part(S, r, taken)
    BY <1>1, <1>2 DEF ReadParts
  <2>2. /\ S \in Seq(SourceByte) /\ Len(S) \in Nat /\ Place \in Nat /\ r \in Nat /\ taken \in Nat
        /\ Place + Len(work) = r /\ r <= taken
    BY <1>1, <1>2, PlaceIs
  <2>3. Len(work) = 0
    BY <2>1
  <2>4. Place = r
    BY <2>2, <2>3
  <2> QED
    BY <2>1, <2>2, <2>4 DEF ReadTo
<1>5. /\ SourceBytes' = SourceBytes /\ BlockCount' = BlockCount /\ Titles' = Titles
      /\ \A b : Ends(b)' = Ends(b) /\ Extent(b)' = Extent(b) /\ Texts(b)' = Texts(b)
      /\ \A B : TitleAt(B)' = TitleAt(B)
  BY <1>2, BlocksStay
<1> DEFINE w == taken + n
<1>6. /\ all = Part(S, r, w) /\ Cuts(S, r, w) /\ Cuts(S, w, w) /\ all \in Seq(SourceByte)
      /\ Len(all) = w - r /\ w \in Nat
  <2>1. Cuts(S, taken, w) /\ Cuts(S, w, w) /\ w \in Nat
    BY <1>2, <1>4 DEF Cuts
  <2>2. all = Part(S, r, taken) \o Part(S, taken, w)
    BY <1>4 DEF Part
  <2> HIDE DEF S, r, w, all
  <2>3. Part(S, r, taken) \o Part(S, taken, w) = Part(S, r, w) /\ Cuts(S, r, w)
    BY <1>4, <2>1, PartsJoin
  <2>4. Part(S, r, w) \in Seq(SourceByte) /\ Len(Part(S, r, w)) = w - r
    BY <1>4, <2>3, PartIs
  <2> QED
    BY <2>1, <2>2, <2>3, <2>4
<1> HIDE DEF S, r, all, w
<1>7. /\ ReadTo' = taken' - Len(readData') /\ Place' = ReadTo' - Len(work')
      /\ taken' = w /\ SourceBytes' = S /\ Place = r
  BY <1>2, <1>4, <1>5 DEF ReadTo, Place, w, S, r
<1>8. Mp3TypeOK
  BY <1>1
<1>9. CASE /\ readData' = all /\ work' = work /\ kept' = kept /\ filtering' = filtering
           /\ metas' = metas /\ metadata' = metadata /\ update' = update
  <2>1. ReadTo' = r /\ Place' = r
    <3>1. Len(work') = 0
      BY <1>4, <1>9
    <3> QED
      <4>1. Len(readData') = w - r
        BY <1>6, <1>9
      <4> DEFINE lr == Len(readData')
                 lw == Len(work')
                 rt == ReadTo'
                 pl == Place'
      <4>2. lr = w - r /\ lw = 0 /\ rt = w - lr /\ pl = rt - lw /\ w \in Nat /\ r \in Nat
        BY <1>4, <1>6, <1>7, <3>1, <4>1
      <4> HIDE DEF lr, lw, rt, pl
      <4>3. rt = r /\ pl = r
        BY <4>2
      <4> QED
        BY <4>3 DEF rt, pl
  <2>2. Mp3TypeOK'
    BY <1>1, <1>2, <1>5, <1>6, <1>7, <1>9 DEF Mp3TypeOK
  <2>3. Extended
    BY <1>2, <1>9 DEF Extended
  <2>4. ReadParts'
    <3>1. Cuts(S, r, r) /\ Part(S, r, r) = <<>>
      <4>1. Cuts(S, r, r)
        BY <1>4 DEF Cuts
      <4> QED
        BY <1>4, <4>1, PartWhole
    <3>2. work' = <<>> /\ ~filtering' /\ ~stopped'
      BY <1>2, <1>4, <1>9
    <3>3. Cuts(SourceBytes', ReadTo', taken') /\ readData' = Part(SourceBytes', ReadTo', taken')
      BY <1>6, <1>7, <1>9, <2>1
    <3>4. Cuts(SourceBytes', Place', ReadTo') /\ work' = Part(SourceBytes', Place', ReadTo')
      BY <1>7, <2>1, <3>1, <3>2
    <3> QED
      BY <3>2, <3>3, <3>4 DEF ReadParts, Cuts, Part
  <2>5. AtBlock'
    BY <1>1, <1>2, <1>5, <1>7, <1>9, <2>1 DEF AtBlock, InBlock
  <2>6. QueueHas'
    <3>1. Place' = Place /\ QueueData' = QueueData /\ Intro' = Intro
      BY <1>2, <1>7, <2>1 DEF QueueData, Intro
    <3> QED
      BY <1>1, <1>2, <1>5, <1>9, <3>1 DEF QueueHas, StreamOnly, Part
  <2> QED
    BY <2>2, <2>3, <2>4, <2>5, <2>6 DEF Kept
<1>10. CASE readData' = <<>> /\ work' = all /\ kept' = <<>> /\ filtering' = TRUE /\ SetTitle
  <2>1. ReadTo' = w /\ Place' = r
    <3>1. Len(readData') = 0 /\ Len(work') = w - r
      BY <1>6, <1>10
    <3> QED
      <4> DEFINE lr == Len(readData')
                 lw == Len(work')
                 rt == ReadTo'
                 pl == Place'
      <4>1. lr = 0 /\ lw = w - r /\ rt = w - lr /\ pl = rt - lw /\ w \in Nat /\ r \in Nat
        BY <1>4, <1>6, <1>7, <3>1
      <4> HIDE DEF lr, lw, rt, pl
      <4>2. rt = w /\ pl = r
        BY <4>1
      <4> QED
        BY <4>2 DEF rt, pl
  <2>2. /\ metas' \in Seq(Titles) /\ metadata' \in 1 .. Len(metas') /\ update' \in BOOLEAN
        /\ Len(metas) <= Len(metas)' /\ \A m \in 1 .. Len(metas) : metas'[m] = metas[m]
        /\ ~update => update' = update /\ metas' = metas /\ metadata' = metadata
    BY <1>2, <1>8, <1>10, SetTitleIs
  <2>3. Mp3TypeOK'
    <3>1. <<>> \in Seq(SourceByte) /\ <<>> \in Seq(StreamByte)
      OBVIOUS
    <3> QED
      BY <1>1, <1>2, <1>5, <1>6, <1>7, <1>10, <2>2, <3>1 DEF Mp3TypeOK
  <2>4. Extended
    BY <1>2, <2>2 DEF Extended
  <2>5. ReadParts'
    <3>1. Part(S, w, w) = <<>>
      BY <1>4, <1>6, PartWhole
    <3>2. filtering' /\ ~stopped' /\ readData' = <<>>
      BY <1>2, <1>10
    <3>3. Cuts(SourceBytes', ReadTo', taken') /\ readData' = Part(SourceBytes', ReadTo', taken')
      BY <1>6, <1>7, <1>10, <2>1, <3>1
    <3>4. Cuts(SourceBytes', Place', ReadTo') /\ work' = Part(SourceBytes', Place', ReadTo')
      BY <1>6, <1>7, <1>10, <2>1
    <3> QED
      BY <3>2, <3>3, <3>4 DEF ReadParts, Cuts, Part
  <2>6. AtBlock'
    <3>1. PICK b \in 1 .. BlockCount + 1 : /\ InBlock(b)
                                           /\ updates = 0 => ~update /\ metas[metadata].text = TitleAt(Texts(b))
      BY <1>1, <1>2 DEF AtBlock
    <3>2. InBlock(b)'
      BY <1>2, <1>5, <1>7, <2>1, <3>1 DEF InBlock
    <3>3. (updates = 0 => ~update /\ metas[metadata].text = TitleAt(Texts(b)))'
      BY <1>2, <1>5, <2>2, <3>1
    <3> QED
      BY <1>5, <3>2, <3>3 DEF AtBlock
  <2>7. QueueHas'
    <3>1. Place' = Place /\ QueueData' = QueueData /\ Intro' = Intro
      BY <1>2, <1>7, <2>1 DEF QueueData, Intro
    <3>2. \A i \in 1 .. Len(queue) : queue[i].meta \in Nat /\ queue[i].meta <= Len(metas)
      BY <1>1, QueueIs
    <3>3. \A i \in 1 .. Len(queue) : queue[i].meta <= Len(metas)'
      <4>1. Len(metas) \in Nat /\ Len(metas)' \in Nat /\ Len(metas) <= Len(metas)'
        BY <1>1, <2>2 DEF Mp3TypeOK
      <4> QED
        BY <3>2, <4>1
    <3>4. FlattenSeq(QueueData) \o <<>> = Intro.data \o StreamOnly(Part(SourceBytes, 0, Place))
      BY <1>1, <1>2 DEF QueueHas
    <3> QED
      BY <1>2, <1>5, <1>10, <3>1, <3>3, <3>4 DEF QueueHas, StreamOnly, Part
  <2> QED
    BY <2>3, <2>4, <2>5, <2>6, <2>7 DEF Kept
<1> QED
  BY <1>3, <1>9, <1>10

(* The filter goes on by some bytes. *)
GoesOn(k) ==
    /\ ReadTo' = ReadTo /\ Place' = Place + k /\ Cuts(SourceBytes, Place + k, ReadTo)
    /\ work' = Part(SourceBytes, Place + k, ReadTo) /\ work' \in Seq(SourceByte)
    /\ Cuts(SourceBytes, Place, Place + k)
    /\ Part(work, 0, k) = Part(SourceBytes, Place, Place + k)
    /\ StreamOnly(Part(SourceBytes, 0, Place + k))
         = StreamOnly(Part(SourceBytes, 0, Place)) \o StreamOnly(Part(SourceBytes, Place, Place + k))

(* What was looked at is the next part of what the source sent. *)
LEMMA GoesOnIs ==
    ASSUME Mp3TypeOK, ReadParts, ~stopped, NEW k \in Nat, k <= Len(work),
           work' = SubSeq(work, k + 1, Len(work)), taken' = taken, readData' = readData
    PROVE  GoesOn(k)
<1> DEFINE S == SourceBytes
           p == Place
           r == ReadTo
           l == Len(work)
<1>1. /\ S \in Seq(SourceByte) /\ Len(S) \in Nat /\ p \in Nat /\ r \in Nat /\ l \in Nat
      /\ p + l = r /\ r <= Len(S) /\ Cuts(S, 0, p) /\ Cuts(S, p, r) /\ work = Part(S, p, r)
  <2>1. /\ S \in Seq(SourceByte) /\ Len(S) \in Nat /\ p \in Nat /\ r \in Nat /\ l \in Nat
        /\ p + l = r /\ r <= taken /\ taken <= Len(S) /\ Cuts(S, 0, p) /\ Cuts(S, p, r)
        /\ work = Part(S, p, r) /\ taken \in Nat
    BY PlaceIs
  <2>2. r <= Len(S)
    <3> HIDE DEF r
    <3> QED
      BY <2>1
  <2> QED
    BY <2>1, <2>2
<1>2. ReadTo' = r /\ Place' = r - Len(work')
  BY DEF ReadTo, Place
<1>3. work' = Part(work, k, l)
  BY DEF Part
<1> HIDE DEF S, p, r, l
<1>4. Cuts(work, k, l) /\ Cuts(work, 0, k)
  BY <1>1 DEF Cuts, l
<1>5. p + k \in Nat /\ p + l = r /\ p + k <= r /\ p + 0 = p /\ Cuts(S, p, p + k) /\ Cuts(S, p + k, r)
  <2>1. k <= l
    BY DEF l
  <2>2. p + k \in Nat /\ p + k <= r
    BY <1>1, <2>1
  <2>3. p + k <= Len(S) /\ p <= p + k /\ p + 0 = p
    BY <1>1, <2>2
  <2> QED
    BY <1>1, <2>2, <2>3 DEF Cuts
<1>6. work' = Part(S, p + k, r)
  <2>1. Part(Part(S, p, r), k, l) = Part(S, p + k, p + l)
    BY <1>1, <1>4, PartOfPart
  <2> QED
    BY <1>1, <1>3, <1>5, <2>1
<1>7. Part(work, 0, k) = Part(S, p, p + k)
  <2>1. Part(Part(S, p, r), 0, k) = Part(S, p + 0, p + k)
    BY <1>1, <1>4, PartOfPart
  <2> QED
    BY <1>1, <1>5, <2>1
<1>8. work' \in Seq(SourceByte) /\ Len(work') = r - (p + k)
  BY <1>1, <1>5, <1>6, PartIs
<1>9. Place' = p + k
  <2> DEFINE lw == Len(work')
             pl == Place'
             j == p + k
  <2>1. lw = r - j /\ pl = r - lw /\ r \in Nat /\ j \in Nat
    BY <1>1, <1>2, <1>5, <1>8
  <2> HIDE DEF lw, pl, j
  <2>2. pl = j
    BY <2>1
  <2> QED
    BY <2>2 DEF pl, j
<1>10. StreamOnly(Part(S, 0, p + k)) = StreamOnly(Part(S, 0, p)) \o StreamOnly(Part(S, p, p + k))
  BY <1>1, <1>5, StreamMore
<1> QED
  BY <1>2, <1>5, <1>6, <1>7, <1>8, <1>9, <1>10 DEF GoesOn, S, p, r

(* Stream up to the next metadata is kept. *)
LEMMA FilterStreamKeeps ==
    ASSUME Mp3Inv, FilterStream
    PROVE  Kept
<1> DEFINE S == SourceBytes
           p == Place
           n == IF Len(work) <= MetaBlock THEN Len(work) ELSE MetaBlock
           d == Part(S, p, p + n)
<1>1. Mp3TypeOK /\ ReadParts /\ AtBlock /\ QueueHas
  BY DEF Mp3Inv
<1>2. /\ filtering /\ work # <<>> /\ MetaBlock > 0
      /\ kept' = kept \o SubSeq(work, 1, n) /\ work' = SubSeq(work, n + 1, Len(work))
      /\ offset' = offset + n
      /\ blocks' = blocks /\ taken' = taken /\ readData' = readData /\ filtering' = filtering
      /\ build' = build /\ metas' = metas /\ metadata' = metadata /\ update' = update
      /\ updates' = updates /\ queue' = queue /\ stopped' = stopped /\ client' = client
  BY DEF FilterStream, sourceReads, listenerVars
<1>3. ~stopped /\ ~stopped' /\ readData = <<>>
  BY <1>1, <1>2 DEF ReadParts
<1>4. /\ SourceBytes' = SourceBytes /\ BlockCount' = BlockCount /\ Titles' = Titles
      /\ \A b : Ends(b)' = Ends(b) /\ Extent(b)' = Extent(b) /\ Texts(b)' = Texts(b)
      /\ \A B : TitleAt(B)' = TitleAt(B)
  BY <1>2, BlocksStay
<1>5. n \in Nat /\ n <= Len(work) /\ offset + n <= MetaInt /\ offset \in Nat /\ MetaInt \in Nat /\ Len(work) \in Nat
  BY <1>1, <1>2, Mp3Assumption DEF Mp3TypeOK, MetaBlock
<1> HIDE DEF n
<1>6. GoesOn(n)
  BY <1>1, <1>2, <1>3, <1>5, GoesOnIs
<1>7. /\ ReadTo' = ReadTo /\ Place' = p + n /\ Cuts(S, p + n, ReadTo)
      /\ work' = Part(S, p + n, ReadTo) /\ work' \in Seq(SourceByte)
      /\ Cuts(S, p, p + n) /\ Part(work, 0, n) = d
      /\ StreamOnly(Part(S, 0, p + n)) = StreamOnly(Part(S, 0, p)) \o StreamOnly(d)
  BY <1>6 DEF GoesOn
<1>8. S \in Seq(SourceByte) /\ p \in Nat /\ Song
  BY <1>1, <1>3, PlaceIs
<1>9. PICK b \in 1 .. BlockCount + 1 : /\ InBlock(b)
                                       /\ updates = 0 => ~update /\ metas[metadata].text = TitleAt(Texts(b))
  BY <1>1, <1>3 DEF AtBlock
<1>10. b \in 1 .. BlockCount
  BY <1>1, <1>2, <1>3, <1>9, BlockThere
<1>11. build.len = 0 /\ p = Ends(b - 1) + offset
  <2>1. offset # MetaInt
    BY <1>2, <1>5 DEF MetaBlock
  <2> QED
    BY <1>9, <2>1 DEF InBlock
<1> HIDE DEF S, p
<1>12. d \in Seq(SourceByte) /\ Len(d) = n /\ \A k \in 1 .. n : d[k] = S[p + k]
  <2>1. d \in Seq(SourceByte) /\ Len(d) = (p + n) - p /\ \A k \in 1 .. (p + n) - p : d[k] = S[p + k]
    BY <1>7, <1>8, PartIs
  <2>2. (p + n) - p = n
    BY <1>5, <1>8
  <2> QED
    BY <2>1, <2>2
<1> HIDE DEF d
<1>13. ASSUME NEW k \in 1 .. n PROVE d[k].data = TRUE
  <2> DEFINE e == Ends(b - 1)
  <2>1. e \in Nat /\ \A i \in 1 .. MetaInt : S[e + i].data = TRUE
    BY <1>8, <1>10, SourceIs DEF S
  <2>2. p = e + offset
    BY <1>11
  <2> HIDE DEF e
  <2>3. offset + k \in 1 .. MetaInt /\ p + k = e + (offset + k)
    BY <1>5, <2>1, <2>2
  <2> QED
    BY <1>12, <2>1, <2>3
<1>14. d \in Seq(StreamByte)
  <2>1. \A x \in SourceByte : x.data = TRUE => x \in StreamByte
    BY DEF SourceByte, StreamByte
  <2>2. ASSUME NEW k \in 1 .. n PROVE d[k] \in StreamByte
    <3>1. d[k] \in SourceByte
      BY <1>12
    <3>2. d[k].data = TRUE
      BY <1>13
    <3> QED
      BY <2>1, <3>1, <3>2
  <2> QED
    BY <1>5, <1>12, <2>2
<1>15. StreamOnly(d) = d
  <2>1. (\A i \in 1 .. Len(d) : d[i].data) => StreamOnly(d) = d
    BY <1>12, StreamAll
  <2> QED
    BY <1>12, <1>13, <2>1
<1>16. kept' = kept \o d /\ kept' \in Seq(StreamByte) /\ kept \in Seq(StreamByte)
  <2>1. kept' = kept \o d /\ kept \in Seq(StreamByte)
    <3>1. SubSeq(work, 1, n) = Part(work, 0, n)
      BY DEF Part
    <3>2. kept \in Seq(StreamByte)
      BY <1>1 DEF Mp3TypeOK
    <3> QED
      BY <1>2, <1>7, <3>1, <3>2
  <2> QED
    BY <1>14, <2>1
<1>17. Mp3TypeOK'
  <2>1. offset' \in Nat
    BY <1>2, <1>5
  <2> QED
    BY <1>1, <1>2, <1>4, <1>7, <1>16, <2>1 DEF Mp3TypeOK
<1>18. Extended
  BY <1>2 DEF Extended
<1>19. ReadParts'
  <2>1. Cuts(SourceBytes', ReadTo', taken') /\ readData' = Part(SourceBytes', ReadTo', taken')
    BY <1>1, <1>2, <1>4, <1>7 DEF ReadParts
  <2>2. Cuts(SourceBytes', Place', ReadTo') /\ work' = Part(SourceBytes', Place', ReadTo')
    BY <1>4, <1>7 DEF S
  <2> QED
    BY <1>2, <1>3, <2>1, <2>2 DEF ReadParts, Cuts, Part
<1>20. AtBlock'
  <2>1. InBlock(b)'
    <3> DEFINE e == Ends(b - 1)
    <3>1. e \in Nat /\ p = e + offset
      BY <1>8, <1>10, <1>11, SourceIs
    <3> HIDE DEF e
    <3>2. p + n = e + (offset + n)
      BY <1>5, <3>1
    <3>3. Place' = Ends(b - 1)' + offset' /\ offset' <= MetaInt
      BY <1>2, <1>4, <1>5, <1>7, <3>2 DEF e
    <3>4. ~(b > BlockCount)
      BY <1>8, <1>10 DEF Song
    <3> QED
      BY <1>2, <1>4, <1>11, <3>3, <3>4 DEF InBlock
  <2>2. (updates = 0 => ~update /\ metas[metadata].text = TitleAt(Texts(b)))'
    BY <1>2, <1>4, <1>9
  <2> QED
    BY <1>4, <1>9, <2>1, <2>2 DEF AtBlock
<1>21. QueueHas'
  <2> DEFINE q == FlattenSeq(QueueData)
             i == Intro.data
             t == StreamOnly(Part(S, 0, p))
  <2>1. q \o kept = i \o t
    BY <1>1, <1>2, <1>3 DEF QueueHas, S, p
  <2>2. q \in Seq(StreamByte) /\ i \in Seq(StreamByte) /\ t \in Seq(SourceByte)
    <3>1. QueueData \in Seq(Seq(StreamByte))
      BY <1>1, QueueIs
    <3>2. q \in Seq(StreamByte)
      <4>1. FirstOf(QueueData, Len(QueueData)) = q /\ Len(QueueData) \in 0 .. Len(QueueData)
        BY <3>1, FirstAll
      <4> QED
        BY <3>1, <4>1, FirstStep
    <3>3. i \in Seq(StreamByte)
      BY Mp3Assumption DEF Intro, StreamByte
    <3>4. t \in Seq(SourceByte)
      <4>1. Cuts(S, 0, p)
        BY <1>1, <1>3, PlaceIs DEF S, p
      <4> QED
        BY <1>7, <1>8, <4>1, StreamMore
    <3> QED
      BY <3>2, <3>3, <3>4
  <2> HIDE DEF q, i, t
  <2>3. (q \o kept) \o d = q \o (kept \o d)
    BY <1>14, <1>16, <2>2
  <2>4. (i \o t) \o d = i \o (t \o d)
    <3>1. i \in Seq(SourceByte)
      <4>1. \A x \in StreamByte : x \in SourceByte
        BY DEF StreamByte, SourceByte
      <4> QED
        BY <2>2, <4>1
    <3> QED
      BY <1>12, <2>2, <3>1
  <2>5. q \o kept' = i \o StreamOnly(Part(S, 0, p + n))
    BY <1>7, <1>15, <1>16, <2>1, <2>3, <2>4 DEF t
  <2>6. QueueData' = QueueData /\ Intro' = Intro
    BY <1>2 DEF QueueData, Intro
  <2>7. FlattenSeq(QueueData') \o kept' = Intro'.data \o StreamOnly(Part(SourceBytes', 0, Place'))
    BY <1>4, <1>7, <2>5, <2>6 DEF q, i, S
  <2> QED
    BY <1>1, <1>2, <2>7 DEF QueueHas, StreamOnly, Part
<1> QED
  BY <1>17, <1>18, <1>19, <1>20, <1>21 DEF Kept

(* The block that the filter is in. *)
BlockState == [no : Nat, len : Nat, offset : Nat]
TextAt(b, o) ==
    /\ Started \in BlockState /\ Started.no = b /\ Started.len = Extent(b) /\ Started.offset = o
    /\ o \in Nat /\ o < Extent(b) /\ Extent(b) \in Nat /\ Ends(b - 1) \in Nat
    /\ Place = Ends(b - 1) + MetaInt + o /\ Missing = Extent(b) - o
    /\ Ends(b) = Ends(b - 1) + MetaInt + Extent(b)
    /\ \A i \in 1 .. Missing : SourceBytes[Place + i].data = FALSE

(* A filter that needs more of a block is at the start of it or in it. *)
LEMMA StartedIs ==
    ASSUME Mp3TypeOK, ReadParts, ~stopped, work # <<>>, MetaBlock = 0,
           NEW b \in 1 .. BlockCount, InBlock(b)
    PROVE  \E o : TextAt(b, o)
<1> DEFINE S == SourceBytes
           p == Place
           z == Extent(b)
           e == Ends(b - 1)
           y == [data |-> FALSE, no |-> b]
<1>1. /\ Song /\ S \in Seq(SourceByte) /\ p \in Nat /\ Len(work) \in Nat
      /\ \A k \in 1 .. Len(work) : work[k] = S[p + k]
  BY PlaceIs
<1>2. /\ e \in Nat /\ MetaInt \in Nat /\ z \in Nat \ {0} /\ Ends(b) = e + MetaInt + z
      /\ \A k \in 1 .. z : S[e + MetaInt + k] = y
  BY <1>1, SourceIs
<1>3. b \in Nat /\ blocks[b].units \in Nat /\ z = BlockLen(blocks[b].units)
  BY <1>1 DEF Song, Extent
<1>4. y.data = FALSE /\ y.no = b
  OBVIOUS
<1> HIDE DEF y
<1>5. offset = MetaInt
  BY <1>2 DEF MetaBlock, Mp3TypeOK
<1>6. \E o : /\ Started \in BlockState /\ Started.no = b /\ Started.len = z /\ Started.offset = o
             /\ o \in Nat /\ o < z /\ p = e + MetaInt + o
  <2>1. CASE build.len # 0
    <3>1. /\ Started = build /\ build.no = b /\ build.len = z /\ build.offset < build.len
          /\ p = e + MetaInt + build.offset
      BY <2>1 DEF Started, InBlock
    <3>2. build \in BlockState /\ build.offset \in Nat
      BY DEF Mp3TypeOK, BlockState
    <3> QED
      BY <3>1, <3>2
  <2>2. CASE build.len = 0
    <3>1. p = e + offset
      BY <2>2 DEF InBlock
    <3> HIDE DEF p, e, z
    <3>2. p = e + MetaInt /\ p = e + MetaInt + 0
      BY <1>1, <1>2, <1>5, <3>1
    <3>3. Head(work) = S[p + 1] /\ 1 \in 1 .. z
      <4>1. 1 \in 1 .. Len(work) /\ Head(work) = work[1]
        BY DEF Mp3TypeOK
      <4> QED
        BY <1>1, <1>2, <4>1
    <3>4. Head(work) = y
      BY <1>2, <3>2, <3>3
    <3> DEFINE x == Head(work)
               s == [no |-> b, offset |-> 0, len |-> z]
    <3>5. x.data = FALSE /\ x.no = b
      BY <1>4, <3>4
    <3>6. Started = [no |-> x.no, offset |-> 0, len |-> BlockLen(IF x.data THEN 1 ELSE blocks[x.no].units)]
      BY <2>2 DEF Started
    <3> HIDE DEF x
    <3>7. Started = s
      BY <1>3, <3>5, <3>6
    <3>8. s \in BlockState /\ s.no = b /\ s.len = z /\ s.offset = 0
      BY <1>2, <1>3 DEF BlockState
    <3>9. 0 \in Nat /\ 0 < z
      BY <1>2
    <3> HIDE DEF s
    <3> QED
      BY <3>2, <3>7, <3>8, <3>9 DEF p, e, z
  <2> QED
    BY <2>1, <2>2
<1>7. PICK o : /\ Started \in BlockState /\ Started.no = b /\ Started.len = z /\ Started.offset = o
               /\ o \in Nat /\ o < z /\ p = e + MetaInt + o
  BY <1>6
<1>8. Missing = z - o
  BY <1>7 DEF Missing
<1>9. ASSUME NEW i \in 1 .. Missing PROVE S[p + i].data = FALSE
  <2> HIDE DEF p, e, z
  <2>1. i \in 1 .. z - o
    BY <1>8
  <2>2. o + i \in 1 .. z /\ p + i = e + MetaInt + (o + i)
    BY <1>2, <1>7, <2>1
  <2> QED
    BY <1>2, <1>4, <2>2
<1>10. TextAt(b, o)
  BY <1>2, <1>7, <1>8, <1>9 DEF TextAt
<1> QED
  BY <1>10

(* A block is skipped: nothing of it is kept. *)
LEMMA Skipped ==
    ASSUME Mp3TypeOK, QueueHas, ReadParts, ~stopped, NEW k \in Nat, GoesOn(k),
           \A i \in 1 .. k : SourceBytes[Place + i].data = FALSE
    PROVE  StreamOnly(Part(SourceBytes, 0, Place + k)) = StreamOnly(Part(SourceBytes, 0, Place))
<1> DEFINE S == SourceBytes
           p == Place
           d == Part(S, p, p + k)
           t == StreamOnly(Part(S, 0, p))
<1>1. S \in Seq(SourceByte) /\ p \in Nat /\ Cuts(S, 0, p)
  BY PlaceIs
<1>2. Cuts(S, p, p + k) /\ StreamOnly(Part(S, 0, p + k)) = t \o StreamOnly(d)
  BY DEF GoesOn
<1>3. \A i \in 1 .. k : S[p + i].data = FALSE
  OBVIOUS
<1> HIDE DEF S, p
<1>4. d \in Seq(SourceByte) /\ Len(d) = (p + k) - p /\ \A i \in 1 .. (p + k) - p : d[i] = S[p + i]
  BY <1>1, <1>2, PartIs
<1>5. (p + k) - p = k
  BY <1>1
<1>6. t \in Seq(SourceByte)
  BY <1>1, <1>2, StreamMore
<1> HIDE DEF d, t
<1>7. \A i \in 1 .. Len(d) : ~d[i].data
  BY <1>3, <1>4, <1>5
<1>8. StreamOnly(d) = <<>>
  BY <1>4, <1>7, StreamAll
<1>9. t \o <<>> = t
  BY <1>6, ConcatEmptySeq
<1> QED
  BY <1>2, <1>8, <1>9 DEF S, p, d, t

(* A part of a block is taken out. *)
LEMMA FilterPartKeeps ==
    ASSUME Mp3Inv, FilterPart
    PROVE  Kept
<1> DEFINE n == Len(work)
<1>1. Mp3TypeOK /\ ReadParts /\ AtBlock /\ QueueHas
  BY DEF Mp3Inv
<1>2. /\ filtering /\ work # <<>> /\ MetaBlock = 0 /\ n < Missing
      /\ build' = [Started EXCEPT !.offset = @ + Len(work)] /\ work' = <<>>
      /\ kept' = kept /\ offset' = offset
      /\ blocks' = blocks /\ taken' = taken /\ readData' = readData /\ filtering' = filtering
      /\ metas' = metas /\ metadata' = metadata /\ update' = update
      /\ updates' = updates /\ queue' = queue /\ stopped' = stopped /\ client' = client
  BY DEF FilterPart, sourceReads, listenerVars
<1>3. ~stopped /\ ~stopped' /\ readData = <<>>
  BY <1>1, <1>2 DEF ReadParts
<1>4. /\ SourceBytes' = SourceBytes /\ BlockCount' = BlockCount /\ Titles' = Titles
      /\ \A b : Ends(b)' = Ends(b) /\ Extent(b)' = Extent(b) /\ Texts(b)' = Texts(b)
      /\ \A B : TitleAt(B)' = TitleAt(B)
  BY <1>2, BlocksStay
<1>5. n \in Nat /\ work' = SubSeq(work, n + 1, Len(work)) /\ work \in Seq(SourceByte)
  <2>1. n \in Nat /\ work \in Seq(SourceByte)
    BY <1>1 DEF Mp3TypeOK
  <2>2. Part(work, n, n) = <<>>
    BY <2>1, PartWhole
  <2> QED
    BY <1>2, <2>1, <2>2 DEF Part
<1>6. GoesOn(n)
  <2>1. n <= Len(work)
    BY <1>5
  <2> QED
    BY <1>1, <1>2, <1>3, <1>5, <2>1, GoesOnIs
<1>7. /\ ReadTo' = ReadTo /\ Place' = Place + n /\ Cuts(SourceBytes, Place + n, ReadTo)
      /\ work' = Part(SourceBytes, Place + n, ReadTo) /\ work' \in Seq(SourceByte)
  BY <1>6 DEF GoesOn
<1>8. PICK b \in 1 .. BlockCount + 1 : /\ InBlock(b)
                                       /\ updates = 0 => ~update /\ metas[metadata].text = TitleAt(Texts(b))
  BY <1>1, <1>3 DEF AtBlock
<1>9. b \in 1 .. BlockCount /\ Song
  BY <1>1, <1>2, <1>3, <1>8, BlockThere, PlaceIs
<1>10. PICK o : TextAt(b, o)
  BY <1>1, <1>2, <1>3, <1>8, <1>9, StartedIs
<1> DEFINE z == Extent(b)
           e == Ends(b - 1)
<1>11. /\ Started \in BlockState /\ Started.no = b /\ Started.len = z /\ Started.offset = o
       /\ o \in Nat /\ o < z /\ z \in Nat /\ e \in Nat
       /\ Place = e + MetaInt + o /\ Missing = z - o
       /\ \A i \in 1 .. Missing : SourceBytes[Place + i].data = FALSE
  BY <1>10 DEF TextAt
<1>12. StreamOnly(Part(SourceBytes, 0, Place + n)) = StreamOnly(Part(SourceBytes, 0, Place))
  <2>1. \A i \in 1 .. n : i \in 1 .. Missing
    BY <1>2, <1>5, <1>11
  <2> QED
    BY <1>1, <1>3, <1>5, <1>6, <1>11, <2>1, Skipped
<1>13. o + n < z /\ o + n \in Nat /\ MetaInt \in Nat \ {0}
  <2>1. n < z - o
    BY <1>2, <1>11
  <2> HIDE DEF n, z
  <2> QED
    BY <1>5, <1>11, <2>1, Mp3Assumption
<1>14. /\ build' \in BlockState /\ build'.no = b /\ build'.len = z /\ build'.offset = o + n
  <2>1. build' = [Started EXCEPT !.offset = o + n]
    BY <1>2, <1>11
  <2> HIDE DEF z, n
  <2> QED
    BY <1>11, <1>13, <2>1 DEF BlockState
<1>15. Mp3TypeOK'
  BY <1>1, <1>2, <1>4, <1>7, <1>14 DEF Mp3TypeOK, BlockState
<1>16. Extended
  BY <1>2 DEF Extended
<1>17. ReadParts'
  <2>1. Cuts(SourceBytes', ReadTo', taken') /\ readData' = Part(SourceBytes', ReadTo', taken')
    BY <1>1, <1>2, <1>4, <1>7 DEF ReadParts
  <2>2. Cuts(SourceBytes', Place', ReadTo') /\ work' = Part(SourceBytes', Place', ReadTo')
    BY <1>4, <1>7
  <2> QED
    BY <1>2, <1>3, <2>1, <2>2 DEF ReadParts, Cuts, Part
<1>18. AtBlock'
  <2>1. InBlock(b)'
    <3>1. z # 0 /\ b <= BlockCount /\ offset = MetaInt
      <4>1. offset \in Nat
        BY <1>1 DEF Mp3TypeOK
      <4> QED
        BY <1>2, <1>9, <1>11, <1>13, <4>1 DEF MetaBlock, Song
    <3>2. Place' = Ends(b - 1)' + MetaInt + build'.offset
      <4>1. e' = e
        BY <1>4
      <4>2. Place' = (e + MetaInt + o) + n
        BY <1>7, <1>11
      <4> HIDE DEF e, n
      <4>3. (e + MetaInt + o) + n = e + MetaInt + (o + n)
        BY <1>5, <1>11, <1>13
      <4>4. Place' = e + MetaInt + (o + n)
        BY <4>2, <4>3
      <4> QED
        BY <1>4, <1>14, <4>4 DEF e
    <3> QED
      BY <1>2, <1>4, <1>13, <1>14, <3>1, <3>2 DEF InBlock
  <2>2. (updates = 0 => ~update /\ metas[metadata].text = TitleAt(Texts(b)))'
    BY <1>2, <1>4, <1>8
  <2> QED
    BY <1>4, <1>8, <2>1, <2>2 DEF AtBlock
<1>19. QueueHas'
  <2>1. QueueData' = QueueData /\ Intro' = Intro
    BY <1>2 DEF QueueData, Intro
  <2>2. FlattenSeq(QueueData) \o kept = Intro.data \o StreamOnly(Part(SourceBytes, 0, Place))
    BY <1>1, <1>2, <1>3 DEF QueueHas
  <2>3. FlattenSeq(QueueData') \o kept' = Intro'.data \o StreamOnly(Part(SourceBytes', 0, Place'))
    BY <1>2, <1>4, <1>7, <1>12, <2>1, <2>2
  <2> QED
    BY <1>1, <1>2, <2>3 DEF QueueHas, StreamOnly, Part
<1> QED
  BY <1>15, <1>16, <1>17, <1>18, <1>19 DEF Kept

(* The title after one more block. *)
LEMMA TitleNext ==
    ASSUME Song, NEW b \in 1 .. BlockCount
    PROVE  TitleAt(Texts(b + 1)) = IF blocks[b].units > 0 THEN blocks[b].text ELSE TitleAt(Texts(b))
<1>1. b \in Nat /\ (b + 1) - 1 = b /\ b \in 1 .. b
  BY DEF Song
<1>2. CASE blocks[b].units > 0
  <2> DEFINE B == Texts(b + 1)
             c == CHOOSE k \in B : \A x \in B : x <= k
  <2>1. b \in B /\ \A x \in B : x <= b /\ x \in Nat
    BY <1>1, <1>2 DEF Texts
  <2>2. c \in B /\ \A x \in B : x <= c
    BY <2>1
  <2>3. c = b
    <3> HIDE DEF B, c
    <3> QED
      BY <1>1, <2>1, <2>2
  <2>4. TitleAt(B) = blocks[c].text
    BY <2>1 DEF TitleAt
  <2> QED
    BY <1>2, <2>3, <2>4
<1>3. CASE ~(blocks[b].units > 0)
  <2>1. ASSUME NEW k \in 1 .. b, k # b PROVE k \in 1 .. b - 1
    BY <1>1, <2>1
  <2>2. ASSUME NEW k \in 1 .. b - 1 PROVE k \in 1 .. b
    BY <1>1
  <2>3. Texts(b + 1) = Texts(b)
    <3>1. Texts(b + 1) = {k \in 1 .. b : blocks[k].units > 0}
      BY <1>1 DEF Texts
    <3> QED
      BY <1>3, <2>1, <2>2, <3>1 DEF Texts
  <2> QED
    BY <1>3, <2>3
<1> QED
  BY <1>2, <1>3

(* A whole block is taken out; its text is the metadata from now on. *)
LEMMA FilterBlockKeeps ==
    ASSUME Mp3Inv, FilterBlock
    PROVE  Kept
<1> DEFINE n == Missing
           text == blocks[Started.no].text
           news == Started.len > 1 /\ text # metas[metadata].text
<1>1. Mp3TypeOK /\ ReadParts /\ AtBlock /\ QueueHas
  BY DEF Mp3Inv
<1>2. /\ filtering /\ work # <<>> /\ MetaBlock = 0 /\ Len(work) >= n
      /\ work' = SubSeq(work, n + 1, Len(work))
      /\ kept' = kept /\ blocks' = blocks /\ taken' = taken /\ readData' = readData
      /\ update' = update /\ updates' = updates /\ queue' = queue /\ client' = client
  BY DEF FilterBlock, sourceReads, listenerVars
<1>3. \/ /\ stopped' = TRUE /\ filtering' = FALSE /\ offset' = offset /\ build' = build
         /\ metas' = metas /\ metadata' = metadata
      \/ /\ offset' = 0 /\ build' = [Started EXCEPT !.len = 0]
         /\ metas' = IF news THEN Append(metas, blocks[Started.no]) ELSE metas
         /\ metadata' = IF news THEN Len(metas) + 1 ELSE metadata
         /\ stopped' = stopped /\ filtering' = filtering
  BY DEF FilterBlock
<1>4. ~stopped /\ readData = <<>>
  BY <1>1, <1>2 DEF ReadParts
<1>5. /\ SourceBytes' = SourceBytes /\ BlockCount' = BlockCount /\ Titles' = Titles
      /\ \A b : Ends(b)' = Ends(b) /\ Extent(b)' = Extent(b) /\ Texts(b)' = Texts(b)
      /\ \A B : TitleAt(B)' = TitleAt(B)
  BY <1>2, BlocksStay
<1>6. PICK b \in 1 .. BlockCount + 1 : /\ InBlock(b)
                                       /\ updates = 0 => ~update /\ metas[metadata].text = TitleAt(Texts(b))
  BY <1>1, <1>4 DEF AtBlock
<1>7. b \in 1 .. BlockCount /\ Song
  BY <1>1, <1>2, <1>4, <1>6, BlockThere, PlaceIs
<1>8. PICK o : TextAt(b, o)
  BY <1>1, <1>2, <1>4, <1>6, <1>7, StartedIs
<1> DEFINE z == Extent(b)
           e == Ends(b - 1)
<1>9. /\ Started \in BlockState /\ Started.no = b /\ Started.len = z
      /\ o \in Nat /\ o < z /\ z \in Nat /\ e \in Nat
      /\ Place = e + MetaInt + o /\ n = z - o /\ Ends(b) = e + MetaInt + z
      /\ \A i \in 1 .. n : SourceBytes[Place + i].data = FALSE
  BY <1>8 DEF TextAt
<1>10. n \in Nat /\ n <= Len(work) /\ MetaInt \in Nat /\ Len(work) \in Nat
  <2>1. Len(work) \in Nat
    BY <1>1 DEF Mp3TypeOK
  <2> HIDE DEF n, z, e
  <2> QED
    BY <1>2, <1>9, <2>1, Mp3Assumption
<1>11. GoesOn(n)
  <2> HIDE DEF n
  <2> QED
    BY <1>1, <1>2, <1>4, <1>10, GoesOnIs
<1>12. /\ ReadTo' = ReadTo /\ Place' = Place + n /\ Cuts(SourceBytes, Place + n, ReadTo)
       /\ work' = Part(SourceBytes, Place + n, ReadTo) /\ work' \in Seq(SourceByte)
  BY <1>11 DEF GoesOn
<1>13. Cuts(SourceBytes', ReadTo', taken') /\ readData' = Part(SourceBytes', ReadTo', taken')
  BY <1>1, <1>2, <1>5, <1>12 DEF ReadParts
<1>14. QueueData' = QueueData /\ Intro' = Intro
  BY <1>2 DEF QueueData, Intro
<1>15. CASE /\ stopped' = TRUE /\ filtering' = FALSE /\ offset' = offset /\ build' = build
            /\ metas' = metas /\ metadata' = metadata
  <2>1. Mp3TypeOK'
    BY <1>1, <1>2, <1>5, <1>12, <1>15 DEF Mp3TypeOK
  <2>2. Extended
    BY <1>2, <1>15 DEF Extended
  <2>3. ReadParts'
    BY <1>13, <1>15 DEF ReadParts, Cuts, Part
  <2>4. AtBlock'
    BY <1>15 DEF AtBlock
  <2>5. QueueHas'
    BY <1>1, <1>2, <1>15 DEF QueueHas
  <2> QED
    BY <2>1, <2>2, <2>3, <2>4, <2>5 DEF Kept
<1>16. CASE /\ offset' = 0 /\ build' = [Started EXCEPT !.len = 0]
            /\ metas' = IF news THEN Append(metas, blocks[Started.no]) ELSE metas
            /\ metadata' = IF news THEN Len(metas) + 1 ELSE metadata
            /\ stopped' = stopped /\ filtering' = filtering
  <2>1. StreamOnly(Part(SourceBytes, 0, Place + n)) = StreamOnly(Part(SourceBytes, 0, Place))
    <3> HIDE DEF n
    <3> QED
      BY <1>1, <1>4, <1>9, <1>10, <1>11, Skipped
  <2>2. build' \in BlockState /\ build'.len = 0
    BY <1>9, <1>16 DEF BlockState
  <2>3. metas \in Seq(Titles) /\ Len(metas) \in Nat /\ metadata \in 1 .. Len(metas) /\ blocks[b] \in Titles
    <3>1. blocks[b] \in Titles
      BY <1>7 DEF Titles
    <3> QED
      BY <1>1, <3>1 DEF Mp3TypeOK
  <2>4. /\ metas' = IF news THEN Append(metas, blocks[b]) ELSE metas
        /\ (news <=> z > 1 /\ blocks[b].text # metas[metadata].text)
    BY <1>9, <1>16
  <2> HIDE DEF news
  <2>5. /\ metas' \in Seq(Titles) /\ metadata' \in 1 .. Len(metas')
        /\ Len(metas) <= Len(metas)' /\ \A m \in 1 .. Len(metas) : metas'[m] = metas[m]
        /\ news => metas'[metadata'] = blocks[b]
        /\ ~news => metas' = metas /\ metadata' = metadata
    <3>1. CASE news
      <4>1. metas' = Append(metas, blocks[b]) /\ metadata' = Len(metas) + 1
        BY <1>16, <2>4, <3>1
      <4>2. /\ metas' \in Seq(Titles) /\ Len(metas') = Len(metas) + 1
            /\ metas'[Len(metas) + 1] = blocks[b]
            /\ \A m \in 1 .. Len(metas) : metas'[m] = metas[m]
        BY <2>3, <4>1
      <4>3. metadata' \in 1 .. Len(metas') /\ Len(metas) <= Len(metas)'
        BY <2>3, <4>1, <4>2
      <4> QED
        BY <3>1, <4>1, <4>2, <4>3
    <3>2. CASE ~news
      BY <1>16, <2>3, <2>4, <3>2
    <3> QED
      BY <3>1, <3>2
  <2>6. Mp3TypeOK'
    <3>1. offset' \in Nat
      BY <1>16
    <3> QED
      BY <1>1, <1>2, <1>5, <1>12, <1>16, <2>2, <2>5, <3>1 DEF Mp3TypeOK, BlockState
  <2>7. Extended
    BY <1>2, <2>5 DEF Extended
  <2>8. ReadParts'
    <3>1. Cuts(SourceBytes', Place', ReadTo') /\ work' = Part(SourceBytes', Place', ReadTo')
      BY <1>5, <1>12
    <3> QED
      BY <1>2, <1>4, <1>13, <1>16, <3>1 DEF ReadParts, Cuts, Part
  <2>9. InBlock(b + 1)'
    <3>1. Place' = Ends(b)
      <4>1. Place' = (e + MetaInt + o) + n
        BY <1>9, <1>12
      <4> HIDE DEF e, n, z
      <4>2. (e + MetaInt + o) + n = e + MetaInt + z
        BY <1>9, <1>10
      <4> QED
        BY <1>9, <4>1, <4>2
    <3>2. (b + 1) - 1 = b /\ Ends(b) \in Nat
      <4> HIDE DEF e, z
      <4> QED
        BY <1>7, <1>9, <1>10 DEF Song
    <3>3. Place' = Ends((b + 1) - 1)' + offset'
      <4>1. Ends((b + 1) - 1)' = Ends(b)
        BY <1>5, <3>2
      <4>2. Ends(b) + 0 = Ends(b)
        BY <3>2
      <4> QED
        BY <1>16, <3>1, <4>1, <4>2
    <3> QED
      BY <1>10, <1>16, <2>2, <3>3 DEF InBlock
  <2>10. ASSUME updates' = 0
         PROVE  ~update' /\ metas'[metadata'].text = TitleAt(Texts(b + 1))'
    <3>1. ~update /\ metas[metadata].text = TitleAt(Texts(b))
      BY <1>2, <1>6, <2>10
    <3>2. TitleAt(Texts(b + 1))' = TitleAt(Texts(b + 1))
      BY <1>2 DEF TitleAt, Texts
    <3>3. TitleAt(Texts(b + 1)) = IF blocks[b].units > 0 THEN blocks[b].text ELSE TitleAt(Texts(b))
      BY <1>7, TitleNext
    <3>4. z > 1 <=> blocks[b].units > 0
      <4>1. blocks[b].units \in Nat
        BY <1>7 DEF Song
      <4> QED
        BY <4>1, BlockLenIs DEF Extent
    <3>5. metas'[metadata'].text = TitleAt(Texts(b + 1))
      <4>1. CASE news
        BY <2>4, <2>5, <3>3, <3>4, <4>1
      <4>2. CASE ~news
        BY <2>4, <2>5, <3>1, <3>3, <3>4, <4>2
      <4> QED
        BY <4>1, <4>2
    <3> QED
      BY <1>2, <3>1, <3>2, <3>5
  <2>11. AtBlock'
    <3>1. b + 1 \in 1 .. BlockCount' + 1
      BY <1>5, <1>7 DEF Song
    <3> QED
      BY <2>9, <2>10, <3>1 DEF AtBlock
  <2>12. QueueHas'
    <3>1. FlattenSeq(QueueData) \o kept = Intro.data \o StreamOnly(Part(SourceBytes, 0, Place))
      BY <1>1, <1>2, <1>4 DEF QueueHas
    <3>2. FlattenSeq(QueueData') \o kept' = Intro'.data \o StreamOnly(Part(SourceBytes', 0, Place'))
      BY <1>2, <1>5, <1>12, <1>14, <2>1, <3>1
    <3>3. \A i \in 1 .. Len(queue) : queue[i].meta \in Nat /\ queue[i].meta <= Len(metas)
      BY <1>1, QueueIs
    <3>4. \A i \in 1 .. Len(queue) : queue[i].meta <= Len(metas)'
      <4>1. Len(metas)' \in Nat
        OBVIOUS
      <4> QED
        BY <2>3, <2>5, <3>3, <4>1
    <3> QED
      BY <1>2, <1>16, <3>2, <3>4 DEF QueueHas, StreamOnly, Part
  <2> QED
    BY <2>6, <2>7, <2>8, <2>11, <2>12 DEF Kept
<1> QED
  BY <1>3, <1>15, <1>16

(* What was kept is a buffer of the queue. *)
LEMMA FilterDoneKeeps ==
    ASSUME Mp3Inv, FilterDone
    PROVE  Kept
<1> DEFINE x == [data |-> kept, meta |-> metadata]
<1>1. Mp3TypeOK /\ ReadParts /\ AtBlock /\ QueueHas
  BY DEF Mp3Inv
<1>2. /\ filtering /\ work = <<>> /\ filtering' = FALSE
      /\ queue' = IF kept = <<>> THEN queue ELSE Append(queue, x)
      /\ work' = work /\ kept' = kept /\ offset' = offset /\ build' = build
      /\ blocks' = blocks /\ taken' = taken /\ readData' = readData
      /\ metas' = metas /\ metadata' = metadata /\ update' = update
      /\ updates' = updates /\ stopped' = stopped /\ client' = client
  BY DEF FilterDone, sourceReads, listenerVars
<1>3. ~stopped /\ readData = <<>>
  BY <1>1, <1>2 DEF ReadParts
<1>4. /\ SourceBytes' = SourceBytes /\ BlockCount' = BlockCount /\ Titles' = Titles
      /\ \A b : Ends(b)' = Ends(b) /\ Extent(b)' = Extent(b) /\ Texts(b)' = Texts(b)
      /\ \A B : TitleAt(B)' = TitleAt(B)
  BY <1>2, BlocksStay
<1>5. ReadTo' = ReadTo /\ Place' = Place
  BY <1>2 DEF ReadTo, Place
<1>6. /\ kept \in Seq(StreamByte) /\ metadata \in Nat /\ metadata <= Len(metas)
      /\ queue \in Seq(Mp3Buffer) /\ Len(queue) \in Nat
  BY <1>1 DEF Mp3TypeOK
<1>7. x \in Mp3Buffer /\ x.data = kept /\ x.meta = metadata
  BY <1>6 DEF Mp3Buffer
<1> HIDE DEF x
<1>8. /\ queue' \in Seq(Mp3Buffer) /\ Len(queue) <= Len(queue)'
      /\ \A i \in 1 .. Len(queue) : queue'[i] = queue[i]
      /\ \A i \in 1 .. Len(queue)' : i \in 1 .. Len(queue) \/ queue'[i] = x
  <2>1. CASE kept = <<>>
    BY <1>2, <1>6, <2>1
  <2>2. CASE kept # <<>>
    <3>1. queue' = Append(queue, x)
      BY <1>2, <2>2
    <3>2. /\ queue' \in Seq(Mp3Buffer) /\ Len(queue') = Len(queue) + 1
          /\ queue'[Len(queue) + 1] = x
          /\ \A i \in 1 .. Len(queue) : queue'[i] = queue[i]
      BY <1>6, <1>7, <3>1
    <3>3. \A i \in 1 .. Len(queue) + 1 : i \in 1 .. Len(queue) \/ i = Len(queue) + 1
      BY <1>6
    <3>4. Len(queue) <= Len(queue)' /\ \A i \in 1 .. Len(queue)' : i \in 1 .. Len(queue) \/ queue'[i] = x
      BY <1>6, <3>2, <3>3
    <3> QED
      BY <3>2, <3>4
  <2> QED
    BY <2>1, <2>2
<1>9. Mp3TypeOK'
  BY <1>1, <1>2, <1>4, <1>8 DEF Mp3TypeOK
<1>10. Extended
  BY <1>2, <1>8 DEF Extended
<1>11. ReadParts'
  BY <1>1, <1>2, <1>3, <1>4, <1>5 DEF ReadParts, Cuts, Part
<1>12. AtBlock'
  BY <1>1, <1>2, <1>4, <1>5 DEF AtBlock, InBlock
<1>13. FlattenSeq(QueueData') = FlattenSeq(QueueData) \o kept /\ FlattenSeq(QueueData') \in Seq(StreamByte)
  <2> DEFINE f == QueueData
             h == QueueData'
             m == Len(queue)
  <2>1. f \in Seq(Seq(StreamByte)) /\ m \in Nat /\ Len(f) = m /\ \A i \in 1 .. m : f[i] = queue[i].data
    BY <1>1, QueueIs
  <2>2. FlattenSeq(f) \in Seq(StreamByte) /\ FlattenSeq(Append(f, kept)) = FlattenSeq(f) \o kept
    BY <1>6, <2>1, FlattenAppend
  <2>3. CASE kept = <<>>
    <3>1. h = f
      BY <1>2, <2>3 DEF QueueData
    <3> HIDE DEF f, h
    <3>2. FlattenSeq(f) \o <<>> = FlattenSeq(f)
      BY <2>2, ConcatEmptySeq
    <3> QED
      BY <2>2, <2>3, <3>1, <3>2 DEF f, h
  <2>4. CASE kept # <<>>
    <3>1. queue' = Append(queue, x)
      BY <1>2, <2>4
    <3>2. /\ DOMAIN queue' = 1 .. m + 1 /\ queue'[m + 1] = x
          /\ \A i \in 1 .. m : queue'[i] = queue[i]
      BY <1>6, <1>7, <3>1
    <3>3. h = [i \in 1 .. m + 1 |-> queue'[i].data]
      BY <3>2 DEF QueueData
    <3> HIDE DEF f, h, m
    <3> DEFINE a == Append(f, kept)
    <3>4. /\ a \in Seq(Seq(StreamByte)) /\ Len(a) = m + 1 /\ a[m + 1] = kept
          /\ \A i \in 1 .. m : a[i] = f[i]
      BY <1>6, <2>1, AppendProperties
    <3> HIDE DEF a
    <3>5. a = [i \in 1 .. m + 1 |-> a[i]]
      BY <2>1, <3>4
    <3>6. ASSUME NEW i \in 1 .. m + 1 PROVE queue'[i].data = a[i]
      <4>1. CASE i = m + 1
        BY <1>7, <3>2, <3>4, <4>1
      <4>2. CASE i # m + 1
        <5>1. i \in 1 .. m
          BY <2>1, <4>2
        <5> QED
          BY <2>1, <3>2, <3>4, <5>1
      <4> QED
        BY <4>1, <4>2
    <3>7. h = a
      BY <3>3, <3>5, <3>6
    <3>8. FlattenSeq(h) = FlattenSeq(f) \o kept
      BY <2>2, <3>7 DEF a
    <3>9. FlattenSeq(f) \o kept \in Seq(StreamByte)
      BY <1>6, <2>2
    <3> QED
      BY <3>8, <3>9 DEF f, h
  <2> QED
    BY <2>3, <2>4
<1>14. QueueHas'
  <2>1. FlattenSeq(QueueData) \o kept = Intro.data \o StreamOnly(Part(SourceBytes, 0, Place))
    BY <1>1, <1>2, <1>3 DEF QueueHas
  <2>2. FlattenSeq(QueueData') \o <<>> = FlattenSeq(QueueData')
    BY <1>13, ConcatEmptySeq
  <2>3. Intro' = Intro
    BY DEF Intro
  <2>4. FlattenSeq(QueueData') \o <<>> = Intro'.data \o StreamOnly(Part(SourceBytes', 0, Place'))
    BY <1>4, <1>5, <1>13, <2>1, <2>2, <2>3
  <2>5. ASSUME NEW i \in 1 .. Len(queue)' PROVE queue'[i].meta <= Len(metas)'
    <3>1. CASE i \in 1 .. Len(queue)
      BY <1>1, <1>2, <1>8, <3>1 DEF QueueHas
    <3>2. CASE i \notin 1 .. Len(queue)
      BY <1>2, <1>6, <1>7, <1>8, <3>2
    <3> QED
      BY <3>1, <3>2
  <2> QED
    BY <1>2, <2>4, <2>5 DEF QueueHas, StreamOnly, Part
<1> QED
  BY <1>9, <1>10, <1>11, <1>12, <1>14 DEF Kept

----------------------------------------------------------------------------
(* The theorem *)

(* The intro is a buffer with bytes of the stream only. *)
LEMMA IntroIs == Intro.data \in Seq(StreamByte) /\ Intro.meta = 0 /\ Intro \in Mp3Buffer
<1> DEFINE x(i) == [data |-> TRUE, no |-> i - IntroSize]
           d == [i \in 1 .. IntroSize |-> x(i)]
<1>1. Intro = [data |-> d, meta |-> 0]
  BY DEF Intro
<1>2. IntroSize \in Nat
  BY Mp3Assumption
<1>3. \A i \in 1 .. IntroSize : x(i) \in StreamByte
  BY <1>2 DEF StreamByte
<1> HIDE DEF x
<1>4. d \in Seq(StreamByte)
  BY <1>2, <1>3
<1> HIDE DEF d
<1> QED
  BY <1>1, <1>4 DEF Mp3Buffer

(* Nothing was read and nothing was sent. *)
LEMMA Mp3Start ==
    ASSUME Mp3Init
    PROVE  Mp3Inv
<1>1. /\ blocks \in Mp3Streams /\ taken = 0 /\ readData = <<>> /\ work = <<>> /\ kept = <<>>
      /\ filtering = FALSE /\ offset = 0 /\ build = [no |-> 0, len |-> 0, offset |-> 0]
      /\ metas = <<[text |-> "", units |-> 1]>> /\ metadata = 1 /\ update = FALSE /\ updates = 0
      /\ queue = <<Intro>> /\ stopped = FALSE /\ client = NewClient
  BY DEF Mp3Init
<1>2. Song
  BY <1>1, SongOf
<1> DEFINE t == [text |-> "", units |-> 1]
<1>3. metas \in Seq(Titles) /\ Len(metas) = 1 /\ metas[1] = t /\ t.text = ""
  <2>1. t \in Titles
    BY DEF Titles
  <2>2. t.text = ""
    OBVIOUS
  <2>3. metas = <<t>>
    BY <1>1, Zenon
  <2> HIDE DEF t
  <2>4. metas \in Seq(Titles) /\ Len(metas) = 1 /\ metas[1] = t
    BY <2>1, <2>3
  <2> QED
    BY <2>2, <2>4
<1>4. NewClient \in Mp3Client
  BY DEF NewClient, Mp3Client
<1>5. /\ client.at = 1 /\ client.pos = 0 /\ client.since = 0 /\ client.inMeta = FALSE
      /\ client.metaOffset = 0 /\ client.begun = 0 /\ client.associated = 0 /\ client.got = <<>>
  BY <1>1 DEF NewClient
<1>6. queue \in Seq(Mp3Buffer) /\ Len(queue) = 1 /\ queue[1] = Intro /\ DOMAIN queue = 1 .. 1
  <2>1. queue = <<Intro>> /\ Intro \in Mp3Buffer
    BY <1>1, IntroIs, Zenon
  <2> QED
    BY <2>1
<1> HIDE DEF t
<1>7. Mp3TypeOK
  <2>1. build \in [no : Nat, len : Nat, offset : Nat]
    BY <1>1
  <2>2. <<>> \in Seq(SourceByte) /\ <<>> \in Seq(StreamByte)
    OBVIOUS
  <2>3. metadata \in 1 .. Len(metas)
    <3>1. metadata = 1
      BY <1>1, Zenon
    <3>2. Len(metas) = 1
      BY <1>3, Zenon
    <3>3. 1 \in 1 .. 1
      OBVIOUS
    <3> QED
      BY <3>1, <3>2, <3>3, Zenon
  <2> QED
    BY <1>1, <1>3, <1>4, <1>6, <2>1, <2>2, <2>3 DEF Mp3TypeOK
<1>8. ReadTo = 0 /\ Place = 0
  <2>1. readData = <<>> /\ work = <<>> /\ taken = 0
    BY <1>1, Zenon
  <2>2. Len(readData) = 0 /\ Len(work) = 0
    BY <2>1
  <2> QED
    <3> DEFINE lr == Len(readData)
               lw == Len(work)
    <3>1. ReadTo = taken - lr /\ Place = (taken - lr) - lw
      BY DEF ReadTo, Place
    <3>2. lr = 0 /\ lw = 0
      BY <2>2
    <3>3. taken = 0
      BY <2>1, Zenon
    <3> HIDE DEF lr, lw
    <3> QED
      BY <3>1, <3>2, <3>3
<1>9. Part(SourceBytes, 0, 0) = <<>> /\ Cuts(SourceBytes, 0, 0)
  <2>1. SourceBytes \in Seq(SourceByte) /\ Len(SourceBytes) \in Nat
    BY <1>2, SourceType
  <2> QED
    BY <2>1, PartWhole DEF Cuts
<1>10. ReadParts
  BY <1>1, <1>8, <1>9 DEF ReadParts
<1>11. AtBlock
  <2>1. 1 \in 1 .. BlockCount + 1 /\ 0 \in 0 .. BlockCount /\ 1 - 1 = 0
    BY <1>2 DEF Song
  <2>2. Ends(0) = 0
    BY <1>2, <2>1, BytesToIs
  <2>3. build.len = 0 /\ 0 <= MetaInt
    <3>1. build = [no |-> 0, len |-> 0, offset |-> 0]
      BY <1>1, Zenon
    <3> QED
      BY <3>1, Mp3Assumption
  <2>0. offset = 0
    BY <1>1, Zenon
  <2>4. InBlock(1)
    BY <1>8, <2>0, <2>1, <2>2, <2>3 DEF InBlock
  <2>5. Texts(1) = {}
    BY DEF Texts
  <2>6. metas[metadata].text = TitleAt(Texts(1))
    BY <1>1, <1>3, <2>5 DEF TitleAt
  <2> QED
    BY <1>1, <2>1, <2>4, <2>6 DEF AtBlock
<1> DEFINE f == QueueData
           d == Intro.data
<1>12. f = <<d>> /\ d \in Seq(StreamByte)
  BY <1>6, IntroIs DEF QueueData
<1>13. FlattenSeq(f) = d
  <2>1. <<>> \in Seq(Seq(StreamByte)) /\ Append(<<>>, d) = <<d>>
    BY <1>12
  <2>2. FlattenSeq(Append(<<>>, d)) = FlattenSeq(<<>>) \o d
    BY <1>12, <2>1, FlattenAppend
  <2>3. FlattenSeq(<<>>) = <<>>
    BY DEF FlattenSeq
  <2>4. <<>> \o d = d
    BY <1>12, ConcatEmptySeq
  <2> QED
    BY <1>12, <2>1, <2>2, <2>3, <2>4
<1>14. QueueHas
  <2>1. d \o <<>> = d
    BY <1>12, ConcatEmptySeq
  <2>2. FlattenSeq(QueueData) \o <<>> = Intro.data \o StreamOnly(Part(SourceBytes, 0, Place))
    BY <1>8, <1>9, <1>13, <2>1, StreamNone
  <2>3. \A i \in 1 .. Len(queue) : queue[i].meta <= Len(metas)
    <3>1. \A i \in 1 .. Len(queue) : i = 1
      BY <1>6
    <3>2. queue[1].meta = 0 /\ 0 <= 1
      BY <1>6, IntroIs
    <3> QED
      BY <1>3, <3>1, <3>2
  <2> QED
    BY <1>1, <2>2, <2>3 DEF QueueHas
<1>15. ListenerHas(client)
  <2>1. client.at <= Len(queue) /\ client.pos <= Len(queue[client.at].data) /\ client \in Mp3Client
    <3>1. Len(d) \in Nat
      BY <1>12
    <3>2. client.at <= Len(queue)
      BY <1>5, <1>6
    <3>3. client.pos <= Len(queue[client.at].data)
      BY <1>5, <1>6, <3>1
    <3>4. client \in Mp3Client
      BY <1>1, <1>4, Zenon
    <3> QED
      BY <3>2, <3>3, <3>4
  <2>2. SentTo(client) = <<>>
    <3>1. Part(d, 0, 0) = <<>>
      BY <1>12, PartWhole
    <3>2. FirstOf(f, 0) = <<>>
      <4>1. f \in Seq(Seq(StreamByte)) /\ 0 \in 0 .. Len(f)
        BY <1>12
      <4> HIDE DEF f
      <4> QED
        BY <4>1, FirstStep
    <3>3. SentTo(client) = FirstOf(f, 1 - 1) \o Part(d, 0, 0)
      BY <1>5, <1>6 DEF SentTo
    <3>4. 1 - 1 = 0 /\ <<>> \o <<>> = <<>>
      OBVIOUS
    <3> QED
      BY <3>1, <3>2, <3>3, <3>4
  <2>3. Len(<<>>) = 0
    OBVIOUS
  <2>4. Framed(<<>>)
    BY <2>3 DEF Framed
  <2>5. Aligned(client)
    <3>1. StreamCount(<<>>, 0) = 0
      BY CountType
    <3>2. Interval # 0 => 0 <= Interval /\ (0 - 0) % Interval = 0
      BY Mp3Assumption
    <3>3. Between(client)
      BY <1>5 DEF Between
    <3> QED
      BY <1>5, <2>3, <3>1, <3>2, <3>3 DEF Aligned
  <2> QED
    BY <1>5, <2>1, <2>2, <2>4, <2>5, StreamNone DEF ListenerHas
<1> QED
  BY <1>7, <1>10, <1>11, <1>14, <1>15 DEF Mp3Inv

(* Every step keeps the invariant. *)
LEMMA Mp3Step ==
    ASSUME Mp3Inv, [Mp3Next]_mp3Vars
    PROVE  Mp3Inv'
<1>1. CASE SetTag
  BY <1>1, SetTagKeeps, KeptIsAll
<1>2. ASSUME NEW n \in 1 .. BufSize, CompleteRead(n) PROVE Mp3Inv'
  BY <1>2, CompleteReadKeeps, KeptIsAll
<1>3. CASE FilterStream
  BY <1>3, FilterStreamKeeps, KeptIsAll
<1>4. CASE FilterPart
  BY <1>4, FilterPartKeeps, KeptIsAll
<1>5. CASE FilterBlock
  BY <1>5, FilterBlockKeeps, KeptIsAll
<1>6. CASE FilterDone
  BY <1>6, FilterDoneKeeps, KeptIsAll
<1>7. ASSUME NEW left \in 0 .. BufSize + 2, WriteToClient(left) PROVE Mp3Inv'
  BY <1>7, WriteKeeps
<1>8. CASE UNCHANGED mp3Vars
  <2>1. /\ blocks' = blocks /\ taken' = taken /\ readData' = readData /\ work' = work /\ kept' = kept
        /\ filtering' = filtering /\ offset' = offset /\ build' = build /\ metas' = metas
        /\ metadata' = metadata /\ update' = update /\ updates' = updates /\ queue' = queue
        /\ stopped' = stopped /\ client' = client
    BY <1>8 DEF mp3Vars
  <2>2. Mp3TypeOK /\ ReadParts /\ AtBlock /\ QueueHas
    BY DEF Mp3Inv
  <2>3. Mp3TypeOK'
    BY <2>1, <2>2 DEF Mp3TypeOK, Titles, BlockCount
  <2>4. ReadParts'
    BY <2>1, <2>2 DEF ReadParts, ReadTo, Place, SourceBytes, BytesTo, BytesOf
  <2>5. AtBlock'
    BY <2>1, <2>2 DEF AtBlock, InBlock, TitleAt, Texts, Place, ReadTo, Ends, Extent, BytesTo, BytesOf, BlockCount
  <2>6. QueueHas'
    BY <2>1, <2>2 DEF QueueHas, QueueData, Place, ReadTo, SourceBytes, BytesTo, BytesOf
  <2>7. Extended
    BY <2>1 DEF Extended
  <2> QED
    BY <2>3, <2>4, <2>5, <2>6, <2>7, KeptIsAll DEF Kept
<1> QED
  BY <1>1, <1>2, <1>3, <1>4, <1>5, <1>6, <1>7, <1>8 DEF Mp3Next

(* A sequence that is continued is a prefix. *)
LEMMA PrefixIs ==
    ASSUME NEW T, NEW s \in Seq(T), NEW d \in Seq(T), NEW t, t = s \o d
    PROVE  IsPrefix(s, t)
<1>1. /\ t \in Seq(T) /\ Len(s) \in Nat /\ Len(d) \in Nat /\ Len(t) = Len(s) + Len(d)
      /\ \A p \in 1 .. Len(s) : t[p] = s[p]
  BY ONLY s \in Seq(T), d \in Seq(T), t = s \o d, Behind
<1> DEFINE n == Len(s)
           a == Part(s, 0, n)
           b == Part(t, 0, n)
<1>2. Cuts(s, 0, n) /\ Cuts(t, 0, n) /\ n \in Nat /\ n - 0 = n
  BY <1>1 DEF Cuts
<1>3. a \in Seq(T) /\ Len(a) = n - 0 /\ \A k \in 1 .. n - 0 : a[k] = s[0 + k]
  BY <1>2, PartIs
<1>4. b \in Seq(T) /\ Len(b) = n - 0 /\ \A k \in 1 .. n - 0 : b[k] = t[0 + k]
  <2>1. t \in Seq(T) /\ Cuts(t, 0, n)
    BY <1>1, <1>2
  <2> HIDE DEF n
  <2> QED
    BY ONLY <2>1, PartIs
<1> HIDE DEF a, b
<1>5. ASSUME NEW k \in 1 .. n PROVE a[k] = b[k]
  <2>1. 0 + k = k /\ k \in 1 .. n - 0
    BY <1>2
  <2> QED
    BY <1>1, <1>3, <1>4, <2>1
<1>6. a = b
  BY <1>2, <1>3, <1>4, <1>5
<1>7. SubSeq(s, 1, n) = SubSeq(t, 1, n)
  BY <1>6 DEF a, b, Part
<1>8. Len(s) <= Len(t)
  BY <1>1
<1> QED
  BY <1>7, <1>8 DEF IsPrefix

(* The blocks before the place of the filter. *)
LEMMA TextsRead ==
    ASSUME Mp3TypeOK, ReadParts, ~stopped, NEW b \in 1 .. BlockCount + 1, InBlock(b)
    PROVE  {k \in DOMAIN blocks : blocks[k].units > 0 /\ Len(BytesTo(k)) <= Place} = Texts(b)
<1> DEFINE n == BlockCount
           p == Place
<1>1. Song /\ p \in Nat
  BY PlaceIs
<1>2. n \in Nat /\ DOMAIN blocks = 1 .. n /\ \A k \in 0 .. n : Ends(k) \in Nat
  BY <1>1, BytesToIs DEF Song
<1>3. Ends(b - 1) <= p
  <2> DEFINE e == Ends(b - 1)
  <2>1. e \in Nat
    BY <1>2
  <2>2. MetaInt \in Nat /\ offset \in Nat /\ build.offset \in Nat
    BY Mp3Assumption DEF Mp3TypeOK
  <2>3. p = e + offset \/ p = e + MetaInt + build.offset
    BY DEF InBlock
  <2> HIDE DEF e, p
  <2>4. e <= p
    BY <2>1, <2>2, <2>3
  <2> QED
    BY <2>4 DEF e
<1>4. b <= n => p < Ends(b)
  <2> SUFFICES ASSUME b <= n PROVE p < Ends(b)
    OBVIOUS
  <2> DEFINE e == Ends(b - 1)
             z == Extent(b)
             l == build.len
             o == build.offset
  <2>1. b \in 1 .. n
    BY <1>2
  <2>2. e \in Nat /\ MetaInt \in Nat /\ z \in Nat \ {0} /\ Ends(b) = e + MetaInt + z
    BY <1>1, <2>1, SourceIs
  <2>3. offset \in Nat /\ o \in Nat
    BY DEF Mp3TypeOK
  <2>4. (p = e + offset /\ offset <= MetaInt) \/ (p = e + MetaInt + o /\ o < l /\ l = z)
    BY DEF InBlock
  <2> HIDE DEF e, p, z, l, o
  <2>5. p < e + MetaInt + z
    <3>1. CASE p = e + offset /\ offset <= MetaInt
      BY <2>2, <2>3, <3>1
    <3>2. CASE p = e + MetaInt + o /\ o < l /\ l = z
      BY <2>2, <2>3, <3>2
    <3> QED
      BY <2>4, <3>1, <3>2
  <2> QED
    BY <2>2, <2>5
<1>5. ASSUME NEW k \in 1 .. n PROVE (Ends(k) <= p) <=> k \in 1 .. b - 1
  <2>1. k \in 0 .. n /\ b - 1 \in 0 .. n /\ Ends(k) \in Nat /\ Ends(b - 1) \in Nat
    BY <1>2
  <2>2. CASE k < b
    <3>1. k = b - 1 \/ k < b - 1
      BY <1>2, <2>2
    <3>2. Ends(k) <= Ends(b - 1)
      <4>1. CASE k = b - 1
        BY <2>1, <4>1
      <4>2. CASE k < b - 1
        <5>1. Ends(k) < Ends(b - 1)
          BY <1>1, <2>1, <4>2, EndsGrow
        <5> QED
          BY <2>1, <5>1
      <4> QED
        BY <3>1, <4>1, <4>2
    <3>3. Ends(k) <= p
      <4> DEFINE x == Ends(k)
                 y == Ends(b - 1)
      <4>1. x \in Nat /\ y \in Nat /\ x <= y /\ y <= p
        BY <1>3, <2>1, <3>2
      <4> HIDE DEF x, y, p
      <4>2. x <= p
        BY <1>1, <4>1
      <4> QED
        BY <4>2 DEF x
    <3>4. k \in 1 .. b - 1
      BY <1>2, <2>2
    <3> QED
      BY <3>3, <3>4
  <2>3. CASE ~(k < b)
    <3>1. b <= n /\ b \in 0 .. n /\ k \notin 1 .. b - 1 /\ (k = b \/ b < k)
      BY <1>2, <2>3
    <3>2. Ends(b) \in Nat /\ p < Ends(b)
      BY <1>2, <1>4, <3>1
    <3>3. Ends(b) <= Ends(k)
      <4>1. CASE k = b
        BY <3>2, <4>1
      <4>2. CASE b < k
        <5>1. Ends(b) < Ends(k)
          BY <1>1, <2>1, <3>1, <4>2, EndsGrow
        <5> QED
          BY <2>1, <3>2, <5>1
      <4> QED
        BY <3>1, <4>1, <4>2
    <3>4. ~(Ends(k) <= p)
      <4> DEFINE x == Ends(k)
                 y == Ends(b)
      <4>1. x \in Nat /\ y \in Nat /\ y <= x /\ p < y
        BY <2>1, <3>2, <3>3
      <4> HIDE DEF x, y, p
      <4>2. ~(x <= p)
        BY <1>1, <4>1
      <4> QED
        BY <4>2 DEF x
    <3> QED
      BY <3>1, <3>4
  <2> QED
    BY <2>2, <2>3
<1>6. \A k \in 1 .. b - 1 : k \in 1 .. n
  BY <1>2
<1>7. \A k : Len(BytesTo(k)) = Ends(k)
  BY DEF Ends
<1> QED
  BY <1>2, <1>5, <1>6, <1>7 DEF Texts

(* What the invariant says of the source, and of the listener. *)
LEMMA FilteredIs ==
    ASSUME Mp3Inv
    PROVE  Filtered
<1> SUFFICES ASSUME ~filtering, ~stopped
             PROVE  FlattenSeq([i \in DOMAIN queue |-> queue[i].data])
                      = Intro.data \o StreamOnly(SubSeq(SourceBytes, 1, taken - Len(readData)))
  BY DEF Filtered
<1>1. Mp3TypeOK /\ ReadParts /\ QueueHas
  BY DEF Mp3Inv
<1>2. work = <<>> /\ ReadTo \in Nat /\ Place \in Nat /\ Place + Len(work) = ReadTo
  BY <1>1, PlaceIs DEF ReadParts
<1>3. Place = ReadTo
  <2>1. Len(work) = 0
    BY <1>2
  <2> QED
    BY <1>2, <2>1
<1>4. FlattenSeq(QueueData) \o <<>> = Intro.data \o StreamOnly(Part(SourceBytes, 0, ReadTo))
  BY <1>1, <1>3 DEF QueueHas
<1>5. FlattenSeq(QueueData) \in Seq(StreamByte)
  <2>1. QueueData \in Seq(Seq(StreamByte))
    BY <1>1, QueueIs
  <2>2. FirstOf(QueueData, Len(QueueData)) = FlattenSeq(QueueData) /\ Len(QueueData) \in 0 .. Len(QueueData)
    BY <2>1, FirstAll
  <2> QED
    BY <2>1, <2>2, FirstStep
<1>6. FlattenSeq(QueueData) \o <<>> = FlattenSeq(QueueData)
  BY <1>5, ConcatEmptySeq
<1>7. Part(SourceBytes, 0, ReadTo) = SubSeq(SourceBytes, 1, taken - Len(readData))
  BY DEF Part, ReadTo
<1> QED
  BY <1>4, <1>6, <1>7 DEF QueueData

(* The title is that of the last block with a text. *)
LEMMA TitleIs ==
    ASSUME Mp3Inv
    PROVE  TitleKnown
<1> DEFINE texts == {k \in DOMAIN blocks : blocks[k].units > 0 /\ Len(BytesTo(k)) <= taken - Len(readData)}
<1> SUFFICES ASSUME ~filtering, ~stopped, updates = 0
             PROVE  metas[metadata].text = TitleAt(texts)
  BY DEF TitleKnown, TitleAt
<1>1. Mp3TypeOK /\ ReadParts /\ AtBlock
  BY DEF Mp3Inv
<1>2. work = <<>> /\ ReadTo \in Nat /\ Place \in Nat /\ Place + Len(work) = ReadTo
  BY <1>1, PlaceIs DEF ReadParts
<1>3. Place = taken - Len(readData)
  <2>1. Len(work) = 0
    BY <1>2
  <2>2. Place = ReadTo
    BY <1>2, <2>1
  <2> QED
    BY <2>2 DEF ReadTo
<1>4. PICK b \in 1 .. BlockCount + 1 : InBlock(b) /\ metas[metadata].text = TitleAt(Texts(b))
  BY <1>1 DEF AtBlock
<1>5. texts = Texts(b)
  BY <1>1, <1>3, <1>4, TextsRead
<1> QED
  BY <1>4, <1>5

(* Blocks are whole and at the listener's interval. *)
LEMMA WellFormedIs ==
    ASSUME Mp3Inv
    PROVE  WellFormed
<1> DEFINE g == client.got
           a == client.at
           f == QueueData
           q == queue[a].data
           r == client.pos
<1>1. Mp3TypeOK /\ QueueHas /\ ListenerHas(client)
  BY DEF Mp3Inv
<1>2. /\ client \in Mp3Client /\ a <= Len(queue) /\ r <= Len(q)
      /\ StreamOnly(g) = FirstOf(f, a - 1) \o Part(q, 0, r) /\ Framed(g)
  BY <1>1 DEF ListenerHas, SentTo
<1>3. a \in 1 .. Len(queue) /\ r \in Nat /\ Len(queue) \in Nat
  <2>1. a \in Nat \ {0} /\ r \in Nat
    BY <1>2 DEF Mp3Client
  <2>2. Len(queue) \in Nat
    BY <1>1, QueueIs
  <2> HIDE DEF a
  <2> QED
    BY <1>2, <2>1, <2>2
<1>4. /\ f \in Seq(Seq(StreamByte)) /\ Len(f) = Len(queue) /\ f[a] = q /\ q \in Seq(StreamByte)
  BY <1>1, <1>3, QueueIs
<1>5. IsPrefix(StreamOnly(g), FlattenSeq(f))
  <2> HIDE DEF g, a, f, q, r
  <2>1. a \in 0 .. Len(f) /\ a - 1 \in 0 .. Len(f) /\ a # 0 /\ Len(f) \in a .. Len(f)
    BY <1>3, <1>4
  <2>2. /\ FirstOf(f, a) = FirstOf(f, a - 1) \o q /\ FirstOf(f, a) \in Seq(StreamByte)
        /\ FirstOf(f, a - 1) \in Seq(StreamByte)
    BY <1>4, <2>1, FirstStep
  <2>3. PICK rest \in Seq(StreamByte) : FirstOf(f, Len(f)) = FirstOf(f, a) \o rest
    <3>1. f \in Seq(Seq(StreamByte)) /\ a \in 0 .. Len(f) /\ Len(f) \in a .. Len(f)
      BY <1>4, <2>1
    <3> QED
      BY ONLY <3>1, FirstGrows
  <2>4. FirstOf(f, Len(f)) = FlattenSeq(f)
    BY <1>4, FirstAll
  <2> DEFINE u == FirstOf(f, a - 1)
             v == Part(q, 0, r)
             w == Part(q, r, Len(q))
  <2>5. v \in Seq(StreamByte) /\ w \in Seq(StreamByte) /\ v \o w = q
    <3>1. Cuts(q, 0, r) /\ Cuts(q, r, Len(q)) /\ Len(q) \in Nat
      BY <1>2, <1>3, <1>4 DEF Cuts
    <3>2. v \o w = Part(q, 0, Len(q)) /\ v \in Seq(StreamByte) /\ w \in Seq(StreamByte)
      BY <1>4, <3>1, PartsJoin, PartIs
    <3>3. Part(q, 0, Len(q)) = q
      BY <1>4, PartWhole
    <3> QED
      BY <3>2, <3>3
  <2>6. u \in Seq(StreamByte) /\ FlattenSeq(f) = (u \o q) \o rest /\ StreamOnly(g) = u \o v
    BY <1>2, <2>2, <2>3, <2>4
  <2> HIDE DEF u, v, w
  <2>7. (u \o (v \o w)) \o rest = (u \o v) \o (w \o rest) /\ w \o rest \in Seq(StreamByte) /\ u \o v \in Seq(StreamByte)
    <3>1. u \in Seq(StreamByte) /\ v \in Seq(StreamByte) /\ w \in Seq(StreamByte) /\ rest \in Seq(StreamByte)
      BY <2>5, <2>6
    <3>2. u \o (v \o w) = (u \o v) \o w
      BY ONLY <3>1, ConcatAssociative
    <3>3. w \o rest \in Seq(StreamByte) /\ u \o v \in Seq(StreamByte)
      BY ONLY <3>1
    <3>4. ((u \o v) \o w) \o rest = (u \o v) \o (w \o rest)
      BY ONLY <3>1, <3>3, ConcatAssociative
    <3> QED
      BY <3>2, <3>3, <3>4, Zenon
  <2> DEFINE s == StreamOnly(g)
             t == FlattenSeq(f)
             d == w \o rest
  <2>8. s \in Seq(StreamByte) /\ d \in Seq(StreamByte) /\ t = s \o d
    BY <2>5, <2>6, <2>7, Zenon
  <2> HIDE DEF s, t, d
  <2>9. IsPrefix(s, t)
    BY ONLY <2>8, PrefixIs
  <2> QED
    BY <2>9 DEF s, t
<1>6. (\A i \in 2 .. Len(g) : Fits(g, i)) /\ (g # <<>> => g[1].data)
  BY <1>2 DEF Framed
<1> QED
  BY <1>5, <1>6 DEF WellFormed, QueueData, Fits, StreamCount, BlockEnds

(* mp3_get_filter_meta and format_mp3_write_buf_to_client: what a source   *)
(* sends as its stream is what a listener gets as its stream, the title is *)
(* that of the last block, and the blocks that a listener gets are whole   *)
(* and in their places, whatever the reads and the writes are.             *)
THEOREM Mp3KeepsStream == Mp3Init /\ [][Mp3Next]_mp3Vars => []Mp3Faithful
<1>1. Mp3Init => Mp3Inv
  BY Mp3Start
<1>2. Mp3Inv /\ [Mp3Next]_mp3Vars => Mp3Inv'
  BY Mp3Step
<1>3. Mp3Inv => Mp3Faithful
  BY FilteredIs, TitleIs, WellFormedIs DEF Mp3Faithful
<1> QED
  BY <1>1, <1>2, <1>3, PTL
=============================================================================
