---------------------------- MODULE MountsProofs ----------------------------
(***************************************************************************)
(* Proofs about Mounts: for any mounts, clients, fallbacks and limits, a   *)
(* client is in one place, no source is freed while it is in use, and the  *)
(* counters of listeners and sources are exact.                            *)
(***************************************************************************)
EXTENDS Mounts, FiniteSetTheorems, WellFoundedInduction, TLAPS

(* A non-empty set of naturals has a least element, and Min returns it. *)
LEMMA MinOfNats ==
    ASSUME NEW S \in SUBSET Nat, S # {}
    PROVE  /\ Min(S) \in S
           /\ \A x \in S : Min(S) <= x
<1> DEFINE R == OpToRel(<, Nat)
<1>1. R = {p \in Nat \X Nat : p[1] < p[2]}
  BY Zenon DEF OpToRel
<1>2. IsWellFoundedOn(R, Nat)
  BY NatLessThanWellFounded, Zenon
<1> HIDE DEF R
<1>3. PICK m \in S : \A x \in S : ~(<<x, m>> \in R)
  BY <1>2, WFMin
<1>4. ASSUME NEW x \in S PROVE m <= x
  <2>1. <<x, m>> \in Nat \X Nat /\ <<x, m>>[1] = x /\ <<x, m>>[2] = m
    OBVIOUS
  <2> QED
    BY <1>1, <1>3, <2>1
<1> QED
  BY <1>4 DEF Min

(* source_find_mount only finds sources that exist. *)
LEMMA FindMountExists ==
    ASSUME NEW m
    PROVE  FindMount(m) # None
             => FindMount(m) \in Mount /\ phase[FindMount(m)] # "free"
<1> DEFINE found == {k \in 0 .. MaxDepth - 1 : Usable(FallbackAt[k][m])}
<1>1. found \in SUBSET Nat
  BY MountsAssumption
<1>2. found # {} => Min(found) \in found
  BY <1>1, MinOfNats
<1>3. found # {} => Usable(FallbackAt[Min(found)][m])
  BY <1>2
<1>4. FindMount(m) = IF found = {} THEN None ELSE FallbackAt[Min(found)][m]
  BY DEF FindMount
<1> HIDE DEF found
<1> QED
  BY <1>3, <1>4 DEF Usable

(* The trees are finite. *)
LEMMA TreesFinite ==
    ASSUME TypeOK, NEW m \in Mount
    PROVE  /\ IsFiniteSet(tree[m]) /\ IsFiniteSet(pending[m])
           /\ Cardinality(tree[m]) \in Nat /\ Cardinality(pending[m]) \in Nat
<1>1. tree[m] \in SUBSET Client /\ pending[m] \in SUBSET Client
  BY DEF TypeOK
<1> QED
  BY <1>1, MountsAssumption, FS_Subset, FS_CardinalityType

(* What source_move_clients does, seen by a client. *)
LEMMA MoveEffect ==
    ASSUME TypeOK, NEW s \in Mount, NEW d \in Mount, MoveClients(s, d)
    PROVE  /\ pending' \in [Mount -> SUBSET Client]
           /\ tree' \in [Mount -> SUBSET Client]
           /\ listeners' \in [Mount -> Nat]
           /\ wanted' \in [Mount -> BOOLEAN]
           /\ \/ UNCHANGED <<pending, tree, listeners>>
              \/ /\ s # d
                 /\ \A m \in Mount :
                       pending'[m] = IF m = s THEN {}
                                     ELSE IF m = d THEN pending[d] \cup (pending[s] \cup tree[s])
                                     ELSE pending[m]
                 /\ \A m \in Mount : tree'[m] = IF m = s THEN {} ELSE tree[m]
                 /\ \A m \in Mount : listeners'[m] = IF m = s THEN 0 ELSE listeners[m]
<1>1. CASE ~CanMove(s, d)
  BY <1>1 DEF MoveClients, TypeOK
<1>2. CASE CanMove(s, d)
  <2>1. s # d
    BY <1>2 DEF CanMove
  <2>2. /\ pending' = [pending EXCEPT ![s] = {}, ![d] = pending[d] \cup (pending[s] \cup tree[s])]
        /\ tree' = [tree EXCEPT ![s] = {}]
        /\ listeners' = [listeners EXCEPT ![s] = 0]
        /\ wanted' = [wanted EXCEPT ![d] =
                @ \/ (~running[d] /\ onDemand[d] /\ pending[s] \cup tree[s] # {})]
    BY <1>2 DEF MoveClients
  <2>3. wanted' \in [Mount -> BOOLEAN]
    BY <2>2, Zenon DEF TypeOK
  <2>4. pending[s] \cup tree[s] \in SUBSET Client /\ pending \in [Mount -> SUBSET Client]
    BY DEF TypeOK
  <2>5. /\ pending' \in [Mount -> SUBSET Client]
        /\ \A m \in Mount :
              pending'[m] = IF m = s THEN {}
                            ELSE IF m = d THEN pending[d] \cup (pending[s] \cup tree[s])
                            ELSE pending[m]
    <3> DEFINE moved == pending[s] \cup tree[s]
    <3>1. pending[d] \cup moved \in SUBSET Client
      BY <2>4
    <3> HIDE DEF moved
    <3> DEFINE new == pending[d] \cup moved
    <3>2. pending' = [pending EXCEPT ![s] = {}, ![d] = new]
      BY <2>2 DEF moved
    <3>3. new \in SUBSET Client
      BY <3>1
    <3> HIDE DEF new
    <3>4. \A m \in Mount : pending'[m] = IF m = d THEN new
                                         ELSE IF m = s THEN {} ELSE pending[m]
      BY <2>4, <3>2
    <3>5. pending' \in [Mount -> SUBSET Client]
      BY <2>4, <3>2, <3>3
    <3> QED
      BY <2>1, <3>4, <3>5 DEF new, moved
  <2>6. /\ tree' \in [Mount -> SUBSET Client] /\ listeners' \in [Mount -> Nat]
        /\ \A m \in Mount : tree'[m] = IF m = s THEN {} ELSE tree[m]
        /\ \A m \in Mount : listeners'[m] = IF m = s THEN 0 ELSE listeners[m]
    BY <2>2 DEF TypeOK
  <2> QED
    BY <2>1, <2>3, <2>5, <2>6
<1> QED
  BY <1>1, <1>2

(* Every step preserves the types.  That the counters stay natural numbers *)
(* rests on their being exact.                                             *)
LEMMA TypeInv ==
    ASSUME IInv, [Next]_vars
    PROVE  TypeOK'
<1> USE MountsAssumption DEF IInv
<1> USE DEF demandVars, settingVars, countVars, placeVars, clientVars,
            sourceVars, vars
<1>0. TypeOK
  OBVIOUS
<1>1. CASE UNCHANGED vars
  BY <1>0, <1>1 DEF TypeOK
<1>2. ASSUME NEW c \in Client, GetFind(c)
      PROVE  TypeOK'
  <2>1. PICK m \in Mount :
            /\ FindMount(m) # None
            /\ request' = [request EXCEPT ![c] =
                  [at |-> "found", mount |-> FindMount(m), loop |-> MaxDepth]]
    BY <1>2 DEF GetFind
  <2>2. FindMount(m) \in Mount
    BY <2>1, FindMountExists
  <2>3. request' \in [Client -> {Idle} \cup
            [at : {"found", "added"}, mount : Mount, loop : 0 .. MaxDepth]]
    BY <1>0, <2>1, <2>2 DEF TypeOK
  <2> QED
    BY <1>0, <1>2, <2>3 DEF GetFind, TypeOK
<1>3. ASSUME NEW c \in Client, GetSpill(c) \/ GetRefused(c) \/ GetAdd(c)
      PROVE  TypeOK'
  <2>1. request[c] \in [at : {"found", "added"}, mount : Mount, loop : 0 .. MaxDepth]
    BY <1>0, <1>3 DEF TypeOK, GetSpill, GetRefused, GetAdd, Idle
  <2>2. CASE GetSpill(c)
    <3>1. FindMount(fallback[request[c].mount]) \in Mount
      BY <2>2, FindMountExists DEF GetSpill
    <3> QED
      BY <1>0, <2>1, <2>2, <3>1 DEF GetSpill, TypeOK
  <2>3. CASE GetRefused(c)
    BY <1>0, <2>3 DEF GetRefused, TypeOK
  <2>4. CASE GetAdd(c)
    BY <1>0, <2>1, <2>4 DEF GetAdd, TypeOK
  <2> QED
    BY <1>3, <2>2, <2>3, <2>4
<1>4. ASSUME NEW c \in Client, GetWake(c)
      PROVE  TypeOK'
  <2>1. wanted' \in [Mount -> BOOLEAN]
    BY <1>0, <1>4, Zenon DEF GetWake, TypeOK
  <2> QED
    BY <1>0, <1>4, <2>1 DEF GetWake, TypeOK
<1>5. ASSUME NEW m \in Mount, Reserve(m)
      PROVE  TypeOK'
  <2>1. onDemand' \in [Mount -> BOOLEAN]
    <3>1. onDemand' = [onDemand EXCEPT ![m] = m \in OnDemand]
      BY <1>5 DEF Reserve
    <3>2. (m \in OnDemand) \in BOOLEAN /\ onDemand \in [Mount -> BOOLEAN]
      BY <1>0 DEF TypeOK
    <3> QED
      BY <3>1, <3>2, Zenon
  <2> QED
    BY <1>0, <1>5, <2>1 DEF TypeOK, Phases, Goto, Reserve
<1>6. ASSUME NEW m \in Mount, CompleteFails(m)
      PROVE  TypeOK'
  BY <1>0, <1>6 DEF TypeOK, Phases, Goto, CompleteFails
<1>7. ASSUME NEW m \in Mount, StartupSent(m) \/ StartupUnsupported(m) \/ LeaveLoop(m)
      PROVE  TypeOK'
  <2>1. phase' \in [Mount -> Phases]
    BY <1>0, <1>7 DEF TypeOK, Phases, Goto, StartupSent, StartupUnsupported, LeaveLoop
  <2> QED
    BY <1>0, <1>7, <2>1 DEF TypeOK, StartupSent, StartupUnsupported, LeaveLoop
<1>16. ASSUME NEW m \in Mount, StopSource(m)
       PROVE  TypeOK'
  BY <1>0, <1>16 DEF TypeOK, StopSource
<1>8. ASSUME NEW m \in Mount, RelayFailed(m)
      PROVE  TypeOK'
  BY <1>0, <1>8 DEF TypeOK, Phases, Goto, RelayFailed
<1>9. ASSUME NEW m \in Mount, SourceInit(m)
      PROVE  TypeOK'
  BY <1>0, <1>9 DEF TypeOK, Phases, Goto, SourceInit
<1>10. ASSUME NEW m \in Mount, Complete(m)
       PROVE  TypeOK'
  BY <1>0, <1>10 DEF TypeOK, Phases, Goto, Complete, UpdateSettings
<1>11. ASSUME NEW m \in Mount, StartupBroken(m) \/ CountDown(m)
       PROVE  TypeOK'
  <2>1. counted[m]
    BY <1>11 DEF SourcesCounted, Connected, StartupBroken, CountDown, At
  <2>2. sources - 1 \in Nat
    <3>1. IsFiniteSet({x \in Mount : counted[x]}) /\ m \in {x \in Mount : counted[x]}
      BY <2>1, FS_Subset
    <3>2. sources # 0
      BY <3>1, FS_EmptySet DEF SourcesCounted
    <3> QED
      BY <1>0, <3>2 DEF TypeOK
  <2>3. CASE StartupBroken(m)
    BY <1>0, <2>2, <2>3 DEF TypeOK, Phases, Goto, StartupBroken
  <2>4. CASE CountDown(m)
    BY <1>0, <2>2, <2>4 DEF TypeOK, Phases, Goto, CountDown
  <2> QED
    BY <1>11, <2>3, <2>4
<1>12. ASSUME NEW m \in Mount, FindStolen(m) \/ FindFallback(m)
       PROVE  TypeOK'
  <2>1. FindMount(fallback[m]) \in Mount \cup {None}
    BY FindMountExists
  <2>2. phase' \in [Mount -> Phases]
    <3>1. CASE FindStolen(m)
      BY <1>0, <3>1 DEF TypeOK, Phases, Goto, FindStolen
    <3>2. CASE FindFallback(m)
      BY <1>0, <3>2 DEF TypeOK, Phases, Goto, FindFallback
    <3> QED
      BY <1>12, <3>1, <3>2
  <2>3. target' \in [Mount -> Mount \cup {None}]
    <3>1. CASE FindStolen(m)
      BY <1>0, <2>1, <3>1 DEF TypeOK, FindStolen
    <3>2. CASE FindFallback(m)
      BY <1>0, <2>1, <3>2 DEF TypeOK, FindFallback
    <3> QED
      BY <1>12, <3>1, <3>2
  <2> QED
    BY <1>0, <1>12, <2>2, <2>3 DEF TypeOK, FindStolen, FindFallback
<1>13. ASSUME NEW m \in Mount, TakeStolen(m) \/ MoveToFallback(m)
       PROVE  TypeOK'
  <2>1. target[m] # None => target[m] \in Mount
    BY <1>0 DEF TypeOK
  <2>2. /\ pending' \in [Mount -> SUBSET Client] /\ tree' \in [Mount -> SUBSET Client]
        /\ listeners' \in [Mount -> Nat] /\ wanted' \in [Mount -> BOOLEAN]
    <3>1. CASE target[m] = None
      BY <1>0, <1>13, <3>1 DEF TypeOK, TakeStolen, MoveToFallback
    <3>2. CASE target[m] # None /\ TakeStolen(m)
      BY <1>0, <2>1, <3>2, MoveEffect DEF TakeStolen
    <3>3. CASE target[m] # None /\ MoveToFallback(m)
      BY <1>0, <2>1, <3>3, MoveEffect DEF MoveToFallback
    <3> QED
      BY <1>13, <3>1, <3>2, <3>3
  <2>3. phase' \in [Mount -> Phases] /\ target' \in [Mount -> Mount \cup {None}]
    <3>1. CASE TakeStolen(m)
      BY <1>0, <3>1 DEF TypeOK, Phases, Goto, TakeStolen
    <3>2. CASE MoveToFallback(m)
      BY <1>0, <3>2 DEF TypeOK, Phases, Goto, MoveToFallback
    <3> QED
      BY <1>13, <3>1, <3>2
  <2>4. UNCHANGED <<running, onDemand, format, settingVars, countVars,
                    previous, clientVars>>
    BY <1>13 DEF TakeStolen, MoveToFallback
  <2> QED
    BY <1>0, <2>2, <2>3, <2>4 DEF TypeOK
<1>15. ASSUME NEW m \in Mount, NEW c \in Client, ListenerGone(m, c)
       PROVE  TypeOK'
  <2>2. listeners[m] - 1 \in Nat
    <3>1. tree[m] # {} /\ IsFiniteSet(tree[m])
      BY <1>0, <1>15, TreesFinite DEF ListenerGone
    <3>2. listeners[m] # 0
      BY <3>1, FS_EmptySet DEF ListenersCounted
    <3> QED
      BY <1>0, <3>2 DEF TypeOK
  <2> QED
    BY <1>0, <1>15, <2>2 DEF TypeOK, ListenerGone
<1>17. ASSUME NEW m \in Mount, AdmitPending(m)
       PROVE  TypeOK'
  <2>1. PICK K \in SUBSET pending[m] :
           /\ Cardinality(K) = Min({Cardinality(pending[m]), Room(m)})
           /\ tree' = [tree EXCEPT ![m] = @ \cup K]
           /\ listeners' = [listeners EXCEPT ![m] = @ + Cardinality(K)]
    BY <1>17 DEF AdmitPending
  <2>2. Cardinality(K) \in Nat /\ K \in SUBSET Client
    BY <1>0, TreesFinite, FS_Subset, FS_CardinalityType DEF TypeOK
  <2>3. /\ tree' \in [Mount -> SUBSET Client] /\ listeners' \in [Mount -> Nat]
        /\ pending' \in [Mount -> SUBSET Client]
    BY <1>0, <1>17, <2>1, <2>2 DEF TypeOK, AdmitPending
  <2>4. previous' \in [Mount -> Nat \cup {-1}]
    BY <1>0, <1>17, <2>3 DEF TypeOK, AdmitPending
  <2>5. running' \in [Mount -> BOOLEAN]
    BY <1>0, <1>17, Zenon DEF TypeOK, AdmitPending
  <2> QED
    BY <1>0, <1>17, <2>3, <2>4, <2>5 DEF TypeOK, AdmitPending
<1>18. ASSUME NEW m \in Mount, ClearSource(m)
       PROVE  TypeOK'
  <2>2. phase' \in [Mount -> Phases]
    BY <1>0, <1>18 DEF ClearSource, Goto, Phases, TypeOK
  <2> QED
    BY <1>0, <1>18, <2>2 DEF TypeOK, ClearSource, ClearEffect
<1>19. ASSUME NEW m \in Mount, FreeSource(m)
       PROVE  TypeOK'
  BY <1>0, <1>19 DEF TypeOK, FreeSource, Goto, Phases
<1>20. ASSUME NEW m \in Mount, RelayCheck(m)
       PROVE  TypeOK'
  <2>1. onDemand' \in [Mount -> BOOLEAN]
    <3>1. onDemand' = [onDemand EXCEPT ![m] = TRUE] \/ onDemand' = onDemand
      BY <1>20 DEF RelayCheck
    <3> QED
      <4>1. onDemand \in [Mount -> BOOLEAN]
        BY <1>0 DEF TypeOK
      <4>2. CASE onDemand' = [onDemand EXCEPT ![m] = TRUE]
        BY <4>1, <4>2
      <4> QED
        BY <3>1, <4>1, <4>2
  <2>2. wanted' \in [Mount -> BOOLEAN]
    <3>1. FallbackHasListeners(m) \in BOOLEAN /\ wanted \in [Mount -> BOOLEAN]
      BY <1>0 DEF FallbackHasListeners, TypeOK
    <3>2. wanted' = [wanted EXCEPT ![m] = FallbackHasListeners(m)] \/ wanted' = wanted
      BY <1>20 DEF RelayCheck
    <3> HIDE DEF FallbackHasListeners
    <3> QED
      BY <3>1, <3>2, Zenon
  <2>3. phase' \in [Mount -> Phases]
    BY <1>0, <1>20 DEF RelayCheck, Goto, Phases, TypeOK
  <2> QED
    BY <1>0, <1>20, <2>1, <2>2, <2>3 DEF RelayCheck, TypeOK
<1>21. ASSUME NEW m \in Mount, RelayCleanup(m)
       PROVE  TypeOK'
  <2>1. UpdateSettings(m) \/ UNCHANGED <<fallback, limit, applied>>
    BY <1>21 DEF RelayCleanup
  <2>2. /\ fallback' \in [Mount -> Mount \cup {None}]
        /\ limit' \in [Mount -> Nat \cup {-1}] /\ applied' \in [Mount -> BOOLEAN]
    <3>1. CASE UpdateSettings(m)
      BY <1>0, <3>1 DEF TypeOK, UpdateSettings
    <3>2. CASE UNCHANGED <<fallback, limit, applied>>
      BY <1>0, <3>2 DEF TypeOK
    <3> QED
      BY <2>1, <3>1, <3>2
  <2> QED
    BY <1>0, <1>21, <2>2 DEF TypeOK, RelayCleanup, Goto, Phases
<1>22. ASSUME NEW m \in Mount, Recheck(m)
       PROVE  TypeOK'
  BY <1>0, <1>22 DEF TypeOK, Recheck, UpdateSettings
<1>23. ASSUME NEW s \in Mount, NEW d \in Mount, AdminMove(s, d)
       PROVE  TypeOK'
  <2>1. FindMount(d) \in Mount /\ MoveClients(s, FindMount(d))
    BY <1>23, FindMountExists DEF AdminMove
  <2>2. /\ pending' \in [Mount -> SUBSET Client] /\ tree' \in [Mount -> SUBSET Client]
        /\ listeners' \in [Mount -> Nat] /\ wanted' \in [Mount -> BOOLEAN]
    BY <1>0, <2>1, MoveEffect
  <2> QED
    BY <1>0, <1>23, <2>2 DEF TypeOK, AdminMove
<1>24. ASSUME NEW m \in Mount, NEW f \in Mount, AdminFallback(m, f)
       PROVE  TypeOK'
  BY <1>0, <1>24 DEF TypeOK, AdminFallback
<1> HIDE DEF IInv
<1> QED
  BY <1>1, <1>2, <1>3, <1>4, <1>5, <1>6, <1>7, <1>8, <1>9, <1>10, <1>11, <1>12,
     <1>13, <1>15, <1>16, <1>17, <1>18, <1>19, <1>20, <1>21, <1>22, <1>23,
     <1>24
     DEF Next, Owner, Connect, Slave, Get

(* The steps that move no client and start or end no GET request. *)
Quiet == UNCHANGED <<pending, tree, listeners, request>>

(* These are the steps that start, check, stop or count a source, and the  *)
(* ones that change its settings.                                          *)
LEMMA QuietSteps ==
    ASSUME NEW m \in Mount,
           \/ Reserve(m) \/ Connect(m) \/ StartupBroken(m) \/ StartupUnsupported(m)
           \/ StopSource(m) \/ StartupSent(m) \/ FindStolen(m) \/ LeaveLoop(m)
           \/ FindFallback(m) \/ CountDown(m) \/ RelayFailed(m) \/ Slave(m)
           \/ Recheck(m)
           \/ \E f \in Mount : AdminFallback(m, f)
    PROVE  Quiet
BY DEF Quiet, placeVars, clientVars, Reserve, Connect, Complete, CompleteFails,
       StartupBroken, StartupUnsupported, StopSource, StartupSent, FindStolen,
       LeaveLoop, FindFallback, CountDown, RelayFailed, Slave, RelayCheck,
       RelayCleanup, Recheck, AdminFallback

(* The move that a step makes, if it makes one: a source takes listeners   *)
(* back or passes them on, or an admin request moves them.                 *)
LEMMA MovingSteps ==
    ASSUME IInv, NEW m \in Mount,
           TakeStolen(m) \/ MoveToFallback(m) \/ \E d \in Mount : AdminMove(m, d)
    PROVE  /\ UNCHANGED request
           /\ \/ UNCHANGED <<pending, tree, listeners>>
              \/ \E s, d \in Mount : /\ MoveClients(s, d)
                                     /\ phase[d] # "free" /\ phase'[d] # "free"
<1> USE DEF IInv, clientVars
<1>0. TypeOK /\ NoUseAfterFree
  OBVIOUS
<1>1. CASE TakeStolen(m)
  BY <1>0, <1>1 DEF TakeStolen, TypeOK, NoUseAfterFree, Goto, At
<1>2. CASE MoveToFallback(m)
  BY <1>0, <1>2 DEF MoveToFallback, TypeOK, NoUseAfterFree, Goto, At
<1>3. ASSUME NEW d \in Mount, AdminMove(m, d)
      PROVE  /\ UNCHANGED request
             /\ MoveClients(m, FindMount(d)) /\ FindMount(d) \in Mount
             /\ phase[FindMount(d)] # "free" /\ phase' = phase
  BY <1>3, FindMountExists DEF AdminMove
<1> QED
  BY <1>1, <1>2, <1>3

(* The whereabouts of the clients: one place for each. *)
LEMMA PlaceInv ==
    ASSUME IInv, [Next]_vars
    PROVE  ClientInOnePlace'
<1> USE DEF IInv
<1>0. TypeOK /\ ClientInOnePlace
  OBVIOUS
<1>1. ASSUME UNCHANGED <<pending, tree, request>>
      PROVE  ClientInOnePlace'
  BY <1>0, <1>1 DEF ClientInOnePlace
<1>2. ASSUME UNCHANGED request,
             \A m \in Mount : /\ pending'[m] \subseteq pending[m]
                              /\ tree'[m] \subseteq tree[m]
      PROVE  ClientInOnePlace'
  BY <1>0, <1>2 DEF ClientInOnePlace
<1>3. ASSUME NEW c \in Client, GetFind(c) \/ GetSpill(c) \/ GetRefused(c) \/ GetWake(c)
      PROVE  ClientInOnePlace'
  <2>1. /\ UNCHANGED <<pending, tree>>
        /\ \A x \in Client \ {c} : request'[x] = request[x]
        /\ request'[c].at = "found" =>
              request[c].at = "found" \/ \A m \in Mount : c \notin pending[m] \cup tree[m]
    BY <1>0, <1>3 DEF GetFind, GetSpill, GetRefused, GetWake, placeVars, Idle, TypeOK,
         Placed
  <2> QED
    BY <1>0, <2>1 DEF ClientInOnePlace
<1>4. ASSUME NEW c \in Client, GetAdd(c)
      PROVE  ClientInOnePlace'
  <2>1. request[c].mount \in Mount
    BY <1>0, <1>4 DEF GetAdd, TypeOK, Idle
  <2>2. \A m \in Mount : pending'[m] = IF m = request[c].mount
                                       THEN pending[m] \cup {c} ELSE pending[m]
    <3> DEFINE n == request[c].mount
    <3>1. pending' = [pending EXCEPT ![n] = pending[n] \cup {c}] /\ n \in Mount
      BY <1>4, <2>1 DEF GetAdd
    <3>2. pending \in [Mount -> SUBSET Client]
      BY <1>0 DEF TypeOK
    <3> HIDE DEF n
    <3>3. \A m \in Mount : pending'[m] = IF m = n THEN pending[m] \cup {c} ELSE pending[m]
      BY <3>1, <3>2
    <3> QED
      BY <3>3 DEF n
  <2>3. /\ UNCHANGED tree
        /\ \A x \in Client \ {c} : request'[x] = request[x]
        /\ request'[c].at # "found"
    BY <1>0, <1>4 DEF GetAdd, TypeOK
  <2>4. \A m \in Mount : c \notin pending[m] \cup tree[m]
    BY <1>0, <1>4 DEF GetAdd, ClientInOnePlace
  <2>5. SUFFICES ASSUME NEW x \in Client
                 PROVE  /\ \A m \in Mount : ~(x \in pending'[m] /\ x \in tree'[m])
                        /\ \A m, n \in Mount : x \in pending'[m] \cup tree'[m]
                                               /\ x \in pending'[n] \cup tree'[n] => m = n
                        /\ request'[x].at = "found" =>
                              \A m \in Mount : x \notin pending'[m] \cup tree'[m]
    BY DEF ClientInOnePlace
  <2>6. CASE x = c
    BY <2>1, <2>2, <2>3, <2>4, <2>6
  <2>7. CASE x # c
    <3>1. \A m \in Mount : x \in pending'[m] <=> x \in pending[m]
      BY <2>2, <2>7
    <3> QED
      BY <1>0, <2>3, <2>7, <3>1 DEF ClientInOnePlace
  <2> QED
    BY <2>6, <2>7
<1>5. ASSUME NEW m \in Mount, NEW c \in Client, ListenerGone(m, c)
      PROVE  ClientInOnePlace'
  BY <1>0, <1>2, <1>5 DEF ListenerGone, TypeOK, clientVars
<1>6. ASSUME NEW m \in Mount, ClearSource(m) \/ FreeSource(m) \/ SourceInit(m)
      PROVE  ClientInOnePlace'
  BY <1>0, <1>2, <1>6 DEF ClearSource, ClearEffect, FreeSource, SourceInit, TypeOK,
       clientVars
<1>7. ASSUME NEW m \in Mount, AdmitPending(m)
      PROVE  ClientInOnePlace'
  <2>1. PICK K \in SUBSET pending[m] : tree' = [tree EXCEPT ![m] = @ \cup K]
    BY <1>7 DEF AdmitPending
  <2>2. /\ UNCHANGED request
        /\ pending' = [pending EXCEPT ![m] = {}]
    BY <1>7 DEF AdmitPending, clientVars
  <2>3. /\ pending \in [Mount -> SUBSET Client]
        /\ tree \in [Mount -> SUBSET Client]
    BY <1>0 DEF TypeOK
  <2>4. /\ \A n \in Mount : pending'[n] = IF n = m THEN {} ELSE pending[n]
        /\ \A n \in Mount : tree'[n] = IF n = m THEN tree[n] \cup K ELSE tree[n]
    BY <2>1, <2>2, <2>3
  <2>5. \A x \in Client, n \in Mount :
            x \in pending'[n] \cup tree'[n] => x \in pending[n] \cup tree[n]
    BY <2>4
  <2>6. \A x \in Client, n \in Mount : ~(x \in pending'[n] /\ x \in tree'[n])
    BY <1>0, <2>4 DEF ClientInOnePlace
  <2> QED
    BY <1>0, <2>2, <2>5, <2>6 DEF ClientInOnePlace
<1>8. ASSUME NEW s \in Mount, NEW d \in Mount, MoveClients(s, d), UNCHANGED request
      PROVE  ClientInOnePlace'
  <2>1. CASE UNCHANGED <<pending, tree, listeners>>
    BY <1>1, <1>8, <2>1
  <2>2. CASE /\ s # d
             /\ \A m \in Mount :
                   pending'[m] = IF m = s THEN {}
                                 ELSE IF m = d THEN pending[d] \cup (pending[s] \cup tree[s])
                                 ELSE pending[m]
             /\ \A m \in Mount : tree'[m] = IF m = s THEN {} ELSE tree[m]
    BY <1>0, <1>8, <2>2 DEF ClientInOnePlace
  <2>3. \/ UNCHANGED <<pending, tree, listeners>>
        \/ /\ s # d
           /\ \A m \in Mount :
                 pending'[m] = IF m = s THEN {}
                               ELSE IF m = d THEN pending[d] \cup (pending[s] \cup tree[s])
                               ELSE pending[m]
           /\ \A m \in Mount : tree'[m] = IF m = s THEN {} ELSE tree[m]
           /\ \A m \in Mount : listeners'[m] = IF m = s THEN 0 ELSE listeners[m]
    BY <1>0, <1>8, MoveEffect, Zenon
  <2> QED
    BY <2>1, <2>2, <2>3, Zenon
<1>9. ASSUME NEW m \in Mount,
             TakeStolen(m) \/ MoveToFallback(m) \/ \E d \in Mount : AdminMove(m, d)
      PROVE  ClientInOnePlace'
  BY <1>1, <1>8, <1>9, MovingSteps
<1>10. CASE UNCHANGED vars
  BY <1>1, <1>10 DEF vars, placeVars, clientVars
<1>11. Quiet => ClientInOnePlace'
  BY <1>1 DEF Quiet
<1> HIDE DEF IInv
<1> QED
  BY <1>3, <1>4, <1>5, <1>6, <1>7, <1>9, <1>10, <1>11, QuietSteps
     DEF Next, Owner, Get

(* No source is freed in use. *)
LEMMA FreeInv ==
    ASSUME IInv, [Next]_vars
    PROVE  NoUseAfterFree'
<1> USE DEF IInv
<1>0. TypeOK /\ NoUseAfterFree
  OBVIOUS
<1>1. ASSUME UNCHANGED <<request, target, pending, tree>>,
             \A m \in Mount : phase'[m] = "free" => phase[m] = "free"
      PROVE  NoUseAfterFree'
  BY <1>0, <1>1 DEF NoUseAfterFree, TypeOK, Idle
<1>2. ASSUME NEW m \in Mount,
             \/ Complete(m) \/ CompleteFails(m) \/ StartupBroken(m)
             \/ StartupUnsupported(m) \/ StopSource(m) \/ StartupSent(m)
             \/ SourceInit(m) \/ LeaveLoop(m) \/ CountDown(m) \/ RelayFailed(m)
             \/ RelayCleanup(m) \/ Recheck(m)
             \/ \E f \in Mount : AdminFallback(m, f)
      PROVE  NoUseAfterFree'
  <2>1. UNCHANGED <<request, target, pending, tree>>
    BY <1>2 DEF Complete, CompleteFails, StartupBroken, StartupUnsupported,
         StopSource, StartupSent, SourceInit, LeaveLoop, CountDown, RelayFailed,
         RelayCleanup, Recheck, AdminFallback, placeVars, clientVars,
         sourceVars
  <2>2. phase' = phase \/ \E p \in Phases \ {"free"} : phase' = [phase EXCEPT ![m] = p]
    BY <1>2 DEF Complete, CompleteFails, StartupBroken, StartupUnsupported,
         StopSource, StartupSent, SourceInit, LeaveLoop, CountDown, RelayFailed,
         RelayCleanup, Recheck, AdminFallback, sourceVars, Goto, Phases
  <2>3. \A n \in Mount : phase'[n] = "free" => phase[n] = "free"
    BY <1>0, <2>2 DEF TypeOK
  <2> QED
    BY <1>1, <2>1, <2>3
<1>3. ASSUME NEW m \in Mount, Reserve(m) \/ RelayCheck(m)
      PROVE  NoUseAfterFree'
  <2>1. UNCHANGED <<request, target, pending, tree>>
    BY <1>3 DEF Reserve, RelayCheck, placeVars, clientVars
  <2>2. \E p \in Phases \ {"free"} : phase' = [phase EXCEPT ![m] = p]
    BY <1>3 DEF Reserve, RelayCheck, Goto, Phases
  <2>3. \A n \in Mount : phase'[n] = "free" => phase[n] = "free"
    BY <1>0, <2>2 DEF TypeOK
  <2> QED
    BY <1>1, <2>1, <2>3
<1>4. ASSUME NEW m \in Mount, FreeSource(m)
      PROVE  NoUseAfterFree'
  <2>1. /\ \A c \in Client : request[c].at = "none"
        /\ \A n \in Mount : target[n] = None
        /\ UNCHANGED <<request, target>>
    BY <1>4 DEF FreeSource, Readers, clientVars
  <2>2. \A n \in Mount : /\ phase'[n] = "free" => n = m \/ phase[n] = "free"
                         /\ n = m => pending'[n] = {} /\ tree'[n] = {}
                         /\ n # m => pending'[n] = pending[n] /\ tree'[n] = tree[n]
    BY <1>0, <1>4 DEF FreeSource, Goto, TypeOK
  <2> QED
    BY <1>0, <2>1, <2>2 DEF NoUseAfterFree
<1>5. ASSUME NEW m \in Mount, FindStolen(m) \/ FindFallback(m)
      PROVE  NoUseAfterFree'
  <2>1. FindMount(fallback[m]) # None => phase[FindMount(fallback[m])] # "free"
    BY FindMountExists
  <2>2. \A n \in Mount : target'[n] = IF n = m THEN FindMount(fallback[m]) ELSE target[n]
    BY <1>0, <1>5 DEF FindStolen, FindFallback, TypeOK
  <2>3. UNCHANGED <<request, pending, tree>>
    BY <1>5 DEF FindStolen, FindFallback, placeVars, clientVars
  <2>4. \E p \in Phases \ {"free"} : phase' = [phase EXCEPT ![m] = p]
    BY <1>5 DEF FindStolen, FindFallback, Goto, Phases
  <2>5. \A n \in Mount : phase'[n] = "free" => phase[n] = "free"
    BY <1>0, <2>4 DEF TypeOK
  <2>6. FindMount(fallback[m]) # None => FindMount(fallback[m]) \in Mount
    BY FindMountExists
  <2> QED
    BY <1>0, <2>1, <2>2, <2>3, <2>5, <2>6 DEF NoUseAfterFree, TypeOK, Idle
<1>6. ASSUME NEW m \in Mount, ClearSource(m) \/ AdmitPending(m)
      PROVE  NoUseAfterFree'
  <2>1. /\ UNCHANGED <<request, target>>
        /\ \A n \in Mount \ {m} : pending'[n] = pending[n] /\ tree'[n] = tree[n]
    BY <1>0, <1>6 DEF ClearSource, ClearEffect, AdmitPending, TypeOK, clientVars
  <2>2. phase' = phase \/ \E p \in Phases \ {"free"} : phase' = [phase EXCEPT ![m] = p]
    BY <1>6 DEF ClearSource, AdmitPending, Goto, Phases
  <2>3. phase[m] # "free"
    BY <1>6 DEF ClearSource, AdmitPending, At
  <2>4. \A n \in Mount : phase'[n] = "free" => phase[n] = "free" /\ n # m
    BY <1>0, <2>2, <2>3 DEF TypeOK
  <2> QED
    BY <1>0, <2>1, <2>4 DEF NoUseAfterFree, TypeOK, Idle
<1>7. ASSUME NEW m \in Mount, NEW c \in Client, ListenerGone(m, c)
      PROVE  NoUseAfterFree'
  BY <1>0, <1>7 DEF ListenerGone, NoUseAfterFree, TypeOK, sourceVars, clientVars, At
<1>8. ASSUME NEW c \in Client, GetFind(c) \/ GetSpill(c) \/ GetRefused(c) \/ GetWake(c)
      PROVE  NoUseAfterFree'
  <2>1. /\ UNCHANGED <<phase, target, pending, tree>>
        /\ \A x \in Client \ {c} : request'[x] = request[x]
        /\ \/ request'[c] = Idle
           \/ \E m : FindMount(m) # None /\ request'[c].mount = FindMount(m)
    BY <1>0, <1>8 DEF GetFind, GetSpill, GetRefused, GetWake, placeVars, sourceVars,
         TypeOK
  <2>2. request'[c].at # "none" => phase[request'[c].mount] # "free"
    BY <2>1, FindMountExists DEF Idle
  <2> QED
    BY <1>0, <2>1, <2>2 DEF NoUseAfterFree
<1>9. ASSUME NEW c \in Client, GetAdd(c)
      PROVE  NoUseAfterFree'
  <2> DEFINE n == request[c].mount
  <2>1. n \in Mount /\ phase[n] # "free"
    BY <1>0, <1>9 DEF GetAdd, TypeOK, Idle, NoUseAfterFree
  <2>2. /\ UNCHANGED <<phase, target, tree>>
        /\ request' = [request EXCEPT ![c] = [at |-> "added", mount |-> n, loop |-> 0]]
        /\ pending' = [pending EXCEPT ![n] = pending[n] \cup {c}]
    BY <1>9 DEF GetAdd, sourceVars
  <2> HIDE DEF n
  <2>3. \A m \in Mount \ {n} : pending'[m] = pending[m]
    BY <1>0, <2>2 DEF TypeOK
  <2>4. request'[c].mount = n /\ \A x \in Client \ {c} : request'[x] = request[x]
    BY <1>0, <2>2 DEF TypeOK
  <2> QED
    BY <1>0, <2>1, <2>2, <2>3, <2>4 DEF NoUseAfterFree
<1>10. ASSUME NEW m \in Mount,
              TakeStolen(m) \/ MoveToFallback(m) \/ \E d \in Mount : AdminMove(m, d)
       PROVE  NoUseAfterFree'
  <2>1. \A n \in Mount : target'[n] \in {target[n], None}
    BY <1>0, <1>10 DEF TakeStolen, MoveToFallback, AdminMove, TypeOK
  <2>2. phase' = phase \/ \E p \in Phases \ {"free"} : phase' = [phase EXCEPT ![m] = p]
    BY <1>10 DEF TakeStolen, MoveToFallback, AdminMove, Goto, Phases
  <2>3. \A n \in Mount : phase'[n] = "free" => phase[n] = "free"
    BY <1>0, <2>2 DEF TypeOK
  <2>4. UNCHANGED request
    BY <1>10, MovingSteps
  <2>5. \A n \in Mount : phase[n] = "free" => pending'[n] = {} /\ tree'[n] = {}
    <3>1. CASE UNCHANGED <<pending, tree, listeners>>
      BY <1>0, <3>1 DEF NoUseAfterFree
    <3>2. ASSUME NEW s \in Mount, NEW d \in Mount, MoveClients(s, d), phase[d] # "free"
          PROVE  \A n \in Mount : phase[n] = "free" => pending'[n] = {} /\ tree'[n] = {}
      <4>1. \A n \in Mount \ {d} : /\ pending'[n] \subseteq pending[n]
                                   /\ tree'[n] \subseteq tree[n]
        <5>1. CASE UNCHANGED <<pending, tree, listeners>>
          BY <5>1
        <5>2. CASE CanMove(s, d)
          <6>1. \A n \in Mount \ {d} : /\ pending'[n] = IF n = s THEN {} ELSE pending[n]
                                       /\ tree'[n] = IF n = s THEN {} ELSE tree[n]
            BY <1>0, <3>2, <5>2 DEF MoveClients, TypeOK
          <6> QED
            BY <6>1
        <5> QED
          BY <3>2, <5>1, <5>2 DEF MoveClients
      <4> QED
        BY <1>0, <3>2, <4>1 DEF NoUseAfterFree
    <3> QED
      BY <1>10, <3>1, <3>2, MovingSteps
  <2> QED
    BY <1>0, <2>1, <2>3, <2>4, <2>5 DEF NoUseAfterFree, TypeOK, Idle
<1>11. CASE UNCHANGED vars
  BY <1>1, <1>11 DEF vars, sourceVars, placeVars, clientVars
<1> HIDE DEF IInv
<1> QED
  BY <1>2, <1>3, <1>4, <1>5, <1>6, <1>7, <1>8, <1>9, <1>10, <1>11
     DEF Next, Owner, Connect, Slave, Get

(* The number of sources. *)
LEMMA SourcesInv ==
    ASSUME IInv, [Next]_vars
    PROVE  SourcesCounted'
<1> USE DEF IInv, At, Goto
<1> DEFINE now == {x \in Mount : counted[x]}
<1>0. TypeOK /\ SourcesCounted /\ IsFiniteSet(now)
  BY MountsAssumption, FS_Subset
<1>1. ASSUME UNCHANGED <<phase, counted, sources>>
      PROVE  SourcesCounted'
  BY <1>0, <1>1 DEF SourcesCounted
<1>2. ASSUME NEW m \in Mount, UNCHANGED <<counted, sources>>,
             NEW p, phase' = [phase EXCEPT ![m] = p],
             p \in Connected => counted[m], p \in Unconnected => ~counted[m]
      PROVE  SourcesCounted'
  BY <1>0, <1>2 DEF SourcesCounted, TypeOK
<1>3. ASSUME NEW m \in Mount, Complete(m)
      PROVE  SourcesCounted'
  <2>1. ~counted[m] /\ m \notin now
    BY <1>0, <1>3 DEF Complete, SourcesCounted, Unconnected
  <2>2. {x \in Mount : counted'[x]} = now \cup {m}
    BY <1>0, <1>3 DEF Complete, TypeOK
  <2>3. Cardinality(now \cup {m}) = Cardinality(now) + 1
    <3> HIDE DEF now
    <3> QED
      BY <1>0, <2>1, FS_AddElement
  <2>4. sources' = Cardinality({x \in Mount : counted'[x]}) /\ sources' <= SourceLimit
    <3>1. sources' = sources + 1 /\ sources < SourceLimit
      BY <1>3 DEF Complete
    <3>2. sources = Cardinality(now) /\ sources \in Nat /\ SourceLimit \in Nat
      BY <1>0, MountsAssumption DEF SourcesCounted, TypeOK
    <3> HIDE DEF now
    <3>3. sources' = Cardinality(now \cup {m})
      BY <2>3, <3>1, <3>2
    <3> QED
      BY <2>2, <3>1, <3>2, <3>3
  <2>5. \A n \in Mount : /\ phase'[n] = IF n = m THEN phase'[m] ELSE phase[n]
                         /\ counted'[n] = IF n = m THEN TRUE ELSE counted[n]
                         /\ phase'[m] \in {"init", "startup"}
    BY <1>0, <1>3 DEF Complete, TypeOK
  <2> QED
    BY <1>0, <2>4, <2>5 DEF SourcesCounted, Connected, Unconnected
<1>4. ASSUME NEW m \in Mount, StartupBroken(m) \/ CountDown(m)
      PROVE  SourcesCounted'
  <2>1. counted[m] /\ m \in now
    BY <1>0, <1>4 DEF StartupBroken, CountDown, SourcesCounted, Connected
  <2>2. {x \in Mount : counted'[x]} = now \ {m}
    BY <1>0, <1>4 DEF StartupBroken, CountDown, TypeOK
  <2>3. Cardinality(now \ {m}) = Cardinality(now) - 1
    <3> HIDE DEF now
    <3> QED
      BY <1>0, <2>1, FS_RemoveElement
  <2>4. sources' = Cardinality({x \in Mount : counted'[x]}) /\ sources' <= SourceLimit
    <3>1. sources' = sources - 1
      BY <1>4 DEF StartupBroken, CountDown
    <3>2. /\ sources = Cardinality(now) /\ sources \in Nat
          /\ SourceLimit \in Nat /\ sources <= SourceLimit
      BY <1>0, MountsAssumption DEF SourcesCounted, TypeOK
    <3> HIDE DEF now
    <3>3. sources' = Cardinality(now \ {m})
      BY <2>3, <3>1, <3>2
    <3> QED
      BY <2>2, <3>1, <3>2, <3>3
  <2>5. \A n \in Mount : /\ phase'[n] = IF n = m THEN phase'[m] ELSE phase[n]
                         /\ counted'[n] = IF n = m THEN FALSE ELSE counted[n]
                         /\ phase'[m] \in {"clear", "cleanup", "freeing"}
    <3>1. CASE StartupBroken(m)
      BY <1>0, <3>1 DEF StartupBroken, TypeOK
    <3>2. CASE CountDown(m)
      BY <1>0, <3>2 DEF CountDown, TypeOK
    <3> QED
      BY <1>4, <3>1, <3>2
  <2> QED
    BY <1>0, <2>4, <2>5 DEF SourcesCounted, Connected, Unconnected
<1>5. ASSUME NEW m \in Mount,
             \/ Reserve(m) \/ CompleteFails(m) \/ StartupSent(m)
             \/ StartupUnsupported(m) \/ SourceInit(m) \/ FindStolen(m)
             \/ TakeStolen(m) \/ LeaveLoop(m) \/ FindFallback(m)
             \/ MoveToFallback(m) \/ ClearSource(m) \/ FreeSource(m)
             \/ RelayCheck(m) \/ RelayFailed(m) \/ RelayCleanup(m)
      PROVE  SourcesCounted'
  <2>1. UNCHANGED <<counted, sources>>
    BY <1>5 DEF Reserve, CompleteFails, StartupSent, StartupUnsupported, SourceInit,
         FindStolen, TakeStolen, LeaveLoop, FindFallback, MoveToFallback,
         ClearSource, FreeSource, RelayCheck, RelayFailed, RelayCleanup, countVars
  <2>2. /\ phase[m] \in Connected => counted[m]
        /\ phase[m] \in Unconnected => ~counted[m]
    BY <1>0 DEF SourcesCounted
  <2>3. \E p : /\ phase' = [phase EXCEPT ![m] = p]
               /\ p \in Connected => counted[m]
               /\ p \in Unconnected => ~counted[m]
    <3>1. CASE Reserve(m) \/ CompleteFails(m) \/ StartupSent(m)
               \/ StartupUnsupported(m) \/ SourceInit(m)
      BY <2>2, <3>1 DEF Reserve, CompleteFails, StartupSent, StartupUnsupported,
           SourceInit, Connected, Unconnected
    <3>2. CASE FindStolen(m) \/ TakeStolen(m) \/ LeaveLoop(m) \/ FindFallback(m)
               \/ MoveToFallback(m)
      BY <2>2, <3>2 DEF FindStolen, TakeStolen, LeaveLoop, FindFallback,
           MoveToFallback, Connected, Unconnected
    <3>3. CASE ClearSource(m) \/ FreeSource(m)
      BY <2>2, <3>3 DEF ClearSource, FreeSource, Connected, Unconnected
    <3>4. CASE RelayCheck(m) \/ RelayFailed(m) \/ RelayCleanup(m)
      BY <2>2, <3>4 DEF RelayCheck, RelayFailed, RelayCleanup, Connected, Unconnected
    <3> QED
      BY <1>5, <3>1, <3>2, <3>3, <3>4
  <2> QED
    BY <1>2, <2>1, <2>3
<1>6. ASSUME NEW m \in Mount,
             \/ StopSource(m) \/ AdmitPending(m) \/ Recheck(m)
             \/ \E c \in Client : ListenerGone(m, c)
             \/ \E d \in Mount : AdminMove(m, d) \/ AdminFallback(m, d)
      PROVE  SourcesCounted'
  BY <1>1, <1>6 DEF StopSource, AdmitPending, Recheck, ListenerGone,
       AdminMove, AdminFallback, countVars, sourceVars
<1>7. ASSUME NEW c \in Client, GetFind(c) \/ Get(c)
      PROVE  SourcesCounted'
  BY <1>1, <1>7 DEF GetFind, Get, GetSpill, GetRefused, GetAdd, GetWake, countVars,
       sourceVars
<1>8. CASE UNCHANGED vars
  BY <1>1, <1>8 DEF vars, sourceVars, countVars
<1> HIDE DEF IInv
<1> QED
  BY <1>3, <1>4, <1>5, <1>6, <1>7, <1>8 DEF Next, Owner, Connect, Slave

(* Listeners are served by the thread of their source. *)
LEMMA ServedInv ==
    ASSUME IInv, [Next]_vars
    PROVE  TreeIsServed'
<1> USE DEF IInv, At, Goto
<1> DEFINE Serving == {"loop", "exit", "move", "clear"}
<1>0. TypeOK /\ TreeIsServed
  OBVIOUS
<1>1. ASSUME \A n \in Mount : /\ tree'[n] # {} => tree[n] # {} /\ phase'[n] = phase[n]
      PROVE  TreeIsServed'
  BY <1>0, <1>1 DEF TreeIsServed
<1>2. ASSUME NEW m \in Mount,
             \A n \in Mount \ {m} : tree'[n] # {} => tree[n] # {} /\ phase'[n] = phase[n],
             tree'[m] # {} => phase'[m] \in Serving
      PROVE  TreeIsServed'
  BY <1>0, <1>2 DEF TreeIsServed
<1>3. ASSUME NEW m \in Mount,
             \/ Reserve(m) \/ Complete(m) \/ CompleteFails(m) \/ StartupSent(m)
             \/ StartupBroken(m) \/ StartupUnsupported(m) \/ SourceInit(m)
             \/ FindStolen(m) \/ CountDown(m)
             \/ RelayCheck(m) \/ RelayFailed(m) \/ RelayCleanup(m)
      PROVE  TreeIsServed'
  <2>1. UNCHANGED tree
    BY <1>3 DEF Reserve, Complete, CompleteFails, StartupSent, StartupBroken,
         StartupUnsupported, SourceInit, FindStolen, CountDown, RelayCheck,
         RelayFailed, RelayCleanup, placeVars
  <2>2. phase[m] \notin Serving
    BY <1>3 DEF Reserve, Complete, CompleteFails, StartupSent, StartupBroken,
         StartupUnsupported, SourceInit, FindStolen, CountDown, RelayCheck,
         RelayFailed, RelayCleanup
  <2>3. tree[m] = {}
    BY <1>0, <2>2 DEF TreeIsServed
  <2>4. \A n \in Mount \ {m} : phase'[n] = phase[n]
    BY <1>0, <1>3 DEF Reserve, Complete, CompleteFails, StartupSent, StartupBroken,
         StartupUnsupported, SourceInit, FindStolen, CountDown, RelayCheck,
         RelayFailed, RelayCleanup, TypeOK
  <2> QED
    BY <1>2, <2>1, <2>3, <2>4
<1>4. ASSUME NEW m \in Mount, LeaveLoop(m) \/ FindFallback(m) \/ AdmitPending(m)
      PROVE  TreeIsServed'
  <2>1. \A n \in Mount \ {m} : tree'[n] = tree[n] /\ phase'[n] = phase[n]
    <3>1. CASE LeaveLoop(m) \/ FindFallback(m)
      BY <1>0, <3>1 DEF LeaveLoop, FindFallback, placeVars, TypeOK
    <3>2. CASE AdmitPending(m)
      BY <1>0, <3>2 DEF AdmitPending, TypeOK
    <3> QED
      BY <1>4, <3>1, <3>2
  <2>2. phase'[m] \in Serving
    BY <1>0, <1>4 DEF LeaveLoop, FindFallback, AdmitPending, TypeOK
  <2> HIDE DEF Serving
  <2> QED
    BY <1>2, <2>1, <2>2
<1>5. ASSUME NEW m \in Mount, ClearSource(m) \/ FreeSource(m)
      PROVE  TreeIsServed'
  <2>1. /\ tree'[m] = {}
        /\ \A n \in Mount \ {m} : tree'[n] = tree[n] /\ phase'[n] = phase[n]
    <3>1. CASE ClearSource(m)
      BY <1>0, <3>1 DEF ClearSource, ClearEffect, TypeOK
    <3>2. CASE FreeSource(m)
      BY <1>0, <3>2 DEF FreeSource, TypeOK
    <3> QED
      BY <1>5, <3>1, <3>2
  <2> QED
    BY <1>2, <2>1
<1>6. ASSUME NEW m \in Mount,
             TakeStolen(m) \/ MoveToFallback(m) \/ \E d \in Mount : AdminMove(m, d)
      PROVE  TreeIsServed'
  <2>1. \A n \in Mount : tree'[n] # {} => tree[n] # {}
    BY <1>0, <1>6, MovingSteps, MoveEffect
  <2>2. \A n \in Mount \ {m} : phase'[n] = phase[n]
    BY <1>0, <1>6 DEF TakeStolen, MoveToFallback, AdminMove, TypeOK
  <2>3. phase'[m] = phase[m] \/ phase'[m] \in Serving
    BY <1>0, <1>6 DEF TakeStolen, MoveToFallback, AdminMove, TypeOK
  <2> QED
    BY <1>0, <1>2, <2>1, <2>2, <2>3 DEF TreeIsServed
<1>7. ASSUME NEW m \in Mount,
             \/ StopSource(m) \/ Recheck(m)
             \/ \E f \in Mount : AdminFallback(m, f)
      PROVE  TreeIsServed'
  BY <1>1, <1>7 DEF StopSource, Recheck, AdminFallback, placeVars,
       sourceVars
<1>8. ASSUME NEW m \in Mount, NEW c \in Client, ListenerGone(m, c)
      PROVE  TreeIsServed'
  BY <1>0, <1>1, <1>8 DEF ListenerGone, TypeOK, sourceVars
<1>9. ASSUME NEW c \in Client, GetFind(c) \/ Get(c)
      PROVE  TreeIsServed'
  BY <1>1, <1>9 DEF GetFind, Get, GetSpill, GetRefused, GetAdd, GetWake, placeVars,
       sourceVars
<1>10. CASE UNCHANGED vars
  BY <1>1, <1>10 DEF vars, sourceVars, placeVars
<1> HIDE DEF IInv
<1> QED
  BY <1>3, <1>4, <1>5, <1>6, <1>7, <1>8, <1>9, <1>10
     DEF Next, Owner, Connect, Slave

(* Joining the clients of K to a tree that has none of them adds their     *)
(* number to its size.                                                     *)
LEMMA AdmitEffect ==
    ASSUME IInv, NEW m \in Mount, AdmitPending(m)
    PROVE  \E K \in SUBSET pending[m] :
              /\ Cardinality(K) \in Nat
              /\ Cardinality(K) <= Room(m)
              /\ \A n \in Mount : tree'[n] = IF n = m THEN tree[n] \cup K ELSE tree[n]
              /\ \A n \in Mount : listeners'[n] = IF n = m THEN listeners[n] + Cardinality(K)
                                                  ELSE listeners[n]
              /\ Cardinality(tree[m] \cup K) = Cardinality(tree[m]) + Cardinality(K)
<1>0. TypeOK /\ ClientInOnePlace
  BY DEF IInv
<1>1. PICK K \in SUBSET pending[m] :
          /\ Cardinality(K) = Min({Cardinality(pending[m]), Room(m)})
          /\ tree' = [tree EXCEPT ![m] = @ \cup K]
          /\ listeners' = [listeners EXCEPT ![m] = @ + Cardinality(K)]
  BY DEF AdmitPending
<1>2. /\ IsFiniteSet(tree[m]) /\ IsFiniteSet(pending[m])
      /\ Cardinality(tree[m]) \in Nat /\ Cardinality(pending[m]) \in Nat
  BY <1>0, TreesFinite
<1>3. IsFiniteSet(K) /\ Cardinality(K) \in Nat
  BY <1>2, FS_Subset, FS_CardinalityType
<1>4. tree[m] \cap K = {}
  BY <1>0 DEF ClientInOnePlace, TypeOK
<1>5. Cardinality(tree[m] \cup K) = Cardinality(tree[m]) + Cardinality(K)
  <2>1. Cardinality(tree[m] \cup K)
          = Cardinality(tree[m]) + Cardinality(K) - Cardinality(tree[m] \cap K)
    BY <1>2, <1>3, FS_Union
  <2>2. Cardinality(tree[m] \cap K) = 0
    BY <1>4, FS_EmptySet
  <2> QED
    BY <1>2, <1>3, <2>1, <2>2
<1>6. Room(m) \in Nat
  <2>1. limit[m] \in Nat \cup {-1} /\ listeners[m] \in Nat
    BY <1>0 DEF TypeOK
  <2> QED
    BY <1>2, <2>1 DEF Room, Max
<1>7. Cardinality(K) <= Room(m)
  <2>1. {Cardinality(pending[m]), Room(m)} \in SUBSET Nat
    BY <1>2, <1>6
  <2> QED
    BY <1>1, <1>6, <2>1, MinOfNats
<1>8. /\ \A n \in Mount : tree'[n] = IF n = m THEN tree[n] \cup K ELSE tree[n]
      /\ \A n \in Mount : listeners'[n] = IF n = m THEN listeners[n] + Cardinality(K)
                                          ELSE listeners[n]
  <2>1. tree \in [Mount -> SUBSET Client] /\ listeners \in [Mount -> Nat]
    BY <1>0 DEF TypeOK
  <2>2. \A n \in Mount : tree'[n] = IF n = m THEN tree[n] \cup K ELSE tree[n]
    BY <1>1, <2>1
  <2>3. \A n \in Mount : listeners'[n] = IF n = m THEN listeners[n] + Cardinality(K)
                                         ELSE listeners[n]
    BY <1>1, <2>1
  <2> QED
    BY <2>2, <2>3
<1> QED
  BY <1>3, <1>5, <1>7, <1>8

(* source->listeners and the size of the client tree change together. *)
LEMMA ListenersInv ==
    ASSUME IInv, [Next]_vars
    PROVE  ListenersCounted'
<1> USE DEF IInv, At
<1>0. TypeOK /\ ListenersCounted /\ TreeIsServed
  OBVIOUS
<1>1. ASSUME UNCHANGED <<tree, listeners>>
      PROVE  ListenersCounted'
  BY <1>0, <1>1 DEF ListenersCounted
<1>2. ASSUME NEW m \in Mount,
             \A n \in Mount \ {m} : tree'[n] = tree[n] /\ listeners'[n] = listeners[n],
             tree'[m] = {}, listeners'[m] = 0
      PROVE  ListenersCounted'
  BY <1>0, <1>2, FS_EmptySet DEF ListenersCounted
<1>3. ASSUME NEW m \in Mount, SourceInit(m)
      PROVE  ListenersCounted'
  <2>1. tree[m] = {}
    BY <1>0, <1>3 DEF SourceInit, TreeIsServed
  <2>2. UNCHANGED tree /\ listeners' = [listeners EXCEPT ![m] = 0]
    BY <1>3 DEF SourceInit
  <2>3. /\ listeners'[m] = 0
        /\ \A n \in Mount \ {m} : listeners'[n] = listeners[n]
    BY <1>0, <2>2 DEF TypeOK
  <2> QED
    BY <1>2, <2>1, <2>2, <2>3
<1>4. ASSUME NEW m \in Mount, ClearSource(m)
      PROVE  ListenersCounted'
  <2>1. /\ tree' = [tree EXCEPT ![m] = {}]
        /\ listeners' = [listeners EXCEPT ![m] = 0]
    BY <1>4 DEF ClearSource, ClearEffect
  <2>2. /\ tree'[m] = {} /\ listeners'[m] = 0
        /\ \A n \in Mount \ {m} : tree'[n] = tree[n] /\ listeners'[n] = listeners[n]
    BY <1>0, <2>1 DEF TypeOK
  <2> QED
    BY <1>2, <2>2
<1>5. ASSUME NEW m \in Mount, FreeSource(m)
      PROVE  ListenersCounted'
  <2>1. tree[m] = {} /\ tree' = [tree EXCEPT ![m] = {}] /\ UNCHANGED listeners
    BY <1>0, <1>5 DEF FreeSource, TreeIsServed
  <2>2. tree' = tree
    BY <1>0, <2>1 DEF TypeOK
  <2> QED
    BY <1>1, <2>1, <2>2
<1>6. ASSUME NEW m \in Mount, AdmitPending(m)
      PROVE  ListenersCounted'
  <2>1. PICK K \in SUBSET pending[m] :
            /\ \A n \in Mount : tree'[n] = IF n = m THEN tree[n] \cup K ELSE tree[n]
            /\ \A n \in Mount : listeners'[n] = IF n = m THEN listeners[n] + Cardinality(K)
                                                ELSE listeners[n]
            /\ Cardinality(tree[m] \cup K) = Cardinality(tree[m]) + Cardinality(K)
    <3> HIDE DEF IInv
    <3> QED
      BY <1>6, AdmitEffect
  <2>2. listeners'[m] = Cardinality(tree'[m])
    BY <1>0, <2>1 DEF ListenersCounted
  <2>3. \A n \in Mount \ {m} : tree'[n] = tree[n] /\ listeners'[n] = listeners[n]
    BY <2>1
  <2> QED
    BY <1>0, <2>2, <2>3 DEF ListenersCounted
<1>7. ASSUME NEW m \in Mount, NEW c \in Client, ListenerGone(m, c)
      PROVE  ListenersCounted'
  <2>1. c \in tree[m] /\ IsFiniteSet(tree[m]) /\ Cardinality(tree[m]) \in Nat
    BY <1>0, <1>7, TreesFinite DEF ListenerGone
  <2>2. Cardinality(tree[m] \ {c}) = Cardinality(tree[m]) - 1
    BY <2>1, FS_RemoveElement
  <2>3. /\ \A n \in Mount : tree'[n] = IF n = m THEN tree[n] \ {c} ELSE tree[n]
        /\ \A n \in Mount : listeners'[n] = IF n = m THEN listeners[n] - 1 ELSE listeners[n]
    <3>1. /\ tree' = [tree EXCEPT ![m] = @ \ {c}]
          /\ listeners' = [listeners EXCEPT ![m] = @ - 1]
      BY <1>7 DEF ListenerGone
    <3>2. tree \in [Mount -> SUBSET Client] /\ listeners \in [Mount -> Nat]
      BY <1>0 DEF TypeOK
    <3>3. \A n \in Mount : tree'[n] = IF n = m THEN tree[n] \ {c} ELSE tree[n]
      BY <3>1, <3>2
    <3>4. \A n \in Mount : listeners'[n] = IF n = m THEN listeners[n] - 1 ELSE listeners[n]
      BY <3>1, <3>2
    <3> QED
      BY <3>3, <3>4
  <2>4. listeners'[m] = Cardinality(tree'[m])
    BY <1>0, <2>2, <2>3 DEF ListenersCounted
  <2> QED
    BY <1>0, <2>3, <2>4 DEF ListenersCounted
<1>8. ASSUME NEW s \in Mount, NEW d \in Mount, MoveClients(s, d)
      PROVE  ListenersCounted'
  <2>1. CASE ~CanMove(s, d)
    BY <1>1, <1>8, <2>1 DEF MoveClients
  <2>2. CASE CanMove(s, d)
    <3>1. /\ tree' = [tree EXCEPT ![s] = {}]
          /\ listeners' = [listeners EXCEPT ![s] = 0]
      BY <1>8, <2>2 DEF MoveClients
    <3>2. /\ tree'[s] = {} /\ listeners'[s] = 0
          /\ \A n \in Mount \ {s} : tree'[n] = tree[n] /\ listeners'[n] = listeners[n]
      BY <1>0, <3>1 DEF TypeOK
    <3> QED
      BY <1>2, <3>2
  <2> QED
    BY <2>1, <2>2
<1>9. ASSUME NEW m \in Mount,
             TakeStolen(m) \/ MoveToFallback(m) \/ \E d \in Mount : AdminMove(m, d)
      PROVE  ListenersCounted'
  BY <1>1, <1>8, <1>9, MovingSteps
<1>10. ASSUME NEW c \in Client, GetFind(c) \/ Get(c)
       PROVE  ListenersCounted'
  BY <1>1, <1>10 DEF GetFind, Get, GetSpill, GetRefused, GetAdd, GetWake, placeVars
<1>11. CASE UNCHANGED vars
  BY <1>1, <1>11 DEF vars, placeVars
<1>12. Quiet => ListenersCounted'
  BY <1>1 DEF Quiet
<1> HIDE DEF IInv
<1> QED
  BY <1>3, <1>4, <1>5, <1>6, <1>7, <1>9, <1>10, <1>11, <1>12, QuietSteps
     DEF Next, Owner

(* A source that is up has its limit applied. *)
LEMMA AppliedInv ==
    ASSUME IInv, [Next]_vars
    PROVE  LimitApplied'
<1> USE DEF IInv, At, Goto
<1> DEFINE Up == {"startup", "leaked", "init", "steal", "take", "loop"}
<1>0. TypeOK /\ LimitApplied
  OBVIOUS
<1>1. ASSUME UNCHANGED <<phase, limit>>
      PROVE  LimitApplied'
  BY <1>0, <1>1 DEF LimitApplied
<1>2. ASSUME NEW m \in Mount,
             \A n \in Mount \ {m} : phase'[n] = phase[n] /\ limit'[n] = limit[n],
             phase'[m] \in Up => limit'[m] = MaxListeners[m]
      PROVE  LimitApplied'
  BY <1>0, <1>2 DEF LimitApplied
<1>3. ASSUME NEW m \in Mount, Complete(m) \/ Recheck(m)
      PROVE  LimitApplied'
  <2>1. limit' = [limit EXCEPT ![m] = MaxListeners[m]]
    BY <1>3 DEF Complete, Recheck, UpdateSettings
  <2>2. /\ limit'[m] = MaxListeners[m]
        /\ \A n \in Mount \ {m} : limit'[n] = limit[n]
    BY <1>0, <2>1 DEF TypeOK
  <2>3. \A n \in Mount \ {m} : phase'[n] = phase[n]
    BY <1>0, <1>3 DEF Complete, Recheck, TypeOK
  <2> QED
    BY <1>2, <2>2, <2>3
<1>4. ASSUME NEW m \in Mount, NEW p, phase' = [phase EXCEPT ![m] = p], UNCHANGED limit,
             p \in Up => phase[m] \in Up
      PROVE  LimitApplied'
  BY <1>0, <1>4 DEF LimitApplied, TypeOK
<1>5. ASSUME NEW m \in Mount,
             \/ Reserve(m) \/ CompleteFails(m) \/ StartupSent(m)
             \/ StartupBroken(m) \/ StartupUnsupported(m) \/ SourceInit(m)
             \/ FindStolen(m) \/ TakeStolen(m) \/ LeaveLoop(m) \/ FindFallback(m)
             \/ MoveToFallback(m) \/ CountDown(m) \/ RelayCheck(m) \/ RelayFailed(m)
      PROVE  LimitApplied'
  <2>1. UNCHANGED limit
    BY <1>5 DEF Reserve, CompleteFails, StartupSent, StartupBroken,
         StartupUnsupported, SourceInit, FindStolen, TakeStolen, LeaveLoop,
         FindFallback, MoveToFallback, CountDown, RelayCheck, RelayFailed, settingVars
  <2>2. \E p : phase' = [phase EXCEPT ![m] = p] /\ (p \in Up => phase[m] \in Up)
    <3>1. CASE Reserve(m) \/ CompleteFails(m) \/ StartupSent(m)
               \/ StartupBroken(m) \/ StartupUnsupported(m) \/ SourceInit(m)
      BY <3>1 DEF Reserve, CompleteFails, StartupSent, StartupBroken,
           StartupUnsupported, SourceInit
    <3>2. CASE FindStolen(m) \/ TakeStolen(m) \/ LeaveLoop(m) \/ FindFallback(m)
               \/ MoveToFallback(m)
      BY <3>2 DEF FindStolen, TakeStolen, LeaveLoop, FindFallback, MoveToFallback
    <3>3. CASE CountDown(m) \/ RelayCheck(m) \/ RelayFailed(m)
      BY <3>3 DEF CountDown, RelayCheck, RelayFailed
    <3> QED
      BY <1>5, <3>1, <3>2, <3>3
  <2> HIDE DEF Up
  <2> QED
    BY <1>4, <2>1, <2>2
<1>6. ASSUME NEW m \in Mount, ClearSource(m) \/ FreeSource(m) \/ RelayCleanup(m)
      PROVE  LimitApplied'
  <2>1. /\ phase'[m] \notin Up
        /\ \A n \in Mount \ {m} : phase'[n] = phase[n] /\ limit'[n] = limit[n]
    <3>1. CASE ClearSource(m)
      BY <1>0, <3>1 DEF ClearSource, ClearEffect, TypeOK
    <3>2. CASE FreeSource(m)
      BY <1>0, <3>2 DEF FreeSource, TypeOK
    <3>3. CASE RelayCleanup(m)
      BY <1>0, <3>3 DEF RelayCleanup, UpdateSettings, settingVars, TypeOK
    <3> QED
      BY <1>6, <3>1, <3>2, <3>3
  <2> QED
    BY <1>2, <2>1
<1>7. ASSUME NEW m \in Mount,
             \/ StopSource(m) \/ AdmitPending(m)
             \/ \E c \in Client : ListenerGone(m, c)
             \/ \E d \in Mount : AdminMove(m, d) \/ AdminFallback(m, d)
      PROVE  LimitApplied'
  BY <1>1, <1>7 DEF StopSource, AdmitPending, ListenerGone,
       AdminMove, AdminFallback, settingVars, sourceVars
<1>8. ASSUME NEW c \in Client, GetFind(c) \/ Get(c)
      PROVE  LimitApplied'
  BY <1>1, <1>8 DEF GetFind, Get, GetSpill, GetRefused, GetAdd, GetWake, settingVars,
       sourceVars
<1>9. CASE UNCHANGED vars
  BY <1>1, <1>9 DEF vars, sourceVars, settingVars
<1> HIDE DEF IInv
<1> QED
  BY <1>3, <1>5, <1>6, <1>7, <1>8, <1>9 DEF Next, Owner, Connect, Slave

(* Only source_main adds to the client tree, and only while there is room. *)
LEMMA LimitInv ==
    ASSUME IInv, [Next]_vars
    PROVE  LimitRespected'
<1> USE DEF IInv, At
<1>0. TypeOK /\ LimitRespected /\ LimitApplied /\ ListenersCounted
  OBVIOUS
<1>1. ASSUME \A n \in Mount : listeners'[n] \in {listeners[n], 0}
      PROVE  LimitRespected'
  BY <1>0, <1>1, MountsAssumption DEF LimitRespected
<1>2. ASSUME NEW m \in Mount, SourceInit(m) \/ ClearSource(m) \/ FreeSource(m)
      PROVE  LimitRespected'
  BY <1>0, <1>1, <1>2 DEF SourceInit, ClearSource, ClearEffect, FreeSource, TypeOK
<1>3. ASSUME NEW m \in Mount, AdmitPending(m)
      PROVE  LimitRespected'
  <2>1. PICK K \in SUBSET pending[m] :
            /\ Cardinality(K) \in Nat
            /\ Cardinality(K) <= Room(m)
            /\ \A n \in Mount : listeners'[n] = IF n = m THEN listeners[n] + Cardinality(K)
                                                ELSE listeners[n]
    <3> HIDE DEF IInv
    <3> QED
      BY <1>3, AdmitEffect
  <2>2. limit[m] = MaxListeners[m]
    BY <1>0, <1>3 DEF AdmitPending, LimitApplied
  <2>3. ASSUME MaxListeners[m] # -1
        PROVE  listeners'[m] <= MaxListeners[m]
    <3>1. MaxListeners[m] \in Nat /\ listeners[m] \in Nat
      BY <1>0, <2>3, MountsAssumption DEF TypeOK
    <3>2. listeners[m] <= MaxListeners[m]
      BY <1>0, <2>3 DEF LimitRespected
    <3>3. Room(m) = MaxListeners[m] - listeners[m]
      BY <2>2, <2>3, <3>1, <3>2 DEF Room, Max
    <3> QED
      BY <2>1, <3>1, <3>3
  <2> QED
    BY <1>0, <2>1, <2>3 DEF LimitRespected
<1>4. ASSUME NEW m \in Mount, NEW c \in Client, ListenerGone(m, c)
      PROVE  LimitRespected'
  <2>1. \A n \in Mount : listeners'[n] = IF n = m THEN listeners[n] - 1 ELSE listeners[n]
    BY <1>0, <1>4 DEF ListenerGone, TypeOK
  <2>2. \A n \in Mount : listeners[n] \in Nat /\ MaxListeners[n] \in Nat \cup {-1}
    BY <1>0, MountsAssumption DEF TypeOK
  <2> QED
    BY <1>0, <2>1, <2>2 DEF LimitRespected
<1>5. ASSUME NEW m \in Mount,
             TakeStolen(m) \/ MoveToFallback(m) \/ \E d \in Mount : AdminMove(m, d)
      PROVE  LimitRespected'
  <2>1. ASSUME NEW s \in Mount, NEW d \in Mount, MoveClients(s, d)
        PROVE  \A n \in Mount : listeners'[n] \in {listeners[n], 0}
    BY <1>0, <2>1 DEF MoveClients, TypeOK
  <2> QED
    BY <1>1, <1>5, <2>1, MovingSteps
<1>6. ASSUME NEW c \in Client, GetFind(c) \/ Get(c)
      PROVE  LimitRespected'
  BY <1>1, <1>6 DEF GetFind, Get, GetSpill, GetRefused, GetAdd, GetWake, placeVars
<1>7. CASE UNCHANGED vars
  BY <1>1, <1>7 DEF vars, placeVars
<1>8. Quiet => LimitRespected'
  BY <1>1 DEF Quiet
<1> HIDE DEF IInv
<1> QED
  BY <1>2, <1>3, <1>4, <1>5, <1>6, <1>7, <1>8, QuietSteps DEF Next, Owner

(* The invariant holds when the server starts. *)
LEMMA InitInv == Init => IInv
<1> USE DEF Init
<1> SUFFICES ASSUME Init PROVE IInv
  OBVIOUS
<1>1. TypeOK
  BY MountsAssumption DEF TypeOK, Phases, Idle
<1>2. ClientInOnePlace /\ NoUseAfterFree /\ TreeIsServed /\ LimitApplied
  BY DEF ClientInOnePlace, NoUseAfterFree, TreeIsServed, LimitApplied, Idle
<1>3. SourcesCounted
  <2>1. {m \in Mount : counted[m]} = {}
    OBVIOUS
  <2> QED
    <3>1. sources = Cardinality({m \in Mount : counted[m]})
      BY <2>1, FS_EmptySet
    <3>2. sources <= SourceLimit
      BY MountsAssumption
    <3>3. \A m \in Mount : /\ phase[m] \in Connected => counted[m]
                           /\ phase[m] \in Unconnected => ~counted[m]
      BY DEF Connected, Unconnected
    <3> QED
      BY <3>1, <3>2, <3>3 DEF SourcesCounted
<1>4. ListenersCounted
  BY FS_EmptySet DEF ListenersCounted
<1>5. LimitRespected
  BY MountsAssumption DEF LimitRespected
<1> QED
  BY <1>1, <1>2, <1>3, <1>4, <1>5 DEF IInv

(* The inductive invariant: IInv holds in every reachable state, for any   *)
(* mounts, fallback configuration, limits and listeners.                   *)
THEOREM Invariance == Spec => []IInv
<1>1. IInv /\ [Next]_vars => IInv'
  BY TypeInv, PlaceInv, FreeInv, SourcesInv, ServedInv, ListenersInv, AppliedInv,
     LimitInv DEF IInv
<1> QED
  BY <1>1, InitInv, PTL DEF Spec

(* The mounts that are open before and after a step of an owner. *)
LEMMA OpenAfter ==
    ASSUME TypeOK, NEW m \in Mount, NEW p, Goto(m, p)
    PROVE  {n \in Mount : phase'[n] = "loop"}
             = IF p = "loop" THEN {n \in Mount : phase[n] = "loop"} \cup {m}
               ELSE {n \in Mount : phase[n] = "loop"} \ {m}
BY DEF TypeOK, Goto

(* A step that moves the owner of a mount and no listener. *)
LEMMA OwnerStep ==
    ASSUME TypeOK, NEW m \in Mount, NEW p, Goto(m, p), UNCHANGED <<pending, tree>>
    PROVE  Life!Next
<1>1. CASE p = "loop"
  <2>1. Life!Open(m)
    BY <1>1, OpenAfter DEF Life!Open
  <2> QED
    BY <2>1 DEF Life!Next
<1>2. CASE p # "loop"
  <2>1. Life!Shut(m)
    BY <1>2, OpenAfter DEF Life!Shut
  <2> QED
    BY <2>1 DEF Life!Next
<1> QED
  BY <1>1, <1>2

(* A move of listeners is a move of ListenerLife, or nothing. *)
LEMMA MoveStep ==
    ASSUME TypeOK, NEW s \in Mount, NEW d \in Mount, MoveClients(s, d),
           LET open == {n \in Mount : phase[n] = "loop"}
           IN  {n \in Mount : phase'[n] = "loop"} \in {open, open \cup {d}}
    PROVE  Life!Move(s, d) \/ UNCHANGED <<pending, tree>>
<1>1. CASE CanMove(s, d)
  BY <1>1 DEF MoveClients, CanMove, Life!Move
<1>2. CASE ~CanMove(s, d)
  BY <1>2 DEF MoveClients
<1> QED
  BY <1>1, <1>2

(* The pass over the pending tree turns a listener away only if the source *)
(* is full then.                                                           *)
LEMMA AdmitStep ==
    ASSUME IInv, NEW m \in Mount, AdmitPending(m)
    PROVE  Life!Admit(m)
<1>0. TypeOK /\ ClientInOnePlace /\ ListenersCounted /\ LimitApplied /\ LimitRespected
  BY DEF IInv
<1>1. PICK K \in SUBSET pending[m] :
          /\ Cardinality(K) = Min({Cardinality(pending[m]), Room(m)})
          /\ tree' = [tree EXCEPT ![m] = @ \cup K]
  BY DEF AdmitPending
<1>2. /\ IsFiniteSet(tree[m]) /\ IsFiniteSet(pending[m])
      /\ Cardinality(tree[m]) \in Nat /\ Cardinality(pending[m]) \in Nat
  BY <1>0, TreesFinite
<1>3. IsFiniteSet(K) /\ Cardinality(K) \in Nat
  BY <1>2, FS_Subset, FS_CardinalityType
<1>4. Cardinality(tree[m] \cup K) = Cardinality(tree[m]) + Cardinality(K)
  <2>1. tree[m] \cap K = {}
    BY <1>0 DEF ClientInOnePlace, TypeOK
  <2>2. Cardinality(tree[m] \cup K)
          = Cardinality(tree[m]) + Cardinality(K) - Cardinality(tree[m] \cap K)
    BY <1>2, <1>3, FS_Union
  <2>3. Cardinality(tree[m] \cap K) = 0
    BY <2>1, FS_EmptySet
  <2> QED
    BY <1>2, <1>3, <2>2, <2>3
<1>5. phase[m] = "loop" /\ phase' = phase /\ pending' = [pending EXCEPT ![m] = {}]
  BY DEF AdmitPending, At
<1>6. limit[m] = MaxListeners[m] /\ listeners[m] = Cardinality(tree[m])
  BY <1>0, <1>5 DEF LimitApplied, ListenersCounted
<1>7. MaxListeners[m] \in Nat \cup {-1}
  BY MountsAssumption
<1>8. Room(m) = IF MaxListeners[m] = -1 THEN Cardinality(pending[m])
                ELSE Max({0, MaxListeners[m] - Cardinality(tree[m])})
  BY <1>6 DEF Room
<1>9. MaxListeners[m] # -1 =>
          Max({0, MaxListeners[m] - Cardinality(tree[m])})
            = MaxListeners[m] - Cardinality(tree[m])
  <2>1. MaxListeners[m] # -1 => Cardinality(tree[m]) <= MaxListeners[m]
    BY <1>0, <1>6 DEF LimitRespected
  <2> QED
    BY <1>2, <1>7, <2>1 DEF Max
<1>10. Room(m) \in Nat
  <2>1. MaxListeners[m] # -1 => Cardinality(tree[m]) <= MaxListeners[m]
    BY <1>0, <1>6 DEF LimitRespected
  <2> QED
    BY <1>2, <1>7, <1>8, <1>9, <2>1
<1>11. /\ Cardinality(K) <= Cardinality(pending[m]) /\ Cardinality(K) <= Room(m)
       /\ Cardinality(K) \in {Cardinality(pending[m]), Room(m)}
  <2>1. {Cardinality(pending[m]), Room(m)} \in SUBSET Nat
    BY <1>2, <1>10
  <2> QED
    BY <1>1, <2>1, MinOfNats
<1>12. K # pending[m] => Cardinality(K) # Cardinality(pending[m])
  BY <1>2, FS_Subset
<1>13. K # pending[m] => /\ MaxListeners[m] # -1
                         /\ Cardinality(tree[m] \cup K) = MaxListeners[m]
  BY <1>2, <1>3, <1>4, <1>7, <1>8, <1>9, <1>11, <1>12
<1>14. MaxListeners[m] # -1 => Cardinality(tree[m] \cup K) <= MaxListeners[m]
  BY <1>2, <1>3, <1>4, <1>7, <1>8, <1>9, <1>11
<1>15. tree'[m] = tree[m] \cup K /\ tree' = [tree EXCEPT ![m] = tree[m] \cup K]
  BY <1>0, <1>1 DEF TypeOK
<1>16. \E L \in SUBSET pending[m] :
          /\ tree' = [tree EXCEPT ![m] = tree[m] \cup L]
          /\ L # pending[m] => /\ MaxListeners[m] # -1
                               /\ Cardinality(tree[m] \cup L) = MaxListeners[m]
  BY <1>13, <1>15
<1>17. MaxListeners[m] # -1 => Cardinality(tree'[m]) <= MaxListeners[m]
  BY <1>14, <1>15
<1>18. /\ m \in {n \in Mount : phase[n] = "loop"}
       /\ {n \in Mount : phase'[n] = "loop"} = {n \in Mount : phase[n] = "loop"}
  BY <1>5
<1>19. \A S : Life!Cardinality(S) = Cardinality(S)
  BY Zenon DEF Life!Cardinality, Cardinality
<1> QED
  BY <1>5, <1>16, <1>17, <1>18, <1>19 DEF Life!Admit

(* Every step is a step of ListenerLife or changes nothing it knows of. *)
LEMMA LifeStep ==
    ASSUME IInv, Next
    PROVE  Life!Next \/ UNCHANGED Life!vars
<1>0. TypeOK /\ ClientInOnePlace /\ NoUseAfterFree
  BY DEF IInv
<1>1. ASSUME NEW m \in Mount, NEW p, Goto(m, p), UNCHANGED <<pending, tree>>
      PROVE  Life!Next
  BY <1>0, <1>1, OwnerStep
<1>2. ASSUME UNCHANGED <<phase, pending, tree>>
      PROVE  UNCHANGED Life!vars
  BY <1>2 DEF Life!vars
<1>3. ASSUME NEW m \in Mount,
             \/ Reserve(m) \/ Connect(m) \/ StartupBroken(m) \/ StartupUnsupported(m)
             \/ StartupSent(m) \/ SourceInit(m) \/ FindStolen(m) \/ LeaveLoop(m)
             \/ FindFallback(m) \/ CountDown(m) \/ RelayFailed(m) \/ Slave(m)
      PROVE  Life!Next
  <2>1. \E p : Goto(m, p) /\ UNCHANGED <<pending, tree>>
    BY <1>3 DEF placeVars, Reserve, Connect, Complete, CompleteFails, StartupBroken,
       StartupUnsupported, StartupSent, SourceInit, FindStolen, LeaveLoop,
       FindFallback, CountDown, RelayFailed, Slave, RelayCheck, RelayCleanup
  <2> QED
    BY <1>1, <2>1
<1>4. ASSUME NEW m \in Mount,
             \/ StopSource(m) \/ Recheck(m) \/ \E f \in Mount : AdminFallback(m, f)
      PROVE  UNCHANGED Life!vars
  BY <1>2, <1>4 DEF placeVars, StopSource, Recheck, AdminFallback
<1>5. ASSUME NEW m \in Mount, TakeStolen(m)
      PROVE  Life!Next
  <2>1. Goto(m, "loop")
    BY <1>5 DEF TakeStolen
  <2>2. CASE target[m] = None
    BY <1>1, <1>5, <2>1, <2>2 DEF TakeStolen
  <2>3. CASE target[m] # None
    <3>1. PICK s \in Mount : MoveClients(s, m)
      BY <1>0, <1>5, <2>3 DEF TakeStolen, TypeOK
    <3>2. Life!Move(s, m) \/ UNCHANGED <<pending, tree>>
      BY <1>0, <2>1, <3>1, MoveStep, OpenAfter
    <3> QED
      BY <1>1, <2>1, <3>1, <3>2 DEF Life!Next
  <2> QED
    BY <2>2, <2>3
<1>6. ASSUME NEW m \in Mount, MoveToFallback(m)
      PROVE  Life!Next
  <2>1. Goto(m, "clear") /\ phase[m] = "move"
    BY <1>6 DEF MoveToFallback, At
  <2>2. CASE target[m] = None
    BY <1>1, <1>6, <2>1, <2>2 DEF MoveToFallback
  <2>3. CASE target[m] # None
    <3>1. target[m] \in Mount /\ MoveClients(m, target[m])
      BY <1>0, <1>6, <2>3 DEF MoveToFallback, TypeOK
    <3>2. {n \in Mount : phase'[n] = "loop"} = {n \in Mount : phase[n] = "loop"}
      BY <1>0, <2>1 DEF Goto, TypeOK
    <3>3. PICK d \in Mount : d = target[m] /\ MoveClients(m, d)
      BY <3>1
    <3>4. Life!Move(m, d) \/ UNCHANGED <<pending, tree>>
      BY <1>0, <3>2, <3>3, MoveStep
    <3> QED
      BY <1>1, <2>1, <3>3, <3>4 DEF Life!Next
  <2> QED
    BY <2>2, <2>3
<1>7. ASSUME NEW m \in Mount, NEW d \in Mount, AdminMove(m, d)
      PROVE  Life!Next \/ UNCHANGED Life!vars
  <2>1. PICK f \in Mount : MoveClients(m, f) /\ phase' = phase
    BY <1>7, FindMountExists DEF AdminMove
  <2>2. {n \in Mount : phase'[n] = "loop"} = {n \in Mount : phase[n] = "loop"}
    BY <2>1
  <2>3. Life!Move(m, f) \/ UNCHANGED <<pending, tree>>
    BY <1>0, <2>1, <2>2, MoveStep
  <2> QED
    BY <1>2, <2>1, <2>3 DEF Life!Next
<1>8. ASSUME NEW m \in Mount, ClearSource(m) \/ FreeSource(m)
      PROVE  Life!Next
  <2>1. PICK p : /\ Goto(m, p) /\ p # "loop" /\ phase[m] # "loop"
                 /\ pending' = [pending EXCEPT ![m] = {}]
                 /\ tree' = [tree EXCEPT ![m] = {}]
    BY <1>8 DEF ClearSource, ClearEffect, FreeSource, At
  <2>2. {n \in Mount : phase'[n] = "loop"} = {n \in Mount : phase[n] = "loop"}
    BY <1>0, <2>1 DEF Goto, TypeOK
  <2>3. Life!Drop(m)
    BY <2>1, <2>2 DEF Life!Drop
  <2> QED
    BY <2>3 DEF Life!Next
<1>9. ASSUME NEW m \in Mount, AdmitPending(m)
      PROVE  Life!Next
  BY <1>9, AdmitStep DEF Life!Next
<1>10. ASSUME NEW m \in Mount, NEW c \in Client, ListenerGone(m, c)
       PROVE  Life!Next
  <2>1. Life!Leave(c, m)
    BY <1>10 DEF ListenerGone, sourceVars, Life!Leave
  <2> QED
    BY <2>1 DEF Life!Next
<1>11. ASSUME NEW c \in Client, GetFind(c) \/ Get(c)
       PROVE  Life!Next \/ UNCHANGED Life!vars
  <2>1. CASE GetAdd(c)
    <3>1. request[c].mount \in Mount
      BY <1>0, <2>1 DEF TypeOK, GetAdd, Idle
    <3>2. Life!Join(c, request[c].mount)
      BY <1>0, <2>1, <3>1 DEF GetAdd, ClientInOnePlace, sourceVars, Life!Join
    <3> QED
      BY <3>1, <3>2 DEF Life!Next
  <2>2. CASE GetFind(c) \/ GetSpill(c) \/ GetRefused(c) \/ GetWake(c)
    BY <1>2, <2>2 DEF GetFind, GetSpill, GetRefused, GetWake, sourceVars, placeVars
  <2> QED
    BY <1>11, <2>1, <2>2 DEF Get
<1> QED
  BY <1>3, <1>4, <1>5, <1>6, <1>7, <1>8, <1>9, <1>10, <1>11 DEF Next, Owner

(* The variables of the sources and requests keep their types; the         *)
(* counters global.sources and source->listeners never go below zero.      *)
THEOREM TypeCorrect == Spec => []TypeOK
BY Invariance, PTL DEF IInv

(* However the threads interleave, source_move_clients, the pending pass   *)
(* of source_main and source_clear_source keep a client in one tree.       *)
THEOREM OnePlace == Spec => []ClientInOnePlace
BY Invariance, PTL DEF IInv

(* The read lock on global.source_tree keeps every source that a thread    *)
(* has found from being freed by source_free_source.                       *)
THEOREM FreedUnused == Spec => []NoUseAfterFree
BY Invariance, PTL DEF IInv

(* global.sources is the number of sources that are up, on every way from  *)
(* connection_complete_source to source_shutdown.                          *)
THEOREM SourcesExact == Spec => []SourcesCounted
BY Invariance, PTL DEF IInv

(* source->listeners is the size of source->client_tree. *)
THEOREM ListenersExact == Spec => []ListenersCounted
BY Invariance, PTL DEF IInv

(* No mount serves more listeners than its max-listeners. *)
THEOREM LimitHolds == Spec => []LimitRespected
BY Invariance, PTL DEF IInv

(* A client tree with somebody in it is the tree of a source whose thread  *)
(* is in source_main or shutting it down.                                  *)
THEOREM TreeServed == Spec => []TreeIsServed
BY Invariance, PTL DEF IInv

(* The trees of the sources implement ListenerLife, step by step: GET      *)
(* requests, source_main, source_move_clients and source_clear_source give *)
(* a listener exactly the life that specification allows.                  *)
THEOREM Refinement == Spec => ListenerPromise
<1>1. Init => Life!Init
  BY DEF Init, Life!Init
<1>2. IInv /\ [Next]_vars => [Life!Next]_(Life!vars)
  <2>1. ASSUME IInv, Next
        PROVE  [Life!Next]_(Life!vars)
    BY <2>1, LifeStep
  <2>2. ASSUME UNCHANGED vars
        PROVE  UNCHANGED Life!vars
    BY <2>2 DEF vars, sourceVars, placeVars, Life!vars
  <2> QED
    BY <2>1, <2>2
<1> QED
  BY <1>1, <1>2, Invariance, PTL DEF Spec, ListenerPromise, Life!Spec
=============================================================================
