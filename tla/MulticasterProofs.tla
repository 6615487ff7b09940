------------------------- MODULE MulticasterProofs -------------------------
(***************************************************************************)
(* Theorems about Multicaster for any number of nodes, any configurations, *)
(* timeouts and size of the queue.                                         *)
(***************************************************************************)
EXTENDS Multicaster, FiniteSetTheorems, WellFoundedInduction, TLAPS

USE AddressAssumption, ConfigsAssumption, TimesAssumption

(* The intervals from 0 are ordered by inclusion as their bounds are by <. *)
LEMMA LeastNatural ==
    ASSUME NEW S \in SUBSET Nat, S # {}
    PROVE  \E n \in S : \A m \in S : n <= m
<1> DEFINE T == {0..n : n \in S}
<1>1. T \subseteq FiniteSubsetsOf(Nat)
  <2>1. \A n \in S : IsFiniteSet(0..n) /\ 0..n \in SUBSET Nat
    BY FS_Interval
  <2> QED
    BY <2>1 DEF FiniteSubsetsOf
<1>2. PICK X \in T : \A Y \in T : <<Y, X>> \notin StrictSubsetOrdering(Nat)
  <2>1. T # {}
    OBVIOUS
  <2> HIDE DEF T
  <2> QED
    BY <1>1, <2>1, FS_StrictSubsetOrderingWellFounded, WFMin
<1>3. PICK n \in S : X = 0..n
  OBVIOUS
<1>4. ASSUME NEW m \in S, m < n PROVE FALSE
  <2>1. /\ 0..m \in SUBSET Nat /\ 0..n \in SUBSET Nat
        /\ 0..m \subseteq 0..n /\ n \in 0..n /\ n \notin 0..m
    BY <1>4
  <2>2. <<0..m, 0..n>> \in StrictSubsetOrdering(Nat)
    BY <2>1 DEF StrictSubsetOrdering
  <2> QED
    BY <1>2, <1>3, <2>2
<1> QED
  BY <1>4

(* Sets of nodes are finite, and so is what is made of a finite set.       *)
LEMMA AddressSets ==
    ASSUME NEW R \in SUBSET Address
    PROVE  IsFiniteSet(R) /\ Cardinality(R) \in Nat
  BY FS_Subset, FS_CardinalityType

LEMMA CardinalityOfSubset ==
    ASSUME NEW R \in SUBSET Address, NEW S \in SUBSET R
    PROVE  Cardinality(S) <= Cardinality(R)
  BY AddressSets, FS_Subset

LEMMA ImageOfFinite ==
    ASSUME NEW S, IsFiniteSet(S), NEW f, f = [x \in S |-> f[x]]
    PROVE  /\ IsFiniteSet({f[x] : x \in S})
           /\ Cardinality({f[x] : x \in S}) <= Cardinality(S)
<1> DEFINE T == {f[x] : x \in S}
<1>1. f \in Surjection(S, T)
  BY DEF Surjection
<1> QED
  BY <1>1, FS_Surjection

----------------------------------------------------------------------------
(* The queue stays within ZT_TX_QUEUE_SIZE, and its entries are told apart *)
(* by their numbers, which have been given out.                            *)
QueueInv(q, n) ==
    /\ q \subseteq Outbound
    /\ IsFiniteSet(q) /\ Cardinality(q) <= TxQueueSize
    /\ \A x, y \in q : x.id = y.id => x = y
    /\ \A x \in q : x.id < n

LEMMA QueueSubset ==
    ASSUME NEW q, NEW n, QueueInv(q, n), NEW r \in SUBSET q
    PROVE  QueueInv(r, n)
<1>1. IsFiniteSet(r) /\ Cardinality(r) <= Cardinality(q)
  BY FS_Subset DEF QueueInv
<1>2. Cardinality(r) \in Nat /\ Cardinality(q) \in Nat
  BY <1>1, FS_CardinalityType DEF QueueInv
<1> QED
  BY <1>1, <1>2 DEF QueueInv

(* Entries may change in everything but their number.                      *)
LEMMA QueueImage ==
    ASSUME NEW q, NEW n, QueueInv(q, n), NEW f,
           f = [x \in q |-> f[x]],
           \A x \in q : f[x] \in Outbound /\ f[x].id = x.id
    PROVE  QueueInv({f[x] : x \in q}, n)
<1> DEFINE r == {f[x] : x \in q}
<1>1. IsFiniteSet(r) /\ Cardinality(r) <= Cardinality(q)
  BY ImageOfFinite DEF QueueInv
<1>2. Cardinality(r) \in Nat /\ Cardinality(q) \in Nat
  BY <1>1, FS_CardinalityType DEF QueueInv
<1>3. r \subseteq Outbound /\ \A x \in r : x.id < n
  BY DEF QueueInv
<1>4. \A x, y \in r : x.id = y.id => x = y
  BY DEF QueueInv
<1> QED
  BY <1>1, <1>2, <1>3, <1>4 DEF QueueInv

(* A new number goes to the back.                                          *)
LEMMA QueueRoom ==
    ASSUME NEW q, NEW n \in Nat, QueueInv(q, n), Cardinality(q) < TxQueueSize,
           NEW tx \in Outbound, tx.id = n
    PROVE  QueueInv({tx} \union q, n + 1)
<1> DEFINE r == q \union {tx}
<1>1. Cardinality(q) \in Nat /\ IsFiniteSet(q)
  BY FS_CardinalityType DEF QueueInv
<1>2. IsFiniteSet(r) /\ (Cardinality(r) = Cardinality(q) \/ Cardinality(r) = Cardinality(q) + 1)
  BY <1>1, FS_AddElement
<1>3. Cardinality(r) <= TxQueueSize
  BY <1>1, <1>2
<1>4. r \subseteq Outbound /\ \A x \in q : x.id \in Nat /\ x.id < n
  BY DEF QueueInv, Outbound, Multicasts
<1>5. \A x \in r : x.id < n + 1
  BY <1>4
<1>6. \A x, y \in r : x.id = y.id => x = y
  BY <1>4 DEF QueueInv
<1>7. r = {tx} \union q
  OBVIOUS
<1> HIDE DEF r
<1> QED
  BY <1>2, <1>3, <1>4, <1>5, <1>6, <1>7 DEF QueueInv

(* A full queue loses its front, so that there is room for one more.       *)
LEMMA QueuePush ==
    ASSUME NEW n \in Nat, QueueInv(queue, n), NEW tx \in Outbound, tx.id = n, Started(tx)
    PROVE  QueueInv(queue', n + 1)
<1> DEFINE rest == {x \in queue : \E y \in queue : y.id < x.id}
<1>1. Cardinality(queue) \in Nat /\ IsFiniteSet(queue)
  BY FS_CardinalityType DEF QueueInv
<1>2. \A x \in queue : x.id \in Nat
  BY DEF QueueInv, Outbound, Multicasts
<1>3. CASE Cardinality(queue) < TxQueueSize
  <2>1. queue' = {tx} \union queue
    BY <1>1, <1>3 DEF Started
  <2> QED
    BY <1>3, <2>1, QueueRoom
<1>4. CASE Cardinality(queue) >= TxQueueSize
  <2>1. queue # {}
    BY <1>4, FS_EmptySet
  <2>2. PICK x \in queue : \A y \in queue : x.id <= y.id
    <3> DEFINE S == {y.id : y \in queue}
    <3>1. S \in SUBSET Nat /\ S # {}
      BY <1>2, <2>1
    <3>2. \E i \in S : \A j \in S : i <= j
      BY <3>1, LeastNatural
    <3> QED
      BY <3>2
  <2>3. x \notin rest /\ rest \subseteq queue
    BY <1>2, <2>2
  <2>4. /\ IsFiniteSet(rest) /\ Cardinality(rest) <= Cardinality(queue)
        /\ Cardinality(queue) # Cardinality(rest)
    BY <1>1, <2>2, <2>3, FS_Subset
  <2>5. Cardinality(rest) \in Nat
    BY <2>4, FS_CardinalityType
  <2>6. Cardinality(rest) < TxQueueSize
    BY <1>1, <2>4, <2>5 DEF QueueInv
  <2>7. QueueInv(rest, n)
    BY <2>3, QueueSubset
  <2>8. queue' = {tx} \union rest
    BY <1>4 DEF Started
  <2> QED
    BY <2>6, <2>7, <2>8, QueueRoom
<1> QED
  BY <1>1, <1>3, <1>4

----------------------------------------------------------------------------
LEMMA ConfigIsType == TypeOK => config \in ConfigType /\ config.limit \in Nat
  BY DEF TypeOK, ConfigType

LEMMA TypeHasQueue == TypeOK => QueueInv(queue, next)
  BY DEF TypeOK, QueueInv

(* What is handed to a new member leaves the queue an orderly one.         *)
LEMMA OfferedQueue ==
    ASSUME TypeOK, NEW a \in Address
    PROVE  QueueInv({tx \in {Offered(w, a) : w \in {tx \in queue : ~AtLimit(tx)}} : ~AtLimit(tx)},
                    next)
<1> DEFINE waiting == {tx \in queue : ~AtLimit(tx)}
           f == [x \in waiting |-> Offered(x, a)]
           r == {f[x] : x \in waiting}
<1>1. QueueInv(waiting, next)
  BY TypeHasQueue, QueueSubset
<1>2. \A x \in waiting : f[x] \in Outbound /\ f[x].id = x.id
  BY <1>1 DEF QueueInv, Offered, Logged, Outbound
<1>3. QueueInv(r, next)
  <2> HIDE DEF f, waiting
  <2> SUFFICES f = [x \in waiting |-> f[x]]
    BY <1>1, <1>2, QueueImage
  <2> QED
    BY DEF f
<1>4. QueueInv({tx \in r : ~AtLimit(tx)}, next)
  BY <1>3, QueueSubset
<1>5. r = {Offered(w, a) : w \in waiting}
  OBVIOUS
<1> HIDE DEF r
<1> QED
  BY <1>4, <1>5

LEMMA SendsType ==
    ASSUME TypeOK, NEW H, NEW R \in SUBSET Address, Sends(H, R)
    PROVE  /\ next' \in 1..MaxMulticasts + 1 /\ next' = next + 1 /\ next \in Nat
           /\ limit' \in [Multicasts -> Nat]
           /\ hubs' \in [Multicasts -> SUBSET Address]
           /\ copies' \in [Multicasts -> [Address -> Nat]]
<1> USE DEF Sends, TypeOK, Multicasts
<1>1. next' \in 1..MaxMulticasts + 1 /\ next' = next + 1 /\ next \in Nat
  OBVIOUS
<1>2. limit' \in [Multicasts -> Nat] /\ hubs' \in [Multicasts -> SUBSET Address]
  BY ConfigIsType
<1>3. [a \in Address |-> IF a \in R THEN 1 ELSE 0] \in [Address -> Nat]
  OBVIOUS
<1>4. copies' \in [Multicasts -> [Address -> Nat]]
  BY <1>3
<1> QED
  BY <1>1, <1>2, <1>4

(* What a queued multicast starts with.                                    *)
Fresh(from, R) ==
    LET known == {from} \ {NoOrigin}
    IN  [id |-> next, age |-> 0, limit |-> config.limit, log |-> R \union known,
         logged |-> Cardinality(R) + Cardinality(known)]

LEMMA FreshType ==
    ASSUME TypeOK, next \in Multicasts, NEW from \in Anyone, NEW R \in SUBSET Address
    PROVE  /\ Fresh(from, R) \in Outbound
           /\ Cardinality(Fresh(from, R).log) <= Fresh(from, R).logged
<1> DEFINE known == {from} \ {NoOrigin}
<1>1. known \in SUBSET Address /\ R \union known \in SUBSET Address
  BY DEF Anyone, NoOrigin
<1>2. /\ Cardinality(R) \in Nat /\ Cardinality(known) \in Nat
      /\ IsFiniteSet(R) /\ IsFiniteSet(known)
  BY <1>1, AddressSets
<1>3. Cardinality(R \union known) <= Cardinality(R) + Cardinality(known)
  <2>1. /\ Cardinality(R \union known) =
              Cardinality(R) + Cardinality(known) - Cardinality(R \intersect known)
        /\ Cardinality(R \intersect known) \in Nat
    BY <1>2, FS_Union, FS_Intersection, FS_CardinalityType
  <2> QED
    BY <1>2, <2>1
<1> HIDE DEF known
<1>4. 0 \in 0..TransmitTimeout /\ config.limit \in Nat
      /\ Cardinality(R) + Cardinality(known) \in Nat
  BY <1>2, ConfigIsType
<1>5. Fresh(from, R) = [id |-> next, age |-> 0, limit |-> config.limit, log |-> R \union known,
                        logged |-> Cardinality(R) + Cardinality(known)]
  BY DEF Fresh, known
<1> QED
  BY <1>1, <1>3, <1>4, <1>5 DEF Outbound

(* Type correctness.                                                       *)
LEMMA TypeInitial == Init => TypeOK
<1> SUFFICES ASSUME Init PROVE TypeOK
  OBVIOUS
<1>1. IsFiniteSet({}) /\ Cardinality({}) = 0
  BY FS_EmptySet
<1> QED
  BY <1>1 DEF Init, TypeOK, Outbound, Multicasts, Anyone, NotMember, NoOrigin

LEMMA TypePreserved == TypeOK /\ [Next]_vars => TypeOK'
<1> SUFFICES ASSUME TypeOK, [Next]_vars PROVE TypeOK'
  OBVIOUS
<1> USE DEF group, busy, history
<1>1. ASSUME NEW addresses \in SUBSET Anyone, StartAdding(addresses) PROVE TypeOK'
  BY <1>1 DEF StartAdding, TypeOK
<1>2. ASSUME NEW a \in Anyone, AddNext(a) PROVE TypeOK'
  <2>1. /\ config' \in Configs /\ gatherAge' \in 0..GatherDelay /\ adding' \subseteq Anyone
        /\ next' = next /\ next \in 1..MaxMulticasts + 1
        /\ limit' \in [Multicasts -> Nat] /\ hubs' \in [Multicasts -> SUBSET Address]
        /\ passed' \subseteq {"limit", "replicator"}
        /\ sending' \subseteq [from : Anyone, bridges : SUBSET Anyone]
    BY <1>2 DEF AddNext, TypeOK
  <2>2. Add(a)
    BY <1>2 DEF AddNext
  <2>3. member' \in [Address -> 0..LikeExpire \union {NotMember}]
    BY <2>2 DEF Add, TypeOK
  <2>4. CASE UNCHANGED <<queue, copies>>
    BY <2>1, <2>3, <2>4 DEF TypeOK
  <2>5. CASE a \in Address /\ ~UNCHANGED <<queue, copies>>
    <3>1. QueueInv(queue', next)
      BY <2>2, <2>5, OfferedQueue DEF Add
    <3>2. copies' \in [Multicasts -> [Address -> Nat]]
      <4>1. \A m \in Multicasts : copies[m] \in [Address -> Nat]
        BY DEF TypeOK
      <4>2. \A m \in Multicasts : [copies[m] EXCEPT ![a] = @ + 1] \in [Address -> Nat]
        BY <2>5, <4>1
      <4> QED
        BY <2>2, <2>5, <4>1, <4>2 DEF Add
    <3> QED
      BY <2>1, <2>3, <3>1, <3>2 DEF TypeOK, QueueInv
  <2> QED
    BY <2>2, <2>4, <2>5 DEF Add
<1>3. ASSUME NEW a \in Address, Remove(a) PROVE TypeOK'
  BY <1>3 DEF Remove, TypeOK
<1>4. ASSUME NEW from \in Anyone, NEW r \in Address, SendToReplicator(from, r) PROVE TypeOK'
  <2>1. Sends({r}, {r}) /\ UNCHANGED <<config, passed, group, busy>>
    BY <1>4 DEF SendToReplicator
  <2>2. \A x \in queue : x.id \in Nat
    BY DEF TypeOK, Outbound, Multicasts
  <2> QED
    BY <2>1, <2>2, SendsType DEF TypeOK
<1>5. ASSUME NEW s \in sending, NEW R \in SUBSET Address, SendOnce(s, R) PROVE TypeOK'
  <2>1. /\ Sends(s.bridges, R \intersect config.permitted) /\ sending' = {}
        /\ UNCHANGED <<config, passed, group, adding>>
    BY <1>5 DEF SendOnce
  <2>2. \A x \in queue : x.id \in Nat
    BY DEF TypeOK, Outbound, Multicasts
  <2> QED
    BY <2>1, <2>2, SendsType DEF TypeOK
<1>6. ASSUME NEW s \in sending, NEW R \in SUBSET Address, SendQueued(s, R) PROVE TypeOK'
  <2>1. /\ Sends(s.bridges, R \intersect config.permitted) /\ next \in Multicasts
        /\ Started(Fresh(s.from, R)) /\ UNCHANGED <<config, passed, member, adding>>
        /\ gatherAge' \in 0..GatherDelay /\ sending' = {}
    BY <1>6 DEF SendQueued, Sends, Fresh, TypeOK
  <2>2. QueueInv(queue', next + 1)
    <3>1. next \in Nat /\ Fresh(s.from, R).id = next
      BY <2>1, SendsType DEF Fresh
    <3>2. s.from \in Anyone
      BY DEF TypeOK
    <3> QED
      BY <2>1, <3>1, <3>2, TypeHasQueue, FreshType, QueuePush
  <2> QED
    BY <2>1, <2>2, SendsType DEF TypeOK, QueueInv
<1>7. CASE CheckLimit \/ CheckReplicator
  <2>1. UNCHANGED <<config, group, busy, history>>
    BY <1>7 DEF CheckLimit, CheckReplicator
  <2>2. passed' \subseteq {"limit", "replicator"}
    BY <1>7 DEF CheckLimit, CheckReplicator, TypeOK
  <2> QED
    BY <2>1, <2>2 DEF TypeOK
<1>8. ASSUME NEW from \in Anyone, StartSending(from) PROVE TypeOK'
  BY <1>8, ConfigIsType DEF StartSending, TypeOK, ConfigType
<1>9. CASE Clean
  <2>1. QueueInv(queue', next)
    BY <1>9, TypeHasQueue, QueueSubset DEF Clean
  <2>2. member' \in [Address -> 0..LikeExpire \union {NotMember}]
        /\ gatherAge' \in 0..GatherDelay
    BY <1>9 DEF Clean, TypeOK
  <2> QED
    BY <1>9, <2>1, <2>2 DEF Clean, TypeOK, QueueInv
<1>10. CASE Tick
  <2> DEFINE f == [tx \in queue |-> [tx EXCEPT !.age = Older(@, TransmitTimeout)]]
  <2>1. \A x \in queue : f[x] \in Outbound /\ f[x].id = x.id
    BY DEF TypeOK, Outbound, Older
  <2>2. queue' = {f[x] : x \in queue}
    BY <1>10 DEF Tick
  <2>3. QueueInv(queue', next)
    <3> HIDE DEF f
    <3> SUFFICES f = [x \in queue |-> f[x]]
      BY <2>1, <2>2, TypeHasQueue, QueueImage
    <3> QED
      BY DEF f
  <2>4. member' \in [Address -> 0..LikeExpire \union {NotMember}]
        /\ gatherAge' \in 0..GatherDelay
    BY <1>10 DEF Tick, TypeOK, Older, Members
  <2> QED
    BY <1>10, <2>3, <2>4 DEF Tick, TypeOK, QueueInv
<1>11. CASE SetConfig
  BY <1>11 DEF SetConfig, TypeOK
<1>12. CASE UNCHANGED vars
  BY <1>12 DEF vars, TypeOK
<1> QED
  BY <1>1, <1>2, <1>3, <1>4, <1>5, <1>6, <1>7, <1>8, <1>9, <1>10, <1>11, <1>12 DEF Next

(* Every variable keeps its type; the queue stays within its size and its  *)
(* entries distinct (Multicaster::send, _add, clean).                      *)
THEOREM TypeCorrect == Spec => []TypeOK
  BY TypeInitial, TypePreserved, PTL DEF Spec

----------------------------------------------------------------------------
(* What a multicast in the queue says of itself: everyone it was sent to   *)
(* is in its log, which it does not undercount.                            *)
LogOf(tx) ==
    /\ Recipients(tx.id) \subseteq tx.log
    /\ Cardinality(tx.log) <= tx.logged
    /\ tx.limit = limit[tx.id]

LogInv == \A tx \in queue : LogOf(tx)

Inv == TypeOK /\ LogInv /\ AtMostOnce /\ WithinLimit /\ MembersServed

(* Without a multicast sent, the rest follows from the queue and members.  *)
LEMMA NothingSent ==
    ASSUME Inv, TypeOK', UNCHANGED <<limit, hubs, copies>>,
           \A tx \in queue' : \E w \in queue :
               tx.id = w.id /\ tx.limit = w.limit /\ tx.log = w.log /\ tx.logged = w.logged,
           Members' \subseteq Members
    PROVE  Inv'
<1>1. AtMostOnce' /\ WithinLimit'
  BY DEF Inv, AtMostOnce, WithinLimit, Recipients
<1>2. LogInv'
  BY DEF Inv, LogInv, LogOf, Recipients
<1>3. MembersServed'
  BY DEF Inv, MembersServed, AtLimit
<1> QED
  BY <1>1, <1>2, <1>3 DEF Inv

LogOfFirst(m, R) == Recipients(m)' = R /\ limit'[m] = config.limit

(* What a pass sends by the bridges or the replicator H: no more than the  *)
(* limit, or one packet to a hub if that is 0.                             *)
WithinPass(H, R) ==
    \/ Cardinality(R) <= config.limit
    \/ config.limit = 0 /\ \E a \in H : R = {a}

LEMMA PassIsWithin ==
    ASSUME TypeOK, NEW R \in SUBSET Address, NEW S \in SUBSET R, NEW H,
           NEW bridges \in SUBSET H, NEW others, IsFirstPass(R, bridges, others, config.limit)
    PROVE  WithinPass(H, S)
<1>1. /\ IsFiniteSet(R) /\ Cardinality(R) \in Nat /\ Cardinality(S) \in Nat
      /\ Cardinality(S) <= Cardinality(R) /\ config.limit \in Nat
  BY AddressSets, CardinalityOfSubset, ConfigIsType
<1>2. CASE Cardinality(R) <= config.limit
  BY <1>1, <1>2 DEF WithinPass
<1>3. CASE ~(Cardinality(R) <= config.limit)
  <2>1. config.limit = 0 /\ Cardinality(R) = 1 /\ bridges # {}
    BY <1>1, <1>3 DEF IsFirstPass
  <2>2. PICK a : R = {a}
    BY <1>1, <2>1, FS_Singleton
  <2>3. a \in bridges
    BY <2>1, <2>2 DEF IsFirstPass
  <2>4. CASE S = {a}
    BY <2>1, <2>3, <2>4 DEF WithinPass
  <2>5. CASE S = {}
    BY <2>1, <2>5, FS_EmptySet DEF WithinPass
  <2> QED
    BY <2>2, <2>4, <2>5
<1> QED
  BY <1>2, <1>3

LEMMA ReplicatorIsWithin ==
    ASSUME TypeOK, NEW r PROVE WithinPass({r}, {r})
<1>1. Cardinality({r}) = 1 /\ config.limit \in Nat
  BY FS_Singleton, ConfigIsType
<1> QED
  BY <1>1 DEF WithinPass

(* A first pass reaches nobody twice, stays within the limit, and leaves   *)
(* what is in the queue alone.                                             *)
LEMMA FirstPass ==
    ASSUME Inv, NEW H, NEW R \in SUBSET Address, Sends(H, R), WithinPass(H, R)
    PROVE  /\ AtMostOnce' /\ WithinLimit'
           /\ \A tx \in queue : LogOf(tx)'
           /\ \A m \in Multicasts : m = next => LogOfFirst(m, R)
<1> USE DEF Inv
<1>1. \A m \in Multicasts : m # next => /\ copies'[m] = copies[m] /\ limit'[m] = limit[m]
                                        /\ hubs'[m] = hubs[m]
  BY DEF Sends, TypeOK
<1>2. next \in Multicasts /\ limit'[next] = config.limit /\ hubs'[next] = H \intersect R
      /\ \A a \in Address : copies'[next][a] = IF a \in R THEN 1 ELSE 0
  BY DEF Sends, TypeOK
<1>3. AtMostOnce'
  BY <1>1, <1>2 DEF AtMostOnce
<1>4. \A m \in Multicasts : m = next => LogOfFirst(m, R)
  BY <1>2 DEF Recipients, LogOfFirst
<1>5. \A m \in Multicasts : m # next => Recipients(m)' = Recipients(m)
  BY <1>1 DEF Recipients
<1>6. WithinLimit'
  <2>1. ASSUME NEW m \in Multicasts, m # next
        PROVE  \/ Cardinality(Recipients(m)') <= limit'[m]
               \/ limit'[m] = 0 /\ \E a \in hubs'[m] : Recipients(m)' = {a}
    BY <1>1, <1>5, <2>1 DEF WithinLimit
  <2>2. ASSUME NEW m \in Multicasts, m = next
        PROVE  \/ Cardinality(Recipients(m)') <= limit'[m]
               \/ limit'[m] = 0 /\ \E a \in hubs'[m] : Recipients(m)' = {a}
    <3>1. Recipients(m)' = R /\ limit'[m] = config.limit /\ hubs'[m] = H \intersect R
      BY <1>2, <1>4, <2>2 DEF LogOfFirst
    <3> QED
      BY <3>1 DEF WithinPass
  <2> QED
    BY <2>1, <2>2 DEF WithinLimit
<1>7. \A tx \in queue : tx.id \in Multicasts /\ tx.id # next
  BY DEF TypeOK, Outbound, Multicasts
<1>8. \A tx \in queue : LogOf(tx)'
  BY <1>1, <1>5, <1>7 DEF LogInv, LogOf
<1> QED
  BY <1>2, <1>3, <1>4, <1>6, <1>8

(* A first pass that ended below the limit went over every member.         *)
LEMMA FreshServes ==
    ASSUME Inv, next \in Multicasts, NEW from \in Anyone, NEW R \in SUBSET Address,
           NEW bridges, config.limit > 0,
           IsFirstPass(R, bridges \ {Self}, Members \ bridges, config.limit)
    PROVE  LET tx == Fresh(from, R) IN tx.logged >= tx.limit \/ Members \subseteq tx.log
<1> DEFINE known == {from} \ {NoOrigin}
<1>1. known \in SUBSET Address
  BY DEF Anyone, NoOrigin
<1>2. Cardinality(R) \in Nat /\ Cardinality(known) \in Nat /\ config.limit \in Nat
  BY <1>1, AddressSets, ConfigIsType DEF Inv
<1>3. /\ Fresh(from, R).log = R \union known /\ Fresh(from, R).limit = config.limit
      /\ Fresh(from, R).logged = Cardinality(R) + Cardinality(known)
  BY DEF Fresh
<1>4. CASE Cardinality(R) < config.limit
  <2>1. R = (bridges \ {Self}) \union (Members \ bridges)
    BY <1>2, <1>4 DEF IsFirstPass
  <2>2. Self \notin Members
    BY DEF Members
  <2> QED
    BY <1>3, <2>1, <2>2
<1>5. CASE Cardinality(R) >= config.limit
  <2> HIDE DEF known
  <2> QED
    BY <1>2, <1>3, <1>5
<1> QED
  BY <1>2, <1>4, <1>5

(* A new member is sent nothing again, and nothing beyond its limit.       *)
Waiting == {tx \in queue : ~AtLimit(tx)}
SentTo(a) == {tx.id : tx \in {tx \in Waiting : IsNew(tx, a) /\ Permitted(a)}}

LEMMA SentIsOpen ==
    ASSUME Inv, NEW a \in Address, NEW m \in SentTo(a)
    PROVE  /\ m \in Multicasts /\ \E tx \in queue : tx.id = m
           /\ copies[m][a] = 0 /\ Cardinality(Recipients(m)) < limit[m]
<1>1. PICK tx \in queue : ~AtLimit(tx) /\ IsNew(tx, a) /\ tx.id = m
  BY DEF SentTo, Waiting
<1>2. LogOf(tx) /\ tx \in Outbound /\ m \in Multicasts
  BY <1>1 DEF Inv, LogInv, TypeOK, Outbound
<1>3. copies[m][a] \in Nat /\ a \notin Recipients(m)
  BY <1>1, <1>2 DEF LogOf, IsNew, Inv, TypeOK
<1>4. copies[m][a] = 0
  BY <1>3 DEF Recipients
<1>5. /\ Cardinality(Recipients(m)) <= Cardinality(tx.log)
      /\ Cardinality(Recipients(m)) \in Nat /\ Cardinality(tx.log) \in Nat
  <2>1. tx.log \in SUBSET Address /\ Recipients(m) \in SUBSET tx.log
    BY <1>1, <1>2 DEF LogOf, Outbound
  <2> QED
    BY <2>1, AddressSets, CardinalityOfSubset
<1>6. Cardinality(tx.log) <= tx.logged /\ tx.logged \in Nat /\ tx.limit \in Nat
      /\ tx.limit = limit[m] /\ tx.logged < tx.limit
  BY <1>1, <1>2 DEF LogOf, Outbound, AtLimit
<1> QED
  BY <1>1, <1>2, <1>4, <1>5, <1>6

(* A new member gets a copy of what it is sent, and nobody else does.      *)
LEMMA OneCopyMore ==
    ASSUME Inv, NEW a \in Address, Add(a), a \notin Members
    PROVE  /\ queue' = {tx \in {Offered(w, a) : w \in Waiting} : ~AtLimit(tx)}
           /\ copies' = [m \in Multicasts |->
                  IF m \in SentTo(a) THEN [copies[m] EXCEPT ![a] = 1] ELSE copies[m]]
           /\ Members' = Members \union {a}
<1>1. /\ queue' = {tx \in {Offered(w, a) : w \in Waiting} : ~AtLimit(tx)}
      /\ copies' = [m \in Multicasts |->
             IF m \in SentTo(a) THEN [copies[m] EXCEPT ![a] = copies[m][a] + 1] ELSE copies[m]]
      /\ member' = [member EXCEPT ![a] = 0]
  BY AddressAssumption DEF Add, Waiting, SentTo, Members
<1>2. \A m \in SentTo(a) : copies[m][a] + 1 = 1
  BY SentIsOpen
<1>3. Members' = Members \union {a}
  BY <1>1 DEF Members, NotMember, Inv, TypeOK
<1> QED
  BY <1>1, <1>2, <1>3

LEMMA AddPreserves ==
    ASSUME Inv, TypeOK', NEW a \in Address, Add(a), a \notin Members,
           UNCHANGED <<limit, hubs>>
    PROVE  Inv'
<1>1. /\ queue' = {tx \in {Offered(w, a) : w \in Waiting} : ~AtLimit(tx)}
      /\ copies' = [m \in Multicasts |->
             IF m \in SentTo(a) THEN [copies[m] EXCEPT ![a] = 1] ELSE copies[m]]
      /\ Members' = Members \union {a}
  BY OneCopyMore
<1>2. \A m \in Multicasts : copies[m] \in [Address -> Nat]
  BY DEF Inv, TypeOK
<1>3. AtMostOnce'
  <2> SUFFICES ASSUME NEW m \in Multicasts, NEW b \in Address PROVE copies'[m][b] <= 1
    BY DEF AtMostOnce
  <2>1. copies[m][b] <= 1
    BY DEF Inv, AtMostOnce
  <2> QED
    BY <1>1, <1>2, <2>1
<1>4. \A m \in Multicasts :
          Recipients(m)' = IF m \in SentTo(a) THEN Recipients(m) \union {a} ELSE Recipients(m)
  BY <1>1, <1>2 DEF Recipients
<1>5. WithinLimit'
  <2> SUFFICES ASSUME NEW m \in Multicasts
               PROVE  \/ Cardinality(Recipients(m)') <= limit[m]
                      \/ limit[m] = 0 /\ \E b \in hubs[m] : Recipients(m)' = {b}
    BY DEF WithinLimit
  <2>1. CASE m \in SentTo(a)
    <3>1. Recipients(m) \in SUBSET Address
      BY DEF Recipients
    <3>2. IsFiniteSet(Recipients(m)) /\ Cardinality(Recipients(m)) \in Nat
      BY <3>1, AddressSets
    <3>3. \/ Cardinality(Recipients(m) \union {a}) = Cardinality(Recipients(m))
          \/ Cardinality(Recipients(m) \union {a}) = Cardinality(Recipients(m)) + 1
      BY <3>2, FS_AddElement
    <3>4. Cardinality(Recipients(m)) < limit[m] /\ limit[m] \in Nat
      BY <2>1, SentIsOpen DEF Inv, TypeOK
    <3>5. Recipients(m)' = Recipients(m) \union {a}
      BY <1>4, <2>1
    <3> QED
      BY <3>2, <3>3, <3>4, <3>5
  <2>2. CASE m \notin SentTo(a)
    BY <1>4, <2>2 DEF Inv, WithinLimit
  <2> QED
    BY <2>1, <2>2
<1>6. ASSUME NEW tx \in queue'
      PROVE  \E w \in Waiting : /\ tx = Offered(w, a) /\ w \in queue /\ w \in Outbound /\ ~AtLimit(w)
                               /\ tx.id = w.id /\ w.id \in Multicasts /\ tx.limit = w.limit
                               /\ tx.log = w.log \union {a}
                               /\ tx.logged = IF IsNew(w, a) THEN w.logged + 1 ELSE w.logged
  <2>1. PICK w \in Waiting : tx = Offered(w, a)
    BY <1>1
  <2>2. w \in queue /\ w \in Outbound /\ ~AtLimit(w) /\ w.id \in Multicasts
    BY <2>1 DEF Waiting, Inv, TypeOK, Outbound
  <2>3. CASE IsNew(w, a)
    BY <2>1, <2>2, <2>3 DEF Offered, Logged
  <2>4. CASE ~IsNew(w, a)
    BY <2>1, <2>2, <2>4 DEF Offered, IsNew
  <2> QED
    BY <2>3, <2>4
<1>7. LogInv'
  <2> SUFFICES ASSUME NEW tx \in queue' PROVE LogOf(tx)'
    BY DEF LogInv
  <2>1. PICK w \in Waiting :
            /\ w \in queue /\ w \in Outbound
            /\ tx.id = w.id /\ w.id \in Multicasts /\ tx.limit = w.limit
            /\ tx.log = w.log \union {a}
            /\ tx.logged = IF IsNew(w, a) THEN w.logged + 1 ELSE w.logged
    BY <1>6
  <2>2. LogOf(w)
    BY <2>1 DEF Inv, LogInv
  <2>3. Recipients(tx.id)' \subseteq tx.log
    BY <1>4, <2>1, <2>2 DEF LogOf
  <2>4. IsFiniteSet(w.log) /\ Cardinality(w.log) \in Nat /\ w.logged \in Nat
    BY <2>1, AddressSets DEF Outbound
  <2>5. Cardinality(tx.log) <= tx.logged
    <3>1. CASE a \in w.log
      <4>1. tx.log = w.log /\ tx.logged = w.logged
        BY <2>1, <3>1 DEF IsNew
      <4> QED
        BY <2>2, <4>1 DEF LogOf
    <3>2. CASE a \notin w.log
      <4>1. tx.logged = w.logged + 1
        BY <2>1, <3>2 DEF IsNew
      <4>2. Cardinality(tx.log) = Cardinality(w.log) + 1
        BY <2>1, <2>4, <3>2, FS_AddElement
      <4> QED
        BY <2>2, <2>4, <4>1, <4>2 DEF LogOf
    <3> QED
      BY <3>1, <3>2
  <2>6. tx.limit = limit'[tx.id]
    BY <2>1, <2>2 DEF LogOf
  <2> QED
    BY <2>3, <2>5, <2>6 DEF LogOf, Recipients
<1>8. MembersServed'
  <2> SUFFICES ASSUME NEW tx \in queue' PROVE Members' \subseteq tx.log
    BY DEF MembersServed, AtLimit
  <2>1. PICK w \in Waiting : w \in queue /\ ~AtLimit(w) /\ tx.log = w.log \union {a}
    BY <1>6
  <2>2. Members \subseteq w.log
    BY <2>1 DEF Inv, MembersServed
  <2> QED
    BY <1>1, <2>1, <2>2
<1> QED
  BY <1>3, <1>5, <1>7, <1>8 DEF Inv

(* A multicast that needs a single pass leaves the queue as it is.         *)
LEMMA OnePassPreserves ==
    ASSUME Inv, TypeOK', NEW H, NEW R \in SUBSET Address, Sends(H, R), WithinPass(H, R),
           UNCHANGED <<queue, member>>
    PROVE  Inv'
<1>1. AtMostOnce' /\ WithinLimit' /\ \A tx \in queue : LogOf(tx)'
  BY FirstPass
<1>2. LogInv'
  BY <1>1 DEF LogInv, LogOf, Recipients
<1>3. MembersServed'
  BY DEF Inv, MembersServed, AtLimit, Members
<1> QED
  BY <1>1, <1>2, <1>3 DEF Inv

LEMMA QueuedPreserves ==
    ASSUME Inv, TypeOK', NEW s \in sending, NEW R \in SUBSET Address, SendQueued(s, R)
    PROVE  Inv'
<1> DEFINE S == R \intersect config.permitted
           from == s.from
           bridges == s.bridges
<1>0. from \in Anyone
  BY DEF Inv, TypeOK
<1>1. /\ Sends(bridges, S) /\ next \in Multicasts /\ Started(Fresh(from, R))
      /\ UNCHANGED member
      /\ IsFirstPass(R, bridges \ {Self}, Members \ bridges, config.limit)
      /\ Cardinality(Members) < config.limit
  BY DEF SendQueued, Sends, Fresh
<1>2. WithinPass(bridges, S)
  <2>1. S \in SUBSET R /\ bridges \ {Self} \in SUBSET bridges
    OBVIOUS
  <2> HIDE DEF S, bridges
  <2> QED
    BY <1>1, <2>1, PassIsWithin DEF Inv
<1> HIDE DEF from, bridges
<1>3. /\ AtMostOnce' /\ WithinLimit' /\ \A tx \in queue : LogOf(tx)'
      /\ \A m \in Multicasts : m = next => LogOfFirst(m, S)
  <2> HIDE DEF S
  <2>1. S \in SUBSET Address
    BY DEF S
  <2> QED
    BY <1>1, <1>2, <2>1, FirstPass
<1>4. queue' \subseteq queue \union {Fresh(from, R)}
  BY <1>1 DEF Started
<1>5. /\ Fresh(from, R).id = next /\ Fresh(from, R).limit = config.limit
      /\ R \subseteq Fresh(from, R).log
      /\ Cardinality(Fresh(from, R).log) <= Fresh(from, R).logged
  BY <1>0, <1>1, FreshType DEF Fresh, Inv
<1>6. ASSUME NEW tx \in queue', tx = Fresh(from, R) PROVE LogOf(tx)'
  <2>1. LogOfFirst(tx.id, S) /\ tx.id \in Multicasts
    BY <1>1, <1>3, <1>5, <1>6
  <2> QED
    BY <1>5, <1>6, <2>1 DEF LogOfFirst, LogOf, Recipients
<1>7. LogInv'
  BY <1>3, <1>4, <1>6 DEF LogInv, LogOf, Recipients
<1>8. MembersServed'
  <2>1. LET tx == Fresh(from, R) IN AtLimit(tx) \/ Members \subseteq tx.log
    <3>1. Cardinality(Members) \in Nat /\ config.limit \in Nat
      BY AddressSets, ConfigIsType DEF Members, Inv
    <3>2. config.limit > 0
      BY <1>1, <3>1
    <3> QED
      BY <1>0, <1>1, <3>2, FreshServes DEF AtLimit
  <2>2. \A tx \in queue : AtLimit(tx) \/ Members \subseteq tx.log
    BY DEF Inv, MembersServed
  <2>3. Members' = Members
    BY <1>1 DEF Members
  <2> QED
    BY <1>4, <2>1, <2>2, <2>3 DEF MembersServed, AtLimit
<1> QED
  BY <1>3, <1>7, <1>8 DEF Inv

LEMMA InvInitial == Init => Inv
<1> SUFFICES ASSUME Init PROVE Inv
  OBVIOUS
<1>1. queue = {} /\ \A m \in Multicasts, a \in Address : copies[m][a] = 0
  BY DEF Init
<1>2. \A m \in Multicasts : Recipients(m) = {} /\ limit[m] \in Nat
  BY <1>1 DEF Recipients, Init
<1>3. WithinLimit
  BY <1>2, FS_EmptySet DEF WithinLimit
<1> QED
  BY <1>1, <1>3, TypeInitial DEF Inv, LogInv, AtMostOnce, MembersServed

LEMMA InvPreserved == Inv /\ [Next]_vars => Inv'
<1> SUFFICES ASSUME Inv, [Next]_vars PROVE Inv'
  OBVIOUS
<1> USE DEF group, busy, history
<1>0. TypeOK /\ TypeOK'
  BY TypePreserved DEF Inv
<1>1. ASSUME NEW addresses \in SUBSET Anyone, StartAdding(addresses) PROVE Inv'
  BY <1>0, <1>1, NothingSent DEF StartAdding, Members
<1>2. ASSUME NEW a \in Anyone, AddNext(a) PROVE Inv'
  <2>1. Add(a) /\ UNCHANGED <<limit, hubs>>
    BY <1>2 DEF AddNext
  <2>2. CASE a = Self \/ a \in Members
    <3>1. UNCHANGED <<limit, hubs, queue, copies>>
      BY <2>1, <2>2, AddressAssumption DEF Add
    <3>2. Members' \subseteq Members
      BY <1>0, <2>1, <2>2, AddressAssumption DEF Add, Members, TypeOK, NotMember
    <3> QED
      BY <1>0, <3>1, <3>2, NothingSent
  <2>3. CASE a \in Address \ Members
    BY <1>0, <2>1, <2>3, AddPreserves
  <2> QED
    BY <2>2, <2>3 DEF Anyone
<1>3. ASSUME NEW a \in Address, Remove(a) PROVE Inv'
  <2>1. Members' \subseteq Members
    BY <1>0, <1>3 DEF Remove, Members, TypeOK
  <2> QED
    BY <1>0, <1>3, <2>1, NothingSent DEF Remove
<1>4. ASSUME NEW from \in Anyone, NEW r \in Address, SendToReplicator(from, r) PROVE Inv'
  <2>1. Sends({r}, {r}) /\ UNCHANGED <<queue, member>>
    BY <1>4 DEF SendToReplicator
  <2> QED
    BY <1>0, <2>1, ReplicatorIsWithin, OnePassPreserves
<1>5. ASSUME NEW s \in sending, NEW R \in SUBSET Address, SendOnce(s, R) PROVE Inv'
  <2> DEFINE S == R \intersect config.permitted
  <2>1. Sends(s.bridges, S) /\ UNCHANGED <<queue, member>>
    BY <1>5 DEF SendOnce
  <2>2. WithinPass(s.bridges, S)
    BY <1>0, <1>5, PassIsWithin DEF SendOnce
  <2>3. S \in SUBSET Address
    OBVIOUS
  <2> HIDE DEF S
  <2> QED
    BY <1>0, <2>1, <2>2, <2>3, OnePassPreserves
<1>6. ASSUME NEW s \in sending, NEW R \in SUBSET Address, SendQueued(s, R) PROVE Inv'
  BY <1>0, <1>6, QueuedPreserves
<1>7. CASE CheckLimit \/ CheckReplicator
  BY <1>0, <1>7, NothingSent DEF CheckLimit, CheckReplicator, Members
<1>8. ASSUME NEW from \in Anyone, StartSending(from) PROVE Inv'
  BY <1>0, <1>8, NothingSent DEF StartSending, Members
<1>9. CASE Clean
  <2>1. Members' \subseteq Members
    BY <1>0, <1>9 DEF Clean, Members, TypeOK
  <2>2. queue' \subseteq queue /\ UNCHANGED <<limit, hubs, copies>>
    BY <1>9 DEF Clean
  <2> QED
    BY <1>0, <2>1, <2>2, NothingSent
<1>10. CASE Tick
  <2>1. Members' \subseteq Members
    BY <1>0, <1>10 DEF Tick, Members, TypeOK
  <2>2. \A tx \in queue' : \E w \in queue :
            tx.id = w.id /\ tx.limit = w.limit /\ tx.log = w.log /\ tx.logged = w.logged
    BY <1>0, <1>10 DEF Tick, TypeOK, Outbound
  <2>3. UNCHANGED <<limit, hubs, copies>>
    BY <1>10 DEF Tick
  <2> QED
    BY <1>0, <2>1, <2>2, <2>3, NothingSent
<1>11. CASE SetConfig
  BY <1>0, <1>11, NothingSent DEF SetConfig, Members
<1>12. CASE UNCHANGED vars
  BY <1>0, <1>12, NothingSent DEF vars, Members
<1> QED
  BY <1>1, <1>2, <1>3, <1>4, <1>5, <1>6, <1>7, <1>8, <1>9, <1>10, <1>11, <1>12 DEF Next

(* No recipient gets a copy twice, however members leave and return, are   *)
(* reported again, or change between member and bridge (send, sendIfNew).  *)
THEOREM SentAtMostOnce == Spec => []AtMostOnce
<1>1. Inv => AtMostOnce
  BY DEF Inv
<1> QED
  BY <1>1, InvInitial, InvPreserved, PTL DEF Spec

(* Nobody beyond the limit is sent a multicast, counted over the bridges,  *)
(* the first pass and all members that join while it is queued; and what   *)
(* was let in before multicast was disabled reaches one bridge or          *)
(* replicator at most (send, atLimit).                                     *)
THEOREM SentWithinLimit == Spec => []WithinLimit
<1>1. Inv => WithinLimit
  BY DEF Inv
<1> QED
  BY <1>1, InvInitial, InvPreserved, PTL DEF Spec

(* Whoever is a member was offered all of the queue that is below its      *)
(* limit (send, _add).                                                     *)
THEOREM EveryMemberServed == Spec => []MembersServed
<1>1. Inv => MembersServed
  BY DEF Inv
<1> QED
  BY <1>1, InvInitial, InvPreserved, PTL DEF Spec

----------------------------------------------------------------------------
(* The refinement.                                                         *)
Open == {tx.id : tx \in queue}

LEMMA SameCardinality == \A S : Delivery!Cardinality(S) = Cardinality(S)
  BY Zenon DEF Cardinality, Delivery!Cardinality, Delivery!IsFiniteSet, IsFiniteSet

LEMMA PassStarts ==
    ASSUME Inv, NEW H, NEW R \in SUBSET Address, Sends(H, R), WithinPass(H, R),
           Open' \subseteq Open \union {next}
    PROVE  Delivery!Next
<1>1. /\ next \in Multicasts /\ next' = next + 1
      /\ limit' = [limit EXCEPT ![next] = config.limit]
      /\ copies' = [copies EXCEPT ![next] = [a \in Address |-> IF a \in R THEN 1 ELSE 0]]
  BY DEF Sends
<1>2. limit'[next] = config.limit /\ config.limit \in Nat
  BY <1>1, ConfigIsType DEF Inv, TypeOK
<1>3. Cardinality(R) <= config.limit \/ (config.limit = 0 /\ Cardinality(R) = 1)
  BY FS_Singleton DEF WithinPass
<1>4. Delivery!Start(R)
  BY <1>1, <1>2, <1>3, SameCardinality DEF Delivery!Start, Delivery!Multicasts, Multicasts, Open
<1> QED
  BY <1>4 DEF Delivery!Next

LEMMA OfferContinues ==
    ASSUME Inv, NEW a \in Address, Add(a), a \notin Members, UNCHANGED <<next, limit>>
    PROVE  Delivery!Next
<1>1. /\ queue' = {tx \in {Offered(w, a) : w \in Waiting} : ~AtLimit(tx)}
      /\ copies' = [m \in Multicasts |->
             IF m \in SentTo(a) THEN [copies[m] EXCEPT ![a] = 1] ELSE copies[m]]
  BY OneCopyMore
<1>2. \A m \in SentTo(a) : copies[m][a] = 0 /\ Cardinality(Recipients(m)) < limit[m]
  BY SentIsOpen
<1>3. SentTo(a) \subseteq Open
  BY SentIsOpen DEF Open
<1>4. Open' \subseteq Open
  <2>1. \A w \in Waiting : Offered(w, a).id = w.id /\ w \in queue
    BY DEF Offered, Logged, Waiting
  <2> QED
    BY <1>1, <2>1 DEF Open
<1>5. Delivery!Continue(SentTo(a), a)
  BY <1>1, <1>2, <1>4, SameCardinality
  DEF Delivery!Continue, Delivery!Multicasts, Delivery!Recipients, Multicasts, Recipients, Open
<1> QED
  BY <1>3, <1>5 DEF Delivery!Next, Open

LEMMA StepImplements == Inv /\ [Next]_vars => [Delivery!Next]_(Delivery!vars)
<1> SUFFICES ASSUME Inv, [Next]_vars PROVE Delivery!Next \/ UNCHANGED Delivery!vars
  OBVIOUS
<1> USE DEF group, busy, history
<1>0. ASSUME UNCHANGED <<next, limit, copies>>, Open' \subseteq Open PROVE Delivery!Next
  BY <1>0 DEF Delivery!Next, Delivery!GiveUp, Open
<1>1. ASSUME NEW addresses \in SUBSET Anyone, StartAdding(addresses) PROVE Delivery!Next
  BY <1>0, <1>1 DEF StartAdding, Open
<1>2. ASSUME NEW a \in Anyone, AddNext(a) PROVE Delivery!Next
  <2>1. Add(a) /\ UNCHANGED <<next, limit>>
    BY <1>2 DEF AddNext
  <2>2. CASE a = Self \/ a \in Members
    BY <1>0, <2>1, <2>2, AddressAssumption DEF Add, Open
  <2>3. CASE a \in Address \ Members
    BY <2>1, <2>3, OfferContinues
  <2> QED
    BY <2>2, <2>3 DEF Anyone
<1>3. ASSUME NEW a \in Address, Remove(a) PROVE Delivery!Next
  BY <1>0, <1>3 DEF Remove, Open
<1>4. ASSUME NEW from \in Anyone, NEW r \in Address, SendToReplicator(from, r)
      PROVE  Delivery!Next
  <2>1. Sends({r}, {r}) /\ Open' \subseteq Open
    BY <1>4 DEF SendToReplicator, Open
  <2> QED
    BY <2>1, ReplicatorIsWithin, PassStarts DEF Inv
<1>5. ASSUME NEW s \in sending, NEW R \in SUBSET Address, SendOnce(s, R)
      PROVE  Delivery!Next
  <2> DEFINE S == R \intersect config.permitted
  <2>1. Sends(s.bridges, S) /\ Open' \subseteq Open
    BY <1>5 DEF SendOnce, Open
  <2>2. S \in SUBSET Address /\ WithinPass(s.bridges, S)
    BY <1>5, PassIsWithin DEF SendOnce, Inv
  <2> HIDE DEF S
  <2> QED
    BY <2>1, <2>2, PassStarts
<1>6. ASSUME NEW s \in sending, NEW R \in SUBSET Address, SendQueued(s, R)
      PROVE  Delivery!Next
  <2> DEFINE S == R \intersect config.permitted
  <2>1. Sends(s.bridges, S) /\ Started(Fresh(s.from, R))
    BY <1>6 DEF SendQueued, Fresh
  <2>2. Open' \subseteq Open \union {next}
    BY <2>1 DEF Started, Fresh, Open
  <2>3. S \in SUBSET Address /\ WithinPass(s.bridges, S)
    BY <1>6, PassIsWithin DEF SendQueued, Inv
  <2> HIDE DEF S
  <2> QED
    BY <2>1, <2>2, <2>3, PassStarts
<1>7. CASE CheckLimit \/ CheckReplicator
  BY <1>0, <1>7 DEF CheckLimit, CheckReplicator, Open
<1>8. ASSUME NEW from \in Anyone, StartSending(from) PROVE Delivery!Next
  BY <1>0, <1>8 DEF StartSending, Open
<1>9. CASE Clean
  BY <1>0, <1>9 DEF Clean, Open
<1>10. CASE Tick
  <2>1. \A tx \in queue : [tx EXCEPT !.age = Older(tx.age, TransmitTimeout)].id = tx.id
    BY DEF Inv, TypeOK, Outbound
  <2>2. Open' \subseteq Open
    BY <1>10, <2>1, ZenonT(30) DEF Tick, Open
  <2> QED
    BY <1>0, <1>10, <2>2 DEF Tick
<1>11. CASE SetConfig
  BY <1>0, <1>11 DEF SetConfig, Open
<1>12. CASE UNCHANGED vars
  BY <1>0, <1>12 DEF vars, Open
<1> QED
  BY <1>1, <1>2, <1>3, <1>4, <1>5, <1>6, <1>7, <1>8, <1>9, <1>10, <1>11, <1>12 DEF Next

(* Whatever the queue, the log and the changing set of members do, it is   *)
(* one of the ways MulticastDelivery allows (send, sendOnly, sendIfNew).   *)
THEOREM Implementation == Spec => Implements
<1>1. Init => Delivery!Init
  BY DEF Init, Delivery!Init, Delivery!Multicasts, Multicasts
<1> QED
  BY <1>1, InvInitial, InvPreserved, StepImplements, PTL DEF Spec, Implements, Delivery!Spec
=============================================================================
