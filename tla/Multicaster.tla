---------------------------- MODULE Multicaster ----------------------------
(***************************************************************************)
(* The members a node knows of one multicast group of one network, and the *)
(* multicasts it sends to them: src/generator/node/Multicaster.{hpp,cpp}   *)
(* and OutboundMulticast.{hpp,cpp}.                                        *)
(*                                                                         *)
(* A multicast that does not find enough members is queued, and sent to    *)
(* members as they become known until it was sent often enough or expires. *)
(* Every function holds _groups_m throughout; addMultiple is a loop under  *)
(* it, whose iterations are steps of their own here.  The configuration of *)
(* the network changes independently of the lock: between the checks of a  *)
(* caller of send and send itself, and while send reads it.                *)
(*                                                                         *)
(* Time is kept as ages, which stop counting where they no longer matter.  *)
(* Which packets the rules of the network let through is a set of          *)
(* destinations; the order of the active bridges in a configuration, and   *)
(* the shuffled order of the members, are any order.                       *)
(***************************************************************************)
EXTENDS Integers, FiniteSets

CONSTANTS
    Self,           \* this node
    Address,        \* other nodes
    Configs,        \* configurations of the network: see ConfigType
    TxQueueSize,    \* ZT_TX_QUEUE_SIZE
    LikeExpire,     \* ZT_MULTICAST_LIKE_EXPIRE
    TransmitTimeout,\* ZT_MULTICAST_TRANSMIT_TIMEOUT
    GatherDelay,    \* ZT_MULTICAST_EXPLICIT_GATHER_DELAY
    MaxMulticasts   \* bound of the model: multicasts sent

Anyone == Address \union {Self}
Multicasts == 1..MaxMulticasts
ConfigType == [limit : Nat, bridges : SUBSET Anyone, replicators : SUBSET Anyone,
               permitted : SUBSET Address]

ASSUME AddressAssumption == IsFiniteSet(Address) /\ Self \notin Address
ASSUME ConfigsAssumption == Configs \subseteq ConfigType
ASSUME TimesAssumption ==
    /\ TxQueueSize \in Nat \ {0}
    /\ LikeExpire \in Nat /\ TransmitTimeout \in Nat /\ GatherDelay \in Nat
    /\ MaxMulticasts \in Nat

NotMember == -1
NoOrigin == Self

VARIABLES
    config,         \* Network::config()
    member,         \* MulticastGroupStatus::members: age of the last LIKE
    queue,          \* MulticastGroupStatus::txQueue
    gatherAge,      \* age of MulticastGroupStatus::lastExplicitGather
    passed,         \* checks of multicastLimit and replicators callers passed
    adding,         \* addresses addMultiple has yet to add, under _groups_m
    sending,        \* send under _groups_m, with the bridges it has read
    next,           \* number of the next multicast
    limit,          \* history: the limit each multicast started with
    hubs,           \* history: bridges or replicator each multicast was sent to
    copies          \* history: how often each multicast was sent to whom

group == <<member, queue, gatherAge>>
busy == <<adding, sending>>
history == <<next, limit, hubs, copies>>
vars == <<config, passed, group, busy, history>>

(* An OutboundMulticast in the queue.  log is the set of the addresses in  *)
(* _alreadySentTo and logged its size: an address can be in it twice.      *)
Outbound == [id : Multicasts, age : 0..TransmitTimeout, limit : Nat,
             log : SUBSET Address, logged : Nat]

Members == {a \in Address : member[a] # NotMember}
Unlocked == adding = {} /\ sending = {}

TypeOK ==
    /\ config \in Configs
    /\ member \in [Address -> 0..LikeExpire \union {NotMember}]
    /\ queue \subseteq Outbound
    /\ IsFiniteSet(queue) /\ Cardinality(queue) <= TxQueueSize
    /\ \A x, y \in queue : x.id = y.id => x = y
    /\ \A x \in queue : x.id < next
    /\ gatherAge \in 0..GatherDelay
    /\ passed \subseteq {"limit", "replicator"}
    /\ adding \subseteq Anyone
    /\ sending \subseteq [from : Anyone, bridges : SUBSET Anyone]
    /\ next \in 1..MaxMulticasts + 1
    /\ limit \in [Multicasts -> Nat]
    /\ hubs \in [Multicasts -> SUBSET Address]
    /\ copies \in [Multicasts -> [Address -> Nat]]

Init ==
    /\ config \in Configs
    /\ member = [a \in Address |-> NotMember]
    /\ queue = {}
    /\ gatherAge = GatherDelay
    /\ passed = {}
    /\ adding = {}
    /\ sending = {}
    /\ next = 1
    /\ limit = [m \in Multicasts |-> 0]
    /\ hubs = [m \in Multicasts |-> {}]
    /\ copies = [m \in Multicasts |-> [a \in Address |-> 0]]

----------------------------------------------------------------------------
(* Mutant of AtLimit: one more than the limit.                             *)
AtLimit_OneMore(tx) == tx.logged > tx.limit

AtLimit(tx) == tx.logged >= tx.limit

(* Mutant of IsNew: the log is not consulted.                              *)
IsNew_Always(tx, a) == TRUE

IsNew(tx, a) == a \notin tx.log

Logged(tx, a) ==
    [id |-> tx.id, age |-> tx.age, limit |-> tx.limit,
     log |-> tx.log \union {a}, logged |-> tx.logged + 1]

(* sendIfNew, of a multicast that is not at its limit.                     *)
Offered(tx, a) == IF IsNew(tx, a) THEN Logged(tx, a) ELSE tx

(* sendOnly: a packet is handed to the switch if the rules let it pass.    *)
Permitted(a) == a \in config.permitted

(* Mutant of Add: a new member is not offered what is queued.              *)
Add_NotOffered(a) ==
    /\ member' = IF a \in Address THEN [member EXCEPT ![a] = 0] ELSE member
    /\ UNCHANGED <<queue, copies>>

(* _add: a LIKE of this node itself is ignored, one of a member makes it   *)
(* younger, and a new member is offered every multicast in the queue.      *)
Add(a) ==
    \/ /\ a = Self
       /\ UNCHANGED <<member, queue, copies>>
    \/ /\ a \in Members
       /\ member' = [member EXCEPT ![a] = 0]
       /\ UNCHANGED <<queue, copies>>
    \/ /\ a \in Address \ Members
       /\ member' = [member EXCEPT ![a] = 0]
       /\ LET waiting == {tx \in queue : ~AtLimit(tx)}
              sent == {tx.id : tx \in {tx \in waiting : IsNew(tx, a) /\ Permitted(a)}}
          IN  /\ queue' = {tx \in {Offered(w, a) : w \in waiting} : ~AtLimit(tx)}
              /\ copies' = [m \in Multicasts |->
                     IF m \in sent THEN [copies[m] EXCEPT ![a] = @ + 1] ELSE copies[m]]

(* add: a MULTICAST_LIKE; addMultiple: the result of a gather.             *)
StartAdding(addresses) ==
    /\ Unlocked
    /\ adding' = addresses
    /\ UNCHANGED <<config, passed, group, sending, history>>

AddNext(a) ==
    /\ a \in adding
    /\ Add(a)
    /\ adding' = adding \ {a}
    /\ UNCHANGED <<config, passed, gatherAge, sending, next, limit, hubs>>

(* remove: a peer does not want the multicasts of the group.               *)
Remove(a) ==
    /\ Unlocked
    /\ a \in Members
    /\ member' = [member EXCEPT ![a] = NotMember]
    /\ UNCHANGED <<config, passed, queue, gatherAge, busy, history>>

----------------------------------------------------------------------------
(* Mutant of IsFirstPass: the loops end one packet later.                  *)
IsFirstPass_OneMore(R, bridges, others, n) ==
    LET B == R \intersect bridges
        M == R \ bridges
    IN  /\ R \subseteq bridges \union others
        /\ Cardinality(R) <= n + 1
        /\ Cardinality(R) <= n => R = bridges \union others
        /\ M # {} => B = bridges

(* The recipients of a pass over the bridges and then the members, which   *)
(* ends when n packets were sent.  The loop over the bridges tests this    *)
(* after it has sent, so that one bridge is sent even the last of none.    *)
IsFirstPass(R, bridges, others, n) ==
    LET B == R \intersect bridges
        M == R \ bridges
        room == IF n = 0 /\ bridges # {} THEN 1 ELSE n
    IN  /\ R \subseteq bridges \union others
        /\ Cardinality(R) <= room
        /\ Cardinality(R) < room => R = bridges \union others
        /\ M # {} => B = bridges

(* Mutant of Started: an older multicast is always given up.               *)
Started_PopsLate(tx) ==
    queue' = {tx} \union (IF Cardinality(queue) > TxQueueSize
                          THEN {x \in queue : \E y \in queue : y.id < x.id} ELSE queue)

(* The multicast is pushed to the back of the queue; if that is full, the  *)
(* front is dropped.                                                       *)
Started(tx) ==
    queue' = {tx} \union (IF Cardinality(queue) >= TxQueueSize
                          THEN {x \in queue : \E y \in queue : y.id < x.id} ELSE queue)

(* The packets of the first pass, by the bridges or the replicator H and   *)
(* with the limit there is when it is read.                                *)
Sends(H, R) ==
    /\ next \in Multicasts
    /\ next' = next + 1
    /\ limit' = [limit EXCEPT ![next] = config.limit]
    /\ hubs' = [hubs EXCEPT ![next] = H \intersect R]
    /\ copies' = [copies EXCEPT ![next] = [a \in Address |-> IF a \in R THEN 1 ELSE 0]]

(* A caller of send finds that multicast is enabled and, with a multicast  *)
(* another node sent, later that this node is a replicator.  It may take   *)
(* its time from one check to the next and to send: a check that was       *)
(* passed once stays passed for callers that are under way.                *)
CheckLimit ==
    /\ config.limit > 0
    /\ passed' = passed \union {"limit"}
    /\ UNCHANGED <<config, group, busy, history>>

CheckReplicator ==
    /\ "limit" \in passed
    /\ Self \in config.replicators
    /\ passed' = passed \union {"replicator"}
    /\ UNCHANGED <<config, group, busy, history>>

MaySend(from) ==
    IF from = NoOrigin THEN "limit" \in passed ELSE "replicator" \in passed

(* send to the best replicator that is alive.                              *)
SendToReplicator(from, r) ==
    /\ MaySend(from)
    /\ Self \notin config.bridges \union config.replicators
    /\ r \in config.replicators
    /\ next + Cardinality(sending) \in Multicasts
    /\ Sends({r}, {r})
    /\ UNCHANGED <<config, passed, group, busy>>

(* send to the members: it takes the lock, reads the bridges, and then the *)
(* limit.                                                                  *)
StartSending(from) ==
    /\ MaySend(from)
    /\ Unlocked
    /\ next \in Multicasts
    /\ sending' = {[from |-> from, bridges |-> config.bridges]}
    /\ UNCHANGED <<config, passed, group, adding, history>>

(* send with enough members for a single pass.                             *)
SendOnce(s, R) ==
    /\ s \in sending
    /\ Cardinality(Members) >= config.limit
    /\ IsFirstPass(R, s.bridges \ {Self, s.from}, Members \ (s.bridges \union {s.from}),
                   config.limit)
    /\ Sends(s.bridges, R \intersect config.permitted)
    /\ sending' = {}
    /\ UNCHANGED <<config, passed, group, adding>>

(* send with a queued multicast.  It is logged as sent to its origin.      *)
SendQueued(s, R) ==
    /\ s \in sending
    /\ Cardinality(Members) < config.limit
    /\ IsFirstPass(R, s.bridges \ {Self}, Members \ s.bridges, config.limit)
    /\ Sends(s.bridges, R \intersect config.permitted)
    /\ LET known == {s.from} \ {NoOrigin}
       IN  Started([id |-> next, age |-> 0, limit |-> config.limit,
                    log |-> R \union known,
                    logged |-> Cardinality(R) + Cardinality(known)])
    /\ gatherAge' = IF Members = {} \/ gatherAge >= GatherDelay THEN 0 ELSE gatherAge
    /\ sending' = {}
    /\ UNCHANGED <<config, passed, member, adding>>

----------------------------------------------------------------------------
(* Mutant of Clean: a multicast leaves the queue only when it is at its    *)
(* limit.                                                                  *)
Clean_KeepsExpired ==
    /\ Unlocked
    /\ queue' = {tx \in queue : ~AtLimit(tx)}
    /\ member' = [a \in Address |-> IF member[a] < LikeExpire THEN member[a] ELSE NotMember]
    /\ UNCHANGED <<config, passed, gatherAge, busy, history>>

(* clean.  A group that is left without members and multicasts is erased,  *)
(* and the time of its last gather with it.                                *)
Clean ==
    /\ Unlocked
    /\ queue' = {tx \in queue : tx.age < TransmitTimeout /\ ~AtLimit(tx)}
    /\ member' = [a \in Address |-> IF member[a] < LikeExpire THEN member[a] ELSE NotMember]
    /\ gatherAge' = IF queue' = {} /\ \A a \in Address : member'[a] = NotMember
                    THEN GatherDelay ELSE gatherAge
    /\ UNCHANGED <<config, passed, busy, history>>

Older(age, most) == IF age < most THEN age + 1 ELSE age

Tick ==
    /\ Unlocked
    /\ member' = [a \in Address |->
            IF a \in Members THEN Older(member[a], LikeExpire) ELSE NotMember]
    /\ queue' = {[tx EXCEPT !.age = Older(@, TransmitTimeout)] : tx \in queue}
    /\ gatherAge' = Older(gatherAge, GatherDelay)
    /\ UNCHANGED <<config, passed, busy, history>>

SetConfig ==
    /\ config' \in Configs
    /\ UNCHANGED <<passed, group, busy, history>>

Next ==
    \/ \E addresses \in SUBSET Anyone : StartAdding(addresses)
    \/ \E a \in Anyone : AddNext(a)
    \/ \E a \in Address : Remove(a)
    \/ CheckLimit
    \/ CheckReplicator
    \/ \E from \in Anyone, r \in Address : SendToReplicator(from, r)
    \/ \E from \in Anyone : StartSending(from)
    \/ \E s \in sending, R \in SUBSET Address : SendOnce(s, R) \/ SendQueued(s, R)
    \/ Clean
    \/ Tick
    \/ SetConfig

Spec == Init /\ [][Next]_vars

(* Node::processBackgroundTasks calls clean over and over, time passes,    *)
(* and whoever holds _groups_m releases it.                                *)
FairSpec ==
    /\ Spec
    /\ SF_vars(Clean)
    /\ SF_vars(Tick)
    /\ WF_vars(\E a \in Anyone : AddNext(a))
    /\ WF_vars(\E s \in sending, R \in SUBSET Address : SendOnce(s, R) \/ SendQueued(s, R))

----------------------------------------------------------------------------
Recipients(m) == {a \in Address : copies[m][a] > 0}
Queued(m) == \E tx \in queue : tx.id = m

(* Nobody is sent the same multicast twice, however often it leaves the    *)
(* group and joins it again, is a member and a bridge, or is reported by a *)
(* gather (send, sendIfNew, _add).                                         *)
AtMostOnce == \A m \in Multicasts, a \in Address : copies[m][a] <= 1

(* No multicast is sent more often than the limit it started with, counted *)
(* over the bridges, which the documentation of multicastLimit leaves out, *)
(* the members, and everyone it was sent to later.  One whose caller found *)
(* multicast enabled before the limit became 0 is still sent once, to a    *)
(* bridge or a replicator and never to a member (send, sendIfNew).         *)
WithinLimit ==
    \A m \in Multicasts :
        \/ Cardinality(Recipients(m)) <= limit[m]
        \/ limit[m] = 0 /\ \E a \in hubs[m] : Recipients(m) = {a}

(* A multicast in the queue that is not at its limit was offered to every  *)
(* member there is: none was missed by the first pass or joined unnoticed  *)
(* (send, _add).                                                           *)
MembersServed == \A tx \in queue : AtLimit(tx) \/ Members \subseteq tx.log

(* A multicast does not stay in the queue: it is sent often enough, makes  *)
(* room for others, or expires (expired, clean).                           *)
Drained == \A m \in Multicasts : Queued(m) ~> ~Queued(m)

(* The queue and the log are one way to do what MulticastDelivery says.    *)
Delivery == INSTANCE MulticastDelivery WITH
    open <- {tx.id : tx \in queue}
Implements == Delivery!Spec
=============================================================================
