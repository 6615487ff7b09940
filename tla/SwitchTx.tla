------------------------------ MODULE SwitchTx ------------------------------
(***************************************************************************)
(* How a node sends packets to nodes it may not know:                      *)
(* src/generator/node/Switch.cpp, the transmit queue and WHOIS.            *)
(*                                                                         *)
(* A packet that cannot be sent is queued, and an upstream is asked WHOIS  *)
(* its destination.  The answer makes the destination known and sends what *)
(* waits for it; a timer sends what can be sent, asks again, and gives up. *)
(* Threads interleave at the ends of the critical sections: of the queue,  *)
(* of the times of the last WHOIS, and of the topology.                    *)
(*                                                                         *)
(* The topology is the set of known peers, those among them that have a    *)
(* path, and whether the upstream can relay; a scan of the queue reads it  *)
(* once.  Packets that wait to be decoded, which the timer and an answer   *)
(* try again, are the subject of RxQueue; here they only make the timer    *)
(* ask for more.                                                           *)
(***************************************************************************)
EXTENDS Integers, Sequences, FiniteSets

CONSTANTS
    Upstream,       \* the upstream, which is always known
    Address,        \* other nodes
    Broadcast,      \* those of them with a bond that broadcasts
    Thread,         \* threads that send packets and receive answers
    Timer,          \* the thread of the background tasks
    TxQueueSize,    \* ZT_TX_QUEUE_SIZE
    RetryDelay,     \* ZT_WHOIS_RETRY_DELAY
    TransmitTimeout,\* ZT_TRANSMIT_QUEUE_TIMEOUT
    MaxPackets      \* bound of the model: packets sent

Node == Address \union {Upstream}
Packets == 1..MaxPackets

ASSUME NodesAssumption ==
    /\ IsFiniteSet(Address) /\ Upstream \notin Address /\ Broadcast \subseteq Address
    /\ Timer \notin Thread /\ Packets \intersect Node = {}
ASSUME TimesAssumption ==
    /\ TxQueueSize \in Nat \ {0} /\ RetryDelay \in Nat \ {0} /\ TransmitTimeout \in Nat
    /\ MaxPackets \in Nat

Never == -1
LateCheck == 2 * RetryDelay     \* bound of the model: how late the timer is told apart
LongAgo == LateCheck + RetryDelay

VARIABLES
    known,          \* peers in the topology
    direct,         \* those of them with a path of their own
    relay,          \* the upstream has a path that is alive
    queue,          \* _txQueue
    whois,          \* _lastSentWhoisRequest: ages
    checked,        \* age of _lastCheckedQueues
    job,            \* what a thread is about to do
    need,           \* doTimerTasks: needWhois, and sources of undecoded packets
    scanned,        \* doTimerTasks is between the scan and its end
    next,           \* number of the next packet
    asked,          \* history: addresses a WHOIS was sent for
    sent,           \* history: how often each packet was sent
    displaced,      \* history: packets that made room in a full queue
    expired,        \* history: packets given up by the timer
    sinceAsked,     \* history: age of the last WHOIS for an address
    lapsed          \* history: peers forgotten since the last scan

topology == <<known, direct, relay>>
timer == <<checked, need, scanned>>
fates == <<sent, displaced, expired>>
vars == <<topology, queue, whois, timer, job, next, asked, fates, sinceAsked, lapsed>>

Body == Packets \union Address      \* a packet, or a WHOIS for an address
Entry == [to : Node, body : Body, age : 0..TransmitTimeout + 1]
Job == [at : {"idle", "push", "check", "ask", "query", "erase", "wake"}, to : Node, body : Body \union Node]
Idle == [at |-> "idle", to |-> Upstream, body |-> Upstream]
Doing(step, n) == [at |-> step, to |-> n, body |-> Upstream]

TypeOK ==
    /\ Upstream \in known /\ known \subseteq Node
    /\ direct \subseteq known
    /\ relay \in BOOLEAN
    /\ queue \in Seq(Entry) /\ Len(queue) <= TxQueueSize
    /\ whois \in [Address -> 0..2 * RetryDelay + 1 \union {Never}]
    /\ checked \in 0..LateCheck
    /\ job \in [Thread \union {Timer} -> Job]
    /\ need \subseteq Address
    /\ scanned \in BOOLEAN
    /\ next \in 1..MaxPackets + 1
    /\ asked \subseteq Address
    /\ sent \in [Packets -> Nat]
    /\ displaced \subseteq Packets /\ expired \subseteq Packets
    /\ sinceAsked \in [Address -> 0..LongAgo]
    /\ lapsed \subseteq Address

Init ==
    /\ known = {Upstream} /\ direct = {} /\ relay = FALSE
    /\ queue = <<>>
    /\ whois = [a \in Address |-> Never]
    /\ checked = LateCheck
    /\ job = [t \in Thread \union {Timer} |-> Idle]
    /\ need = {} /\ scanned = FALSE
    /\ next = 1
    /\ asked = {}
    /\ sent = [p \in Packets |-> 0] /\ displaced = {} /\ expired = {}
    /\ sinceAsked = [a \in Address |-> LongAgo]
    /\ lapsed = {}

----------------------------------------------------------------------------
(* _trySend succeeds: the peer is known and has a path, or the upstream    *)
(* can relay to it.  A frame for a broadcasting bond always succeeds.      *)
CanSend(to, body) ==
    /\ to \in known
    /\ \/ to \in direct
       \/ relay
       \/ to \in Broadcast /\ body \in Packets

Bodies(places) == {queue[i].body : i \in places}

(* The queue that is left when what is elsewhere is erased.                *)
Place(places, k) == CHOOSE i \in places : Cardinality({j \in places : j <= i}) = k
Left(places) == [k \in 1..Cardinality(places) |-> queue[Place(places, k)]]

(* Packets and WHOIS requests are sent.                                    *)
Transmit(bodies) ==
    /\ sent' = [p \in Packets |-> IF p \in bodies THEN sent[p] + 1 ELSE sent[p]]
    /\ asked' = asked \union (bodies \intersect Address)

(* Mutant of Pushed: the queue holds one more.                             *)
Pushed_OneMore(entry) ==
    Append(IF Len(queue) > TxQueueSize THEN Tail(queue) ELSE queue, entry)

(* The queue with one more entry; a full one loses its front.              *)
Pushed(entry) ==
    Append(IF Len(queue) >= TxQueueSize THEN Tail(queue) ELSE queue, entry)

(* send: try, and queue the packet otherwise.                              *)
TryOrPush(t, to, body) ==
    \/ /\ CanSend(to, body)
       /\ Transmit({body})
       /\ job' = [job EXCEPT ![t] = Idle]
    \/ /\ ~CanSend(to, body)
       /\ job' = [job EXCEPT ![t] = [at |-> "push", to |-> to, body |-> body]]
       /\ UNCHANGED <<sent, asked>>

Send(t, to) ==
    /\ job[t] = Idle
    /\ next \in Packets
    /\ next' = next + 1
    /\ TryOrPush(t, to, next)
    /\ UNCHANGED <<topology, queue, whois, timer, displaced, expired, sinceAsked, lapsed>>

Push(t) ==
    /\ job[t].at = "push"
    /\ queue' = Pushed([to |-> job[t].to, body |-> job[t].body, age |-> 0])
    /\ displaced' = displaced \union ((Bodies(DOMAIN queue) \ Bodies(DOMAIN queue)') \intersect Packets)
    /\ job' = [job EXCEPT ![t] = Doing("check", job[t].to)]
    /\ UNCHANGED <<topology, whois, timer, next, asked, sent, expired, sinceAsked, lapsed>>

(* send: nobody is asked about a peer that has become known.               *)
Check(t) ==
    /\ job[t].at = "check"
    /\ job' = [job EXCEPT ![t] = IF job[t].to \in known THEN Idle ELSE Doing("ask", job[t].to)]
    /\ UNCHANGED <<topology, queue, whois, timer, next, asked, fates, sinceAsked, lapsed>>

(* requestWhois for the other reasons there are: the source of a packet or *)
(* the signer of a credential is unknown, or a peer asks this node.        *)
NeedIdentity(t, a) ==
    /\ job[t] = Idle
    /\ a \in Address \ known
    /\ job' = [job EXCEPT ![t] = Doing("ask", a)]
    /\ UNCHANGED <<topology, queue, whois, timer, next, asked, fates, sinceAsked, lapsed>>

(* The last WHOIS for the address is too recent for another.              *)
TooSoon(a) == whois[a] # Never /\ whois[a] < RetryDelay

(* requestWhois: at most one per address and delay.                        *)
Ask(t) ==
    /\ job[t].at = "ask"
    /\ IF TooSoon(job[t].to)
       THEN /\ job' = [job EXCEPT ![t] = Idle]
            /\ UNCHANGED <<whois, sinceAsked>>
       ELSE /\ job' = [job EXCEPT ![t] = Doing("query", job[t].to)]
            /\ whois' = [whois EXCEPT ![job[t].to] = 0]
            /\ sinceAsked' = [sinceAsked EXCEPT ![job[t].to] = 0]
    /\ UNCHANGED <<topology, queue, timer, next, asked, fates, lapsed>>

(* requestWhois: the WHOIS is a packet like any other.                     *)
Query(t) ==
    /\ job[t].at = "query"
    /\ TryOrPush(t, Upstream, job[t].to)
    /\ UNCHANGED <<topology, queue, whois, timer, next, displaced, expired, sinceAsked, lapsed>>

----------------------------------------------------------------------------
(* OK(WHOIS), maybe delayed or repeated: the peer is added to the topology.*)
Answer(t, a) ==
    /\ job[t] = Idle
    /\ a \in asked
    /\ known' = known \union {a}
    /\ job' = [job EXCEPT ![t] = Doing("erase", a)]
    /\ UNCHANGED <<direct, relay, queue, whois, timer, next, asked, fates, sinceAsked, lapsed>>

(* doAnythingWaitingForPeer: the time of the last WHOIS is forgotten.      *)
Erase(t) ==
    /\ job[t].at = "erase"
    /\ whois' = [whois EXCEPT ![job[t].to] = Never]
    /\ job' = [job EXCEPT ![t] = Doing("wake", job[t].to)]
    /\ UNCHANGED <<topology, queue, timer, next, asked, fates, sinceAsked, lapsed>>

Sendable == {i \in DOMAIN queue : CanSend(queue[i].to, queue[i].body)}

(* Mutant of Wake: what was sent stays in the queue.                       *)
Wake_Keeps(t) ==
    /\ job[t].at = "wake"
    /\ Transmit(Bodies({i \in Sendable : queue[i].to = job[t].to}))
    /\ job' = [job EXCEPT ![t] = Idle]
    /\ UNCHANGED <<queue, topology, whois, timer, next, displaced, expired, sinceAsked, lapsed>>

(* doAnythingWaitingForPeer: what can be sent to the peer is sent.         *)
Wake(t) ==
    /\ job[t].at = "wake"
    /\ LET goes == {i \in Sendable : queue[i].to = job[t].to}
       IN  /\ queue' = Left(DOMAIN queue \ goes)
           /\ Transmit(Bodies(goes))
    /\ job' = [job EXCEPT ![t] = Idle]
    /\ UNCHANGED <<topology, whois, timer, next, displaced, expired, sinceAsked, lapsed>>

----------------------------------------------------------------------------
TooOld == {i \in DOMAIN queue \ Sendable : queue[i].age > TransmitTimeout}

(* Mutants of TimerScan: nothing is tried, and nobody is asked for the     *)
(* destinations.                                                           *)
TimerScan_NoRetry ==
    /\ job[Timer] = Idle /\ ~scanned /\ checked >= RetryDelay
    /\ checked' = 0 /\ scanned' = TRUE /\ lapsed' = {}
    /\ queue' = Left(DOMAIN queue \ TooOld)
    /\ expired' = expired \union (Bodies(TooOld) \intersect Packets)
    /\ need' = {queue'[i].to : i \in DOMAIN queue'} \ known
    /\ UNCHANGED <<topology, whois, job, next, displaced, sinceAsked, sent, asked>>

TimerScan_AsksNobody ==
    /\ job[Timer] = Idle /\ ~scanned /\ checked >= RetryDelay
    /\ checked' = 0 /\ scanned' = TRUE /\ lapsed' = {}
    /\ queue' = Left(DOMAIN queue \ (Sendable \union TooOld))
    /\ Transmit(Bodies(Sendable))
    /\ expired' = expired \union (Bodies(TooOld) \intersect Packets)
    /\ need' = {}
    /\ UNCHANGED <<topology, whois, job, next, displaced, sinceAsked>>

(* doTimerTasks: what can be sent is sent, what is too old is given up,    *)
(* and who is unknown is asked for, like the sources of other packets.     *)
TimerScan ==
    /\ job[Timer] = Idle /\ ~scanned /\ checked >= RetryDelay
    /\ checked' = 0 /\ scanned' = TRUE /\ lapsed' = {}
    /\ queue' = Left(DOMAIN queue \ (Sendable \union TooOld))
    /\ Transmit(Bodies(Sendable))
    /\ expired' = expired \union (Bodies(TooOld) \intersect Packets)
    /\ \E sources \in SUBSET (Address \ known) :
           need' = ({queue'[i].to : i \in DOMAIN queue'} \ known) \union sources
    /\ UNCHANGED <<topology, whois, job, next, displaced, sinceAsked>>

TimerAsk(a) ==
    /\ job[Timer] = Idle
    /\ a \in need
    /\ need' = need \ {a}
    /\ job' = [job EXCEPT ![Timer] = Doing("ask", a)]
    /\ UNCHANGED <<topology, queue, whois, checked, scanned, next, asked, fates, sinceAsked, lapsed>>

Stale(a) == whois[a] > 2 * RetryDelay

(* doTimerTasks: old times of WHOIS are forgotten.                         *)
TimerEnd ==
    /\ job[Timer] = Idle /\ scanned /\ need = {}
    /\ scanned' = FALSE
    /\ whois' = [a \in Address |-> IF Stale(a) THEN Never ELSE whois[a]]
    /\ UNCHANGED <<topology, queue, checked, need, job, next, asked, fates, sinceAsked, lapsed>>

----------------------------------------------------------------------------
(* The rest of the node: a peer says HELLO, paths come and go, and a peer  *)
(* that is not alive is forgotten.                                         *)
Hello(a) ==
    /\ a \in Address \ known
    /\ known' = known \union {a}
    /\ UNCHANGED <<direct, relay, queue, whois, timer, job, next, asked, fates, sinceAsked, lapsed>>

Paths ==
    /\ direct' \in SUBSET known
    /\ relay' \in BOOLEAN
    /\ relay' => Upstream \in direct'
    /\ UNCHANGED <<known, queue, whois, timer, job, next, asked, fates, sinceAsked, lapsed>>

Forget(a) ==
    /\ a \in known \ {Upstream}
    /\ known' = known \ {a}
    /\ direct' = direct \ {a}
    /\ lapsed' = lapsed \union {a}
    /\ UNCHANGED <<relay, queue, whois, timer, job, next, asked, fates, sinceAsked>>

Older(age, most) == IF age < most THEN age + 1 ELSE age

(* The timer's tasks all work with the time at which they started.         *)
Tick ==
    /\ ~scanned
    /\ queue' = [i \in DOMAIN queue |-> [queue[i] EXCEPT !.age = Older(@, TransmitTimeout + 1)]]
    /\ whois' = [a \in Address |->
            IF whois[a] = Never THEN Never ELSE Older(whois[a], 2 * RetryDelay + 1)]
    /\ checked' = Older(checked, LateCheck)
    /\ sinceAsked' = [a \in Address |-> Older(sinceAsked[a], LongAgo)]
    /\ UNCHANGED <<topology, job, need, scanned, next, asked, fates, lapsed>>

Step(t) == Push(t) \/ Check(t) \/ Ask(t) \/ Query(t) \/ Erase(t) \/ Wake(t)

Next ==
    \/ \E t \in Thread : \E n \in Node : Send(t, n)
    \/ \E t \in Thread : \E a \in Address : NeedIdentity(t, a) \/ Answer(t, a)
    \/ \E t \in Thread \union {Timer} : Step(t)
    \/ \E a \in Address : TimerAsk(a) \/ Hello(a) \/ Forget(a)
    \/ TimerScan
    \/ TimerEnd
    \/ Paths
    \/ Tick

Spec == Init /\ [][Next]_vars

(* Threads go on, time passes, and the background tasks run when they are  *)
(* due.                                                                    *)
FairSpec ==
    /\ Spec
    /\ \A t \in Thread \union {Timer} : WF_vars(Step(t))
    /\ WF_vars(TimerScan)
    /\ WF_vars(\E a \in Address : TimerAsk(a))
    /\ WF_vars(TimerEnd)
    /\ SF_vars(Tick)

----------------------------------------------------------------------------
InHand(p) == {t \in Thread : job[t].at = "push" /\ job[t].body = p}
Places(p) == {i \in DOMAIN queue : queue[i].body = p}

(* A packet is in exactly one place: in the hands of the thread that sends *)
(* it, once in the queue, sent once, given up, or displaced by others.  No *)
(* answer, timer or thread in between sends it again or loses it (send,    *)
(* doAnythingWaitingForPeer, doTimerTasks).                                *)
Accounted ==
    \A p \in Packets :
        Cardinality(InHand(p)) + Cardinality(Places(p)) + sent[p]
            + Cardinality({p} \intersect displaced) + Cardinality({p} \intersect expired)
        = IF p < next THEN 1 ELSE 0

(* A packet that waits for an unknown peer is never forgotten: somebody    *)
(* was asked about the peer, is being asked, or has yet to be asked within *)
(* one delay of when the timer is due.  This needs every way from send to  *)
(* requestWhois, and the timer for a peer that was forgotten meanwhile.    *)
BeingAsked(a) ==
    \/ a \in need
    \/ \E t \in Thread \union {Timer} : job[t].at \in {"check", "ask"} /\ job[t].to = a

AskedInTime ==
    \A i \in DOMAIN queue :
        LET a == queue[i].to
        IN  a \notin known /\ a \notin lapsed /\ checked < LateCheck =>
                BeingAsked(a) \/ sinceAsked[a] < checked + RetryDelay

(* What can be sent does not stay in the queue, even if it became sendable *)
(* between the try and the push, when no answer will wake it.              *)
SentIfPossible ==
    \A p \in Packets : \A n \in Node :
        (\E i \in Places(p) : queue[i].to = n) ~>
            (sent[p] > 0 \/ p \in displaced \/ ~CanSend(n, p))

=============================================================================
