--------------------------- MODULE SwitchTxProofs ---------------------------
(***************************************************************************)
(* Theorems about SwitchTx for any number of threads, addresses and        *)
(* packets and any size of the queue.                                      *)
(***************************************************************************)
EXTENDS SwitchTx, FiniteSetTheorems, TLAPS

----------------------------------------------------------------------------
(* Erasing from the queue: the k-th of a set of places exists, it is one   *)
(* of them, every place is the k-th for one k, and they are in order.      *)
LEMMA KthPlace ==
    ASSUME NEW S \in SUBSET Int, IsFiniteSet(S)
    PROVE  /\ Cardinality(S) \in Nat
           /\ \A k \in 1..Cardinality(S) : Place(S, k) \in S
           /\ \A i \in S : \E k \in 1..Cardinality(S) : Place(S, k) = i
           /\ \A k, m \in 1..Cardinality(S) : Place(S, k) = Place(S, m) => k = m
           /\ \A k, m \in 1..Cardinality(S) : k < m => Place(S, k) < Place(S, m)
<1> DEFINE Upto(i) == {j \in S : j <= i}
           size == Cardinality(S)
           rank == [i \in S |-> Cardinality(Upto(i))]
<1>1. size \in Nat
  BY FS_CardinalityType
<1>2. ASSUME NEW i \in S
      PROVE  IsFiniteSet(Upto(i)) /\ Cardinality(Upto(i)) \in 1..size
  <2>1. Upto(i) \in SUBSET S /\ i \in Upto(i)
    OBVIOUS
  <2>2. IsFiniteSet(Upto(i)) /\ Cardinality(Upto(i)) <= size /\ Cardinality(Upto(i)) \in Nat
    BY <1>1, <2>1, FS_Subset, FS_CardinalityType
  <2>3. Cardinality(Upto(i)) # 0
    BY <2>1, <2>2, FS_EmptySet
  <2> QED
    BY <1>1, <2>2, <2>3
<1>3. ASSUME NEW i \in S, NEW j \in S, i < j
      PROVE  Cardinality(Upto(i)) # Cardinality(Upto(j))
  <2>1. i \in Int /\ j \in Int /\ \A x \in S : x \in Int
    OBVIOUS
  <2>2. \A x \in S : x <= i => x <= j
    BY <1>3, <2>1
  <2>3. j \in Upto(j) /\ j \notin Upto(i)
    BY <1>3, <2>1
  <2>4. Upto(i) \in SUBSET Upto(j)
    BY <2>2
  <2>5. IsFiniteSet(Upto(j))
    BY <1>2
  <2> QED
    BY <2>3, <2>4, <2>5, FS_Subset
<1>4. ASSUME NEW i \in S, NEW j \in S, Cardinality(Upto(i)) = Cardinality(Upto(j))
      PROVE  i = j
  <2>1. i \in Int /\ j \in Int
    OBVIOUS
  <2> HIDE DEF Upto
  <2> QED
    BY <1>3, <1>4, <2>1
<1>5. rank \in Injection(S, 1..size)
  <2>1. rank \in [S -> 1..size]
    BY <1>2
  <2>2. \A i, j \in S : rank[i] = rank[j] => i = j
    BY <1>4
  <2> QED
    BY <2>1, <2>2 DEF Injection, IsInjective
<1>6. rank \in Surjection(S, 1..size)
  <2>1. IsFiniteSet(1..size) /\ Cardinality(1..size) = size
    BY <1>1, FS_Interval
  <2> QED
    BY <1>5, <2>1, FS_Injection
<1>7. \A k \in 1..size : \E i \in S : Cardinality(Upto(i)) = k
  BY <1>6 DEF Surjection
<1>8. \A k \in 1..size : Place(S, k) \in S /\ Cardinality(Upto(Place(S, k))) = k
  BY <1>7 DEF Place
<1>9. ASSUME NEW i \in S
      PROVE  \E k \in 1..size : Place(S, k) = i
  <2>1. Cardinality(Upto(i)) \in 1..size
    BY <1>2
  <2>2. PICK k \in 1..size : k = Cardinality(Upto(i))
    BY <2>1
  <2>3. Place(S, k) \in S /\ Cardinality(Upto(Place(S, k))) = Cardinality(Upto(i))
    BY <1>8, <2>2
  <2>4. Place(S, k) = i
    BY <1>4, <2>3
  <2> QED
    BY <2>4
<1>10. ASSUME NEW k \in 1..size, NEW m \in 1..size, Place(S, k) = Place(S, m)
       PROVE  k = m
  BY <1>8, <1>10
<1>11. ASSUME NEW i \in S, NEW j \in S, Cardinality(Upto(i)) < Cardinality(Upto(j))
       PROVE  i < j
  <2>1. i \in Int /\ j \in Int /\ \A x \in S : x \in Int
    OBVIOUS
  <2>2. IsFiniteSet(Upto(i)) /\ Cardinality(Upto(i)) \in Int /\ Cardinality(Upto(j)) \in Int
    BY <1>2
  <2>3. ASSUME j <= i PROVE FALSE
    <3>1. \A x \in S : x <= j => x <= i
      BY <2>1, <2>3
    <3>2. Upto(j) \in SUBSET Upto(i)
      BY <3>1
    <3>3. Cardinality(Upto(j)) <= Cardinality(Upto(i))
      BY <2>2, <3>2, FS_Subset
    <3> HIDE DEF Upto
    <3> QED
      BY <1>11, <2>2, <3>3
  <2> HIDE DEF Upto
  <2> QED
    BY <2>1, <2>3
<1>12. ASSUME NEW k \in 1..size, NEW m \in 1..size, k < m
       PROVE  Place(S, k) < Place(S, m)
  <2>1. /\ Place(S, k) \in S /\ Cardinality(Upto(Place(S, k))) = k
        /\ Place(S, m) \in S /\ Cardinality(Upto(Place(S, m))) = m
    BY <1>8
  <2>2. Cardinality(Upto(Place(S, k))) < Cardinality(Upto(Place(S, m)))
    BY <1>12, <2>1
  <2> QED
    BY <1>11, <2>1, <2>2
<1> QED
  BY <1>1, <1>8, <1>9, <1>10, <1>12

USE NodesAssumption, TimesAssumption

(* What is left of the queue are entries it had, each of those kept once.  *)
LEMMA LeftFacts ==
    ASSUME TypeOK, NEW S \in SUBSET DOMAIN queue
    PROVE  /\ Left(S) \in Seq(Entry) /\ Len(Left(S)) <= TxQueueSize
           /\ DOMAIN Left(S) = 1..Cardinality(S)
           /\ \A k \in DOMAIN Left(S) : Left(S)[k] = queue[Place(S, k)] /\ Place(S, k) \in S
           /\ \A i \in S : \E k \in DOMAIN Left(S) : Place(S, k) = i
           /\ \A k, m \in DOMAIN Left(S) : Place(S, k) = Place(S, m) => k = m
<1>1. queue \in Seq(Entry) /\ Len(queue) \in Nat /\ Len(queue) <= TxQueueSize
      /\ DOMAIN queue = 1..Len(queue)
  BY DEF TypeOK
<1>2. S \in SUBSET Int
  BY <1>1
<1>3. IsFiniteSet(S) /\ Cardinality(S) <= Len(queue)
  <2>1. IsFiniteSet(1..Len(queue)) /\ Cardinality(1..Len(queue)) = Len(queue)
    <3>1. \A n \in Nat : IsFiniteSet(1..n) /\ Cardinality(1..n) = n
      BY FS_Interval
    <3> QED
      BY <1>1, <3>1
  <2>2. S \in SUBSET (1..Len(queue))
    BY <1>1
  <2> QED
    BY <2>1, <2>2, FS_Subset
<1>4. /\ Cardinality(S) \in Nat
      /\ \A k \in 1..Cardinality(S) : Place(S, k) \in S
      /\ \A i \in S : \E k \in 1..Cardinality(S) : Place(S, k) = i
      /\ \A k, m \in 1..Cardinality(S) : Place(S, k) = Place(S, m) => k = m
  BY <1>2, <1>3, KthPlace
<1>5. \A k \in 1..Cardinality(S) : queue[Place(S, k)] \in Entry
  BY <1>1, <1>4
<1>6. Left(S) \in [1..Cardinality(S) -> Entry]
  BY <1>5 DEF Left
<1>7. Left(S) \in Seq(Entry) /\ Len(Left(S)) = Cardinality(S) /\ DOMAIN Left(S) = 1..Cardinality(S)
  BY <1>4, <1>6
<1>8. \A k \in 1..Cardinality(S) : Left(S)[k] = queue[Place(S, k)]
  BY DEF Left
<1>9. Len(Left(S)) <= TxQueueSize
  BY <1>1, <1>3, <1>4, <1>7
<1> QED
  BY <1>4, <1>7, <1>8, <1>9

(* An entry more: the others are those there were, without the front of a  *)
(* full queue.                                                             *)
LEMMA PushedFacts ==
    ASSUME TypeOK, NEW e \in Entry
    PROVE  \E d \in {0, 1}, n \in Nat :
              /\ n = Len(queue) - d
              /\ Pushed(e) \in Seq(Entry) /\ Len(Pushed(e)) <= TxQueueSize
              /\ DOMAIN Pushed(e) = 1..n + 1 /\ Pushed(e)[n + 1] = e
              /\ \A i \in 1..n : Pushed(e)[i] = queue[i + d]
<1>1. queue \in Seq(Entry) /\ Len(queue) \in Nat /\ Len(queue) <= TxQueueSize
      /\ DOMAIN queue = 1..Len(queue)
  BY DEF TypeOK
<1> DEFINE Goal(d, n) ==
              /\ n = Len(queue) - d
              /\ Pushed(e) \in Seq(Entry) /\ Len(Pushed(e)) <= TxQueueSize
              /\ DOMAIN Pushed(e) = 1..n + 1 /\ Pushed(e)[n + 1] = e
              /\ \A i \in 1..n : Pushed(e)[i] = queue[i + d]
<1>2. CASE Len(queue) >= TxQueueSize
  <2>1. queue # <<>> /\ Len(queue) >= 1 /\ Len(queue) - 1 \in Nat
    BY <1>1, <1>2
  <2>2. /\ Tail(queue) \in Seq(Entry) /\ Len(Tail(queue)) = Len(queue) - 1
        /\ \A i \in 1..Len(queue) - 1 : Tail(queue)[i] = queue[i + 1]
    BY <1>1, <2>1
  <2>3. Pushed(e) = Append(Tail(queue), e)
    BY <1>2 DEF Pushed
  <2>4. /\ Pushed(e) \in Seq(Entry) /\ Len(Pushed(e)) = Len(queue) - 1 + 1
        /\ Pushed(e)[Len(queue) - 1 + 1] = e
        /\ \A i \in 1..Len(queue) - 1 : Pushed(e)[i] = Tail(queue)[i]
    BY <2>1, <2>2, <2>3
  <2>5. Goal(1, Len(queue) - 1)
    BY <1>1, <2>1, <2>2, <2>4
  <2> QED
    BY <2>1, <2>5
<1>3. CASE Len(queue) < TxQueueSize
  <2>1. Pushed(e) = Append(queue, e)
    BY <1>1, <1>3 DEF Pushed
  <2>2. /\ Pushed(e) \in Seq(Entry) /\ Len(Pushed(e)) = Len(queue) + 1
        /\ Pushed(e)[Len(queue) + 1] = e
        /\ \A i \in 1..Len(queue) : Pushed(e)[i] = queue[i] /\ i + 0 = i
    BY <1>1, <2>1
  <2>3. Goal(0, Len(queue))
    BY <1>1, <1>3, <2>2
  <2> QED
    BY <1>1, <2>3
<1>4. Len(queue) >= TxQueueSize \/ Len(queue) < TxQueueSize
  BY <1>1
<1> QED
  BY <1>2, <1>3, <1>4

----------------------------------------------------------------------------
(* Type correctness, with what a thread may be about to do: an entry is    *)
(* pushed for a packet or a WHOIS, the timer's only for a WHOIS, and only  *)
(* addresses are asked for, answered and woken up.                         *)
JobInv ==
    \A t \in Thread \union {Timer} :
        /\ job[t].at = "push" => job[t].body \in Body
        /\ job[t].at = "push" /\ t = Timer => job[t].body \in Address
        /\ job[t].at \in {"ask", "query", "erase", "wake"} => job[t].to \in Address

TypeInv == TypeOK /\ JobInv

LEMMA JobFacts ==
    /\ Idle \in Job /\ Idle.at = "idle"
    /\ \A step \in {"idle", "push", "check", "ask", "query", "erase", "wake"}, n \in Node :
          Doing(step, n) \in Job /\ Doing(step, n).at = step /\ Doing(step, n).to = n
  BY DEF Idle, Doing, Job, Node

LEMMA TypeInit == Init => TypeInv
<1> SUFFICES ASSUME Init PROVE TypeInv
  OBVIOUS
<1>1. <<>> \in Seq(Entry) /\ Len(<<>>) <= TxQueueSize
  OBVIOUS
<1>2. LateCheck \in Nat /\ LongAgo \in Nat /\ Never \in Int
  BY DEF LateCheck, LongAgo, Never
<1>3. JobInv
  BY JobFacts DEF Init, JobInv
<1>4. TypeOK
  <2>1. job \in [Thread \union {Timer} -> Job] /\ queue \in Seq(Entry) /\ Len(queue) <= TxQueueSize
    BY <1>1, JobFacts DEF Init
  <2>2. /\ Upstream \in known /\ known \subseteq Node /\ direct \subseteq known
        /\ need \subseteq Address /\ asked \subseteq Address /\ lapsed \subseteq Address
        /\ displaced \subseteq Packets /\ expired \subseteq Packets
        /\ whois \in [Address -> 0..2 * RetryDelay + 1 \union {Never}]
    BY DEF Init, Node
  <2>3. /\ checked \in 0..LateCheck /\ next \in 1..MaxPackets + 1
        /\ sent \in [Packets -> Nat] /\ sinceAsked \in [Address -> 0..LongAgo]
    BY <1>2 DEF Init
  <2>4. relay \in BOOLEAN /\ scanned \in BOOLEAN
    BY DEF Init
  <2> QED
    BY <2>1, <2>2, <2>3, <2>4 DEF TypeOK
<1> QED
  BY <1>3, <1>4 DEF TypeInv

(* A thread's job changes to a legal one, and those of the others stay.    *)
LEMMA JobStep ==
    ASSUME TypeInv, NEW t \in Thread \union {Timer}, NEW j \in Job,
           job' = [job EXCEPT ![t] = j],
           j.at = "push" => j.body \in Body /\ (t = Timer => j.body \in Address),
           j.at \in {"ask", "query", "erase", "wake"} => j.to \in Address
    PROVE  job' \in [Thread \union {Timer} -> Job] /\ JobInv'
  BY DEF TypeInv, TypeOK, JobInv

LEMMA IdleStep ==
    ASSUME TypeInv, NEW t \in Thread \union {Timer}, job' = [job EXCEPT ![t] = Idle]
    PROVE  job' \in [Thread \union {Timer} -> Job] /\ JobInv'
  BY JobStep, JobFacts

LEMMA DoingStep ==
    ASSUME TypeInv, NEW t \in Thread \union {Timer}, NEW n \in Node,
           NEW step \in {"check", "ask", "query", "erase", "wake"},
           step # "check" => n \in Address,
           job' = [job EXCEPT ![t] = Doing(step, n)]
    PROVE  job' \in [Thread \union {Timer} -> Job] /\ JobInv'
<1>1. Doing(step, n) \in Job /\ Doing(step, n).at = step /\ Doing(step, n).to = n
  BY JobFacts
<1> QED
  BY <1>1, JobStep

LEMMA TransmitType ==
    ASSUME TypeOK, NEW bodies, Transmit(bodies)
    PROVE  sent' \in [Packets -> Nat] /\ asked' \subseteq Address
  BY DEF TypeOK, Transmit

LEMMA TryOrPushType ==
    ASSUME TypeInv, NEW t \in Thread \union {Timer}, NEW to \in Node, NEW body \in Body,
           t = Timer => body \in Address, TryOrPush(t, to, body)
    PROVE  /\ job' \in [Thread \union {Timer} -> Job] /\ JobInv'
           /\ sent' \in [Packets -> Nat] /\ asked' \subseteq Address
<1>1. CASE CanSend(to, body)
  <2>1. Transmit({body}) /\ job' = [job EXCEPT ![t] = Idle]
    BY <1>1 DEF TryOrPush
  <2> QED
    BY <2>1, JobStep, JobFacts, TransmitType DEF TypeInv
<1>2. CASE ~CanSend(to, body)
  <2> DEFINE j == [at |-> "push", to |-> to, body |-> body]
  <2>1. job' = [job EXCEPT ![t] = j] /\ UNCHANGED <<sent, asked>>
    BY <1>2 DEF TryOrPush
  <2>2. j \in Job /\ j.at = "push" /\ j.body = body
    BY DEF Job, Body
  <2> HIDE DEF j
  <2> QED
    BY <2>1, <2>2, JobStep DEF TypeInv, TypeOK
<1> QED
  BY <1>1, <1>2

LEMMA OlderType ==
    \A most \in Nat : \A age \in 0..most : Older(age, most) \in 0..most
  BY DEF Older

(* The entries of the queue after erasing or pushing are entries.          *)
LEMMA ErasedType ==
    ASSUME TypeOK, NEW S, queue' = Left(DOMAIN queue \ S)
    PROVE  queue' \in Seq(Entry) /\ Len(queue') <= TxQueueSize
<1>1. DOMAIN queue \ S \in SUBSET DOMAIN queue
  OBVIOUS
<1> QED
  BY <1>1, LeftFacts

LEMMA TickType ==
    ASSUME TypeOK, Tick
    PROVE  /\ queue' \in Seq(Entry) /\ Len(queue') <= TxQueueSize
           /\ whois' \in [Address -> 0..2 * RetryDelay + 1 \union {Never}]
           /\ checked' \in 0..LateCheck /\ sinceAsked' \in [Address -> 0..LongAgo]
<1>1. LateCheck \in Nat /\ LongAgo \in Nat /\ 2 * RetryDelay + 1 \in Nat /\ TransmitTimeout + 1 \in Nat
  BY DEF LateCheck, LongAgo
<1>2. queue \in Seq(Entry) /\ Len(queue) \in Nat /\ DOMAIN queue = 1..Len(queue)
  BY DEF TypeOK
<1>3. ASSUME NEW i \in DOMAIN queue
      PROVE  [queue[i] EXCEPT !.age = Older(queue[i].age, TransmitTimeout + 1)] \in Entry
  <2>1. queue[i] \in Entry
    BY <1>2
  <2>2. queue[i].age \in 0..TransmitTimeout + 1
    BY <2>1 DEF Entry
  <2>3. Older(queue[i].age, TransmitTimeout + 1) \in 0..TransmitTimeout + 1
    BY <1>1, <2>2, OlderType
  <2> QED
    BY <2>1, <2>3 DEF Entry
<1>4. queue' = [i \in DOMAIN queue |->
                   [queue[i] EXCEPT !.age = Older(queue[i].age, TransmitTimeout + 1)]]
  BY DEF Tick
<1>5. queue' \in [1..Len(queue) -> Entry]
  BY <1>2, <1>3, <1>4
<1>6. queue' \in Seq(Entry) /\ Len(queue') = Len(queue)
  BY <1>2, <1>5
<1>7. \A a \in Address : whois[a] = Never \/ whois[a] \in 0..2 * RetryDelay + 1
  BY DEF TypeOK
<1>8. \A a \in Address : whois[a] # Never => Older(whois[a], 2 * RetryDelay + 1) \in 0..2 * RetryDelay + 1
  BY <1>1, <1>7, OlderType
<1>9. whois' \in [Address -> 0..2 * RetryDelay + 1 \union {Never}]
  BY <1>8 DEF Tick
<1>10. checked' \in 0..LateCheck /\ sinceAsked' \in [Address -> 0..LongAgo]
  BY <1>1, OlderType DEF Tick, TypeOK
<1> QED
  BY <1>6, <1>9, <1>10 DEF TypeOK

LEMMA TypeStep == TypeInv /\ [Next]_vars => TypeInv'
<1> SUFFICES ASSUME TypeInv, [Next]_vars PROVE TypeInv'
  OBVIOUS
<1>t. TypeOK /\ JobInv
  BY DEF TypeInv
<1>0. ASSUME job' \in [Thread \union {Timer} -> Job], JobInv',
             queue' \in Seq(Entry), Len(queue') <= TxQueueSize,
             Upstream \in known', known' \subseteq Node, direct' \subseteq known', relay' \in BOOLEAN,
             whois' \in [Address -> 0..2 * RetryDelay + 1 \union {Never}],
             checked' \in 0..LateCheck, need' \subseteq Address, scanned' \in BOOLEAN,
             next' \in 1..MaxPackets + 1, asked' \subseteq Address,
             sent' \in [Packets -> Nat], displaced' \subseteq Packets, expired' \subseteq Packets,
             sinceAsked' \in [Address -> 0..LongAgo], lapsed' \subseteq Address
      PROVE  TypeInv'
  BY <1>0 DEF TypeInv, TypeOK
<1>n. LateCheck \in Nat /\ LongAgo \in Nat
  BY DEF LateCheck, LongAgo
<1> USE DEF topology, timer, fates
<1>1. ASSUME NEW t \in Thread, NEW n \in Node, Send(t, n) PROVE TypeInv'
  <2>1. next \in Body /\ t # Timer /\ next' \in 1..MaxPackets + 1
    BY <1>1, <1>t DEF Send, Body, Packets, TypeOK
  <2>2. TryOrPush(t, n, next)
    BY <1>1 DEF Send
  <2>3. job' \in [Thread \union {Timer} -> Job] /\ JobInv' /\ sent' \in [Packets -> Nat] /\ asked' \subseteq Address
    BY <2>1, <2>2, TryOrPushType
  <2> QED
    BY <1>0, <1>1, <1>t, <2>1, <2>3 DEF Send, TypeOK
<1>2. ASSUME NEW t \in Thread \union {Timer}, Push(t) PROVE TypeInv'
  <2> DEFINE e == [to |-> job[t].to, body |-> job[t].body, age |-> 0]
  <2>1. job[t] \in Job /\ job[t].to \in Node /\ job[t].body \in Body
    BY <1>2, <1>t DEF Push, TypeOK, JobInv, Job
  <2>2. e \in Entry /\ queue' = Pushed(e)
    BY <1>2, <2>1 DEF Entry, Push
  <2>3. queue' \in Seq(Entry) /\ Len(queue') <= TxQueueSize
    BY <1>t, <2>2, PushedFacts
  <2>4. job' \in [Thread \union {Timer} -> Job] /\ JobInv'
    BY <1>2, <2>1, DoingStep DEF Push
  <2>5. displaced' \subseteq Packets
    BY <1>2, <1>t DEF Push, TypeOK
  <2> QED
    BY <1>0, <1>2, <1>t, <2>3, <2>4, <2>5 DEF Push, TypeOK
<1>3. ASSUME NEW t \in Thread \union {Timer}, Check(t) PROVE TypeInv'
  <2>1. job[t].to \in Node
    BY <1>t DEF TypeOK, Job
  <2>2. job[t].to \notin known => job[t].to \in Address
    BY <2>1, <1>t DEF TypeOK, Node
  <2>3. job' \in [Thread \union {Timer} -> Job] /\ JobInv'
    <3>1. CASE job[t].to \in known
      BY <1>3, <3>1, IdleStep DEF Check
    <3>2. CASE job[t].to \notin known
      BY <1>3, <2>1, <2>2, <3>2, DoingStep DEF Check
    <3> QED
      BY <3>1, <3>2
  <2> QED
    BY <1>0, <1>3, <1>t, <2>3 DEF Check, TypeOK
<1>4. ASSUME NEW t \in Thread, NEW a \in Address, NeedIdentity(t, a) PROVE TypeInv'
  <2>1. job' \in [Thread \union {Timer} -> Job] /\ JobInv'
    BY <1>4, DoingStep DEF NeedIdentity, Node
  <2> QED
    BY <1>0, <1>4, <1>t, <2>1 DEF NeedIdentity, TypeOK
<1>5. ASSUME NEW t \in Thread \union {Timer}, Ask(t) PROVE TypeInv'
  <2>1. job[t].to \in Address
    BY <1>5, <1>t DEF Ask, JobInv
  <2>2. job' \in [Thread \union {Timer} -> Job] /\ JobInv'
    <3>1. CASE TooSoon(job[t].to)
      BY <1>5, <3>1, IdleStep DEF Ask
    <3>2. CASE ~TooSoon(job[t].to)
      BY <1>5, <2>1, <3>2, DoingStep DEF Ask, Node
    <3> QED
      BY <3>1, <3>2
  <2>3. /\ whois' \in [Address -> 0..2 * RetryDelay + 1 \union {Never}]
        /\ sinceAsked' \in [Address -> 0..LongAgo]
    <3>1. 0 \in 0..2 * RetryDelay + 1 /\ 0 \in 0..LongAgo
      BY <1>n
    <3>2. \/ UNCHANGED <<whois, sinceAsked>>
          \/ /\ whois' = [whois EXCEPT ![job[t].to] = 0]
             /\ sinceAsked' = [sinceAsked EXCEPT ![job[t].to] = 0]
      BY <1>5 DEF Ask
    <3> DEFINE Whois == 0..2 * RetryDelay + 1 \union {Never}
               Since == 0..LongAgo
    <3>3. 0 \in Whois /\ 0 \in Since
      BY <3>1
    <3>4. whois \in [Address -> Whois] /\ sinceAsked \in [Address -> Since]
      BY <1>t DEF TypeOK
    <3> HIDE DEF Whois, Since
    <3>5. whois' \in [Address -> Whois] /\ sinceAsked' \in [Address -> Since]
      BY <3>2, <3>3, <3>4
    <3> QED
      BY <3>5 DEF Whois, Since
  <2> QED
    BY <1>0, <1>5, <1>t, <2>2, <2>3 DEF Ask, TypeOK
<1>6. ASSUME NEW t \in Thread \union {Timer}, Query(t) PROVE TypeInv'
  <2>1. job[t].to \in Address
    BY <1>6, <1>t DEF Query, JobInv
  <2>2. Upstream \in Node /\ job[t].to \in Body /\ TryOrPush(t, Upstream, job[t].to)
    BY <1>6, <2>1 DEF Query, Node, Body
  <2>3. job' \in [Thread \union {Timer} -> Job] /\ JobInv' /\ sent' \in [Packets -> Nat] /\ asked' \subseteq Address
    BY <2>1, <2>2, TryOrPushType
  <2> QED
    BY <1>0, <1>6, <1>t, <2>3 DEF Query, TypeOK
<1>7. ASSUME NEW t \in Thread, NEW a \in Address, Answer(t, a) PROVE TypeInv'
  <2>1. job' \in [Thread \union {Timer} -> Job] /\ JobInv'
    BY <1>7, DoingStep DEF Answer, Node
  <2> QED
    BY <1>0, <1>7, <1>t, <2>1 DEF Answer, TypeOK, Node
<1>8. ASSUME NEW t \in Thread \union {Timer}, Erase(t) PROVE TypeInv'
  <2>1. job[t].to \in Address
    BY <1>8, <1>t DEF Erase, JobInv
  <2>2. job' \in [Thread \union {Timer} -> Job] /\ JobInv'
    BY <1>8, <2>1, DoingStep DEF Erase, Node
  <2>3. whois' \in [Address -> 0..2 * RetryDelay + 1 \union {Never}]
    BY <1>8, <1>t DEF Erase, TypeOK
  <2> QED
    BY <1>0, <1>8, <1>t, <2>2, <2>3 DEF Erase, TypeOK
<1>9. ASSUME NEW t \in Thread \union {Timer}, Wake(t) PROVE TypeInv'
  <2>1. queue' \in Seq(Entry) /\ Len(queue') <= TxQueueSize
    BY <1>9, <1>t, ErasedType DEF Wake
  <2>2. sent' \in [Packets -> Nat] /\ asked' \subseteq Address
    BY <1>9, <1>t, TransmitType DEF Wake
  <2>3. job' \in [Thread \union {Timer} -> Job] /\ JobInv'
    BY <1>9, IdleStep DEF Wake
  <2> QED
    BY <1>0, <1>9, <1>t, <2>1, <2>2, <2>3 DEF Wake, TypeOK
<1>10. ASSUME TimerScan PROVE TypeInv'
  <2>1. queue' \in Seq(Entry) /\ Len(queue') <= TxQueueSize
    BY <1>10, <1>t, ErasedType DEF TimerScan
  <2>2. sent' \in [Packets -> Nat] /\ asked' \subseteq Address
    BY <1>10, <1>t, TransmitType DEF TimerScan
  <2>3. need' \subseteq Address
    <3>1. \A i \in DOMAIN queue' : queue'[i].to \in Node
      <4>1. \A i \in DOMAIN queue' : queue'[i] \in Entry
        BY <2>1
      <4> QED
        BY <4>1 DEF Entry
    <3>2. {queue'[i].to : i \in DOMAIN queue'} \ known \subseteq Address
      BY <3>1, <1>t DEF TypeOK, Node
    <3> QED
      BY <1>10, <3>2 DEF TimerScan
  <2>4. expired' \subseteq Packets
    BY <1>10, <1>t DEF TimerScan, TypeOK
  <2>5. checked' \in 0..LateCheck /\ JobInv'
    BY <1>10, <1>n, <1>t DEF TimerScan, JobInv
  <2> QED
    BY <1>0, <1>10, <1>t, <2>1, <2>2, <2>3, <2>4, <2>5 DEF TimerScan, TypeOK
<1>11. ASSUME NEW a \in Address, TimerAsk(a) PROVE TypeInv'
  <2>1. job' \in [Thread \union {Timer} -> Job] /\ JobInv'
    BY <1>11, DoingStep DEF TimerAsk, Node
  <2> QED
    BY <1>0, <1>11, <1>t, <2>1 DEF TimerAsk, TypeOK
<1>12. ASSUME TimerEnd PROVE TypeInv'
  <2>1. whois' \in [Address -> 0..2 * RetryDelay + 1 \union {Never}]
    BY <1>12, <1>t DEF TimerEnd, TypeOK
  <2>2. JobInv'
    BY <1>12, <1>t DEF TimerEnd, JobInv
  <2> QED
    BY <1>0, <1>12, <1>t, <2>1, <2>2 DEF TimerEnd, TypeOK
<1>13. ASSUME NEW a \in Address, Hello(a) PROVE TypeInv'
  <2>1. JobInv'
    BY <1>13, <1>t DEF Hello, JobInv
  <2> QED
    BY <1>0, <1>13, <1>t, <2>1 DEF Hello, TypeOK, Node
<1>14. ASSUME Paths PROVE TypeInv'
  <2>1. JobInv'
    BY <1>14, <1>t DEF Paths, JobInv
  <2> QED
    BY <1>0, <1>14, <1>t, <2>1 DEF Paths, TypeOK
<1>15. ASSUME NEW a \in Address, Forget(a) PROVE TypeInv'
  <2>1. JobInv'
    BY <1>15, <1>t DEF Forget, JobInv
  <2> QED
    BY <1>0, <1>15, <1>t, <2>1 DEF Forget, TypeOK
<1>16. ASSUME Tick PROVE TypeInv'
  <2>1. JobInv'
    BY <1>16, <1>t DEF Tick, JobInv
  <2>2. /\ queue' \in Seq(Entry) /\ Len(queue') <= TxQueueSize
        /\ whois' \in [Address -> 0..2 * RetryDelay + 1 \union {Never}]
        /\ checked' \in 0..LateCheck /\ sinceAsked' \in [Address -> 0..LongAgo]
    BY <1>16, <1>t, TickType
  <2> QED
    BY <1>0, <1>16, <1>t, <2>1, <2>2 DEF Tick, TypeOK
<1>17. CASE UNCHANGED vars
  BY <1>0, <1>17, <1>t DEF vars, TypeOK, JobInv
<1> QED
  BY <1>1, <1>2, <1>3, <1>4, <1>5, <1>6, <1>7, <1>8, <1>9, <1>10, <1>11, <1>12, <1>13,
     <1>14, <1>15, <1>16, <1>17 DEF Next, Step

LEMMA TypeAlways == Spec => []TypeInv
  BY TypeInit, TypeStep, PTL DEF Spec

(* Every reachable state is well typed, and the queue holds no more than   *)
(* ZT_TX_QUEUE_SIZE entries, whoever pushes (Switch::send).                *)
THEOREM TypeCorrect == Spec => []TypeOK
<1>1. TypeInv => TypeOK
  BY DEF TypeInv
<1> QED
  BY <1>1, TypeAlways, PTL

----------------------------------------------------------------------------
(* AskedInTime.  The time of the last WHOIS that is remembered is not      *)
(* before the last WHOIS, so that who is not asked because it is too soon  *)
(* was asked within a delay.                                               *)
WhoisInv ==
    \A a \in Address :
        whois[a] # Never /\ whois[a] <= 2 * RetryDelay => sinceAsked[a] <= whois[a]

AskInv == AskedInTime /\ WhoisInv

(* The part of AskedInTime about one address.                              *)
Minded(a) ==
    a \notin known /\ a \notin lapsed /\ checked < LateCheck =>
        BeingAsked(a) \/ sinceAsked[a] < checked + RetryDelay

(* The destinations of the queue after a step were there before.           *)
NoNewEntry == \A k \in DOMAIN queue' : \E i \in DOMAIN queue : queue'[k].to = queue[i].to

LEMMA MindedAll ==
    ASSUME TypeInv, TypeInv', AskedInTime, NoNewEntry,
           \A a \in Address : Minded(a) => Minded(a)'
    PROVE  AskedInTime'
<1> SUFFICES ASSUME NEW k \in DOMAIN queue', NEW a, a = queue'[k].to,
                    (a \notin known /\ a \notin lapsed /\ checked < LateCheck)'
             PROVE  (BeingAsked(a) \/ sinceAsked[a] < checked + RetryDelay)'
  BY DEF AskedInTime
<1>1. PICK i \in DOMAIN queue : a = queue[i].to
  BY DEF NoNewEntry
<1>2. a \in Address
  <2>1. queue[i] \in Entry
    BY DEF TypeInv, TypeOK
  <2>2. a \in Node /\ Upstream \in known'
    BY <1>1, <2>1 DEF Entry, TypeInv, TypeOK
  <2> QED
    BY <2>2 DEF Node
<1>3. Minded(a)
  BY <1>1 DEF AskedInTime, Minded
<1> QED
  BY <1>2, <1>3 DEF Minded

(* A thread that was not about to ask goes on.                             *)
LEMMA StillAsked ==
    ASSUME TypeInv, NEW t \in Thread \union {Timer}, NEW j, NEW a,
           job' = [job EXCEPT ![t] = j], a \in need => a \in need',
           job[t].at \in {"check", "ask"} /\ job[t].to = a => j.at \in {"check", "ask"} /\ j.to = a
    PROVE  BeingAsked(a) => BeingAsked(a)'
<1>1. job \in [Thread \union {Timer} -> Job]
  BY DEF TypeInv, TypeOK
<1>2. CASE a \in need
  BY <1>2 DEF BeingAsked
<1>3. ASSUME NEW u \in Thread \union {Timer}, job[u].at \in {"check", "ask"}, job[u].to = a
      PROVE  BeingAsked(a)'
  <2>1. job'[u].at \in {"check", "ask"} /\ job'[u].to = a
    BY <1>1, <1>3
  <2> QED
    BY <2>1 DEF BeingAsked
<1> QED
  BY <1>2, <1>3 DEF BeingAsked

LEMMA TryOrPushJob ==
    ASSUME NEW t, NEW to, NEW body, TryOrPush(t, to, body)
    PROVE  \E j : job' = [job EXCEPT ![t] = j]
  BY DEF TryOrPush

LEMMA SameQueue ==
    ASSUME queue' = queue
    PROVE  NoNewEntry
  BY DEF NoNewEntry

LEMMA LeftQueue ==
    ASSUME TypeOK, NEW S, queue' = Left(DOMAIN queue \ S)
    PROVE  NoNewEntry
<1>1. DOMAIN queue \ S \in SUBSET DOMAIN queue
  OBVIOUS
<1>2. \A k \in DOMAIN queue' :
         queue'[k] = queue[Place(DOMAIN queue \ S, k)] /\ Place(DOMAIN queue \ S, k) \in DOMAIN queue
  BY <1>1, LeftFacts
<1> QED
  BY <1>2 DEF NoNewEntry

(* What a push does to the queue, in terms of places.                      *)
LEMMA PushStep ==
    ASSUME TypeInv, NEW t \in Thread \union {Timer}, Push(t)
    PROVE  \E d \in {0, 1}, n \in Nat :
              /\ n = Len(queue) - d
              /\ DOMAIN queue' = 1..n + 1 /\ DOMAIN queue = 1..Len(queue)
              /\ queue'[n + 1].to = job[t].to /\ queue'[n + 1].body = job[t].body
              /\ queue'[n + 1].age = 0
              /\ \A i \in 1..n : i + d \in DOMAIN queue /\ queue'[i] = queue[i + d]
<1> DEFINE e == [to |-> job[t].to, body |-> job[t].body, age |-> 0]
<1>1. job[t].to \in Node /\ job[t].body \in Body /\ 0 \in 0..TransmitTimeout + 1
  BY DEF TypeInv, Push, TypeOK, JobInv, Job
<1>2. e \in Entry
  BY <1>1 DEF Entry
<1>3. e.to = job[t].to /\ e.body = job[t].body /\ e.age = 0 /\ queue' = Pushed(e)
  BY DEF Push
<1> HIDE DEF e
<1>4. TypeOK
  BY DEF TypeInv
<1>5. PICK d \in {0, 1}, n \in Nat :
              /\ n = Len(queue) - d
              /\ Pushed(e) \in Seq(Entry) /\ Len(Pushed(e)) <= TxQueueSize
              /\ DOMAIN Pushed(e) = 1..n + 1 /\ Pushed(e)[n + 1] = e
              /\ \A i \in 1..n : Pushed(e)[i] = queue[i + d]
  BY <1>2, <1>4, PushedFacts
<1>6. DOMAIN queue = 1..Len(queue) /\ Len(queue) \in Nat
  BY <1>4 DEF TypeOK
<1>7. \A i \in 1..n : i + d \in DOMAIN queue
  BY <1>5, <1>6
<1>8. /\ queue'[n + 1].to = job[t].to /\ queue'[n + 1].body = job[t].body
      /\ queue'[n + 1].age = 0
  <2>1. queue'[n + 1] = e
    BY <1>3, <1>5
  <2> QED
    BY <1>3, <2>1
<1>9. DOMAIN queue' = 1..n + 1 /\ \A i \in 1..n : queue'[i] = queue[i + d]
  BY <1>3, <1>5
<1> QED
  BY <1>5, <1>6, <1>7, <1>8, <1>9

(* Time passes for the entries, and leaves the rest of them.               *)
LEMMA TickQueue ==
    ASSUME TypeOK, Tick
    PROVE  /\ DOMAIN queue' = DOMAIN queue
           /\ \A i \in DOMAIN queue : queue'[i].to = queue[i].to /\ queue'[i].body = queue[i].body
<1>1. \A i \in DOMAIN queue : queue[i] \in Entry
  BY DEF TypeOK
<1>2. queue' = [i \in DOMAIN queue |->
                   [queue[i] EXCEPT !.age = Older(queue[i].age, TransmitTimeout + 1)]]
  BY DEF Tick
<1> QED
  BY <1>1, <1>2 DEF Entry

(* Every step but the timer's scan, time and a push keeps the obligation   *)
(* for each address.                                                       *)
LEMMA AskedStep == TypeInv /\ TypeInv' /\ AskInv /\ [Next]_vars => AskedInTime'
<1> SUFFICES ASSUME TypeInv, TypeInv', AskInv, [Next]_vars PROVE AskedInTime'
  OBVIOUS
<1>t. TypeOK /\ JobInv /\ AskedInTime
  BY DEF TypeInv, AskInv
<1> USE DEF topology, timer, fates
<1>1. ASSUME NEW t \in Thread, NEW n \in Node, Send(t, n) PROVE AskedInTime'
  <2>1. PICK j : job' = [job EXCEPT ![t] = j]
    BY <1>1, TryOrPushJob DEF Send
  <2>2. job[t].at = "idle"
    BY <1>1, JobFacts DEF Send
  <2>3. \A a \in Address : Minded(a) => Minded(a)'
    BY <1>1, <2>1, <2>2, StillAsked DEF Send, Minded
  <2> QED
    BY <1>1, <1>t, <2>3, MindedAll, SameQueue DEF Send
<1>2. ASSUME NEW t \in Thread \union {Timer}, Push(t) PROVE AskedInTime'
  <2>1. PICK d \in {0, 1}, n \in Nat :
            /\ n = Len(queue) - d
            /\ DOMAIN queue' = 1..n + 1 /\ DOMAIN queue = 1..Len(queue)
            /\ queue'[n + 1].to = job[t].to /\ queue'[n + 1].body = job[t].body
            /\ queue'[n + 1].age = 0
            /\ \A i \in 1..n : i + d \in DOMAIN queue /\ queue'[i] = queue[i + d]
    BY <1>2, PushStep, Zenon
  <2>2. PICK b : b = job[t].to
    OBVIOUS
  <2>3. job' = [job EXCEPT ![t] = Doing("check", b)]
    BY <1>2, <2>2 DEF Push
  <2>4. Doing("check", b).at = "check" /\ Doing("check", b).to = b
    BY DEF Doing
  <2>5. \A a \in Address : Minded(a) => Minded(a)'
    BY <1>2, <2>3, StillAsked DEF Push, Minded
  <2>6. BeingAsked(b)'
    <3>1. job'[t].at = "check" /\ job'[t].to = b
      BY <1>t, <2>3, <2>4 DEF TypeOK
    <3> QED
      BY <3>1 DEF BeingAsked
  <2>7. ASSUME NEW k \in DOMAIN queue', NEW a, a = queue'[k].to,
               (a \notin known /\ a \notin lapsed /\ checked < LateCheck)'
        PROVE  (BeingAsked(a) \/ sinceAsked[a] < checked + RetryDelay)'
    <3>1. CASE k = n + 1
      BY <2>1, <2>2, <2>6, <2>7, <3>1
    <3>2. CASE k \in 1..n
      <4>1. k + d \in DOMAIN queue /\ a = queue[k + d].to
        BY <2>1, <2>7, <3>2
      <4>2. Minded(a)
        BY <1>t, <4>1 DEF AskedInTime, Minded
      <4>3. a \in Address
        <5>1. queue[k + d] \in Entry
          BY <1>t, <4>1 DEF TypeOK
        <5>2. a \in Node /\ Upstream \in known'
          BY <4>1, <5>1 DEF Entry, TypeInv, TypeOK
        <5> QED
          BY <2>7, <5>2 DEF Node
      <4> QED
        BY <2>5, <2>7, <4>2, <4>3 DEF Minded
    <3> QED
      BY <2>1, <2>7, <3>1, <3>2
  <2> QED
    BY <2>7 DEF AskedInTime
<1>3. ASSUME NEW t \in Thread \union {Timer}, Check(t) PROVE AskedInTime'
  <2>1. job' = [job EXCEPT ![t] = IF job[t].to \in known THEN Idle ELSE Doing("ask", job[t].to)]
    BY <1>3 DEF Check
  <2>2. ASSUME NEW a \in Address, Minded(a), (a \notin known)'
        PROVE  Minded(a)'
    <3>1. CASE job[t].to \in known
      BY <1>3, <2>1, <2>2, <3>1, StillAsked DEF Check, Minded
    <3>2. CASE job[t].to \notin known
      <4>1. Doing("ask", job[t].to).at = "ask" /\ Doing("ask", job[t].to).to = job[t].to
        BY DEF Doing
      <4>2. BeingAsked(a) => BeingAsked(a)'
        BY <1>3, <2>1, <3>2, <4>1, StillAsked DEF Check
      <4> QED
        BY <1>3, <2>2, <4>2 DEF Check, Minded
    <3> QED
      BY <3>1, <3>2
  <2>3. \A a \in Address : Minded(a) => Minded(a)'
    BY <2>2 DEF Minded
  <2> QED
    BY <1>3, <1>t, <2>3, MindedAll, SameQueue DEF Check
<1>4. ASSUME NEW t \in Thread, NEW b \in Address, NeedIdentity(t, b) PROVE AskedInTime'
  <2>1. job[t].at = "idle"
    BY <1>4, JobFacts DEF NeedIdentity
  <2>2. \A a \in Address : Minded(a) => Minded(a)'
    BY <1>4, <2>1, StillAsked DEF NeedIdentity, Minded
  <2> QED
    BY <1>4, <1>t, <2>2, MindedAll, SameQueue DEF NeedIdentity
<1>5. ASSUME NEW t \in Thread \union {Timer}, Ask(t) PROVE AskedInTime'
  <2>1. PICK b \in Address : b = job[t].to
    BY <1>5, <1>t DEF Ask, JobInv
  <2>2. PICK j : job' = [job EXCEPT ![t] = j]
    BY <1>5 DEF Ask
  <2>3. checked \in Nat /\ RetryDelay \in Nat /\ RetryDelay > 0
    BY <1>t DEF TypeOK
  <2>4. sinceAsked'[b] < checked + RetryDelay
    <3>1. CASE TooSoon(b)
      <4>1. sinceAsked' = sinceAsked
        BY <1>5, <2>1, <3>1 DEF Ask
      <4>2. whois[b] # Never /\ whois[b] < RetryDelay
        BY <3>1 DEF TooSoon
      <4>3. whois[b] \in Nat /\ sinceAsked[b] \in Nat
        BY <1>t, <4>2 DEF TypeOK, LongAgo, LateCheck
      <4>4. sinceAsked[b] <= whois[b]
        BY <2>3, <4>2, <4>3 DEF AskInv, WhoisInv
      <4> QED
        BY <2>3, <4>1, <4>2, <4>3, <4>4
    <3>2. CASE ~TooSoon(b)
      <4>1. sinceAsked' = [sinceAsked EXCEPT ![b] = 0]
        BY <1>5, <2>1, <3>2 DEF Ask
      <4>2. sinceAsked'[b] = 0
        BY <1>t, <4>1 DEF TypeOK
      <4> QED
        BY <2>3, <4>2
    <3> QED
      BY <3>1, <3>2
  <2>5. \A a \in Address : a # b => sinceAsked'[a] = sinceAsked[a]
    BY <1>5, <1>t, <2>1 DEF Ask, TypeOK
  <2>6. \A a \in Address : a # b => (BeingAsked(a) => BeingAsked(a)')
    BY <1>5, <2>1, <2>2, StillAsked DEF Ask
  <2>7. ASSUME NEW a \in Address, Minded(a) PROVE Minded(a)'
    <3>1. CASE a = b
      BY <1>5, <2>4, <3>1 DEF Ask, Minded
    <3>2. CASE a # b
      BY <1>5, <2>5, <2>6, <2>7, <3>2 DEF Ask, Minded
    <3> QED
      BY <3>1, <3>2
  <2> QED
    BY <1>5, <1>t, <2>7, MindedAll, SameQueue DEF Ask
<1>6. ASSUME NEW t \in Thread \union {Timer}, Query(t) PROVE AskedInTime'
  <2>1. PICK j : job' = [job EXCEPT ![t] = j]
    BY <1>6, TryOrPushJob DEF Query
  <2>2. \A a \in Address : Minded(a) => Minded(a)'
    BY <1>6, <2>1, StillAsked DEF Query, Minded
  <2> QED
    BY <1>6, <1>t, <2>2, MindedAll, SameQueue DEF Query
<1>7. ASSUME NEW t \in Thread, NEW b \in Address, Answer(t, b) PROVE AskedInTime'
  <2>1. job[t].at = "idle"
    BY <1>7, JobFacts DEF Answer
  <2>2. \A a \in Address : Minded(a) => Minded(a)'
    BY <1>7, <2>1, StillAsked DEF Answer, Minded
  <2> QED
    BY <1>7, <1>t, <2>2, MindedAll, SameQueue DEF Answer
<1>8. ASSUME NEW t \in Thread \union {Timer}, Erase(t) PROVE AskedInTime'
  <2>1. \A a \in Address : Minded(a) => Minded(a)'
    BY <1>8, StillAsked DEF Erase, Minded
  <2> QED
    BY <1>8, <1>t, <2>1, MindedAll, SameQueue DEF Erase
<1>9. ASSUME NEW t \in Thread \union {Timer}, Wake(t) PROVE AskedInTime'
  <2>1. \A a \in Address : Minded(a) => Minded(a)'
    BY <1>9, StillAsked DEF Wake, Minded
  <2>2. NoNewEntry
    BY <1>9, <1>t, LeftQueue DEF Wake
  <2> QED
    BY <1>t, <2>1, <2>2, MindedAll
<1>10. ASSUME TimerScan PROVE AskedInTime'
  <2>1. \A k \in DOMAIN queue' : queue'[k].to \notin known' => queue'[k].to \in need'
    BY <1>10 DEF TimerScan
  <2> QED
    BY <2>1 DEF AskedInTime, BeingAsked
<1>11. ASSUME NEW b \in Address, TimerAsk(b) PROVE AskedInTime'
  <2>1. job' = [job EXCEPT ![Timer] = Doing("ask", b)] /\ need' = need \ {b}
    BY <1>11 DEF TimerAsk
  <2>2. Doing("ask", b).at = "ask" /\ Doing("ask", b).to = b /\ job[Timer].at = "idle"
    BY <1>11, JobFacts DEF Doing, TimerAsk
  <2>3. BeingAsked(b)'
    <3>1. job'[Timer].at = "ask" /\ job'[Timer].to = b
      BY <1>t, <2>1, <2>2 DEF TypeOK
    <3> QED
      BY <3>1 DEF BeingAsked
  <2>4. ASSUME NEW a \in Address, BeingAsked(a) PROVE BeingAsked(a)'
    <3>1. CASE a = b
      BY <2>3, <3>1
    <3>2. CASE a # b
      BY <2>1, <2>2, <2>4, <3>2, StillAsked
    <3> QED
      BY <3>1, <3>2
  <2>5. \A a \in Address : Minded(a) => Minded(a)'
    BY <1>11, <2>4 DEF TimerAsk, Minded
  <2> QED
    BY <1>11, <1>t, <2>5, MindedAll, SameQueue DEF TimerAsk
<1>12. ASSUME TimerEnd PROVE AskedInTime'
  <2>1. \A a \in Address : Minded(a) => Minded(a)'
    BY <1>12 DEF TimerEnd, Minded, BeingAsked
  <2> QED
    BY <1>12, <1>t, <2>1, MindedAll, SameQueue DEF TimerEnd
<1>13. ASSUME NEW b \in Address, Hello(b) PROVE AskedInTime'
  <2>1. \A a \in Address : Minded(a) => Minded(a)'
    BY <1>13 DEF Hello, Minded, BeingAsked
  <2> QED
    BY <1>13, <1>t, <2>1, MindedAll, SameQueue DEF Hello
<1>14. ASSUME Paths PROVE AskedInTime'
  <2>1. \A a \in Address : Minded(a) => Minded(a)'
    BY <1>14 DEF Paths, Minded, BeingAsked
  <2> QED
    BY <1>14, <1>t, <2>1, MindedAll, SameQueue DEF Paths
<1>15. ASSUME NEW b \in Address, Forget(b) PROVE AskedInTime'
  <2>1. \A a \in Address : Minded(a) => Minded(a)'
    BY <1>15 DEF Forget, Minded, BeingAsked
  <2> QED
    BY <1>15, <1>t, <2>1, MindedAll, SameQueue DEF Forget
<1>16. ASSUME Tick PROVE AskedInTime'
  <2>1. NoNewEntry
    BY <1>16, <1>t, TickQueue DEF NoNewEntry
  <2>2. checked \in 0..LateCheck /\ LateCheck \in Nat /\ LongAgo \in Nat /\ RetryDelay \in Nat
    BY <1>t DEF TypeOK, LateCheck, LongAgo
  <2>3. checked' < LateCheck => checked < LateCheck /\ checked' = checked + 1
    BY <1>16, <2>2 DEF Tick, Older
  <2>4. \A a \in Address : sinceAsked[a] \in Nat /\ sinceAsked'[a] \in Nat /\ sinceAsked'[a] <= sinceAsked[a] + 1
    BY <1>16, <1>t, <2>2 DEF Tick, Older, TypeOK
  <2>5. ASSUME NEW a \in Address, Minded(a) PROVE Minded(a)'
    <3>1. BeingAsked(a) => BeingAsked(a)'
      BY <1>16 DEF Tick, BeingAsked
    <3>2. checked' < LateCheck /\ sinceAsked[a] < checked + RetryDelay
              => sinceAsked'[a] < checked' + RetryDelay
      BY <2>2, <2>3, <2>4
    <3> QED
      BY <1>16, <2>3, <2>5, <3>1, <3>2 DEF Tick, Minded
  <2> QED
    BY <1>t, <2>1, <2>5, MindedAll
<1>17. CASE UNCHANGED vars
  <2>1. \A a \in Address : Minded(a) => Minded(a)'
    BY <1>17 DEF vars, Minded, BeingAsked
  <2> QED
    BY <1>17, <1>t, <2>1, MindedAll, SameQueue DEF vars
<1> QED
  BY <1>1, <1>2, <1>3, <1>4, <1>5, <1>6, <1>7, <1>8, <1>9, <1>10, <1>11, <1>12, <1>13,
     <1>14, <1>15, <1>16, <1>17 DEF Next, Step

LEMMA WhoisStep == TypeInv /\ WhoisInv /\ [Next]_vars => WhoisInv'
<1> SUFFICES ASSUME TypeInv, WhoisInv, [Next]_vars PROVE WhoisInv'
  OBVIOUS
<1>t. TypeOK /\ JobInv
  BY DEF TypeInv
<1> USE DEF topology, timer, fates
<1>1. ASSUME UNCHANGED <<whois, sinceAsked>> PROVE WhoisInv'
  BY <1>1 DEF WhoisInv
<1>2. ASSUME NEW t \in Thread \union {Timer}, Ask(t) PROVE WhoisInv'
  <2>1. CASE TooSoon(job[t].to)
    BY <1>1, <1>2, <2>1 DEF Ask
  <2>2. CASE ~TooSoon(job[t].to)
    <3>1. /\ whois' = [whois EXCEPT ![job[t].to] = 0]
          /\ sinceAsked' = [sinceAsked EXCEPT ![job[t].to] = 0]
      BY <1>2, <2>2 DEF Ask
    <3>2. \A a \in Address : \/ whois'[a] = whois[a] /\ sinceAsked'[a] = sinceAsked[a]
                             \/ whois'[a] = 0 /\ sinceAsked'[a] = 0
      BY <1>t, <3>1 DEF TypeOK
    <3> QED
      BY <3>2 DEF WhoisInv
  <2> QED
    BY <2>1, <2>2
<1>3. ASSUME NEW t \in Thread \union {Timer}, Erase(t) PROVE WhoisInv'
  <2>1. \A a \in Address : whois'[a] = whois[a] \/ whois'[a] = Never
    BY <1>3, <1>t DEF Erase, TypeOK
  <2> QED
    BY <1>3, <2>1 DEF Erase, WhoisInv
<1>4. ASSUME TimerEnd PROVE WhoisInv'
  <2>1. \A a \in Address : whois'[a] = whois[a] \/ whois'[a] = Never
    BY <1>4 DEF TimerEnd
  <2> QED
    BY <1>4, <2>1 DEF TimerEnd, WhoisInv
<1>5. ASSUME Tick PROVE WhoisInv'
  <2> SUFFICES ASSUME NEW a \in Address, whois'[a] # Never, whois'[a] <= 2 * RetryDelay
               PROVE  sinceAsked'[a] <= whois'[a]
    BY DEF WhoisInv
  <2> DEFINE most == 2 * RetryDelay + 1
  <2>1. most \in Nat /\ LongAgo \in Nat
    BY DEF LongAgo, LateCheck
  <2>2. whois[a] # Never /\ whois'[a] = Older(whois[a], most)
    BY <1>5 DEF Tick
  <2>3. whois[a] \in 0..most /\ sinceAsked[a] \in 0..LongAgo
    BY <1>t, <2>2 DEF TypeOK
  <2>4. sinceAsked'[a] \in Nat /\ sinceAsked'[a] <= sinceAsked[a] + 1
    BY <1>5, <2>1, <2>3 DEF Tick, Older
  <2>5. whois[a] < most /\ whois'[a] = whois[a] + 1
    BY <2>2, <2>3 DEF Older
  <2>6. sinceAsked[a] <= whois[a]
    BY <2>2, <2>3, <2>5 DEF WhoisInv
  <2> QED
    BY <2>3, <2>4, <2>5, <2>6
<1> QED
  BY <1>1, <1>2, <1>3, <1>4, <1>5
  DEF Next, Step, vars, Send, NeedIdentity, Answer, Push, Check, Query, Wake, TimerAsk,
      Hello, Forget, TimerScan, Paths

LEMMA AskInit == Init => AskInv
<1> SUFFICES ASSUME Init PROVE AskInv
  OBVIOUS
<1>1. AskedInTime
  BY DEF Init, AskedInTime
<1>2. WhoisInv
  BY DEF Init, WhoisInv
<1> QED
  BY <1>1, <1>2 DEF AskInv

(* A packet that waits for an unknown peer is never forgotten: somebody    *)
(* was asked, is being asked or will be within one delay, whatever the     *)
(* answers, the timer and other threads do (requestWhois, doTimerTasks).   *)
THEOREM NobodyForgotten == Spec => []AskedInTime
<1>1. TypeInv /\ TypeInv' /\ AskInv /\ [Next]_vars => AskInv'
  BY AskedStep, WhoisStep DEF AskInv
<1>2. AskInv => AskedInTime
  BY DEF AskInv
<1> QED
  BY <1>1, <1>2, AskInit, TypeAlways, PTL DEF Spec

----------------------------------------------------------------------------
(* Accounted, without cardinalities: a packet that was sent is in one of   *)
(* five places, once, and one that was not is in none.                     *)
HeldOnce(p) == \E t \in Thread : InHand(p) = {t}
QueuedOnce(p) == \E i \in DOMAIN queue : Places(p) = {i}

Unsent(p) ==
    InHand(p) = {} /\ Places(p) = {} /\ sent[p] = 0 /\ p \notin displaced /\ p \notin expired

Somewhere(p) ==
    \/ HeldOnce(p) /\ Places(p) = {} /\ sent[p] = 0 /\ p \notin displaced /\ p \notin expired
    \/ InHand(p) = {} /\ QueuedOnce(p) /\ sent[p] = 0 /\ p \notin displaced /\ p \notin expired
    \/ InHand(p) = {} /\ Places(p) = {} /\ sent[p] = 1 /\ p \notin displaced /\ p \notin expired
    \/ InHand(p) = {} /\ Places(p) = {} /\ sent[p] = 0 /\ p \in displaced /\ p \notin expired
    \/ InHand(p) = {} /\ Places(p) = {} /\ sent[p] = 0 /\ p \notin displaced /\ p \in expired

Located(p) == (p < next => Somewhere(p)) /\ (p >= next => Unsent(p))
LocatedInv == \A p \in Packets : Located(p)

LEMMA LocatedAccounted ==
    ASSUME TypeOK, LocatedInv
    PROVE  Accounted
<1>1. \A x : Cardinality({x}) = 1
  BY FS_Singleton
<1>2. Cardinality({}) = 0
  BY FS_EmptySet
<1> SUFFICES ASSUME NEW p \in Packets
             PROVE  Cardinality(InHand(p)) + Cardinality(Places(p)) + sent[p]
                        + Cardinality({p} \intersect displaced) + Cardinality({p} \intersect expired)
                    = IF p < next THEN 1 ELSE 0
  BY DEF Accounted
<1>3. /\ p \in displaced => {p} \intersect displaced = {p}
      /\ p \notin displaced => {p} \intersect displaced = {}
      /\ p \in expired => {p} \intersect expired = {p}
      /\ p \notin expired => {p} \intersect expired = {}
  OBVIOUS
<1>4. Cardinality({p} \intersect displaced) = IF p \in displaced THEN 1 ELSE 0
  BY <1>1, <1>2, <1>3
<1>5. Cardinality({p} \intersect expired) = IF p \in expired THEN 1 ELSE 0
  BY <1>1, <1>2, <1>3
<1>6. /\ HeldOnce(p) => Cardinality(InHand(p)) = 1
      /\ InHand(p) = {} => Cardinality(InHand(p)) = 0
      /\ QueuedOnce(p) => Cardinality(Places(p)) = 1
      /\ Places(p) = {} => Cardinality(Places(p)) = 0
  BY <1>1, <1>2 DEF HeldOnce, QueuedOnce
<1>7. Located(p)
  BY DEF LocatedInv
<1>8. p \in Int /\ next \in Int
  BY DEF Packets, TypeOK
<1>9. CASE p < next
  BY <1>4, <1>5, <1>6, <1>7, <1>9 DEF Located, Somewhere
<1>10. CASE p >= next
  BY <1>4, <1>5, <1>6, <1>7, <1>8, <1>10 DEF Located, Unsent
<1> QED
  BY <1>8, <1>9, <1>10

(* The packets in the hands of threads that do not push stay there.        *)
LEMMA SameHands ==
    ASSUME TypeOK, NEW t \in Thread \union {Timer}, NEW j, job' = [job EXCEPT ![t] = j],
           NEW p, ~(t \in Thread /\ job[t].at = "push" /\ job[t].body = p),
           ~(t \in Thread /\ j.at = "push" /\ j.body = p)
    PROVE  InHand(p)' = InHand(p)
<1>1. \A u \in Thread : u # t => job'[u] = job[u]
  BY DEF TypeOK
<1>2. t \in Thread => job'[t] = j
  BY DEF TypeOK
<1> QED
  BY <1>1, <1>2 DEF InHand

LEMMA InBodies ==
    ASSUME NEW p
    PROVE  p \in Bodies(DOMAIN queue) <=> Places(p) # {}
  BY DEF Bodies, Places

LEMMA InBodiesNext ==
    ASSUME NEW p
    PROVE  p \in Bodies(DOMAIN queue)' <=> Places(p)' # {}
  BY DEF Bodies, Places

(* A packet that is not erased keeps one place in the queue.               *)
LEMMA LeftPlaces ==
    ASSUME TypeOK, NEW S, queue' = Left(DOMAIN queue \ S), NEW p
    PROVE  /\ Places(p) \subseteq S => Places(p)' = {}
           /\ QueuedOnce(p) /\ ~(Places(p) \subseteq S) => QueuedOnce(p)'
<1> DEFINE K == DOMAIN queue \ S
<1>1. K \in SUBSET DOMAIN queue /\ queue' = Left(K)
  OBVIOUS
<1> HIDE DEF K
<1>2. /\ \A k \in DOMAIN queue' : queue'[k] = queue[Place(K, k)] /\ Place(K, k) \in K
      /\ \A i \in K : \E k \in DOMAIN queue' : Place(K, k) = i
      /\ \A k, m \in DOMAIN queue' : Place(K, k) = Place(K, m) => k = m
  <2>1. /\ \A k \in DOMAIN Left(K) : Left(K)[k] = queue[Place(K, k)] /\ Place(K, k) \in K
        /\ \A i \in K : \E k \in DOMAIN Left(K) : Place(K, k) = i
        /\ \A k, m \in DOMAIN Left(K) : Place(K, k) = Place(K, m) => k = m
    BY <1>1, LeftFacts
  <2> QED
    BY <1>1, <2>1
<1>3. Places(p)' = {k \in DOMAIN queue' : Place(K, k) \in Places(p)}
  BY <1>1, <1>2 DEF Places
<1>4. Places(p) \subseteq S => Places(p)' = {}
  BY <1>2, <1>3 DEF K
<1>5. ASSUME NEW i \in DOMAIN queue, Places(p) = {i}, i \notin S
      PROVE  QueuedOnce(p)'
  <2>1. PICK k \in DOMAIN queue' : Place(K, k) = i
    BY <1>2, <1>5 DEF K
  <2>2. \A m \in DOMAIN queue' : Place(K, m) = i <=> m = k
    BY <1>2, <2>1
  <2>3. Places(p)' = {m \in DOMAIN queue' : Place(K, m) = i}
    BY <1>3, <1>5
  <2>4. Places(p)' = {k}
    BY <2>1, <2>2, <2>3
  <2> QED
    BY <2>4 DEF QueuedOnce
<1> QED
  BY <1>4, <1>5 DEF QueuedOnce

(* A packet that is pushed has the last place; others keep theirs, but for *)
(* the one at the front of a full queue.                                   *)
LEMMA PushPlaces ==
    ASSUME TypeInv, NEW t \in Thread \union {Timer}, Push(t), NEW p
    PROVE  /\ p # job[t].body /\ Places(p) = {} => Places(p)' = {}
           /\ p # job[t].body /\ QueuedOnce(p) => QueuedOnce(p)' \/ Places(p)' = {}
           /\ p = job[t].body /\ Places(p) = {} => QueuedOnce(p)'
<1>1. PICK d \in {0, 1}, n \in Nat :
          /\ n = Len(queue) - d
          /\ DOMAIN queue' = 1..n + 1 /\ DOMAIN queue = 1..Len(queue)
          /\ queue'[n + 1].to = job[t].to /\ queue'[n + 1].body = job[t].body
          /\ queue'[n + 1].age = 0
          /\ \A i \in 1..n : i + d \in DOMAIN queue /\ queue'[i] = queue[i + d]
  BY PushStep, Zenon
<1>2. \A k \in DOMAIN queue' : k = n + 1 \/ k \in 1..n
  BY <1>1
<1>3. CASE p # job[t].body
  <2>1. Places(p)' = {k \in 1..n : k + d \in Places(p)}
    <3>1. Places(p)' = {k \in DOMAIN queue' : queue'[k].body = p}
      BY DEF Places
    <3>2. \A k \in 1..n : k \in DOMAIN queue' /\ (queue'[k].body = p <=> k + d \in Places(p))
      BY <1>1 DEF Places
    <3>3. queue'[n + 1].body # p
      BY <1>1, <1>3
    <3> QED
      BY <1>2, <3>1, <3>2, <3>3
  <2>2. ASSUME NEW i \in DOMAIN queue, Places(p) = {i}
        PROVE  QueuedOnce(p)' \/ Places(p)' = {}
    <3>1. i \in Int /\ d \in Int
      BY <1>1
    <3>2. CASE i - d \in 1..n
      <4>1. Places(p)' = {i - d}
        BY <2>1, <2>2, <3>1, <3>2
      <4> QED
        BY <1>1, <3>2, <4>1 DEF QueuedOnce
    <3>3. CASE i - d \notin 1..n
      <4>1. \A k \in 1..n : k + d # i
        BY <3>1, <3>3
      <4> QED
        BY <2>1, <2>2, <4>1
    <3> QED
      BY <3>2, <3>3
  <2> QED
    BY <1>3, <2>1, <2>2 DEF QueuedOnce
<1>4. CASE p = job[t].body /\ Places(p) = {}
  <2>1. n + 1 \in DOMAIN queue'
    BY <1>1
  <2>2. \A i \in DOMAIN queue : queue[i].body # p
    BY <1>4 DEF Places
  <2>3. \A k \in 1..n : queue'[k].body # p
    BY <1>1, <2>2
  <2>4. queue'[n + 1].body = p
    BY <1>1, <1>4
  <2>5. Places(p)' = {n + 1}
    BY <1>2, <2>1, <2>3, <2>4 DEF Places
  <2> QED
    BY <1>4, <2>1, <2>5 DEF QueuedOnce
<1> QED
  BY <1>3, <1>4

(* What a step leaves alone.                                               *)
LEMMA SameLocated ==
    ASSUME NEW p, UNCHANGED <<queue, next, fates>>, InHand(p)' = InHand(p)
    PROVE  Located(p) => Located(p)'
<1>1. Places(p)' = Places(p) /\ DOMAIN queue' = DOMAIN queue
  BY DEF Places
<1>2. HeldOnce(p)' = HeldOnce(p)
  BY DEF HeldOnce
<1> QED
  BY <1>1, <1>2 DEF Located, Somewhere, Unsent, QueuedOnce, fates

LEMMA TransmitSent ==
    ASSUME TypeOK, NEW bodies, Transmit(bodies), NEW p \in Packets
    PROVE  /\ p \in bodies => sent'[p] = sent[p] + 1
           /\ p \notin bodies => sent'[p] = sent[p]
  BY DEF Transmit, TypeOK

(* A packet is tried, and sent or in the hands of the thread.              *)
LEMMA SendLocated ==
    ASSUME TypeInv, LocatedInv, NEW t \in Thread, NEW n \in Node, Send(t, n), NEW p \in Packets
    PROVE  Located(p)'
<1>t. TypeOK /\ Located(p) /\ next \in Int /\ p \in Int
  BY SMTT(30) DEF TypeInv, TypeOK, LocatedInv, Packets
<1>1. job[t].at = "idle" /\ next' = next + 1 /\ TryOrPush(t, n, next)
      /\ UNCHANGED <<queue, displaced, expired>>
  BY JobFacts DEF Send
<1>2. Places(p)' = Places(p) /\ (QueuedOnce(p) = QueuedOnce(p)')
  BY <1>1 DEF Places, QueuedOnce
<1>3. \E j : job' = [job EXCEPT ![t] = j] /\ (j.at = "push" => j.body = next)
  BY <1>1, JobFacts DEF TryOrPush
<1>4. CASE p # next
  <2>1. InHand(p)' = InHand(p)
    BY <1>t, <1>1, <1>3, <1>4, SameHands
  <2>2. sent'[p] = sent[p]
    BY <1>t, <1>1, <1>4, TransmitSent DEF TryOrPush
  <2>3. HeldOnce(p)' = HeldOnce(p)
    BY <2>1 DEF HeldOnce
  <2>4. (p < next' <=> p < next) /\ (p >= next' <=> p >= next)
    BY <1>t, <1>1, <1>4
  <2> QED
    BY <1>t, <1>1, <1>2, <2>1, <2>2, <2>3, <2>4 DEF Located, Somewhere, Unsent
<1>5. CASE p = next
  <2>1. Unsent(p) /\ p < next'
    BY <1>t, <1>1, <1>5 DEF Located
  <2>2. CASE CanSend(n, p)
    <3>1. Transmit({p}) /\ job' = [job EXCEPT ![t] = Idle]
      BY <1>1, <1>5, <2>2 DEF TryOrPush
    <3>2. sent'[p] = 1
      BY <1>t, <2>1, <3>1, TransmitSent DEF Unsent
    <3>3. InHand(p)' = InHand(p)
      <4>1. job[t].at # "push" /\ Idle.at # "push"
        BY <1>1, JobFacts
      <4> QED
        BY <1>t, <3>1, <4>1, SameHands
    <3> QED
      BY <1>t, <1>1, <1>2, <2>1, <3>2, <3>3 DEF Located, Somewhere, Unsent
  <2>3. CASE ~CanSend(n, p)
    <3>1. job' = [job EXCEPT ![t] = [at |-> "push", to |-> n, body |-> p]] /\ sent' = sent
      BY <1>1, <1>5, <2>3 DEF TryOrPush
    <3>2. job'[t].at = "push" /\ job'[t].body = p /\ \A u \in Thread : u # t => job'[u] = job[u]
      BY <1>t, <3>1 DEF TypeOK
    <3>3. InHand(p) = {}
      BY <2>1 DEF Unsent
    <3>4. InHand(p)' = {t}
      BY <3>2, <3>3 DEF InHand
    <3> QED
      BY <1>t, <1>1, <1>2, <2>1, <3>1, <3>4 DEF Located, Somewhere, Unsent, HeldOnce
  <2> QED
    BY <2>2, <2>3
<1> QED
  BY <1>4, <1>5

(* The packet goes from the thread into the queue, maybe for another one.  *)
LEMMA PushLocated ==
    ASSUME TypeInv, LocatedInv, NEW t \in Thread \union {Timer}, Push(t), NEW p \in Packets
    PROVE  Located(p)'
<1>t. TypeOK /\ JobInv /\ Located(p) /\ next \in Int /\ p \in Int
  BY DEF TypeInv, TypeOK, LocatedInv, Packets
<1>1. /\ job[t].at = "push" /\ job' = [job EXCEPT ![t] = Doing("check", job[t].to)]
      /\ displaced' = displaced \union ((Bodies(DOMAIN queue) \ Bodies(DOMAIN queue)') \intersect Packets)
      /\ UNCHANGED <<next, sent, expired>>
  BY DEF Push
<1>2. Doing("check", job[t].to).at = "check"
  BY DEF Doing
<1>3. p \in displaced' <=> p \in displaced \/ (Places(p) # {} /\ Places(p)' = {})
  BY <1>1, InBodies, InBodiesNext
<1>4. CASE p # job[t].body
  <2>1. InHand(p)' = InHand(p)
    BY <1>t, <1>1, <1>2, <1>4, SameHands
  <2>2. HeldOnce(p)' = HeldOnce(p)
    BY <2>1 DEF HeldOnce
  <2>3. /\ Places(p) = {} => Places(p)' = {}
        /\ QueuedOnce(p) => QueuedOnce(p)' \/ Places(p)' = {}
    BY <1>4, PushPlaces
  <2>4. /\ QueuedOnce(p) => Places(p) # {}
        /\ QueuedOnce(p)' => Places(p)' # {}
    BY DEF QueuedOnce
  <2> QED
    BY <1>t, <1>1, <1>3, <2>1, <2>2, <2>3, <2>4 DEF Located, Somewhere, Unsent
<1>5. CASE p = job[t].body
  <2>1. t \in Thread
    BY <1>t, <1>1, <1>5 DEF JobInv, Node
  <2>2. t \in InHand(p)
    BY <1>1, <1>5, <2>1 DEF InHand
  <2>3. /\ p < next /\ InHand(p) = {t} /\ Places(p) = {} /\ sent[p] = 0
        /\ p \notin displaced /\ p \notin expired
    BY <1>t, <2>2 DEF Located, Somewhere, Unsent, HeldOnce
  <2>4. QueuedOnce(p)'
    BY <1>5, <2>3, PushPlaces
  <2>5. InHand(p)' = {}
    <3>1. job'[t].at = "check" /\ \A u \in Thread : u # t => job'[u] = job[u]
      BY <1>t, <1>1, <1>2 DEF TypeOK
    <3> QED
      BY <2>3, <3>1 DEF InHand
  <2> QED
    BY <1>t, <1>1, <1>3, <2>3, <2>4, <2>5 DEF Located, Somewhere
<1> QED
  BY <1>4, <1>5

(* A WHOIS is a packet of no number.                                       *)
LEMMA QueryLocated ==
    ASSUME TypeInv, LocatedInv, NEW t \in Thread \union {Timer}, Query(t), NEW p \in Packets
    PROVE  Located(p)'
<1>t. TypeOK /\ Located(p) /\ p # job[t].to
  BY DEF TypeInv, LocatedInv, Query, JobInv, Node
<1>1. /\ job[t].at = "query" /\ TryOrPush(t, Upstream, job[t].to)
      /\ UNCHANGED <<queue, next, displaced, expired>>
  BY DEF Query
<1>2. \E j : job' = [job EXCEPT ![t] = j] /\ (j.at = "push" => j.body # p)
  BY <1>t, <1>1, JobFacts DEF TryOrPush
<1>3. InHand(p)' = InHand(p)
  BY <1>t, <1>1, <1>2, SameHands
<1>4. sent'[p] = sent[p]
  BY <1>t, <1>1, TransmitSent DEF TryOrPush
<1>5. Places(p)' = Places(p) /\ QueuedOnce(p)' = QueuedOnce(p) /\ HeldOnce(p)' = HeldOnce(p)
  BY <1>1, <1>3 DEF Places, QueuedOnce, HeldOnce
<1> QED
  BY <1>t, <1>1, <1>3, <1>4, <1>5 DEF Located, Somewhere, Unsent

(* What leaves the queue is either sent, or given up by the timer.         *)
LEMMA ErasedLocated ==
    ASSUME TypeInv, LocatedInv, NEW p \in Packets,
           NEW goes \in SUBSET DOMAIN queue, NEW old \in SUBSET DOMAIN queue,
           goes \intersect old = {}, queue' = Left(DOMAIN queue \ (goes \union old)),
           Transmit(Bodies(goes)), expired' = expired \union (Bodies(old) \intersect Packets),
           UNCHANGED <<next, displaced>>, InHand(p)' = InHand(p)
    PROVE  Located(p)'
<1>t. TypeOK /\ Located(p)
  BY DEF TypeInv, LocatedInv
<1>1. HeldOnce(p)' = HeldOnce(p)
  BY DEF HeldOnce
<1>2. /\ Places(p) \subseteq goes \union old => Places(p)' = {}
      /\ QueuedOnce(p) /\ ~(Places(p) \subseteq goes \union old) => QueuedOnce(p)'
  BY <1>t, LeftPlaces
<1>3. /\ p \in Bodies(goes) => sent'[p] = sent[p] + 1
      /\ p \notin Bodies(goes) => sent'[p] = sent[p]
  BY <1>t, TransmitSent
<1>4. p \in Bodies(goes) <=> Places(p) \intersect goes # {}
  BY DEF Bodies, Places
<1>5. p \in Bodies(old) <=> Places(p) \intersect old # {}
  BY DEF Bodies, Places
<1>6. CASE Places(p) = {}
  BY <1>t, <1>1, <1>2, <1>3, <1>4, <1>5, <1>6 DEF Located, Somewhere, Unsent, QueuedOnce
<1>7. CASE Places(p) # {}
  <2>1. /\ p < next /\ InHand(p) = {} /\ QueuedOnce(p) /\ sent[p] = 0
        /\ p \notin displaced /\ p \notin expired
    BY <1>t, <1>7 DEF Located, Somewhere, Unsent, TypeOK, Packets
  <2>2. PICK i \in DOMAIN queue : Places(p) = {i}
    BY <2>1 DEF QueuedOnce
  <2>h. /\ next' = next /\ displaced' = displaced /\ InHand(p)' = InHand(p)
        /\ p \in expired' <=> (p \in expired \/ p \in Bodies(old))
    OBVIOUS
  <2>p. p < next' /\ InHand(p)' = {} /\ p \notin displaced'
    BY <2>1, <2>h
  <2>3. CASE i \in goes
    <3>1. sent'[p] = 1 /\ Places(p)' = {} /\ i \notin old
      BY <1>2, <1>3, <1>4, <2>1, <2>2, <2>3
    <3>2. p \notin expired'
      BY <1>5, <2>1, <2>2, <2>h, <3>1
    <3>3. Somewhere(p)'
      BY <2>p, <3>1, <3>2 DEF Somewhere
    <3> QED
      BY <1>t, <2>p, <3>3 DEF Located, TypeOK, Packets
  <2>4. CASE i \in old
    <3>1. i \notin goes /\ Places(p)' = {} /\ Places(p) \intersect goes = {}
      BY <1>2, <2>1, <2>2, <2>4
    <3>2. sent'[p] = 0 /\ p \in expired'
      BY <1>3, <1>4, <1>5, <2>1, <2>2, <2>4, <2>h, <3>1
    <3>3. Somewhere(p)'
      BY <2>p, <3>1, <3>2 DEF Somewhere
    <3> QED
      BY <1>t, <2>p, <3>3 DEF Located, TypeOK, Packets
  <2>5. CASE i \notin goes \union old
    <3>1. QueuedOnce(p)' /\ Places(p) \intersect goes = {} /\ Places(p) \intersect old = {}
      BY <1>2, <2>1, <2>2, <2>5
    <3>2. sent'[p] = 0 /\ p \notin expired'
      BY <1>3, <1>4, <1>5, <2>1, <2>h, <3>1
    <3>3. Somewhere(p)'
      BY <2>p, <3>1, <3>2 DEF Somewhere
    <3> QED
      BY <1>t, <2>p, <3>3 DEF Located, TypeOK, Packets
  <2> QED
    BY <2>3, <2>4, <2>5
<1> QED
  BY <1>6, <1>7

LEMMA LocatedStep == TypeInv /\ LocatedInv /\ [Next]_vars => LocatedInv'
<1> SUFFICES ASSUME TypeInv, LocatedInv, [Next]_vars, NEW p \in Packets PROVE Located(p)'
  BY DEF LocatedInv
<1>t. TypeOK /\ Located(p)
  BY DEF TypeInv, LocatedInv
<1>a. ASSUME NEW t \in Thread \union {Timer}, NEW j, job' = [job EXCEPT ![t] = j],
             job[t].at # "push", j.at # "push"
      PROVE  InHand(p)' = InHand(p)
  BY <1>a, <1>t, SameHands
<1>b. job' = job => InHand(p)' = InHand(p)
  BY DEF InHand
<1>c. ASSUME UNCHANGED <<queue, next, fates>>, InHand(p)' = InHand(p) PROVE Located(p)'
  BY <1>c, <1>t, SameLocated
<1>1. ASSUME NEW t \in Thread, NEW n \in Node, Send(t, n) PROVE Located(p)'
  BY <1>1, SendLocated
<1>2. ASSUME NEW t \in Thread \union {Timer}, Push(t) PROVE Located(p)'
  BY <1>2, PushLocated
<1>3. ASSUME NEW t \in Thread \union {Timer}, Check(t) PROVE Located(p)'
  <2> DEFINE j == IF job[t].to \in known THEN Idle ELSE Doing("ask", job[t].to)
  <2>1. job[t].at # "push" /\ j.at # "push" /\ job' = [job EXCEPT ![t] = j]
    BY <1>3 DEF Check, Idle, Doing
  <2> HIDE DEF j
  <2> QED
    BY <1>3, <1>a, <1>c, <2>1 DEF Check
<1>4. ASSUME NEW t \in Thread, NEW a \in Address, NeedIdentity(t, a) PROVE Located(p)'
  <2>1. job[t].at # "push" /\ Doing("ask", a).at # "push"
    BY <1>4 DEF NeedIdentity, Idle, Doing
  <2> QED
    BY <1>4, <1>a, <1>c, <2>1 DEF NeedIdentity
<1>5. ASSUME NEW t \in Thread \union {Timer}, Ask(t) PROVE Located(p)'
  <2> DEFINE j == IF TooSoon(job[t].to) THEN Idle ELSE Doing("query", job[t].to)
  <2>1. job[t].at # "push" /\ j.at # "push" /\ job' = [job EXCEPT ![t] = j]
    BY <1>5 DEF Ask, Idle, Doing
  <2> HIDE DEF j
  <2> QED
    BY <1>5, <1>a, <1>c, <2>1 DEF Ask
<1>6. ASSUME NEW t \in Thread \union {Timer}, Query(t) PROVE Located(p)'
  BY <1>6, QueryLocated
<1>7. ASSUME NEW t \in Thread, NEW a \in Address, Answer(t, a) PROVE Located(p)'
  <2>1. job[t].at # "push" /\ Doing("erase", a).at # "push"
    BY <1>7 DEF Answer, Idle, Doing
  <2> QED
    BY <1>7, <1>a, <1>c, <2>1 DEF Answer
<1>8. ASSUME NEW t \in Thread \union {Timer}, Erase(t) PROVE Located(p)'
  <2>1. Doing("wake", job[t].to).at # "push"
    BY DEF Doing
  <2> QED
    BY <1>8, <1>a, <1>c, <2>1 DEF Erase
<1>9. ASSUME NEW t \in Thread \union {Timer}, Wake(t) PROVE Located(p)'
  <2> DEFINE goes == {i \in Sendable : queue[i].to = job[t].to}
  <2>0. job[t].at # "push" /\ Idle.at # "push" /\ job' = [job EXCEPT ![t] = Idle]
    BY <1>9 DEF Wake, Idle
  <2>1. InHand(p)' = InHand(p)
    BY <1>a, <2>0
  <2>2. goes \in SUBSET DOMAIN queue
    BY DEF Sendable
  <2>3. queue' = Left(DOMAIN queue \ goes) /\ Transmit(Bodies(goes))
        /\ UNCHANGED <<next, displaced, expired>>
    BY <1>9 DEF Wake
  <2>4. goes \union {} = goes /\ expired' = expired \union (Bodies({}) \intersect Packets)
    BY <2>3 DEF Bodies
  <2> HIDE DEF goes
  <2> QED
    BY <2>1, <2>2, <2>3, <2>4, ErasedLocated
<1>10. ASSUME TimerScan PROVE Located(p)'
  <2>1. Sendable \in SUBSET DOMAIN queue /\ TooOld \in SUBSET DOMAIN queue
        /\ Sendable \intersect TooOld = {}
    BY DEF Sendable, TooOld
  <2>2. /\ queue' = Left(DOMAIN queue \ (Sendable \union TooOld)) /\ Transmit(Bodies(Sendable))
        /\ expired' = expired \union (Bodies(TooOld) \intersect Packets)
        /\ UNCHANGED <<next, displaced, job>>
    BY <1>10 DEF TimerScan
  <2> QED
    BY <1>b, <2>1, <2>2, ErasedLocated
<1>11. ASSUME NEW a \in Address, TimerAsk(a) PROVE Located(p)'
  <2>1. job[Timer].at # "push" /\ Doing("ask", a).at # "push"
    BY <1>11 DEF TimerAsk, Idle, Doing
  <2> QED
    BY <1>11, <1>a, <1>c, <2>1 DEF TimerAsk
<1>12. ASSUME UNCHANGED <<queue, next, fates, job>> PROVE Located(p)'
  BY <1>12, <1>b, <1>c
<1>13. ASSUME Tick PROVE Located(p)'
  <2>1. Places(p)' = Places(p) /\ QueuedOnce(p)' = QueuedOnce(p)
    BY <1>13, <1>t, TickQueue DEF Places, QueuedOnce
  <2>2. InHand(p)' = InHand(p) /\ HeldOnce(p)' = HeldOnce(p)
    BY <1>13 DEF Tick, InHand, HeldOnce
  <2> QED
    BY <1>13, <1>t, <2>1, <2>2 DEF Tick, fates, Located, Somewhere, Unsent
<1> QED
  BY <1>1, <1>2, <1>3, <1>4, <1>5, <1>6, <1>7, <1>8, <1>9, <1>10, <1>11, <1>12, <1>13
  DEF Next, Step, vars, TimerEnd, Hello, Forget, Paths

LEMMA LocatedInit == Init => LocatedInv
<1> SUFFICES ASSUME Init, NEW p \in Packets PROVE Located(p)
  BY DEF LocatedInv
<1>1. p >= next /\ ~(p < next)
  BY DEF Init, Packets
<1>2. InHand(p) = {}
  BY JobFacts DEF Init, InHand
<1>3. Places(p) = {}
  BY DEF Init, Places
<1> QED
  BY <1>1, <1>2, <1>3 DEF Init, Located, Unsent

(* Every packet is in one place exactly: no answer, timer or thread sends  *)
(* one twice or loses one that was not displaced or given up.              *)
THEOREM SentExactlyOnce == Spec => []Accounted
<1>1. TypeInv /\ LocatedInv => Accounted
  BY LocatedAccounted DEF TypeInv
<1> QED
  BY <1>1, LocatedInit, LocatedStep, TypeAlways, PTL DEF Spec

----------------------------------------------------------------------------
(* What stays in the queue, and for how long.                              *)
LEMMA LeftOrder ==
    ASSUME TypeOK, NEW S \in SUBSET DOMAIN queue
    PROVE  \A k, m \in DOMAIN Left(S) : k < m => Place(S, k) < Place(S, m)
<1>1. DOMAIN queue = 1..Len(queue) /\ Len(queue) \in Nat
  BY DEF TypeOK
<1>2. S \in SUBSET Int /\ IsFiniteSet(S)
  <2>1. \A n \in Nat : IsFiniteSet(1..n)
    BY FS_Interval
  <2>2. IsFiniteSet(1..Len(queue)) /\ S \in SUBSET (1..Len(queue))
    BY <1>1, <2>1
  <2> QED
    BY <2>2, FS_Subset
<1>3. DOMAIN Left(S) = 1..Cardinality(S)
  BY LeftFacts
<1> QED
  BY <1>2, <1>3, KthPlace

(* The timer leaves nothing that is too old.                               *)
LEMMA ScanStep ==
    ASSUME TypeOK, TimerScan
    PROVE  \A k \in DOMAIN queue' : ~(queue'[k].age > TransmitTimeout)
<1> DEFINE K == DOMAIN queue \ (Sendable \union TooOld)
<1>1. queue' = Left(K) /\ K \in SUBSET DOMAIN queue
  BY DEF TimerScan
<1>2. \A k \in DOMAIN queue' : \E i \in K : queue'[k] = queue[i]
  BY <1>1, LeftFacts
<1> QED
  BY <1>2 DEF TooOld

(* The queue is in the order of age, so that who makes room in a full one  *)
(* is the oldest; and an entry is too old only until the timer runs.       *)
QueueInv ==
    /\ \A i, j \in DOMAIN queue : i < j => queue[i].age >= queue[j].age
    /\ \A i \in DOMAIN queue : queue[i].age > TransmitTimeout => checked > 0

LEMMA PushAges ==
    ASSUME TypeInv, QueueInv, NEW t \in Thread \union {Timer}, Push(t)
    PROVE  QueueInv'
<1>1. PICK d \in {0, 1}, n \in Nat :
              /\ n = Len(queue) - d
              /\ DOMAIN queue' = 1..n + 1 /\ DOMAIN queue = 1..Len(queue)
              /\ queue'[n + 1].to = job[t].to /\ queue'[n + 1].body = job[t].body
              /\ queue'[n + 1].age = 0
              /\ \A i \in 1..n : i + d \in DOMAIN queue /\ queue'[i] = queue[i + d]
  BY PushStep
<1>2. \A i \in DOMAIN queue : queue[i].age \in Nat
  <2>1. \A i \in DOMAIN queue : queue[i] \in Entry
    BY DEF TypeInv, TypeOK
  <2> QED
    BY <2>1 DEF Entry
<1>3. checked' = checked
  BY DEF Push, timer
<1>4. ASSUME NEW i \in DOMAIN queue', NEW j \in DOMAIN queue', i < j
      PROVE  queue'[i].age >= queue'[j].age
  <2>0. i \in 1..n
    BY <1>1, <1>4
  <2>1. i + d \in DOMAIN queue /\ queue'[i] = queue[i + d]
    BY <1>1, <2>0
  <2>2. CASE j = n + 1
    BY <1>1, <1>2, <2>1, <2>2
  <2>3. CASE j \in 1..n
    <3>1. j + d \in DOMAIN queue /\ queue'[j] = queue[j + d]
      BY <1>1, <2>3
    <3>2. i \in Int /\ j \in Int /\ d \in Int
      BY <2>0, <2>3
    <3>3. i + d < j + d
      BY <1>4, <3>2
    <3> QED
      BY <2>1, <3>1, <3>3 DEF QueueInv
  <2> QED
    BY <1>1, <2>2, <2>3
<1>5. ASSUME NEW i \in DOMAIN queue', queue'[i].age > TransmitTimeout
      PROVE  checked' > 0
  <2>1. i # n + 1
    BY <1>1, <1>5
  <2>2. i \in 1..n
    BY <1>1, <2>1
  <2>3. i + d \in DOMAIN queue /\ queue'[i] = queue[i + d]
    BY <1>1, <2>2
  <2> QED
    BY <1>3, <1>5, <2>3 DEF QueueInv
<1> QED
  BY <1>4, <1>5 DEF QueueInv

LEMMA LeftAges ==
    ASSUME TypeOK, QueueInv, NEW S, queue' = Left(DOMAIN queue \ S),
           checked' = checked \/ \A k \in DOMAIN queue' : ~(queue'[k].age > TransmitTimeout)
    PROVE  QueueInv'
<1> DEFINE K == DOMAIN queue \ S
<1>1. K \in SUBSET DOMAIN queue
  OBVIOUS
<1>2. /\ \A k \in DOMAIN queue' : queue'[k] = queue[Place(K, k)] /\ Place(K, k) \in DOMAIN queue
      /\ \A k, m \in DOMAIN queue' : k < m => Place(K, k) < Place(K, m)
  BY <1>1, LeftFacts, LeftOrder
<1>3. ASSUME NEW k \in DOMAIN queue', queue'[k].age > TransmitTimeout
      PROVE  checked' > 0
  <2>1. checked > 0
    BY <1>2, <1>3 DEF QueueInv
  <2>2. checked' = checked
    BY <1>3
  <2> QED
    BY <2>1, <2>2
<1> QED
  BY <1>2, <1>3 DEF QueueInv

LEMMA TickAges ==
    ASSUME TypeOK, QueueInv, Tick
    PROVE  QueueInv'
<1>1. /\ DOMAIN queue' = DOMAIN queue
      /\ \A i \in DOMAIN queue :
            /\ queue[i].age \in 0..TransmitTimeout + 1
            /\ queue'[i].age = Older(queue[i].age, TransmitTimeout + 1)
  <2>1. \A i \in DOMAIN queue : queue[i] \in Entry
    BY DEF TypeOK
  <2>2. queue' = [i \in DOMAIN queue |->
                     [queue[i] EXCEPT !.age = Older(queue[i].age, TransmitTimeout + 1)]]
    BY DEF Tick
  <2> QED
    BY <2>1, <2>2 DEF Entry
<1>2. checked' > 0
  BY DEF Tick, Older, TypeOK, LateCheck
<1>3. ASSUME NEW i \in DOMAIN queue, NEW j \in DOMAIN queue, queue[i].age >= queue[j].age
      PROVE  queue'[i].age >= queue'[j].age
  BY <1>1, <1>3 DEF Older
<1> QED
  BY <1>1, <1>2, <1>3 DEF QueueInv

LEMMA QueueStep == TypeInv /\ QueueInv /\ [Next]_vars => QueueInv'
<1> SUFFICES ASSUME TypeInv, QueueInv, [Next]_vars PROVE QueueInv'
  OBVIOUS
<1>t. TypeOK
  BY DEF TypeInv
<1>1. ASSUME UNCHANGED <<queue, checked>> PROVE QueueInv'
  BY <1>1 DEF QueueInv
<1>2. ASSUME NEW t \in Thread \union {Timer}, Push(t) PROVE QueueInv'
  BY <1>2, PushAges
<1>3. ASSUME NEW t \in Thread \union {Timer}, Wake(t) PROVE QueueInv'
  <2> DEFINE goes == {i \in Sendable : queue[i].to = job[t].to}
  <2>1. queue' = Left(DOMAIN queue \ goes) /\ checked' = checked
    BY <1>3 DEF Wake, timer
  <2> QED
    BY <1>t, <2>1, LeftAges
<1>4. CASE TimerScan
  <2>1. queue' = Left(DOMAIN queue \ (Sendable \union TooOld))
    BY <1>4 DEF TimerScan
  <2> QED
    BY <1>4, <1>t, <2>1, ScanStep, LeftAges
<1>5. CASE Tick
  BY <1>5, <1>t, TickAges
<1> QED
  BY <1>1, <1>2, <1>3, <1>4, <1>5
  DEF Next, Step, vars, timer, Send, NeedIdentity, Answer, Check, Ask, Query, Erase, TimerAsk,
      TimerEnd, Hello, Forget, Paths

(* Only the oldest entry is displaced, and nothing is kept beyond          *)
(* ZT_TRANSMIT_QUEUE_TIMEOUT once the timer has run (send, doTimerTasks).  *)
THEOREM QueueInOrder == Spec => []QueueInv
<1>1. Init => QueueInv
  BY DEF Init, QueueInv
<1> QED
  BY <1>1, QueueStep, TypeAlways, PTL DEF Spec

----------------------------------------------------------------------------
(* A node is asked about again within ZT_WHOIS_RETRY_DELAY only if an      *)
(* answer came in between.                                                 *)
AskedAgain(a) ==
    \E t \in Thread \union {Timer} :
        job[t].at = "ask" /\ job[t].to = a /\ job'[t].at = "query"

Erased(a) == \E t \in Thread \union {Timer} : Erase(t) /\ job[t].to = a

WhoisLimit(a) ==
    /\ AskedAgain(a) /\ sinceAsked[a] < RetryDelay => whois[a] = Never
    /\ whois[a] # Never /\ whois'[a] = Never /\ sinceAsked[a] < RetryDelay => Erased(a)

WhoisLimited == [][\A a \in Address : WhoisLimit(a)]_vars

(* The time that is remembered is not after the last WHOIS.                *)
RememberedInv == \A a \in Address : whois[a] # Never => whois[a] <= sinceAsked[a]

LEMMA RememberedStep == TypeInv /\ RememberedInv /\ [Next]_vars => RememberedInv'
<1> SUFFICES ASSUME TypeInv, RememberedInv, [Next]_vars PROVE RememberedInv'
  OBVIOUS
<1>t. TypeOK
  BY DEF TypeInv
<1> USE DEF topology, timer, fates
<1>1. ASSUME UNCHANGED <<whois, sinceAsked>> PROVE RememberedInv'
  BY <1>1 DEF RememberedInv
<1>2. ASSUME NEW t \in Thread \union {Timer}, Ask(t) PROVE RememberedInv'
  <2>1. CASE TooSoon(job[t].to)
    BY <1>1, <1>2, <2>1 DEF Ask
  <2>2. CASE ~TooSoon(job[t].to)
    <3>1. /\ whois' = [whois EXCEPT ![job[t].to] = 0]
          /\ sinceAsked' = [sinceAsked EXCEPT ![job[t].to] = 0]
      BY <1>2, <2>2 DEF Ask
    <3>2. \A a \in Address : \/ whois'[a] = whois[a] /\ sinceAsked'[a] = sinceAsked[a]
                             \/ whois'[a] = 0 /\ sinceAsked'[a] = 0
      BY <1>t, <3>1 DEF TypeOK
    <3> QED
      BY <3>2 DEF RememberedInv
  <2> QED
    BY <2>1, <2>2
<1>3. ASSUME sinceAsked' = sinceAsked,
             \A a \in Address : whois'[a] = whois[a] \/ whois'[a] = Never
      PROVE  RememberedInv'
  BY <1>3 DEF RememberedInv
<1>4. ASSUME NEW t \in Thread \union {Timer}, Erase(t) PROVE RememberedInv'
  <2>1. \A a \in Address : whois'[a] = whois[a] \/ whois'[a] = Never
    BY <1>4, <1>t DEF Erase, TypeOK
  <2> QED
    BY <1>3, <1>4, <2>1 DEF Erase
<1>5. ASSUME TimerEnd PROVE RememberedInv'
  <2>1. \A a \in Address : whois'[a] = whois[a] \/ whois'[a] = Never
    BY <1>5 DEF TimerEnd
  <2> QED
    BY <1>3, <1>5, <2>1 DEF TimerEnd
<1>6. ASSUME Tick PROVE RememberedInv'
  <2> SUFFICES ASSUME NEW a \in Address, whois'[a] # Never
               PROVE  whois'[a] <= sinceAsked'[a]
    BY DEF RememberedInv
  <2> DEFINE most == 2 * RetryDelay + 1
  <2>1. most \in Nat /\ LongAgo \in Nat /\ most <= LongAgo
    BY DEF LongAgo, LateCheck
  <2>2. whois[a] # Never /\ whois'[a] = Older(whois[a], most)
        /\ sinceAsked'[a] = Older(sinceAsked[a], LongAgo)
    BY <1>6 DEF Tick
  <2>3. whois[a] \in 0..most /\ sinceAsked[a] \in 0..LongAgo /\ whois[a] <= sinceAsked[a]
    BY <1>t, <2>2 DEF TypeOK, RememberedInv
  <2> HIDE DEF most
  <2> QED
    BY <2>1, <2>2, <2>3 DEF Older
<1> QED
  BY <1>1, <1>2, <1>4, <1>5, <1>6
  DEF Next, Step, vars, Send, NeedIdentity, Answer, Push, Check, Query, Wake, TimerAsk,
      Hello, Forget, TimerScan, Paths

LEMMA LimitStep ==
    ASSUME TypeInv, RememberedInv, [Next]_vars, NEW a \in Address
    PROVE  WhoisLimit(a)
<1>t. TypeOK /\ JobInv
  BY DEF TypeInv
<1>w. whois[a] # Never => whois[a] \in Nat /\ sinceAsked[a] \in Nat /\ whois[a] <= sinceAsked[a]
  BY <1>t DEF TypeOK, RememberedInv, LongAgo, LateCheck
<1>1. ASSUME NEW t \in Thread \union {Timer}, job[t].at = "ask", job[t].to = a, job'[t].at = "query",
             whois[a] # Never
      PROVE  ~(sinceAsked[a] < RetryDelay)
  <2>1. whois[a] >= RetryDelay
    <3>1. job \in [Thread \union {Timer} -> Job] /\ job'[t] # job[t] /\ job[t] # Idle
      BY <1>1, <1>t, JobFacts DEF TypeOK
    <3>2. ASSUME NEW u, NEW j, job' = [job EXCEPT ![u] = j] PROVE u = t
      BY <3>1, <3>2
    <3>3. Ask(t)
      <4>1. ASSUME NEW u \in Thread \union {Timer},
                   \/ \E n \in Node : Send(u, n)
                   \/ \E b \in Address : NeedIdentity(u, b) \/ Answer(u, b)
            PROVE  FALSE
        <5>1. job[u] = Idle
          BY <4>1 DEF Send, NeedIdentity, Answer
        <5>2. \E j : job' = [job EXCEPT ![u] = j]
          BY <4>1, TryOrPushJob DEF Send, NeedIdentity, Answer
        <5> QED
          BY <3>1, <3>2, <5>1, <5>2
      <4>2. ASSUME NEW u \in Thread \union {Timer}, Step(u)
            PROVE  u = t
        <5>1. \E j : job' = [job EXCEPT ![u] = j]
          <6>1. ASSUME Query(u) PROVE \E j : job' = [job EXCEPT ![u] = j]
            BY <6>1, TryOrPushJob DEF Query
          <6>2. ASSUME Ask(u) PROVE \E j : job' = [job EXCEPT ![u] = j]
            BY <6>2 DEF Ask
          <6> QED
            BY <4>2, <6>1, <6>2 DEF Step, Push, Check, Erase, Wake
        <5> QED
          BY <3>2, <5>1
      <4>3. ASSUME NEW b \in Address, TimerAsk(b) PROVE FALSE
        <5>1. job[Timer] = Idle /\ \E j : job' = [job EXCEPT ![Timer] = j]
          BY <4>3 DEF TimerAsk
        <5> QED
          BY <3>1, <3>2, <5>1
      <4>4. \E u \in Thread \union {Timer} : Step(u)
        BY <3>1, <4>1, <4>3 DEF Next, vars, Hello, Forget, TimerScan, TimerEnd, Paths, Tick
      <4> QED
        BY <1>1, <4>2, <4>4 DEF Step, Push, Check, Query, Erase, Wake
    <3>4. ~TooSoon(a)
      <4>1. ASSUME TooSoon(a) PROVE FALSE
        <5>1. job' = [job EXCEPT ![t] = Idle]
          BY <1>1, <3>3, <4>1 DEF Ask
        <5>2. job'[t].at = "idle"
          BY <3>1, <5>1, JobFacts
        <5> QED
          BY <1>1, <5>2
      <4> QED
        BY <4>1
    <3> QED
      BY <1>1, <1>w, <3>4 DEF TooSoon
  <2> QED
    BY <1>1, <1>w, <2>1
<1>2. ASSUME whois[a] # Never, whois'[a] = Never, sinceAsked[a] < RetryDelay
      PROVE  Erased(a)
  <2>1. whois[a] \in Nat /\ ~Stale(a) /\ 0 # Never /\ whois \in [Address -> Int]
    BY <1>2, <1>t, <1>w DEF Stale, Never, TypeOK
  <2>2. ~TimerEnd
    BY <1>2, <2>1 DEF TimerEnd
  <2>3. ~Tick
    <3>1. ASSUME Tick PROVE FALSE
      <4>1. whois'[a] = Older(whois[a], 2 * RetryDelay + 1)
        BY <1>2, <3>1 DEF Tick
      <4> QED
        BY <1>2, <2>1, <4>1 DEF Older, Never
    <3> QED
      BY <3>1
  <2>4. ASSUME NEW t \in Thread \union {Timer}, Ask(t) PROVE FALSE
    BY <1>2, <2>1, <2>4 DEF Ask
  <2>5. \E t \in Thread \union {Timer} : Erase(t)
    BY <1>2, <2>2, <2>3, <2>4
    DEF Next, Step, vars, Send, NeedIdentity, Answer, Push, Check, Query, Wake, TimerAsk,
        Hello, Forget, TimerScan, Paths
  <2>6. ASSUME NEW t \in Thread \union {Timer}, Erase(t) PROVE job[t].to = a
    BY <1>2, <2>1, <2>6 DEF Erase
  <2> QED
    BY <2>5, <2>6 DEF Erased
<1> QED
  BY <1>1, <1>2 DEF WhoisLimit, AskedAgain

(* WHOIS requests for a node are a delay apart, from whatever threads they *)
(* come, unless the node was answered for and asked about once more        *)
(* (requestWhois, doAnythingWaitingForPeer).                               *)
THEOREM WhoisRateLimited == Spec => WhoisLimited
<1>1. Init => RememberedInv
  BY DEF Init, RememberedInv
<1>2. TypeInv /\ RememberedInv /\ [Next]_vars => [\A a \in Address : WhoisLimit(a)]_vars
  BY LimitStep
<1> QED
  BY <1>1, <1>2, RememberedStep, TypeAlways, PTL DEF Spec, WhoisLimited
=============================================================================
