------------------------------ MODULE PeerPaths ------------------------------
(***************************************************************************)
(* The paths of one peer (src/generator/node/Peer.cpp): learned from       *)
(* answers, refreshed by what comes in, replaced by a redirect of a        *)
(* cluster, reset when the outside of this node changes, and cleaned by    *)
(* the periodic keepalive.                                                 *)
(*                                                                         *)
(* Every function holds the lock of the paths, but Peer::received takes it *)
(* twice: once to see if the path is known and once to enter it.           *)
(*                                                                         *)
(* The unit of time is the period of the heartbeats, in which the periodic *)
(* tasks run once or more often. Only paths that may be used are modelled  *)
(* (shouldUsePathForZeroTierTraffic), and one local socket.                *)
(***************************************************************************)
EXTENDS Naturals, FiniteSets

CONSTANTS
    Path,           \* a socket and an address
    HostOf,         \* the address without its port
    Scopes,         \* the paths of each family and scope of addresses
    Thread,
    Steady,         \* paths on which the peer is heard in every unit of time
    MaxPaths,       \* ZT_MAX_PEER_NETWORK_PATHS
    Expiration,     \* ZT_PEER_PATH_EXPIRATION
    MaxPriority,    \* bound: no further redirect
    NoPath

ASSUME PathsAssumption ==
    /\ NoPath \notin Path /\ Steady \subseteq Path
    /\ Scopes \subseteq SUBSET Path
    /\ MaxPaths \in Nat \ {0} /\ Expiration \in Nat \ {0}
    /\ MaxPriority \in Nat \ {0}

VARIABLES
    slots,          \* _paths
    age,            \* time since anything came in on a path (Path::_lastIn)
    bond,           \* there is a bond
    asked,          \* paths with a HELLO or ECHO that may still be answered
    learning,       \* threads of received between the two holds of the lock
    due             \* the periodic tasks have not run in this unit of time

vars == <<slots, age, bond, asked, learning, due>>

Slot == 1..MaxPaths
PeerPath == [path : Path \union {NoPath}, lr : 0..Expiration, priority : 1..MaxPriority]
Free == [path |-> NoPath, lr |-> Expiration, priority |-> 1]

Taken == {i \in Slot : slots[i].path # NoPath}

TypeOK ==
    /\ slots \in [Slot -> PeerPath]
    /\ age \in [Path -> 0..Expiration]
    /\ bond \in BOOLEAN
    /\ asked \subseteq Path
    /\ learning \in [Thread -> Path \union {NoPath}]
    /\ due \in BOOLEAN

Init ==
    /\ slots = [i \in Slot |-> Free]
    /\ age = [p \in Path |-> Expiration]
    /\ bond = FALSE
    /\ asked = {}
    /\ learning = [t \in Thread |-> NoPath]
    /\ due = TRUE

----------------------------------------------------------------------------
(* Something came in, in this unit of time.                                *)
Alive(p) == age[p] = 0
Near(p, q) == HostOf[p] = HostOf[q]
First(set) == {i \in set : \A j \in set : i <= j}

(* The loop over the paths ends at the path itself, at one of the same     *)
(* host that is alive, unless there is a bond, and at a free slot.         *)
Ends(p) == {i \in Slot : \/ slots[i].path \in {p, NoPath}
                         \/ Near(slots[i].path, p) /\ Alive(slots[i].path) /\ ~bond}
HavePath(p) == \E i \in First(Ends(p)) : i \in Taken

(* Mutant: the loop does not end at the path.                              *)
Refreshed_All(p) ==
    [i \in Slot |-> IF slots[i].path = p THEN [slots[i] EXCEPT !.lr = 0] ELSE slots[i]]

Refreshed(p) ==
    [i \in Slot |-> IF slots[i].path = p /\ i \in First(Ends(p))
                    THEN [slots[i] EXCEPT !.lr = 0] ELSE slots[i]]

(* A packet that came without a relay and is no answer: a path that is not *)
(* known is asked. (A second packet within a second asks no more.)         *)
Receive(p) ==
    /\ age' = [age EXCEPT ![p] = 0]
    /\ slots' = Refreshed(p)
    /\ asked' = IF HavePath(p) THEN asked ELSE asked \union {p}
    /\ UNCHANGED <<bond, learning, due>>

(* An answer on a path that is not known: it is learned next.              *)
ReceiveOK(t, p) ==
    /\ p \in asked /\ asked' = asked \ {p}
    /\ learning[t] = NoPath
    /\ age' = [age EXCEPT ![p] = 0]
    /\ slots' = Refreshed(p)
    /\ learning' = [learning EXCEPT ![t] = IF HavePath(p) THEN NoPath ELSE p]
    /\ UNCHANGED <<bond, due>>

(* The slot for a new path: the first that is free or of the same host and *)
(* not alive, else that of the oldest path, if not all are of this moment. *)
Candidates(p) == {i \in Slot : i \in Taken => Near(slots[i].path, p) /\ ~Alive(slots[i].path)}
Oldest == {i \in Slot : /\ age[slots[i].path] > 0
                        /\ \A j \in Slot : age[slots[j].path] <= age[slots[i].path]}
ReplacePath(p) == IF Candidates(p) # {} THEN First(Candidates(p)) ELSE First(Oldest)

(* Mutant: the priority of a new entry is left at zero.                    *)
Entered_Zero(p, n) == [path |-> p, lr |-> 0, priority |-> IF n = 1 THEN 0 ELSE n]

Entered(p, n) == [path |-> p, lr |-> 0, priority |-> n]

Learn(t) ==
    /\ learning[t] # NoPath
    /\ slots' = [i \in Slot |-> IF i \in ReplacePath(learning[t])
                                THEN Entered(learning[t], 1) ELSE slots[i]]
    /\ learning' = [learning EXCEPT ![t] = NoPath]
    /\ UNCHANGED <<age, bond, asked, due>>

(* Packets of others come in on the same path, or through a relay. (On a   *)
(* steady path the peer itself is heard, in every unit of time.)           *)
Overhear(p) ==
    /\ p \notin Steady
    /\ age' = [age EXCEPT ![p] = 0]
    /\ UNCHANGED <<slots, bond, asked, learning, due>>

(* attemptToContactAt an address that was pushed, memorized or cached.     *)
Contact(p) ==
    /\ asked' = asked \union {p}
    /\ UNCHANGED <<slots, age, bond, learning, due>>

----------------------------------------------------------------------------
Expired(n) == n.lr = Expiration
Highest(i) == \A j \in Taken : slots[j].priority <= slots[i].priority

(* Mutant: a path of the highest priority does not expire.                 *)
Cleaned_Priority == {i \in Taken : ~Highest(i)}

(* Clean expired and reduced priority paths.                               *)
Cleaned == {i \in Taken : Expired(slots[i]) \/ ~Highest(i)}

(* Mutant: the slots behind are not moved up.                              *)
Without_Gap(d) == [i \in Slot |-> IF i = d THEN Free ELSE slots[i]]

(* The paths behind a deleted one are moved up, and not looked at again.   *)
Without(d) ==
    [i \in Slot |-> IF i < d THEN slots[i] ELSE IF i < MaxPaths THEN slots[i + 1] ELSE Free]

(* performMultipathStateCheck, while the user may turn bonding on or off.  *)
BondAfter ==
    LET alive == \E i \in Taken : Alive(slots[i].path)
        fresh == \E i \in Taken : ~Expired(slots[i])
    IN  IF bond THEN {alive \/ fresh} ELSE {FALSE, alive}

(* doPingAndKeepalive: those it looked at are asked, when they are due.    *)
DoPingAndKeepalive ==
    /\ due' = FALSE
    /\ bond' \in BondAfter
    /\ IF Cleaned = {}
       THEN /\ asked' \in {asked \union {slots[i].path : i \in s} : s \in SUBSET Taken}
            /\ UNCHANGED slots
       ELSE \E d \in First(Cleaned) :
                /\ slots' = Without(d)
                /\ asked' \in {asked \union {slots[i].path : i \in s} : s \in SUBSET (1..(d - 1))}
    /\ UNCHANGED <<age, learning>>

----------------------------------------------------------------------------
(* clusterRedirect: paths of a lower priority and of the same host go, the *)
(* others are moved up, and the new path comes last.                       *)
NewPriority(origin) ==
    LET known == First({i \in Taken : slots[i].path = origin})
    IN  2 + IF known = {} THEN 1 ELSE slots[CHOOSE i \in known : TRUE].priority

Redirect(origin, p) ==
    /\ NewPriority(origin) <= MaxPriority
    /\ LET kept == {i \in Taken : /\ slots[i].priority >= NewPriority(origin)
                                  /\ ~Near(slots[i].path, p)}
           n == Cardinality(kept)
       IN  \E moved \in [1..n -> kept] :
              /\ \A i, j \in 1..n : i < j => moved[i] < moved[j]
              /\ slots' = [i \in Slot |->
                    IF i <= n THEN slots[moved[i]]
                    ELSE IF i = n + 1 THEN Entered(p, NewPriority(origin))
                    ELSE Free]
    /\ asked' = asked \union {p}
    /\ UNCHANGED <<age, bond, learning, due>>

(* resetWithinScope: the paths are asked and count as long silent.         *)
ResetWithinScope(scope) ==
    LET hit == {i \in Taken : slots[i].path \in scope}
    IN  /\ slots' = [i \in Slot |-> IF i \in hit THEN [slots[i] EXCEPT !.lr = Expiration]
                                    ELSE slots[i]]
        /\ asked' = asked \union {slots[i].path : i \in hit}
        /\ UNCHANGED <<age, bond, learning, due>>

Older(a) == IF a < Expiration THEN a + 1 ELSE a

Tick ==
    /\ ~due /\ due' = TRUE
    /\ \A p \in Steady : Alive(p)
    /\ age' = [p \in Path |-> Older(age[p])]
    /\ slots' = [i \in Slot |-> [slots[i] EXCEPT !.lr = Older(@)]]
    /\ UNCHANGED <<bond, asked, learning>>

Next ==
    \/ \E p \in Path : Receive(p) \/ Overhear(p) \/ Contact(p)
    \/ \E t \in Thread : Learn(t) \/ \E p \in Path : ReceiveOK(t, p)
    \/ \E p, origin \in Path : Redirect(origin, p)
    \/ \E scope \in Scopes : ResetWithinScope(scope)
    \/ DoPingAndKeepalive
    \/ Tick

Spec == Init /\ [][Next]_vars

(* Time passes, the background tasks run, threads go on; packets and       *)
(* answers keep coming on the steady paths.                                *)
Fairness ==
    /\ WF_vars(Tick) /\ WF_vars(due /\ DoPingAndKeepalive)
    /\ \A t \in Thread : WF_vars(Learn(t))
    /\ \A p \in Steady : /\ WF_vars(Receive(p))
                         /\ SF_vars(\E t \in Thread : ReceiveOK(t, p))
FairSpec == Spec /\ Fairness

----------------------------------------------------------------------------
(* The paths are in the first slots: every loop over them but one ends at  *)
(* the first free slot.                                                    *)
Packed == \A i, j \in Slot : i < j /\ j \in Taken => i \in Taken

(* A path that two threads learned at once has two slots, of which only    *)
(* the first is refreshed: the other expires, unless it is learned like    *)
(* that again (Peer::received, doPingAndKeepalive).                        *)
Doubled(p) == \E i, j \in Taken : i # j /\ slots[i].path = p /\ slots[j].path = p
LearnAgain == \E t \in Thread : Learn(t) /\ \E i \in Taken : slots[i].path = learning[t]
DoublesHeal ==
    []<><<LearnAgain>>_vars \/ \A p \in Path : []<>~Doubled(p)

(* A path on which the peer keeps sending and answering is learned and     *)
(* kept in the end, also after a redirect to where nobody is: unless there *)
(* are redirects and resets for ever, or the peer is heard where it        *)
(* redirected to (received, clusterRedirect, doPingAndKeepalive).          *)
Disturb == \/ \E p, origin \in Path : Redirect(origin, p)
           \/ \E scope \in Scopes : ResetWithinScope(scope)
           \/ LearnAgain
Redirected == \E i \in Taken : slots[i].priority > 1 /\ slots[i].lr = 0
Reconnects ==
    \/ []<><<Disturb>>_vars
    \/ []<>Redirected
    \/ \A p \in Steady : <>[](\E i \in Taken : slots[i].path = p)
=============================================================================
