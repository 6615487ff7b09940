------------------------- MODULE MulticastDelivery -------------------------
(***************************************************************************)
(* What Multicaster promises of the multicasts a node sends: each is sent  *)
(* to a first set of recipients and, as long as it is open, to further     *)
(* ones as they become known, to nobody twice and to no more than its      *)
(* limit.  Who the recipients are, and when a multicast is given up, is    *)
(* left to the implementation.  A limit of 0 turns multicast off for those *)
(* who ask later: a multicast that was let in before may go out once.      *)
(***************************************************************************)
EXTENDS Naturals, FiniteSets

CONSTANTS
    Address,        \* other nodes
    MaxMulticasts   \* bound of the model: multicasts sent

Multicasts == 1..MaxMulticasts

VARIABLES
    next,           \* number of the next multicast
    limit,          \* limit[m]: how many copies of m may be sent
    open,           \* multicasts that may still be sent
    copies          \* copies[m][a]: how often m was sent to a

vars == <<next, limit, open, copies>>

Recipients(m) == {a \in Address : copies[m][a] > 0}

Init ==
    /\ next = 1
    /\ limit = [m \in Multicasts |-> 0]
    /\ open = {}
    /\ copies = [m \in Multicasts |-> [a \in Address |-> 0]]

(* A multicast is sent to the recipients R; others may be given up for it. *)
Start(R) ==
    /\ next \in Multicasts
    /\ next' = next + 1
    /\ limit'[next] \in Nat
    /\ limit' = [limit EXCEPT ![next] = limit'[next]]
    /\ \/ Cardinality(R) <= limit'[next]
       \/ limit'[next] = 0 /\ Cardinality(R) = 1
    /\ copies' = [copies EXCEPT ![next] = [a \in Address |-> IF a \in R THEN 1 ELSE 0]]
    /\ open' \subseteq open \union {next}

(* Some of the open multicasts are sent to one more address.               *)
Continue(M, a) ==
    /\ \A m \in M : copies[m][a] = 0 /\ Cardinality(Recipients(m)) < limit[m]
    /\ copies' = [m \in Multicasts |->
            IF m \in M THEN [copies[m] EXCEPT ![a] = 1] ELSE copies[m]]
    /\ open' \subseteq open
    /\ UNCHANGED <<next, limit>>

GiveUp ==
    /\ open' \subseteq open
    /\ UNCHANGED <<next, limit, copies>>

Next ==
    \/ \E R \in SUBSET Address : Start(R)
    \/ \E M \in SUBSET open, a \in Address : Continue(M, a)
    \/ GiveUp

Spec == Init /\ [][Next]_vars
=============================================================================
