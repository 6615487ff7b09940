----------------------------- MODULE BondPaths -----------------------------
(***************************************************************************)
(* The paths of a bond (src/generator/node/Bond.cpp, Bond.hpp): the links  *)
(* they are on, how they are nominated, and what curateBond makes of them. *)
(*                                                                         *)
(* What packets show of a path is an input of curateBond: the paths that   *)
(* are "fit" have an acceptable age and quality and have been up for long  *)
(* enough, the paths that are "alive" were heard of lately.                *)
(***************************************************************************)
EXTENDS Naturals, FiniteSets, Sequences

CONSTANTS
    Path,
    Link,           \* interfaces, numbered in the order of their Link objects
    LinkOf,         \* interface of a path's socket
    Family,         \* 4 or 6
    Setups,         \* what the user may have configured
    MaxPaths,       \* ZT_MAX_PEER_NETWORK_PATHS
    Trial,          \* ZT_BOND_OPTIMIZE_INTERVAL
    Expired,        \* ZT_PEER_EXPIRED_PATH_TRIAL_PERIOD
    NoPath,
    NoLink

ASSUME PathsAssumption ==
    /\ Link \subseteq Nat /\ NoPath \notin Path /\ NoLink \notin Link
    /\ LinkOf \in [Path -> Link] /\ Family \in [Path -> {4, 6}]
    /\ MaxPaths \in Nat \ {0} /\ Trial \in Nat /\ Expired \in Nat

(* links: those the user specified, none if the bond is automatic; pref:   *)
(* the preference for a family of addresses.                               *)
Setup == [policy : {"ACTIVE_BACKUP", "BALANCE_XOR"},
          select : {"ALWAYS", "BETTER", "FAILURE", "OPTIMIZE"},
          links : SUBSET Link, spare : SUBSET Link, pref : [Link -> {0, 4, 6, 46, 64}]]
ASSUME SetupsAssumption ==
    Setups \subseteq {u \in Setup : u.spare \subseteq u.links}

VARIABLES
    setup,
    slots,          \* _paths
    lost,           \* paths of sockets of which the binder knows no interface
    nameless,       \* there is a Link for sockets of no interface
    numBonded       \* _numBondedPaths

pathVars == <<setup, slots, lost, nameless, numBonded>>

Slot == 1..MaxPaths
NoSlot == MaxPaths + 1

(* A NominatedPath; ages are those of whenNominated and lastEligibility.   *)
Nominated == [path : Path \union {NoPath}, nominated : 0..Trial, lapsed : 0..Expired + 1,
              eligible : BOOLEAN, bonded : BOOLEAN, only : BOOLEAN]
Free == [path |-> NoPath, nominated |-> Trial, lapsed |-> Expired + 1,
         eligible |-> TRUE, bonded |-> FALSE, only |-> FALSE]

Taken(s) == {i \in Slot : s[i].path # NoPath}
Present(s) == {s[i].path : i \in Taken(s)}

PathsTypeOK ==
    /\ setup \in Setups
    /\ slots \in [Slot -> Nominated]
    /\ lost \subseteq Present(slots) /\ nameless \in BOOLEAN
    /\ numBonded \in 0..MaxPaths

PathsInit ==
    /\ setup \in Setups
    /\ slots = [i \in Slot |-> Free]
    /\ lost = {} /\ nameless = FALSE
    /\ numBonded = 0

----------------------------------------------------------------------------
(* getLink: sockets of no interface share one Link once there is one.      *)
HasLink(path, anon) == path \notin lost \/ anon

IsSpare(path) == LinkOf[path] \in setup.spare
OnPrimary(path) == path \in lost \/ ~IsSpare(path)

Allowed(path) ==
    LET pref == setup.pref[LinkOf[path]]
    IN  pref = 0 \/ pref \in {46, 64} \/ pref = Family[path]

Preferred(n) ==
    LET pref == setup.pref[LinkOf[n.path]]
    IN  n.only \/ pref \in (IF Family[n.path] = 4 THEN {4, 46} ELSE {6, 64})

LinkAllowed(path) == setup.links = {} \/ LinkOf[path] \in setup.links

(* What nominatePathToBond puts into the slots before they are curated.    *)
WithNominee(path) ==
    LET others == {j \in Taken(slots) : slots[j].path \notin lost /\ LinkOf[slots[j].path] = LinkOf[path]}
        free == Slot \ Taken(slots)
        first == CHOOSE i \in free : \A j \in free : i <= j
    IN  IF path \in Present(slots) \/ free = {} THEN slots
        ELSE [i \in Slot |->
                IF i = first
                THEN [Free EXCEPT !.path = path, !.nominated = 0, !.only = others = {}]
                ELSE [slots[i] EXCEPT !.only = @ /\ i \notin others]]

(* While it looks for paths on the same link it makes a Link for sockets   *)
(* that have none.                                                         *)
NamelessAfter(path) ==
    \/ nameless
    \/ /\ WithNominee(path) # slots
       /\ lost # {}

----------------------------------------------------------------------------
InTrial(n) == n.nominated < Trial

EligibleNow(n, fit) == Allowed(n.path) /\ (n.path \in fit \/ InTrial(n))

(* Its link is gone, or it has not been eligible for long.                 *)
Removed(n, anon) ==
    \/ ~HasLink(n.path, anon)
    \/ n.lapsed > Expired /\ ~InTrial(n)

(* The first loop of curateBond, which is the same for all policies.       *)
Curated(s, fit, anon) ==
    [i \in Slot |->
        IF i \notin Taken(s) \/ Removed(s[i], anon) THEN Free
        ELSE LET now == EligibleNow(s[i], fit)
             IN  [s[i] EXCEPT !.eligible = now,
                              !.lapsed = IF now THEN 0 ELSE @,
                              !.bonded = @ /\ (now \/ ~s[i].eligible)]]

(* It notes that a path became eligible, or that a bonded one no longer is. *)
Changed(s, fit, anon) ==
    \E i \in Taken(Curated(s, fit, anon)) :
        LET now == EligibleNow(s[i], fit)
        IN  (now /\ ~s[i].eligible) \/ (~now /\ s[i].eligible /\ s[i].bonded)

(* A bonded path is alive: no spare is needed.                             *)
FoundUsable(s, alive) == \E i \in Taken(s) : s[i].bonded /\ s[i].path \in alive

Eligible(s) == {i \in Taken(s) : s[i].eligible}

----------------------------------------------------------------------------
(* The interface of a path goes away, with its socket, for good: a path of  *)
(* a new socket is another one.                                            *)
Unbind(path) ==
    /\ path \in Present(slots) \ lost
    /\ lost' = lost \union {path}
    /\ UNCHANGED <<setup, slots, nameless, numBonded>>

Older(age, most) == IF age < most THEN age + 1 ELSE age

Age ==
    /\ slots' = [i \in Slot |-> IF i \notin Taken(slots) THEN slots[i]
                                ELSE [slots[i] EXCEPT !.nominated = Older(@, Trial),
                                                      !.lapsed = Older(@, Expired + 1)]]
    /\ UNCHANGED <<setup, lost, nameless, numBonded>>
=============================================================================
