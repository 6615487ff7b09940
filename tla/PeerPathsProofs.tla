--------------------------- MODULE PeerPathsProofs ---------------------------
(***************************************************************************)
(* The table of paths of a peer has its type and no gaps, for any number   *)
(* of slots, paths and threads. Every action either leaves the set of      *)
(* taken slots alone, fills the first free slot, takes one out and moves   *)
(* the others up, or writes the table anew from its first slot on.         *)
(* Followed for one path, the same actions show when it gets a second slot.*)
(***************************************************************************)
EXTENDS PeerPaths, FiniteSetTheorems, TLAPS

USE PathsAssumption

Inv == TypeOK /\ Packed

LEMMA TakenSlots ==
    ASSUME TypeOK
    PROVE  Taken = {i \in 1..MaxPaths : slots[i].path \in Path}
BY DEF Taken, TypeOK, PeerPath, Slot

LEMMA InitInv == Init => Inv
<1> SUFFICES ASSUME Init PROVE Inv
    OBVIOUS
<1>1. Free \in PeerPath
    BY DEF Free, PeerPath
<1>2. TypeOK
    <2>1. slots \in [Slot -> PeerPath]
        BY <1>1 DEF Init
    <2>2. age \in [Path -> 0..Expiration]
        BY DEF Init
    <2>3. bond \in BOOLEAN /\ due \in BOOLEAN
        BY Zenon DEF Init
    <2>4. asked \subseteq Path /\ learning \in [Thread -> Path \union {NoPath}]
        BY DEF Init
    <2> QED BY <2>1, <2>2, <2>3, <2>4 DEF TypeOK
<1>3. Taken = {}
    BY DEF Init, Taken, Free
<1> QED BY <1>2, <1>3 DEF Inv, Packed

----------------------------------------------------------------------------
(* What only refreshes or ages entries keeps the table in shape.           *)
LEMMA SamePaths ==
    ASSUME Packed, \A i \in Slot : slots'[i].path = slots[i].path
    PROVE  Packed'
<1>1. Taken' = Taken
    BY DEF Taken
<1> QED BY <1>1 DEF Packed

LEMMA RefreshedType ==
    ASSUME TypeOK, NEW p \in Path
    PROVE  /\ Refreshed(p) \in [Slot -> PeerPath]
           /\ \A i \in Slot : Refreshed(p)[i].path = slots[i].path
<1>1. ASSUME NEW i \in Slot
      PROVE  /\ slots[i] \in PeerPath
             /\ [slots[i] EXCEPT !.lr = 0] \in PeerPath
             /\ [slots[i] EXCEPT !.lr = 0].path = slots[i].path
    <2>1. slots[i] \in PeerPath
        BY DEF TypeOK
    <2> QED BY <2>1 DEF PeerPath
<1> QED BY <1>1 DEF Refreshed

LEMMA ReceiveStep ==
    ASSUME Inv, NEW p \in Path, Receive(p)
    PROVE  Inv'
<1>1. TypeOK'
    BY RefreshedType DEF Inv, TypeOK, Receive
<1>2. Packed'
    BY RefreshedType, SamePaths DEF Inv, Receive
<1> QED BY <1>1, <1>2 DEF Inv

LEMMA ReceiveOKStep ==
    ASSUME Inv, NEW t \in Thread, NEW p \in Path, ReceiveOK(t, p)
    PROVE  Inv'
<1>1. TypeOK'
    BY RefreshedType DEF Inv, TypeOK, ReceiveOK
<1>2. Packed'
    BY RefreshedType, SamePaths DEF Inv, ReceiveOK
<1> QED BY <1>1, <1>2 DEF Inv

(* The slot for a new path is a taken one or the first that is free.       *)
LEMMA LearnStep ==
    ASSUME Inv, NEW t \in Thread, Learn(t)
    PROVE  Inv'
<1> DEFINE p == learning[t]
<1>1. p \in Path /\ Entered(p, 1) \in PeerPath /\ Entered(p, 1).path = p
    BY DEF Inv, TypeOK, Learn, Entered, PeerPath
<1>2. TypeOK'
    BY <1>1 DEF Inv, TypeOK, Learn
<1>3. Packed'
    <2> SUFFICES ASSUME NEW i \in Slot, NEW j \in Slot, i < j, j \in Taken'
                 PROVE  i \in Taken'
        BY DEF Packed
    <2>1. \A k \in Taken : k \in Taken'
        BY <1>1 DEF Learn, Taken
    <2>2. CASE j \in Taken
        BY <2>1, <2>2 DEF Inv, Packed
    <2>3. CASE j \notin Taken
        <3>1. j \in ReplacePath(p)
            BY <2>3 DEF Learn, Taken
        <3>2. i \in Taken
            <4>1. CASE Candidates(p) # {}
                BY <3>1, <4>1 DEF ReplacePath, First, Candidates, Slot
            <4>2. CASE Candidates(p) = {}
                BY <4>2 DEF Candidates
            <4> QED BY <4>1, <4>2
        <3> QED BY <3>2, <2>1
    <2> QED BY <2>2, <2>3
<1> QED BY <1>2, <1>3 DEF Inv

----------------------------------------------------------------------------
(* A taken slot is emptied and those behind it are moved up.               *)
LEMMA WithoutShape ==
    ASSUME Inv, NEW d \in Taken
    PROVE  /\ Without(d) \in [Slot -> PeerPath]
           /\ \A i, j \in Slot : i < j /\ Without(d)[j].path # NoPath => Without(d)[i].path # NoPath
<1>1. Free \in PeerPath /\ Free.path = NoPath
    BY DEF Free, PeerPath
<1>2. d \in 1..MaxPaths
    BY DEF Taken, Slot
<1>3. \A i \in Slot : /\ i < d => Without(d)[i] = slots[i]
                      /\ i >= d /\ i < MaxPaths => Without(d)[i] = slots[i + 1]
                      /\ i >= d /\ ~(i < MaxPaths) => Without(d)[i] = Free
    BY <1>2 DEF Without, Slot
<1>4. Without(d) \in [Slot -> PeerPath]
    <2> SUFFICES ASSUME NEW i \in Slot PROVE Without(d)[i] \in PeerPath
        BY DEF Without
    <2>1. CASE i < d
        BY <1>3, <2>1 DEF Inv, TypeOK
    <2>2. CASE i >= d /\ i < MaxPaths
        <3>1. i + 1 \in Slot
            BY <2>2 DEF Slot
        <3> QED BY <1>3, <2>2, <3>1 DEF Inv, TypeOK
    <2>3. CASE i >= d /\ ~(i < MaxPaths)
        BY <1>1, <1>3, <2>3
    <2> QED BY <1>2, <2>1, <2>2, <2>3 DEF Slot
<1>5. ASSUME NEW i \in Slot, NEW j \in Slot, i < j, Without(d)[j].path # NoPath
      PROVE  Without(d)[i].path # NoPath
    <2>1. \A k, l \in Slot : k < l /\ slots[l].path # NoPath => slots[k].path # NoPath
        BY DEF Inv, Packed, Taken
    <2>2. CASE j < d
        <3>1. i < d
            BY <1>2, <2>2, <1>5 DEF Slot
        <3> QED BY <1>3, <1>5, <2>1, <2>2, <3>1
    <2>3. CASE j >= d
        <3>1. j < MaxPaths /\ Without(d)[j] = slots[j + 1]
            BY <1>1, <1>3, <1>5, <2>3
        <3>2. /\ j + 1 \in Slot /\ i + 1 \in Slot
              /\ i < j + 1 /\ i + 1 < j + 1 /\ i < MaxPaths
            BY <3>1, <1>5 DEF Slot
        <3>3. slots[i].path # NoPath /\ slots[i + 1].path # NoPath
            BY <1>5, <2>1, <3>1, <3>2
        <3>4. i < d \/ i >= d
            BY <1>2 DEF Slot
        <3> QED BY <1>3, <3>2, <3>3, <3>4
    <2> QED BY <1>2, <2>2, <2>3 DEF Slot
<1> QED BY <1>4, <1>5

LEMMA KeepaliveStep ==
    ASSUME Inv, DoPingAndKeepalive
    PROVE  Inv'
<1>1. bond' \in BOOLEAN /\ due' \in BOOLEAN
    <2>1. BondAfter \subseteq BOOLEAN
        BY DEF BondAfter
    <2> QED BY <2>1 DEF DoPingAndKeepalive
<1>2. \A i \in Taken : slots[i].path \in Path
    BY TakenSlots DEF Inv
<1>3. CASE Cleaned = {}
    <2>1. UNCHANGED slots
        BY <1>3 DEF DoPingAndKeepalive
    <2>2. asked' \subseteq Path
        BY <1>2, <1>3 DEF DoPingAndKeepalive, Inv, TypeOK
    <2>3. TypeOK'
        BY <1>1, <2>1, <2>2 DEF DoPingAndKeepalive, Inv, TypeOK
    <2> QED BY <2>1, <2>3 DEF Inv, Packed, Taken
<1>4. CASE Cleaned # {}
    <2>1. PICK d \in First(Cleaned) :
              /\ slots' = Without(d)
              /\ asked' \in {asked \union {slots[i].path : i \in s} : s \in SUBSET (1..(d - 1))}
        BY <1>4 DEF DoPingAndKeepalive
    <2>2. d \in Taken /\ d \in Slot
        BY DEF First, Cleaned, Taken
    <2>3. \A i \in 1..(d - 1) : slots[i].path \in Path
        BY <1>2, <2>2 DEF Inv, Packed, Slot
    <2>4. asked' \subseteq Path
        BY <2>1, <2>3 DEF Inv, TypeOK
    <2>5. TypeOK'
        BY <1>1, <2>1, <2>2, <2>4, WithoutShape DEF DoPingAndKeepalive, Inv, TypeOK
    <2>6. Packed'
        BY <2>1, <2>2, WithoutShape DEF Packed, Taken
    <2> QED BY <2>5, <2>6 DEF Inv
<1> QED BY <1>3, <1>4

----------------------------------------------------------------------------
(* The table is written anew: what is kept, the new path, free slots.      *)
LEMMA RedirectStep ==
    ASSUME Inv, NEW origin \in Path, NEW p \in Path, Redirect(origin, p)
    PROVE  Inv'
<1> DEFINE kept == {i \in Taken : /\ slots[i].priority >= NewPriority(origin)
                                  /\ ~Near(slots[i].path, p)}
           n == Cardinality(kept)
<1>1. n \in Nat
    <2>1. IsFiniteSet(1..MaxPaths)
        BY FS_Interval
    <2>2. kept \subseteq 1..MaxPaths
        BY DEF Taken, Slot
    <2> QED BY <2>1, <2>2, FS_Subset, FS_CardinalityType
<1>2. NewPriority(origin) \in 1..MaxPriority
    <2> DEFINE known == First({i \in Taken : slots[i].path = origin})
    <2>1. NewPriority(origin) <= MaxPriority
        BY DEF Redirect
    <2>2. CASE known = {}
        BY <2>1, <2>2 DEF NewPriority
    <2>3. CASE known # {}
        <3> DEFINE k == CHOOSE i \in known : TRUE
        <3>1. k \in Slot
            BY <2>3 DEF First, Taken
        <3>2. slots[k].priority \in Nat
            BY <3>1 DEF Inv, TypeOK, PeerPath
        <3>3. NewPriority(origin) = 2 + slots[k].priority
            BY <2>3 DEF NewPriority
        <3> HIDE DEF k
        <3> QED BY <2>1, <3>2, <3>3
    <2> QED BY <2>2, <2>3
<1>3. /\ Entered(p, NewPriority(origin)) \in PeerPath
      /\ Entered(p, NewPriority(origin)).path # NoPath
    BY <1>2 DEF Entered, PeerPath
<1>4. PICK moved \in [1..n -> kept] :
          slots' = [i \in Slot |->
                      IF i <= n THEN slots[moved[i]]
                      ELSE IF i = n + 1 THEN Entered(p, NewPriority(origin)) ELSE Free]
    BY DEF Redirect
<1>5. \A i \in Slot : i <= n => moved[i] \in Taken /\ moved[i] \in Slot
    BY <1>1, <1>4 DEF Slot, Taken
<1> HIDE DEF kept, n
<1>6. Free \in PeerPath /\ Free.path = NoPath
    BY DEF Free, PeerPath
<1>7. slots' \in [Slot -> PeerPath]
    BY <1>3, <1>4, <1>5, <1>6 DEF Inv, TypeOK
<1>8. TypeOK'
    BY <1>7 DEF Redirect, Inv, TypeOK
<1>9. Packed'
    <2> SUFFICES ASSUME NEW i \in Slot, NEW j \in Slot, i < j, slots'[j].path # NoPath
                 PROVE  slots'[i].path # NoPath
        BY DEF Packed, Taken
    <2>1. j <= n + 1
        BY <1>1, <1>4, <1>6 DEF Slot
    <2>2. i <= n
        BY <1>1, <2>1 DEF Slot
    <2>3. slots'[i] = slots[moved[i]]
        BY <1>4, <2>2
    <2> QED BY <1>5, <2>2, <2>3 DEF Taken
<1> QED BY <1>8, <1>9 DEF Inv

LEMMA ResetStep ==
    ASSUME Inv, NEW scope \in Scopes, ResetWithinScope(scope)
    PROVE  Inv'
<1>1. ASSUME NEW i \in Slot
      PROVE  /\ slots'[i] \in PeerPath
             /\ slots'[i].path = slots[i].path
    <2>1. slots[i] \in PeerPath
        BY DEF Inv, TypeOK
    <2>2. /\ [slots[i] EXCEPT !.lr = Expiration] \in PeerPath
          /\ [slots[i] EXCEPT !.lr = Expiration].path = slots[i].path
        BY <2>1 DEF PeerPath
    <2> QED BY <2>1, <2>2 DEF ResetWithinScope
<1>2. slots' \in [Slot -> PeerPath]
    BY <1>1 DEF ResetWithinScope
<1>3. \A i \in Taken : slots[i].path \in Path
    BY TakenSlots DEF Inv
<1>4. TypeOK'
    BY <1>2, <1>3 DEF ResetWithinScope, Inv, TypeOK
<1> QED BY <1>1, <1>4, SamePaths DEF Inv

LEMMA TickStep ==
    ASSUME Inv, Tick
    PROVE  Inv'
<1>1. \A a \in 0..Expiration : Older(a) \in 0..Expiration
    BY DEF Older
<1>2. ASSUME NEW i \in Slot
      PROVE  /\ slots'[i] \in PeerPath
             /\ slots'[i].path = slots[i].path
    <2>1. slots[i] \in PeerPath
        BY DEF Inv, TypeOK
    <2>2. slots[i].lr \in 0..Expiration
        BY <2>1 DEF PeerPath
    <2>3. Older(slots[i].lr) \in 0..Expiration
        BY <1>1, <2>2
    <2>4. slots'[i] = [slots[i] EXCEPT !.lr = Older(slots[i].lr)]
        BY DEF Tick
    <2> QED BY <2>1, <2>3, <2>4 DEF PeerPath
<1>3. slots' \in [Slot -> PeerPath]
    BY <1>2 DEF Tick
<1>4. TypeOK'
    BY <1>1, <1>3 DEF Tick, Inv, TypeOK
<1> QED BY <1>2, <1>4, SamePaths DEF Inv

----------------------------------------------------------------------------
LEMMA StepInv == Inv /\ [Next]_vars => Inv'
<1> SUFFICES ASSUME Inv, [Next]_vars PROVE Inv'
    OBVIOUS
<1>1. ASSUME NEW p \in Path, Receive(p) PROVE Inv'
    BY <1>1, ReceiveStep
<1>2. ASSUME NEW p \in Path, Overhear(p) \/ Contact(p) PROVE Inv'
    <2>1. UNCHANGED slots
        BY <1>2 DEF Overhear, Contact
    <2>2. TypeOK'
        BY <1>2 DEF Overhear, Contact, Inv, TypeOK
    <2> QED BY <2>1, <2>2 DEF Inv, Packed, Taken
<1>3. ASSUME NEW t \in Thread, Learn(t) PROVE Inv'
    BY <1>3, LearnStep
<1>4. ASSUME NEW t \in Thread, NEW p \in Path, ReceiveOK(t, p) PROVE Inv'
    BY <1>4, ReceiveOKStep
<1>5. ASSUME NEW p \in Path, NEW origin \in Path, Redirect(origin, p) PROVE Inv'
    BY <1>5, RedirectStep
<1>6. ASSUME NEW scope \in Scopes, ResetWithinScope(scope) PROVE Inv'
    BY <1>6, ResetStep
<1>7. CASE DoPingAndKeepalive
    BY <1>7, KeepaliveStep
<1>8. CASE Tick
    BY <1>8, TickStep
<1>9. CASE UNCHANGED vars
    BY <1>9 DEF vars, Inv, TypeOK, Packed, Taken
<1> QED BY <1>1, <1>2, <1>3, <1>4, <1>5, <1>6, <1>7, <1>8, <1>9 DEF Next

LEMMA Invariance == Spec => []Inv
BY InitInv, StepInv, PTL DEF Spec

(* The variables have their types: the table holds known paths, ages and   *)
(* priorities (Peer::_paths).                                              *)
THEOREM TypeCorrect == Spec => []TypeOK
BY Invariance, PTL DEF Inv

(* The taken slots are the first ones, whatever is learned, deleted by the *)
(* keepalive or replaced by a redirect: the loops that end at the first    *)
(* free slot see every path (Peer.cpp, Peer.hpp).                          *)
THEOREM NoGaps == Spec => []Packed
BY Invariance, PTL DEF Inv

----------------------------------------------------------------------------
(* No path has two slots, unless two threads learn it at once.             *)
Once(p) == \A i, j \in Slot : slots[i].path = p /\ slots[j].path = p => i = j

DoubledByRaceOnly == [][\A p \in Path : ~Doubled(p) /\ Doubled(p)' => LearnAgain]_vars

LEMMA DoubledOnce == \A p \in Path : /\ Doubled(p) <=> ~Once(p)
                                     /\ Doubled(p)' <=> ~Once(p)'
  BY DEF Doubled, Once, Taken

LEMMA FirstOne ==
    ASSUME NEW set \in SUBSET Slot, NEW i \in First(set), NEW j \in First(set)
    PROVE  i = j
  BY DEF First, Slot

LEMMA SameOnce ==
    ASSUME NEW p, Once(p), \A i \in Slot : slots'[i].path = slots[i].path
    PROVE  Once(p)'
  BY DEF Once

(* A path that is learned for the first time gets one slot.                *)
LEMMA LearnOnce ==
    ASSUME Inv, NEW t \in Thread, Learn(t), ~LearnAgain, NEW p \in Path, Once(p)
    PROVE  Once(p)'
<1> DEFINE q == learning[t]
           place == ReplacePath(q)
<1>1. q \in Path /\ \A i \in Slot : slots[i].path # q
    <2>1. q \in Path
        BY DEF Inv, TypeOK, Learn
    <2>2. \A i \in Taken : slots[i].path # q
        BY DEF LearnAgain
    <2> QED BY <2>1, <2>2 DEF Taken
<1>2. \A i, j \in place : i = j
    <2>1. Candidates(q) \in SUBSET Slot /\ Oldest \in SUBSET Slot
        BY DEF Candidates, Oldest
    <2>2. place = First(Candidates(q)) \/ place = First(Oldest)
        BY DEF ReplacePath
    <2> QED BY <2>1, <2>2, FirstOne
<1>3. \A i \in Slot : slots'[i] = IF i \in place THEN Entered(q, 1) ELSE slots[i]
    BY DEF Learn
<1>4. Entered(q, 1).path = q
    BY DEF Entered
<1> HIDE DEF q, place
<1> QED BY <1>1, <1>2, <1>3, <1>4 DEF Once

LEMMA WithoutOnce ==
    ASSUME Inv, NEW d \in Taken, slots' = Without(d), NEW p \in Path, Once(p)
    PROVE  Once(p)'
<1>1. d \in 1..MaxPaths /\ Free.path # p
    BY DEF Taken, Slot, Free
<1> DEFINE from(i) == IF i < d THEN i ELSE i + 1
<1>2. ASSUME NEW i \in Slot, slots'[i].path = p
      PROVE  from(i) \in Slot /\ slots[from(i)].path = p
    <2>1. i < d \/ i < MaxPaths
        BY <1>1, <1>2 DEF Without
    <2> QED BY <1>1, <1>2, <2>1 DEF Without, Slot
<1>3. \A i, j \in Slot : from(i) = from(j) => i = j
    BY <1>1 DEF Slot
<1> HIDE DEF from
<1> QED BY <1>2, <1>3 DEF Once

LEMMA RedirectOnce ==
    ASSUME Inv, NEW origin \in Path, NEW q \in Path, Redirect(origin, q),
           NEW p \in Path, Once(p)
    PROVE  Once(p)'
<1> DEFINE kept == {i \in Taken : /\ slots[i].priority >= NewPriority(origin)
                                  /\ ~Near(slots[i].path, q)}
           n == Cardinality(kept)
<1>1. n \in Nat
    <2>1. IsFiniteSet(1..MaxPaths)
        BY FS_Interval
    <2>2. kept \subseteq 1..MaxPaths
        BY DEF Taken, Slot
    <2> QED BY <2>1, <2>2, FS_Subset, FS_CardinalityType
<1>2. PICK moved \in [1..n -> kept] :
          /\ \A i, j \in 1..n : i < j => moved[i] < moved[j]
          /\ slots' = [i \in Slot |->
                      IF i <= n THEN slots[moved[i]]
                      ELSE IF i = n + 1 THEN Entered(q, NewPriority(origin)) ELSE Free]
    BY DEF Redirect
<1>3. \A k \in kept : k \in Slot /\ slots[k].path # q
    BY DEF Near, Taken
<1>4. Entered(q, NewPriority(origin)).path = q /\ Free.path # p
    BY DEF Entered, Free
<1> HIDE DEF kept, n
<1>5. \A i \in Slot : i <= n => i \in 1..n /\ moved[i] \in Slot /\ slots[moved[i]].path # q
    BY <1>1, <1>2, <1>3 DEF Slot
<1>6. ASSUME NEW i \in 1..n, NEW j \in 1..n, moved[i] = moved[j]
      PROVE  i = j
    <2>1. moved[i] \in Int /\ moved[j] \in Int
        BY <1>2, <1>3 DEF Slot
    <2>2. ~(i < j) /\ ~(j < i)
        BY <1>2, <1>6, <2>1
    <2> QED BY <1>1, <2>2
<1>7. ASSUME NEW i \in Slot, NEW j \in Slot, slots'[i].path = p, slots'[j].path = p
      PROVE  i = j
    <2>1. CASE p = q
        <3>1. i = n + 1 /\ j = n + 1
            BY <1>1, <1>2, <1>4, <1>5, <1>7, <2>1 DEF Slot
        <3> QED BY <3>1
    <2>2. CASE p # q
        <3>1. i <= n /\ j <= n
            BY <1>2, <1>4, <1>7, <2>2
        <3>2. slots[moved[i]].path = p /\ slots[moved[j]].path = p
            BY <1>2, <1>7, <3>1
        <3>3. moved[i] = moved[j]
            BY <1>5, <3>1, <3>2 DEF Once
        <3> QED BY <1>5, <1>6, <3>1, <3>3
    <2> QED BY <2>1, <2>2
<1> QED BY <1>7 DEF Once

LEMMA OnceStep ==
    ASSUME Inv, [Next]_vars, ~LearnAgain, NEW p \in Path, Once(p)
    PROVE  Once(p)'
<1>1. ASSUME NEW q \in Path, Receive(q) PROVE Once(p)'
    BY <1>1, RefreshedType, SameOnce DEF Inv, Receive
<1>2. ASSUME UNCHANGED slots PROVE Once(p)'
    BY <1>2 DEF Once
<1>3. ASSUME NEW t \in Thread, Learn(t) PROVE Once(p)'
    BY <1>3, LearnOnce
<1>4. ASSUME NEW t \in Thread, NEW q \in Path, ReceiveOK(t, q) PROVE Once(p)'
    BY <1>4, RefreshedType, SameOnce DEF Inv, ReceiveOK
<1>5. ASSUME NEW q \in Path, NEW origin \in Path, Redirect(origin, q) PROVE Once(p)'
    BY <1>5, RedirectOnce
<1>6. ASSUME NEW scope \in Scopes, ResetWithinScope(scope) PROVE Once(p)'
    <2>1. \A i \in Slot : slots[i] \in PeerPath
        BY DEF Inv, TypeOK
    <2>2. \A i \in Slot : slots'[i].path = slots[i].path
        BY <1>6, <2>1 DEF ResetWithinScope, PeerPath
    <2> QED BY <2>2, SameOnce
<1>7. CASE DoPingAndKeepalive
    <2>1. CASE Cleaned = {}
        BY <1>2, <1>7, <2>1 DEF DoPingAndKeepalive
    <2>2. CASE Cleaned # {}
        <3>1. PICK d \in First(Cleaned) : slots' = Without(d)
            BY <1>7, <2>2 DEF DoPingAndKeepalive
        <3>2. d \in Taken
            BY DEF First, Cleaned
        <3> QED BY <3>1, <3>2, WithoutOnce
    <2> QED BY <2>1, <2>2
<1>8. CASE Tick
    <2>1. \A i \in Slot : slots[i] \in PeerPath
        BY DEF Inv, TypeOK
    <2>2. slots' = [i \in Slot |-> [slots[i] EXCEPT !.lr = Older(slots[i].lr)]]
        BY <1>8 DEF Tick
    <2>3. \A i \in Slot : slots'[i].path = slots[i].path
        BY <2>1, <2>2 DEF PeerPath
    <2> QED BY <2>3, SameOnce
<1> QED BY <1>1, <1>2, <1>3, <1>4, <1>5, <1>6, <1>7, <1>8 DEF Next, vars, Overhear, Contact

(* A path gets a second slot only when a thread learns a path that another *)
(* has learned since it looked: neither a redirect, nor the keepalive that *)
(* moves slots up, nor an answer enters a path again (Peer::received).     *)
THEOREM DoublesComeFromRaces == Spec => DoubledByRaceOnly
<1>1. Inv /\ [Next]_vars => [\A p \in Path : ~Doubled(p) /\ Doubled(p)' => LearnAgain]_vars
    BY OnceStep, DoubledOnce
<1> QED BY <1>1, Invariance, PTL DEF Spec, DoubledByRaceOnly
=============================================================================
