----------------------------- MODULE BondProofs -----------------------------
(***************************************************************************)
(* Theorems about Bond for any paths, links, setups, slots and flows.      *)
(***************************************************************************)
EXTENDS Bond, FiniteSetTheorems, TLAPS

----------------------------------------------------------------------------
(* In a finite set whose members are ordered, those up to a member tell    *)
(* which it is, and there is one for every number.                         *)
LEMMA Ranks ==
    ASSUME NEW S, IsFiniteSet(S), NEW upto \in [S -> SUBSET S],
           \A i \in S : i \in upto[i],
           \A i, j \in S : i # j => \/ upto[i] \subseteq upto[j] /\ j \notin upto[i]
                                    \/ upto[j] \subseteq upto[i] /\ i \notin upto[j]
    PROVE  /\ Cardinality(S) \in Nat
           /\ \A i \in S : Cardinality(upto[i]) \in 1..Cardinality(S)
           /\ \A i, j \in S : Cardinality(upto[i]) = Cardinality(upto[j]) => i = j
           /\ \A k \in 1..Cardinality(S) : \E i \in S : Cardinality(upto[i]) = k
<1> DEFINE size == Cardinality(S)
           rank == [i \in S |-> Cardinality(upto[i])]
<1>1. size \in Nat
  BY FS_CardinalityType
<1>2. ASSUME NEW i \in S
      PROVE  IsFiniteSet(upto[i]) /\ Cardinality(upto[i]) \in 1..size
  <2>1. upto[i] \in SUBSET S /\ i \in upto[i]
    OBVIOUS
  <2>2. IsFiniteSet(upto[i]) /\ Cardinality(upto[i]) <= size /\ Cardinality(upto[i]) \in Nat
    BY <1>1, <2>1, FS_Subset, FS_CardinalityType
  <2>3. Cardinality(upto[i]) # 0
    BY <2>1, <2>2, FS_EmptySet
  <2> QED
    BY <1>1, <2>2, <2>3
<1>3. ASSUME NEW i \in S, NEW j \in S, upto[i] \subseteq upto[j], j \notin upto[i]
      PROVE  Cardinality(upto[i]) # Cardinality(upto[j])
  <2>1. IsFiniteSet(upto[j]) /\ j \in upto[j] /\ upto[i] \in SUBSET upto[j]
    BY <1>2, <1>3
  <2> QED
    BY <1>3, <2>1, FS_Subset
<1>4. \A i, j \in S : Cardinality(upto[i]) = Cardinality(upto[j]) => i = j
  BY <1>3
<1>5. rank \in Injection(S, 1..size)
  <2>1. rank \in [S -> 1..size]
    BY <1>2
  <2>2. \A i, j \in S : rank[i] = rank[j] => i = j
    BY <1>4
  <2> QED
    BY <2>1, <2>2 DEF Injection, IsInjective
<1>6. rank \in Surjection(S, 1..size)
  <2>1. IsFiniteSet(1..size) /\ Cardinality(1..size) = size
    BY <1>1, FS_Interval
  <2> QED
    BY <1>5, <2>1, FS_Injection
<1>7. \A k \in 1..size : \E i \in S : Cardinality(upto[i]) = k
  BY <1>6 DEF Surjection
<1> QED
  BY <1>1, <1>2, <1>4, <1>7

USE PathsAssumption, SetupsAssumption, FlowAssumption

LEMMA Slots ==
    ASSUME NEW S \in SUBSET Slot
    PROVE  IsFiniteSet(S) /\ Cardinality(S) \in 0..MaxPaths
<1>1. MaxPaths \in Nat
  OBVIOUS
<1>2. IsFiniteSet(Slot) /\ Cardinality(Slot) = MaxPaths
  <2>1. \A n \in Nat : IsFiniteSet(1..n) /\ Cardinality(1..n) = n
    BY FS_Interval
  <2> QED
    BY <1>1, <2>1 DEF Slot
<1>3. IsFiniteSet(S) /\ Cardinality(S) <= MaxPaths
  BY <1>2, FS_Subset
<1>4. Cardinality(S) \in Nat
  BY <1>3, FS_CardinalityType
<1> QED
  BY <1>1, <1>3, <1>4

(* Of some slots there is a first and a last.                              *)
LEMMA FirstAndLast ==
    ASSUME NEW S \in SUBSET Slot, S # {}
    PROVE  /\ Least(S) \in S /\ \A j \in S : Least(S) <= j
           /\ Greatest(S) \in S /\ \A j \in S : j <= Greatest(S)
<1> DEFINE upto == [i \in S |-> {j \in S : j <= i}]
           size == Cardinality(S)
<1>1. \A i \in S : i \in Int
  BY DEF Slot
<1>2. IsFiniteSet(S)
  BY Slots
<1>3. upto \in [S -> SUBSET S] /\ \A i \in S : i \in upto[i]
  BY <1>1
<1>4. \A i, j \in S : i < j => upto[i] \subseteq upto[j] /\ j \notin upto[i]
  BY <1>1
<1>5. \A i, j \in S : i # j => \/ upto[i] \subseteq upto[j] /\ j \notin upto[i]
                               \/ upto[j] \subseteq upto[i] /\ i \notin upto[j]
  <2> HIDE DEF upto
  <2> QED
    BY <1>1, <1>4
<1>6. /\ size \in Nat
      /\ \A i \in S : Cardinality(upto[i]) \in 1..size
      /\ \A k \in 1..size : \E i \in S : Cardinality(upto[i]) = k
  <2> HIDE DEF upto
  <2> QED
    BY <1>2, <1>3, <1>5, Ranks
<1>7. size \in 1..size /\ 1 \in 1..size
  <2>1. PICK i : i \in S
    OBVIOUS
  <2>2. Cardinality(upto[i]) \in 1..size
    BY <1>6, <2>1
  <2> HIDE DEF upto, size
  <2> QED
    BY <1>6, <2>2
<1>8. ASSUME NEW i \in S, Cardinality(upto[i]) = 1, NEW j \in S PROVE i <= j
  <2>1. SUFFICES ASSUME j < i PROVE FALSE
    BY <1>1
  <2>2. upto[j] \subseteq upto[i] /\ i \notin upto[j] /\ upto[i] \in SUBSET S /\ upto[j] \in SUBSET S
        /\ i \in upto[i]
    BY <1>3, <1>4, <2>1
  <2>3. IsFiniteSet(upto[i]) /\ IsFiniteSet(upto[j])
    BY <1>2, <2>2, FS_Subset
  <2>4. Cardinality(upto[j]) <= Cardinality(upto[i]) /\ Cardinality(upto[j]) # Cardinality(upto[i])
    BY <2>2, <2>3, FS_Subset
  <2>5. Cardinality(upto[j]) \in 1..size
    BY <1>6
  <2> HIDE DEF upto
  <2> QED
    BY <1>6, <1>8, <2>4, <2>5
<1>9. ASSUME NEW i \in S, Cardinality(upto[i]) = size, NEW j \in S PROVE j <= i
  <2>1. upto[i] \in SUBSET S
    OBVIOUS
  <2>2. upto[i] = S
    BY <1>2, <1>9, <2>1, FS_Subset
  <2> QED
    BY <2>2
<1>10. (\E i \in S : \A j \in S : i <= j) /\ (\E i \in S : \A j \in S : j <= i)
  <2> HIDE DEF upto
  <2> QED
    BY <1>6, <1>7, <1>8, <1>9
<1> QED
  BY <1>10 DEF Least, Greatest

----------------------------------------------------------------------------
(* What the operators make of the slots.                                   *)
Table == [Slot -> Nominated]

LEMMA FreeSlot == Free \in Nominated /\ Free.path = NoPath /\ Free.bonded = FALSE
  BY DEF Free, Nominated

Kept(n, now) == [n EXCEPT !.eligible = now, !.lapsed = IF now THEN 0 ELSE @,
                          !.bonded = @ /\ (now \/ ~n.eligible)]

LEMMA KeptSlot ==
    ASSUME NEW n \in Nominated, NEW now \in BOOLEAN
    PROVE  /\ Kept(n, now) \in Nominated /\ Kept(n, now).path = n.path
           /\ Kept(n, now).eligible = now
           /\ Kept(n, now).bonded = (n.bonded /\ (now \/ ~n.eligible))
<1> DEFINE stays == n.bonded /\ (now \/ ~n.eligible)
           lapsed == IF now THEN 0 ELSE n.lapsed
<1>1. stays \in BOOLEAN /\ lapsed \in 0..Expired + 1
  BY DEF Nominated
<1> HIDE DEF stays, lapsed
<1>2. [n EXCEPT !.eligible = now, !.lapsed = lapsed, !.bonded = stays] \in Nominated
  BY <1>1 DEF Nominated
<1>3. /\ [n EXCEPT !.eligible = now, !.lapsed = lapsed, !.bonded = stays].path = n.path
      /\ [n EXCEPT !.eligible = now, !.lapsed = lapsed, !.bonded = stays].eligible = now
      /\ [n EXCEPT !.eligible = now, !.lapsed = lapsed, !.bonded = stays].bonded = stays
  BY <1>1 DEF Nominated
<1> QED
  BY <1>2, <1>3 DEF stays, lapsed, Kept

(* curateBond keeps slots or frees them; it ends the bond of a path that   *)
(* was eligible and is no longer.                                          *)
LEMMA CuratedFacts ==
    ASSUME NEW s \in Table, NEW fit, NEW anon
    PROVE  /\ Curated(s, fit, anon) \in Table
           /\ Taken(Curated(s, fit, anon)) \subseteq Taken(s)
           /\ \A i \in Taken(Curated(s, fit, anon)) :
                 /\ Curated(s, fit, anon)[i].path = s[i].path
                 /\ Curated(s, fit, anon)[i].eligible = EligibleNow(s[i], fit)
                 /\ Curated(s, fit, anon)[i].bonded
                        = (s[i].bonded /\ (EligibleNow(s[i], fit) \/ ~s[i].eligible))
<1> DEFINE c == Curated(s, fit, anon)
           kept(i) == [s[i] EXCEPT !.eligible = EligibleNow(s[i], fit),
                                   !.lapsed = IF EligibleNow(s[i], fit) THEN 0 ELSE @,
                                   !.bonded = @ /\ (EligibleNow(s[i], fit) \/ ~s[i].eligible)]
<1>1. ASSUME NEW i \in Slot
      PROVE  c[i] = IF i \notin Taken(s) \/ Removed(s[i], anon) THEN Free ELSE kept(i)
  BY <1>1 DEF Curated
<1>2. ASSUME NEW i \in Slot
      PROVE  /\ kept(i) \in Nominated /\ kept(i).path = s[i].path
             /\ kept(i).eligible = EligibleNow(s[i], fit)
             /\ kept(i).bonded = (s[i].bonded /\ (EligibleNow(s[i], fit) \/ ~s[i].eligible))
  <2>1. s[i] \in Nominated /\ EligibleNow(s[i], fit) \in BOOLEAN
    BY <1>2 DEF Table, EligibleNow
  <2>2. kept(i) = Kept(s[i], EligibleNow(s[i], fit))
    BY DEF Kept
  <2> HIDE DEF kept
  <2> QED
    BY <2>1, <2>2, KeptSlot
<1> HIDE DEF kept
<1>3. c \in Table
  <2>1. \A i \in Slot : c[i] \in Nominated
    BY <1>1, <1>2, FreeSlot
  <2> QED
    BY <2>1 DEF Curated, Table
<1>4. ASSUME NEW i \in Taken(c)
      PROVE  i \in Taken(s) /\ c[i] = kept(i)
  BY <1>1, FreeSlot DEF Taken
<1>5. \A i \in Taken(s) : i \in Slot
  BY DEF Taken
<1> HIDE DEF c
<1>6. /\ c \in Table /\ Taken(c) \subseteq Taken(s)
      /\ \A i \in Taken(c) :
                 /\ c[i].path = s[i].path
                 /\ c[i].eligible = EligibleNow(s[i], fit)
                 /\ c[i].bonded = (s[i].bonded /\ (EligibleNow(s[i], fit) \/ ~s[i].eligible))
  BY <1>2, <1>3, <1>4, <1>5
<1> QED
  BY <1>6 DEF c

LEMMA NomineeSlot ==
    ASSUME NEW n \in Nominated, NEW path \in Path, NEW alone \in BOOLEAN
    PROVE  [n EXCEPT !.path = path, !.nominated = 0, !.only = alone] \in Nominated
<1>1. 0 \in 0..Trial
  OBVIOUS
<1> QED
  BY <1>1 DEF Nominated

LEMMA NomineeTable ==
    ASSUME slots \in Table, NEW path \in Path
    PROVE  WithNominee(path) \in Table
<1> DEFINE others == {j \in Taken(slots) : slots[j].path \notin lost /\ LinkOf[slots[j].path] = LinkOf[path]}
           alone == others = {}
           free == Slot \ Taken(slots)
           first == CHOOSE i \in free : \A j \in free : i <= j
           nominee == [Free EXCEPT !.path = path, !.nominated = 0, !.only = alone]
           other(i) == [slots[i] EXCEPT !.only = @ /\ i \notin others]
           with == [i \in Slot |-> IF i = first THEN nominee ELSE other(i)]
<1>1. alone \in BOOLEAN
  OBVIOUS
<1>2. nominee \in Nominated
  <2> HIDE DEF alone
  <2> QED
    BY <1>1, FreeSlot, NomineeSlot
<1>3. ASSUME NEW i \in Slot PROVE other(i) \in Nominated
  <2>1. slots[i] \in Nominated
    BY DEF Table
  <2> HIDE DEF others
  <2> QED
    BY <2>1 DEF Nominated
<1>4. WithNominee(path) = IF path \in Present(slots) \/ free = {} THEN slots ELSE with
  BY Zenon DEF WithNominee
<1> HIDE DEF nominee, other, first, free
<1>5. with \in Table
  BY <1>2, <1>3 DEF Table
<1> HIDE DEF with
<1> QED
  BY <1>4, <1>5

(* Before puts the slots in an order.                                      *)
LEMMA Ordered ==
    ASSUME NEW s \in Table
    PROVE  /\ \A i, j \in Taken(s) : i # j => Before(s, i, j) \/ Before(s, j, i)
           /\ \A i, j \in Taken(s) : Before(s, i, j) => ~Before(s, j, i)
           /\ \A i, j, k \in Taken(s) : Before(s, i, j) /\ Before(s, j, k) => Before(s, i, k)
<1>1. \A i \in Taken(s) : i \in Int
  BY DEF Taken, Slot
<1>2. \A i \in Taken(s) : LinkAt(s, i) = NoLink \/ LinkAt(s, i) \in Int
  <2>1. SUFFICES ASSUME NEW i \in Taken(s), s[i].path \notin lost PROVE LinkOf[s[i].path] \in Int
    BY DEF LinkAt
  <2>2. s[i].path \in Path
    BY DEF Taken, Table, Nominated
  <2>3. LinkOf[s[i].path] \in Link
    BY <2>2
  <2>4. \A l \in Link : l \in Int
    OBVIOUS
  <2> QED
    BY <2>3, <2>4
<1>3. \A i : IsSpare(s[i].path) \in BOOLEAN
  BY DEF IsSpare
<1> QED
  BY <1>1, <1>2, <1>3 DEF Before

(* No slot is listed twice.                                                *)
ListedOnce(idx) == \A k, m \in DOMAIN idx : idx[k] = idx[m] => k = m

(* The bonded slots are numbered without gaps, each once.                  *)
LEMMA RebuiltFacts ==
    ASSUME NEW s \in Table, NEW usable
    PROVE  /\ Rebuilt(s, usable) \in Seq(Slot)
           /\ Len(Rebuilt(s, usable)) \in 0..MaxPaths
           /\ \A i \in InBond(s, usable) : \E k \in DOMAIN Rebuilt(s, usable) : Rebuilt(s, usable)[k] = i
           /\ \A k \in DOMAIN Rebuilt(s, usable) : Rebuilt(s, usable)[k] \in InBond(s, usable)
           /\ ListedOnce(Rebuilt(s, usable))
<1> DEFINE set == InBond(s, usable)
           upto == [i \in set |-> Upto(s, set, i)]
           size == Cardinality(set)
           idx == [k \in 1..size |-> CHOOSE i \in set : Cardinality(upto[i]) = k]
<1>1. set \subseteq Taken(s) /\ set \in SUBSET Slot
  BY DEF InBond, Eligible, Taken
<1>2. IsFiniteSet(set) /\ size \in 0..MaxPaths
  BY <1>1, Slots
<1>3. upto \in [set -> SUBSET set] /\ \A i \in set : i \in upto[i]
  BY DEF Upto
<1>4. ASSUME NEW i \in set, NEW j \in set, i # j, Before(s, i, j)
      PROVE  upto[i] \subseteq upto[j] /\ j \notin upto[i]
  <2>1. i \in Taken(s) /\ j \in Taken(s)
    BY <1>1
  <2>2. ~Before(s, j, i)
    BY <1>4, <2>1, Ordered
  <2>3. \A k \in set : Before(s, k, i) => Before(s, k, j)
    BY <1>1, <1>4, <2>1, Ordered
  <2> QED
    BY <1>4, <2>2, <2>3 DEF Upto
<1>5. \A i, j \in set : i # j => \/ upto[i] \subseteq upto[j] /\ j \notin upto[i]
                                 \/ upto[j] \subseteq upto[i] /\ i \notin upto[j]
  <2> SUFFICES ASSUME NEW i \in set, NEW j \in set, i # j
               PROVE  \/ upto[i] \subseteq upto[j] /\ j \notin upto[i]
                      \/ upto[j] \subseteq upto[i] /\ i \notin upto[j]
    OBVIOUS
  <2>1. Before(s, i, j) \/ Before(s, j, i)
    BY <1>1, Ordered
  <2> HIDE DEF upto, set
  <2> QED
    BY <1>4, <2>1
<1> HIDE DEF set, upto
<1>6. /\ \A i \in set : Cardinality(upto[i]) \in 1..size
      /\ \A i, j \in set : Cardinality(upto[i]) = Cardinality(upto[j]) => i = j
      /\ \A k \in 1..size : \E i \in set : Cardinality(upto[i]) = k
  BY <1>2, <1>3, <1>5, Ranks
<1> HIDE DEF size
<1>7. \A k \in 1..size : idx[k] \in set /\ Cardinality(upto[idx[k]]) = k
  BY <1>6
<1>8. \A i \in set : \E k \in 1..size : idx[k] = i
  BY <1>6, <1>7
<1>9. idx \in Seq(Slot) /\ Len(idx) = size /\ DOMAIN idx = 1..size
  <2>1. idx \in [1..size -> Slot]
    BY <1>1, <1>7
  <2>2. size \in Nat
    BY <1>2
  <2> HIDE DEF idx
  <2> QED
    BY <2>1, <2>2
<1>10. Rebuilt(s, usable) = idx
  <2>1. \A i \in set : upto[i] = Upto(s, set, i)
    BY DEF upto
  <2> QED
    BY <2>1 DEF Rebuilt, size, set
<1>11. \A k, m \in 1..size : idx[k] = idx[m] => k = m
  <2> HIDE DEF idx
  <2> QED
    BY <1>7
<1> HIDE DEF idx
<1>12. ListedOnce(idx)
  BY <1>9, <1>11 DEF ListedOnce
<1> QED
  BY <1>2, <1>7, <1>8, <1>9, <1>10, <1>12 DEF set

----------------------------------------------------------------------------
(* The tasks of active-backup.                                             *)
LEMMA NoSuchSlot == NoSlot \notin Slot
<1>1. MaxPaths \in Nat
  OBVIOUS
<1> QED
  BY <1>1 DEF NoSlot, Slot

(* The initial path is eligible; there is none only if the bond waits for  *)
(* a primary link.                                                         *)
LEMMA InitialFacts ==
    ASSUME NEW s \in Table
    PROVE  /\ Initial(s) = NoSlot \/ Initial(s) \in Eligible(s)
           /\ Initial(s) = NoSlot =>
                 \A i \in Eligible(s) : OnlyPrimaries /\ ~OnPrimary(s[i].path)
<1> DEFINE here == {i \in Eligible(s) : OnPrimary(s[i].path)}
           first == {i \in here : Preferred(s[i])}
           before == {i \in here \ first : \A j \in first : i < j}
<1>1. Eligible(s) \in SUBSET Slot
  BY DEF Eligible, Taken
<1>2. \A S \in SUBSET Slot : S # {} => Least(S) \in S /\ Greatest(S) \in S
  BY FirstAndLast
<1>3. NoSlot \notin Eligible(s)
  BY <1>1, NoSuchSlot
<1>4. here \in SUBSET Eligible(s) /\ first \in SUBSET Eligible(s) /\ before \in SUBSET Eligible(s)
  OBVIOUS
<1>5. first = {} /\ before = {} => here = {}
  OBVIOUS
<1>6. Primary(s) = IF before # {} THEN Greatest(before) ELSE IF first # {} THEN Least(first) ELSE NoSlot
  BY Zenon DEF Primary
<1>7. here = {} => \A i \in Eligible(s) : ~OnPrimary(s[i].path)
  OBVIOUS
<1> HIDE DEF here, first, before
<1>8. CASE OnlyPrimaries
  <2>1. Initial(s) = Primary(s)
    BY <1>8 DEF Initial, OnlyPrimaries
  <2> QED
    BY <1>1, <1>2, <1>3, <1>4, <1>5, <1>6, <1>7, <1>8, <2>1
<1>9. CASE ~OnlyPrimaries
  <2>1. Initial(s) = IF Eligible(s) # {} THEN Least(Eligible(s)) ELSE NoSlot
    BY <1>9 DEF Initial, OnlyPrimaries
  <2> QED
    BY <1>1, <1>2, <1>3, <2>1
<1> QED
  BY <1>8, <1>9

LEMMA BondedSlot ==
    ASSUME NEW n \in Nominated, NEW b \in BOOLEAN
    PROVE  /\ [n EXCEPT !.bonded = b] \in Nominated
           /\ [n EXCEPT !.bonded = b].path = n.path
           /\ [n EXCEPT !.bonded = b].eligible = n.eligible
           /\ [n EXCEPT !.bonded = b].bonded = b
  BY DEF Nominated

SameSlots(s, t) == \A i \in Slot : t[i].path = s[i].path /\ t[i].eligible = s[i].eligible

LEMMA SameSets ==
    ASSUME NEW s, NEW t, SameSlots(s, t)
    PROVE  Taken(t) = Taken(s) /\ Eligible(t) = Eligible(s) /\ Present(t) = Present(s)
<1>1. Taken(t) = Taken(s)
  BY DEF Taken, SameSlots
<1>2. \A i \in Taken(s) : i \in Slot
  BY DEF Taken
<1> QED
  BY <1>1, <1>2 DEF Eligible, Present, SameSlots

(* A failed path is left for an eligible one if there is any, and no path  *)
(* is left for one that is not eligible.                                   *)
LEMMA ActiveFacts ==
    ASSUME NEW s \in Table, active \in Slot \union {NoSlot}, queue \subseteq Slot, settled \in BOOLEAN,
           ActiveBackupTasks(s)
    PROVE  /\ slots' \in Table /\ SameSlots(s, slots')
           /\ active' \in Slot \union {NoSlot} /\ queue' \subseteq Slot /\ settled' \in BOOLEAN
           /\ IF active' \in Taken(s) THEN active' \in Eligible(s) \/ Eligible(s) = {}
              ELSE \A i \in Eligible(s) : OnlyPrimaries /\ ~OnPrimary(s[i].path)
<1> DEFINE first == IF active \in Taken(s) THEN active ELSE Initial(s)
           backups == (Eligible(s) \ {first}) \union (queue \intersect Eligible(s))
           failed == backups # {} /\ FailsOver(s, first)
           second == IF failed THEN Least(backups) ELSE first
           rest == IF failed THEN backups \ {second} ELSE backups
           calm == settled /\ (backups = {} \/ second = active)
           queued == Eligible(s) \ ({first} \union queue)
<1>1. /\ Eligible(s) \in SUBSET Taken(s) /\ Taken(s) \in SUBSET Slot /\ NoSlot \notin Slot
      /\ \A i \in Taken(s) \ Eligible(s) : ~s[i].eligible
  BY NoSuchSlot DEF Eligible, Taken
<1>2. IF first = NoSlot
      THEN slots' = s /\ active' = NoSlot /\ UNCHANGED <<queue, settled>>
      ELSE /\ slots' = [i \in Slot |-> [s[i] EXCEPT !.bonded = @ \/ i \in queued]]
           /\ \E left \in Outcomes(s, second, rest, calm) :
                  /\ active' = IF left THEN Least(rest) ELSE second
                  /\ queue' = IF left THEN rest \ {Least(rest)} ELSE rest
                  /\ settled' = (Unwatched \/ (calm /\ ~left))
  BY Zenon DEF ActiveBackupTasks
<1>3. CASE first = NoSlot
  <2>1. active \notin Taken(s) /\ Initial(s) = NoSlot
    BY <1>1, <1>3
  <2>2. \A i \in Eligible(s) : OnlyPrimaries /\ ~OnPrimary(s[i].path)
    BY <2>1, InitialFacts
  <2>3. slots' = s /\ active' = NoSlot /\ UNCHANGED <<queue, settled>>
    BY <1>2, <1>3
  <2> HIDE DEF first
  <2> QED
    BY <1>1, <2>2, <2>3 DEF SameSlots
<1>4. CASE first # NoSlot
  <2>1. first \in Taken(s) /\ (first \notin Eligible(s) => FailsOver(s, first))
    BY <1>1, <1>4, InitialFacts DEF FailsOver
  <2>2. backups \in SUBSET Eligible(s) /\ (backups = {} => Eligible(s) \subseteq {first})
    OBVIOUS
  <2>3. \A i \in Slot : (s[i].bonded \/ i \in queued) \in BOOLEAN
    OBVIOUS
  <2> HIDE DEF first, backups, queued
  <2>4. \A S \in SUBSET Slot : S # {} => Least(S) \in S
    BY FirstAndLast
  <2>5. /\ second \in Taken(s) /\ rest \in SUBSET Eligible(s)
        /\ second \in Eligible(s) \/ Eligible(s) = {}
    BY <1>1, <2>1, <2>2, <2>4
  <2> HIDE DEF second, rest, calm
  <2>6. PICK left \in Outcomes(s, second, rest, calm) :
            /\ active' = IF left THEN Least(rest) ELSE second
            /\ queue' = IF left THEN rest \ {Least(rest)} ELSE rest
            /\ settled' = (Unwatched \/ (calm /\ ~left))
    BY <1>2, <1>4
  <2>7. left => rest # {}
    BY DEF Outcomes
  <2>8. /\ active' \in Taken(s) /\ (active' \in Eligible(s) \/ Eligible(s) = {})
        /\ queue' \subseteq Slot
    BY <1>1, <2>4, <2>5, <2>6, <2>7
  <2>9. settled' \in BOOLEAN
    BY <2>6
  <2>10. slots' = [i \in Slot |-> [s[i] EXCEPT !.bonded = @ \/ i \in queued]]
    BY <1>2, <1>4
  <2>11. ASSUME NEW i \in Slot
         PROVE  /\ slots'[i] \in Nominated
                /\ slots'[i].path = s[i].path /\ slots'[i].eligible = s[i].eligible
    <3>1. slots'[i] = [s[i] EXCEPT !.bonded = s[i].bonded \/ i \in queued] /\ s[i] \in Nominated
      BY <2>10 DEF Table
    <3> QED
      BY <2>3, <3>1, BondedSlot, ZenonT(30)
  <2>12. slots' \in Table
    BY <2>10, <2>11 DEF Table
  <2> QED
    BY <1>1, <2>8, <2>9, <2>11, <2>12 DEF SameSlots
<1> QED
  BY <1>3, <1>4

----------------------------------------------------------------------------
(* What curateBond does to a bond that balances.                           *)

(* The map of bonded slots and the flags of the slots say the same of the  *)
(* slots that are taken, and what is bonded is eligible.                   *)
Mapped(s, idx) ==
    \A i \in Taken(s) :
        /\ s[i].bonded => s[i].eligible
        /\ s[i].bonded <=> \E k \in DOMAIN idx : idx[k] = i

Balanced == ~Backup => numBonded = Len(realIdx) /\ Mapped(slots, realIdx)

LEMMA SomeInBond ==
    ASSUME NEW s \in Table, NEW usable, NEW i \in Eligible(s), ~IsSpare(s[i].path)
    PROVE  InBond(s, usable) # {}
<1> DEFINE link == LinkAt(s, i)
           here == {j \in Eligible(s) : LinkAt(s, j) = link}
           spares == {j \in here : IsSpare(s[j].path)}
           first == {j \in here \ spares : Preferred(s[j])}
           choosy == link # NoLink /\ setup.pref[link] \in {46, 64} /\ first # {}
<1>1. FromLink(s, link, usable) =
          (IF usable THEN {} ELSE spares) \union (IF choosy THEN first ELSE here \ spares)
  BY Zenon DEF FromLink
<1>2. i \in here \ spares /\ (choosy => first # {}) /\ first \subseteq here
      /\ \A j \in here : LinkAt(s, j) = link /\ j \in Eligible(s)
  OBVIOUS
<1> HIDE DEF here, spares, first, choosy, link
<1>3. \E j \in here : j \in FromLink(s, link, usable)
  BY <1>1, <1>2
<1> QED
  BY <1>2, <1>3 DEF InBond

CuratedBond(c) ==
    /\ c.slots \in Table
    /\ c.realIdx \in Seq(Slot) /\ Len(c.realIdx) <= MaxPaths
    /\ c.numBonded = Len(c.realIdx)
    /\ Mapped(c.slots, c.realIdx)
    /\ (\E i \in Eligible(c.slots) : ~IsSpare(c.slots[i].path)) =>
           \E k \in DOMAIN c.realIdx : c.realIdx[k] \in Eligible(c.slots)
    /\ c.realIdx # realIdx => \A k \in DOMAIN c.realIdx : c.realIdx[k] \in Eligible(c.slots)

LEMMA RebuildsBond ==
    ASSUME NEW s \in Table, NEW usable, NEW t,
           t = [i \in Slot |-> [s[i] EXCEPT !.bonded = i \in InBond(s, usable)]]
    PROVE  CuratedBond([slots |-> t, realIdx |-> Rebuilt(s, usable), numBonded |-> Len(Rebuilt(s, usable))])
<1> DEFINE idx == Rebuilt(s, usable)
<1>1. /\ idx \in Seq(Slot) /\ Len(idx) \in 0..MaxPaths
      /\ \A i \in InBond(s, usable) : \E k \in DOMAIN idx : idx[k] = i
      /\ \A k \in DOMAIN idx : idx[k] \in InBond(s, usable)
  BY RebuiltFacts
<1>2. ASSUME NEW i \in Slot
      PROVE  /\ t[i] \in Nominated /\ t[i].path = s[i].path /\ t[i].eligible = s[i].eligible
             /\ t[i].bonded <=> i \in InBond(s, usable)
  <2>1. s[i] \in Nominated /\ (i \in InBond(s, usable)) \in BOOLEAN
        /\ t[i] = [s[i] EXCEPT !.bonded = i \in InBond(s, usable)]
    BY DEF Table
  <2> QED
    BY <2>1, BondedSlot, ZenonT(30)
<1>3. t \in Table /\ SameSlots(s, t)
  BY <1>2 DEF Table, SameSlots
<1>4. Taken(t) = Taken(s) /\ Eligible(t) = Eligible(s)
  BY <1>3, SameSets
<1>5. InBond(s, usable) \subseteq Eligible(s) /\ Eligible(s) \subseteq Taken(s)
      /\ \A i \in Taken(s) : i \in Slot /\ (i \in Eligible(s) <=> s[i].eligible)
  BY DEF InBond, Eligible, Taken
<1> HIDE DEF idx
<1>6. Mapped(t, idx)
  BY <1>1, <1>2, <1>4, <1>5 DEF Mapped
<1>7. ASSUME NEW i \in Eligible(t), ~IsSpare(t[i].path)
      PROVE  \E k \in DOMAIN idx : idx[k] \in Eligible(t)
  <2>1. i \in Eligible(s) /\ ~IsSpare(s[i].path)
    BY <1>2, <1>4, <1>5, <1>7
  <2>2. PICK j : j \in InBond(s, usable)
    BY <2>1, SomeInBond
  <2> QED
    BY <1>1, <1>4, <1>5, <2>2
<1> QED
  <2>1. Len(idx) <= MaxPaths
    BY <1>1
  <2>2. (\E i \in Eligible(t) : ~IsSpare(t[i].path)) => \E k \in DOMAIN idx : idx[k] \in Eligible(t)
    BY <1>7
  <2>3. \A k \in DOMAIN idx : idx[k] \in Eligible(t)
    BY <1>1, <1>4, <1>5
  <2>4. CuratedBond([slots |-> t, realIdx |-> idx, numBonded |-> Len(idx)])
    BY <1>1, <1>3, <1>6, <2>1, <2>2, <2>3 DEF CuratedBond
  <2> QED
    BY <2>4 DEF idx

(* When nothing noteworthy happened the bond is left as it is.             *)
LEMMA KeepsBond ==
    ASSUME TypeOK, Balanced, ~Backup, NEW fit, NEW alive, NEW anon,
           ~Changed(slots, fit, anon), FoundUsable(Curated(slots, fit, anon), alive)
    PROVE  CuratedBond([slots |-> Curated(slots, fit, anon), realIdx |-> realIdx, numBonded |-> numBonded])
<1> DEFINE cur == Curated(slots, fit, anon)
<1>1. slots \in Table /\ realIdx \in Seq(Slot) /\ Len(realIdx) <= MaxPaths
      /\ numBonded = Len(realIdx) /\ Mapped(slots, realIdx)
  BY DEF TypeOK, PathsTypeOK, Table, Balanced
<1>2. /\ cur \in Table /\ Taken(cur) \subseteq Taken(slots)
      /\ \A i \in Taken(cur) :
            /\ cur[i].path = slots[i].path
            /\ cur[i].eligible = EligibleNow(slots[i], fit)
            /\ cur[i].bonded = (slots[i].bonded /\ (EligibleNow(slots[i], fit) \/ ~slots[i].eligible))
  BY <1>1, CuratedFacts
<1>3. \A i \in Taken(cur) :
          ~(~EligibleNow(slots[i], fit) /\ slots[i].eligible /\ slots[i].bonded)
  BY DEF Changed
<1>4. PICK u \in Taken(cur) : cur[u].bonded
  BY DEF FoundUsable
<1> HIDE DEF cur
<1>5. \A i \in Taken(cur) : (cur[i].bonded <=> slots[i].bonded) /\ (cur[i].bonded => cur[i].eligible)
  BY <1>1, <1>2, <1>3 DEF Mapped
<1>6. Mapped(cur, realIdx)
  BY <1>1, <1>2, <1>5 DEF Mapped
<1>7. \E k \in DOMAIN realIdx : realIdx[k] \in Eligible(cur)
  BY <1>4, <1>5, <1>6 DEF Mapped, Eligible
<1> QED
  BY <1>1, <1>2, <1>6, <1>7 DEF CuratedBond, cur

LEMMA CuratedBonds ==
    ASSUME TypeOK, Balanced, ~Backup, NEW s \in Table, NEW fit, NEW alive, NEW anon, NEW rebuild,
           rebuild \/ s = slots
    PROVE  CuratedBond(CurateBond(s, fit, alive, anon, rebuild))
<1> DEFINE cur == Curated(s, fit, anon)
           usable == FoundUsable(cur, alive)
           idx == Rebuilt(cur, usable)
           new == [slots |-> [i \in Slot |-> [cur[i] EXCEPT !.bonded = i \in InBond(cur, usable)]],
                   realIdx |-> idx, numBonded |-> Len(idx)]
           old == [slots |-> cur, realIdx |-> realIdx, numBonded |-> numBonded]
           again == rebuild \/ Changed(s, fit, anon) \/ ~usable \/ numBonded = 0
<1>1. CurateBond(s, fit, alive, anon, rebuild) = IF again THEN new ELSE old
  BY Zenon DEF CurateBond
<1>2. CuratedBond(new)
  <2>1. cur \in Table
    BY CuratedFacts
  <2> HIDE DEF cur, usable
  <2> QED
    BY <2>1, RebuildsBond
<1>3. ~again => CuratedBond(old)
  BY KeepsBond
<1> HIDE DEF new, old, again
<1> QED
  BY <1>1, <1>2, <1>3

(* Active-backup leaves what balancing uses alone, and counts.             *)
LEMMA BackupCurated ==
    ASSUME TypeOK, Backup, NEW s \in Table, NEW fit, NEW alive, NEW anon, NEW rebuild
    PROVE  /\ CurateBond(s, fit, alive, anon, rebuild).slots \in Table
           /\ CurateBond(s, fit, alive, anon, rebuild).realIdx = realIdx
           /\ CurateBond(s, fit, alive, anon, rebuild).numBonded \in 0..MaxPaths
<1> DEFINE cur == Curated(s, fit, anon)
           bonded == {i \in Taken(cur) : cur[i].bonded}
<1>1. CurateBond(s, fit, alive, anon, rebuild)
        = [slots |-> cur, realIdx |-> realIdx, numBonded |-> Cardinality(bonded)]
  BY Zenon DEF CurateBond
<1>2. cur \in Table
  BY CuratedFacts
<1>3. Cardinality(bonded) \in 0..MaxPaths
  <2>1. bonded \in SUBSET Slot
    BY DEF Taken
  <2> QED
    BY <2>1, Slots
<1> HIDE DEF cur, bonded
<1> QED
  BY <1>1, <1>2, <1>3

----------------------------------------------------------------------------
(* What a bond refers to is there: an inductive invariant.                 *)
BondInv == TypeOK /\ Balanced

LEMMA InitBond == Init => BondInv
<1> SUFFICES ASSUME Init PROVE BondInv
  OBVIOUS
<1>1. slots \in Table
  BY FreeSlot DEF Init, PathsInit, Table
<1>2. Taken(slots) = {}
  BY FreeSlot DEF Init, PathsInit, Taken
<1>3. realIdx = <<>> /\ realIdx \in Seq(Slot) /\ Len(realIdx) = 0 /\ MaxPaths \in Nat
  BY DEF Init
<1>4. PathsTypeOK
  <2>1. setup \in Setups /\ lost = {} /\ nameless = FALSE /\ numBonded = 0
    BY DEF Init, PathsInit
  <2>2. 0 \in 0..MaxPaths
    BY <1>3
  <2> QED
    BY <1>1, <2>1, <2>2 DEF PathsTypeOK, Table
<1>5. TypeOK
  BY <1>3, <1>4 DEF Init, TypeOK, NoSlot
<1>6. Balanced
  BY <1>2, <1>3 DEF Balanced, Mapped, Init, PathsInit
<1> QED
  BY <1>5, <1>6 DEF BondInv

(* Where a flow is assigned.                                               *)
LEMMA AssignedSlot ==
    ASSUME NEW idx \in Seq(Slot), Len(idx) # 0, NEW f \in Flow
    PROVE  \E k \in DOMAIN idx : AssignedPath(f, idx) = idx[k] /\ idx[k] \in Slot
<1>1. Len(idx) \in Nat \ {0} /\ f \in Nat
  <2>1. f \in Nat
    BY FlowAssumption
  <2>2. Len(idx) \in Nat
    OBVIOUS
  <2> QED
    BY <2>1, <2>2
<1>2. f % Len(idx) \in 0..Len(idx) - 1
  <2>1. \A n \in Nat \ {0} : f % n \in 0..n - 1
    BY <1>1
  <2> QED
    BY <1>1, <2>1
<1>3. (f % Len(idx)) + 1 \in DOMAIN idx
  BY <1>1, <1>2
<1> QED
  BY <1>3 DEF AssignedPath

(* The slots of a bond that is put together anew, whatever its policy.     *)
LEMMA BalancedStep ==
    ASSUME BondInv, NEW s \in Table, NEW fit, NEW alive, NEW anon, NEW rebuild, rebuild \/ s = slots,
           NEW c, c = CurateBond(s, fit, alive, anon, rebuild),
           ~Backup, setup' = setup,
           slots' = c.slots, realIdx' = c.realIdx, numBonded' = c.numBonded
    PROVE  /\ CuratedBond(c) /\ slots' \in Table
           /\ realIdx' \in Seq(Slot) /\ Len(realIdx') <= MaxPaths
           /\ numBonded' \in 0..MaxPaths /\ Balanced'
<1>1. CuratedBond(c)
  BY CuratedBonds DEF BondInv
<1>2. /\ slots' \in Table /\ realIdx' \in Seq(Slot) /\ Len(realIdx') <= MaxPaths
      /\ numBonded' = Len(realIdx') /\ Mapped(slots', realIdx')
  BY <1>1 DEF CuratedBond
<1>3. Len(realIdx') \in Nat /\ MaxPaths \in Nat
  BY <1>2
<1>4. Balanced'
  BY <1>2 DEF Balanced, Mapped, Taken
<1> QED
  BY <1>1, <1>2, <1>3, <1>4

LEMMA NominateBond ==
    ASSUME BondInv, NEW path \in Path, NEW fit, NEW alive, Nominate(path, fit, alive)
    PROVE  BondInv'
<1> DEFINE c == CurateBond(WithNominee(path), fit, alive, NamelessAfter(path), TRUE)
<1>1. /\ slots' = c.slots /\ realIdx' = c.realIdx /\ numBonded' = c.numBonded
      /\ nameless' = NamelessAfter(path) /\ lost' = lost \intersect Present(slots')
      /\ UNCHANGED <<setup, active, queue, settled, flows, due>>
  BY DEF Nominate, backupVars
<1>2. TypeOK /\ WithNominee(path) \in Table
  BY NomineeTable DEF BondInv, TypeOK, PathsTypeOK, Table
<1>3. nameless' \in BOOLEAN
  BY <1>1, <1>2 DEF NamelessAfter, TypeOK, PathsTypeOK
<1>4. slots' \in Table /\ realIdx' \in Seq(Slot) /\ Len(realIdx') <= MaxPaths
      /\ numBonded' \in 0..MaxPaths /\ Balanced'
  <2>1. CASE Backup
    <3>1. /\ c.slots \in Table /\ c.realIdx = realIdx /\ c.numBonded \in 0..MaxPaths
      BY <1>2, <2>1, BackupCurated
    <3>2. Balanced'
      BY <1>1, <2>1 DEF Balanced, Backup
    <3> HIDE DEF c
    <3> QED
      BY <1>1, <1>2, <3>1, <3>2 DEF TypeOK
  <2>2. CASE ~Backup
    <3> QED
      BY <1>1, <1>2, <2>2, BalancedStep
  <2> QED
    BY <2>1, <2>2
<1>5. lost' \subseteq Present(slots')
  BY <1>1
<1> HIDE DEF c
<1>6. PathsTypeOK'
  BY <1>1, <1>2, <1>3, <1>4, <1>5 DEF TypeOK, PathsTypeOK, Table, Present, Taken
<1> QED
  BY <1>1, <1>2, <1>4, <1>6 DEF BondInv, TypeOK

(* The periodic tasks of active-backup.                                    *)
LEMMA BackupTasks ==
    ASSUME BondInv, Background, Backup
    PROVE  BondInv' /\ FailedOver'
<1>1. PICK fit, alive, idle : BackgroundTasks(fit, alive, idle)
  BY DEF Background
<1> DEFINE c == CurateBond(slots, fit, alive, nameless, FALSE)
<1>2. /\ realIdx' = c.realIdx /\ numBonded' = c.numBonded
      /\ ActiveBackupTasks(c.slots) /\ UNCHANGED <<flows, setup, nameless>>
      /\ lost' = lost \intersect Present(slots') /\ due' = FALSE
  BY <1>1 DEF BackgroundTasks, Background
<1>3. TypeOK /\ slots \in Table
  BY DEF BondInv, TypeOK, PathsTypeOK, Table
<1>4. c.slots \in Table /\ c.realIdx = realIdx /\ c.numBonded \in 0..MaxPaths
  BY <1>3, BackupCurated
<1> HIDE DEF c
<1>5. PICK s \in Table : s = c.slots
  BY <1>4
<1>6. /\ slots' \in Table /\ SameSlots(s, slots')
      /\ active' \in Slot \union {NoSlot} /\ queue' \subseteq Slot /\ settled' \in BOOLEAN
      /\ IF active' \in Taken(s) THEN active' \in Eligible(s) \/ Eligible(s) = {}
         ELSE \A i \in Eligible(s) : OnlyPrimaries /\ ~OnPrimary(s[i].path)
  BY <1>2, <1>3, <1>5, ActiveFacts DEF TypeOK
<1>7. Taken(slots') = Taken(s) /\ Eligible(slots') = Eligible(s)
  BY <1>6, SameSets
<1>8. FailedOver'
  <2>1. \A i \in Taken(s) : s[i].path \in lost' <=> s[i].path \in lost
    <3>1. \A i \in Taken(s) : i \in Slot /\ slots'[i].path = s[i].path
      BY <1>6 DEF Taken, SameSlots
    <3>2. \A i \in Taken(s) : s[i].path \in Present(slots')
      BY <1>7, <3>1 DEF Present
    <3> QED
      BY <1>2, <3>2
  <2>2. ASSUME NEW i \in Eligible(s), ~OnPrimary(s[i].path) PROVE ~OnPrimary(slots[i].path)'
    <3>1. i \in Taken(s) /\ slots'[i].path = s[i].path
      BY <1>6 DEF Eligible, Taken, SameSlots
    <3> QED
      BY <1>2, <2>1, <2>2, <3>1 DEF OnPrimary, IsSpare
  <2>3. OnlyPrimaries' = OnlyPrimaries
    BY <1>2 DEF OnlyPrimaries, UserHasSpecifiedPrimaryLink
  <2>4. Taken(slots)' = Taken(s) /\ Eligible(slots)' = Eligible(s)
    BY <1>7 DEF Taken, Eligible
  <2> QED
    BY <1>6, <2>2, <2>3, <2>4 DEF FailedOver
<1>9. PathsTypeOK'
  BY <1>2, <1>3, <1>4, <1>6 DEF TypeOK, PathsTypeOK, Table, Present, Taken
<1>10. Balanced'
  BY <1>2 DEF Balanced, Backup
<1> QED
  BY <1>2, <1>3, <1>4, <1>6, <1>8, <1>9, <1>10 DEF BondInv, TypeOK

(* The periodic tasks of a bond that balances.                             *)
LEMMA BalancingTasks ==
    ASSUME BondInv, Background, ~Backup
    PROVE  /\ BondInv'
           /\ (\E i \in Eligible(slots') : ~IsSpare(slots'[i].path)) =>
                 /\ Served'
                 /\ realIdx' # realIdx => Listed' \subseteq Eligible(slots')
<1>1. PICK fit, alive, idle : BackgroundTasks(fit, alive, idle)
  BY DEF Background
<1> DEFINE c == CurateBond(slots, fit, alive, nameless, FALSE)
<1>2. /\ slots' = c.slots /\ realIdx' = c.realIdx /\ numBonded' = c.numBonded
      /\ BalanceTasks(c, idle) /\ UNCHANGED <<active, queue, settled, setup, nameless>>
      /\ lost' = lost \intersect Present(slots') /\ due' = FALSE
  BY <1>1 DEF BackgroundTasks, Background, backupVars
<1>3. TypeOK /\ slots \in Table
  BY DEF BondInv, TypeOK, PathsTypeOK, Table
<1>4. /\ CuratedBond(c) /\ slots' \in Table
      /\ realIdx' \in Seq(Slot) /\ Len(realIdx') <= MaxPaths
      /\ numBonded' \in 0..MaxPaths /\ Balanced'
  BY <1>2, <1>3, BalancedStep
<1> HIDE DEF c
<1>5. numBonded' = Len(realIdx') /\ Mapped(slots', realIdx')
  BY <1>2, <1>4 DEF CuratedBond
<1>6. flows' = IF numBonded' = 0 THEN flows
               ELSE [f \in Flow |-> IF flows[f] = 0 \/ f \in idle THEN 0
                                    ELSE Moved(slots', realIdx', f)]
  BY <1>2 DEF BalanceTasks
<1>7. ASSUME NEW f \in Flow, numBonded' # 0
      PROVE  \E k \in DOMAIN realIdx' : /\ AssignedPath(f, realIdx') = realIdx'[k]
                                        /\ realIdx'[k] \in Slot
  BY <1>4, <1>5, <1>7, AssignedSlot
<1>8. flows' \in [Flow -> Slot \union {0}]
  <2>1. CASE numBonded' = 0
    BY <1>3, <1>6, <2>1 DEF TypeOK
  <2>2. CASE numBonded' # 0
    <3>1. \A f \in Flow : Moved(slots', realIdx', f) \in Slot \union {0}
      BY <1>3, <1>7, <2>2 DEF Moved, TypeOK
    <3> QED
      BY <1>6, <2>2, <3>1
  <2> QED
    BY <2>1, <2>2
<1>9. PathsTypeOK'
  BY <1>2, <1>3, <1>4 DEF TypeOK, PathsTypeOK, Table, Present, Taken
<1>10. BondInv'
  BY <1>2, <1>3, <1>4, <1>8, <1>9 DEF BondInv, TypeOK
<1>11. ASSUME \E i \in Eligible(slots') : ~IsSpare(slots'[i].path)
       PROVE  /\ Served'
              /\ realIdx' # realIdx => Listed' \subseteq Eligible(slots')
  <2>1. PICK k \in DOMAIN realIdx' : realIdx'[k] \in Eligible(slots')
    BY <1>2, <1>4, <1>11 DEF CuratedBond
  <2>2. Taken(slots)' = Taken(slots') /\ Eligible(slots)' = Eligible(slots')
    BY DEF Taken, Eligible
  <2>3. numBonded' # 0
    BY <1>4, <1>5, <2>1
  <2>4. \A m \in DOMAIN realIdx' : realIdx'[m] \in Taken(slots') => realIdx'[m] \in Eligible(slots')
    BY <1>5 DEF Mapped, Eligible
  <2>5. 0 \notin Taken(slots')
    BY DEF Taken, Slot
  <2>6. ASSUME NEW f \in Flow, flows'[f] \in Taken(slots')
        PROVE  flows'[f] \in Eligible(slots')
    <3>1. flows'[f] = Moved(slots', realIdx', f)
      BY <1>6, <2>3, <2>5, <2>6
    <3>2. CASE flows[f] \in Taken(slots') /\ ~slots'[flows[f]].eligible
      BY <1>7, <2>3, <2>4, <2>6, <3>1, <3>2 DEF Moved
    <3>3. CASE ~(flows[f] \in Taken(slots') /\ ~slots'[flows[f]].eligible)
      BY <2>6, <3>1, <3>3 DEF Moved, Eligible
    <3> QED
      BY <3>2, <3>3
  <2>7. Listed' \intersect Eligible(slots') # {}
    BY <2>1 DEF Listed
  <2>8. InUse' \intersect Taken(slots') \subseteq Eligible(slots')
    BY <2>4, <2>6 DEF InUse, Listed
  <2>9. Served'
    BY <2>2, <2>7, <2>8 DEF Served
  <2>10. realIdx' # realIdx => \A m \in DOMAIN realIdx' : realIdx'[m] \in Eligible(slots')
    BY <1>2, <1>4 DEF CuratedBond
  <2> QED
    BY <2>9, <2>10 DEF Listed
<1> QED
  BY <1>10, <1>11

LEMMA AgedSlot ==
    ASSUME NEW n \in Nominated
    PROVE  LET m == [n EXCEPT !.nominated = Older(@, Trial), !.lapsed = Older(@, Expired + 1)]
           IN  /\ m \in Nominated
               /\ m.path = n.path /\ m.eligible = n.eligible /\ m.bonded = n.bonded
<1> DEFINE a == Older(n.nominated, Trial)
           b == Older(n.lapsed, Expired + 1)
<1>1. /\ Trial \in Nat /\ Expired \in Nat
      /\ n.nominated \in 0..Trial /\ n.lapsed \in 0..Expired + 1
  BY DEF Nominated
<1>2. a \in 0..Trial /\ b \in 0..Expired + 1
  BY <1>1 DEF Older
<1> HIDE DEF a, b
<1>3. /\ [n EXCEPT !.nominated = a, !.lapsed = b] \in Nominated
      /\ [n EXCEPT !.nominated = a, !.lapsed = b].path = n.path
      /\ [n EXCEPT !.nominated = a, !.lapsed = b].eligible = n.eligible
      /\ [n EXCEPT !.nominated = a, !.lapsed = b].bonded = n.bonded
  BY <1>2 DEF Nominated
<1> QED
  BY <1>3 DEF a, b

LEMMA TickBond == BondInv /\ Tick => BondInv'
<1> SUFFICES ASSUME BondInv, Tick PROVE BondInv'
  OBVIOUS
<1> DEFINE aged(i) == [slots[i] EXCEPT !.nominated = Older(@, Trial), !.lapsed = Older(@, Expired + 1)]
<1>1. TypeOK /\ Balanced /\ slots \in Table
  BY DEF BondInv, TypeOK, PathsTypeOK, Table
<1>2. slots' = [i \in Slot |-> IF i \notin Taken(slots) THEN slots[i] ELSE aged(i)]
  BY DEF Tick, Age
<1>3. ASSUME NEW i \in Slot
      PROVE  /\ slots'[i] \in Nominated /\ slots'[i].path = slots[i].path
             /\ slots'[i].eligible = slots[i].eligible /\ slots'[i].bonded = slots[i].bonded
  <2>1. slots[i] \in Nominated
    BY <1>1 DEF Table
  <2>2. /\ aged(i) \in Nominated /\ aged(i).path = slots[i].path
        /\ aged(i).eligible = slots[i].eligible /\ aged(i).bonded = slots[i].bonded
    BY <2>1, AgedSlot
  <2> HIDE DEF aged
  <2> QED
    BY <1>2, <2>1, <2>2
<1> HIDE DEF aged
<1>4. slots' \in Table /\ SameSlots(slots, slots')
  BY <1>2, <1>3 DEF Table, SameSlots
<1>5. Taken(slots') = Taken(slots) /\ Present(slots') = Present(slots)
  BY <1>4, SameSets
<1>6. UNCHANGED <<setup, lost, nameless, numBonded, active, queue, realIdx, flows>>
      /\ settled' = TRUE /\ due' = TRUE
  BY DEF Tick, Age, balanceVars
<1>7. PathsTypeOK'
  BY <1>1, <1>4, <1>5, <1>6 DEF TypeOK, PathsTypeOK, Table, Present, Taken
<1>8. Mapped(slots, realIdx) => Mapped(slots', realIdx)
  <2>1. \A i \in Taken(slots) : i \in Slot
    BY DEF Taken
  <2> QED
    BY <1>3, <1>5, <2>1 DEF Mapped
<1>9. Balanced'
  BY <1>1, <1>6, <1>8 DEF Balanced, Mapped, Backup, Taken
<1> QED
  BY <1>1, <1>6, <1>7, <1>9 DEF BondInv, TypeOK

LEMMA NextBond == BondInv /\ [Next]_vars => BondInv'
<1> SUFFICES ASSUME BondInv, [Next]_vars PROVE BondInv'
  OBVIOUS
<1>t. TypeOK /\ Balanced /\ PathsTypeOK
  BY DEF BondInv, TypeOK
<1>a. UNCHANGED pathVars => PathsTypeOK'
  BY <1>t DEF pathVars, PathsTypeOK, Present, Taken
<1>b. UNCHANGED <<slots, setup, numBonded, realIdx>> => Balanced'
  BY <1>t DEF Balanced, Mapped, Backup, Taken
<1>1. ASSUME NEW path \in Path, NEW fit \in SUBSET Present(slots), NEW alive \in Lively,
             Nominate(path, fit, alive)
      PROVE  BondInv'
  BY <1>1, NominateBond
<1>2. ASSUME Background PROVE BondInv'
  BY <1>2, BackupTasks, BalancingTasks
<1>3. ASSUME NEW path \in Path, Unbind(path), UNCHANGED <<backupVars, balanceVars, due>>
      PROVE  BondInv'
  <2>1. UNCHANGED <<setup, slots, nameless, numBonded, active, queue, settled, realIdx, flows, due>>
        /\ lost' \subseteq Present(slots)
    BY <1>3, <1>t DEF Unbind, backupVars, balanceVars, PathsTypeOK
  <2>2. PathsTypeOK'
    BY <1>t, <2>1 DEF PathsTypeOK, Present, Taken
  <2> QED
    BY <1>t, <1>b, <2>1, <2>2 DEF BondInv, TypeOK
<1>4. ASSUME Rotate PROVE BondInv'
  <2>1. Least(queue) \in Slot
    BY <1>4, <1>t, FirstAndLast DEF Rotate, TypeOK
  <2>2. UNCHANGED pathVars /\ UNCHANGED <<slots, setup, numBonded, realIdx>> /\ UNCHANGED <<realIdx, flows, due>>
    BY <1>4 DEF Rotate, pathVars, balanceVars
  <2>3. active' = Least(queue) /\ queue' \subseteq queue /\ settled' \in BOOLEAN
    BY <1>4 DEF Rotate, Unwatched
  <2> QED
    BY <1>t, <1>a, <1>b, <2>1, <2>2, <2>3 DEF BondInv, TypeOK
<1>5. ASSUME NEW f \in Flow, SendFlow(f) PROVE BondInv'
  <2>1. UNCHANGED pathVars /\ UNCHANGED <<slots, setup, numBonded, realIdx>>
        /\ UNCHANGED <<active, queue, settled, due>>
        /\ ~Backup /\ numBonded > 0
        /\ flows' = [flows EXCEPT ![f] = AssignedPath(f, realIdx)]
    BY <1>5 DEF SendFlow, pathVars, backupVars
  <2>2. Len(realIdx) # 0
    BY <1>t, <2>1 DEF Balanced
  <2>3. AssignedPath(f, realIdx) \in Slot
    BY <1>t, <2>2, AssignedSlot DEF TypeOK
  <2>4. flows' \in [Flow -> Slot \union {0}]
    BY <1>t, <2>1, <2>3 DEF TypeOK
  <2> QED
    BY <1>t, <1>a, <1>b, <2>1, <2>4 DEF BondInv, TypeOK
<1>6. ASSUME NEW f \in Flow, NEW i \in Slot, ReceiveFlow(f, i) PROVE BondInv'
  <2>1. UNCHANGED pathVars /\ UNCHANGED <<slots, setup, numBonded, realIdx>>
        /\ UNCHANGED <<active, queue, settled, due>>
        /\ flows' = [flows EXCEPT ![f] = i]
    BY <1>6 DEF ReceiveFlow, pathVars, backupVars
  <2>2. flows' \in [Flow -> Slot \union {0}]
    BY <1>t, <2>1 DEF TypeOK
  <2> QED
    BY <1>t, <1>a, <1>b, <2>1, <2>2 DEF BondInv, TypeOK
<1>7. ASSUME Tick PROVE BondInv'
  BY <1>7, TickBond
<1>8. ASSUME Wait PROVE BondInv'
  <2>1. UNCHANGED pathVars /\ UNCHANGED <<slots, setup, numBonded, realIdx>>
        /\ UNCHANGED <<active, queue, settled, flows>> /\ due' = TRUE
    BY <1>8 DEF Wait, pathVars, backupVars, balanceVars
  <2> QED
    BY <1>t, <1>a, <1>b, <2>1 DEF BondInv, TypeOK
<1>9. ASSUME UNCHANGED vars PROVE BondInv'
  <2>1. UNCHANGED pathVars /\ UNCHANGED <<slots, setup, numBonded, realIdx>>
        /\ UNCHANGED <<active, queue, settled, flows, due>>
    BY <1>9 DEF vars, pathVars, backupVars, balanceVars
  <2> QED
    BY <1>t, <1>a, <1>b, <2>1 DEF BondInv, TypeOK
<1> QED
  BY <1>1, <1>2, <1>3, <1>4, <1>5, <1>6, <1>7, <1>8, <1>9 DEF Next

LEMMA BondAlways == Spec => []BondInv
  BY InitBond, NextBond, PTL DEF Spec

(* Every reachable state is well formed: the numbers of slots that a bond  *)
(* keeps are numbers of slots, and a flow is only assigned to a bond that  *)
(* has a path (curateBond, assignFlowToBondedPath).                        *)
THEOREM TypeCorrect == Spec => []TypeOK
<1>1. BondInv => TypeOK
  BY DEF BondInv
<1> QED
  BY <1>1, BondAlways, PTL

(* Only the periodic tasks use up the time at which they are due.          *)
LEMMA OnlyTasksRun == [Next]_vars /\ Ran => Background
<1> SUFFICES ASSUME [Next]_vars, due' # due, due PROVE Background
  BY DEF Ran
<1> QED
  BY DEF Next, vars, Nominate, Rotate, SendFlow, ReceiveFlow, Tick, Wait

(* After the periodic tasks of active-backup an eligible path is active if *)
(* there is one, unless the bond waits for a primary link                  *)
(* (processActiveBackupTasks).                                             *)
THEOREM FailoverInTime == Spec => FailsOverInTime
<1>1. BondInv /\ [Next]_vars => (Ran /\ Backup => FailedOver')
  BY OnlyTasksRun, BackupTasks
<1>2. BondInv /\ [Next]_vars => [Ran /\ Backup => FailedOver']_vars
  BY <1>1
<1> QED
  BY <1>2, BondAlways, PTL DEF Spec, FailsOverInTime

(* While a primary path is eligible, the periodic tasks of a bond that     *)
(* balances leave an eligible slot in its map, nothing in the map and no   *)
(* flow on a path that is there and dead, and only eligible slots in a map *)
(* they put together anew; slots that were emptied since then are what     *)
(* they leave without a path (curateBond, processBalanceTasks).            *)
THEOREM BalancedTrafficServed == Spec => BalanceServes
<1>1. BondInv /\ [Next]_vars =>
          (Ran /\ ~Backup /\ (\E i \in Eligible(slots') : ~IsSpare(slots'[i].path))
              => /\ Served'
                 /\ realIdx' # realIdx => Listed' \subseteq Eligible(slots'))
  BY OnlyTasksRun, BalancingTasks
<1>2. BondInv /\ [Next]_vars =>
          [Ran /\ ~Backup /\ (\E i \in Eligible(slots') : ~IsSpare(slots'[i].path))
              => /\ Served'
                 /\ realIdx' # realIdx => Listed' \subseteq Eligible(slots')]_vars
  BY <1>1
<1> QED
  BY <1>2, BondAlways, PTL DEF Spec, BalanceServes

----------------------------------------------------------------------------
(* No path has two slots.                                                  *)
PathsOnce(s) == \A i, j \in Taken(s) : s[i].path = s[j].path => i = j

(* Some slots of a table, with the paths they have there.                  *)
Within(t, s) == Taken(t) \subseteq Taken(s) /\ \A i \in Taken(t) : t[i].path = s[i].path

LEMMA OnceWithin ==
    ASSUME NEW s, NEW t, PathsOnce(s), Within(t, s)
    PROVE  PathsOnce(t)
  BY DEF PathsOnce, Within

LEMMA NomineeOnce ==
    ASSUME slots \in Table, PathsOnce(slots), NEW path \in Path
    PROVE  PathsOnce(WithNominee(path))
<1> DEFINE others == {j \in Taken(slots) : slots[j].path \notin lost /\ LinkOf[slots[j].path] = LinkOf[path]}
           alone == others = {}
           free == Slot \ Taken(slots)
           first == CHOOSE i \in free : \A j \in free : i <= j
           nominee == [Free EXCEPT !.path = path, !.nominated = 0, !.only = alone]
           other(i) == [slots[i] EXCEPT !.only = @ /\ i \notin others]
           with == [i \in Slot |-> IF i = first THEN nominee ELSE other(i)]
<1>1. nominee.path = path
  <2> HIDE DEF alone
  <2> QED
    BY DEF Free
<1>2. ASSUME NEW i \in Slot PROVE other(i).path = slots[i].path
  <2>1. slots[i] \in Nominated
    BY DEF Table
  <2> HIDE DEF others
  <2> QED
    BY <2>1 DEF Nominated
<1>3. WithNominee(path) = IF path \in Present(slots) \/ free = {} THEN slots ELSE with
  BY Zenon DEF WithNominee
<1> HIDE DEF nominee, other, first, free
<1>4. ASSUME NEW i \in Slot
      PROVE  with[i].path = IF i = first THEN path ELSE slots[i].path
  BY <1>1, <1>2
<1> HIDE DEF with
<1>5. ASSUME path \notin Present(slots) PROVE PathsOnce(with)
  <2>1. \A i \in Taken(slots) : slots[i].path # path
    BY <1>5 DEF Present
  <2>2. \A i \in Taken(with) : i \in Slot /\ (i # first => i \in Taken(slots))
    BY <1>4 DEF Taken
  <2>3. SUFFICES ASSUME NEW i \in Taken(with), NEW j \in Taken(with), with[i].path = with[j].path
                 PROVE  i = j
    BY DEF PathsOnce
  <2> QED
    BY <1>4, <2>1, <2>2, <2>3 DEF PathsOnce
<1> QED
  BY <1>3, <1>5

(* curateBond only frees slots, and lists them anew or not at all.         *)
LEMMA CurateWithin ==
    ASSUME NEW s \in Table, NEW fit, NEW alive, NEW anon, NEW rebuild, ListedOnce(realIdx)
    PROVE  /\ Within(CurateBond(s, fit, alive, anon, rebuild).slots, s)
           /\ ListedOnce(CurateBond(s, fit, alive, anon, rebuild).realIdx)
<1> DEFINE cur == Curated(s, fit, anon)
           usable == FoundUsable(cur, alive)
           idx == Rebuilt(cur, usable)
           bond == [i \in Slot |-> [cur[i] EXCEPT !.bonded = i \in InBond(cur, usable)]]
           counted == Cardinality({i \in Taken(cur) : cur[i].bonded})
           again == rebuild \/ Changed(s, fit, anon) \/ ~usable \/ numBonded = 0
<1>1. CurateBond(s, fit, alive, anon, rebuild)
        = IF Backup THEN [slots |-> cur, realIdx |-> realIdx, numBonded |-> counted]
          ELSE IF again THEN [slots |-> bond, realIdx |-> idx, numBonded |-> Len(idx)]
          ELSE [slots |-> cur, realIdx |-> realIdx, numBonded |-> numBonded]
  BY Zenon DEF CurateBond
<1>2. cur \in Table /\ Within(cur, s)
  BY CuratedFacts DEF Within
<1> HIDE DEF cur, usable
<1>3. ListedOnce(idx)
  BY <1>2, RebuiltFacts
<1>4. Within(bond, s)
  <2>1. ASSUME NEW i \in Slot PROVE bond[i].path = cur[i].path
    <3>1. cur[i] \in Nominated /\ (i \in InBond(cur, usable)) \in BOOLEAN
      BY <1>2 DEF Table
    <3> QED
      BY <3>1, BondedSlot, ZenonT(30)
  <2>2. \A i \in Taken(bond) : i \in Slot /\ i \in Taken(cur) /\ bond[i].path = cur[i].path
    BY <2>1 DEF Taken
  <2> HIDE DEF bond
  <2> QED
    BY <1>2, <2>2 DEF Within
<1> HIDE DEF idx, bond, counted, again
<1> QED
  BY <1>1, <1>2, <1>3, <1>4

OnceInv == PathsOnce(slots) /\ ListedOnce(realIdx)

LEMMA NominateOnce ==
    ASSUME BondInv, OnceInv, NEW path \in Path, NEW fit, NEW alive, Nominate(path, fit, alive)
    PROVE  OnceInv'
<1> DEFINE c == CurateBond(WithNominee(path), fit, alive, NamelessAfter(path), TRUE)
<1>1. slots' = c.slots /\ realIdx' = c.realIdx
  BY DEF Nominate
<1>2. slots \in Table
  BY DEF BondInv, TypeOK, PathsTypeOK, Table
<1>3. WithNominee(path) \in Table /\ PathsOnce(WithNominee(path))
  BY <1>2, NomineeTable, NomineeOnce DEF OnceInv
<1>4. Within(c.slots, WithNominee(path)) /\ ListedOnce(c.realIdx)
  BY <1>3, CurateWithin DEF OnceInv
<1> HIDE DEF c
<1>5. PathsOnce(c.slots)
  BY <1>3, <1>4, OnceWithin
<1> QED
  BY <1>1, <1>4, <1>5 DEF OnceInv, PathsOnce, ListedOnce, Taken

LEMMA BackgroundOnce ==
    ASSUME BondInv, OnceInv, Background
    PROVE  OnceInv'
<1>1. PICK fit, alive, idle : BackgroundTasks(fit, alive, idle)
  BY DEF Background
<1> DEFINE c == CurateBond(slots, fit, alive, nameless, FALSE)
<1>2. /\ realIdx' = c.realIdx
      /\ Backup => ActiveBackupTasks(c.slots)
      /\ ~Backup => slots' = c.slots
  BY <1>1 DEF BackgroundTasks
<1>3. TypeOK /\ slots \in Table
  BY DEF BondInv, TypeOK, PathsTypeOK, Table
<1>4. Within(c.slots, slots) /\ ListedOnce(c.realIdx)
  BY <1>3, CurateWithin DEF OnceInv
<1>5. Backup => c.slots \in Table
  BY <1>3, BackupCurated
<1> HIDE DEF c
<1>6. PathsOnce(c.slots)
  BY <1>4, OnceWithin DEF OnceInv
<1>7. PathsOnce(slots')
  <2>1. CASE Backup
    <3>1. PICK s \in Table : s = c.slots
      BY <1>5, <2>1
    <3>2. SameSlots(s, slots')
      BY <1>2, <1>3, <2>1, <3>1, ActiveFacts DEF TypeOK
    <3>3. Within(slots', s)
      BY <3>2, SameSets DEF Within, SameSlots, Taken
    <3> QED
      BY <1>6, <3>1, <3>3, OnceWithin
  <2>2. CASE ~Backup
    BY <1>2, <1>6, <2>2
  <2> QED
    BY <2>1, <2>2
<1> QED
  BY <1>2, <1>4, <1>7 DEF OnceInv, PathsOnce, ListedOnce, Taken

LEMMA TickOnce ==
    ASSUME BondInv, OnceInv, Tick
    PROVE  OnceInv'
<1> DEFINE aged(i) == [slots[i] EXCEPT !.nominated = Older(@, Trial), !.lapsed = Older(@, Expired + 1)]
<1>1. slots \in Table
  BY DEF BondInv, TypeOK, PathsTypeOK, Table
<1>2. slots' = [i \in Slot |-> IF i \notin Taken(slots) THEN slots[i] ELSE aged(i)]
      /\ realIdx' = realIdx
  BY DEF Tick, Age, balanceVars
<1>3. ASSUME NEW i \in Slot PROVE slots'[i].path = slots[i].path
  <2>1. slots[i] \in Nominated
    BY <1>1 DEF Table
  <2>2. aged(i).path = slots[i].path
    BY <2>1, AgedSlot
  <2> HIDE DEF aged
  <2> QED
    BY <1>2, <2>2
<1>4. Within(slots', slots)
  BY <1>3 DEF Within, Taken
<1>5. PathsOnce(slots')
  BY <1>4, OnceWithin DEF OnceInv
<1> QED
  BY <1>2, <1>5 DEF OnceInv, PathsOnce, ListedOnce, Taken

LEMMA NextOnce == BondInv /\ OnceInv /\ [Next]_vars => OnceInv'
<1> SUFFICES ASSUME BondInv, OnceInv, [Next]_vars PROVE OnceInv'
  OBVIOUS
<1>1. UNCHANGED <<slots, realIdx>> => OnceInv'
  BY DEF OnceInv, PathsOnce, ListedOnce, Taken
<1>2. ASSUME NEW path \in Path, NEW fit \in SUBSET Present(slots), NEW alive \in Lively,
             Nominate(path, fit, alive)
      PROVE  OnceInv'
  BY <1>2, NominateOnce
<1>3. ASSUME NEW path \in Path, Unbind(path), UNCHANGED <<backupVars, balanceVars, due>>
      PROVE  UNCHANGED <<slots, realIdx>>
  BY <1>3 DEF Unbind, balanceVars
<1>4. ASSUME Rotate \/ Wait \/ UNCHANGED vars PROVE UNCHANGED <<slots, realIdx>>
  BY <1>4 DEF Rotate, Wait, vars, pathVars, balanceVars
<1>5. ASSUME NEW f \in Flow, SendFlow(f) \/ \E i \in Slot : ReceiveFlow(f, i)
      PROVE  UNCHANGED <<slots, realIdx>>
  BY <1>5 DEF SendFlow, ReceiveFlow, pathVars
<1> QED
  BY <1>1, <1>2, <1>3, <1>4, <1>5, BackgroundOnce, TickOnce DEF Next

(* A path that is nominated again keeps its one slot. A bond that balances *)
(* lists of the slots in use those that are bonded and no others, each     *)
(* once, and none of a path that was found dead: no path gets two shares   *)
(* of the flows (nominatePathToBond, curateBond).                          *)
THEOREM EqualShares == Spec => [](Balanced /\ PathsOnce(slots) /\ ListedOnce(realIdx))
<1>1. Init => OnceInv
  <2>1. ASSUME Init PROVE Taken(slots) = {} /\ DOMAIN realIdx = {}
    BY <2>1, FreeSlot DEF Init, PathsInit, Taken
  <2> QED
    BY <2>1 DEF OnceInv, PathsOnce, ListedOnce
<1>2. BondInv /\ OnceInv => Balanced /\ PathsOnce(slots) /\ ListedOnce(realIdx)
  BY DEF BondInv, OnceInv
<1> QED
  BY <1>1, <1>2, BondAlways, NextOnce, PTL DEF Spec
=============================================================================
