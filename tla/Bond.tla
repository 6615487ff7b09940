-------------------------------- MODULE Bond --------------------------------
(***************************************************************************)
(* A bond (src/generator/node/Bond.cpp): one path is active and the others *)
(* are its backup, or the flows of traffic are spread over all of them.    *)
(* Every operation holds the lock of the paths and is one step; the hard   *)
(* part is that paths come, fail and vanish in steps of their own, and     *)
(* only the periodic tasks put right what refers to their slots.           *)
(*                                                                         *)
(* The failover queue is always in the order of the slots, so it is a set  *)
(* of which the front is the least.                                        *)
(***************************************************************************)
EXTENDS BondPaths

CONSTANT Flow
ASSUME FlowAssumption == Flow \subseteq Nat

VARIABLES
    active,         \* _abPathIdx, NoSlot if none
    queue,          \* _abFailoverQueue
    settled,        \* _lastActiveBackupPathChange is long ago
    realIdx,        \* _realIdxMap: the slots of the bonded paths
    flows,          \* slot of each flow, 0 if it is not known
    due             \* _lastBackgroundTaskCheck is long enough ago

backupVars == <<active, queue, settled>>
balanceVars == <<realIdx, flows>>
vars == <<pathVars, backupVars, balanceVars, due>>

TypeOK ==
    /\ PathsTypeOK
    /\ active \in Slot \union {NoSlot} /\ queue \subseteq Slot
    /\ settled \in BOOLEAN
    /\ realIdx \in Seq(Slot) /\ Len(realIdx) <= MaxPaths
    /\ flows \in [Flow -> Slot \union {0}]
    /\ due \in BOOLEAN

Init ==
    /\ PathsInit
    /\ active = NoSlot /\ queue = {} /\ settled = TRUE
    /\ realIdx = <<>> /\ flows = [f \in Flow |-> 0]
    /\ due = TRUE

Backup == setup.policy = "ACTIVE_BACKUP"
Least(set) == CHOOSE i \in set : \A j \in set : i <= j
Greatest(set) == CHOOSE i \in set : \A j \in set : j <= i

----------------------------------------------------------------------------
(* Sockets of no interface share one link, the last in the order of links. *)
LinkAt(s, i) == IF s[i].path \in lost THEN NoLink ELSE LinkOf[s[i].path]

(* Mutant: a link whose preferred family has no path is left out.          *)
FromLink_Preferred(s, link, usable) ==
    LET here == {i \in Eligible(s) : LinkAt(s, i) = link}
        spares == {i \in here : IsSpare(s[i].path)}
        first == {i \in here \ spares : Preferred(s[i])}
        choosy == link # NoLink /\ setup.pref[link] \in {46, 64}
    IN  (IF usable THEN {} ELSE spares)
        \union (IF choosy THEN first ELSE here \ spares)

(* The slots of one link that go into the bond: spares if no bonded path   *)
(* is alive, and of the others those of the preferred family, if any.      *)
FromLink(s, link, usable) ==
    LET here == {i \in Eligible(s) : LinkAt(s, i) = link}
        spares == {i \in here : IsSpare(s[i].path)}
        first == {i \in here \ spares : Preferred(s[i])}
        choosy == link # NoLink /\ setup.pref[link] \in {46, 64} /\ first # {}
    IN  (IF usable THEN {} ELSE spares)
        \union (IF choosy THEN first ELSE here \ spares)

InBond(s, usable) == {i \in Eligible(s) : i \in FromLink(s, LinkAt(s, i), usable)}

(* They are added link by link, spares first, in the order of the slots.   *)
Before(s, i, j) ==
    IF LinkAt(s, i) # LinkAt(s, j)
    THEN LinkAt(s, i) # NoLink /\ (LinkAt(s, j) # NoLink => LinkAt(s, i) < LinkAt(s, j))
    ELSE IF IsSpare(s[i].path) # IsSpare(s[j].path) THEN IsSpare(s[i].path)
    ELSE i < j

Upto(s, set, i) == {j \in set : j = i \/ Before(s, j, i)}

Rebuilt(s, usable) ==
    LET set == InBond(s, usable)
    IN  [k \in 1..Cardinality(set) |-> CHOOSE i \in set : Cardinality(Upto(s, set, i)) = k]

(* curateBond: the slots, and what is bonded.                              *)
CurateBond(s, fit, alive, anon, rebuild) ==
    LET cur == Curated(s, fit, anon)
        usable == FoundUsable(cur, alive)
        idx == Rebuilt(cur, usable)
    IN  IF Backup
        THEN [slots |-> cur, realIdx |-> realIdx,
              numBonded |-> Cardinality({i \in Taken(cur) : cur[i].bonded})]
        ELSE IF rebuild \/ Changed(s, fit, anon) \/ ~usable \/ numBonded = 0
        THEN [slots |-> [i \in Slot |-> [cur[i] EXCEPT !.bonded = i \in InBond(cur, usable)]],
              realIdx |-> idx, numBonded |-> Len(idx)]
        ELSE [slots |-> cur, realIdx |-> realIdx, numBonded |-> numBonded]

(* Peer learned a path.                                                    *)
Nominate(path, fit, alive) ==
    /\ path \notin lost /\ LinkAllowed(path)
    /\ \E c \in {CurateBond(WithNominee(path), fit, alive, NamelessAfter(path), TRUE)} :
            /\ slots' = c.slots /\ realIdx' = c.realIdx /\ numBonded' = c.numBonded
    /\ nameless' = NamelessAfter(path)
    /\ lost' = lost \intersect Present(slots')
    /\ UNCHANGED <<setup, backupVars, flows, due>>

----------------------------------------------------------------------------
UserHasSpecifiedPrimaryLink == setup.links \ setup.spare # {}

(* Among paths of primary links the preferred one is taken, but one before *)
(* it that is not preferred takes its place.                               *)
Primary(s) ==
    LET here == {i \in Eligible(s) : OnPrimary(s[i].path)}
        first == {i \in here : Preferred(s[i])}
        before == {i \in here \ first : \A j \in first : i < j}
    IN  IF before # {} THEN Greatest(before) ELSE IF first # {} THEN Least(first) ELSE NoSlot

(* Select the initial active path.                                         *)
Initial(s) ==
    IF setup.links # {} /\ UserHasSpecifiedPrimaryLink THEN Primary(s)
    ELSE IF Eligible(s) # {} THEN Least(Eligible(s)) ELSE NoSlot

(* failoverScore, an integer, so that of a relative quality only 1 counts. *)
Score(s, i, sole) ==
    (IF i = sole THEN 1 ELSE 0)
    + IF OnPrimary(s[i].path) /\ setup.select # "OPTIMIZE" THEN 1000
      ELSE IF Preferred(s[i]) THEN 500 ELSE 0

(* Primary re-select obligations: is the active path left for the next?    *)
Reselects(s, i, next, calm, sole) ==
    \/ /\ setup.select \in {"ALWAYS", "BETTER"}
       /\ ~OnPrimary(s[i].path) /\ OnPrimary(s[next].path)
       /\ setup.select = "BETTER" => Score(s, next, sole) > Score(s, i, sole)
    \/ /\ setup.select = "OPTIMIZE" /\ calm
       /\ Score(s, next, sole) > Score(s, i, sole)

(* Any path or none may have all the quality.                              *)
Outcomes(s, i, rest, calm) ==
    IF rest = {} THEN {FALSE}
    ELSE LET next == Least(rest)
         IN  {Reselects(s, i, next, calm, sole) : sole \in {i, next, NoSlot}}

(* Mutant: only a path that is gone is replaced.                           *)
FailsOver_Gone(s, i) == FALSE

(* The active path has failed.                                             *)
FailsOver(s, i) == ~s[i].eligible

(* Nothing but OPTIMIZE looks at the time of the last switch.              *)
Unwatched == setup.select # "OPTIMIZE"

(* processActiveBackupTasks; a path that enters the queue is bonded.       *)
ActiveBackupTasks(s) ==
    LET first == IF active \in Taken(s) THEN active ELSE Initial(s)
        backups == (Eligible(s) \ {first}) \union (queue \intersect Eligible(s))
        failed == backups # {} /\ FailsOver(s, first)
        second == IF failed THEN Least(backups) ELSE first
        rest == IF failed THEN backups \ {second} ELSE backups
        calm == settled /\ (backups = {} \/ second = active)
        queued == Eligible(s) \ ({first} \union queue)
    IN  IF first = NoSlot
        THEN slots' = s /\ active' = NoSlot /\ UNCHANGED <<queue, settled>>
        ELSE /\ slots' = [i \in Slot |-> [s[i] EXCEPT !.bonded = @ \/ i \in queued]]
             /\ \E left \in Outcomes(s, second, rest, calm) :
                    /\ active' = IF left THEN Least(rest) ELSE second
                    /\ queue' = IF left THEN rest \ {Least(rest)} ELSE rest
                    /\ settled' = (Unwatched \/ (calm /\ ~left))

(* Mutant: a flow is entered into the table and assigned no path.          *)
AssignedPath_None(f, idx) == NoSlot

(* assignFlowToBondedPath.                                                 *)
AssignedPath(f, idx) == idx[(f % Len(idx)) + 1]

(* Flows are moved from a path that is not eligible.                       *)
Moved(s, idx, f) ==
    IF flows[f] \in Taken(s) /\ ~s[flows[f]].eligible THEN AssignedPath(f, idx) ELSE flows[f]

(* processBalanceTasks, with the flows that have not been used for long.   *)
BalanceTasks(c, idle) ==
    flows' = IF c.numBonded = 0 THEN flows
             ELSE [f \in Flow |-> IF flows[f] = 0 \/ f \in idle THEN 0
                                  ELSE Moved(c.slots, c.realIdx, f)]

(* processBackgroundBondTasks.                                             *)
BackgroundTasks(fit, alive, idle) ==
    /\ \E c \in {CurateBond(slots, fit, alive, nameless, FALSE)} :
            /\ realIdx' = c.realIdx /\ numBonded' = c.numBonded
            /\ IF Backup
               THEN ActiveBackupTasks(c.slots) /\ UNCHANGED flows
               ELSE BalanceTasks(c, idle) /\ slots' = c.slots /\ UNCHANGED backupVars
    /\ lost' = lost \intersect Present(slots')
    /\ UNCHANGED <<setup, nameless>>

(* Only balancing looks at it, and only at whether a bonded path is alive. *)
Lively == IF Backup THEN {{}} ELSE {{}, Present(slots)}
Background ==
    /\ due /\ due' = FALSE
    /\ \E fit \in SUBSET Present(slots), alive \in Lively, idle \in SUBSET Flow :
            /\ \A f \in idle : flows[f] # 0
            /\ BackgroundTasks(fit, alive, idle)

(* abForciblyRotateLink.                                                   *)
Rotate ==
    /\ Backup /\ queue # {}
    /\ active' = Least(queue) /\ queue' = queue \ {active'}
    /\ settled' = Unwatched
    /\ UNCHANGED <<pathVars, balanceVars, due>>

(* getAppropriatePath for a packet of a flow.                              *)
SendFlow(f) ==
    /\ ~Backup /\ numBonded > 0 /\ flows[f] = 0
    /\ flows' = [flows EXCEPT ![f] = AssignedPath(f, realIdx)]
    /\ UNCHANGED <<pathVars, backupVars, realIdx, due>>

(* recordIncomingPacket: a flow that the other side began.                 *)
ReceiveFlow(f, i) ==
    /\ ~Backup /\ numBonded > 0 /\ flows[f] = 0
    /\ i \in Taken(slots)
    /\ flows' = [flows EXCEPT ![f] = i]
    /\ UNCHANGED <<pathVars, backupVars, realIdx, due>>

(* The tasks run far more often than the ages count.                       *)
Tick ==
    /\ ~due
    /\ Age
    /\ settled' = TRUE
    /\ due' = TRUE
    /\ UNCHANGED <<active, queue, balanceVars>>

(* A time that makes no difference to the ages passes.                     *)
Wait ==
    /\ ~due /\ due' = TRUE
    /\ UNCHANGED <<pathVars, backupVars, balanceVars>>

Next ==
    \/ \E path \in Path, fit \in SUBSET Present(slots), alive \in Lively : Nominate(path, fit, alive)
    \/ Background
    \/ \E path \in Path : Unbind(path) /\ UNCHANGED <<backupVars, balanceVars, due>>
    \/ Rotate
    \/ \E f \in Flow : SendFlow(f) \/ \E i \in Slot : ReceiveFlow(f, i)
    \/ Tick
    \/ Wait

Spec == Init /\ [][Next]_vars

----------------------------------------------------------------------------
(* After the periodic tasks an eligible path is active if there is one; a  *)
(* bond that has lost its active path and has a primary link waits for a   *)
(* path of a primary link (processActiveBackupTasks).                      *)
OnlyPrimaries == setup.links # {} /\ UserHasSpecifiedPrimaryLink
FailedOver ==
    IF active \in Taken(slots) THEN active \in Eligible(slots) \/ Eligible(slots) = {}
    ELSE \A i \in Eligible(slots) : OnlyPrimaries /\ ~OnPrimary(slots[i].path)
Ran == due /\ ~due'
FailsOverInTime == [][Ran /\ Backup => FailedOver']_vars

(* A bond that balances serves its traffic as long as a primary path is    *)
(* eligible: after the tasks the map names an eligible slot, neither the   *)
(* map nor a flow is left on a path that is there and dead, and a map that *)
(* the tasks put together anew names eligible slots only (curateBond,      *)
(* processBalanceTasks).  It leaves out what the code leaves undone: when  *)
(* a slot of the map is emptied and nothing else changes, the map stays,   *)
(* and old flows on that slot and new ones hashed to it have no path until *)
(* the bond is put together again.                                         *)
Listed == {realIdx[k] : k \in DOMAIN realIdx}
InUse == Listed \union {flows[f] : f \in Flow}
Served ==
    /\ Listed \intersect Eligible(slots) # {}
    /\ InUse \intersect Taken(slots) \subseteq Eligible(slots)
BalanceServes ==
    [][Ran /\ ~Backup /\ (\E i \in Eligible(slots') : ~IsSpare(slots'[i].path))
       => /\ Served'
          /\ realIdx' # realIdx => Listed' \subseteq Eligible(slots')]_vars
=============================================================================
