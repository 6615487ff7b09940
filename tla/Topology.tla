------------------------------ MODULE Topology ------------------------------
(***************************************************************************)
(* The worlds a node follows and the peers it knows:                       *)
(* src/generator/node/Topology.{hpp,cpp}.                                  *)
(*                                                                         *)
(* addWorld, removeMoon and the periodic tasks hold both mutexes and are   *)
(* one step each.  Three calls are not: addMoon and getPeer read the state *)
(* store without a lock and go on under one, and the worlds of an          *)
(* OK(HELLO) are added one by one after their sender was checked once.     *)
(* Other threads run, and the process may end, in between.                 *)
(***************************************************************************)
EXTENDS WorldState, FiniteSets

CONSTANTS
    Thread,         \* threads in calls that are not one step
    DefaultPlanet,  \* ZT_DEFAULT_WORLD
    MaxWorlds       \* bound of the model: worlds in one OK(HELLO)

ASSUME TopologyAssumption == DefaultPlanet \in Planets /\ MaxWorlds \in Nat

VARIABLES
    upstreams,      \* _upstreamAddresses
    amUpstream,     \* _amUpstream
    peers,          \* the keys of _peers
    storedPlanet,   \* ZT_STATE_OBJECT_PLANET in the state store
    storedMoons,    \* ZT_STATE_OBJECT_MOON
    storedPeers,    \* ZT_STATE_OBJECT_PEER
    job             \* where a thread is in its call

worlds == <<planet, moons, seeds, upstreams, amUpstream>>
store == <<storedPlanet, storedMoons, storedPeers>>
vars == <<worlds, peers, store, job, orbited>>

Orbiting == [call : {"addMoon"}, id : MoonId, seeds : SUBSET Seed, found : SUBSET Moons]
Receiving == [call : {"worlds"}, left : SUBSET Worlds]
Finding == [call : {"getPeer"}, address : Address \ {Self}]
Idle == [call |-> "none"]

TypeOK ==
    /\ planet \in Planets
    /\ moons \subseteq Moons
    /\ seeds \subseteq Seed
    /\ upstreams \subseteq Address
    /\ amUpstream \in BOOLEAN
    /\ peers \subseteq Address \ {Self}
    /\ storedPlanet \in Planets
    /\ storedMoons \subseteq Moons
    /\ storedPeers \subseteq Address \ {Self}
    /\ job \in [Thread -> Orbiting \union Receiving \union Finding \union {Idle}]
    /\ orbited \subseteq MoonId

----------------------------------------------------------------------------
(* _memoizeUpstreams: the cached list of upstreams, each with a peer.      *)
Memoize(p, ms, known) ==
    /\ upstreams' = UpstreamsOf(p, ms)
    /\ amUpstream' = (Self \in Roots(p, ms))
    /\ peers' = known \union UpstreamsOf(p, ms)

(* The constructor, with what the state store has.                         *)
Construct(p) ==
    /\ planet' = PlanetAtStart(p, DefaultPlanet)
    /\ storedPlanet' = PlanetAtStart(p, DefaultPlanet)
    /\ moons' = {} /\ seeds' = {}
    /\ Memoize(PlanetAtStart(p, DefaultPlanet), {}, {})

(* The node starts with any planet file, or none, and any moon files.      *)
Init ==
    \E cached \in Planets \union {NullWorld}, files \in SUBSET Moons :
        /\ \A m, n \in files : m.id = n.id => m = n
        /\ planet = PlanetAtStart(cached, DefaultPlanet)
        /\ storedPlanet = planet
        /\ storedMoons = files
        /\ moons = {} /\ seeds = {}
        /\ upstreams = UpstreamsOf(planet, {})
        /\ amUpstream = (Self \in Roots(planet, {}))
        /\ peers = upstreams
        /\ storedPeers = {}
        /\ job = [t \in Thread |-> Idle]
        /\ orbited = {}

(* The process ends and starts again.  The destructor saves the peers; a   *)
(* crash does not run it.                                                  *)
Restart(saved) ==
    /\ saved \in {{}, peers}
    /\ Construct(storedPlanet)
    /\ storedPeers' = storedPeers \union saved
    /\ job' = [t \in Thread |-> Idle]
    /\ orbited' = {}
    /\ UNCHANGED storedMoons

----------------------------------------------------------------------------
(* addWorld: existing worlds are replaced by a newer one with the right    *)
(* signature, new moons taken if wanted.  What changes goes to the store.  *)
Refused(w, always) ==
    IF w.type = "planet" THEN ~ShouldBeReplacedBy(planet, w)
    ELSE WithMoon(moons, seeds, w, always) = {}

TakePlanet(w) ==
    /\ w.type = "planet" /\ ShouldBeReplacedBy(planet, w)
    /\ planet' = w /\ storedPlanet' = w
    /\ Memoize(w, moons, peers)
    /\ UNCHANGED <<moons, seeds, storedMoons, storedPeers>>

TakeMoon(w, always) ==
    /\ w.type = "moon"
    /\ \E taken \in WithMoon(moons, seeds, w, always) :
        /\ moons' = taken[1] /\ seeds' = taken[2]
        /\ Memoize(planet, taken[1], peers)
    /\ storedMoons' = (storedMoons \ WithId(storedMoons, w.id)) \union {w}
    /\ UNCHANGED <<planet, storedPlanet, storedPeers>>

AddWorld(w, always) ==
    \/ TakePlanet(w)
    \/ TakeMoon(w, always)
    \/ Refused(w, always) /\ UNCHANGED <<worlds, peers, store>>

Return(t) == job' = [job EXCEPT ![t] = Idle]

(* Node::orbit calls addMoon, which looks for the moon in the store.       *)
OrbitRead(t, id, seed) ==
    /\ job[t] = Idle
    /\ seed \subseteq {s \in Seed : s[1] = id} /\ Cardinality(seed) <= 1
    /\ job' = [job EXCEPT ![t] = [call |-> "addMoon", id |-> id, seeds |-> seed,
                                  found |-> WithId(storedMoons, id)]]
    /\ orbited' = orbited \union {id}
    /\ UNCHANGED <<worlds, peers, store>>

(* ... and adds it, or remembers the seed, if any, to ask for it.          *)
OrbitLoad(t) ==
    /\ job[t].call = "addMoon"
    /\ \E w \in job[t].found : AddWorld(w, TRUE)
    /\ Return(t)
    /\ UNCHANGED orbited

OrbitSeed(t) ==
    /\ job[t].call = "addMoon" /\ job[t].found = {}
    /\ seeds' = seeds \union job[t].seeds
    /\ Return(t)
    /\ UNCHANGED <<planet, moons, upstreams, amUpstream, peers, store, orbited>>

(* A moon that another thread is adding still counts as asked for.         *)
BeingAdded(id) == \E t \in Thread : job[t].call = "addMoon" /\ job[t].id = id

(* Mutant of Deorbit: the node goes on waiting for the moon.               *)
Deorbit_KeepsSeeds(id) ==
    /\ moons' = moons \ WithId(moons, id)
    /\ storedMoons' = IF id \in Ids(moons) THEN storedMoons \ WithId(storedMoons, id)
                      ELSE storedMoons
    /\ Memoize(planet, moons \ WithId(moons, id), peers)
    /\ orbited' = IF BeingAdded(id) THEN orbited ELSE orbited \ {id}
    /\ UNCHANGED <<planet, seeds, storedPlanet, storedPeers, job>>

(* Node::deorbit calls removeMoon.                                         *)
Deorbit(id) ==
    /\ moons' = moons \ WithId(moons, id)
    /\ storedMoons' = IF id \in Ids(moons) THEN storedMoons \ WithId(storedMoons, id)
                      ELSE storedMoons
    /\ seeds' = {s \in seeds : s[1] # id}
    /\ Memoize(planet, moons \ WithId(moons, id), peers)
    /\ orbited' = IF BeingAdded(id) THEN orbited ELSE orbited \ {id}
    /\ UNCHANGED <<planet, storedPlanet, storedPeers, job>>

----------------------------------------------------------------------------
(* _doOK of a HELLO: shouldAcceptWorldUpdateFrom.                          *)
ShouldAcceptWorldUpdateFrom(a) == a \in upstreams \/ \E s \in seeds : s[2] = a

ReceiveWorlds(t, from, ws) ==
    /\ job[t] = Idle
    /\ from \in peers /\ ShouldAcceptWorldUpdateFrom(from)
    /\ Cardinality(ws) \in 1..MaxWorlds
    /\ job' = [job EXCEPT ![t] = [call |-> "worlds", left |-> ws]]
    /\ UNCHANGED <<worlds, peers, store, orbited>>

(* The worlds are added in the order of the packet, which may be any.      *)
ReceiveWorld(t) ==
    /\ job[t].call = "worlds"
    /\ \E w \in job[t].left :
        /\ AddWorld(w, FALSE)
        /\ job' = [job EXCEPT ![t] = IF job[t].left = {w} THEN Idle
                                     ELSE [call |-> "worlds", left |-> job[t].left \ {w}]]
    /\ UNCHANGED orbited

(* One of them does not deserialize: the rest of the packet is lost.       *)
ReceiveBroken(t) ==
    /\ job[t].call = "worlds"
    /\ Return(t)
    /\ UNCHANGED <<worlds, peers, store, orbited>>

----------------------------------------------------------------------------
(* addPeer, for a HELLO or the answer to a WHOIS.                          *)
AddPeer(a) ==
    /\ peers' = peers \union {a}
    /\ UNCHANGED <<worlds, store, job, orbited>>

(* getPeer of an address that is not in memory but in the store ...        *)
GetPeerRead(t, a) ==
    /\ job[t] = Idle
    /\ a \notin peers /\ a \in storedPeers
    /\ job' = [job EXCEPT ![t] = [call |-> "getPeer", address |-> a]]
    /\ UNCHANGED <<worlds, peers, store, orbited>>

(* ... which is then entered in the table, unless another thread was       *)
(* faster or it does not deserialize.                                      *)
GetPeerEnter(t) ==
    /\ job[t].call = "getPeer"
    /\ peers' \in {peers, peers \union {job[t].address}}
    /\ Return(t)
    /\ UNCHANGED <<worlds, store, orbited>>

(* Mutant of DoPeriodicTasks: upstreams are forgotten like other peers.    *)
DoPeriodicTasks_All(alive) ==
    /\ LET dead == peers \ alive IN
        /\ dead # {}
        /\ peers' = peers \ dead
        /\ storedPeers' = storedPeers \union dead
    /\ UNCHANGED <<worlds, storedPlanet, storedMoons, job, orbited>>

(* doPeriodicTasks: peers that are not alive are saved and forgotten.      *)
DoPeriodicTasks(alive) ==
    /\ LET dead == (peers \ alive) \ upstreams IN
        /\ dead # {}
        /\ peers' = peers \ dead
        /\ storedPeers' = storedPeers \union dead
    /\ UNCHANGED <<worlds, storedPlanet, storedMoons, job, orbited>>

----------------------------------------------------------------------------
OrbitStep(t) ==
    \/ \E id \in MoonId, seed \in SUBSET Seed : OrbitRead(t, id, seed)
    \/ OrbitLoad(t)
    \/ OrbitSeed(t)

ReceiveStep(t) ==
    \/ \E from \in Address, ws \in SUBSET Worlds : ReceiveWorlds(t, from, ws)
    \/ ReceiveWorld(t)
    \/ ReceiveBroken(t)

GetPeerStep(t) == (\E a \in Address \ {Self} : GetPeerRead(t, a)) \/ GetPeerEnter(t)

Next ==
    \/ \E t \in Thread : OrbitStep(t) \/ ReceiveStep(t) \/ GetPeerStep(t)
    \/ \E id \in MoonId : Deorbit(id)
    \/ \E a \in Address \ {Self} : AddPeer(a)
    \/ \E alive \in SUBSET peers : DoPeriodicTasks(alive)
    \/ \E saved \in {{}, peers} : Restart(saved)

Spec == Init /\ [][Next]_vars

----------------------------------------------------------------------------
(* The cached list of upstreams is the one of the planet and the moons,    *)
(* and every upstream has a peer: the periodic tasks and the worlds never  *)
(* leave getUpstreamPeer, or role, an upstream that is not there.          *)
UpstreamsKnown ==
    /\ upstreams = UpstreamsOf(planet, moons)
    /\ amUpstream = (Self \in Roots(planet, moons))
    /\ upstreams \subseteq peers

(* A node follows and waits for moons it was asked to follow only.  In     *)
(* particular, an answer that was on its way when deorbit ran does not     *)
(* bring the moon back.                                                    *)
OnlyAskedMoons ==
    /\ Ids(moons) \subseteq orbited
    /\ {s[1] : s \in seeds} \subseteq orbited
    /\ \A m, n \in moons : m.id = n.id => m = n

(* The planet changes to a successor only, signed with the key its         *)
(* predecessor names, also when the process ends and starts again.         *)
PlanetAdvances ==
    [][planet' # planet => /\ planet'.id = planet.id /\ planet'.ts > planet.ts
                           /\ planet'.signedBy = planet.updatesMustBeSignedBy]_vars

(* A moon that is followed changes to a successor only, whatever old       *)
(* revision a thread of addMoon still has in its hands, and the file in    *)
(* the state store never goes back to an older revision.                   *)
MoonsAdvance ==
    [][/\ \A m \in moons, n \in moons' : m.id = n.id => m = n \/ ShouldBeReplacedBy(m, n)
       /\ \A m \in storedMoons, n \in storedMoons' :
            m.id = n.id => m.ts <= n.ts]_vars

(* No world goes back, in memory or in the state store.                    *)
WorldsAdvance == PlanetAdvances /\ MoonsAdvance
=============================================================================
