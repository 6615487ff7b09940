--------------------------- MODULE TopologyProofs ---------------------------
(***************************************************************************)
(* Theorems about Topology for any worlds, addresses, keys and number of   *)
(* threads, and at the end about WorldUpdates, which brings it worlds, for *)
(* any set of servers.                                                     *)
(***************************************************************************)
EXTENDS Topology, WorldUpdates, TLAPS

USE WorldsAssumption, TopologyAssumption

----------------------------------------------------------------------------
(* What the operators of TopologyOps return.                               *)
LEMMA WorldTypes ==
    /\ Planets \subseteq Worlds /\ Moons \subseteq Worlds
    /\ \A w \in Worlds : w \in World /\ w.roots \subseteq Address
    /\ \A w \in Planets : w.type = "planet"
    /\ \A w \in Moons : w.type = "moon" /\ w.id \in MoonId
    /\ \A w \in Worlds : w.type = "moon" => w \in Moons
    /\ \A w \in Worlds : w.type = "planet" => w \in Planets
  BY DEF Planets, Moons, MoonId, World

LEMMA StartType ==
    ASSUME NEW p \in Planets \union {NullWorld}
    PROVE  PlanetAtStart(p, DefaultPlanet) \in Planets
  BY DEF PlanetAtStart, ShouldBeReplacedBy, NullWorld

LEMMA UpstreamTypes ==
    ASSUME NEW p \in Planets, NEW ms \in SUBSET Moons
    PROVE  /\ UpstreamsOf(p, ms) \subseteq Address \ {Self}
           /\ (Self \in Roots(p, ms)) \in BOOLEAN
  BY WorldTypes DEF UpstreamsOf, Roots

LEMMA MoonTakenType ==
    \A ms \in SUBSET Moons, ss \in SUBSET Seed, w \in Moons, always \in BOOLEAN :
      \A taken \in WithMoon(ms, ss, w, always) :
        taken[1] \subseteq Moons /\ taken[2] \subseteq ss
  BY DEF WithMoon

----------------------------------------------------------------------------
(* Type correctness.                                                       *)
LEMMA MemoizeType ==
    ASSUME NEW p \in Planets, NEW ms \in SUBSET Moons,
           NEW known \in SUBSET (Address \ {Self}), Memoize(p, ms, known)
    PROVE  /\ upstreams' \subseteq Address
           /\ amUpstream' \in BOOLEAN
           /\ peers' \subseteq Address \ {Self}
  BY UpstreamTypes DEF Memoize

LEMMA AddWorldType ==
    ASSUME TypeOK, NEW w \in Worlds, NEW always \in BOOLEAN, AddWorld(w, always)
    PROVE  /\ planet' \in Planets /\ moons' \subseteq Moons /\ seeds' \subseteq Seed
           /\ upstreams' \subseteq Address /\ amUpstream' \in BOOLEAN
           /\ peers' \subseteq Address \ {Self}
           /\ storedPlanet' \in Planets /\ storedMoons' \subseteq Moons
           /\ storedPeers' \subseteq Address \ {Self}
<1>1. CASE TakePlanet(w)
  <2>1. w \in Planets
    BY <1>1, WorldTypes DEF TakePlanet
  <2>2. Memoize(w, moons, peers)
    BY <1>1 DEF TakePlanet
  <2> QED
    BY <1>1, <2>1, <2>2, MemoizeType DEF TakePlanet, TypeOK
<1>2. CASE TakeMoon(w, always)
  <2>1. w \in Moons
    BY <1>2, WorldTypes DEF TakeMoon
  <2>2. PICK taken \in WithMoon(moons, seeds, w, always) :
            /\ moons' = taken[1] /\ seeds' = taken[2]
            /\ Memoize(planet, taken[1], peers)
    BY <1>2 DEF TakeMoon
  <2>3. taken[1] \subseteq Moons /\ taken[2] \subseteq seeds
    <3>1. moons \in SUBSET Moons /\ seeds \in SUBSET Seed /\ always \in BOOLEAN
      BY DEF TypeOK
    <3>2. \A x \in WithMoon(moons, seeds, w, always) :
              x[1] \subseteq Moons /\ x[2] \subseteq seeds
      BY <2>1, <3>1, MoonTakenType
    <3> QED
      BY <3>2
  <2>4. storedMoons' \subseteq Moons
    BY <1>2, <2>1 DEF TakeMoon, TypeOK
  <2> QED
    BY <1>2, <2>2, <2>3, <2>4, MemoizeType DEF TakeMoon, TypeOK
<1>3. CASE UNCHANGED <<worlds, peers, store>>
  BY <1>3 DEF TypeOK, worlds, store
<1> QED
  BY <1>1, <1>2, <1>3 DEF AddWorld

LEMMA TypeInit == Init => TypeOK
<1> SUFFICES ASSUME Init PROVE TypeOK
  OBVIOUS
<1>1. PICK cached \in Planets \union {NullWorld} :
          planet = PlanetAtStart(cached, DefaultPlanet)
  BY DEF Init
<1>2. planet \in Planets
  BY <1>1, StartType
<1>3. storedMoons \subseteq Moons
  BY DEF Init
<1> QED
  BY <1>2, <1>3, UpstreamTypes DEF Init, TypeOK

LEMMA TypeStep == TypeOK /\ [Next]_vars => TypeOK'
<1> SUFFICES ASSUME TypeOK, [Next]_vars PROVE TypeOK'
  OBVIOUS
<1> DEFINE Jobs == Orbiting \union Receiving \union Finding \union {Idle}
<1>0. ASSUME NEW t \in Thread, NEW j \in Jobs, job' = [job EXCEPT ![t] = j]
      PROVE  job' \in [Thread -> Jobs]
  BY <1>0 DEF TypeOK
<1>00. ASSUME NEW t \in Thread, Return(t) PROVE job' \in [Thread -> Jobs]
  BY <1>0, <1>00 DEF Return
<1>a. \A t \in Thread : /\ job[t].call = "addMoon" => job[t] \in Orbiting
                        /\ job[t].call = "worlds" => job[t] \in Receiving
                        /\ job[t].call = "getPeer" => job[t] \in Finding
  BY DEF TypeOK, Orbiting, Receiving, Finding, Idle
<1>1. ASSUME NEW t \in Thread, NEW id \in MoonId, NEW seed \in SUBSET Seed,
             OrbitRead(t, id, seed)
      PROVE  TypeOK'
  <2>1. [call |-> "addMoon", id |-> id, seeds |-> seed, found |-> WithId(storedMoons, id)]
            \in Orbiting
    BY DEF TypeOK, Orbiting, WithId
  <2>2. job' \in [Thread -> Jobs]
    BY <1>0, <1>1, <2>1 DEF OrbitRead
  <2> QED
    BY <1>1, <2>2 DEF OrbitRead, TypeOK, worlds, store
<1>2. ASSUME NEW t \in Thread, OrbitLoad(t) PROVE TypeOK'
  <2>1. PICK w \in job[t].found : AddWorld(w, TRUE)
    BY <1>2 DEF OrbitLoad
  <2>2. w \in Worlds
    BY <1>2, <1>a, WorldTypes DEF OrbitLoad, Orbiting
  <2> QED
    BY <1>00, <1>2, <2>1, <2>2, AddWorldType DEF OrbitLoad, TypeOK
<1>3. ASSUME NEW t \in Thread, OrbitSeed(t) PROVE TypeOK'
  <2>1. job[t].seeds \subseteq Seed
    BY <1>3, <1>a DEF OrbitSeed, Orbiting
  <2> QED
    BY <1>00, <1>3, <2>1 DEF OrbitSeed, TypeOK, store
<1>4. ASSUME NEW t \in Thread, NEW from \in Address, NEW ws \in SUBSET Worlds,
             ReceiveWorlds(t, from, ws)
      PROVE  TypeOK'
  <2>1. [call |-> "worlds", left |-> ws] \in Receiving
    BY DEF Receiving
  <2>2. job' \in [Thread -> Jobs]
    BY <1>0, <1>4, <2>1 DEF ReceiveWorlds
  <2> QED
    BY <1>4, <2>2 DEF ReceiveWorlds, TypeOK, worlds, store
<1>5. ASSUME NEW t \in Thread, ReceiveWorld(t) PROVE TypeOK'
  <2>1. PICK w \in job[t].left :
            /\ AddWorld(w, FALSE)
            /\ job' = [job EXCEPT ![t] = IF job[t].left = {w} THEN Idle
                                         ELSE [call |-> "worlds", left |-> job[t].left \ {w}]]
    BY <1>5 DEF ReceiveWorld
  <2>2. job[t].left \subseteq Worlds
    BY <1>5, <1>a DEF ReceiveWorld, Receiving
  <2>3. [call |-> "worlds", left |-> job[t].left \ {w}] \in Receiving
    BY <2>2 DEF Receiving
  <2>4. job' \in [Thread -> Jobs]
    BY <1>0, <2>1, <2>3
  <2> QED
    BY <1>5, <2>1, <2>2, <2>4, AddWorldType DEF ReceiveWorld, TypeOK
<1>6. ASSUME NEW t \in Thread, ReceiveBroken(t) PROVE TypeOK'
  BY <1>00, <1>6 DEF ReceiveBroken, TypeOK, worlds, store
<1>7. ASSUME NEW t \in Thread, NEW a \in Address \ {Self}, GetPeerRead(t, a) PROVE TypeOK'
  <2>1. [call |-> "getPeer", address |-> a] \in Finding
    BY DEF Finding
  <2>2. job' \in [Thread -> Jobs]
    BY <1>0, <1>7, <2>1 DEF GetPeerRead
  <2> QED
    BY <1>7, <2>2 DEF GetPeerRead, TypeOK, worlds, store
<1>8. ASSUME NEW t \in Thread, GetPeerEnter(t) PROVE TypeOK'
  <2>1. job[t].address \in Address \ {Self}
    BY <1>8, <1>a DEF GetPeerEnter, Finding
  <2> QED
    BY <1>00, <1>8, <2>1 DEF GetPeerEnter, TypeOK, worlds, store
<1>9. ASSUME NEW id \in MoonId, Deorbit(id) PROVE TypeOK'
  <2>1. moons \ WithId(moons, id) \subseteq Moons
    BY DEF TypeOK
  <2> QED
    BY <1>9, <2>1, MemoizeType DEF Deorbit, TypeOK
<1>10. ASSUME NEW a \in Address \ {Self}, AddPeer(a) PROVE TypeOK'
  BY <1>10 DEF AddPeer, TypeOK, worlds, store
<1>11. ASSUME NEW alive \in SUBSET peers, DoPeriodicTasks(alive) PROVE TypeOK'
  BY <1>11 DEF DoPeriodicTasks, TypeOK, worlds
<1>12. ASSUME NEW saved \in {{}, peers}, Restart(saved) PROVE TypeOK'
  <2>1. PlanetAtStart(storedPlanet, DefaultPlanet) \in Planets
    BY StartType DEF TypeOK
  <2> QED
    BY <1>12, <2>1, MemoizeType DEF Restart, Construct, TypeOK
<1>13. CASE UNCHANGED vars
  BY <1>13 DEF TypeOK, vars, worlds, store
<1> QED
  BY <1>1, <1>2, <1>3, <1>4, <1>5, <1>6, <1>7, <1>8, <1>9, <1>10, <1>11, <1>12, <1>13
  DEF Next, OrbitStep, ReceiveStep, GetPeerStep

(* Every variable has its type in every reachable state.                   *)
THEOREM TypeCorrect == Spec => []TypeOK
  BY TypeInit, TypeStep, PTL DEF Spec

----------------------------------------------------------------------------
(* The cached upstreams.  Whatever recomputes them does so for the planet  *)
(* and the moons there are then, and never takes a peer away.              *)
LEMMA Memoized ==
    ASSUME Memoize(planet', moons', peers) \/ Memoize(planet', moons', {})
    PROVE  UpstreamsKnown'
  BY DEF Memoize, UpstreamsKnown

LEMMA AddWorldMemoized ==
    ASSUME UpstreamsKnown, NEW w, NEW always, AddWorld(w, always)
    PROVE  UpstreamsKnown'
<1>1. CASE TakePlanet(w)
  BY <1>1, Memoized DEF TakePlanet
<1>2. CASE TakeMoon(w, always)
  BY <1>2, Memoized DEF TakeMoon
<1>3. CASE UNCHANGED <<worlds, peers, store>>
  BY <1>3 DEF UpstreamsKnown, worlds
<1> QED
  BY <1>1, <1>2, <1>3 DEF AddWorld

LEMMA UpstreamsStep == UpstreamsKnown /\ [Next]_vars => UpstreamsKnown'
<1> SUFFICES ASSUME UpstreamsKnown, [Next]_vars PROVE UpstreamsKnown'
  OBVIOUS
<1>1. ASSUME NEW t \in Thread, OrbitLoad(t) PROVE UpstreamsKnown'
  BY <1>1, AddWorldMemoized DEF OrbitLoad
<1>2. ASSUME NEW t \in Thread, ReceiveWorld(t) PROVE UpstreamsKnown'
  BY <1>2, AddWorldMemoized DEF ReceiveWorld
<1>3. ASSUME NEW t \in Thread, NEW id, NEW seed, OrbitRead(t, id, seed) PROVE UpstreamsKnown'
  BY <1>3 DEF OrbitRead, UpstreamsKnown, worlds
<1>4. ASSUME NEW t \in Thread, OrbitSeed(t) PROVE UpstreamsKnown'
  BY <1>4 DEF OrbitSeed, UpstreamsKnown
<1>5. ASSUME NEW t \in Thread, NEW from, NEW ws, ReceiveWorlds(t, from, ws) PROVE UpstreamsKnown'
  BY <1>5 DEF ReceiveWorlds, UpstreamsKnown, worlds
<1>6. ASSUME NEW t \in Thread, ReceiveBroken(t) PROVE UpstreamsKnown'
  BY <1>6 DEF ReceiveBroken, UpstreamsKnown, worlds
<1>7. ASSUME NEW t \in Thread, NEW a, GetPeerRead(t, a) PROVE UpstreamsKnown'
  BY <1>7 DEF GetPeerRead, UpstreamsKnown, worlds
<1>8. ASSUME NEW t \in Thread, GetPeerEnter(t) PROVE UpstreamsKnown'
  BY <1>8 DEF GetPeerEnter, UpstreamsKnown, worlds
<1>9. ASSUME NEW id, Deorbit(id) PROVE UpstreamsKnown'
  BY <1>9, Memoized DEF Deorbit
<1>10. ASSUME NEW a, AddPeer(a) PROVE UpstreamsKnown'
  BY <1>10 DEF AddPeer, UpstreamsKnown, worlds
<1>11. ASSUME NEW alive, DoPeriodicTasks(alive) PROVE UpstreamsKnown'
  BY <1>11 DEF DoPeriodicTasks, UpstreamsKnown, worlds
<1>12. ASSUME NEW saved, Restart(saved) PROVE UpstreamsKnown'
  BY <1>12, Memoized DEF Restart, Construct
<1>13. CASE UNCHANGED vars
  BY <1>13 DEF vars, UpstreamsKnown, worlds
<1> QED
  BY <1>1, <1>2, <1>3, <1>4, <1>5, <1>6, <1>7, <1>8, <1>9, <1>10, <1>11, <1>12, <1>13
  DEF Next, OrbitStep, ReceiveStep, GetPeerStep

(* The list of upstreams is the one of planet and moons, and each has a    *)
(* peer, whatever worlds come and go and whoever is forgotten.             *)
THEOREM UpstreamSafety == Spec => []UpstreamsKnown
<1>1. Init => UpstreamsKnown
  BY DEF Init, UpstreamsKnown
<1> QED
  BY <1>1, UpstreamsStep, PTL DEF Spec

----------------------------------------------------------------------------
(* The moons.  A moon that is followed has a file of its own; a thread of  *)
(* addMoon holds what the file says as long as the moon is not followed;   *)
(* and nobody waits for a moon that is not followed but has a file.        *)
JobsAsked ==
    \A t \in Thread : job[t].call = "addMoon" =>
        /\ job[t].id \in orbited
        /\ \A w \in job[t].found : w.id = job[t].id
        /\ \A s \in job[t].seeds : s[1] = job[t].id

FilesFollowed ==
    /\ \A m, n \in storedMoons : m.id = n.id => m = n
    /\ moons \subseteq storedMoons

Unfollowed == {n \in storedMoons : n.id \notin Ids(moons)}

FilesHeld ==
    \A n \in Unfollowed :
        /\ \A s \in seeds : s[1] # n.id
        /\ \A t \in Thread : job[t].call = "addMoon" /\ job[t].id = n.id => job[t].found = {n}

MoonInv == TypeOK /\ OnlyAskedMoons /\ JobsAsked /\ FilesFollowed /\ FilesHeld

MoonsStep ==
    /\ \A m \in moons, n \in moons' : m.id = n.id => m = n \/ ShouldBeReplacedBy(m, n)
    /\ \A m \in storedMoons, n \in storedMoons' : m.id = n.id => m.ts <= n.ts

(* A moon that is taken takes the place of its predecessor, or it is new   *)
(* and was loaded by the user or waited for.                               *)
LEMMA MoonTaken ==
    ASSUME NEW w, NEW always \in BOOLEAN, TakeMoon(w, always)
    PROVE  \/ \E m \in moons : /\ m.id = w.id /\ ShouldBeReplacedBy(m, w)
                              /\ moons' = (moons \ {m}) \union {w} /\ seeds' = seeds
           \/ /\ w.id \notin Ids(moons)
              /\ moons' = moons \union {w} /\ seeds' \subseteq seeds
              /\ always = TRUE \/ \E s \in seeds : s[1] = w.id
<1>1. PICK taken \in WithMoon(moons, seeds, w, always) :
          moons' = taken[1] /\ seeds' = taken[2]
  BY DEF TakeMoon
<1>2. CASE w.id \in Ids(moons)
  <2>1. PICK m \in moons : /\ m.id = w.id /\ ShouldBeReplacedBy(m, w)
                           /\ taken = <<(moons \ {m}) \union {w}, seeds>>
    BY <1>2 DEF WithMoon, WithId
  <2> QED
    BY <1>1, <2>1
<1>3. CASE w.id \notin Ids(moons) /\ always
  <2>1. taken = <<moons \union {w}, seeds>>
    BY <1>3 DEF WithMoon
  <2> QED
    BY <1>1, <1>3, <2>1
<1>4. CASE w.id \notin Ids(moons) /\ ~always
  <2>1. PICK s \in seeds : s[1] = w.id /\ taken = <<moons \union {w}, seeds \ {s}>>
    BY <1>4 DEF WithMoon, SeedsOf
  <2> QED
    BY <1>1, <1>4, <2>1
<1> QED
  BY <1>2, <1>3, <1>4

MoonFacts == OnlyAskedMoons /\ JobsAsked /\ FilesFollowed /\ FilesHeld

LEMMA MoonsUnique ==
    ASSUME FilesFollowed, NEW m \in moons, NEW n \in storedMoons, m.id = n.id
    PROVE  m = n
  BY DEF FilesFollowed

(* A world is added by a thread that received it, or that read it from its *)
(* file for the user; the jobs of addMoon that go on are what they were.   *)
LEMMA AddWorldMoons ==
    ASSUME MoonInv, NEW t \in Thread, NEW w \in Worlds, NEW always \in BOOLEAN,
           AddWorld(w, always),
           always => job[t].call = "addMoon" /\ w \in job[t].found,
           orbited' = orbited,
           \A u \in Thread : job'[u].call = "addMoon" => job'[u] = job[u]
    PROVE  MoonFacts' /\ MoonsStep
<1>0. /\ \A m \in storedMoons : m.ts \in Nat
      /\ \A m \in moons : m.ts \in Nat
      /\ w.ts \in Nat
  BY WorldTypes DEF MoonInv, TypeOK, World
<1>1. JobsAsked'
  BY DEF MoonInv, JobsAsked
<1>2. CASE TakeMoon(w, always)
  <2>1. storedMoons' = (storedMoons \ WithId(storedMoons, w.id)) \union {w}
    BY <1>2 DEF TakeMoon
  <2>2. CASE \E m \in moons : /\ m.id = w.id /\ ShouldBeReplacedBy(m, w)
                             /\ moons' = (moons \ {m}) \union {w} /\ seeds' = seeds
    <3>1. PICK m \in moons : /\ m.id = w.id /\ ShouldBeReplacedBy(m, w)
                             /\ moons' = (moons \ {m}) \union {w} /\ seeds' = seeds
      BY <2>2
    <3>2. \A n \in moons : n.id = w.id => n = m
      BY <3>1 DEF MoonInv, OnlyAskedMoons
    <3>3. m.type = "moon"
      BY WorldTypes DEF MoonInv, TypeOK
    <3>4. \A n \in storedMoons : n.id = w.id => n = m
      BY <3>1, MoonsUnique DEF MoonInv
    <3>5. OnlyAskedMoons'
      BY <3>1, <3>2 DEF MoonInv, OnlyAskedMoons, Ids
    <3>6. FilesFollowed'
      BY <2>1, <3>1, <3>2 DEF MoonInv, FilesFollowed, WithId
    <3>7. Unfollowed' \subseteq Unfollowed
      BY <2>1, <3>1 DEF Unfollowed, Ids, WithId
    <3>8. FilesHeld'
      BY <3>1, <3>7 DEF MoonInv, FilesHeld
    <3>9. m.ts <= w.ts
      BY <1>0, <3>1, <3>3 DEF ShouldBeReplacedBy
    <3>10. \A n \in moons, k \in moons' : n.id = k.id => n = k \/ ShouldBeReplacedBy(n, k)
      BY <3>1, <3>2 DEF MoonInv, OnlyAskedMoons
    <3>11. \A n \in storedMoons, k \in storedMoons' : n.id = k.id => n.ts <= k.ts
      BY <1>0, <2>1, <3>4, <3>9 DEF MoonInv, FilesFollowed, WithId
    <3> QED
      BY <1>1, <3>5, <3>6, <3>8, <3>10, <3>11 DEF MoonFacts, MoonsStep
  <2>3. CASE /\ w.id \notin Ids(moons)
             /\ moons' = moons \union {w} /\ seeds' \subseteq seeds
             /\ always = TRUE \/ \E s \in seeds : s[1] = w.id
    <3>1. w.id \in orbited
      BY <2>3 DEF MoonInv, OnlyAskedMoons, JobsAsked
    <3>2. OnlyAskedMoons'
      BY <2>3, <3>1 DEF MoonInv, OnlyAskedMoons, Ids
    <3>3. FilesFollowed'
      BY <2>1, <2>3 DEF MoonInv, FilesFollowed, WithId, Ids
    <3>4. Unfollowed' \subseteq Unfollowed
      BY <2>1, <2>3 DEF Unfollowed, Ids, WithId
    <3>5. FilesHeld'
      BY <2>3, <3>4 DEF MoonInv, FilesHeld
    <3>6. ASSUME NEW n \in storedMoons, n.id = w.id PROVE n = w
      <4>1. n \in Unfollowed
        BY <2>3, <3>6 DEF Unfollowed
      <4>2. always = TRUE
        BY <2>3, <3>6, <4>1 DEF MoonInv, FilesHeld
      <4>3. job[t].found = {n}
        BY <3>6, <4>1, <4>2 DEF MoonInv, FilesHeld, JobsAsked
      <4> QED
        BY <4>2, <4>3
    <3>7. \A n \in moons, k \in moons' : n.id = k.id => n = k \/ ShouldBeReplacedBy(n, k)
      BY <2>3 DEF MoonInv, OnlyAskedMoons, Ids
    <3>8. \A n \in storedMoons, k \in storedMoons' : n.id = k.id => n.ts <= k.ts
      BY <1>0, <2>1, <3>6 DEF MoonInv, FilesFollowed, WithId
    <3> QED
      BY <1>1, <3>2, <3>3, <3>5, <3>7, <3>8 DEF MoonFacts, MoonsStep
  <2> QED
    BY <1>2, <2>2, <2>3, MoonTaken
<1>3. CASE TakePlanet(w) \/ UNCHANGED <<worlds, peers, store>>
  <2>1. UNCHANGED <<moons, seeds, storedMoons>>
    BY <1>3 DEF TakePlanet, worlds, store
  <2>2. OnlyAskedMoons' /\ FilesFollowed' /\ FilesHeld'
    BY <2>1 DEF MoonInv, OnlyAskedMoons, FilesFollowed, FilesHeld, Unfollowed
  <2>3. MoonsStep
    BY <1>0, <2>1 DEF MoonsStep, MoonInv, OnlyAskedMoons, FilesFollowed
  <2> QED
    BY <1>1, <2>2, <2>3 DEF MoonFacts
<1> QED
  BY <1>2, <1>3 DEF AddWorld

(* Steps that change neither moons nor seeds nor files, and leave the jobs *)
(* of addMoon that go on what they were.                                   *)
LEMMA MoonsUnchanged ==
    ASSUME MoonInv, UNCHANGED <<moons, seeds, storedMoons, orbited>>,
           \A u \in Thread : job'[u].call = "addMoon" => job'[u] = job[u]
    PROVE  MoonFacts' /\ MoonsStep
<1>1. \A m \in storedMoons : m.ts \in Nat
  BY WorldTypes DEF MoonInv, TypeOK, World
<1>2. MoonFacts'
  BY DEF MoonFacts, MoonInv, OnlyAskedMoons, JobsAsked, FilesFollowed, FilesHeld, Unfollowed
<1>3. MoonsStep
  BY <1>1 DEF MoonsStep, MoonInv, OnlyAskedMoons, FilesFollowed
<1> QED
  BY <1>2, <1>3

LEMMA DeorbitMoons ==
    ASSUME MoonInv, NEW id \in MoonId, Deorbit(id)
    PROVE  MoonFacts' /\ MoonsStep
<1>1. \A m \in storedMoons : m.ts \in Nat
  BY WorldTypes DEF MoonInv, TypeOK, World
<1>2. /\ moons' = moons \ WithId(moons, id)
      /\ seeds' = {s \in seeds : s[1] # id}
      /\ storedMoons' \subseteq storedMoons
      /\ orbited \ {id} \subseteq orbited' /\ orbited' \subseteq orbited
      /\ BeingAdded(id) => orbited' = orbited
      /\ job' = job
  BY DEF Deorbit
<1>3. OnlyAskedMoons'
  BY <1>2 DEF MoonInv, OnlyAskedMoons, Ids, WithId
<1>4. JobsAsked'
  BY <1>2 DEF MoonInv, JobsAsked, BeingAdded
<1>5. \A m \in moons' : m.id # id /\ m \in storedMoons /\ m \in moons
  BY <1>2 DEF MoonInv, FilesFollowed, WithId
<1>6. \A m \in moons' : m \in storedMoons'
  BY <1>5 DEF Deorbit, WithId
<1>7. FilesFollowed'
  BY <1>2, <1>6 DEF MoonInv, FilesFollowed
<1>8. Unfollowed' \subseteq Unfollowed
  BY <1>2 DEF Deorbit, Unfollowed, Ids, WithId
<1>9. FilesHeld'
  BY <1>2, <1>8 DEF MoonInv, FilesHeld
<1>10. MoonsStep
  BY <1>1, <1>2, <1>5 DEF MoonsStep, MoonInv, OnlyAskedMoons, FilesFollowed
<1> QED
  BY <1>3, <1>4, <1>7, <1>9, <1>10 DEF MoonFacts

LEMMA RestartMoons ==
    ASSUME MoonInv, NEW saved, Restart(saved)
    PROVE  MoonFacts' /\ MoonsStep
<1>1. \A m \in storedMoons : m.ts \in Nat
  BY WorldTypes DEF MoonInv, TypeOK, World
<1>2. /\ moons' = {} /\ seeds' = {} /\ storedMoons' = storedMoons
      /\ \A t \in Thread : job'[t].call # "addMoon"
  BY DEF Restart, Construct, Idle
<1>3. MoonFacts'
  BY <1>2 DEF MoonFacts, MoonInv, OnlyAskedMoons, JobsAsked, FilesFollowed, FilesHeld, Ids
<1>4. MoonsStep
  BY <1>1, <1>2 DEF MoonsStep, MoonInv, FilesFollowed
<1> QED
  BY <1>3, <1>4

LEMMA OrbitReadMoons ==
    ASSUME MoonInv, NEW t \in Thread, NEW id \in MoonId, NEW seed \in SUBSET Seed,
           OrbitRead(t, id, seed)
    PROVE  MoonFacts' /\ MoonsStep
<1>1. \A m \in storedMoons : m.ts \in Nat
  BY WorldTypes DEF MoonInv, TypeOK, World
<1>2. /\ UNCHANGED <<moons, seeds, storedMoons>>
      /\ orbited \subseteq orbited' /\ id \in orbited'
  BY DEF OrbitRead, worlds, store
<1>3. job'[t] = [call |-> "addMoon", id |-> id, seeds |-> seed, found |-> WithId(storedMoons, id)]
  BY DEF OrbitRead, MoonInv, TypeOK
<1>4. \A u \in Thread \ {t} : job'[u] = job[u]
  BY DEF OrbitRead, MoonInv, TypeOK
<1>5. OnlyAskedMoons'
  BY <1>2 DEF MoonInv, OnlyAskedMoons
<1>6. /\ \A w \in WithId(storedMoons, id) : w.id = id
      /\ \A s \in seed : s[1] = id
  BY DEF OrbitRead, WithId
<1>7. JobsAsked'
  BY <1>2, <1>3, <1>4, <1>6 DEF MoonInv, JobsAsked
<1>8. FilesFollowed'
  BY <1>2 DEF MoonInv, FilesFollowed
<1>9. Unfollowed' = Unfollowed
  BY <1>2 DEF Unfollowed
<1>10. ASSUME NEW n \in Unfollowed, id = n.id PROVE WithId(storedMoons, id) = {n}
  BY <1>10 DEF MoonInv, FilesFollowed, Unfollowed, WithId
<1>11. FilesHeld'
  BY <1>2, <1>3, <1>4, <1>9, <1>10 DEF MoonInv, FilesHeld
<1>12. MoonsStep
  BY <1>1, <1>2 DEF MoonsStep, MoonInv, OnlyAskedMoons, FilesFollowed
<1> QED
  BY <1>5, <1>7, <1>8, <1>11, <1>12 DEF MoonFacts

LEMMA OrbitSeedMoons ==
    ASSUME MoonInv, NEW t \in Thread, OrbitSeed(t)
    PROVE  MoonFacts' /\ MoonsStep
<1>1. \A m \in storedMoons : m.ts \in Nat
  BY WorldTypes DEF MoonInv, TypeOK, World
<1>2. /\ UNCHANGED <<moons, storedMoons, orbited>>
      /\ seeds' = seeds \union job[t].seeds
      /\ job[t].id \in orbited /\ \A s \in job[t].seeds : s[1] = job[t].id
  BY DEF OrbitSeed, MoonInv, JobsAsked, store
<1>3. \A u \in Thread : job'[u].call = "addMoon" => job'[u] = job[u]
  BY DEF OrbitSeed, Return, Idle, MoonInv, TypeOK
<1>4. OnlyAskedMoons'
  BY <1>2 DEF MoonInv, OnlyAskedMoons
<1>5. JobsAsked' /\ FilesFollowed'
  BY <1>2, <1>3 DEF MoonInv, JobsAsked, FilesFollowed
<1>6. \A n \in Unfollowed : job[t].id # n.id
  BY DEF OrbitSeed, MoonInv, FilesHeld
<1>7. Unfollowed' = Unfollowed
  BY <1>2 DEF Unfollowed
<1>8. FilesHeld'
  BY <1>2, <1>3, <1>6, <1>7 DEF MoonInv, FilesHeld
<1>9. MoonsStep
  BY <1>1, <1>2 DEF MoonsStep, MoonInv, OnlyAskedMoons, FilesFollowed
<1> QED
  BY <1>4, <1>5, <1>8, <1>9 DEF MoonFacts

LEMMA MoonStep == MoonInv /\ [Next]_vars => MoonInv' /\ MoonsStep
<1> SUFFICES ASSUME MoonInv, [Next]_vars PROVE MoonFacts' /\ MoonsStep
  BY TypeStep DEF MoonInv, MoonFacts
<1>a. \A t \in Thread : /\ job[t].call = "addMoon" => job[t] \in Orbiting
                        /\ job[t].call = "worlds" => job[t] \in Receiving
  BY DEF MoonInv, TypeOK, Orbiting, Receiving, Finding, Idle
<1>b. ASSUME NEW t \in Thread, NEW j, job' = [job EXCEPT ![t] = j], j.call # "addMoon"
      PROVE  \A u \in Thread : job'[u].call = "addMoon" => job'[u] = job[u]
  BY <1>b DEF MoonInv, TypeOK
<1>c. Idle.call # "addMoon"
  BY DEF Idle
<1>1. ASSUME NEW t \in Thread, OrbitLoad(t) PROVE MoonFacts' /\ MoonsStep
  <2>1. PICK w \in job[t].found : AddWorld(w, TRUE)
    BY <1>1 DEF OrbitLoad
  <2>2. w \in Worlds
    BY <1>1, <1>a, WorldTypes DEF OrbitLoad, Orbiting
  <2>3. \A u \in Thread : job'[u].call = "addMoon" => job'[u] = job[u]
    BY <1>1, <1>b, <1>c DEF OrbitLoad, Return
  <2> QED
    BY <1>1, <2>1, <2>2, <2>3, AddWorldMoons DEF OrbitLoad
<1>2. ASSUME NEW t \in Thread, ReceiveWorld(t) PROVE MoonFacts' /\ MoonsStep
  <2>1. PICK w \in job[t].left :
            /\ AddWorld(w, FALSE)
            /\ job' = [job EXCEPT ![t] = IF job[t].left = {w} THEN Idle
                                         ELSE [call |-> "worlds", left |-> job[t].left \ {w}]]
    BY <1>2 DEF ReceiveWorld
  <2>2. w \in Worlds
    BY <1>2, <1>a DEF ReceiveWorld, Receiving
  <2>3. \A u \in Thread : job'[u].call = "addMoon" => job'[u] = job[u]
    BY <2>1, <1>b, <1>c
  <2> QED
    BY <1>2, <2>1, <2>2, <2>3, AddWorldMoons DEF ReceiveWorld
<1>3. ASSUME NEW t \in Thread, NEW id \in MoonId, NEW seed \in SUBSET Seed,
             OrbitRead(t, id, seed)
      PROVE  MoonFacts' /\ MoonsStep
  BY <1>3, OrbitReadMoons
<1>4. ASSUME NEW t \in Thread, OrbitSeed(t) PROVE MoonFacts' /\ MoonsStep
  BY <1>4, OrbitSeedMoons
<1>5. ASSUME NEW t \in Thread, NEW from, NEW ws, ReceiveWorlds(t, from, ws)
      PROVE  MoonFacts' /\ MoonsStep
  BY <1>5, <1>b, MoonsUnchanged DEF ReceiveWorlds, worlds, store
<1>6. ASSUME NEW t \in Thread, ReceiveBroken(t) PROVE MoonFacts' /\ MoonsStep
  BY <1>6, <1>b, <1>c, MoonsUnchanged DEF ReceiveBroken, Return, worlds, store
<1>7. ASSUME NEW t \in Thread, NEW a, GetPeerRead(t, a) PROVE MoonFacts' /\ MoonsStep
  BY <1>7, <1>b, MoonsUnchanged DEF GetPeerRead, worlds, store
<1>8. ASSUME NEW t \in Thread, GetPeerEnter(t) PROVE MoonFacts' /\ MoonsStep
  BY <1>8, <1>b, <1>c, MoonsUnchanged DEF GetPeerEnter, Return, worlds, store
<1>9. ASSUME NEW id \in MoonId, Deorbit(id) PROVE MoonFacts' /\ MoonsStep
  BY <1>9, DeorbitMoons
<1>10. ASSUME NEW a, AddPeer(a) PROVE MoonFacts' /\ MoonsStep
  BY <1>10, MoonsUnchanged DEF AddPeer, worlds, store
<1>11. ASSUME NEW alive, DoPeriodicTasks(alive) PROVE MoonFacts' /\ MoonsStep
  BY <1>11, MoonsUnchanged DEF DoPeriodicTasks, worlds
<1>12. ASSUME NEW saved, Restart(saved) PROVE MoonFacts' /\ MoonsStep
  BY <1>12, RestartMoons
<1>13. CASE UNCHANGED vars
  BY <1>13, MoonsUnchanged DEF vars, worlds, store
<1> QED
  BY <1>1, <1>2, <1>3, <1>4, <1>5, <1>6, <1>7, <1>8, <1>9, <1>10, <1>11, <1>12, <1>13
  DEF Next, OrbitStep, ReceiveStep, GetPeerStep

LEMMA MoonInit == Init => MoonInv
<1>1. Init => JobsAsked
  BY DEF Init, JobsAsked, Idle
<1>2. Init => OnlyAskedMoons /\ FilesFollowed /\ FilesHeld
  BY DEF Init, OnlyAskedMoons, FilesFollowed, FilesHeld, Ids, Idle
<1> QED
  BY <1>1, <1>2, TypeInit DEF MoonInv

(* No moon is followed or waited for that the user did not ask for, and    *)
(* none is followed in two revisions.                                      *)
THEOREM MoonSafety == Spec => []OnlyAskedMoons
<1>1. MoonInv => OnlyAskedMoons
  BY DEF MoonInv
<1> QED
  BY <1>1, MoonInit, MoonStep, PTL DEF Spec

(* A moon and its file change to a successor only.                         *)
THEOREM MoonProgress == Spec => MoonsAdvance
<1>1. MoonInv /\ [Next]_vars => [MoonsStep]_vars
  BY MoonStep
<1> QED
  BY <1>1, MoonInit, MoonStep, PTL DEF Spec, MoonsAdvance, MoonsStep

----------------------------------------------------------------------------
(* The planet.  What is followed is what the state store has, so that the  *)
(* node starts again with it.                                              *)
PlanetInv == TypeOK /\ storedPlanet = planet

Succeeds(p, q) == q # p => /\ q.id = p.id /\ q.ts > p.ts
                           /\ q.signedBy = p.updatesMustBeSignedBy

LEMMA Succession ==
    ASSUME NEW p \in Planets, NEW q \in Planets, ShouldBeReplacedBy(p, q)
    PROVE  Succeeds(p, q)
<1>1. p.type = "planet" /\ p.ts \in Nat /\ q.ts \in Nat
  BY WorldTypes DEF World
<1> QED
  BY <1>1 DEF ShouldBeReplacedBy, Succeeds

LEMMA AddWorldPlanet ==
    ASSUME PlanetInv, NEW w \in Worlds, NEW always \in BOOLEAN, AddWorld(w, always)
    PROVE  storedPlanet' = planet' /\ Succeeds(planet, planet')
<1>1. CASE TakePlanet(w)
  <2>1. w \in Planets
    BY <1>1, WorldTypes DEF TakePlanet
  <2> QED
    BY <1>1, <2>1, Succession DEF TakePlanet, PlanetInv, TypeOK
<1>2. CASE TakeMoon(w, always)
  BY <1>2 DEF TakeMoon, PlanetInv, Succeeds
<1>3. CASE UNCHANGED <<worlds, peers, store>>
  BY <1>3 DEF worlds, store, PlanetInv, Succeeds
<1> QED
  BY <1>1, <1>2, <1>3 DEF AddWorld

LEMMA PlanetStep == PlanetInv /\ [Next]_vars => PlanetInv' /\ Succeeds(planet, planet')
<1> DEFINE Goal == storedPlanet' = planet' /\ Succeeds(planet, planet')
<1> SUFFICES ASSUME PlanetInv, [Next]_vars PROVE Goal
  BY TypeStep DEF PlanetInv
<1>a. \A t \in Thread : /\ job[t].call = "addMoon" => job[t] \in Orbiting
                        /\ job[t].call = "worlds" => job[t] \in Receiving
  BY DEF PlanetInv, TypeOK, Orbiting, Receiving, Finding, Idle
<1>b. ASSUME UNCHANGED <<planet, storedPlanet>> PROVE Goal
  BY <1>b DEF PlanetInv, Succeeds
<1>1. ASSUME NEW t \in Thread, OrbitLoad(t) PROVE Goal
  <2>1. PICK w \in job[t].found : AddWorld(w, TRUE)
    BY <1>1 DEF OrbitLoad
  <2>2. w \in Worlds
    BY <1>1, <1>a, WorldTypes DEF OrbitLoad, Orbiting
  <2> QED
    BY <2>1, <2>2, AddWorldPlanet
<1>2. ASSUME NEW t \in Thread, ReceiveWorld(t) PROVE Goal
  <2>1. PICK w \in job[t].left : AddWorld(w, FALSE)
    BY <1>2 DEF ReceiveWorld
  <2>2. w \in Worlds
    BY <1>2, <1>a DEF ReceiveWorld, Receiving
  <2> QED
    BY <2>1, <2>2, AddWorldPlanet
<1>3. ASSUME NEW saved, Restart(saved) PROVE Goal
  <2>1. planet' = PlanetAtStart(planet, DefaultPlanet) /\ storedPlanet' = planet'
    BY <1>3 DEF Restart, Construct, PlanetInv
  <2>2. CASE ShouldBeReplacedBy(planet, DefaultPlanet)
    BY <2>1, <2>2, Succession DEF PlanetAtStart, PlanetInv, TypeOK
  <2>3. CASE ~ShouldBeReplacedBy(planet, DefaultPlanet)
    BY <2>1, <2>3 DEF PlanetAtStart, Succeeds
  <2> QED
    BY <2>2, <2>3
<1>4. ASSUME NEW t, NEW id, NEW seed, OrbitRead(t, id, seed) PROVE Goal
  BY <1>4, <1>b DEF OrbitRead, worlds, store
<1>5. ASSUME NEW t, OrbitSeed(t) PROVE Goal
  BY <1>5, <1>b DEF OrbitSeed, store
<1>6. ASSUME NEW t, NEW from, NEW ws, ReceiveWorlds(t, from, ws) PROVE Goal
  BY <1>6, <1>b DEF ReceiveWorlds, worlds, store
<1>7. ASSUME NEW t, ReceiveBroken(t) PROVE Goal
  BY <1>7, <1>b DEF ReceiveBroken, worlds, store
<1>8. ASSUME NEW t, NEW a, GetPeerRead(t, a) PROVE Goal
  BY <1>8, <1>b DEF GetPeerRead, worlds, store
<1>9. ASSUME NEW t, GetPeerEnter(t) PROVE Goal
  BY <1>9, <1>b DEF GetPeerEnter, worlds, store
<1>10. ASSUME NEW id, Deorbit(id) PROVE Goal
  BY <1>10, <1>b DEF Deorbit
<1>11. ASSUME NEW a, AddPeer(a) PROVE Goal
  BY <1>11, <1>b DEF AddPeer, worlds, store
<1>12. ASSUME NEW alive, DoPeriodicTasks(alive) PROVE Goal
  BY <1>12, <1>b DEF DoPeriodicTasks, worlds
<1>13. CASE UNCHANGED vars
  BY <1>13, <1>b DEF vars, worlds, store
<1> HIDE DEF Goal
<1> QED
  BY <1>1, <1>2, <1>3, <1>4, <1>5, <1>6, <1>7, <1>8, <1>9, <1>10, <1>11, <1>12, <1>13
  DEF Next, OrbitStep, ReceiveStep, GetPeerStep

(* The planet changes to a successor only, signed with the key that its    *)
(* predecessor names, also when the process ends and starts again.         *)
THEOREM PlanetProgress == Spec => PlanetAdvances
<1>1. Init => PlanetInv
  BY TypeInit DEF Init, PlanetInv
<1>2. PlanetInv /\ [Next]_vars => [Succeeds(planet, planet')]_vars
  BY PlanetStep
<1> QED
  BY <1>1, <1>2, PlanetStep, PTL DEF Spec, PlanetAdvances, Succeeds

(* No world goes back to an older revision, whoever adds it and from where *)
(* (addWorld, the constructor of Topology).                                *)
THEOREM WorldProgress == Spec => WorldsAdvance
BY PlanetProgress, MoonProgress DEF WorldsAdvance

----------------------------------------------------------------------------
(* How worlds come: WorldUpdates, over the same planet, moons and seeds.   *)
USE WorldUpdatesAssumption

(* A moon that is taken is one more, or comes in place of one of the same  *)
(* ID; it is no longer waited for at one seed.                             *)
LEMMA MoonComes ==
    ASSUME NEW ms, NEW ss, NEW w \in Worlds, w.type = "moon",
           ms \subseteq Moons, ss \subseteq Seed,
           NEW taken \in WithMoon(ms, ss, w, FALSE)
    PROVE  /\ taken[1] \subseteq Moons /\ taken[2] \subseteq Seed
           /\ Ids(taken[1]) \union {s[1] : s \in taken[2]}
                  = Ids(ms) \union {s[1] : s \in ss}
<1>1. w \in Moons
  BY DEF Moons, Planets
<1>2. CASE w.id \in Ids(ms)
  <2>1. PICK m \in ms : m.id = w.id /\ taken = <<(ms \ {m}) \union {w}, ss>>
    BY <1>2 DEF WithMoon, WithId
  <2> QED
    BY <1>1, <2>1 DEF Ids
<1>3. CASE w.id \notin Ids(ms)
  <2>1. PICK s \in ss : s[1] = w.id /\ taken = <<ms \union {w}, ss \ {s}>>
    BY <1>3 DEF WithMoon, SeedsOf
  <2> QED
    BY <1>1, <2>1 DEF Ids
<1> QED
  BY <1>2, <1>3

LEMMA UpdatesSteps ==
    UpdatesTypeOK /\ [UpdatesNext]_updates => UpdatesTypeOK'
<1> SUFFICES ASSUME UpdatesTypeOK, [UpdatesNext]_updates PROVE UpdatesTypeOK'
  OBVIOUS
<1> USE DEF UpdatesTypeOK, node, packets
<1>1. CASE Lose
  BY <1>1 DEF Lose
<1>2. ASSUME NEW w \in Worlds, AddReceived(w) PROVE UpdatesTypeOK'
  <2>1. planet' \in Planets
    BY <1>2 DEF AddReceived, AddPlanet, AddMoon, Planets
  <2>2. moons' \subseteq Moons /\ seeds' \subseteq Seed
    BY <1>2, MoonComes DEF AddReceived, AddPlanet, AddMoon
  <2> QED
    BY <1>2, <2>1, <2>2 DEF AddReceived
<1>3. ASSUME NEW s \in Server, SendHello(s) PROVE UpdatesTypeOK'
  <2>1. {seed[1] : seed \in seeds} \subseteq MoonId
    BY DEF Seed
  <2> QED
    BY <1>3, <2>1 DEF SendHello, Hello
<1>4. ASSUME NEW s \in Server, Answer(s) PROVE UpdatesTypeOK'
  <2>1. PICK h \in hello :
          ok' = IF NewerPlanets(offers[s], h) \union NewerMoons(offers[s], h) = {}
                THEN ok
                ELSE {[from |-> s, worlds |-> NewerPlanets(offers[s], h)
                                                 \union NewerMoons(offers[s], h)]}
    BY <1>4 DEF Answer
  <2>2. NewerPlanets(offers[s], h) \union NewerMoons(offers[s], h) \subseteq Worlds
    BY DEF NewerPlanets, NewerMoons
  <2> QED
    BY <1>4, <2>1, <2>2 DEF Answer, Ok
<1>5. ASSUME NEW s \in Server, Receive(s) PROVE UpdatesTypeOK'
  BY <1>5 DEF Receive, Ok
<1>6. ASSUME NEW s \in Server, NEW w \in Worlds, Publish(s, w) PROVE UpdatesTypeOK'
  <2>1. (offers[s] \ WithId(offers[s], w.id)) \union {w} \in SUBSET Worlds
    OBVIOUS
  <2> QED
    BY <1>6, <2>1 DEF Publish
<1>7. ASSUME NEW id \in MoonId, DeorbitMoon(id) PROVE UpdatesTypeOK'
  BY <1>7 DEF DeorbitMoon
<1>8. ASSUME NEW id \in MoonId, NEW a \in Address \ {Self}, OrbitMoon(id, a)
      PROVE  UpdatesTypeOK'
  BY <1>8 DEF OrbitMoon, Seed
<1>9. CASE UNCHANGED updates
  BY <1>9 DEF updates
<1> QED
  BY <1>1, <1>2, <1>3, <1>4, <1>5, <1>6, <1>7, <1>8, <1>9 DEF UpdatesNext

LEMMA UpdatesStarts ==
    UpdatesInit => UpdatesTypeOK /\ NotForgotten
  BY DEF UpdatesInit, UpdatesTypeOK, NotForgotten, Ids, Planets

(* The planet, the moons, the seeds and all packets are well typed however *)
(* HELLO and OK are lost, come twice or late.                              *)
THEOREM UpdatesTypeCorrect ==
    UpdatesSpec => []UpdatesTypeOK
  BY UpdatesSteps, UpdatesStarts, PTL DEF UpdatesSpec

(* A step that asks for a moon, gives one up or takes one keeps what was   *)
(* asked for; no other step touches moons or seeds.                        *)
LEMMA RememberStep ==
    ASSUME UpdatesTypeOK, NotForgotten, [UpdatesNext]_updates
    PROVE  NotForgotten'
<1>1. ASSUME NEW w \in Worlds, AddReceived(w) PROVE NotForgotten'
  <2>1. CASE AddPlanet(w)
    BY <1>1, <2>1 DEF AddReceived, AddPlanet, NotForgotten
  <2>2. CASE AddMoon(w)
    <3>1. CASE WithMoon(moons, seeds, w, FALSE) = {}
      BY <1>1, <2>2, <3>1 DEF AddReceived, AddMoon, NotForgotten
    <3>2. ASSUME NEW taken \in WithMoon(moons, seeds, w, FALSE),
                 moons' = taken[1], seeds' = taken[2]
          PROVE  NotForgotten'
      <4>1. Ids(taken[1]) \union {s[1] : s \in taken[2]}
                = Ids(moons) \union {s[1] : s \in seeds}
        BY <2>2, MoonComes DEF UpdatesTypeOK, AddMoon
      <4> QED
        BY <1>1, <3>2, <4>1 DEF AddReceived, NotForgotten, Ids
    <3> QED
      BY <2>2, <3>1, <3>2 DEF AddMoon
  <2> QED
    BY <1>1, <2>1, <2>2 DEF AddReceived
<1>2. ASSUME NEW id \in MoonId, DeorbitMoon(id) PROVE NotForgotten'
  BY <1>2 DEF DeorbitMoon, NotForgotten, Ids, WithId
<1>3. ASSUME NEW id \in MoonId, NEW a \in Address \ {Self}, OrbitMoon(id, a)
      PROVE  NotForgotten'
  <2>1. {s[1] : s \in seeds \union {<<id, a>>}} = {s[1] : s \in seeds} \union {id}
    <3>1. <<id, a>>[1] = id
      OBVIOUS
    <3> QED
      BY <3>1
  <2> QED
    BY <1>3, <2>1 DEF OrbitMoon, NotForgotten, Ids
<1>4. ASSUME UNCHANGED <<moons, seeds, orbited>> PROVE NotForgotten'
  BY <1>4 DEF NotForgotten, Ids
<1> QED
  BY <1>1, <1>2, <1>3, <1>4
  DEF UpdatesNext, updates, node, Lose, SendHello,
      Answer, Receive, Publish

(* A moon the user asked for is followed or still waited for, whatever     *)
(* worlds come, from whom and in which order (Topology::addWorld).         *)
THEOREM UpdatesRemember ==
    UpdatesSpec => []NotForgotten
  BY UpdatesTypeCorrect, UpdatesStarts, RememberStep, PTL DEF UpdatesSpec

(* What the exchange brings goes forward only: each moon is followed once, *)
(* and planet and moons are replaced by their successors.                  *)
MoonsOnce == \A m, n \in moons : m.id = n.id => m = n

ForwardOnly ==
    [][/\ planet' # planet => ShouldBeReplacedBy(planet, planet')
       /\ \A m \in moons, n \in moons' :
            m.id = n.id => m = n \/ ShouldBeReplacedBy(m, n)]_updates

LEMMA MoonReplaced ==
    ASSUME NEW ms, NEW ss, NEW w, \A m, n \in ms : m.id = n.id => m = n,
           NEW taken \in WithMoon(ms, ss, w, FALSE)
    PROVE  /\ \A m, n \in taken[1] : m.id = n.id => m = n
           /\ \A m \in ms, n \in taken[1] : m.id = n.id => m = n \/ ShouldBeReplacedBy(m, n)
<1>1. CASE w.id \in Ids(ms)
  <2>1. PICK m \in ms : /\ m.id = w.id /\ ShouldBeReplacedBy(m, w)
                        /\ taken = <<(ms \ {m}) \union {w}, ss>>
    BY <1>1 DEF WithMoon, WithId
  <2>2. taken[1] = (ms \ {m}) \union {w}
    BY <2>1
  <2>3. \A n \in ms : n.id = w.id => n = m
    BY <2>1
  <2> QED
    BY <2>1, <2>2, <2>3
<1>2. CASE w.id \notin Ids(ms)
  <2>1. PICK s \in ss : taken = <<ms \union {w}, ss \ {s}>>
    BY <1>2 DEF WithMoon, SeedsOf
  <2>2. taken[1] = ms \union {w} /\ \A m \in ms : m.id # w.id
    BY <1>2, <2>1 DEF Ids
  <2> QED
    BY <2>2
<1> QED
  BY <1>1, <1>2

LEMMA ForwardStep ==
    ASSUME MoonsOnce, [UpdatesNext]_updates
    PROVE  /\ MoonsOnce'
           /\ planet' # planet => ShouldBeReplacedBy(planet, planet')
           /\ \A m \in moons, n \in moons' :
                m.id = n.id => m = n \/ ShouldBeReplacedBy(m, n)
<1> DEFINE Goal == /\ MoonsOnce'
                   /\ planet' # planet => ShouldBeReplacedBy(planet, planet')
                   /\ \A m \in moons, n \in moons' :
                        m.id = n.id => m = n \/ ShouldBeReplacedBy(m, n)
<1>1. ASSUME planet' = planet, moons' \subseteq moons PROVE Goal
  BY <1>1 DEF MoonsOnce
<1>2. ASSUME NEW w \in Worlds, AddReceived(w) PROVE Goal
  <2>1. CASE AddPlanet(w)
    BY <2>1 DEF AddPlanet, MoonsOnce
  <2>2. CASE AddMoon(w)
    <3>1. planet' = planet
      BY <2>2 DEF AddMoon
    <3>2. CASE moons' = moons
      BY <1>1, <3>1, <3>2
    <3>3. ASSUME NEW taken \in WithMoon(moons, seeds, w, FALSE), moons' = taken[1]
          PROVE  Goal
      <4>1. \A m, n \in moons : m.id = n.id => m = n
        BY DEF MoonsOnce
      <4>2. /\ \A m, n \in taken[1] : m.id = n.id => m = n
            /\ \A m \in moons, n \in taken[1] :
                  m.id = n.id => m = n \/ ShouldBeReplacedBy(m, n)
        BY <4>1, MoonReplaced
      <4> QED
        BY <3>1, <3>3, <4>2 DEF MoonsOnce
    <3> QED
      BY <2>2, <3>2, <3>3 DEF AddMoon
  <2> QED
    BY <1>2, <2>1, <2>2 DEF AddReceived
<1>3. \/ \E w \in Worlds : AddReceived(w)
      \/ planet' = planet /\ moons' \subseteq moons
  BY DEF UpdatesNext, updates, node, Lose, SendHello, Answer, Receive, Publish,
     DeorbitMoon, OrbitMoon
<1> QED
  BY <1>1, <1>2, <1>3

(* However old, repeated or mixed the answers are, no moon is followed     *)
(* twice, and each world is replaced by one that is newer and signed with  *)
(* the key it names (Topology::addWorld, World::shouldBeReplacedBy).       *)
THEOREM UpdatesGoForward == UpdatesSpec => []MoonsOnce /\ ForwardOnly
<1>1. UpdatesInit => MoonsOnce
  BY DEF UpdatesInit, MoonsOnce
<1>2. MoonsOnce /\ [UpdatesNext]_updates => MoonsOnce'
  BY ForwardStep
<1>3. MoonsOnce /\ [UpdatesNext]_updates =>
        [/\ planet' # planet => ShouldBeReplacedBy(planet, planet')
         /\ \A m \in moons, n \in moons' :
              m.id = n.id => m = n \/ ShouldBeReplacedBy(m, n)]_updates
  BY ForwardStep
<1> QED
  BY <1>1, <1>2, <1>3, PTL DEF UpdatesSpec, ForwardOnly

(* A HELLO that lists what the node has now asks for all that it would     *)
(* take: a contact with a world the node wants answers with it.            *)
AnswersSuffice ==
    \A s \in Server, h \in Hello :
        h.planet = planet /\ h.moons = moons /\ h.wanted = {seed[1] : seed \in seeds} =>
            \A w \in offers[s] : Wants(w) /\ w.ts > 0 =>
                w \in NewerPlanets(offers[s], h) \union NewerMoons(offers[s], h)

LEMMA SufficientAnswer ==
    ASSUME UpdatesTypeOK, NEW s \in Server, NEW h \in Hello,
           h.planet = planet, h.moons = moons, h.wanted = {seed[1] : seed \in seeds},
           NEW w \in offers[s], Wants(w), w.ts > 0
    PROVE  w \in NewerPlanets(offers[s], h) \union NewerMoons(offers[s], h)
<1>1. w \in Worlds /\ w \in World /\ (w.type = "planet" \/ w.type = "moon")
  BY WorldTypes DEF UpdatesTypeOK, World
<1>2. CASE w.type = "planet"
  <2>1. planet.type = "planet"
    BY WorldTypes DEF UpdatesTypeOK
  <2>2. planet.id = w.id /\ planet.ts < w.ts
    BY <1>2, <2>1 DEF Wants, ShouldBeReplacedBy
  <2>3. planet.ts \in Nat /\ w.ts \in Nat
    BY <1>1, WorldTypes DEF UpdatesTypeOK, World
  <2> QED
    BY <1>2, <2>2, <2>3 DEF NewerPlanets
<1>3. CASE w.type = "moon"
  <2>1. WithMoon(moons, seeds, w, FALSE) # {}
    BY <1>3 DEF Wants
  <2>2. CASE w.id \in Ids(moons)
    <3>1. PICK m \in WithId(moons, w.id) : ShouldBeReplacedBy(m, w)
      BY <2>1, <2>2 DEF WithMoon
    <3>2. m \in moons /\ m \in Moons
      BY <3>1 DEF WithId, UpdatesTypeOK
    <3>3. m.type = "moon" /\ m.ts \in Nat /\ w.ts \in Nat
      BY <1>1, <3>2, WorldTypes DEF World
    <3>4. w.ts > m.ts
      BY <3>1, <3>3 DEF ShouldBeReplacedBy
    <3> QED
      BY <1>3, <3>1, <3>4 DEF NewerMoons
  <2>3. CASE w.id \notin Ids(moons)
    <3>1. PICK s1 \in seeds : s1[1] = w.id
      BY <2>1, <2>3 DEF WithMoon, SeedsOf
    <3>2. w.id \in h.wanted \ Ids(h.moons)
      BY <2>3, <3>1
    <3> QED
      BY <1>3, <3>2 DEF NewerMoons
  <2> QED
    BY <2>2, <2>3
<1> QED
  BY <1>1, <1>2, <1>3

(* Which is what Learns rests on: no world is kept from a node because its *)
(* HELLO says too little about what it has (Peer::sendHELLO, _doHELLO).    *)
THEOREM HelloSaysEnough == UpdatesSpec => []AnswersSuffice
<1>1. UpdatesTypeOK => AnswersSuffice
  BY SufficientAnswer DEF AnswersSuffice
<1> QED
  BY <1>1, UpdatesTypeCorrect, PTL
=============================================================================
