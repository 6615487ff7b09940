---------------------------- MODULE WorldUpdates ----------------------------
(***************************************************************************)
(* How a node learns planets and moons: HELLO and OK(HELLO), Peer.cpp      *)
(* (sendHELLO) and IncomingPacket.cpp (_doHELLO, _doOK) in                 *)
(* src/generator/node.                                                     *)
(*                                                                         *)
(* A HELLO names the worlds the sender has and the moons it waits for; the *)
(* answer brings what the receiver has that is newer.  Packets are lost    *)
(* and come twice, worlds are published and the user orbits and deorbits   *)
(* meanwhile.  What a world does to planet, moons and seeds is in          *)
(* TopologyOps, the table of peers and the state store are in Topology.    *)
(* Some names differ from those of Topology only so that proofs can speak  *)
(* of both modules.                                                        *)
(***************************************************************************)
EXTENDS WorldState

CONSTANTS
    Server,         \* the other nodes that are online and answer HELLOs
    FirstPlanet     \* the planet that all start with

ASSUME WorldUpdatesAssumption == Server \subseteq Address \ {Self} /\ FirstPlanet \in Planets

VARIABLES
    offers,         \* the worlds each server has
    hello,          \* the HELLO under way
    ok,             \* the OK(HELLO) under way
    left            \* worlds of received OK(HELLO)s that are to be added

node == <<planet, moons, seeds>>
packets == <<hello, ok, left>>
updates == <<node, offers, packets, orbited>>

(* Bound of the model: one HELLO and one OK are under way.  A later one    *)
(* stands in for the loss of an earlier one.                               *)
Hello == [to : Server, planet : Planets, moons : SUBSET Moons, wanted : SUBSET MoonId]
Ok == [from : Server, worlds : SUBSET Worlds]

UpdatesTypeOK ==
    /\ planet \in Planets /\ moons \subseteq Moons /\ seeds \subseteq Seed
    /\ offers \in [Server -> SUBSET Worlds]
    /\ hello \subseteq Hello
    /\ ok \subseteq Ok /\ left \subseteq Worlds
    /\ orbited \subseteq MoonId

UpdatesInit ==
    /\ planet = FirstPlanet /\ moons = {} /\ seeds = {}
    /\ offers = [s \in Server |-> {FirstPlanet}]
    /\ hello = {} /\ ok = {} /\ left = {}
    /\ orbited = {}

----------------------------------------------------------------------------
(* Upstreams, and seeds of moons the node waits for, are sent HELLOs, and  *)
(* their worlds are taken.                                                 *)
Contacts == UpstreamsOf(planet, moons) \union {s[2] : s \in seeds}

(* A server gets a world: a successor of one it has, or a moon it orbits.  *)
Publish(s, w) ==
    /\ w.id \in Ids(offers[s]) \/ w.type = "moon"
    /\ \A v \in WithId(offers[s], w.id) : ShouldBeReplacedBy(v, w)
    /\ offers' = [offers EXCEPT ![s] = (@ \ WithId(@, w.id)) \union {w}]
    /\ UNCHANGED <<node, packets, orbited>>

(* Node::orbit, for a moon that is not in the state store.                 *)
OrbitMoon(id, a) ==
    /\ seeds' = seeds \union {<<id, a>>}
    /\ orbited' = orbited \union {id}
    /\ UNCHANGED <<planet, moons, offers, packets>>

DeorbitMoon(id) ==
    /\ moons' = moons \ WithId(moons, id)
    /\ seeds' = {s \in seeds : s[1] # id}
    /\ orbited' = orbited \ {id}
    /\ UNCHANGED <<planet, offers, packets>>

----------------------------------------------------------------------------
(* Mutant of SendHello: it lists seeds instead of moons.                   *)
SendHello_Seeds(s) ==
    /\ s \in Contacts
    /\ hello' = {[to |-> s, planet |-> planet, moons |-> moons,
                  wanted |-> {seed[2] : seed \in seeds}]}
    /\ UNCHANGED <<node, offers, ok, left, orbited>>

(* sendHELLO.  It copies the moons and then the seeds; a moon that comes   *)
(* or goes between the copies is listed twice or not at all, which asks    *)
(* for no more than a HELLO before or after does.                          *)
SendHello(s) ==
    /\ s \in Contacts
    /\ hello' = {[to |-> s, planet |-> planet, moons |-> moons,
                  wanted |-> {seed[1] : seed \in seeds}]}
    /\ UNCHANGED <<node, offers, ok, left, orbited>>

(* _doHELLO answers with what is newer than what the HELLO lists; a moon   *)
(* that is waited for is listed with timestamp 0, after those there are.   *)
NewerPlanets(has, h) ==
    {p \in has : p.type = "planet" /\ p.id = h.planet.id /\ p.ts > h.planet.ts}

(* Mutant of NewerMoons: only moons that the sender has are looked at.     *)
NewerMoons_Known(has, h) ==
    {m \in has : m.type = "moon" /\ \E k \in WithId(h.moons, m.id) : m.ts > k.ts}

NewerMoons(has, h) ==
    {m \in has : /\ m.type = "moon"
                 /\ \/ \E k \in WithId(h.moons, m.id) : m.ts > k.ts
                    \/ m.id \in h.wanted \ Ids(h.moons) /\ m.ts > 0}

Answer(s) ==
    \E h \in hello :
        /\ h.to = s
        /\ LET news == NewerPlanets(offers[s], h) \union NewerMoons(offers[s], h)
           IN  ok' = IF news = {} THEN ok ELSE {[from |-> s, worlds |-> news]}
        /\ hello' = {}
        /\ UNCHANGED <<node, offers, left, orbited>>

(* _doOK: the sender is checked once, its worlds are added one by one.     *)
(* Several threads may do so, and a packet may come again.                 *)
Receive(s) ==
    \E p \in ok :
        /\ p.from = s
        /\ left' = IF s \in Contacts THEN left \union p.worlds ELSE left
        /\ ok' \in {ok, {}}
        /\ UNCHANGED <<node, offers, hello, orbited>>

AddPlanet(w) ==
    /\ w.type = "planet"
    /\ planet' = IF ShouldBeReplacedBy(planet, w) THEN w ELSE planet
    /\ UNCHANGED <<moons, seeds>>

(* Mutant of AddMoon: the seeds are forgotten though the moon is refused.  *)
AddMoon_Forgets(w) ==
    /\ w.type = "moon"
    /\ \/ \E taken \in WithMoon(moons, seeds, w, FALSE) :
            moons' = taken[1] /\ seeds' = taken[2]
       \/ WithMoon(moons, seeds, w, FALSE) = {} /\ moons' = moons
          /\ seeds' = {s \in seeds : s[1] # w.id}
    /\ UNCHANGED planet

AddMoon(w) ==
    /\ w.type = "moon"
    /\ \/ \E taken \in WithMoon(moons, seeds, w, FALSE) :
            moons' = taken[1] /\ seeds' = taken[2]
       \/ WithMoon(moons, seeds, w, FALSE) = {} /\ UNCHANGED <<moons, seeds>>
    /\ UNCHANGED planet

AddReceived(w) ==
    /\ w \in left
    /\ AddPlanet(w) \/ AddMoon(w)
    /\ left' = left \ {w}
    /\ UNCHANGED <<offers, hello, ok, orbited>>

Lose ==
    /\ \/ hello # {} /\ hello' = {} /\ ok' = ok
       \/ ok # {} /\ ok' = {} /\ hello' = hello
    /\ UNCHANGED <<node, offers, left, orbited>>

----------------------------------------------------------------------------
UpdatesNext ==
    \/ Lose
    \/ \E w \in Worlds : AddReceived(w)
    \/ \E s \in Server : \/ SendHello(s) \/ Answer(s) \/ Receive(s)
                         \/ \E w \in Worlds : Publish(s, w)
    \/ \E id \in MoonId : DeorbitMoon(id) \/ \E a \in Address \ {Self} : OrbitMoon(id, a)

(* The background tasks send a HELLO to every contact again and again, a   *)
(* call goes on until it ends, and not every packet is lost.  Nobody has   *)
(* to publish, orbit or deorbit.                                           *)
Fairness ==
    /\ \A w \in Worlds : WF_updates(AddReceived(w))
    /\ \A s \in Server : SF_updates(SendHello(s)) /\ SF_updates(Answer(s)) /\ SF_updates(Receive(s))

UpdatesSpec == UpdatesInit /\ [][UpdatesNext]_updates /\ Fairness

----------------------------------------------------------------------------
(* A moon the user asked for is followed, or it is still waited for: no    *)
(* world that comes in makes the node forget what it was asked for.        *)
NotForgotten == orbited = Ids(moons) \union {s[1] : s \in seeds}

(* The node would take the world if it came.                               *)
Wants(w) ==
    IF w.type = "planet" THEN ShouldBeReplacedBy(planet, w)
    ELSE WithMoon(moons, seeds, w, FALSE) # {}

(* A world that a contact has and the node would take is taken, unless the *)
(* contact, or the user, replaces it or gives it up: what a HELLO lists is *)
(* enough for the contact to know, and no packet that was lost, came twice *)
(* or is out of date stops it.                                             *)
Learns ==
    \A s \in Server, w \in Worlds :
        (s \in Contacts /\ w \in offers[s] /\ Wants(w))
            ~> ~(s \in Contacts /\ w \in offers[s] /\ Wants(w))
=============================================================================
