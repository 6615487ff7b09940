---------------------------- MODULE TopologyOps ----------------------------
(***************************************************************************)
(* Worlds and what a node makes of them: src/generator/node/World.hpp and  *)
(* the part of Topology.cpp that is a function of planet, moons and seeds. *)
(*                                                                         *)
(* A world definition names its roots, the key it is signed with and the   *)
(* key its successor must be signed with.  Endpoints of the roots are left *)
(* out: they decide where packets go, not which worlds are taken.          *)
(***************************************************************************)
EXTENDS Integers

CONSTANTS
    Address,        \* addresses of nodes
    Self,           \* RR->identity
    Keys,           \* keys that sign worlds
    Worlds          \* every world definition that was ever signed

World == [type : {"planet", "moon"}, id : Nat \ {0}, ts : Nat,
          signedBy : Keys, updatesMustBeSignedBy : Keys, roots : SUBSET Address]

ASSUME WorldsAssumption == Worlds \subseteq World /\ Self \in Address

(* World(): what _planet is before the first planet is taken.              *)
NullWorld == [type |-> "null", id |-> 0, ts |-> 0, roots |-> {}]

Planets == {w \in Worlds : w.type = "planet"}
Moons == Worlds \ Planets
MoonId == {w.id : w \in Moons}
Seed == MoonId \X (Address \ {Self})

Ids(worlds) == {w.id : w \in worlds}
WithId(worlds, id) == {w \in worlds : w.id = id}

ShouldBeReplacedBy(world, update) ==
    \/ world.type = "null"
    \/ /\ world.id = update.id /\ world.type = update.type
       /\ world.ts < update.ts
       /\ update.signedBy = world.updatesMustBeSignedBy

(* A new moon is taken when the user loads it, or when the roots of it     *)
(* include the seed it was expected from, which is then forgotten.  The    *)
(* seeds are a vector in the code and the first that fits is forgotten.    *)
SeedsOf(seeds, moon) == {s \in seeds : s[1] = moon.id /\ s[2] \in moon.roots}

(* Mutant of WithMoon: a moon that is loaded replaces what is followed.    *)
WithMoon_LoadReplaces(moons, seeds, moon, alwaysAcceptNew) ==
    IF alwaysAcceptNew THEN {<<(moons \ WithId(moons, moon.id)) \union {moon}, seeds>>}
    ELSE IF moon.id \in Ids(moons)
    THEN {<<(moons \ {m}) \union {moon}, seeds>> :
             m \in {m \in WithId(moons, moon.id) : ShouldBeReplacedBy(m, moon)}}
    ELSE {<<moons \union {moon}, seeds \ {s}>> : s \in SeedsOf(seeds, moon)}

(* addWorld of a moon.  The moons and seeds that may result; none if the   *)
(* moon is refused.                                                        *)
WithMoon(moons, seeds, moon, alwaysAcceptNew) ==
    IF moon.id \in Ids(moons)
    THEN {<<(moons \ {m}) \union {moon}, seeds>> :
             m \in {m \in WithId(moons, moon.id) : ShouldBeReplacedBy(m, moon)}}
    ELSE IF alwaysAcceptNew THEN {<<moons \union {moon}, seeds>>}
    ELSE {<<moons \union {moon}, seeds \ {s}>> : s \in SeedsOf(seeds, moon)}

(* _memoizeUpstreams                                                       *)
Roots(planet, moons) == planet.roots \union UNION {m.roots : m \in moons}

(* Mutant of UpstreamsOf: this node is its own upstream.                   *)
UpstreamsOf_Self(planet, moons) == Roots(planet, moons)

UpstreamsOf(planet, moons) == Roots(planet, moons) \ {Self}

(* The constructor: the planet in the state store, then the built-in one.  *)
PlanetAtStart(cached, default) ==
    IF ShouldBeReplacedBy(cached, default) THEN default ELSE cached
============================================================================
