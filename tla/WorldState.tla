---------------------------- MODULE WorldState ----------------------------
(***************************************************************************)
(* The worlds a node follows and waits for: the members of Topology.hpp in *)
(* src/generator/node that Topology and WorldUpdates both change, the one  *)
(* with threads and a state store around them, the other with the nodes    *)
(* that worlds come from.                                                  *)
(***************************************************************************)
EXTENDS TopologyOps

VARIABLES
    planet,         \* _planet
    moons,          \* _moons
    seeds,          \* _moonSeeds
    orbited         \* history: moons asked for and not given up since
============================================================================
