------------------------------ MODULE MCDerived ------------------------------
(***************************************************************************)
(* Two programs over data derived from the particles, for TLC: the         *)
(* subscribers of Topology, and the cell list with the neighbor list that  *)
(* is built from it.  A behaviour is one of them; the variables of the     *)
(* other keep a value that is not used.                                    *)
(***************************************************************************)
EXTENDS MCTopology

VARIABLES
    program,                \* "topology" or "cells"
    L, pos, forces, list, cells, steps, called, refused   \* of NeighborListBinned

cellVars == <<L, pos, forces, list, cells, steps, called, refused>>

MCBoxes == {<<7, 9>>, <<9, 7>>}
MCSites == {<<0, -3>>, <<0, 0>>, <<3, 3>>, <<4, 0>>}
MCParticles == {<<<<0, 0>>, <<1, 0>>>>, <<<<0, 0>>, <<1, 0>>, <<0, 1>>>>}
MCStarts ==
    {[box |-> <<7, 9>>, particles |-> <<<<0, 0>>, <<1, 0>>>>, forces |-> <<1>>, buffer |-> 1],
     [box |-> <<9, 7>>, particles |-> <<<<3, 1>>, <<-3, 0>>>>, forces |-> <<2>>, buffer |-> 1]}

Binned == INSTANCE NeighborListBinned
            WITH nl <- list, c <- cells, failed <- refused,
                 Starts <- MCStarts, Boxes <- MCBoxes, Sites <- MCSites,
                 Particles <- MCParticles, Force <- {1, 2}, Cutoffs <- {1, 2},
                 Buffers <- {1, 2}, Granule <- 1, MaxSteps <- 3

\* Nothing is watched, and there are no particles.
Idle ==
    /\ watched = "none" /\ pd = Restored(<<>>, 0) /\ bonds = NewGroupData
    /\ group = NewGroup(pd, "A") /\ nl = NewListWithExclusions(1, 0)
    /\ rigid = [body |-> <<>>, attached |-> FALSE, f |-> NewForceComposite({}),
                asked |-> <<>>, ignored |-> {}]
    /\ changes = 0 /\ retyped = {} /\ failed = FALSE /\ created = FALSE

MCInit ==
    \/ /\ program = "topology" /\ Init
       /\ L = <<>> /\ pos = <<>> /\ forces = <<>> /\ list = <<>> /\ cells = <<>>
       /\ steps = 0 /\ called = FALSE /\ refused = FALSE
    \/ program = "cells" /\ Binned!Init /\ Idle

MCNext ==
    \/ program = "topology" /\ Next /\ UNCHANGED <<program, cellVars>>
    \/ program = "cells" /\ Binned!Next /\ UNCHANGED <<program, vars>>

MCSpec == MCInit /\ [][MCNext]_<<program, vars, cellVars>>

-----------------------------------------------------------------------------
(* Every two particles within the largest cutoff are in the list that      *)
(* compute() returns, see NeighborListBinned.                              *)
NeighborsFound == program = "cells" => Binned!NeighborsFound

(* No neighbor is listed twice, and none is stored beyond the room of its  *)
(* particle, see NeighborListBinned.                                       *)
NeighborsApart == program = "cells" => Binned!NeighborsApart
=============================================================================
