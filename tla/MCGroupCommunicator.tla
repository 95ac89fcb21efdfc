------------------------ MODULE MCGroupCommunicator ------------------------
(***************************************************************************)
(* The jobs of the model-checking runs of GroupCommunicator.tla.           *)
(***************************************************************************)
EXTENDS GroupCommunicator

MCTags == {0, 1, 2}

Hop(x, y, upper) == [hop |-> <<x, y>>, upper |-> upper]
AlongX == {Hop(x, 0, {}) : x \in {-1, 0, 1}}
Eastward == {Hop(x, 0, {}) : x \in {0, 1}}
Halves == {Hop(x, 0, upper) : x \in {0, 1}, upper \in {{}, {1}}}
Diagonal == {Hop(x, y, {}) : x, y \in {0, 1}}

Job(w, h, groups, snapshots, hops, start, n) ==
    [w |-> w, h |-> h, groups |-> groups, snapshots |-> snapshots, maxGroups |-> 2,
     hops |-> hops, start |-> start, calls |-> n, chains |-> FALSE]

Owners(n) == {o \in [MCTags -> 0..(n - 1)] : o[0] = 0}
Bonds == {<<0, 1>>, <<2, 1>>}
Both == <<<<0, 1>>, <<2, 1>>>>

\* Three domains in a row with bonds, and with an angle.
Ring == Job(3, 1, Bonds, {<<<<0, 1>>>>, Both}, AlongX, Owners(3), 2)
Angle == Job(3, 1, {<<0, 1, 2>>}, {<<<<0, 1, 2>>>>}, AlongX, Owners(3), 1)

\* Two domains in a row: both neighbors are the same rank.  Longer sequences of
\* calls, and particles in both halves of a domain.
Pair == Job(2, 1, Bonds, {<<<<0, 1>>>>}, Eastward, Owners(2), 4)
Sides == Job(2, 1, Bonds, {Both}, Halves, Owners(2), 1)

\* Two by two domains, particles that move along both axes.
Square4 == Job(2, 2, {<<0, 1>>}, {<<<<0, 1>>>>}, Diagonal, {o \in Owners(4) : o[2] = 3}, 1)

MCJobs == {Ring, Angle, Pair, Sides, Square4}

\* Four domains in a row and two bonds: the particle they share has a partner on
\* either side.
Chain == [Job(4, 1, Bonds, {Both}, {Hop(0, 0, {})}, {<<1, 2>> @@ (0 :> 0)}, 1) EXCEPT !.chains = TRUE]
ChainJobs == {Chain}
=============================================================================
