------------------------- MODULE NeighborListBinned -------------------------
(***************************************************************************)
(* A neighbor list that is built from a cell list                          *)
(* (hoomd/md/NeighborListBinned.cc), with the memory it keeps its          *)
(* neighbors in (buildHeadList(), resizeNlist(), checkConditions()), in a  *)
(* box that changes its size, for forces that come, go and change their    *)
(* cutoff.  Not decomposed, one particle type, no exclusions,              *)
(* m_storage_mode = half.  The value nl of NeighborList gets more fields:  *)
(*                                                                         *)
(*   nl.rcut      m_rcut_max_max, also the only entry of m_r_cut;          *)
(*   nl.stale     m_rcut_changed;                                          *)
(*   nl.cellSize  m_update_cell_size;                                      *)
(*   nl.lastL     the box at the last update (m_last_L);                   *)
(*   nl.nmax      the room for neighbors (m_Nmax), nl.head the start of    *)
(*                the neighbors of every particle in the array of nl.space *)
(*                elements (m_head_list, m_nlist);                         *)
(*   nl.neigh     the neighbors of every particle (m_n_neigh, m_nlist).    *)
(*                                                                         *)
(* Time steps are relative as in Topology: 1 is the current one.           *)
(***************************************************************************)
EXTENDS NeighborList, CellList

CONSTANTS
    Starts,         \* where a simulation begins: box, particles, forces and buffer
    Boxes,          \* box sizes
    Sites,          \* positions, those outside of a box are not used with it
    Particles,      \* the snapshots a user restores: sequences of sites
    Force,          \* pair forces
    Cutoffs,        \* cutoffs of pair forces, 0 for none
    Buffers,        \* what is assigned to NeighborList.buffer
    Granule,        \* the room for neighbors grows in these units (4 in the code)
    MaxSteps        \* bound on the changes

VARIABLES
    L,              \* the box
    pos,            \* positions by index
    forces,         \* the cutoff of every force that uses the list (m_consumer_r_cut)
    nl,
    c,              \* the cell list
    steps,          \* changes made so far
    called,         \* compute() was called since the last change
    failed          \* it has thrown, and the list was not built since

vars == <<L, pos, forces, nl, c, steps, called, failed>>

job == [delay |-> 0, dist |-> TRUE]
now == 1

Inside(x, box) == \A k \in Axes : 2 * x[k] >= -box[k] /\ 2 * x[k] <= box[k]
Wrap(x, box) ==
    [k \in Axes |-> IF 2 * x[k] >= box[k] THEN x[k] - box[k]
                    ELSE IF 2 * x[k] < -box[k] THEN x[k] + box[k] ELSE x[k]]
Distance2(x, y, box) ==
    Square(Nearest(x[1] - y[1], box[1])) + Square(Nearest(x[2] - y[2], box[2]))

-----------------------------------------------------------------------------
NewBinnedList(rbuff, box) ==
    NewList(rbuff) @@
    [rcut |-> 0, stale |-> TRUE, cellSize |-> TRUE, lastL |-> box, nmax |-> Granule,
     head |-> <<>>, space |-> 0, neigh |-> <<>>]

notifyRCutMatrixChange(n) == forceUpdate([n EXCEPT !.stale = TRUE, !.cellSize = TRUE])

updateRList(n) == [n EXCEPT !.rcut = Max({0} \union Range(forces)), !.stale = FALSE]

\* resizeNlist(): growth by 9/8, rounded up to a multiple of 4.
resizeNlist(n, size) ==
    LET grown[a \in Nat] == IF size > a THEN grown[(9 * a) \div 8 + 1] ELSE a
        a == grown[Max({1, n.space})]
    IN  IF size <= n.space THEN n ELSE [n EXCEPT !.space = IF a > 4 THEN ((a + 3) \div 4) * 4 ELSE 4]

buildHeadList(n) ==
    resizeNlist([n EXCEPT !.head = [i \in DOMAIN pos |-> (i - 1) * n.nmax]], Len(pos) * n.nmax)

\* checkBoxSize() throws.
TooSmall(n) == \E k \in Axes : L[k] <= 2 * (n.rcut + n.rbuff)

\* Mutant: the buffer is used up without regard to the contraction of the box.
distanceCheckInBox_NoContraction(n) ==
    \E i \in DOMAIN pos :
        4 * Distance2(pos[i], IF i \in DOMAIN n.lastPos THEN n.lastPos[i] ELSE <<0, 0>>, L)
            >= Square(n.rbuff)

(* distanceCheck(): a particle has left the place where the deformation of *)
(* the box takes it by half of what is left of the buffer.  All lengths    *)
(* are multiplied by the product of the old box lengths; the third length  *)
(* of a two-dimensional box does not change.                               *)
distanceCheckInBox(n) ==
    LET old    == n.lastL
        unit   == old[1] * old[2]
        lambda == <<L[1] * old[2], L[2] * old[1]>>
        left   == (n.rcut + n.rbuff) * Min({lambda[1], lambda[2], unit}) - n.rcut * unit
        last(i) == IF i \in DOMAIN n.lastPos THEN n.lastPos[i] ELSE <<0, 0>>
        moved(i) == Distance2(<<unit * pos[i][1], unit * pos[i][2]>>,
                              <<lambda[1] * last(i)[1], lambda[2] * last(i)[2]>>,
                              <<unit * L[1], unit * L[2]>>)
    IN  \E i \in DOMAIN pos : 4 * moved(i) >= Square(Max({0, left}))

-----------------------------------------------------------------------------
(* buildNlist(): the particles in the cells around that of a particle, in  *)
(* the order in which they are found, of which those within the cutoff and *)
(* with a larger index are counted, and stored while there is room.        *)
Found(n, d, i) ==
    LET near == d.adj[CellOf(d, L, pos[i])]
        seen == FlattenSeq([k \in DOMAIN near |-> d.members[near[k]]])
    IN  SelectSeq(seen, LAMBDA j : /\ i < j /\ n.rcut > 0
                                   /\ Distance2(pos[i], pos[j], L) <= Square(n.rcut + n.rbuff))
FoundBy(n, d) == [i \in DOMAIN pos |-> Found(n, d, i)]
Stored(n, found) == [n EXCEPT !.neigh = [i \in DOMAIN found |-> FirstOf(found[i], n.nmax)]]

\* checkConditions(): the largest number of neighbors that was counted, rounded
\* up, if there is no room for it.
NewRoom(n, found) ==
    LET m == Max({0} \union {Len(found[i]) : i \in DOMAIN found})
    IN  IF m > n.nmax THEN ((m + Granule - 1) \div Granule) * Granule ELSE n.nmax

\* The loop of compute(): the list is built again once there is room.
buildUntilItFits(n, d) ==
    LET found == FoundBy(n, d)
        room  == NewRoom(n, found)
    IN  Stored(IF room > n.nmax THEN buildHeadList([n EXCEPT !.nmax = room]) ELSE n, found)

\* The cell list buildNlist() uses: the width follows the cutoff.
CellsFor(n) == computeCells(IF n.cellSize THEN setNominalWidth(c, n.rcut + n.rbuff) ELSE c, L, pos)

(* compute(), called by the forces: up to the update, and the update if it *)
(* is needed.                                                              *)
Checked ==
    LET n == IF nl.stale THEN updateRList(nl) ELSE nl
    IN  IF n.force THEN buildHeadList(Noted(n, now)) ELSE Noted(n, now)

computeList ==
    LET n      == Checked
        vote   == distanceCheckInBox(n)
        asks   == Computes(nl, now)
        builds == asks /\ Verdict(job, n, now, vote)
        left   == IF asks THEN needsUpdating(job, n, now, vote) ELSE n
    IN  /\ c' = IF builds /\ ~TooSmall(n) THEN CellsFor(left) ELSE c
        /\ nl' = IF builds /\ ~TooSmall(n)
                 THEN [buildUntilItFits([left EXCEPT !.cellSize = FALSE], c')
                         EXCEPT !.lastPos = pos, !.lastL = L]
                 ELSE left
        /\ called' = ~(builds /\ TooSmall(n))
        /\ failed' = IF builds THEN TooSmall(n) ELSE failed
        /\ UNCHANGED <<L, pos, forces, steps>>

-----------------------------------------------------------------------------
Change == steps < MaxSteps /\ steps' = steps + 1 /\ called' = FALSE

\* A new time step.
NextStep(n) == [n EXCEPT !.checked = 0, !.computed = 0, !.updated = 0]
Later == nl' = NextStep(nl)

\* The integration moves a particle.
move(i, x) ==
    /\ Change /\ Inside(x, L)
    /\ pos' = [pos EXCEPT ![i] = Wrap(x, L)]
    /\ Later
    /\ c' = [c EXCEPT !.computed = 0]
    /\ UNCHANGED <<L, forces, failed>>

\* BoxResize in a time step, which does not scale the particles its filter
\* leaves out; all are wrapped.
resizeBox(box) ==
    /\ Change /\ box # L
    /\ L' = box
    /\ pos' = [i \in DOMAIN pos |-> Wrap(pos[i], box)]
    /\ \A i \in DOMAIN pos : Inside(pos'[i], box)
    /\ Later
    /\ c' = slotBoxChanged([c EXCEPT !.computed = 0])
    /\ UNCHANGED <<forces, failed>>

\* The particles are sorted.
sortParticles(order) ==
    /\ Change
    /\ pos' = [i \in DOMAIN pos |-> pos[order[i]]]
    /\ nl' = forceUpdate(nl) /\ c' = slotParticlesSorted(c)
    /\ UNCHANGED <<L, forces, failed>>

\* A snapshot is restored.
restoreParticles(particles, box) ==
    /\ Change
    /\ \A i \in DOMAIN particles : Inside(particles[i], box)
    /\ L' = box /\ pos' = particles
    /\ nl' = forceUpdate(nl) /\ c' = slotParticlesSorted(slotBoxChanged(c))
    /\ UNCHANGED <<forces, failed>>

\* addRCutMatrix(), setRCut() of a force, removeRCutMatrix() and setRBuff().
setRCut(f, r) ==
    /\ Change
    /\ forces' = [g \in (DOMAIN forces) \union {f} |-> IF g = f THEN r ELSE forces[g]]
    /\ nl' = notifyRCutMatrixChange(nl)
    /\ UNCHANGED <<L, pos, c, failed>>

removeForce(f) ==
    /\ Change
    /\ DOMAIN forces # {f}     \* without a force nobody calls compute()
    /\ forces' = [g \in (DOMAIN forces) \ {f} |-> forces[g]]
    /\ UNCHANGED <<L, pos, nl, c, failed>>

setBuffer(r) ==
    /\ Change
    /\ nl' = notifyRCutMatrixChange([nl EXCEPT !.rbuff = r])
    /\ UNCHANGED <<L, pos, forces, c, failed>>

\* NeighborList.deterministic.
setDeterministic ==
    /\ Change
    /\ c' = setSortCellList(c)
    /\ UNCHANGED <<L, pos, forces, nl, failed>>

Rotations(n) == {[i \in 1..n |-> (i % n) + 1]}

Init ==
    /\ \E s \in Starts :
          L = s.box /\ pos = s.particles /\ forces = s.forces /\ nl = NewBinnedList(s.buffer, s.box)
    /\ c = NewCellList
    /\ steps = 0 /\ called = FALSE /\ failed = FALSE

Next ==
    \/ computeList
    \/ \E i \in DOMAIN pos, x \in Sites : move(i, x)
    \/ \E box \in Boxes : resizeBox(box) \/ \E p \in Particles : restoreParticles(p, box)
    \/ \E order \in Rotations(Len(pos)) : sortParticles(order)
    \/ \E f \in Force : \E r \in Cutoffs : setRCut(f, r)
    \/ \E f \in DOMAIN forces : removeForce(f)
    \/ \E r \in Buffers : setBuffer(r)
    \/ setDeterministic

Spec == Init /\ [][Next]_vars

-----------------------------------------------------------------------------
(* Whenever a force has called compute() and it has returned, every two    *)
(* particles within the largest cutoff of the forces are in the list, and  *)
(* if it was built in this step also those within the buffer: the cells    *)
(* are wide enough for it, the room for particles and neighbors has grown  *)
(* as needed, and the buffer was not used up by motion and by the          *)
(* contraction of the box together.                                        *)
Near(i, j) ==
    LET d2 == Distance2(pos[i], pos[j], L)
        r  == Max(Range(forces))
    IN  d2 < Square(r) \/ (nl.updated = now /\ d2 <= Square(r + nl.rbuff))
NeighborsFound ==
    (called /\ ~failed) =>
      \A i, j \in DOMAIN pos : (i < j /\ Near(i, j)) => j \in Range(nl.neigh[i])

(* No neighbor is listed twice, in whatever way the cells wrap around, and *)
(* the neighbors of a particle end before those of the next begin.         *)
NeighborsApart ==
    (called /\ ~failed) =>
      \A i \in DOMAIN pos :
         /\ Len(nl.neigh[i]) = Cardinality(Range(nl.neigh[i]))
         /\ nl.head[i] + Len(nl.neigh[i]) <= IF i = Len(pos) THEN nl.space ELSE nl.head[i + 1]
=============================================================================
