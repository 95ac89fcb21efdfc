---------------------------- MODULE NeighborList ----------------------------
(***************************************************************************)
(* When a neighbor list is rebuilt (hoomd/md/NeighborList.cc) and what it  *)
(* then holds (buildNlist of hoomd/md/NeighborListBinned.cc; the cells     *)
(* only speed up the search).  The list is a value, one per rank, and the  *)
(* operators below are its methods; Communicator.tla calls them.           *)
(*                                                                         *)
(* The distance check ends in an MPI_Allreduce.  A method that may reach   *)
(* it takes the outcome as the parameter vote, and Collective says whether *)
(* it is reached.  The job holds the parameters rcut, delay                *)
(* (m_rebuild_check_delay) and dist (m_dist_check).  One particle type,    *)
(* a box that keeps its size, no exclusions, m_storage_mode = half.        *)
(***************************************************************************)
EXTENDS Decomposition, FiniteSets

\* The constructor.
NewList(rbuff) ==
    [rbuff |-> rbuff, force |-> TRUE, checked |-> 0, result |-> FALSE, updated |-> 0,
     first |-> TRUE, computed |-> 0, lastPos |-> <<>>, pairs |-> {}]

forceUpdate(nl) == [nl EXCEPT !.force = TRUE]

\* Assigning NeighborList.buffer: setRBuff().
setRBuff(nl, rbuff) == forceUpdate([nl EXCEPT !.rbuff = rbuff])

\* getGhostLayerWidth(), rcut being positive.
getGhostLayerWidth(job, nl) == job.rcut + nl.rbuff

shouldCheckDistance(job, nl, t) == ~nl.force /\ ~(t < nl.updated + job.delay)

\* The update needs no distance check: the buffer is zero, or distance checks
\* are disabled and the period has passed.
Unchecked(job, nl, t) ==
    \/ nl.rbuff = 0
    \/ /\ ~job.dist
       /\ job.delay = 0 \/ (job.delay > 1 /\ t = nl.updated + job.delay)

\* needsUpdating() reaches distanceCheck().
Collective(job, nl, t) ==
    nl.checked # t /\ shouldCheckDistance(job, nl, t) /\ ~Unchecked(job, nl, t)

\* The answer of needsUpdating() ...
Verdict(job, nl, t, vote) ==
    IF nl.checked = t THEN nl.force \/ nl.result
    ELSE nl.force \/ (shouldCheckDistance(job, nl, t) /\ (Unchecked(job, nl, t) \/ vote))

\* ... and what it leaves in the members.
needsUpdating(job, nl, t, vote) ==
    IF nl.checked = t THEN [nl EXCEPT !.force = FALSE]
    ELSE LET yes == Verdict(job, nl, t, vote) IN
         [nl EXCEPT !.checked = t, !.result = yes, !.force = FALSE,
                    !.updated = IF yes THEN t ELSE @]

\* The result of distanceCheck() on one rank: some local particle has moved by
\* half of the buffer or more since the last update.  Entries of m_last_pos
\* that were never written hold zeros.
distanceCheck(g, nl, local) ==
    \E i \in DOMAIN local :
        LET last == IF i \in DOMAIN nl.lastPos THEN nl.lastPos[i] ELSE <<0, 0>>
        IN  4 * LocalSq(g, Minus(local[i].pos, last)) >= Square(nl.rbuff)

\* Compute::shouldCompute(), and the early return of compute().
Computes(nl, t) == nl.first \/ nl.computed # t \/ nl.force
Noted(nl, t) == [nl EXCEPT !.first = FALSE, !.computed = t]

\* buildNlist() and setLastUpdatedPos(): n local particles, then the ghosts.
buildNlist(job, nl, n, particles) ==
    [nl EXCEPT
        !.pairs = {p \in (1..n) \X (1..Len(particles)) :
                     /\ p[1] < p[2]
                     /\ LocalSq(job, Minus(particles[p[1]].pos, particles[p[2]].pos))
                          <= Square(job.rcut + nl.rbuff)},
        !.lastPos = [i \in 1..n |-> particles[i].pos]]

\* compute() once it does not return early.
Built(job, nl, t, vote, n, particles) ==
    LET checked == needsUpdating(job, Noted(nl, t), t, vote)
    IN  IF Verdict(job, nl, t, vote) THEN buildNlist(job, checked, n, particles) ELSE checked
=============================================================================
