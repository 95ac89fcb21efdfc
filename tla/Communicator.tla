---------------------------- MODULE Communicator ----------------------------
(***************************************************************************)
(* A molecular dynamics run on several MPI ranks: Communicator::           *)
(* communicate() with particle migration, ghost exchange and ghost update  *)
(* (hoomd/Communicator.cc), the neighbor list that asks for the migration  *)
(* (NeighborList.tla), and the callers: System::run(), prepRun() and       *)
(* update() of the MD integrator, and the particle sorter.                 *)
(*                                                                         *)
(* Each rank is a process with a record of the members of its              *)
(* Communicator, ParticleData and NeighborList.  It blocks at the          *)
(* MPI_Waitall of a direction and at the MPI_Allreduce of the distance     *)
(* check; one action takes it from one of these points, or from a call by  *)
(* the run loop, to the next.  What a rank sends travels in the field out  *)
(* until the action puts it on the network: first in, first out from one   *)
(* rank to another, as MPI orders messages.  A count and the data it       *)
(* announces are one message.  The receiver checks no tag here; that every *)
(* message is taken by the phase and direction it was sent for is a        *)
(* property.                                                               *)
(*                                                                         *)
(* There are no bonded groups and no rigid bodies, ghosts carry positions  *)
(* only, an integrator is attached (so m_compute_callbacks is never        *)
(* empty), and particles move less than a domain per step.                 *)
(***************************************************************************)
EXTENDS NeighborList, FiniteSetsExt, TLC

CONSTANTS
    Tags,   \* the particles
    Jobs    \* the geometries, start positions and scripts that are run

(* A job has the geometry w, h, len; the parameters of the neighbor list;   *)
(* start, the positions in the initial snapshot, those on the upper bound   *)
(* of the box being wrapped to the lower one as they are read; drift[tag],  *)
(* the displacements of a particle in one step; runs, the calls of the      *)
(* script, each with the buffer set before it, its number of steps and the  *)
(* steps at which the particle sorter acts; eager, that MPI completes a     *)
(* send before the receive is posted.                                       *)
ASSUME JobsAssumption ==
    \A job \in Jobs :
        /\ job.w \in Nat \ {0} /\ job.h \in Nat \ {0} /\ job.w * job.h > 1 /\ job.rcut > 0
        /\ job.runs \in Seq([rbuff : Nat, steps : Nat, sorts : SUBSET Nat])
        /\ job.start \in [Tags -> (0..(Length(job, 1) - 1)) \X (0..(Length(job, 2) - 1))]
        /\ \A tag \in Tags : \A d \in job.drift[tag] : \A k \in Axes : Abs(d[k]) < job.len

VARIABLES
    job,    \* the job that is run; never changes
    rank,   \* [Ranks(job) -> record], see NewRank
    net,    \* [Ranks(job) \X Ranks(job) -> sequence of messages under way]
    world   \* where the particles really are, see Moved

vars == <<job, rank, net, world>>

All == Ranks(job)
NOT_LOCAL == 0

-----------------------------------------------------------------------------
(* Initial state: initializeFromSnapshot() places each particle on a rank;  *)
(* the constructors of Communicator and NeighborList.                       *)

\* The reverse lookup of a particle array.
Lookup(particles) ==
    [tag \in Tags |-> IF \E i \in DOMAIN particles : particles[i].tag = tag
                      THEN CHOOSE i \in DOMAIN particles : particles[i].tag = tag
                      ELSE NOT_LOCAL]

NewRank(j, r) ==
    LET mine  == {tag \in Tags : placeParticle(j, j.start[tag]) = r}
        tags  == CHOOSE list \in [1..Cardinality(mine) -> mine] :
                     \A k \in DOMAIN list : \A i \in 1..(k - 1) : list[i] < list[k]
        local == [i \in DOMAIN tags |-> [tag |-> tags[i], pos |-> j.start[tags[i]], at |-> 0]]
    IN  [pc |-> "idle", ret |-> "idle", dir |-> 4, call |-> 0, left |-> 0, t |-> 0,
         force |-> FALSE, communicating |-> FALSE, hasGhosts |-> FALSE,
         added |-> 0, copies |-> [d \in Dirs |-> <<>>], received |-> [d \in Dirs |-> 0],
         local |-> local, ghosts |-> <<>>, rtag |-> Lookup(local),
         nl |-> NewList(j.runs[1].rbuff), out |-> <<>>]

Init ==
    /\ job \in Jobs
    /\ rank = [r \in All |-> NewRank(job, r)]
    /\ net = [c \in All \X All |-> <<>>]
    /\ world = [now |-> 0, pos |-> job.start, before |-> job.start,
                move |-> [tag \in Tags |-> <<0, 0>>]]

-----------------------------------------------------------------------------
(* ParticleData.  Local particles come first, ghosts follow. *)

Particles(s) == s.local \o s.ghosts

forceMigrate(s) == [s EXCEPT !.force = @ \/ ~s.communicating]

\* The subscribers of the particle sort signal.
notifyParticleSort(s) == [forceMigrate(s) EXCEPT !.nl = forceUpdate(@)]

\* removeAllGhostParticles(), with slotGhostParticlesRemoved() and
\* removeGhostParticleTags().
removeAllGhostParticles(s) ==
    LET gone == {s.ghosts[i].tag : i \in 1..s.added}
    IN  [s EXCEPT !.ghosts = <<>>, !.hasGhosts = FALSE, !.added = 0,
                  !.rtag = [tag \in Tags |-> IF tag \in gone THEN NOT_LOCAL ELSE @[tag]]]

\* The lookup after the local particles became local: the entries of those
\* that left are NOT_LOCAL, the others are recomputed.
WithLocal(s, local) ==
    LET left == {s.local[i].tag : i \in DOMAIN s.local}
        at   == Lookup(local)
    IN  notifyParticleSort(
          [s EXCEPT !.local = local,
                    !.rtag = [tag \in Tags |-> IF tag \in left \/ at[tag] # NOT_LOCAL
                                               THEN at[tag] ELSE @[tag]]])

-----------------------------------------------------------------------------
(* Communicator.  The operators below continue one another, in the order in *)
(* which communicate() calls them, from the last to the first.              *)

Send(s, r, dir, body) ==
    [s EXCEPT !.pc = body.kind, !.dir = dir,
              !.out = <<[to |-> getNeighborRank(job, r, dir), msg |-> body]>>]

Returned(s) == [s EXCEPT !.communicating = FALSE, !.pc = s.ret, !.dir = 4]

\* communicate() after exchangeGhosts().
Exchanged(s) == Returned([s EXCEPT !.added = Len(s.ghosts), !.hasGhosts = TRUE])

\* The plan of a local particle: the directions in whose ghost layer it is.
Plan_Strict(s, r, pos) ==
    LET width == getGhostLayerWidth(job, s.nl)
    IN  {dir \in Dirs : IF East(dir) THEN pos[Axis(dir)] > Hi(job, r, Axis(dir)) - width
                        ELSE pos[Axis(dir)] < Lo(job, r, Axis(dir)) + width}
Plan(s, r, pos) ==
    LET width == getGhostLayerWidth(job, s.nl)
    IN  {dir \in Dirs : IF East(dir) THEN pos[Axis(dir)] >= Hi(job, r, Axis(dir)) - width
                        ELSE pos[Axis(dir)] < Lo(job, r, Axis(dir)) + width}

\* Local particles and ghosts with their plans; a ghost brings its own.
Planned(s, r) ==
    [i \in DOMAIN s.local |-> [tag |-> s.local[i].tag, pos |-> s.local[i].pos, at |-> s.local[i].at,
                               plan |-> Plan(s, r, s.local[i].pos)]]
    \o s.ghosts

\* exchangeGhosts() from direction dir on: up to its next MPI_Waitall.
exchangeGhosts(s, r, dir) ==
    LET d    == NextDir(job, dir)
        sent == SelectSeq(Planned(s, r), LAMBDA p : d \in p.plan)
    IN  IF d = 4 THEN Exchanged(s)
        ELSE Send([s EXCEPT !.copies[d] = [i \in DOMAIN sent |-> sent[i].tag]],
                  r, d, [kind |-> "exchange", dir |-> d, body |-> sent])

\* One direction of exchangeGhosts() after its MPI_Waitall.
GhostsReceived(s, r, body) ==
    LET start == Len(s.local) + Len(s.ghosts)
        new   == [i \in DOMAIN body |-> [body[i] EXCEPT !.pos = ShiftedWrap(job, r, @)]]
        index(tag) == CHOOSE i \in DOMAIN new : new[i].tag = tag
    IN  [s EXCEPT !.ghosts = @ \o new, !.received[s.dir] = Len(new),
                  !.rtag = [tag \in Tags |-> IF \E i \in DOMAIN new : new[i].tag = tag
                                             THEN start + index(tag) ELSE @[tag]]]

\* migrateParticles() from direction dir on: up to its next MPI_Waitall, or on
\* into exchangeGhosts().
Leaves_Strict(r, dir, pos) ==
    IF East(dir) THEN pos[Axis(dir)] > Hi(job, r, Axis(dir)) ELSE pos[Axis(dir)] < Lo(job, r, Axis(dir))
Leaves(r, dir, pos) ==
    IF East(dir) THEN pos[Axis(dir)] >= Hi(job, r, Axis(dir)) ELSE pos[Axis(dir)] < Lo(job, r, Axis(dir))

migrateParticles_SkipsEmpty(s, r, dir) ==
    LET some == {d \in dir..3 : isCommunicating(job, d) /\ \E i \in DOMAIN s.local : Leaves(r, d, s.local[i].pos)}
        d    == IF some = {} THEN 4 ELSE Min(some)
        sent == SelectSeq(s.local, LAMBDA p : Leaves(r, d, p.pos))
        kept == SelectSeq(s.local, LAMBDA p : ~Leaves(r, d, p.pos))
    IN  IF d = 4 THEN exchangeGhosts(s, r, 0)
        ELSE Send(WithLocal(s, kept), r, d, [kind |-> "migrate", dir |-> d, body |-> sent])
migrateParticles(s, r, dir) ==
    LET d    == NextDir(job, dir)
        sent == SelectSeq(s.local, LAMBDA p : Leaves(r, d, p.pos))
        kept == SelectSeq(s.local, LAMBDA p : ~Leaves(r, d, p.pos))
    IN  IF d = 4 THEN exchangeGhosts(s, r, 0)
        ELSE Send(WithLocal(s, kept), r, d, [kind |-> "migrate", dir |-> d, body |-> sent])

\* One direction of migrateParticles() after its MPI_Waitall.
ParticlesReceived_Overwrites(s, r, body) ==
    WithLocal(s, [i \in DOMAIN body |-> [body[i] EXCEPT !.pos = ShiftedWrap(job, r, @)]])
ParticlesReceived(s, r, body) ==
    WithLocal(s, s.local \o [i \in DOMAIN body |-> [body[i] EXCEPT !.pos = ShiftedWrap(job, r, @)]])

\* checkBoxSize(), with the widths that updateGhostWidth() just collected.
BoxTooSmall(s) ==
    \E k \in Axes : Grid(job)[k] > 1 /\ 2 * getGhostLayerWidth(job, s.nl) >= job.len

\* communicate() once it is known whether the subscribers request a migration.
\* An exception leaves communicate(), and the run, at that point.
Requested(s, r, request) ==
    LET started == [s EXCEPT !.force = FALSE]
    IN  IF ~(request \/ s.force \/ ~s.hasGhosts) THEN Returned(s)
        ELSE IF BoxTooSmall(s) THEN [started EXCEPT !.pc = "idle", !.left = 0]
        ELSE migrateParticles(removeAllGhostParticles(started), r, 0)

\* peekUpdate(), unless the migration is forced: the rank goes on with the
\* answer, or waits for the votes of the others.
Asked(s, r) ==
    IF s.force THEN Requested(s, r, FALSE)
    ELSE IF Collective(job, s.nl, s.t) THEN [s EXCEPT !.pc = "peek"]
    ELSE Requested([s EXCEPT !.nl = needsUpdating(job, @, s.t, FALSE)], r,
                   Verdict(job, s.nl, s.t, FALSE))

\* beginUpdateGhosts() from direction dir on.
updateGhosts(s, r, dir) ==
    LET d == NextDir(job, dir)
        p == [i \in DOMAIN s.copies[d] |-> Particles(s)[s.rtag[s.copies[d][i]]]]
    IN  IF d = 4 THEN Asked(s, r)
        ELSE Send(s, r, d, [kind |-> "update", dir |-> d,
                            body |-> [i \in DOMAIN p |-> [pos |-> p[i].pos, at |-> p[i].at]]])

\* One direction of beginUpdateGhosts() after its MPI_Waitall: the positions
\* go to the block of ghosts this direction filled in the last exchange.
UpdateReceived(s, r, body) ==
    LET before == {d \in 0..(s.dir - 1) : isCommunicating(job, d)}
        start  == FoldSet(LAMBDA d, n : n + s.received[d], 0, before)
    IN  [s EXCEPT !.ghosts =
            [i \in DOMAIN @ |-> IF i - start \in 1..s.received[s.dir]
                                THEN [@[i] EXCEPT !.pos = ShiftedWrap(job, r, body[i - start].pos),
                                                  !.at = body[i - start].at]
                                ELSE @[i]]]

\* communicate(), called to go on at ret.
communicate_WithoutUpdate(s, r, ret) ==
    Asked([s EXCEPT !.communicating = TRUE, !.ret = ret], r)
communicate(s, r, ret) ==
    LET c == [s EXCEPT !.communicating = TRUE, !.ret = ret]
    IN  IF ~s.force /\ s.hasGhosts THEN updateGhosts(c, r, 0) ELSE Asked(c, r)

-----------------------------------------------------------------------------
(* Actions. *)

\* The rank goes on as s, and what it sends joins the messages under way.
Posted(messages, r, s) ==
    IF s.out = <<>> THEN messages
    ELSE [messages EXCEPT ![<<r, s.out[1].to>>] = Append(@, s.out[1].msg)]

Quiet(s) == [s EXCEPT !.out = <<>>]

Becomes(r, s) ==
    /\ rank' = [rank EXCEPT ![r] = Quiet(s)]
    /\ net' = Posted(net, r, s)

\* Simulation.run(): the buffer is set, if it changes, and System::run()
\* starts with a migration.
Run(r) ==
    LET s == rank[r]
        c == job.runs[s.call + 1]
        b == [s EXCEPT !.call = @ + 1, !.left = c.steps,
                       !.nl = IF @.rbuff = c.rbuff THEN @ ELSE setRBuff(@, c.rbuff)]
    IN  /\ s.pc = "idle" /\ s.call < Len(job.runs)
        /\ Becomes(r, communicate(forceMigrate(b), r, "prepRun"))
        /\ UNCHANGED <<job, world>>

\* IntegratorTwoStep::prepRun().
PrepRun(r) ==
    /\ rank[r].pc = "prepRun"
    /\ Becomes(r, communicate(forceMigrate(rank[r]), r, "force"))
    /\ UNCHANGED <<job, world>>

\* computeNetForce() computes the neighbor list.
ComputeNetForce(r) ==
    LET s == rank[r] IN
    /\ s.pc = "force"
    /\ Becomes(r,
         IF ~Computes(s.nl, s.t) THEN [s EXCEPT !.pc = "forced"]
         ELSE IF Collective(job, s.nl, s.t) THEN [s EXCEPT !.pc = "compute"]
         ELSE [s EXCEPT !.pc = "forced",
                        !.nl = Built(job, @, s.t, FALSE, Len(s.local), Particles(s))])
    /\ UNCHANGED <<job, world>>

\* The run loop: the particle sorter acts first, if it is triggered.
Loop(r) ==
    LET s == rank[r] IN
    /\ s.pc = "forced"
    /\ Becomes(r, IF s.left = 0 THEN [s EXCEPT !.pc = "idle"]
                  ELSE IF s.t \in job.runs[s.call].sorts
                  THEN communicate(forceMigrate(s), r, "sort")
                  ELSE [s EXCEPT !.pc = "integrate"])
    /\ UNCHANGED <<job, world>>

\* SFCPackTuner::update() after its first communication.
Sort(r) ==
    LET s == removeAllGhostParticles(rank[r]) IN
    /\ s.pc = "sort"
    /\ \E order \in Permutations(DOMAIN s.local) :
         Becomes(r, communicate(WithLocal(s, [i \in DOMAIN s.local |-> s.local[order[i]]]),
                                r, "integrate"))
    /\ UNCHANGED <<job, world>>

\* integrateStepOne() moves and wraps the local particles.
MovedLocal(s, move) ==
    [i \in DOMAIN s.local |->
        [s.local[i] EXCEPT !.pos = LocalWrap(job, Plus(@, move[s.local[i].tag])), !.at = s.t + 1]]

Moved(move) ==
    [now |-> world.now + 1, before |-> world.pos, move |-> move,
     pos |-> [tag \in Tags |-> InBox(job, Plus(world.pos[tag], move[tag]))]]

\* IntegratorTwoStep::update() up to its communication.  The first rank to
\* reach a step decides where the particles go in it.
Update(r) ==
    LET s == rank[r] IN
    /\ s.pc = "integrate"
    /\ \E move \in [Tags -> UNION {job.drift[tag] : tag \in Tags}] :
         /\ \A tag \in Tags : move[tag] \in job.drift[tag]
         /\ s.t < world.now => move = world.move
         /\ world' = IF s.t < world.now THEN world ELSE Moved(move)
         /\ Becomes(r, communicate([s EXCEPT !.local = MovedLocal(s, move), !.t = @ + 1,
                                             !.left = @ - 1], r, "force"))
    /\ UNCHANGED job

\* MPI_Waitall: the message of this direction has arrived from the opposite
\* neighbor and, unless MPI buffers it, the one this rank sent is matched.
Source(r) == getNeighborRank(job, r, Opposite(rank[r].dir))
Incoming(r) == net[<<Source(r), r>>]
Waiting(r) == rank[r].pc \in {"update", "migrate", "exchange"}
Matched(r) ==
    LET to == getNeighborRank(job, r, rank[r].dir) IN
    \/ net[<<r, to>>] = <<>>
    \/ Waiting(to) /\ Source(to) = r

Receive(r, kind, s) ==
    /\ rank[r].pc = kind
    /\ Incoming(r) # <<>>
    /\ job.eager \/ Matched(r)
    /\ rank' = [rank EXCEPT ![r] = Quiet(s)]
    /\ net' = Posted([net EXCEPT ![<<Source(r), r>>] = Tail(@)], r, s)
    /\ UNCHANGED <<job, world>>

ReceiveUpdate(r) ==
    Receive(r, "update",
            updateGhosts(UpdateReceived(rank[r], r, Head(Incoming(r)).body), r, rank[r].dir + 1))
ReceiveParticles(r) ==
    Receive(r, "migrate",
            migrateParticles(ParticlesReceived(rank[r], r, Head(Incoming(r)).body), r, rank[r].dir + 1))
ReceiveGhosts(r) ==
    Receive(r, "exchange",
            exchangeGhosts(GhostsReceived(rank[r], r, Head(Incoming(r)).body), r, rank[r].dir + 1))

\* MPI_Allreduce of the distance check, once every rank has voted.
AllReduce_Local ==
    LET vote(r) == distanceCheck(job, rank[r].nl, rank[r].local)
        after(r) ==
            LET s == rank[r] IN
            IF s.pc = "peek"
            THEN Requested([s EXCEPT !.nl = needsUpdating(job, @, s.t, vote(r))], r,
                           Verdict(job, s.nl, s.t, vote(r)))
            ELSE [s EXCEPT !.pc = "forced",
                           !.nl = Built(job, @, s.t, vote(r), Len(s.local), Particles(s))]
    IN  /\ \A r \in All : rank[r].pc \in {"peek", "compute"}
        /\ rank' = [r \in All |-> Quiet(after(r))]
        /\ net' = [c \in All \X All |-> Posted(net, c[1], after(c[1]))[c]]
        /\ UNCHANGED <<job, world>>
AllReduce ==
    LET vote == \E r \in All : distanceCheck(job, rank[r].nl, rank[r].local)
        after(r) ==
            LET s == rank[r] IN
            IF s.pc = "peek"
            THEN Requested([s EXCEPT !.nl = needsUpdating(job, @, s.t, vote)], r,
                           Verdict(job, s.nl, s.t, vote))
            ELSE [s EXCEPT !.pc = "forced",
                           !.nl = Built(job, @, s.t, vote, Len(s.local), Particles(s))]
    IN  /\ \A r \in All : rank[r].pc \in {"peek", "compute"}
        /\ rank' = [r \in All |-> Quiet(after(r))]
        /\ net' = [c \in All \X All |-> Posted(net, c[1], after(c[1]))[c]]
        /\ UNCHANGED <<job, world>>

Finished(r) == rank[r].pc = "idle" /\ rank[r].call = Len(job.runs)
Terminated == (\A r \in All : Finished(r)) /\ UNCHANGED vars

Act(r) ==
    \/ Run(r) \/ PrepRun(r) \/ ComputeNetForce(r) \/ Loop(r) \/ Sort(r) \/ Update(r)
    \/ ReceiveUpdate(r) \/ ReceiveParticles(r) \/ ReceiveGhosts(r)

Next == AllReduce \/ (\E r \in All : Act(r)) \/ Terminated

Spec == Init /\ [][Next]_vars

-----------------------------------------------------------------------------
(* Properties. *)

\* A rank that waits for a direction finds the message of the same phase and
\* direction first in line: the ranks never disagree on whether to migrate, and
\* with two domains along an axis, where both neighbors are the same rank, the
\* messages of the two directions are not confused.
MessagesMatch ==
    \A r \in All :
        Waiting(r) /\ Incoming(r) # <<>> =>
            /\ Head(Incoming(r)).kind = rank[r].pc
            /\ Head(Incoming(r)).dir = rank[r].dir

Holders(tag) ==
    {h \in All \X (1..Cardinality(Tags)) :
        h[2] \in DOMAIN rank[h[1]].local /\ rank[h[1]].local[h[2]].tag = tag}
Travels(tag) ==
    {m \in (All \X All) \X (1..4) \X (1..Cardinality(Tags)) :
        /\ m[2] \in DOMAIN net[m[1]] /\ net[m[1]][m[2]].kind = "migrate"
        /\ m[3] \in DOMAIN net[m[1]][m[2]].body /\ net[m[1]][m[2]].body[m[3]].tag = tag}
LookupIsRight(s) ==
    LET p == Particles(s) IN
    /\ \A i \in DOMAIN p : s.rtag[p[i].tag] = i
    /\ \A tag \in Tags : s.rtag[tag] # NOT_LOCAL => p[s.rtag[tag]].tag = tag

\* A particle is never lost or duplicated: it is local on exactly one rank or in
\* exactly one message of a migration, and the reverse lookup of a rank finds it, or
\* its ghost, in one place at all times (exchangeGhosts() asserts that the entry of a
\* new ghost is NOT_LOCAL).
EachParticleOnce ==
    /\ \A tag \in Tags : Cardinality(Holders(tag)) + Cardinality(Travels(tag)) = 1
    /\ \A r \in All : LookupIsRight(rank[r])

\* The comment on migrateParticles() promises that every particle can be found
\* inside the local domain boundaries; exchangeGhosts() relies on it.
MigratedInDomain ==
    \A r \in All :
        rank[r].pc = "exchange" =>
            \A i \in DOMAIN rank[r].local : InDomain(job, r, rank[r].local[i].pos)

\* Where the particles are at time step t.
At(t) == IF t = world.now THEN world.pos ELSE world.before

\* When a rank computes forces, the positions of its particles and of its ghosts
\* are those of the step, and no rank is further than a step away.
GhostsAreCurrent ==
    \A r \in All :
        rank[r].pc = "forced" =>
            /\ rank[r].t \in {world.now, world.now - 1}
            /\ \A i \in DOMAIN Particles(rank[r]) :
                 LET p == Particles(rank[r])[i] IN
                 p.at = rank[r].t /\ InBox(job, p.pos) = At(rank[r].t)[p.tag]

\* When a rank computes forces, its list has every pair within the cutoff that
\* involves one of its particles, and the two positions it holds are as far
\* apart as the particles are.  This is what the ghost layer, the buffer, the
\* distance check and the forced updates are for.  A rebuild_check_delay above
\* one gives it up, as the documentation of the neighbor lists says.
PairsComplete ==
    \A r \in All :
        LET s == rank[r]
            p == Particles(s)
            x == At(s.t)
        IN  s.pc = "forced" /\ job.delay <= 1 =>
            \A i \in DOMAIN s.local : \A tag \in Tags \ {s.local[i].tag} :
                LET d == GlobalSq(job, Minus(x[tag], x[s.local[i].tag])) IN
                d <= Square(job.rcut) =>
                    \E pair \in s.nl.pairs :
                        /\ pair[2] \in DOMAIN p
                        /\ {p[pair[1]].tag, p[pair[2]].tag} = {tag, s.local[i].tag}
                        /\ LocalSq(job, Minus(p[pair[1]].pos, p[pair[2]].pos)) = d

\* Until the script has ended some rank can go on: the ranks never all wait for
\* messages and votes that are not coming, whether MPI buffers a message or
\* holds its sender back.
NobodyStuck ==
    \/ \A r \in All : Finished(r)
    \/ \A r \in All : rank[r].pc \in {"peek", "compute"}
    \/ \E r \in All :
         \/ ~Finished(r) /\ ~Waiting(r) /\ rank[r].pc \notin {"peek", "compute"}
         \/ Waiting(r) /\ Incoming(r) # <<>> /\ (job.eager \/ Matched(r))
=============================================================================
