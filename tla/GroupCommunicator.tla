------------------------- MODULE GroupCommunicator -------------------------
(***************************************************************************)
(* Bonded groups on several MPI ranks: Communicator::GroupCommunicator     *)
(* (migrateGroups() and markGhostParticles() in hoomd/Communicator.cc)     *)
(* inside migrateParticles() and exchangeGhosts(), on the BondedGroupData  *)
(* of every rank, and the calls that change groups between two runs.       *)
(*                                                                         *)
(* Each rank is a process that blocks in MPI_Waitall; an action takes it   *)
(* from one to the next.  In migrateGroups() a rank waits for all its      *)
(* neighbors, then for the particles and the ghosts of a direction for     *)
(* one.  A count and the data it announces are one message, and messages   *)
(* from one rank to another arrive in order.                               *)
(*                                                                         *)
(* Of a particle's position the model keeps the domains it has moved by    *)
(* and not been sent over yet (hop: -1, 0 or 1 per axis) and whether it is *)
(* in the upper half of its domain (upper: the set of such axes).  There   *)
(* is no pair potential, so the ghosts are those of the groups, and there  *)
(* are no other kinds of groups than one.                                  *)
(***************************************************************************)
EXTENDS BondedGroupData, Decomposition

CONSTANTS
    Tags,   \* the particles, 0, 1, ...
    Jobs    \* the decompositions, groups and moves that are run

(* A job has the grid w, h; groups, the tuples of members a group may have;  *)
(* snapshots, the sequences of groups to start with; maxGroups, how many     *)
(* there may be; start, where the particles may start; hops, the moves of a  *)
(* particle in one step, as pairs of a hop and upper; calls, how many calls  *)
(* and steps there are; chains, that a particle may have partners in both    *)
(* neighbor domains along an axis.                                           *)
ASSUME JobsAssumption ==
    \A j \in Jobs :
        /\ j.w > 0 /\ j.h > 0 /\ j.w * j.h > 1
        /\ \A m \in j.groups : IsInjective(m) /\ Range(m) \subseteq Tags
        /\ \A snapshot \in j.snapshots : Range(snapshot) \subseteq j.groups
        /\ j.start \subseteq [Tags -> Ranks(j)]

VARIABLES
    job,    \* the job that is run; never changes
    rank,   \* [Ranks(job) -> record], see NewRank
    net,    \* [Ranks(job) \X Ranks(job) -> sequence of messages under way]
    made,   \* the members each active group was created with
    calls   \* how many calls and migrations there have been

vars == <<job, rank, net, made, calls>>

All == Ranks(job)
Home == [hop |-> <<0, 0>>, upper |-> {}]

\* m_unique_neighbors: the ranks of the domains around, corners included.
UniqueNeighbors(g, r) ==
    {n \in Ranks(g) \ {r} :
        \A k \in Axes : \E step \in {-1, 0, 1} :
            GridPos(g, n)[k] = (GridPos(g, r)[k] + step + Grid(g)[k]) % Grid(g)[k]}

Start(g, r, owner, snapshot) ==
    LET local == {tag \in Tags : owner[tag] = r}
    IN  [pc |-> "idle", dir |-> 4, local |-> [tag \in local |-> Home], ghosts |-> <<>>,
         changed |-> TRUE,
         data |-> initializeFromSnapshot(NewGroupData, snapshot,
                      {m \in Range(snapshot) : Range(m) \cap local # {}})]

Init ==
    /\ job \in Jobs
    /\ \E owner \in job.start : \E snapshot \in job.snapshots :
         /\ rank = [r \in All |-> Start(job, r, owner, snapshot)]
         /\ made = [tag \in 0..(Len(snapshot) - 1) |-> snapshot[tag + 1]]
    /\ net = [c \in All \X All |-> <<>>]
    /\ calls = 0

-----------------------------------------------------------------------------
(* Particles. *)

Local(s) == DOMAIN s.local
GhostTags(s) == {s.ghosts[i].tag : i \in DOMAIN s.ghosts}
Present(s) == [tag \in Tags |-> IF tag \in Local(s) \union GhostTags(s) THEN 1 ELSE NOT_LOCAL]

\* The communication flag of a particle in one direction.
Leaves(s, tag, dir) ==
    tag \in Local(s) /\ s.local[tag].hop[Axis(dir)] = IF East(dir) THEN 1 ELSE -1

Owner1(tag) == CHOOSE r \in All : tag \in Local(rank[r])

-----------------------------------------------------------------------------
(* migrateGroups(). *)

\* Phase 1, before the communication: the ranks of the members that are about to
\* leave and, after a change of the groups, of all local members.  Update says
\* that other ranks have to know.
Ranked(s, r, group) ==
    [group EXCEPT !.ranks =
        [i \in DOMAIN @ |->
            IF Leaves(s, group.members[i], s.dir) THEN getNeighborRank(job, r, s.dir)
            ELSE IF s.changed /\ group.members[i] \in Local(s) THEN r ELSE @[i]]]
Mask(s, group) ==
    {i \in DOMAIN group.members :
        \/ Leaves(s, group.members[i], s.dir)
        \/ s.changed /\ group.members[i] \in Local(s)}
Update(s, group) ==
    \E i \in DOMAIN group.members :
        group.members[i] \notin Local(s) \/ Leaves(s, group.members[i], s.dir)

\* The rank information sent to neighbor n: all of it after a change, otherwise
\* that of the groups which n shares.
RankElements(s, r, n) ==
    LET ranked == [i \in DOMAIN s.data.groups |-> Ranked(s, r, s.data.groups[i])]
        goes(g) == /\ Update(s, g) /\ Mask(s, g) # {}
                   /\ s.changed \/ \E j \in DOMAIN g.ranks \ Mask(s, g) : g.ranks[j] = n
        sent   == SelectSeq(ranked, goes)
    IN  [i \in DOMAIN sent |-> [tag |-> sent[i].tag, ranks |-> sent[i].ranks, mask |-> Mask(s, sent[i])]]

\* Phase 1, after the communication.
RanksReceived_Dropped(s, elements) == s
RanksReceived(s, elements) ==
    LET told(g, i) == {e \in Range(elements) : e.tag = g.tag /\ i \in e.mask}
        last(g, i) == elements[Max({n \in DOMAIN elements : elements[n] \in told(g, i)})]
    IN  [s EXCEPT !.data.groups =
            [n \in DOMAIN @ |->
                [@[n] EXCEPT !.ranks =
                    [i \in DOMAIN @ |->
                        IF told(s.data.groups[n], i) = {} THEN @[i]
                        ELSE last(s.data.groups[n], i).ranks[i]]]]]

\* Phase 2, before the communication: a group goes where its leaving members go,
\* and is dropped unless a member stays.
GroupElements(s, n) ==
    SelectSeq(s.data.groups,
              LAMBDA g : \E i \in DOMAIN g.members : Leaves(s, g.members[i], s.dir) /\ g.ranks[i] = n)

Stays_Any(s, g) == TRUE
Stays(s, g) ==
    \/ \A i \in DOMAIN g.members : ~Leaves(s, g.members[i], s.dir)
    \/ \E i \in DOMAIN g.members : g.members[i] \in Local(s) /\ ~Leaves(s, g.members[i], s.dir)

GroupsKept(s) ==
    LET kept == SelectSeq(s.data.groups, LAMBDA g : Stays(s, g))
        gone == {g.tag + 1 : g \in {h \in Range(s.data.groups) : ~Stays(s, h)}}
    IN  [s EXCEPT !.data.groups = kept,
                  !.data.rtag = [t \in DOMAIN @ |-> IF t \in gone THEN NOT_LOCAL
                                                    ELSE Reindexed(@, kept)[t]]]

\* Phase 2, after the communication: each tag once, in tag order, and only the
\* groups this rank does not have.
GroupsReceived(s, elements) ==
    LET tags  == SetToSortSeq({e.tag : e \in Range(elements)}, <)
        first(tag) == elements[Min({n \in DOMAIN elements : elements[n].tag = tag})]
        new   == SelectSeq([i \in DOMAIN tags |-> first(tags[i])],
                           LAMBDA g : IndexOf(s.data, g.tag) = NOT_LOCAL)
        all   == s.data.groups \o new
    IN  [s EXCEPT !.data.groups = all, !.data.rtag = Reindexed(@, all)]

-----------------------------------------------------------------------------
(* markGhostParticles(). *)

\* The directions in which the domain of rank n is a neighbor of that of r.
Toward(r, n) ==
    {dir \in Dirs :
        /\ isCommunicating(job, dir)
        /\ GridPos(job, n)[Axis(dir)] = GridPos(job, getNeighborRank(job, r, dir))[Axis(dir)]
        /\ GridPos(job, n)[Axis(dir)] # GridPos(job, r)[Axis(dir)]}

\* Of two opposite directions the first local member, in group order, chooses by
\* its position.
Chosen_Both(s, flags, group) == flags
Chosen(s, flags, group) ==
    LET first == group.members[Min({i \in DOMAIN group.members : group.members[i] \in Local(s)})]
    IN  {dir \in flags : Opposite(dir) \in flags =>
                           (East(dir) <=> Axis(dir) \in s.local[first].upper)}

\* What the groups add to the plan of a local particle.
Plan_FirstMember(s, r, tag) ==
    UNION {Chosen(s, Toward(r, g.ranks[1]), g) :
              g \in {h \in Range(s.data.groups) : tag \in Range(h.members) /\ h.ranks[1] # r}}
Plan(s, r, tag) ==
    UNION {UNION {Chosen(s, Toward(r, g.ranks[i]), g) : i \in {k \in DOMAIN g.ranks : g.ranks[k] # r}} :
              g \in {h \in Range(s.data.groups) : tag \in Range(h.members)}}

-----------------------------------------------------------------------------
(* The path of a rank through migrateParticles() and exchangeGhosts(), from *)
(* one MPI_Waitall to the next.  Each step is the state of the rank and     *)
(* what it sends, a function from ranks to messages.                        *)

Message(kind, dir, body) == [kind |-> kind, dir |-> dir, body |-> body]
ToNeighbors(s, kind, body) == [n \in DOMAIN body |-> Message(kind, s.dir, body[n])]

\* exchangeGhosts() from direction dir on; plans are fixed in its first call.
ExchangeGhosts(s, r, dir) ==
    LET d       == NextDir(job, dir)
        mine    == SetToSortSeq(Local(s), <)
        planned == [i \in DOMAIN mine |-> [tag |-> mine[i], plan |-> Plan(s, r, mine[i])]] \o s.ghosts
    IN  IF d = 4 THEN [state |-> [s EXCEPT !.pc = "idle", !.dir = 4], sends |-> <<>>]
        ELSE [state |-> [s EXCEPT !.pc = "ghosts", !.dir = d],
              sends |-> getNeighborRank(job, r, d) :>
                            Message("ghosts", d, SelectSeq(planned, LAMBDA p : d \in p.plan))]

\* removeParticles() and the exchange of the particles of a direction.
SendParticles(s, r) ==
    LET gone == {tag \in Local(s) : Leaves(s, tag, s.dir)}
    IN  [state |-> [s EXCEPT !.pc = "particles",
                             !.local = [tag \in Local(s) \ gone |-> @[tag]], !.data = setDirty(@)],
         sends |-> getNeighborRank(job, r, s.dir) :>
                     Message("particles", s.dir,
                         [tag \in gone |-> [s.local[tag] EXCEPT !.hop[Axis(s.dir)] = 0]])]

\* migrateParticles() from direction dir on.
MigrateParticles_LocalCount(s, r, dir) ==
    LET d == NextDir(job, dir)
        t == [s EXCEPT !.dir = d]
        ranked == [t EXCEPT !.pc = "ranks",
                            !.data.groups = [i \in DOMAIN @ |-> Ranked(t, r, @[i])]]
    IN  IF d = 4 THEN ExchangeGhosts(s, r, 0)
        ELSE IF s.data.groups = <<>> THEN SendParticles([t EXCEPT !.changed = FALSE], r)
        ELSE [state |-> ranked,
              sends |-> ToNeighbors(t, "ranks", [n \in UniqueNeighbors(job, r) |-> RankElements(t, r, n)])]
MigrateParticles(s, r, dir) ==
    LET d == NextDir(job, dir)
        t == [s EXCEPT !.dir = d]
        ranked == [t EXCEPT !.pc = "ranks",
                            !.data.groups = [i \in DOMAIN @ |-> Ranked(t, r, @[i])]]
    IN  IF d = 4 THEN ExchangeGhosts(s, r, 0)
        ELSE IF getNGlobal(s.data) = 0 THEN SendParticles([t EXCEPT !.changed = FALSE], r)
        ELSE [state |-> ranked,
              sends |-> ToNeighbors(t, "ranks", [n \in UniqueNeighbors(job, r) |-> RankElements(t, r, n)])]

-----------------------------------------------------------------------------
(* Actions. *)

Sent(messages, r, step) ==
    [c \in DOMAIN messages |->
        IF c[1] = r /\ c[2] \in DOMAIN step.sends THEN Append(messages[c], step.sends[c[2]])
        ELSE messages[c]]

\* A rank starts the migration that the step made necessary.
Migrate(r) ==
    LET step == MigrateParticles([rank[r] EXCEPT !.ghosts = <<>>], r, 0)
    IN  /\ rank[r].pc = "moved"
        /\ rank' = [rank EXCEPT ![r] = step.state]
        /\ net' = Sent(net, r, step)
        /\ UNCHANGED <<job, made, calls>>

\* MPI_Waitall of a communication with the ranks from: the first message of each
\* is taken.
Receive(r, kind, from, step) ==
    /\ rank[r].pc = kind
    /\ \A n \in from : net[<<n, r>>] # <<>>
    /\ rank' = [rank EXCEPT ![r] = step.state]
    /\ net' = Sent([c \in DOMAIN net |-> IF c[2] = r /\ c[1] \in from THEN Tail(net[c]) ELSE net[c]],
                   r, step)
    /\ UNCHANGED <<job, made, calls>>

\* What the neighbors sent, in the order of their ranks.
FromNeighbors(r) ==
    LET from == SetToSortSeq(UniqueNeighbors(job, r), <)
    IN  FlattenSeq([i \in DOMAIN from |-> Head(net[<<from[i], r>>]).body])

ReceiveRanks(r) ==
    LET s == RanksReceived(rank[r], FromNeighbors(r))
    IN  Receive(r, "ranks", UniqueNeighbors(job, r),
                [state |-> [GroupsKept(s) EXCEPT !.pc = "groups"],
                 sends |-> ToNeighbors(s, "groups", [n \in UniqueNeighbors(job, r) |-> GroupElements(s, n)])])

ReceiveGroups(r) ==
    LET s == GroupsReceived(rank[r], FromNeighbors(r))
    IN  Receive(r, "groups", UniqueNeighbors(job, r), SendParticles([s EXCEPT !.changed = FALSE], r))

Source(r) == getNeighborRank(job, r, Opposite(rank[r].dir))
Body(r) == Head(net[<<Source(r), r>>]).body

ReceiveParticles(r) ==
    LET s == [rank[r] EXCEPT !.local = @ @@ Body(r), !.data = setDirty(@)]
    IN  Receive(r, "particles", {Source(r)}, MigrateParticles(s, r, s.dir + 1))

ReceiveGhosts(r) ==
    LET s == [rank[r] EXCEPT !.ghosts = @ \o Body(r)]
    IN  Receive(r, "ghosts", {Source(r)}, ExchangeGhosts(s, r, s.dir + 1))

\* Between two runs, and between two steps of a run, all ranks are idle.
Idle == \A r \in All : rank[r].pc = "idle"
Call ==
    /\ Idle /\ calls < job.calls
    /\ calls' = calls + 1
    /\ UNCHANGED <<job, net>>

\* The ranks that would own the particles.
Destination(r, hop) ==
    Rank(job, [k \in Axes |-> (GridPos(job, r)[k] + hop[k] + Grid(job)[k]) % Grid(job)[k]])

\* No particle has partners in the domains on both sides of its own, unless the
\* job allows chains.  Along an axis of two domains both sides are the same one.
Reachable(owner) ==
    \A tag \in Tags :
        LET partners == UNION {Range(m) : m \in {n \in Range(made) : tag \in Range(n)}}
            sides    == UNION {Toward(owner[tag], owner[p]) : p \in partners}
        IN  \/ job.chains
            \/ \A dir \in sides : Opposite(dir) \in sides => Grid(job)[Axis(dir)] = 2

\* The particles move, and every rank migrates.
Step ==
    /\ Call
    /\ \E move \in [Tags -> job.hops] :
         /\ Reachable([tag \in Tags |-> Destination(Owner1(tag), move[tag].hop)])
         /\ rank' = [r \in All |-> [rank[r] EXCEPT !.pc = "moved",
                                                   !.local = [tag \in DOMAIN @ |-> move[tag]]]]
    /\ UNCHANGED made

\* addBondedGroup() on all ranks; getGroupNumChangeSignal() sets m_bonds_changed.
AddBondedGroup(m) ==
    /\ Call
    /\ Cardinality(DOMAIN made) < job.maxGroups
    /\ rank' = [r \in All |->
                  [rank[r] EXCEPT !.data = addBondedGroup(@, m, \E i \in DOMAIN m : m[i] \in Local(rank[r])),
                                  !.changed = TRUE]]
    /\ made' = made @@ (NewTag(rank[0].data) :> m)

\* removeBondedGroup() on all ranks.  A tag that no rank has is refused.
RemoveBondedGroup(tag) ==
    /\ Call
    /\ \E r \in All : Known(rank[r].data, tag) /\ IndexOf(rank[r].data, tag) # NOT_LOCAL
    /\ rank' = [r \in All |-> [rank[r] EXCEPT !.data = removeBondedGroup(@, tag), !.changed = TRUE]]
    /\ made' = [t \in DOMAIN made \ {tag} |-> made[t]]

\* ParticleData::setPosition() takes a particle to another rank; its signal calls
\* moveParticleGroups().
SetPosition(tag, to) ==
    LET from == Owner1(tag)
        sent == SentWith(rank[from].data, tag)
        left == Local(rank[from]) \ {tag}
        data(r) == CASE r = from -> Departed(rank[r].data, tag, left)
                     [] r = to   -> Arrived(rank[r].data, sent)
                     [] OTHER    -> rank[r].data
        local(r) == CASE r = from -> [p \in left |-> rank[r].local[p]]
                      [] r = to   -> rank[r].local @@ (tag :> Home)
                      [] OTHER    -> rank[r].local
    IN  /\ Call
        /\ to # from
        /\ Reachable([p \in Tags |-> IF p = tag THEN to ELSE Owner1(p)])
        /\ rank' = [r \in All |-> [rank[r] EXCEPT !.data = setDirty(data(r)), !.local = local(r),
                                                  !.ghosts = <<>>, !.changed = TRUE]]
        /\ UNCHANGED made

\* Simulation.state.set_snapshot() with the snapshot of the groups that was taken
\* before.
Restore ==
    LET snapshot == takeSnapshot([r \in All |-> rank[r].data], DOMAIN made)
        stored(r) == {m \in Range(snapshot) : Range(m) \cap Local(rank[r]) # {}}
    IN  /\ Call
        /\ \A tag \in DOMAIN made : Found([r \in All |-> rank[r].data], tag) # {}
        /\ rank' = [r \in All |->
                      [rank[r] EXCEPT !.data = initializeFromSnapshot(@, snapshot, stored(r)),
                                      !.changed = TRUE, !.ghosts = <<>>]]
        /\ made' = [tag \in 0..(Len(snapshot) - 1) |-> snapshot[tag + 1]]

Finished == Idle /\ calls = job.calls /\ UNCHANGED vars

Act(r) == Migrate(r) \/ ReceiveRanks(r) \/ ReceiveGroups(r) \/ ReceiveParticles(r) \/ ReceiveGhosts(r)

Next ==
    \/ \E r \in All : Act(r)
    \/ Step
    \/ \E m \in job.groups : AddBondedGroup(m)
    \/ \E tag \in DOMAIN made : RemoveBondedGroup(tag)
    \/ \E tag \in Tags, to \in All : SetPosition(tag, to)
    \/ Restore
    \/ Finished

Spec == Init /\ [][Next]_vars

-----------------------------------------------------------------------------
(* Properties. *)

OwnerOf(tag) == {r \in All : tag \in Local(rank[r])}
Stores(r, tag) == \E i \in DOMAIN rank[r].data.groups : rank[r].data.groups[i].tag = tag

\* Between migrations a group is stored on exactly the ranks that own one of its
\* members: none is lost (takeSnapshot() would report that it could not find it),
\* and none is left behind, however its members leave and arrive at the same time.
StoredWithMembers ==
    Idle => \A r \in All : \A tag \in DOMAIN made :
              Stores(r, tag) <=> \E i \in DOMAIN made[tag] : made[tag][i] \in Local(rank[r])

\* When a rank has migrated and starts to exchange ghosts, and until the groups
\* change again, every group on it knows the ranks that own its members.  The next
\* migration sends its rank information, and markGhostParticles() the ghosts, to
\* these ranks only.
Settled(tag) == {r \in OwnerOf(tag) : rank[r].local[tag].hop = <<0, 0>>}
RanksAreRight ==
    \A r \in All : rank[r].pc \in {"ghosts", "idle"} /\ ~rank[r].changed =>
        \A i \in DOMAIN rank[r].data.groups :
            LET g == rank[r].data.groups[i] IN
            \A k \in DOMAIN g.members : Settled(g.members[k]) \subseteq {g.ranks[k]}

LookupIsRight(d) ==
    /\ \A i \in DOMAIN d.groups : IndexOf(d, d.groups[i].tag) = i
    /\ \A t \in DOMAIN d.rtag : d.rtag[t] # NOT_LOCAL =>
         d.rtag[t] \in DOMAIN d.groups /\ d.groups[d.rtag[t]].tag = t - 1

\* The ranks agree on the tags in use and on the stack of free tags, and the two
\* make up the lookup (addBondedGroup() asserts that it has as many entries as there
\* are groups when it makes a new tag).  At all times, in a migration as well, the
\* lookup of a rank finds each group it stores and no other, and the group has the
\* members it was made with: a tag is not reused while an old copy is around.
TagsAgree ==
    \A r \in All :
        LET d == rank[r].data IN
        /\ d.active = DOMAIN made /\ d.recycled = rank[0].data.recycled
        /\ IsInjective(d.recycled) /\ Range(d.recycled) \intersect d.active = {}
        /\ Range(d.recycled) \union d.active = 0..(Len(d.rtag) - 1)
        /\ LookupIsRight(d)
        /\ \A i \in DOMAIN d.groups : /\ d.groups[i].tag \in DOMAIN made
                                      /\ d.groups[i].members = made[d.groups[i].tag]

\* After a migration every member of a group is local or a ghost, so that
\* rebuildGPUTable() does not stop the simulation with an incomplete group.
GroupsComplete ==
    Idle => \A r \in All : ~rank[r].changed => ~Incomplete(rank[r].data, Present(rank[r]))

\* exchangeGhosts() asserts that a ghost it receives is not on the rank already,
\* as a particle or as another ghost: the lookup has one entry for it.
NewGhostsAreNew ==
    \A r \in All :
        /\ \A i, k \in DOMAIN rank[r].ghosts : i # k => rank[r].ghosts[i].tag # rank[r].ghosts[k].tag
        /\ GhostTags(rank[r]) \intersect Local(rank[r]) = {}

\* A rank finds first in line the message it waits for, of the same phase and
\* direction: the ranks agree on whether there are groups to migrate.
MessagesMatch ==
    \A r \in All : \A n \in All :
        (/\ net[<<n, r>>] # <<>>
         /\ \/ rank[r].pc \in {"ranks", "groups"}
            \/ rank[r].pc \in {"particles", "ghosts"} /\ n = Source(r)) =>
            Head(net[<<n, r>>]).kind = rank[r].pc /\ Head(net[<<n, r>>]).dir = rank[r].dir
=============================================================================
