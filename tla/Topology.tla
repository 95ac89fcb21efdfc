------------------------------ MODULE Topology ------------------------------
(***************************************************************************)
(* Particles and bonds that come and go, and the objects that keep data    *)
(* derived from them: a ParticleGroup, the bond lookup table, the          *)
(* exclusions of a neighbor list and the rigid bodies, in a simulation     *)
(* without MPI.  The particle data announces changes by signals: the       *)
(* arrays were reallocated, the number of particles changed, the order     *)
(* changed.  The subscribers set flags and rebuild at the next access.     *)
(*                                                                         *)
(* One of the four subscribers is watched in a behaviour; the others       *)
(* would change nothing it reads, but for the particles that creating      *)
(* rigid bodies adds, which come as any snapshot does.  A time step is     *)
(* relative: the fields of the neighbor list that hold time steps are 1    *)
(* for the current step and 0 for an earlier one, which is all its code    *)
(* compares (with no delay between the checks).                            *)
(***************************************************************************)
EXTENDS Exclusions, ParticleGroup, RigidBodies

CONSTANTS
    MaxTags,        \* bound on the particle tags in use at one time
    MaxBonds,       \* bound on the bond tags in use at one time
    MaxChanges,     \* bound on the changes to particles and bonds
    Lists,          \* the lists a user assigns to NeighborList.exclusions
    Bodies,         \* the constituents a user assigns to Rigid.body, by type
    Recreate,       \* create_bodies is also called when there are bodies
    Watched,        \* the subscribers that are watched
    Orders(_),      \* the orders a sort may produce
    Snapshots(_)    \* the snapshots a user restores: particles and bonds

\* A sort puts the same particles into another order.
ASSUME TopologyAssumption ==
    /\ MaxTags \in Nat
    /\ \A n \in 0..MaxTags : \A s \in [1..n -> 0 .. (MaxTags - 1)] : \A order \in Orders(s) :
          /\ order \in [1..n -> 0 .. (MaxTags - 1)] /\ Range(order) = Range(s)
          /\ IsInjective(s) => IsInjective(order)
    /\ \A w \in Watched : \A s \in Snapshots(w) :
          s.particles \in Seq([type : STRING, body : Int]) /\ Len(s.particles) <= MaxTags

VARIABLES
    watched,        \* "group", "table", "nlist" or "bodies"
    pd,             \* the particle data: order, typ, nrtag and maxn as ParticleGroup
                    \* reads them, recycled the stack of free tags, body by tag
    bonds,          \* the bonds, see BondedGroupData
    group,          \* a group of the particles of type "A", see ParticleGroup
    nl,             \* the neighbor list, see Exclusions
    rigid,          \* hoomd.md.constrain.Rigid: its body by type, whether it is attached
                    \* and then the ForceComposite, see RigidBodies; what the user asked
                    \* for last, by type, and the types for which that was ignored
    changes,        \* changes made so far
    retyped,        \* tags whose type was set since the filter was last evaluated
    failed,         \* remaking the exclusions has thrown, and they were not remade since
    created         \* the bodies were created and neither they nor their definitions
                    \* have changed since

ghosts == <<retyped, failed, created>>
vars == <<watched, pd, bonds, group, nl, rigid, changes, ghosts>>

Type == IF watched = "group" THEN {"A", "B"} ELSE {"A"}
None == <<"None">>
job  == [delay |-> 0, dist |-> TRUE]
now  == 1

-----------------------------------------------------------------------------
(* What the subscribers do at the signals of the particle data, which come *)
(* in the order reallocated, number, order.                                *)
GroupNotified(reallocated, number) ==
    LET a == IF reallocated THEN slotReallocate(group) ELSE group
        b == IF number THEN slotGlobalParticleNumChange(a) ELSE a
    IN  slotParticleSort(b)

ListNotified(number) == forceUpdate(IF number THEN slotGlobalParticleNumberChange(nl) ELSE nl)

Notified(reallocated, number) ==
    /\ group' = IF watched = "group" THEN GroupNotified(reallocated, number) ELSE group
    /\ nl' = IF watched = "nlist" THEN ListNotified(number) ELSE nl
    /\ UNCHANGED rigid

\* The signal for the number of bonds.
BondsNotified == nl' = IF watched = "nlist" THEN slotGlobalTopologyNumberChange(nl) ELSE nl

Changed == changes < MaxChanges /\ changes' = changes + 1

\* addParticle(): the tag is the last one freed or a new one.
addParticle(type) ==
    LET recycled == pd.recycled # <<>>
        tag   == IF recycled THEN Last(pd.recycled) ELSE Len(pd.order)
        order == Append(pd.order, tag)
        maxn  == Grown(pd.maxn, Len(order))
    IN  /\ Changed
        /\ watched # "bodies" /\ tag < MaxTags
        /\ pd' = [order |-> order,
                  typ |-> [t \in Range(order) |-> IF t = tag THEN type ELSE pd.typ[t]],
                  body |-> [t \in Range(order) |-> IF t = tag THEN NO_BODY ELSE pd.body[t]],
                  recycled |-> IF recycled THEN Front(pd.recycled) ELSE <<>>,
                  nrtag |-> Max(Range(order)) + 1,
                  maxn |-> maxn]
        /\ Notified(maxn # pd.maxn, TRUE)
        /\ bonds' = setDirty(bonds)
        /\ UNCHANGED <<watched, ghosts>>

\* removeParticle(): the last particle fills the gap.
removeParticle(tag) ==
    LET n     == Len(pd.order)
        i     == CHOOSE k \in 1..n : pd.order[k] = tag
        order == Front([pd.order EXCEPT ![i] = pd.order[n]])
    IN  /\ Changed
        /\ watched # "bodies"
        /\ pd' = [pd EXCEPT !.order = order, !.typ = [t \in Range(order) |-> @[t]],
                            !.body = [t \in Range(order) |-> @[t]],
                            !.recycled = Append(@, tag)]
        /\ Notified(FALSE, TRUE)
        /\ bonds' = setDirty(bonds)
        /\ retyped' = retyped \ {tag}
        /\ UNCHANGED <<watched, failed, created>>

\* Mutant: the bond table is not told of a new order.
sort_Silent(order) ==
    /\ Changed
    /\ watched # "bodies" /\ order # pd.order
    /\ pd' = [pd EXCEPT !.order = order]
    /\ Notified(FALSE, FALSE)
    /\ UNCHANGED <<watched, bonds, ghosts>>

\* SFCPackTuner::update(): the particles are put into another order.
sort(order) ==
    /\ Changed
    /\ watched # "bodies" /\ order # pd.order
    /\ pd' = [pd EXCEPT !.order = order]
    /\ Notified(FALSE, FALSE)
    /\ bonds' = setDirty(bonds)
    /\ UNCHANGED <<watched, ghosts>>

\* setType(): announced as a change of the order.
setType(tag, type) ==
    /\ Changed
    /\ watched = "group"
    /\ pd.typ[tag] # type
    /\ pd' = [pd EXCEPT !.typ[tag] = type]
    /\ Notified(FALSE, FALSE)
    /\ bonds' = setDirty(bonds)
    /\ retyped' = retyped \union {tag}
    /\ UNCHANGED <<watched, failed, created>>

\* SystemDefinition::initializeFromSnapshot(): first the particles, then the
\* bonds.  Every bond that is added is announced.
Restored(particles, maxn) ==
    LET n == Len(particles) IN
    [order |-> [i \in 1..n |-> i - 1], typ |-> [t \in 0 .. (n - 1) |-> particles[t + 1].type],
     body |-> [t \in 0 .. (n - 1) |-> particles[t + 1].body],
     recycled |-> <<>>, nrtag |-> n, maxn |-> Grown(maxn, n)]

restore(particles, members) ==
    LET p == Restored(particles, pd.maxn) IN
    /\ Changed
    /\ pd' = p
    /\ bonds' = initializeFromSnapshot(setDirty(bonds), members, Range(members))
    /\ group' = IF watched = "group" THEN GroupNotified(p.maxn # pd.maxn, TRUE) ELSE group
    /\ nl' = IF watched # "nlist" THEN nl
             ELSE IF members = <<>> THEN ListNotified(TRUE)
             ELSE slotGlobalTopologyNumberChange(ListNotified(TRUE))
    /\ rigid' = IF rigid.attached THEN [rigid EXCEPT !.f = slotPtlsAddedRemoved(@)] ELSE rigid
    /\ retyped' = {} /\ created' = FALSE
    /\ UNCHANGED <<watched, failed>>

\* addBondedGroup() and removeBondedGroup() of the bonds.
addBond(a, b) ==
    /\ Changed
    /\ watched \in {"table", "nlist"}
    /\ NewTag(bonds) < MaxBonds
    /\ bonds' = addBondedGroup(bonds, <<a, b>>, TRUE)
    /\ BondsNotified
    /\ UNCHANGED <<watched, pd, group, rigid, ghosts>>

removeBond(tag) ==
    /\ Changed
    /\ bonds' = removeBondedGroup(bonds, tag)
    /\ BondsNotified
    /\ UNCHANGED <<watched, pd, group, rigid, ghosts>>

-----------------------------------------------------------------------------
\* The readers.  Any access to the members of the group.
accessGroup ==
    /\ watched = "group"
    /\ group' = checkRebuild(group, pd, "A")
    /\ retyped' = IF group.resized THEN {} ELSE retyped
    /\ UNCHANGED <<watched, pd, bonds, nl, rigid, changes, failed, created>>

\* ParticleFilterUpdater::update().
updateFilter ==
    /\ watched = "group"
    /\ group' = updateMemberTags(group, pd, "A")
    /\ retyped' = {}
    /\ UNCHANGED <<watched, pd, bonds, nl, rigid, changes, failed, created>>

\* getGPUTable() rebuilds a dirty table; if a bond has a member that was removed
\* it throws, and the table stays dirty.
Lookup == [t \in 0 .. (MaxTags - 1) |->
              IF t \in Range(pd.order) THEN CHOOSE i \in DOMAIN pd.order : pd.order[i] = t ELSE NOT_LOCAL]
readTable ==
    /\ watched = "table"
    /\ bonds.dirty => ~Incomplete(bonds, Lookup)
    /\ bonds' = getGPUTable(bonds, Lookup, Len(pd.order))
    /\ UNCHANGED <<watched, pd, group, nl, rigid, changes, ghosts>>

readTableThrows ==
    /\ watched = "table"
    /\ bonds.dirty /\ Incomplete(bonds, Lookup)
    /\ UNCHANGED vars

\* NeighborList::compute(), called by the forces of every step.
computeList(vote) ==
    /\ watched = "nlist"
    /\ LET s == compute(job, nl, pd, bonds, now, vote)
           remade == Computes(nl, now) /\ (nl.resized \/ nl.topology)
       IN  /\ nl' = s.nl
           /\ failed' = IF remade THEN ~s.ok ELSE failed
    /\ UNCHANGED <<watched, pd, bonds, group, rigid, changes, retyped, created>>

\* Assigning NeighborList.exclusions.
assignExclusions(names) ==
    /\ watched = "nlist"
    /\ nl' = setExclusions(nl, pd, bonds, names).nl
    /\ failed' = FALSE
    /\ UNCHANGED <<watched, pd, bonds, group, rigid, changes, retyped, created>>

\* The next time step.
nextStep ==
    /\ watched = "nlist"
    /\ nl' = [nl EXCEPT !.checked = 0, !.computed = 0, !.updated = 0]
    /\ UNCHANGED <<watched, pd, bonds, group, rigid, changes, ghosts>>

-----------------------------------------------------------------------------
(* The rigid bodies.  Assigning Rigid.body: an attached object is told,    *)
(* and ignores None.                                                       *)
setBody(type, constituents) ==
    /\ watched = "bodies"
    /\ rigid' = [rigid EXCEPT !.body[type] = constituents,
                              !.f = IF rigid.attached /\ constituents # None
                                    THEN setParam(@, type, constituents) ELSE @,
                              !.asked[type] = constituents,
                              !.ignored = IF rigid.attached /\ constituents = None
                                          THEN @ \union {type} ELSE @ \ {type}]
    /\ created' = FALSE
    /\ UNCHANGED <<watched, pd, bonds, group, nl, changes, retyped, failed>>

\* takeSnapshot(): the particles in tag order.
Snap == [i \in DOMAIN pd.order |-> [type |-> pd.typ[i - 1], body |-> pd.body[i - 1]]]

\* The definitions of a ForceComposite that is given the values of body.
Definitions(body) == [t \in DOMAIN body |-> IF body[t] = None THEN <<>> ELSE body[t]]

\* A new ForceComposite with the definitions of the Rigid object.
NewDefined ==
    LET none == NewForceComposite(DOMAIN rigid.body)
        def  == Definitions(rigid.body)
    IN  [none EXCEPT !.def = def, !.changed = def # none.def]

\* getBody() of every type, which detaching stores in the Rigid object.
getBody(f) == [t \in DOMAIN f.def |-> IF f.def[t] = <<>> THEN None ELSE f.def[t]]

\* Rigid.create_bodies(): a temporary ForceComposite adds the constituents, and is
\* detached.
create_bodies ==
    /\ Changed
    /\ watched = "bodies" /\ ~rigid.attached
    /\ Recreate \/ \A t \in Range(pd.order) : pd.body[t] = NO_BODY
    /\ pd' = Restored(createRigidBodies(NewDefined.def, Snap, "A"), pd.maxn)
    /\ bonds' = setDirty(bonds)
    /\ rigid' = [rigid EXCEPT !.body = getBody(NewDefined)]
    /\ created' = TRUE
    /\ UNCHANGED <<watched, group, nl, retyped, failed>>

\* Rigid._attach(); if the validation throws, its flags stay set.
attach ==
    /\ watched = "bodies" /\ ~rigid.attached
    /\ rigid' = [rigid EXCEPT !.attached = TRUE,
                              !.f = IF Validates(NewDefined, Snap)
                                    THEN validateRigidBodies(NewDefined, Snap) ELSE NewDefined]
    /\ UNCHANGED <<watched, pd, bonds, group, nl, changes, ghosts>>

detach ==
    /\ rigid.attached
    /\ rigid' = [rigid EXCEPT !.attached = FALSE, !.body = getBody(rigid.f),
                              !.f = NewForceComposite(DOMAIN rigid.body)]
    /\ UNCHANGED <<watched, pd, bonds, group, nl, changes, ghosts>>

\* IntegratorTwoStep::prepRun() and computeNetForce() validate the bodies.
validate ==
    /\ rigid.attached /\ Validates(rigid.f, Snap)
    /\ rigid' = [rigid EXCEPT !.f = validateRigidBodies(@, Snap)]
    /\ UNCHANGED <<watched, pd, bonds, group, nl, changes, ghosts>>

-----------------------------------------------------------------------------
Init ==
    /\ watched \in Watched
    /\ \E s \in Snapshots(watched) :
          /\ pd = Restored(s.particles, Len(s.particles))
          /\ bonds = initializeFromSnapshot(NewGroupData, s.members, Range(s.members))
    /\ group = NewGroup(pd, "A")
    /\ nl = NewListWithExclusions(1, pd.nrtag)
    /\ rigid = [body |-> [t \in DOMAIN Bodies |-> None], attached |-> FALSE,
                f |-> NewForceComposite(DOMAIN Bodies),
                asked |-> [t \in DOMAIN Bodies |-> None], ignored |-> {}]
    /\ changes = 0 /\ retyped = {} /\ failed = FALSE /\ created = FALSE

Next ==
    \/ \E type \in Type : addParticle(type)
    \/ \E tag \in Range(pd.order) : removeParticle(tag)
    \/ \E order \in Orders(pd.order) : sort(order)
    \/ \E tag \in Range(pd.order), type \in Type : setType(tag, type)
    \/ \E s \in Snapshots(watched) : restore(s.particles, s.members)
    \/ \E a, b \in Range(pd.order) : a < b /\ addBond(a, b)
    \/ \E tag \in bonds.active : removeBond(tag)
    \/ accessGroup \/ updateFilter \/ readTable \/ readTableThrows
    \/ \E vote \in BOOLEAN : computeList(vote)
    \/ \E names \in Lists : assignExclusions(names)
    \/ nextStep
    \/ \E type \in DOMAIN Bodies : \E b \in Bodies[type] \union {None} : setBody(type, b)
    \/ create_bodies \/ attach \/ detach \/ validate

Spec == Init /\ [][Next]_vars

-----------------------------------------------------------------------------
(* Whoever asks the group for its members next gets the indices of exactly *)
(* the particles with member tags, in increasing order, every member tag   *)
(* is that of an existing particle, and no access leaves the arrays: the   *)
(* three flags together remember every event since the last access.        *)
GroupIndexRight ==
    watched = "group" =>
      LET g == checkRebuild(group, pd, "A")
          N == Len(pd.order)
      IN  /\ Range(g.idx) = {i \in 1..N : pd.order[i] \in g.tags}
          /\ \A i, j \in DOMAIN g.idx : i < j => g.idx[i] < g.idx[j]
          /\ g.flags \intersect (1..N) = Range(g.idx)
          /\ Len(g.idx) = Cardinality(g.tags)
          /\ N <= g.nflags /\ \A t \in Range(pd.order) : t < g.nhash

(* The members are the particles the filter selects, also after particles  *)
(* were added, removed and their tags reused; only a particle whose type   *)
(* was set since the filter was last evaluated may be missing or too much. *)
MembershipCurrent ==
    watched = "group" =>
      LET g == checkRebuild(group, pd, "A")
          stale == IF group.resized THEN {} ELSE retyped
      IN  \A t \in Range(pd.order) \ stale : t \in g.tags <=> pd.typ[t] = "A"

(* A bond table that is not dirty has one row for every particle, and in   *)
(* it exactly one entry for every bond of the particle, which leads to the *)
(* index where the other member is now.                                    *)
TableRight ==
    ~bonds.dirty =>
      /\ DOMAIN bonds.table = DOMAIN pd.order
      /\ \A i \in DOMAIN pd.order :
           LET row  == bonds.table[i]
               mine == {g \in Range(bonds.groups) : pd.order[i] \in Range(g.members)}
           IN  /\ Len(row) = Cardinality(mine)
               /\ \A g \in mine : \E e \in Range(row) :
                     /\ g.members[e.pos] = pd.order[i]
                     /\ e.idx[1] \in DOMAIN pd.order
                     /\ pd.order[e.idx[1]] = g.members[3 - e.pos]

(* The pairs that must not interact: bonded, with a common partner, or     *)
(* with partners that are bonded.                                          *)
Bonded(a, b) == a # b /\ \E g \in Range(bonds.groups) : Range(g.members) = {a, b}
Required(a, b) ==
    \/ "bond" \in nl.names /\ Bonded(a, b)
    \/ "1-3" \in nl.names /\ \E c \in Range(pd.order) : Bonded(a, c) /\ Bonded(c, b)
    \/ "1-4" \in nl.names /\ \E c, e \in Range(pd.order) :
                                /\ Bonded(a, c) /\ Bonded(c, e) /\ Bonded(e, b)
                                /\ a # e /\ b # c

ListRight ==
    \A i, j \in DOMAIN pd.order :
        i < j => (<<i, j>> \in nl.pairs <=> ~Required(pd.order[i], pd.order[j]))

(* A neighbor list with nothing pending holds exactly the pairs that the   *)
(* current bonds do not exclude, whatever particles and bonds came, went   *)
(* and moved, and whenever the exclusions were assigned, before the change *)
(* of the particles was taken up too, in the release build (addExclusion   *)
(* asserts otherwise).  There are two exceptions: remaking the exclusions  *)
(* has thrown, or a bond to a removed particle had a tag outside of the    *)
(* arrays.                                                                 *)
ExclusionsRight ==
    (/\ watched = "nlist" /\ ~nl.first
     /\ ~nl.force /\ ~nl.resized /\ ~nl.topology /\ ~failed /\ ~nl.beyond) => ListRight

(* The bodies of the particle data are those the definitions describe:     *)
(* every particle of a type with a definition is the center of a body, and *)
(* the other particles of the body are, in tag order, of the types the     *)
(* definition lists.                                                       *)
BodyTypes(def, snap, tag) ==
    LET member(i) == snap[i].body = tag /\ i # tag + 1
        found     == SelectSeq([i \in DOMAIN snap |-> i], member)
    IN  [k \in DOMAIN found |-> snap[found[k]].type]
BodiesMatch(def, snap) ==
    /\ \A i \in DOMAIN snap : def[snap[i].type] # <<>> => snap[i].body = i - 1
    /\ \A i \in DOMAIN snap : snap[i].body # NO_BODY =>
          LET tag == snap[i].body
          IN  /\ tag + 1 \in DOMAIN snap
              /\ def[snap[tag + 1].type] # <<>>
              /\ BodyTypes(def, snap, tag) = def[snap[tag + 1].type]

(* After create_bodies the particle data holds the bodies of the           *)
(* definitions, whatever particles without a body there were before.       *)
BodiesCreated ==
    (created /\ ~Nested(NewDefined.def)) => BodiesMatch(NewDefined.def, Snap)

(* While the forces are computed with nothing to validate, the definitions *)
(* in use are those the user assigned last, before or after attaching, the *)
(* particle data holds their bodies, and two particles are in one molecule *)
(* exactly if they have the same body: definitions that are assigned again *)
(* and states that are restored do not pass unnoticed.  The exception is   *)
(* None assigned while the object was attached, which ForceComposite       *)
(* ignores: the definition before it stays in use, also when the object is *)
(* attached again, until the type is assigned anew.                        *)
MoleculesRight ==
    LET f == rigid.f IN
    (rigid.attached /\ ~f.changed /\ ~f.resized /\ \E t \in DOMAIN f.def : f.def[t] # <<>>) =>
      /\ \A t \in DOMAIN f.def \ rigid.ignored : f.def[t] = Definitions(rigid.asked)[t]
      /\ BodiesMatch(f.def, Snap)
      /\ DOMAIN f.mol = DOMAIN Snap
      /\ \A i, j \in DOMAIN Snap :
            (f.mol[i] = f.mol[j] /\ f.mol[i] # NO_MOLECULE)
              <=> (Snap[i].body = Snap[j].body /\ Snap[i].body # NO_BODY)
      /\ f.nmol = Cardinality(Range(f.mol) \ {NO_MOLECULE})
=============================================================================
