-------------------------- MODULE BondedGroupData --------------------------
(***************************************************************************)
(* The bonds of one rank (hoomd/BondedGroupData.cc); angles, dihedrals,    *)
(* impropers, special pairs and constraints are the same template with     *)
(* more members.  A BondedGroupData is a value d with                      *)
(*                                                                         *)
(*   d.groups   the local groups in index order: the tag of the group, the *)
(*              tags of its members and the ranks that own them            *)
(*              (m_group_tag, m_groups, m_group_ranks);                    *)
(*   d.rtag     the index of every group tag, or NOT_LOCAL (m_group_rtag); *)
(*   d.active   the tags in use (m_tag_set), m_nglobal being their number; *)
(*   d.recycled the stack of free tags (m_recycled_tags);                  *)
(*   d.dirty    the lookup table has to be rebuilt (m_groups_dirty);       *)
(*   d.table    the lookup table (m_gpu_table), see GPUTable.              *)
(*                                                                         *)
(* and the operators are its methods.  The type of a group is a value that *)
(* travels with its members and is left out.  Groups have no ghosts here:  *)
(* only constraints do.                                                    *)
(***************************************************************************)
EXTENDS Integers, SequencesExt

NOT_LOCAL == 0

\* initialize() and the constructor.
initialize(d) ==
    [d EXCEPT !.groups = <<>>, !.rtag = <<>>, !.active = {}, !.recycled = <<>>, !.table = <<>>]
NewGroupData ==
    [groups |-> <<>>, rtag |-> <<>>, active |-> {}, recycled |-> <<>>, dirty |-> TRUE, table |-> <<>>]

\* notifyGroupReorder(), also the slot of the particle sort signal.
setDirty(d) == [d EXCEPT !.dirty = TRUE]

getNGlobal(d) == Cardinality(d.active)

\* The index of a group.  Group tags start at 0, positions in a sequence at 1.
IndexOf(d, tag) == d.rtag[tag + 1]
Known(d, tag) == tag + 1 \in DOMAIN d.rtag

NewTag(d) == IF d.recycled # <<>> THEN Last(d.recycled) ELSE getNGlobal(d)
\* Mutant: the tag stays among the free ones.
addBondedGroup_KeepsFree(d, members, local) ==
    LET tag   == NewTag(d)
        index == IF local THEN Len(d.groups) + 1 ELSE NOT_LOCAL
        group == [tag |-> tag, members |-> members, ranks |-> [i \in DOMAIN members |-> 0]]
    IN  setDirty(
          [d EXCEPT !.groups = IF local THEN Append(@, group) ELSE @,
                    !.rtag = IF d.recycled = <<>> THEN Append(@, index)
                             ELSE IF local THEN [@ EXCEPT ![tag + 1] = index] ELSE @,
                    !.active = @ \union {tag}])
\* addBondedGroup() of members that pass its checks: the tag is the last one
\* that was freed, or a new one.  The group is stored if local.
addBondedGroup(d, members, local) ==
    LET tag   == NewTag(d)
        index == IF local THEN Len(d.groups) + 1 ELSE NOT_LOCAL
        group == [tag |-> tag, members |-> members, ranks |-> [i \in DOMAIN members |-> 0]]
    IN  setDirty(
          [d EXCEPT !.groups = IF local THEN Append(@, group) ELSE @,
                    !.rtag = IF d.recycled = <<>> THEN Append(@, index)
                             ELSE IF local THEN [@ EXCEPT ![tag + 1] = index] ELSE @,
                    !.recycled = IF @ = <<>> THEN @ ELSE Front(@),
                    !.active = @ \union {tag}])

\* removeBondedGroup() of a group that some rank has: the last group fills the
\* gap.
removeBondedGroup(d, tag) ==
    LET i == IndexOf(d, tag)
        n == Len(d.groups)
        moved == IF i = NOT_LOCAL \/ i = n THEN {} ELSE {d.groups[n].tag + 1}
    IN  setDirty(
          [d EXCEPT !.groups = IF i = NOT_LOCAL THEN @ ELSE Front([@ EXCEPT ![i] = d.groups[n]]),
                    !.rtag = [t \in DOMAIN @ |-> IF t = tag + 1 THEN NOT_LOCAL
                                                 ELSE IF t \in moved THEN i ELSE @[t]],
                    !.active = @ \ {tag},
                    !.recycled = Append(@, tag)])

\* initializeFromSnapshot(): the groups become 0, 1, ... in the order of the
\* snapshot; stored holds the members of those that are stored.
initializeFromSnapshot(d, snapshot, stored) ==
    FoldLeft(LAMBDA e, members : addBondedGroup(e, members, members \in stored), initialize(d), snapshot)

\* The indices of the groups, recomputed from their tags; tags that are not in
\* the list keep what they have.
Reindexed(rtag, groups) ==
    [t \in DOMAIN rtag |->
        IF \E i \in DOMAIN groups : groups[i].tag = t - 1
        THEN CHOOSE i \in DOMAIN groups : groups[i].tag = t - 1
        ELSE rtag[t]]

\* moveParticleGroups() of a particle that has moved from one rank to another:
\* what the old rank sends, what it keeps (left are the particles that are local
\* to it now) and what the new rank adds.
SentWith(d, tag) == SelectSeq(d.groups, LAMBDA g : tag \in Range(g.members))
Departed(d, tag, left) ==
    LET keeps(g) == tag \notin Range(g.members) \/ Range(g.members) \cap left # {}
        kept     == SelectSeq(d.groups, keeps)
        gone     == {g.tag + 1 : g \in {h \in Range(d.groups) : ~keeps(h)}}
    IN  [d EXCEPT !.groups = kept,
                  !.rtag = [t \in DOMAIN @ |-> IF t \in gone THEN NOT_LOCAL ELSE Reindexed(@, kept)[t]]]
Arrived(d, sent) ==
    LET new == SelectSeq(sent, LAMBDA g : IndexOf(d, g.tag) = NOT_LOCAL)
        all == d.groups \o [i \in DOMAIN new |-> [new[i] EXCEPT !.ranks = [k \in DOMAIN @ |-> 0]]]
    IN  [d EXCEPT !.groups = all, !.rtag = Reindexed(@, all)]

\* rebuildGPUTable() throws when a member of a group is not on this rank; index
\* is the lookup of the particles, local and ghost.
Incomplete(d, index) ==
    \E i \in DOMAIN d.groups : \E k \in DOMAIN d.groups[i].members :
        index[d.groups[i].members[k]] = NOT_LOCAL

\* The rows of the table: for the particle at index p, in group order, the
\* position it has in the group and the indices of the other members.
GPUTable(d, index, n) ==
    LET others(g, k) == RemoveAt([j \in DOMAIN g.members |-> index[g.members[j]]], k)
        row(p) == FlattenSeq(
                    [i \in DOMAIN d.groups |->
                       LET g    == d.groups[i]
                           mine == SelectSeq([k \in DOMAIN g.members |-> k],
                                             LAMBDA k : index[g.members[k]] = p)
                       IN  [m \in DOMAIN mine |-> [pos |-> mine[m], idx |-> others(g, mine[m])]]])
    IN  [p \in 1..n |-> row(p)]

\* getGPUTable() of complete groups: the table is rebuilt if it is dirty.
getGPUTable(d, index, n) ==
    IF d.dirty THEN [d EXCEPT !.dirty = FALSE, !.table = GPUTable(d, index, n)] ELSE d

\* takeSnapshot(): the members of every active tag in tag order, taken from the
\* first rank that has the group.
Found(ds, tag) == {r \in DOMAIN ds : \E i \in DOMAIN ds[r].groups : ds[r].groups[i].tag = tag}
takeSnapshot(ds, active) ==
    LET tags == SetToSortSeq(active, <)
        members(tag) ==
            LET r == Min(Found(ds, tag))
                i == CHOOSE i \in DOMAIN ds[r].groups : ds[r].groups[i].tag = tag
            IN  ds[r].groups[i].members
    IN  [i \in DOMAIN tags |-> members(tags[i])]
=============================================================================
