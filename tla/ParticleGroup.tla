---------------------------- MODULE ParticleGroup ----------------------------
(***************************************************************************)
(* A group of particles chosen by a filter (hoomd/ParticleGroup.cc), in a  *)
(* simulation without MPI.  A ParticleGroup is a value g with              *)
(*                                                                         *)
(*   g.tags     the tags of the members (m_member_tags, kept sorted);      *)
(*   g.hash     the tags marked in m_is_member_tag, an array of g.nhash    *)
(*              elements;                                                  *)
(*   g.idx      the first m_num_local_members elements of m_member_idx;    *)
(*   g.flags    the indices marked in m_is_member, an array of g.nflags;   *)
(*   g.sorted, g.reallocated, g.resized                                    *)
(*              m_particles_sorted, m_reallocated and                      *)
(*              m_global_ptl_num_change, set by the signals of the         *)
(*              particle data;                                             *)
(*                                                                         *)
(* and the operators are its methods.  They read the particle data p:      *)
(* p.order, the tags in index order, p.typ, the type of every tag,         *)
(* p.nrtag, the size of m_rtag, and p.maxn, the size of the arrays.        *)
(* Indices start at 1.                                                     *)
(***************************************************************************)
EXTENDS Integers, SequencesExt

(* resize() of the particle data: arrays of m elements grow until n fit;   *)
(* m_resize_factor is 9/8.                                                 *)
Grown(m, n) ==
    LET size[k \in Nat] == IF n > k THEN size[(9 * k) \div 8 + 1] ELSE k IN size[m]

(* getSelectedTags() of ParticleFilterType: the particles of type sel.     *)
getSelectedTags(p, sel) == {t \in Range(p.order) : p.typ[t] = sel}

\* The order of the loop over the indices: the elements of S, the least one first.
InOrder(S) == [k \in 1..Cardinality(S) |-> CHOOSE i \in S : Cardinality({j \in S : j < i}) = k - 1]

buildTagHash(g) == [g EXCEPT !.hash = g.tags]

\* Mutant: the hash is looked up by index.
rebuildIndexList_ByIndex(g, p) ==
    LET N == Len(p.order) IN
    [g EXCEPT !.idx = InOrder({i \in 1..N : (i - 1) \in g.hash}),
              !.flags = (@ \ (1..N)) \union {i \in 1..N : (i - 1) \in g.hash},
              !.sorted = FALSE]

\* rebuildIndexList(): the indices whose tag is marked, in increasing order.
rebuildIndexList(g, p) ==
    LET N == Len(p.order) IN
    [g EXCEPT !.idx = InOrder({i \in 1..N : p.order[i] \in g.hash}),
              !.flags = (@ \ (1..N)) \union {i \in 1..N : p.order[i] \in g.hash},
              !.sorted = FALSE]

(* updateMemberTags(): the filter is evaluated anew (m_update_tags is      *)
(* always true), the arrays are new and everything else is rebuilt.        *)
updateMemberTags(g, p, sel) ==
    rebuildIndexList(
        buildTagHash([g EXCEPT !.tags = getSelectedTags(p, sel), !.nhash = p.nrtag,
                               !.nflags = p.maxn, !.flags = {}]), p)

\* The constructor.
NewGroup(p, sel) ==
    updateMemberTags([tags |-> {}, hash |-> {}, nhash |-> 0, idx |-> <<>>, flags |-> {}, nflags |-> 0,
                      sorted |-> TRUE, reallocated |-> FALSE, resized |-> FALSE], p, sel)

(* reallocate(): the flags by index grow; the hash is rebuilt only if the  *)
(* number of tags has changed.                                             *)
reallocate(g, p) ==
    LET grown == [g EXCEPT !.nflags = p.maxn] IN
    IF g.nhash = p.nrtag THEN grown ELSE buildTagHash([grown EXCEPT !.nhash = p.nrtag])

\* Mutant: a change of the number of particles only remakes the index list.
checkRebuild_OnlyIndex(g, p, sel) ==
    IF g.sorted \/ g.resized THEN rebuildIndexList([g EXCEPT !.resized = FALSE], p) ELSE g

\* checkRebuild(), called by every access to the members, in its order.
checkRebuild(g, p, sel) ==
    LET a == IF g.resized THEN [updateMemberTags(g, p, sel) EXCEPT !.resized = FALSE] ELSE g
        b == IF a.reallocated THEN [reallocate(a, p) EXCEPT !.reallocated = FALSE] ELSE a
    IN  IF b.sorted THEN rebuildIndexList(b, p) ELSE b

\* The slots.
slotParticleSort(g) == [g EXCEPT !.sorted = TRUE]
slotReallocate(g) == [g EXCEPT !.reallocated = TRUE]
slotGlobalParticleNumChange(g) == [g EXCEPT !.resized = TRUE]
=============================================================================
