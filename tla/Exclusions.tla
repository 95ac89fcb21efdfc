----------------------------- MODULE Exclusions -----------------------------
(***************************************************************************)
(* The exclusions of a neighbor list (hoomd/md/NeighborList.cc): pairs of  *)
(* tags derived from the bonds, translated to indices and taken out of     *)
(* the list, in a simulation without MPI.  The value nl of NeighborList    *)
(* gets more fields:                                                       *)
(*                                                                         *)
(*   nl.names    the exclusions that were asked for (m_exclusions);        *)
(*   nl.ex       the excluded pairs of tags (m_n_ex_tag, m_ex_list_tag);   *)
(*   nl.exIdx    the excluded pairs of indices (m_n_ex_idx, m_ex_list_idx);*)
(*   nl.set      m_exclusions_set;                                         *)
(*   nl.resized  m_n_particles_changed, set by the signal of the particle  *)
(*               data;                                                     *)
(*   nl.topology m_topology_changed, set by the signals of the bonds;      *)
(*   nl.ntags    the size of m_n_ex_tag, the number of tags it was made    *)
(*               for;                                                      *)
(*   nl.beyond   a tag outside of m_n_ex_tag was excluded.                 *)
(*                                                                         *)
(* The operators read the particle data p (see ParticleGroup) and the      *)
(* bonds d (see BondedGroupData).  All particles are within the cutoff of  *)
(* each other, so that the list holds every pair that is not excluded.     *)
(* An operation that may throw returns whether it did not and the list it  *)
(* leaves.  Exclusions by angle, dihedral, constraint and special pair     *)
(* are those by bond with other groups, the exclusion by body is a flag    *)
(* of the search; both are left out.                                       *)
(***************************************************************************)
EXTENDS NeighborList, BondedGroupData

\* The order in which std::set<std::string> is traversed.
Exclusion == <<"1-3", "1-4", "bond">>
Traversed(names) == SelectSeq(Exclusion, LAMBDA e : e \in names)

NewListWithExclusions(rbuff, ntags) ==
    NewList(rbuff) @@
    [names |-> {}, ex |-> {}, exIdx |-> {}, set |-> FALSE, resized |-> FALSE, topology |-> FALSE,
     ntags |-> ntags, beyond |-> FALSE]

\* The slots of the signals for the number of particles and of bonds.
slotGlobalParticleNumberChange(nl) == [nl EXCEPT !.resized = TRUE]
\* Mutant: a change of the bonds only makes the list be built again.
slotGlobalTopologyNumberChange_OnlyBuild(nl) == forceUpdate(nl)
slotGlobalTopologyNumberChange(nl) == [nl EXCEPT !.topology = TRUE]

resizeAndClearExclusions(nl, p) ==
    forceUpdate([nl EXCEPT !.ex = {}, !.exIdx = {}, !.set = FALSE,
                           !.ntags = IF nl.resized THEN p.nrtag ELSE @])

(* addExclusion() of every pair of a set.  It asserts that the tags are at *)
(* most the largest one in use, which a bond to a removed particle breaks, *)
(* and that no change of the number of particles is pending, which         *)
(* exclusions assigned before the next compute() break.  The release build *)
(* goes on.  addParticle() may have cut m_rtag below the tag of a removed  *)
(* particle; then the arrays are indexed outside of their sizes and what   *)
(* the list holds from there on is not defined.                            *)
addExclusions(nl, pairs) ==
    [nl EXCEPT !.ex = @ \union pairs, !.set = @ \/ pairs # {}, !.force = @ \/ ~(pairs \subseteq nl.ex),
               !.beyond = @ \/ \E pair \in pairs : \E tag \in pair : tag >= nl.ntags]

(* The list of bonding partners by tag, filled from the bonds with tags    *)
(* 0 .. getNGlobal()-1.  getGroupByTag() throws for a tag that is not in   *)
(* use and for a bond with a member that was removed.                      *)
Reachable(d, p) ==
    \A tag \in 0 .. (getNGlobal(d) - 1) :
        /\ IndexOf(d, tag) # NOT_LOCAL
        /\ Range(d.groups[IndexOf(d, tag)].members) \subseteq Range(p.order)
BondByTag(d, tag) == d.groups[IndexOf(d, tag)].members
localBondList(d) ==
    LET bonds == [i \in 1 .. getNGlobal(d) |-> BondByTag(d, i - 1)]
        atoms == UNION {Range(b) : b \in Range(bonds)}
    IN  FoldLeft(LAMBDA l, b : [[l EXCEPT ![b[1]] = Append(@, b[2])] EXCEPT ![b[2]] = Append(@, b[1])],
                 [a \in atoms |-> <<>>], bonds)

\* addExclusionsFromBonds().
BondPairs(d) == {Range(g.members) : g \in Range(d.groups)}

\* addOneThreeExclusionsFromTopology(): the partners of one atom exclude each
\* other.
OneThreePairs(d) ==
    LET l == localBondList(d)
    IN  UNION {{{l[a][q[1]], l[a][q[2]]} : q \in {z \in (DOMAIN l[a]) \X (DOMAIN l[a]) : z[1] < z[2]}} :
                 a \in DOMAIN l}

\* addOneFourExclusionsFromTopology(): so do the partners of the two ends of a
\* bond, leaving out the bond itself.
OneFourPairs(d) ==
    LET l == localBondList(d)
        at(b) == {t \in Range(l[b[1]]) : t # b[2]}
        to(b) == {t \in Range(l[b[2]]) : t # b[1]}
    IN  UNION {{{j, k} : j \in at(b), k \in to(b)} : b \in {g.members : g \in Range(d.groups)}}

setSingleExclusion(nl, p, d, name) ==
    LET named(pairs) == [ok |-> TRUE, nl |-> [addExclusions(nl, pairs) EXCEPT !.names = @ \union {name}]]
    IN  CASE name = "bond" -> named(BondPairs(d))
          [] ~Reachable(d, p) -> [ok |-> FALSE, nl |-> nl]
          [] name = "1-3" -> named(OneThreePairs(d))
          [] name = "1-4" -> named(OneFourPairs(d))

\* A loop over setSingleExclusion() ends at the first one that throws.
SetEach(nl, p, d, names) ==
    FoldLeft(LAMBDA s, e : IF s.ok THEN setSingleExclusion(s.nl, p, d, e) ELSE s,
             [ok |-> TRUE, nl |-> nl], names)

\* setExclusions(): names in the order of the caller.  setFilterBody(false)
\* forces an update, as clearing has done already.
setExclusions(nl, p, d, names) ==
    SetEach([resizeAndClearExclusions(nl, p) EXCEPT !.names = {}], p, d, names)

updateExListIdx(nl, p) ==
    [nl EXCEPT !.exIdx = {q \in (DOMAIN p.order) \X (DOMAIN p.order) :
                            {p.order[q[1]], p.order[q[2]]} \in nl.ex}]

\* filterNlist().
filterNlist(nl, pairs) == IF nl.set THEN pairs \ nl.exIdx ELSE pairs

\* The first part of compute(): the exclusions are remade after a change.
RemadeExclusions(nl, p, d) ==
    IF nl.resized \/ nl.topology
    THEN SetEach([resizeAndClearExclusions(nl, p) EXCEPT !.resized = FALSE, !.topology = FALSE],
                 p, d, Traversed(nl.names))
    ELSE [ok |-> TRUE, nl |-> nl]

\* The second part: the list is updated if it has to be.
Updated(job, nl, p, t, vote) ==
    LET translated == IF nl.force /\ nl.set THEN updateExListIdx(nl, p) ELSE nl
        checked    == needsUpdating(job, translated, t, vote)
        all        == {q \in (DOMAIN p.order) \X (DOMAIN p.order) : q[1] < q[2]}
    IN  IF Verdict(job, translated, t, vote)
        THEN [checked EXCEPT !.pairs = filterNlist(checked, all)] ELSE checked

compute(job, nl, p, d, t, vote) ==
    IF ~Computes(nl, t) THEN [ok |-> TRUE, nl |-> nl]
    ELSE LET made == RemadeExclusions(Noted(nl, t), p, d)
         IN  [made EXCEPT !.nl = IF made.ok THEN Updated(job, @, p, t, vote) ELSE @]
=============================================================================
