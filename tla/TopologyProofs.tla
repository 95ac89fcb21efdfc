---------------------------- MODULE TopologyProofs --------------------------
(***************************************************************************)
(* What a ParticleGroup promises, for any number of particles and any      *)
(* sequence of changes: after every access its members are the particles   *)
(* the filter selected and its index list leads to them.                   *)
(***************************************************************************)
EXTENDS Topology, ParticleGroupProofs

\* The provers a step is given to unless it names one, with their time in seconds.
USE ZenonT(30), SMTT(30)

-----------------------------------------------------------------------------
(***************************************************************************)
(* The inductive invariant.  Particle data: the tags in use and the free   *)
(* ones are different, and together an initial segment, so that a new tag  *)
(* is not in use; the lookup and the arrays are large enough.              *)
(***************************************************************************)
ParticlesOK(p) ==
    /\ DOMAIN p = {"order", "typ", "body", "recycled", "nrtag", "maxn"}
    /\ TagsOK(p.order, p.recycled, MaxTags)
    /\ DOMAIN p.typ = Range(p.order)
    /\ p.nrtag \in Nat /\ \A t \in Range(p.order) : t < p.nrtag
    /\ p.maxn \in Nat /\ Len(p.order) <= p.maxn

IInv ==
    /\ watched \in Watched
    /\ watched = "group" => ParticlesOK(pd) /\ GroupOK(group, pd, retyped)

-----------------------------------------------------------------------------
(* The signals. *)

\* What the slots do.
LEMMA Notifying ==
  ASSUME IsGroup(group), NEW re \in BOOLEAN, NEW num \in BOOLEAN,
         NEW h, h = GroupNotified(re, num)
  PROVE  /\ IsGroup(h) /\ h.sorted /\ h.resized = (group.resized \/ num)
         /\ h.tags = group.tags /\ h.hash = group.hash
         /\ h.nhash = group.nhash /\ h.nflags = group.nflags
PROOF
  <1> DEFINE a == IF re THEN slotReallocate(group) ELSE group
             b == IF num THEN slotGlobalParticleNumChange(a) ELSE a
  <1>1. h = slotParticleSort(b)
    BY DEF GroupNotified
  <1>2. /\ IsGroup(a) /\ a.resized = group.resized /\ a.tags = group.tags
        /\ a.hash = group.hash /\ a.nhash = group.nhash /\ a.nflags = group.nflags
    BY ZenonT(60) DEF IsGroup, slotReallocate
  <1> HIDE DEF a
  <1>3. /\ IsGroup(b) /\ b.resized = (group.resized \/ num) /\ b.tags = group.tags
        /\ b.hash = group.hash /\ b.nhash = group.nhash /\ b.nflags = group.nflags
    BY <1>2, ZenonT(60) DEF IsGroup, slotGlobalParticleNumChange
  <1> HIDE DEF b
  <1>4. QED
    BY <1>1, <1>3 DEF IsGroup, slotParticleSort

-----------------------------------------------------------------------------
(* The actions, while the group is watched. *)

LEMMA MaxTagsIsNat == MaxTags \in Nat
  BY TopologyAssumption

\* The group after a change of the number of particles: everything is to be redone.
LEMMA ToBeUpdated ==
  ASSUME IsGroup(group), NEW re \in BOOLEAN, group' = GroupNotified(re, TRUE)
  PROVE  \A p, stale : GroupOK(group', p, stale)
PROOF
  <1>1. IsGroup(group') /\ group'.resized = (group.resized \/ TRUE)
    BY Notifying, ZenonT(60)
  <1>2. group'.resized
    BY <1>1, ZenonT(60)
  <1>3. QED
    BY <1>1, <1>2, ZenonT(60) DEF GroupOK

LEMMA AddKept ==
  ASSUME IInv, watched = "group", NEW type, addParticle(type)
  PROVE  IInv'
PROOF
  <1> DEFINE tag == IF pd.recycled # <<>> THEN Last(pd.recycled) ELSE Len(pd.order)
             r == IF pd.recycled # <<>> THEN Front(pd.recycled) ELSE <<>>
             o == Append(pd.order, tag)
             m == Grown(pd.maxn, Len(o))
  <1>1. /\ TagsOK(pd.order, pd.recycled, MaxTags) /\ pd.maxn \in Nat
        /\ IsGroup(group) /\ watched \in Watched
    BY DEF IInv, ParticlesOK, GroupOK
  <1>2. /\ tag < MaxTags /\ watched' = watched
        /\ DOMAIN pd' = {"order", "typ", "body", "recycled", "nrtag", "maxn"}
        /\ pd'.order = o /\ pd'.recycled = r /\ DOMAIN pd'.typ = Range(o)
        /\ pd'.nrtag = Max(Range(o)) + 1 /\ pd'.maxn = m
        /\ group' = GroupNotified(m # pd.maxn, TRUE)
    BY DEF addParticle, Notified
  <1>3. /\ tag = IF pd.recycled # <<>> THEN Last(pd.recycled) ELSE Len(pd.order)
        /\ r = IF pd.recycled # <<>> THEN Front(pd.recycled) ELSE <<>>
        /\ o = Append(pd.order, tag) /\ m = Grown(pd.maxn, Len(o))
    OBVIOUS
  <1> HIDE DEF tag, r, o, m
  <1>4. TagsOK(o, r, MaxTags) /\ More(o, pd.order, tag, Below(MaxTags))
    BY <1>1, <1>2, <1>3, TagTaken, MaxTagsIsNat, ZenonT(60)
  <1>5. o \in Seq(Below(MaxTags)) /\ tag \in Range(o)
    BY <1>4, ZenonT(60) DEF More
  <1>6. /\ Len(o) \in Nat /\ Max(Range(o)) + 1 \in Nat
        /\ \A t \in Range(o) : t < Max(Range(o)) + 1
    BY <1>5, LookupSize, MaxTagsIsNat, ZenonT(60)
  <1>7. m \in Nat /\ Len(o) <= m
    BY <1>1, <1>3, <1>6, GrownFits, ZenonT(60)
  <1>8. ParticlesOK(pd)'
    BY <1>2, <1>4, <1>6, <1>7, ZenonT(60) DEF ParticlesOK
  <1>9. GroupOK(group, pd, retyped)'
    BY <1>1, <1>2, ToBeUpdated, ZenonT(60)
  <1>10. QED
    BY <1>1, <1>2, <1>8, <1>9, ZenonT(60) DEF IInv

LEMMA RemoveKept ==
  ASSUME IInv, watched = "group", NEW tag \in Range(pd.order), removeParticle(tag)
  PROVE  IInv'
PROOF
  <1> DEFINE n == Len(pd.order)
             i == CHOOSE k \in 1 .. n : pd.order[k] = tag
             o == Front([pd.order EXCEPT ![i] = pd.order[n]])
             r == Append(pd.recycled, tag)
  <1>1. /\ ParticlesOK(pd) /\ TagsOK(pd.order, pd.recycled, MaxTags)
        /\ IsGroup(group) /\ watched \in Watched
    BY DEF IInv, ParticlesOK, GroupOK
  <1>2. pd.order \in Seq(Below(MaxTags))
    BY <1>1, ZenonT(60) DEF TagsOK, Below
  <1>3. \E k \in 1 .. n : pd.order[k] = tag
    BY <1>2, DomainOfSeq, ZenonT(60) DEF Range
  <1>4. i \in 1 .. n /\ tag = pd.order[i]
    BY <1>3, ZenonT(60)
  <1>5. /\ watched' = watched
        /\ DOMAIN pd' = {"order", "typ", "body", "recycled", "nrtag", "maxn"}
        /\ pd'.order = o /\ pd'.recycled = r /\ DOMAIN pd'.typ = Range(o)
        /\ pd'.nrtag = pd.nrtag /\ pd'.maxn = pd.maxn
        /\ group' = GroupNotified(FALSE, TRUE)
    BY <1>1 DEF removeParticle, Notified, ParticlesOK
  <1>6. o = Filled(pd.order, i) /\ r = Append(pd.recycled, tag)
    BY DEF Filled
  <1> HIDE DEF i, o, r
  <1>7. TagsOK(o, r, MaxTags) /\ Less(o, pd.order, tag, Below(MaxTags))
    BY <1>1, <1>4, <1>6, TagFreed, MaxTagsIsNat, ZenonT(60)
  <1>8. Range(o) \subseteq Range(pd.order) /\ Len(o) = Len(pd.order) - 1
    BY <1>7, ZenonT(60) DEF Less
  <1>9. Len(o) <= pd.maxn
    BY <1>1, <1>2, <1>8, DomainOfSeq, OneLess, ZenonT(60) DEF ParticlesOK
  <1>10. ParticlesOK(pd)'
    BY <1>1, <1>5, <1>7, <1>8, <1>9 DEF ParticlesOK
  <1>11. GroupOK(group, pd, retyped)'
    BY <1>1, <1>5, ToBeUpdated, ZenonT(60)
  <1>12. QED
    BY <1>1, <1>5, <1>10, <1>11, ZenonT(60) DEF IInv

\* An order of the same particles keeps everything but the indices.
LEMMA SortKept ==
  ASSUME IInv, watched = "group", NEW order \in Orders(pd.order), sort(order)
  PROVE  IInv'
PROOF
  <1>1. /\ ParticlesOK(pd) /\ TagsOK(pd.order, pd.recycled, MaxTags)
        /\ GroupOK(group, pd, retyped) /\ IsGroup(group) /\ watched \in Watched
    BY DEF IInv, ParticlesOK, GroupOK
  <1>2. /\ watched' = watched /\ retyped' = retyped
        /\ DOMAIN pd' = {"order", "typ", "body", "recycled", "nrtag", "maxn"}
        /\ pd'.order = order /\ pd'.recycled = pd.recycled /\ pd'.typ = pd.typ
        /\ pd'.nrtag = pd.nrtag /\ pd'.maxn = pd.maxn
        /\ group' = GroupNotified(FALSE, FALSE)
    BY <1>1 DEF sort, Notified, ParticlesOK, ghosts
  <1>3. /\ Len(pd.order) \in 0 .. MaxTags /\ Len(pd.order) \in Nat
        /\ pd.order \in [1 .. Len(pd.order) -> 0 .. (MaxTags - 1)]
    BY <1>1, TagsBounded, MaxTagsIsNat
  <1>4. /\ order \in [1 .. Len(pd.order) -> 0 .. (MaxTags - 1)] /\ Range(order) = Range(pd.order)
        /\ IsInjective(pd.order) => IsInjective(order)
    BY <1>3, TopologyAssumption
  <1>5. order \in Seq(0 .. (MaxTags - 1)) /\ Len(order) = Len(pd.order)
    BY <1>3, <1>4, FunctionIsSeq, ZenonT(60)
  <1>6. TagsOK(order, pd.recycled, MaxTags)
    BY <1>1, <1>4, <1>5, ZenonT(60) DEF TagsOK
  <1>7. ParticlesOK(pd)'
    BY <1>1, <1>2, <1>4, <1>5, <1>6 DEF ParticlesOK
  <1>8. /\ IsGroup(group') /\ group'.sorted /\ group'.resized = (group.resized \/ FALSE)
        /\ group'.tags = group.tags /\ group'.hash = group.hash
        /\ group'.nhash = group.nhash /\ group'.nflags = group.nflags
    BY <1>1, <1>2, Notifying, ZenonT(60)
  <1>9. ~group.resized => MembersOK(group, pd, retyped)'
    BY <1>1, <1>2, <1>4, <1>8, ZenonT(60) DEF GroupOK, MembersOK
  <1>10. GroupOK(group, pd, retyped)'
    BY <1>8, <1>9, ZenonT(60) DEF GroupOK
  <1>11. QED
    BY <1>1, <1>2, <1>7, <1>10, ZenonT(60) DEF IInv

LEMMA SetTypeKept ==
  ASSUME IInv, watched = "group", NEW tag \in Range(pd.order), NEW type, setType(tag, type)
  PROVE  IInv'
PROOF
  <1>1. /\ ParticlesOK(pd) /\ GroupOK(group, pd, retyped) /\ IsGroup(group) /\ watched \in Watched
    BY DEF IInv, GroupOK
  <1>2. /\ watched' = watched /\ retyped' = retyped \union {tag}
        /\ DOMAIN pd' = {"order", "typ", "body", "recycled", "nrtag", "maxn"}
        /\ pd'.order = pd.order /\ pd'.recycled = pd.recycled
        /\ DOMAIN pd'.typ = DOMAIN pd.typ
        /\ pd'.nrtag = pd.nrtag /\ pd'.maxn = pd.maxn
        /\ group' = GroupNotified(FALSE, FALSE)
    BY <1>1 DEF setType, Notified, ParticlesOK
  <1>3. \A t \in Range(pd.order) \ {tag} : pd'.typ[t] = pd.typ[t]
    BY <1>1 DEF setType, ParticlesOK
  <1>4. ParticlesOK(pd)'
    BY <1>1, <1>2 DEF ParticlesOK
  <1>5. /\ IsGroup(group') /\ group'.sorted /\ group'.resized = (group.resized \/ FALSE)
        /\ group'.tags = group.tags /\ group'.hash = group.hash
        /\ group'.nhash = group.nhash /\ group'.nflags = group.nflags
    BY <1>1, <1>2, Notifying, ZenonT(60)
  <1>6. ~group.resized => MembersOK(group, pd, retyped)'
    <2>1. ASSUME ~group.resized PROVE MembersOK(group', pd', retyped')
      <3>1. MembersOK(group, pd, retyped)
        BY <1>1, <2>1 DEF GroupOK
      <3>2. \A t \in Range(pd.order) \ (retyped \union {tag}) : t \in group.tags <=> pd'.typ[t] = "A"
        BY <1>3, <3>1 DEF MembersOK
      <3>3. QED
        BY <1>2, <1>5, <3>1, <3>2, ZenonT(60) DEF MembersOK
    <2>2. QED
      BY <2>1
  <1>7. GroupOK(group, pd, retyped)'
    BY <1>5, <1>6, ZenonT(60) DEF GroupOK
  <1>8. QED
    BY <1>1, <1>2, <1>4, <1>7, ZenonT(60) DEF IInv

LEMMA RestoredOK ==
  ASSUME NEW particles \in Seq([type : STRING, body : Int]), Len(particles) <= MaxTags,
         NEW maxn \in Nat, NEW p, p = Restored(particles, maxn)
  PROVE  ParticlesOK(p)
PROOF
  <1> DEFINE n == Len(particles)
             o == [i \in 1 .. n |-> i - 1]
             m == Grown(maxn, n)
  <1>1. n \in Nat /\ n <= MaxTags
    BY DomainOfSeq, ZenonT(60)
  <1>2. /\ DOMAIN p = {"order", "typ", "body", "recycled", "nrtag", "maxn"}
        /\ p.order = o /\ p.recycled = <<>> /\ DOMAIN p.typ = 0 .. (n - 1)
        /\ p.nrtag = n /\ p.maxn = m
    BY DEF Restored
  <1> HIDE DEF n
  <1>3. m \in Nat /\ n <= m
    BY <1>1, GrownFits, ZenonT(60)
  <1>4. o = [i \in 1 .. n |-> i - 1]
    OBVIOUS
  <1> HIDE DEF m, o
  <1>5. /\ TagsOK(o, <<>>, MaxTags) /\ Len(o) = n /\ Range(o) = 0 .. (n - 1)
        /\ \A t \in 0 .. (n - 1) : t < n
    BY <1>1, <1>4, FirstTags, MaxTagsIsNat, ZenonT(60)
  <1>6. QED
    BY <1>1, <1>2, <1>3, <1>5, ZenonT(60) DEF ParticlesOK

LEMMA RestoreKept ==
  ASSUME IInv, watched = "group", NEW s \in Snapshots(watched), restore(s.particles, s.members)
  PROVE  IInv'
PROOF
  <1> DEFINE p == Restored(s.particles, pd.maxn)
  <1>1. /\ pd.maxn \in Nat /\ IsGroup(group) /\ watched \in Watched
    BY DEF IInv, ParticlesOK, GroupOK
  <1>2. s.particles \in Seq([type : STRING, body : Int]) /\ Len(s.particles) <= MaxTags
    BY <1>1, TopologyAssumption
  <1>3. /\ watched' = watched /\ pd' = p
        /\ group' = GroupNotified(p.maxn # pd.maxn, TRUE)
    BY DEF restore
  <1>4. ParticlesOK(p)
    BY <1>1, <1>2, RestoredOK
  <1> HIDE DEF p
  <1>5. GroupOK(group, pd, retyped)'
    BY <1>1, <1>3, ToBeUpdated, ZenonT(60)
  <1>6. QED
    BY <1>1, <1>3, <1>4, <1>5, ZenonT(60) DEF IInv

LEMMA AccessKept ==
  ASSUME IInv, watched = "group", accessGroup
  PROVE  IInv'
PROOF
  <1>1. ParticlesOK(pd) /\ GroupOK(group, pd, retyped) /\ watched \in Watched
    BY DEF IInv
  <1>2. /\ watched' = watched /\ pd' = pd /\ group' = checkRebuild(group, pd, "A")
        /\ retyped' = IF group.resized THEN {} ELSE retyped
    BY DEF accessGroup
  <1>3. IsGroup(group') /\ MembersOK(group', pd, retyped') /\ IndicesOK(group', pd)
    BY <1>1, <1>2, Accessed
  <1>4. GroupOK(group', pd', retyped')
    BY <1>2, <1>3 DEF GroupOK
  <1>5. QED
    BY <1>1, <1>2, <1>4 DEF IInv

LEMMA FilterKept ==
  ASSUME IInv, watched = "group", updateFilter
  PROVE  IInv'
PROOF
  <1>1. ParticlesOK(pd) /\ IsGroup(group) /\ watched \in Watched
    BY DEF IInv, GroupOK
  <1>2. /\ watched' = watched /\ pd' = pd /\ group' = updateMemberTags(group, pd, "A")
        /\ retyped' = {}
    BY DEF updateFilter
  <1>3. IsGroup(group') /\ MembersOK(group', pd, {}) /\ IndicesOK(group', pd)
    BY <1>1, <1>2, TagsUpdated
  <1>4. GroupOK(group', pd', retyped')
    BY <1>2, <1>3 DEF GroupOK
  <1>5. QED
    BY <1>1, <1>2, <1>4 DEF IInv

\* Whatever leaves the particles and the group alone.
LEMMA OthersKept ==
  ASSUME IInv, UNCHANGED <<watched, pd, group, retyped>>
  PROVE  IInv'
PROOF
  BY DEF IInv

LEMMA NextKept ==
  ASSUME IInv, [Next]_vars
  PROVE  IInv'
PROOF
  <1>1. CASE watched # "group"
    <2>1. watched' = watched
      BY ZenonT(60) DEF Next, vars, ghosts, addParticle, removeParticle, sort, setType, restore, addBond,
             removeBond, accessGroup, updateFilter, readTable, readTableThrows, computeList,
             assignExclusions, nextStep, setBody, create_bodies, attach, detach, validate
    <2>2. QED
      BY <1>1, <2>1 DEF IInv
  <1>2. CASE watched = "group"
    <2>1. ASSUME NEW type \in Type, addParticle(type) PROVE IInv'
      BY <1>2, <2>1, AddKept
    <2>2. ASSUME NEW tag \in Range(pd.order), removeParticle(tag) PROVE IInv'
      BY <1>2, <2>2, RemoveKept
    <2>3. ASSUME NEW order \in Orders(pd.order), sort(order) PROVE IInv'
      BY <1>2, <2>3, SortKept
    <2>4. ASSUME NEW tag \in Range(pd.order), NEW type \in Type, setType(tag, type) PROVE IInv'
      BY <1>2, <2>4, SetTypeKept
    <2>5. ASSUME NEW s \in Snapshots(watched), restore(s.particles, s.members) PROVE IInv'
      BY <1>2, <2>5, RestoreKept
    <2>6. ASSUME NEW a \in Range(pd.order), NEW b \in Range(pd.order), addBond(a, b) PROVE IInv'
      BY <1>2, <2>6 DEF addBond
    <2>7. ASSUME NEW tag \in bonds.active, removeBond(tag) PROVE IInv'
      BY <2>7, OthersKept DEF removeBond, ghosts
    <2>8. CASE accessGroup
      BY <1>2, <2>8, AccessKept
    <2>9. CASE updateFilter
      BY <1>2, <2>9, FilterKept
    <2>10. CASE readTable \/ readTableThrows
      BY <1>2, <2>10 DEF readTable, readTableThrows
    <2>11. ASSUME NEW vote \in BOOLEAN, computeList(vote) PROVE IInv'
      BY <1>2, <2>11 DEF computeList
    <2>12. ASSUME NEW names \in Lists, assignExclusions(names) PROVE IInv'
      BY <1>2, <2>12 DEF assignExclusions
    <2>13. CASE nextStep
      BY <1>2, <2>13 DEF nextStep
    <2>14. ASSUME NEW type, NEW b, setBody(type, b) PROVE IInv'
      BY <1>2, <2>14 DEF setBody
    <2>15. CASE create_bodies \/ attach
      BY <1>2, <2>15 DEF create_bodies, attach
    <2>16. CASE detach \/ validate
      BY <2>16, OthersKept DEF detach, validate, ghosts
    <2>17. CASE UNCHANGED vars
      BY <2>17, OthersKept DEF vars, ghosts
    <2>18. QED
      BY <2>1, <2>2, <2>3, <2>4, <2>5, <2>6, <2>7, <2>8, <2>9, <2>10, <2>11, <2>12, <2>13,
         <2>14, <2>15, <2>16, <2>17 DEF Next
  <1>3. QED
    BY <1>1, <1>2

LEMMA InitInv ==
  ASSUME Init
  PROVE  IInv
PROOF
  <1>1. watched \in Watched /\ group = NewGroup(pd, "A") /\ retyped = {}
    BY DEF Init
  <1>2. PICK s \in Snapshots(watched) : pd = Restored(s.particles, Len(s.particles))
    BY DEF Init
  <1>3. s.particles \in Seq([type : STRING, body : Int]) /\ Len(s.particles) <= MaxTags
    BY <1>1, <1>2, TopologyAssumption
  <1>4. Len(s.particles) \in Nat
    BY <1>3, DomainOfSeq, ZenonT(60)
  <1>5. ParticlesOK(pd)
    BY <1>2, <1>3, <1>4, RestoredOK
  <1> DEFINE g == [tags |-> {}, hash |-> {}, nhash |-> 0, idx |-> <<>>, flags |-> {}, nflags |-> 0,
                   sorted |-> TRUE, reallocated |-> FALSE, resized |-> FALSE]
  <1>6. IsGroup(g)
    BY DEF IsGroup
  <1>7. group = updateMemberTags(g, pd, "A")
    BY <1>1 DEF NewGroup
  <1> HIDE DEF g
  <1>8. IsGroup(group) /\ MembersOK(group, pd, {}) /\ IndicesOK(group, pd)
    BY <1>6, <1>7, TagsUpdated
  <1>9. GroupOK(group, pd, retyped)
    BY <1>1, <1>8 DEF GroupOK
  <1>10. QED
    BY <1>1, <1>5, <1>9 DEF IInv

LEMMA Invariance == Spec => []IInv
PROOF
  <1>1. Init => IInv
    BY InitInv
  <1>2. IInv /\ [Next]_vars => IInv'
    BY NextKept
  <1>3. QED
    BY <1>1, <1>2, PTL DEF Spec

-----------------------------------------------------------------------------
(* The theorems. *)

(***************************************************************************)
(* Whoever asks the group for its members (checkRebuild()) gets the        *)
(* indices of exactly the particles with member tags, in increasing order, *)
(* as many as there are members, and no array is too short: for any number *)
(* of particles that are added, removed, sorted, retyped and restored.     *)
(***************************************************************************)
THEOREM GroupIndices == Spec => []GroupIndexRight
PROOF
  <1>1. IInv => GroupIndexRight
    <2>1. SUFFICES ASSUME IInv, watched = "group" PROVE GroupIndexRight
      BY DEF GroupIndexRight
    <2> DEFINE g == checkRebuild(group, pd, "A")
               N == Len(pd.order)
               M == Marked(pd, g.tags)
    <2>2. ParticlesOK(pd) /\ GroupOK(group, pd, retyped) /\ g = checkRebuild(group, pd, "A")
      BY <2>1 DEF IInv
    <2>3. GroupIndexRight <=>
            /\ Range(g.idx) = M
            /\ \A i, j \in DOMAIN g.idx : i < j => g.idx[i] < g.idx[j]
            /\ g.flags \intersect (1 .. N) = Range(g.idx)
            /\ Len(g.idx) = Cardinality(g.tags)
            /\ N <= g.nflags /\ \A t \in Range(pd.order) : t < g.nhash
      BY <2>1, ZenonT(60) DEF GroupIndexRight, Marked
    <2> HIDE DEF g
    <2>4. PICK stale : MembersOK(g, pd, stale) /\ IndicesOK(g, pd)
      BY <2>2, Accessed
    <2>5. N \in Nat /\ pd.order \in [1 .. N -> Nat] /\ IsInjective(pd.order)
      <3>1. TagsOK(pd.order, pd.recycled, MaxTags)
        BY <2>2, ZenonT(60) DEF ParticlesOK
      <3>2. N \in Nat /\ pd.order \in [1 .. N -> Nat]
        BY <3>1, TagsBounded, MaxTagsIsNat
      <3>3. QED
        BY <3>1, <3>2, ZenonT(60) DEF TagsOK
    <2>6. M \in SUBSET (1 .. N) /\ M = {i \in 1 .. N : pd.order[i] \in g.tags}
      BY DEF Marked
    <2>7. g.idx = InOrder(M) /\ g.flags \intersect (1 .. N) = M
      BY <2>4, ZenonT(60) DEF IndicesOK
    <2>8. g.tags \subseteq Range(pd.order) /\ g.nhash = pd.nrtag /\ g.nflags = pd.maxn
      BY <2>4, ZenonT(60) DEF MembersOK
    <2>9. N <= pd.maxn /\ \A t \in Range(pd.order) : t < pd.nrtag
      BY <2>2, ZenonT(60) DEF ParticlesOK
    <2> HIDE DEF M, N
    <2>10. /\ Range(InOrder(M)) = M /\ Len(InOrder(M)) = Cardinality(M)
           /\ \A i, j \in DOMAIN InOrder(M) : i < j => InOrder(M)[i] < InOrder(M)[j]
      BY <2>5, <2>6, InOrderLists, ZenonT(60)
    <2>11. Cardinality(M) = Cardinality(g.tags)
      BY <2>5, <2>6, <2>8, AsManyIndices, ZenonT(60)
    <2>12. QED
      BY <2>3, <2>7, <2>8, <2>9, <2>10, <2>11, ZenonT(60)
  <1>2. QED
    BY <1>1, Invariance, PTL

(***************************************************************************)
(* The members are the particles of the type the filter selects, whatever  *)
(* tags were freed and used again; only a particle whose type was set      *)
(* since the filter was last evaluated may be an exception.                *)
(***************************************************************************)
THEOREM GroupMembers == Spec => []MembershipCurrent
PROOF
  <1>1. IInv => MembershipCurrent
    <2>1. SUFFICES ASSUME IInv, watched = "group" PROVE MembershipCurrent
      BY DEF MembershipCurrent
    <2> DEFINE g == checkRebuild(group, pd, "A")
               stale == IF group.resized THEN {} ELSE retyped
    <2>2. GroupOK(group, pd, retyped) /\ g = checkRebuild(group, pd, "A")
      BY <2>1 DEF IInv
    <2>3. MembershipCurrent <=>
            \A t \in Range(pd.order) \ stale : t \in g.tags <=> pd.typ[t] = "A"
      BY <2>1, ZenonT(60) DEF MembershipCurrent
    <2> HIDE DEF g
    <2>4. MembersOK(g, pd, stale)
      BY <2>2, Accessed
    <2> HIDE DEF stale
    <2>5. QED
      BY <2>3, <2>4, ZenonT(60) DEF MembersOK
  <1>2. QED
    BY <1>1, Invariance, PTL
=============================================================================
