---------------------------- MODULE ParticleData ----------------------------
(***************************************************************************)
(* hoomd/ParticleData.cc: the particles of all MPI ranks.  Every rank      *)
(* keeps its particles in arrays without gaps, finds them by tag through   *)
(* the reverse lookup m_rtag, appends ghosts behind them, and recycles the *)
(* tags of removed particles.                                              *)
(*                                                                         *)
(* addParticle, removeParticle, setPosition, initializeFromSnapshot and    *)
(* the other calls by tag are collective: all ranks make them together     *)
(* and synchronise inside, so each is one step here.  What every rank      *)
(* computes identically in them (m_nglobal, the set of tags, the recycled  *)
(* tags, the tag cache, the size of m_rtag) is kept once.  Packing and     *)
(* unpacking particles during migration are steps of single ranks.         *)
(*                                                                         *)
(* A position is abstracted to the rank whose domain contains it; angmom   *)
(* stands for the angular momentum and the moments of inertia, pos also    *)
(* for the remaining attributes, which are always copied with it.          *)
(***************************************************************************)
EXTENDS Integers, Sequences, FiniteSets

CONSTANTS
    NRanks,         \* number of ranks; 1 is a simulation without MPI
    MaxTags,        \* bound on the tags in use at one time
    AngMom,         \* values of the rotational attributes
    Origin          \* the rank whose domain contains the point (0, 0, 0)

ASSUME ParticleDataAssumption ==
    NRanks \in Nat \ {0} /\ MaxTags \in Nat /\ Origin \in 0 .. (NRanks - 1) /\ 0 \in AngMom

VARIABLES
    ptl,                    \* ptl[r]: the particle arrays of rank r, indices 0 .. m_nparticles[r]-1
    m_nparticles,           \* particles of each rank
    ghost,                  \* ghost[r]: tags of the ghosts, which sit behind the particles
    m_nghosts,              \* ghosts of each rank
    m_rtag,                 \* m_rtag[r][t]: index of tag t; memory of the whole allocation
    rtag_size,              \* m_rtag.size()
    m_nglobal, m_tag_set, m_recycled_tags,
    m_cached_tag_set, m_invalid_cached_tags,
    transit                 \* particles packed by removeParticles and not yet unpacked

tags  == <<m_nglobal, m_tag_set, m_recycled_tags, rtag_size>>
cache == <<m_cached_tag_set, m_invalid_cached_tags>>
vars  == <<ptl, m_nparticles, ghost, m_nghosts, m_rtag, tags, cache, transit>>

Rank      == 0 .. (NRanks - 1)
Tag       == 0 .. (MaxTags - 1)
NOT_LOCAL == -1             \* 0xffffffff in the code: no index
Particle  == [tag : Tag, pos : Rank, angmom : AngMom]

Index(r) == 0 .. (m_nparticles[r] - 1)

\* The test idx < getN(): ghosts and NOT_LOCAL fail it.
isLocal(r, t) == m_rtag[r][t] \in Index(r)

isOwned(t) == \E r \in Rank : isLocal(r, t)

\* getOwnerRank(): collective; it throws unless exactly one rank has the particle.
getOwnerRank(t) == CHOOSE r \in Rank : isLocal(r, t)
OwnedByOne(t)   == \E r \in Rank : isLocal(r, t) /\ \A s \in Rank \ {r} : ~isLocal(s, t)

\* getPosition(), getAngularMomentum(), ...: the owner broadcasts the attribute.
getParticle(t) == LET r == getOwnerRank(t) IN ptl[r][m_rtag[r][t]]

\* Mutant: the subscriber does not clear the lookup of the ghosts.
RTagWithoutGhosts_NotCleared(r) == m_rtag[r]

\* Communicator::removeGhostParticleTags(), the only subscriber of the removal signal.
RTagWithoutGhosts(r) ==
    [t \in Tag |-> IF \E i \in 0 .. (m_nghosts[r] - 1) : ghost[r][i] = t
                   THEN NOT_LOCAL ELSE m_rtag[r][t]]

removeAllGhostParticles ==
    /\ m_nghosts' = [r \in Rank |-> 0]
    /\ ghost' = [r \in Rank |-> [i \in {} |-> 0]]

\* The array f with element v written behind its last.
Appended(f, n, v) == [i \in 0 .. n |-> IF i = n THEN v ELSE f[i]]

(* The loops of removeParticles and initializeFromSnapshot fill arrays     *)
(* without gaps: the elements of S in increasing order.                    *)
Listed(S) ==
    [i \in 0 .. (Cardinality(S) - 1) |-> CHOOSE k \in S : Cardinality({j \in S : j < k}) = i]

\* The loop that recomputes the reverse lookup of the first n particles of f.
RTagOf(rtag, f, n) ==
    [t \in Tag |-> IF \E i \in 0 .. (n - 1) : f[i].tag = t
                   THEN CHOOSE i \in 0 .. (n - 1) : f[i].tag = t
                   ELSE rtag[t]]

Init ==
    /\ ptl = [r \in Rank |-> [i \in {} |-> 0]]
    /\ m_nparticles = [r \in Rank |-> 0]
    /\ ghost = [r \in Rank |-> [i \in {} |-> 0]]
    /\ m_nghosts = [r \in Rank |-> 0]
    /\ m_rtag = [r \in Rank |-> [t \in Tag |-> NOT_LOCAL]]
    /\ rtag_size = 0
    /\ m_nglobal = 0 /\ m_tag_set = {} /\ m_recycled_tags = <<>>
    /\ m_cached_tag_set = [i \in {} |-> 0] /\ m_invalid_cached_tags = TRUE
    /\ transit = {}

\* The particles of the snapshot that lie in the domain of rank r.
PlacedOn(r, pos) == {t \in DOMAIN pos : pos[t] = r}

(* initializeFromSnapshot(): rank 0 places the particles 0 .. n-1 into     *)
(* domains, keeping their order; entries of m_rtag behind the new size     *)
(* keep what they held.                                                    *)
initializeFromSnapshot ==
    /\ transit = {}
    /\ \E n \in 0 .. MaxTags :
       \E pos \in [0 .. (n - 1) -> Rank], angmom \in [0 .. (n - 1) -> AngMom] :
          /\ m_nparticles' = [r \in Rank |-> Cardinality(PlacedOn(r, pos))]
          /\ ptl' = [r \in Rank |->
                       [i \in 0 .. (m_nparticles'[r] - 1) |->
                          LET t == Listed(PlacedOn(r, pos))[i]
                          IN  [tag |-> t, pos |-> r, angmom |-> angmom[t]]]]
          /\ m_rtag' = [r \in Rank |->
                          RTagOf([t \in Tag |-> IF t < n THEN NOT_LOCAL
                                                ELSE RTagWithoutGhosts(r)[t]],
                                 ptl'[r], m_nparticles'[r])]
          /\ rtag_size' = n
          /\ m_nglobal' = n /\ m_tag_set' = 0 .. (n - 1) /\ m_recycled_tags' = <<>>
    /\ m_invalid_cached_tags' = TRUE
    /\ removeAllGhostParticles
    /\ UNCHANGED <<m_cached_tag_set, transit>>

\* Mutant: the largest tag is taken to be the number of particles minus one.
getMaximumTag_Count(S) == Cardinality(S) - 1

getMaximumTag(S) == CHOOSE t \in S : \A u \in S : u <= t

(* addParticle(): the tag is the one most recently recycled, or else       *)
(* getNGlobal(); the particle goes to the end of rank 0, at the origin.    *)
addParticle ==
    /\ transit = {}
    /\ LET recycled == m_recycled_tags # <<>>
           tag == IF recycled THEN m_recycled_tags[Len(m_recycled_tags)] ELSE m_nglobal
           new == [tag |-> tag, pos |-> Origin, angmom |-> 0]
       IN  /\ tag \in Tag
           /\ m_recycled_tags' = IF recycled
                                 THEN SubSeq(m_recycled_tags, 1, Len(m_recycled_tags) - 1)
                                 ELSE m_recycled_tags
           /\ m_tag_set' = m_tag_set \union {tag}
           /\ rtag_size' = getMaximumTag(m_tag_set') + 1
           /\ m_rtag' = [r \in Rank |-> [RTagWithoutGhosts(r) EXCEPT
                                           ![tag] = IF r = 0 THEN m_nparticles[0] ELSE NOT_LOCAL]]
           /\ ptl' = [ptl EXCEPT ![0] = Appended(@, m_nparticles[0], new)]
    /\ m_nparticles' = [m_nparticles EXCEPT ![0] = @ + 1]
    /\ m_nglobal' = m_nglobal + 1
    /\ m_invalid_cached_tags' = TRUE
    /\ removeAllGhostParticles
    /\ UNCHANGED <<m_cached_tag_set, transit>>

\* Mutant: only the tag of the last particle is moved.
MovedInto_TagOnly(hole, last) == [hole EXCEPT !.tag = last.tag]

(* The element that closes the gap in removeParticle(): the last particle, *)
(* except for angular momentum and moments of inertia, which are not       *)
(* among the arrays copied.                                                *)
MovedInto(hole, last) == [last EXCEPT !.angmom = hole.angmom]

\* Mutant: the last element is dropped instead of moved.
GapClosed_LastDropped(f, n, k) == [i \in 0 .. (n - 2) |-> f[i]]

\* Removing index k by moving the last element into its place.
GapClosed(f, n, k) ==
    [i \in 0 .. (n - 2) |-> IF i = k THEN MovedInto(f[k], f[n - 1]) ELSE f[i]]

removeParticle(t) ==
    /\ transit = {}
    /\ m_nglobal # 0 /\ t < rtag_size
    /\ \E r \in Rank :
          /\ RTagWithoutGhosts(r)[t] \in Index(r)
          /\ LET k    == RTagWithoutGhosts(r)[t]
                 last == m_nparticles[r] - 1
                 gone == [s \in Rank |-> [RTagWithoutGhosts(s) EXCEPT ![t] = NOT_LOCAL]]
             IN  /\ ptl' = [ptl EXCEPT ![r] = GapClosed(@, last + 1, k)]
                 /\ m_nparticles' = [m_nparticles EXCEPT ![r] = last]
                 /\ m_rtag' = IF k = last THEN gone
                              ELSE [gone EXCEPT ![r] = [@ EXCEPT ![ptl[r][last].tag] = k]]
    /\ m_tag_set' = m_tag_set \ {t}
    /\ m_recycled_tags' = Append(m_recycled_tags, t)
    /\ m_nglobal' = m_nglobal - 1
    /\ m_invalid_cached_tags' = TRUE
    /\ removeAllGhostParticles
    /\ UNCHANGED <<rtag_size, m_cached_tag_set, transit>>

\* A tag that does not exist or was removed: the ghosts are gone, then the call throws.
removeParticleThrows(t) ==
    /\ transit = {}
    /\ m_nglobal # 0
    /\ t >= rtag_size \/ \A r \in Rank : RTagWithoutGhosts(r)[t] \notin Index(r)
    /\ m_rtag' = [r \in Rank |-> RTagWithoutGhosts(r)]
    /\ removeAllGhostParticles
    /\ UNCHANGED <<ptl, m_nparticles, tags, cache, transit>>

\* The arrays and the reverse lookup of rank r after removeParticles() of the flagged indices.
Kept(r, flagged) == Index(r) \ flagged

Compacted(r, flagged) ==
    [i \in 0 .. (Cardinality(Kept(r, flagged)) - 1) |-> ptl[r][Listed(Kept(r, flagged))[i]]]

RTagCompacted(r, flagged, rtag) ==
    RTagOf([t \in Tag |-> IF \E i \in flagged : ptl[r][i].tag = t THEN NOT_LOCAL ELSE rtag[t]],
           Compacted(r, flagged), Cardinality(Kept(r, flagged)))

(* Migration packs the particles that left the domain.  It runs after the  *)
(* ghosts were removed (the documented precondition).                      *)
removeParticles(r) ==
    /\ m_nghosts[r] = 0
    /\ \E flagged \in SUBSET Index(r) :
          /\ flagged # {}
          /\ ptl' = [ptl EXCEPT ![r] = Compacted(r, flagged)]
          /\ m_nparticles' = [m_nparticles EXCEPT ![r] = Cardinality(Kept(r, flagged))]
          /\ m_rtag' = [m_rtag EXCEPT ![r] = RTagCompacted(r, flagged, @)]
          /\ transit' = transit \union {ptl[r][i] : i \in flagged}
    /\ UNCHANGED <<ghost, m_nghosts, tags, cache>>

(* addParticles(): the received particles are appended.  A buffer of       *)
(* several particles is several such steps.                                *)
addParticles(r) ==
    /\ m_nghosts[r] = 0
    /\ \E p \in transit :
          /\ ptl' = [ptl EXCEPT ![r] = Appended(@, m_nparticles[r], p)]
          /\ m_nparticles' = [m_nparticles EXCEPT ![r] = @ + 1]
          /\ m_rtag' = [m_rtag EXCEPT ![r] = RTagOf(@, ptl'[r], m_nparticles'[r])]
          /\ transit' = transit \ {p}
    /\ UNCHANGED <<ghost, m_nghosts, tags, cache>>

(* setPosition(): the owner stores the position; if another rank's domain  *)
(* contains it and the caller allows it, the ghosts are removed and the    *)
(* particle moves there.                                                   *)
setPosition(t, d, move) ==
    /\ transit = {}
    /\ t < rtag_size /\ OwnedByOne(t)
    /\ LET r == getOwnerRank(t)
           k == m_rtag[r][t]
           p == [ptl[r][k] EXCEPT !.pos = d]
       IN  IF d = r \/ ~move
           THEN /\ ptl' = [ptl EXCEPT ![r] = [@ EXCEPT ![k] = p]]
                /\ UNCHANGED <<m_nparticles, m_rtag, ghost, m_nghosts>>
           ELSE /\ ptl' = [ptl EXCEPT ![r] = Compacted(r, {k}),
                                      ![d] = Appended(@, m_nparticles[d], p)]
                /\ m_nparticles' = [m_nparticles EXCEPT ![r] = Cardinality(Kept(r, {k})), ![d] = @ + 1]
                /\ m_rtag' = [s \in Rank |->
                     CASE s = r -> RTagCompacted(r, {k}, RTagWithoutGhosts(r))
                       [] s = d -> RTagOf(RTagWithoutGhosts(d), ptl'[d], m_nparticles'[d])
                       [] OTHER -> RTagWithoutGhosts(s)]
                /\ removeAllGhostParticles
    /\ UNCHANGED <<tags, cache, transit>>

\* setAngularMomentum(), setMomentsOfInertia().
setAngularMomentum(t, v) ==
    /\ transit = {}
    /\ t < rtag_size /\ OwnedByOne(t)
    /\ LET r == getOwnerRank(t) IN ptl' = [ptl EXCEPT ![r] = [@ EXCEPT ![m_rtag[r][t]].angmom = v]]
    /\ UNCHANGED <<m_nparticles, ghost, m_nghosts, m_rtag, tags, cache, transit>>

(* addGhostParticles() followed by the Communicator writing the tag and    *)
(* the reverse lookup of one received ghost.  The ghost is a particle of   *)
(* another rank, and not yet present (asserted by the Communicator).       *)
addGhostParticles(r, t) ==
    /\ transit = {}
    /\ t \in m_tag_set /\ isOwned(t) /\ getOwnerRank(t) # r
    /\ m_rtag[r][t] = NOT_LOCAL
    /\ ghost' = [ghost EXCEPT ![r] = Appended(@, m_nghosts[r], t)]
    /\ m_nghosts' = [m_nghosts EXCEPT ![r] = @ + 1]
    /\ m_rtag' = [m_rtag EXCEPT ![r] = [@ EXCEPT ![t] = m_nparticles[r] + m_nghosts[r]]]
    /\ UNCHANGED <<ptl, m_nparticles, tags, cache, transit>>

\* Mutant: the cache is rebuilt only if the number of particles changed.
getNthTag_RebuiltIfResized ==
    /\ transit = {}
    /\ m_nglobal # 0
    /\ m_cached_tag_set' = IF DOMAIN m_cached_tag_set # 0 .. (m_nglobal - 1)
                           THEN Listed(m_tag_set) ELSE m_cached_tag_set
    /\ m_invalid_cached_tags' = FALSE
    /\ UNCHANGED <<ptl, m_nparticles, ghost, m_nghosts, m_rtag, tags, transit>>

\* maybe_rebuild_tag_cache(), called by getNthTag(): std::set iterates in increasing order.
getNthTag ==
    /\ transit = {}
    /\ m_nglobal # 0
    /\ m_cached_tag_set' = IF m_invalid_cached_tags THEN Listed(m_tag_set) ELSE m_cached_tag_set
    /\ m_invalid_cached_tags' = FALSE
    /\ UNCHANGED <<ptl, m_nparticles, ghost, m_nghosts, m_rtag, tags, transit>>

\* Mutant: the iterator over the active tags is not advanced.
SnapshotTag_NotAdvanced(i) == Listed(m_tag_set)[0]

\* takeSnapshot() enumerates the active tags in increasing order.
SnapshotTag(i) == Listed(m_tag_set)[i]

(* takeSnapshot(): element i of the snapshot.  With MPI, the root gathers  *)
(* the arrays of all ranks and finds the particle through their tags, the  *)
(* first rank that has it winning; without, through m_rtag.                *)
SnapshotElement(i) ==
    LET t == SnapshotTag(i)
        has(r) == \E k \in Index(r) : ptl[r][k].tag = t
        r == CHOOSE r \in Rank : has(r) /\ \A s \in 0 .. (r - 1) : ~has(s)
    IN  IF NRanks = 1 THEN ptl[0][m_rtag[0][t]]
        ELSE ptl[r][CHOOSE k \in Index(r) : ptl[r][k].tag = t]

Next ==
    \/ initializeFromSnapshot \/ addParticle \/ getNthTag
    \/ \E t \in Tag : removeParticle(t) \/ removeParticleThrows(t)
    \/ \E t \in Tag, d \in Rank, move \in BOOLEAN : setPosition(t, d, move)
    \/ \E t \in Tag, v \in AngMom : setAngularMomentum(t, v)
    \/ \E r \in Rank : removeParticles(r) \/ addParticles(r)
    \/ \E r \in Rank, t \in Tag : addGhostParticles(r, t)

Spec == Init /\ [][Next]_vars

-----------------------------------------------------------------------------
(* The types of the variables: the particle and ghost arrays have exactly  *)
(* the lengths the counters say.                                           *)
TypeOK ==
    /\ m_nparticles \in [Rank -> Nat] /\ m_nghosts \in [Rank -> Nat]
    /\ DOMAIN ptl = Rank /\ DOMAIN ghost = Rank
    /\ \A r \in Rank : ptl[r] \in [Index(r) -> Particle]
    /\ \A r \in Rank : ghost[r] \in [0 .. (m_nghosts[r] - 1) -> Tag]
    /\ m_rtag \in [Rank -> [Tag -> Nat \union {NOT_LOCAL}]]
    /\ rtag_size \in 0 .. MaxTags /\ m_nglobal \in 0 .. MaxTags
    /\ m_tag_set \subseteq Tag /\ m_recycled_tags \in Seq(Tag)
    /\ m_invalid_cached_tags \in BOOLEAN
    /\ transit \subseteq Particle

\* The particles wherever they are: in the arrays of a rank or in a migration buffer.
AllParticles ==
    (UNION {{ptl[r][i] : i \in Index(r)} : r \in Rank}) \union transit

(* Every active tag names exactly one particle, on one rank or in one      *)
(* migration buffer, and no removed particle is left anywhere, whatever    *)
(* the order of insertions, removals, moves and migration steps.           *)
EveryParticleOnce ==
    /\ \A r \in Rank : \A i \in Index(r) : ptl[r][i].tag \in m_tag_set
    /\ \A p \in transit : p.tag \in m_tag_set
    /\ \A t \in m_tag_set : \/ \E r \in Rank : \E i \in Index(r) : ptl[r][i].tag = t
                            \/ \E p \in transit : p.tag = t
    /\ \A r, s \in Rank : \A i \in Index(r), j \in Index(s) :
          ptl[r][i].tag = ptl[s][j].tag => r = s /\ i = j
    /\ \A r \in Rank : \A i \in Index(r) : \A p \in transit : p.tag # ptl[r][i].tag
    /\ \A p, q \in transit : p.tag = q.tag => p = q

(* The reverse lookup leads to the particle or ghost with that tag, and to *)
(* nothing for any other tag, including a recycled one that is cut off by  *)
(* the end of m_rtag: no entry goes stale through array compaction, the    *)
(* shrinking and growing of m_rtag and the reuse of tags.                  *)
RTagsConsistent ==
    \A r \in Rank :
      /\ \A i \in Index(r) : m_rtag[r][ptl[r][i].tag] = i
      /\ \A i \in 0 .. (m_nghosts[r] - 1) : m_rtag[r][ghost[r][i]] = m_nparticles[r] + i
      /\ \A t \in 0 .. (rtag_size - 1) : m_rtag[r][t] # NOT_LOCAL =>
            \/ /\ m_rtag[r][t] < m_nparticles[r]
               /\ ptl[r][m_rtag[r][t]].tag = t
            \/ /\ m_rtag[r][t] - m_nparticles[r] \in 0 .. (m_nghosts[r] - 1)
               /\ ghost[r][m_rtag[r][t] - m_nparticles[r]] = t
      /\ \A i \in 1 .. Len(m_recycled_tags) : m_rtag[r][m_recycled_tags[i]] = NOT_LOCAL

(* Active and recycled tags together are 0 .. n-1 without duplicates, so   *)
(* addParticle() never hands out a tag in use; m_rtag has room for every   *)
(* active tag, and for exactly the active tags when none is recycled (the  *)
(* assertion in addParticle()).                                            *)
TagSpace ==
    /\ m_tag_set \union {m_recycled_tags[i] : i \in 1 .. Len(m_recycled_tags)}
          = 0 .. ((m_nglobal + Len(m_recycled_tags)) - 1)
    /\ \A i \in 1 .. Len(m_recycled_tags) :
          /\ m_recycled_tags[i] \notin m_tag_set
          /\ \A j \in 1 .. Len(m_recycled_tags) : m_recycled_tags[i] = m_recycled_tags[j] => i = j
    /\ \A t \in m_tag_set : t < rtag_size
    /\ m_recycled_tags = <<>> => rtag_size = m_nglobal

(* A valid tag cache enumerates the active tags in increasing order, one   *)
(* for each of the getNGlobal() arguments that getNthTag() accepts.        *)
CacheFresh ==
    ~m_invalid_cached_tags =>
      /\ DOMAIN m_cached_tag_set = 0 .. (m_nglobal - 1)
      /\ {m_cached_tag_set[i] : i \in 0 .. (m_nglobal - 1)} = m_tag_set
      /\ \A i, j \in 0 .. (m_nglobal - 1) : i < j => m_cached_tag_set[i] < m_cached_tag_set[j]

(* Between migrations, the calls by tag succeed for exactly the active     *)
(* tags: getOwnerRank() finds one owner, and a removed tag, whose entry of *)
(* m_rtag may have been cut off and come back, finds none.                 *)
LookupExact ==
    transit = {} => \A t \in 0 .. (rtag_size - 1) :
        /\ isOwned(t) <=> t \in m_tag_set
        /\ isOwned(t) => OwnedByOne(t) /\ getParticle(t).tag = t

(* A snapshot has one element for each active tag, in the order of the     *)
(* tags, and agrees with what the calls by tag return: reading through the *)
(* gathered tags and reading through the reverse lookup are the same.      *)
SnapshotAgrees ==
    transit = {} => \A i \in 0 .. (m_nglobal - 1) :
        /\ SnapshotElement(i) = getParticle(Listed(m_tag_set)[i])
        /\ SnapshotElement(i).tag = Listed(m_tag_set)[i]

(* Users see a table from tags to positions (and the attributes copied     *)
(* with them): insertion, removal, migration and ghosts change no other    *)
(* particle's entry.                                                       *)
ParticleOf(t) == CHOOSE p \in AllParticles : p.tag = t

PosTable == INSTANCE ParticleTable WITH
    Value <- Rank, Default <- Origin, table <- [t \in m_tag_set |-> ParticleOf(t).pos]

Positions == PosTable!Spec

(* The same of angular momenta and moments of inertia: removing a particle *)
(* must not change those of another.                                       *)
AngMomTable == INSTANCE ParticleTable WITH
    Value <- AngMom, Default <- 0, table <- [t \in m_tag_set |-> ParticleOf(t).angmom]

AngularMomenta == AngMomTable!Spec
=============================================================================
