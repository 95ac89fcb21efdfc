------------------------- MODULE ParticleDataLemmas -------------------------
(***************************************************************************)
(* The inductive invariant of ParticleData.tla, lemmas about the array     *)
(* operations that the proofs of its actions share, and the steps that     *)
(* change no particle number: those of single ranks, ghosts and migration. *)
(***************************************************************************)
EXTENDS ParticleData, FiniteSetTheorems, TLAPS

\* The provers a step is given to unless it names one, with their time in seconds.
USE ZenonT(30), SMTT(30)

(* The loops that fill arrays without gaps: every element of a bounded set *)
(* of indices is listed once, in increasing order.                         *)
LEMMA ListedInOrder ==
  ASSUME NEW n \in Nat, NEW S \in SUBSET (0 .. n)
  PROVE  /\ IsFiniteSet(S) /\ Cardinality(S) \in Nat
         /\ Listed(S) \in [0 .. (Cardinality(S) - 1) -> S]
         /\ \A k \in S : \E i \in 0 .. (Cardinality(S) - 1) : Listed(S)[i] = k
         /\ \A i, j \in 0 .. (Cardinality(S) - 1) : i < j => Listed(S)[i] < Listed(S)[j]
  <1> DEFINE below(k) == {j \in S : j < k}
             f == [k \in S |-> Cardinality(below(k))]
             c == Cardinality(S)
  <1>1. IsFiniteSet(S) /\ c \in Nat
    <2>1. IsFiniteSet(0 .. n)
      BY FS_Interval, SMTT(30)
    <2>2. IsFiniteSet(S)
      BY <2>1, FS_Subset, Zenon
    <2> QED BY <2>2, FS_CardinalityType, Zenon
  <1>2. ASSUME NEW k \in S PROVE IsFiniteSet(below(k)) /\ f[k] \in 0 .. (c - 1)
    <2>1. below(k) \in SUBSET S /\ below(k) # S
      OBVIOUS
    <2>2. IsFiniteSet(below(k)) /\ Cardinality(below(k)) \in Nat
      BY <1>1, <2>1, FS_Subset, FS_CardinalityType, Zenon
    <2>3. Cardinality(below(k)) <= c /\ c # Cardinality(below(k))
      BY <1>1, <2>1, FS_Subset, Zenon
    <2> QED BY <1>1, <2>2, <2>3
  <1>3. ASSUME NEW k \in S, NEW l \in S, k < l PROVE f[k] < f[l]
    <2>0. k \in Int /\ l \in Int /\ k < l /\ \A j \in S : j \in Int
      BY <1>3
    <2>a. k \in below(l) /\ k \notin below(k)
      BY <2>0
    <2>b. \A j \in below(k) : j \in below(l)
      BY <2>0
    <2>1. below(k) \in SUBSET below(l) /\ below(k) # below(l)
      BY <2>a, <2>b, Zenon
    <2>2. Cardinality(below(k)) <= Cardinality(below(l))
          /\ Cardinality(below(l)) # Cardinality(below(k))
      BY <1>2, <2>1, FS_Subset, Zenon
    <2>3. Cardinality(below(k)) \in Nat /\ Cardinality(below(l)) \in Nat
      BY <1>2, FS_CardinalityType, Zenon
    <2> QED BY <2>2, <2>3
  <1>4. f \in Injection(S, 0 .. (c - 1))
    <2>1. f \in [S -> 0 .. (c - 1)]
      BY <1>2, Zenon
    <2>2. \A k, l \in S : f[k] = f[l] => k = l
      <3> SUFFICES ASSUME NEW k \in S, NEW l \in S, f[k] = f[l], k # l PROVE FALSE
        BY Zenon
      <3>1. f[k] \in Int /\ f[l] \in Int /\ k \in Int /\ l \in Int
        BY <1>2
      <3>2. k < l \/ l < k
        BY <3>1
      <3> QED BY <1>3, <3>1, <3>2
    <2> QED BY <2>1, <2>2, Zenon DEF Injection, IsInjective
  <1>5. \A i \in 0 .. (c - 1) : \E k \in S : f[k] = i
    <2> HIDE DEF c
    <2>0. c - 1 \in Int /\ 0 \in Int
      BY <1>1
    <2>1. IsFiniteSet(0 .. (c - 1)) /\ Cardinality(0 .. (c - 1)) = c
      BY <1>1, <2>0, FS_Interval, SMTT(30)
    <2>2. f \in Surjection(S, 0 .. (c - 1))
      BY <1>4, <2>1, FS_Injection, Zenon DEF c
    <2> QED BY <2>2, Zenon DEF Surjection
  <1>6. \A i \in 0 .. (c - 1) : Listed(S)[i] \in S /\ f[Listed(S)[i]] = i
    <2> SUFFICES ASSUME NEW i \in 0 .. (c - 1) PROVE Listed(S)[i] \in S /\ f[Listed(S)[i]] = i
      BY Zenon
    <2>1. \E k \in S : Cardinality(below(k)) = i
      BY <1>5, Zenon
    <2>2. Listed(S)[i] = CHOOSE k \in S : Cardinality(below(k)) = i
      BY Zenon DEF Listed
    <2> QED BY <2>1, <2>2, Zenon
  <1>7. Listed(S) \in [0 .. (c - 1) -> S]
    <2>1. DOMAIN Listed(S) = 0 .. (c - 1) /\ Listed(S) = [i \in 0 .. (c - 1) |-> Listed(S)[i]]
      BY DEF Listed
    <2> QED BY <1>6, <2>1, Zenon
  <1>8. \A k \in S : \E i \in 0 .. (c - 1) : Listed(S)[i] = k
    <2> SUFFICES ASSUME NEW k \in S PROVE Listed(S)[f[k]] = k
      BY <1>2, Zenon
    <2>1. f[k] \in 0 .. (c - 1)
      BY <1>2, Zenon
    <2>2. Listed(S)[f[k]] \in S /\ f[Listed(S)[f[k]]] = f[k]
      BY <1>6, <2>1, Zenon
    <2> QED BY <1>4, <2>2, Zenon DEF Injection, IsInjective
  <1>9. \A i, j \in 0 .. (c - 1) : i < j => Listed(S)[i] < Listed(S)[j]
    <2> SUFFICES ASSUME NEW i \in 0 .. (c - 1), NEW j \in 0 .. (c - 1), i < j
                 PROVE  Listed(S)[i] < Listed(S)[j]
      BY Zenon
    <2> DEFINE k == Listed(S)[i]  l == Listed(S)[j]
    <2>1. k \in S /\ l \in S /\ f[k] = i /\ f[l] = j
      BY <1>6, Zenon
    <2> HIDE DEF k, l, f
    <2>2. k \in Int /\ l \in Int /\ k # l /\ ~(l < k)
      BY <1>3, <2>1
    <2>3. k < l
      BY <2>2
    <2> QED BY <2>3, Zenon DEF k, l
  <1> QED BY <1>1, <1>7, <1>8, <1>9, Zenon

RTagArray == [Tag -> Nat \union {NOT_LOCAL}]
Particles(n) == [0 .. (n - 1) -> Particle]

(* Recomputing the reverse lookup of an array with distinct tags makes it  *)
(* exact for these tags and leaves the other entries alone.                *)
LEMMA RTagOfArray ==
  ASSUME NEW n \in Nat, NEW f \in Particles(n), NEW rtag \in RTagArray,
         \A i, j \in 0 .. (n - 1) : f[i].tag = f[j].tag => i = j
  PROVE  /\ RTagOf(rtag, f, n) \in RTagArray
         /\ \A i \in 0 .. (n - 1) : RTagOf(rtag, f, n)[f[i].tag] = i
         /\ \A t \in Tag : (\A i \in 0 .. (n - 1) : f[i].tag # t) => RTagOf(rtag, f, n)[t] = rtag[t]
  <1> DEFINE R == RTagOf(rtag, f, n)
  <1>1. \A i \in 0 .. (n - 1) : f[i].tag \in Tag
    BY Zenon DEF Particles, Particle
  <1>2. \A i \in 0 .. (n - 1) : R[f[i].tag] = i
    <2> SUFFICES ASSUME NEW i \in 0 .. (n - 1) PROVE R[f[i].tag] = i
      BY Zenon
    <2>1. R[f[i].tag] = CHOOSE j \in 0 .. (n - 1) : f[j].tag = f[i].tag
      BY <1>1, Zenon DEF RTagOf
    <2> QED BY <2>1, Zenon
  <1>3. \A t \in Tag : (\A i \in 0 .. (n - 1) : f[i].tag # t) => R[t] = rtag[t]
    BY Zenon DEF RTagOf
  <1>4. R \in RTagArray
    <2>1. \A t \in Tag : R[t] \in Nat \union {NOT_LOCAL}
      <3> SUFFICES ASSUME NEW t \in Tag PROVE R[t] \in Nat \union {NOT_LOCAL}
        BY Zenon
      <3>1. CASE \E i \in 0 .. (n - 1) : f[i].tag = t
        BY <1>2, <3>1, SMTT(30)
      <3>2. CASE \A i \in 0 .. (n - 1) : f[i].tag # t
        BY <1>3, <3>2, Zenon DEF RTagArray
      <3> QED BY <3>1, <3>2, Zenon
    <2>2. R = [t \in Tag |-> R[t]]
      BY Zenon DEF RTagOf
    <2> QED BY <2>1, <2>2, Zenon DEF RTagArray
  <1> QED BY <1>2, <1>3, <1>4, Zenon

(* The invariant: the five properties that TLC checks are inductive        *)
(* together.                                                               *)
IInv == TypeOK /\ EveryParticleOnce /\ RTagsConsistent /\ TagSpace /\ CacheFresh

(* What removing the ghosts leaves in the reverse lookup: the entries of   *)
(* the rank's own particles, and nothing for other tags.                   *)
LEMMA WithoutGhosts ==
  ASSUME IInv, NEW r \in Rank
  PROVE  /\ RTagWithoutGhosts(r) \in RTagArray
         /\ \A i \in Index(r) : RTagWithoutGhosts(r)[ptl[r][i].tag] = i
         /\ \A t \in 0 .. (rtag_size - 1) : RTagWithoutGhosts(r)[t] # NOT_LOCAL =>
               RTagWithoutGhosts(r)[t] \in Index(r) /\ ptl[r][RTagWithoutGhosts(r)[t]].tag = t
         /\ \A i \in 1 .. Len(m_recycled_tags) :
               RTagWithoutGhosts(r)[m_recycled_tags[i]] = NOT_LOCAL
  <1> USE DEF IInv, Index
  <1>1. /\ m_nparticles[r] \in Nat /\ m_nghosts[r] \in Nat
        /\ ptl[r] \in [Index(r) -> Particle] /\ ghost[r] \in [0 .. (m_nghosts[r] - 1) -> Tag]
        /\ m_rtag[r] \in RTagArray /\ rtag_size \in 0 .. MaxTags /\ MaxTags \in Nat
        /\ m_recycled_tags \in Seq(Tag)
    BY ParticleDataAssumption, Zenon DEF TypeOK, RTagArray
  <1>2. RTagWithoutGhosts(r) \in RTagArray
    BY <1>1, Zenon DEF RTagWithoutGhosts, RTagArray
  <1>3. ASSUME NEW i \in Index(r) PROVE RTagWithoutGhosts(r)[ptl[r][i].tag] = i
    <2>1. m_rtag[r][ptl[r][i].tag] = i /\ ptl[r][i].tag \in Tag
      BY <1>1, Zenon DEF RTagsConsistent, Particle
    <2>2. ASSUME NEW j \in 0 .. (m_nghosts[r] - 1) PROVE ghost[r][j] # ptl[r][i].tag
      <3>1. m_rtag[r][ghost[r][j]] = m_nparticles[r] + j
        BY Zenon DEF RTagsConsistent
      <3>2. m_nparticles[r] + j # i
        BY <1>1
      <3> QED BY <2>1, <3>1, <3>2, Zenon
    <2> QED BY <2>1, <2>2, Zenon DEF RTagWithoutGhosts
  <1>4. ASSUME NEW t \in 0 .. (rtag_size - 1), RTagWithoutGhosts(r)[t] # NOT_LOCAL
        PROVE  RTagWithoutGhosts(r)[t] \in Index(r) /\ ptl[r][RTagWithoutGhosts(r)[t]].tag = t
    <2>1. t \in Tag
      BY <1>1, SMTT(30) DEF Tag
    <2>2. /\ RTagWithoutGhosts(r)[t] = m_rtag[r][t] /\ m_rtag[r][t] # NOT_LOCAL
          /\ \A i \in 0 .. (m_nghosts[r] - 1) : ghost[r][i] # t
      BY <1>4, <2>1, ZenonT(60) DEF RTagWithoutGhosts
    <2>3. m_rtag[r][t] < m_nparticles[r] /\ ptl[r][m_rtag[r][t]].tag = t
      BY <2>2, SMTT(30) DEF RTagsConsistent
    <2>4. m_rtag[r][t] \in Nat
      BY <1>1, <2>1, <2>2, Zenon DEF RTagArray
    <2> QED BY <1>1, <2>2, <2>3, <2>4, SMTT(30)
  <1>5. ASSUME NEW i \in 1 .. Len(m_recycled_tags)
        PROVE  RTagWithoutGhosts(r)[m_recycled_tags[i]] = NOT_LOCAL
    <2>1. m_recycled_tags[i] \in Tag
      BY <1>1, SMTT(30)
    <2>2. m_rtag[r][m_recycled_tags[i]] = NOT_LOCAL
      BY Zenon DEF RTagsConsistent
    <2> QED BY <2>1, <2>2, Zenon DEF RTagWithoutGhosts
  <1> QED BY <1>2, <1>3, <1>4, <1>5, Zenon

\* The lookups are as long as the tags in use need.
LEMMA TagsOfLookup ==
  ASSUME rtag_size \in 0 .. MaxTags
  PROVE  \A u \in 0 .. (rtag_size - 1) : u \in Tag
  BY ParticleDataAssumption, SMTT(30) DEF Tag

\* A tag is at one place of one rank, or in the buffer of a migration.
LEMMA TagIsUnique ==
  ASSUME IInv, NEW s \in Rank, NEW q \in Rank, NEW i \in Index(s), NEW j \in Index(q),
         ptl[s][i].tag = ptl[q][j].tag
  PROVE  s = q /\ i = j
  <1>1. \A a, b \in Rank : \A k \in Index(a), l \in Index(b) :
           ptl[a][k].tag = ptl[b][l].tag => a = b /\ k = l
    BY Zenon DEF IInv, EveryParticleOnce
  <1> QED BY <1>1, SMTT(30)

LEMMA TransitTagIsUnique ==
  ASSUME IInv, NEW s \in Rank, NEW i \in Index(s), NEW p \in transit
  PROVE  p.tag # ptl[s][i].tag
  BY ZenonT(60) DEF IInv, EveryParticleOnce

(* Compaction keeps exactly the particles that are not flagged, and the    *)
(* recomputed reverse lookup finds them and none of the flagged ones.      *)
Compacts(r, flagged, rtag) ==
    LET m == Cardinality(Kept(r, flagged))
        c == Compacted(r, flagged)
        R == RTagCompacted(r, flagged, rtag)
    IN  /\ m \in Nat /\ c \in Particles(m) /\ R \in RTagArray
        /\ \A i \in 0 .. (m - 1) : \E k \in Kept(r, flagged) : c[i] = ptl[r][k]
        /\ \A k \in Kept(r, flagged) : \E i \in 0 .. (m - 1) : c[i] = ptl[r][k]
        /\ \A i \in 0 .. (m - 1) : R[c[i].tag] = i
        /\ \A k \in flagged : R[ptl[r][k].tag] = NOT_LOCAL
        /\ \A t \in Tag : (\A k \in Index(r) : ptl[r][k].tag # t) => R[t] = rtag[t]

LEMMA CompactionKeeps ==
  ASSUME IInv, NEW r \in Rank, NEW flagged \in SUBSET Index(r), NEW rtag \in RTagArray
  PROVE  Compacts(r, flagged, rtag)
  <1> DEFINE K == Kept(r, flagged)
             m == Cardinality(K)
             c == Compacted(r, flagged)
             base == [t \in Tag |-> IF \E i \in flagged : ptl[r][i].tag = t THEN NOT_LOCAL ELSE rtag[t]]
             R == RTagCompacted(r, flagged, rtag)
  <1>1. m_nparticles[r] \in Nat /\ ptl[r] \in [Index(r) -> Particle]
    BY Zenon DEF IInv, TypeOK
  <1>2. K \in SUBSET (0 .. m_nparticles[r]) /\ K \subseteq Index(r)
    BY <1>1, SMTT(30) DEF Kept, Index
  <1>3. /\ m \in Nat
        /\ Listed(K) \in [0 .. (m - 1) -> K]
        /\ \A k \in K : \E i \in 0 .. (m - 1) : Listed(K)[i] = k
        /\ \A i, j \in 0 .. (m - 1) : i < j => Listed(K)[i] < Listed(K)[j]
    BY <1>1, <1>2, ListedInOrder, ZenonT(60)
  <1>4. c = [i \in 0 .. (m - 1) |-> ptl[r][Listed(K)[i]]]
    BY Zenon DEF Compacted
  <1> HIDE DEF K, m, c
  <1>5. c \in Particles(m)
    BY <1>1, <1>2, <1>3, <1>4, Zenon DEF Particles
  <1>6. \A i \in 0 .. (m - 1) : c[i] = ptl[r][Listed(K)[i]] /\ Listed(K)[i] \in K
    BY <1>3, <1>4, Zenon
  <1>7. \A k, l \in Index(r) : ptl[r][k].tag = ptl[r][l].tag => k = l
    BY TagIsUnique, Zenon
  <1>8. \A i, j \in 0 .. (m - 1) : c[i].tag = c[j].tag => i = j
    <2> SUFFICES ASSUME NEW i \in 0 .. (m - 1), NEW j \in 0 .. (m - 1), c[i].tag = c[j].tag
                 PROVE  i = j
      BY Zenon
    <2> DEFINE k == Listed(K)[i]  l == Listed(K)[j]
    <2>0. k \in Index(r) /\ l \in Index(r) /\ c[i] = ptl[r][k] /\ c[j] = ptl[r][l]
      BY <1>2, <1>6, ZenonT(60)
    <2>a. (i < j => k < l) /\ (j < i => l < k)
      BY <1>3, Zenon
    <2> HIDE DEF k, l
    <2>1. k = l
      BY <1>7, <2>0, Zenon
    <2>2. k \in Int
      BY <2>0 DEF Index
    <2>3. ~(i < j) /\ ~(j < i)
      BY <2>a, <2>1, <2>2
    <2> QED BY <1>3, <2>3, SMTT(30)
  <1>9. base \in RTagArray
    BY Zenon DEF RTagArray
  <1>10. R = RTagOf(base, c, m)
    BY Zenon DEF RTagCompacted, K, m, c
  <1> HIDE DEF base, R
  <1>11. /\ R \in RTagArray
         /\ \A i \in 0 .. (m - 1) : R[c[i].tag] = i
         /\ \A t \in Tag : (\A i \in 0 .. (m - 1) : c[i].tag # t) => R[t] = base[t]
    <2>1. m \in Nat /\ c \in Particles(m) /\ base \in RTagArray
      BY <1>3, <1>5, <1>9, Zenon
    <2>2. /\ RTagOf(base, c, m) \in RTagArray
          /\ \A i \in 0 .. (m - 1) : RTagOf(base, c, m)[c[i].tag] = i
          /\ \A t \in Tag : (\A i \in 0 .. (m - 1) : c[i].tag # t) => RTagOf(base, c, m)[t] = base[t]
      BY <1>8, <2>1, RTagOfArray, SMTT(30)
    <2> QED BY <1>10, <2>2, SMTT(30)
  <1>12. \A t \in Tag : (\A k \in Index(r) : ptl[r][k].tag # t) => R[t] = rtag[t]
    <2> SUFFICES ASSUME NEW t \in Tag, \A k \in Index(r) : ptl[r][k].tag # t PROVE R[t] = rtag[t]
      BY Zenon
    <2>1. \A i \in 0 .. (m - 1) : c[i].tag # t
      BY <1>2, <1>6, ZenonT(60)
    <2>2. base[t] = rtag[t]
      BY Zenon DEF base
    <2> QED BY <1>11, <2>1, <2>2, Zenon
  <1>13. \A k \in flagged : R[ptl[r][k].tag] = NOT_LOCAL
    <2> SUFFICES ASSUME NEW k \in flagged PROVE R[ptl[r][k].tag] = NOT_LOCAL
      BY Zenon
    <2>1. ptl[r][k].tag \in Tag /\ k \notin K
      BY <1>1, Zenon DEF Particle, K, Kept
    <2>2. ASSUME NEW i \in 0 .. (m - 1) PROVE c[i].tag # ptl[r][k].tag
      <3>1. PICK l \in K : c[i] = ptl[r][l]
        BY <1>6, Zenon
      <3>2. l # k /\ l \in Index(r) /\ k \in Index(r)
        BY <1>2, <2>1, Zenon
      <3> QED BY <1>7, <3>1, <3>2, Zenon
    <2>3. base[ptl[r][k].tag] = NOT_LOCAL
      BY <2>1, Zenon DEF base
    <2> QED BY <1>11, <2>1, <2>2, <2>3, Zenon
  <1>14. \A k \in K : \E i \in 0 .. (m - 1) : c[i] = ptl[r][k]
    <2> SUFFICES ASSUME NEW k \in K PROVE \E i \in 0 .. (m - 1) : c[i] = ptl[r][k]
      BY Zenon
    <2>1. PICK i \in 0 .. (m - 1) : Listed(K)[i] = k
      BY <1>3, Zenon
    <2>2. c[i] = ptl[r][Listed(K)[i]]
      BY <1>6, Zenon
    <2> QED BY <2>1, <2>2, SMTT(30)
  <1>15. \A i \in 0 .. (m - 1) : \E k \in K : c[i] = ptl[r][k]
    BY <1>6, Zenon
  <1> QED BY <1>3, <1>5, <1>11, <1>12, <1>13, <1>14, <1>15, Zenon DEF Compacts, K, m, c, R

\* getMaximumTag(): a set of tags that is not empty has a largest element.
LEMMA MaximumTag ==
  ASSUME NEW S \in SUBSET Tag, S # {}
  PROVE  getMaximumTag(S) \in S /\ \A u \in S : u <= getMaximumTag(S)
  <1> DEFINE c == Cardinality(S)
             k == Listed(S)[c - 1]
  <1>1. MaxTags \in Nat /\ S \in SUBSET (0 .. MaxTags)
    BY ParticleDataAssumption, SMTT(30) DEF Tag
  <1>2. /\ c \in Nat /\ Listed(S) \in [0 .. (c - 1) -> S]
        /\ \A l \in S : \E i \in 0 .. (c - 1) : Listed(S)[i] = l
        /\ \A i, j \in 0 .. (c - 1) : i < j => Listed(S)[i] < Listed(S)[j]
    BY <1>1, ListedInOrder, Zenon
  <1> HIDE DEF c
  <1>3. c - 1 \in 0 .. (c - 1)
    BY <1>2, SMTT(30)
  <1>4. k \in S
    BY <1>2, <1>3, Zenon
  <1>5. ASSUME NEW u \in S PROVE u <= k
    <2>1. PICK i \in 0 .. (c - 1) : Listed(S)[i] = u
      BY <1>2, Zenon
    <2>2. i = c - 1 \/ i < c - 1
      BY <1>2, SMTT(30)
    <2>3. u = k \/ u < k
      BY <1>2, <1>3, <2>1, <2>2, Zenon
    <2> HIDE DEF k
    <2>4. k \in 0 .. MaxTags /\ u \in 0 .. MaxTags
      BY <1>1, <1>4, Zenon
    <2> QED BY <1>1, <2>3, <2>4
  <1> QED BY <1>4, <1>5, Zenon DEF getMaximumTag

\* The empty system.
LEMMA InitInv == Init => IInv
  <1> SUFFICES ASSUME Init PROVE IInv
    BY Zenon
  <1> USE ParticleDataAssumption DEF Init
  <1>1. TypeOK
    BY DEF TypeOK, Index, NOT_LOCAL
  <1>2. EveryParticleOnce
    BY SMTT(30) DEF EveryParticleOnce, Index
  <1>3. RTagsConsistent
    BY DEF RTagsConsistent, Index
  <1>4. TagSpace
    BY SMTT(30) DEF TagSpace
  <1>5. CacheFresh
    BY Zenon DEF CacheFresh
  <1> QED BY <1>1, <1>2, <1>3, <1>4, <1>5, Zenon DEF IInv

(* The steps that do not change which tags exist: what they leave of the   *)
(* tag space and the tag cache.                                            *)
LEMMA TagsUnchanged ==
  ASSUME IInv, UNCHANGED <<tags, cache>>
  PROVE  TagSpace' /\ CacheFresh'
  BY SMTT(30) DEF IInv, tags, cache, TagSpace, CacheFresh

(* There are getNGlobal() active tags: they and the recycled ones partition *)
(* the tag space.                                                          *)
LEMMA ActiveTagCount == ASSUME IInv PROVE Cardinality(m_tag_set) = m_nglobal
  <1> DEFINE rec == {m_recycled_tags[i] : i \in 1 .. Len(m_recycled_tags)}
             l == Len(m_recycled_tags)
  <1>1. /\ m_tag_set \union rec = 0 .. ((m_nglobal + l) - 1)
        /\ m_tag_set \intersect rec = {}
        /\ m_nglobal \in Nat /\ l \in Nat
    BY SMTT(30) DEF IInv, TypeOK, TagSpace
  <1>2. IsFiniteSet(0 .. ((m_nglobal + l) - 1)) /\ Cardinality(0 .. ((m_nglobal + l) - 1)) = m_nglobal + l
    <2> DEFINE h == (m_nglobal + l) - 1
    <2>1. h \in Int /\ 0 \in Int /\ m_nglobal + l = IF 0 > h THEN 0 ELSE h - 0 + 1
      BY <1>1, SMTT(30)
    <2> HIDE DEF h
    <2>2. IsFiniteSet(0 .. h) /\ Cardinality(0 .. h) = m_nglobal + l
      BY <2>1, FS_Interval, Zenon
    <2> QED BY <2>2, Zenon DEF h
  <1>3. IsFiniteSet(rec) /\ Cardinality(rec) = l
    <2> DEFINE f == [i \in 1 .. l |-> m_recycled_tags[i]]
    <2>1. f \in Surjection(1 .. l, rec)
      BY Zenon DEF Surjection
    <2>2. f \in Injection(1 .. l, rec)
      BY Zenon DEF Injection, IsInjective, IInv, TagSpace
    <2>3. IsFiniteSet(1 .. l) /\ Cardinality(1 .. l) = l
      <3>1. l \in Nat
        BY <1>1, Zenon
      <3> HIDE DEF l
      <3>2. IsFiniteSet(1 .. l) /\ Cardinality(1 .. l) = IF 1 > l THEN 0 ELSE l - 1 + 1
        BY <3>1, FS_Interval, SMTT(30)
      <3> QED BY <3>1, <3>2
    <2> QED BY <2>1, <2>2, <2>3, FS_Surjection, SMTT(30)
  <1>4. IsFiniteSet(m_tag_set)
    BY <1>1, <1>2, FS_Subset, Zenon
  <1>5. Cardinality(m_tag_set \union rec)
          = Cardinality(m_tag_set) + Cardinality(rec) - Cardinality(m_tag_set \intersect rec)
    BY <1>3, <1>4, FS_Union, Zenon
  <1>6. Cardinality(m_tag_set) \in Nat /\ Cardinality(m_tag_set \intersect rec) = 0
    BY <1>1, <1>4, FS_CardinalityType, FS_EmptySet, Zenon
  <1>7. Cardinality(m_tag_set \union rec) = m_nglobal + l
    BY <1>1, <1>2, Zenon
  <1> DEFINE c == Cardinality(m_tag_set)
  <1>8. l \in Nat /\ m_nglobal \in Nat /\ c \in Nat /\ m_nglobal + l = (c + l) - 0
    <2>1. l \in Nat /\ m_nglobal \in Nat
      BY <1>1, Zenon
    <2>2. c \in Nat
      BY <1>6, Zenon
    <2> DEFINE u == Cardinality(m_tag_set \union rec)
               q == Cardinality(rec)
               e == Cardinality(m_tag_set \intersect rec)
    <2>3. u = c + q - e /\ u = m_nglobal + l /\ q = l /\ e = 0
      BY <1>3, <1>5, <1>6, <1>7, Zenon
    <2> HIDE DEF l, c, u, q, e
    <2> QED BY <2>1, <2>2, <2>3, SMTT(30)
  <1> HIDE DEF rec, l, c
  <1>9. c = m_nglobal
    BY <1>8
  <1> QED BY <1>9, Zenon DEF c

\* getNthTag() rebuilds the tag cache when it is invalid.
LEMMA GetNthTagInv == IInv /\ getNthTag => IInv'
  <1> SUFFICES ASSUME IInv, getNthTag PROVE IInv'
    BY Zenon
  <1>0. /\ ptl' = ptl /\ m_nparticles' = m_nparticles /\ ghost' = ghost /\ m_nghosts' = m_nghosts
        /\ m_rtag' = m_rtag /\ rtag_size' = rtag_size /\ m_nglobal' = m_nglobal
        /\ m_tag_set' = m_tag_set /\ m_recycled_tags' = m_recycled_tags /\ transit' = transit
    BY Zenon DEF getNthTag, tags
  <1>1. TypeOK'
    BY <1>0, Zenon DEF IInv, TypeOK, Index, getNthTag
  <1>2. EveryParticleOnce' /\ RTagsConsistent' /\ TagSpace'
    <2>1. EveryParticleOnce'
      BY <1>0, SMTT(30) DEF IInv, EveryParticleOnce, Index
    <2>2. RTagsConsistent'
      BY <1>0, ZenonT(60) DEF IInv, RTagsConsistent, Index
    <2>3. TagSpace'
      BY <1>0, ZenonT(60) DEF IInv, TagSpace
    <2> QED BY <2>1, <2>2, <2>3, ZenonT(60)
  <1>3. CacheFresh'
    <2>1. CASE ~m_invalid_cached_tags
      BY <1>0, <2>1, Zenon DEF IInv, CacheFresh, getNthTag
    <2>2. CASE m_invalid_cached_tags
      <3>1. m_tag_set \in SUBSET (0 .. MaxTags) /\ MaxTags \in Nat
        BY ParticleDataAssumption, SMTT(30) DEF IInv, TypeOK, Tag
      <3>2. Cardinality(m_tag_set) = m_nglobal
        BY ActiveTagCount, Zenon
      <3>3. /\ Listed(m_tag_set) \in [0 .. (m_nglobal - 1) -> m_tag_set]
            /\ \A k \in m_tag_set : \E i \in 0 .. (m_nglobal - 1) : Listed(m_tag_set)[i] = k
            /\ \A i, j \in 0 .. (m_nglobal - 1) : i < j => Listed(m_tag_set)[i] < Listed(m_tag_set)[j]
        BY <3>1, <3>2, ListedInOrder, Zenon
      <3>4. m_cached_tag_set' = Listed(m_tag_set) /\ m_tag_set' = m_tag_set /\ m_nglobal' = m_nglobal
        BY <1>0, <2>2, Zenon DEF getNthTag
      <3> QED BY <3>3, <3>4, ZenonT(60) DEF CacheFresh
    <2> QED BY <2>1, <2>2, Zenon DEF IInv, TypeOK
  <1> QED BY <1>1, <1>2, <1>3, Zenon DEF IInv

\* A lookup below getN() is the index of a particle.
LEMMA LookupBelowN ==
  ASSUME IInv, NEW s \in Rank, NEW u \in 0 .. (rtag_size - 1),
         m_rtag[s][u] # NOT_LOCAL, m_rtag[s][u] < m_nparticles[s]
  PROVE  m_rtag[s][u] \in Index(s)
  <1>1. u \in Tag
    BY ParticleDataAssumption, SMTT(30) DEF IInv, TypeOK, Tag
  <1>2. m_rtag[s][u] \in Nat /\ m_nparticles[s] \in Nat
    BY <1>1, SMTT(30) DEF IInv, TypeOK
  <1> QED BY <1>2 DEF Index

\* Overwriting attributes of one particle, but not its tag.
LEMMA AttributeSet ==
  ASSUME IInv, NEW r \in Rank, NEW k \in Index(r), NEW q \in Particle, q.tag = ptl[r][k].tag,
         ptl' = [ptl EXCEPT ![r] = [@ EXCEPT ![k] = q]],
         UNCHANGED <<m_nparticles, ghost, m_nghosts, m_rtag, tags, cache, transit>>
  PROVE  IInv'
  <1>1. \A s \in Rank : ptl[s] \in [Index(s) -> Particle]
    BY Zenon DEF IInv, TypeOK
  <1>2. \A s \in Rank : ptl'[s] \in [Index(s) -> Particle]
                        /\ \A i \in Index(s) : ptl'[s][i].tag = ptl[s][i].tag
    BY <1>1, Zenon DEF IInv, TypeOK
  <1>3. TypeOK'
    BY <1>2, Zenon DEF IInv, TypeOK, tags, cache, Index
  <1>a. m_tag_set' = m_tag_set /\ transit' = transit /\ \A s \in Rank : Index(s)' = Index(s)
    BY Zenon DEF Index, tags
  <1>4. EveryParticleOnce'
    <2>1. \A s, u \in Rank : \A i \in Index(s)', j \in Index(u)' :
             ptl'[s][i].tag = ptl'[u][j].tag => s = u /\ i = j
      BY <1>2, <1>a, TagIsUnique, SMTT(30)
    <2>2. \A s \in Rank : \A i \in Index(s) : ptl'[s][i].tag \in m_tag_set
      <3>1. \A s \in Rank : \A i \in Index(s) : ptl[s][i].tag \in m_tag_set
        BY Zenon DEF IInv, EveryParticleOnce
      <3> QED BY <1>2, <3>1, SMTT(30)
    <2>3. \A u \in m_tag_set : \/ \E s \in Rank : \E i \in Index(s) : ptl'[s][i].tag = u
                               \/ \E p \in transit : p.tag = u
      <3>1. \A u \in m_tag_set : \/ \E s \in Rank : \E i \in Index(s) : ptl[s][i].tag = u
                                 \/ \E p \in transit : p.tag = u
        BY Zenon DEF IInv, EveryParticleOnce
      <3> QED BY <1>2, <3>1, SMTT(30)
    <2>4. \A s \in Rank : \A i \in Index(s) : \A p \in transit : p.tag # ptl'[s][i].tag
      BY <1>2, TransitTagIsUnique, SMTT(30)
    <2>5. /\ \A p \in transit : p.tag \in m_tag_set
          /\ \A p, u \in transit : p.tag = u.tag => p = u
      BY Zenon DEF IInv, EveryParticleOnce
    <2>6. \A s \in Rank : \A i \in Index(s)' : ptl'[s][i].tag \in m_tag_set'
      BY <1>a, <2>2, SMTT(30)
    <2>7. \A u \in m_tag_set' : \/ \E s \in Rank : \E i \in Index(s)' : ptl'[s][i].tag = u
                                \/ \E p \in transit' : p.tag = u
      BY <1>a, <2>3, SMTT(30)
    <2>8. \A s \in Rank : \A i \in Index(s)' : \A p \in transit' : p.tag # ptl'[s][i].tag
      BY <1>a, <2>4, SMTT(30)
    <2>9. /\ \A p \in transit' : p.tag \in m_tag_set'
          /\ \A p, u \in transit' : p.tag = u.tag => p = u
      BY <1>a, <2>5, ZenonT(60)
    <2> QED BY <2>1, <2>6, <2>7, <2>8, <2>9, ZenonT(60) DEF EveryParticleOnce
  <1>5. RTagsConsistent'
    <2>1. \A s \in Rank, u \in 0 .. (rtag_size - 1) :
             m_rtag[s][u] # NOT_LOCAL /\ m_rtag[s][u] < m_nparticles[s] => m_rtag[s][u] \in Index(s)
      BY LookupBelowN, Zenon
    <2>2. /\ \A s \in Rank : \A i \in Index(s) : m_rtag[s][ptl[s][i].tag] = i
          /\ \A s \in Rank : \A u \in 0 .. (rtag_size - 1) : m_rtag[s][u] # NOT_LOCAL =>
                \/ /\ m_rtag[s][u] < m_nparticles[s]
                   /\ ptl[s][m_rtag[s][u]].tag = u
                \/ /\ m_rtag[s][u] - m_nparticles[s] \in 0 .. (m_nghosts[s] - 1)
                   /\ ghost[s][m_rtag[s][u] - m_nparticles[s]] = u
      BY Zenon DEF IInv, RTagsConsistent
    <2>3. \A s \in Rank : \A i \in Index(s) : m_rtag[s][ptl'[s][i].tag] = i
      BY <1>2, <2>2, SMTT(30)
    <2>4. \A s \in Rank : \A u \in 0 .. (rtag_size - 1) : m_rtag[s][u] # NOT_LOCAL =>
             \/ /\ m_rtag[s][u] < m_nparticles[s]
                /\ ptl'[s][m_rtag[s][u]].tag = u
             \/ /\ m_rtag[s][u] - m_nparticles[s] \in 0 .. (m_nghosts[s] - 1)
                /\ ghost[s][m_rtag[s][u] - m_nparticles[s]] = u
      BY <1>2, <2>1, <2>2, SMTT(30)
    <2>5. \A s \in Rank :
             /\ \A i \in 0 .. (m_nghosts[s] - 1) : m_rtag[s][ghost[s][i]] = m_nparticles[s] + i
             /\ \A i \in 1 .. Len(m_recycled_tags) : m_rtag[s][m_recycled_tags[i]] = NOT_LOCAL
      BY Zenon DEF IInv, RTagsConsistent
    <2>6. /\ m_rtag' = m_rtag /\ ghost' = ghost /\ m_nghosts' = m_nghosts
          /\ m_nparticles' = m_nparticles /\ rtag_size' = rtag_size
          /\ m_recycled_tags' = m_recycled_tags
      BY Zenon DEF tags
    <2>7. \A s \in Rank : \A i \in Index(s)' : m_rtag'[s][ptl'[s][i].tag] = i
      BY <1>a, <2>3, <2>6, SMTT(30)
    <2> QED BY <2>4, <2>5, <2>6, <2>7, SMTT(30) DEF RTagsConsistent
  <1> QED BY <1>3, <1>4, <1>5, TagsUnchanged, Zenon DEF IInv

(* F is the array f of length n with p behind it, and R the reverse lookup *)
(* rtag with the entries of F.                                             *)
IsAppended(n, f, p, rtag, F, R) ==
  /\ F \in Particles(n + 1) /\ R \in RTagArray
  /\ F[n] = p /\ R[p.tag] = n
  /\ \A i \in 0 .. (n - 1) : F[i] = f[i] /\ R[f[i].tag] = i
  /\ \A t \in Tag : t # p.tag /\ (\A i \in 0 .. (n - 1) : f[i].tag # t) => R[t] = rtag[t]

(* Appending a particle with a new tag, and recomputing the reverse        *)
(* lookup of the longer array.                                             *)
LEMMA AppendOne ==
  ASSUME NEW n \in Nat, NEW f \in Particles(n), NEW p \in Particle, NEW rtag \in RTagArray,
         \A i, j \in 0 .. (n - 1) : f[i].tag = f[j].tag => i = j,
         \A i \in 0 .. (n - 1) : f[i].tag # p.tag
  PROVE  IsAppended(n, f, p, rtag, Appended(f, n, p), RTagOf(rtag, Appended(f, n, p), n + 1))
  <1> DEFINE F == Appended(f, n, p)
             R == RTagOf(rtag, F, n + 1)
  <1>1. F \in Particles(n + 1) /\ F[n] = p /\ \A i \in 0 .. (n - 1) : F[i] = f[i]
    <2>1. 0 .. ((n + 1) - 1) = 0 .. n /\ \A i \in 0 .. n : i = n \/ i \in 0 .. (n - 1)
      OBVIOUS
    <2> QED BY <2>1, SMTT(30) DEF Appended, Particles
  <1>2. \A i \in 0 .. ((n + 1) - 1) : i = n \/ i \in 0 .. (n - 1)
    OBVIOUS
  <1>3. n \in 0 .. ((n + 1) - 1) /\ \A i \in 0 .. (n - 1) : i \in 0 .. ((n + 1) - 1)
    BY SMTT(30)
  <1> HIDE DEF F
  <1>4. \A i, j \in 0 .. ((n + 1) - 1) : F[i].tag = F[j].tag => i = j
    BY <1>1, <1>2, ZenonT(60)
  <1>5. /\ R \in RTagArray
        /\ \A i \in 0 .. ((n + 1) - 1) : R[F[i].tag] = i
        /\ \A t \in Tag : (\A i \in 0 .. ((n + 1) - 1) : F[i].tag # t) => R[t] = rtag[t]
    <2>1. n + 1 \in Nat
      OBVIOUS
    <2> QED BY <1>1, <1>4, <2>1, RTagOfArray, SMTT(30)
  <1> HIDE DEF R
  <1>6. R[p.tag] = n /\ \A i \in 0 .. (n - 1) : R[f[i].tag] = i
    BY <1>1, <1>3, <1>5, SMTT(30)
  <1>7. ASSUME NEW t \in Tag, t # p.tag, \A i \in 0 .. (n - 1) : f[i].tag # t PROVE R[t] = rtag[t]
    <2>1. \A i \in 0 .. ((n + 1) - 1) : F[i].tag # t
      BY <1>1, <1>2, <1>7, Zenon
    <2> QED BY <1>5, <2>1, Zenon
  <1> QED BY <1>1, <1>5, <1>6, <1>7, ZenonT(60) DEF F, R, IsAppended

(* What is left to show for a collective call that removed the ghosts,     *)
(* when no particle is in a migration buffer.                              *)
GhostFreeTypes ==
  /\ m_nghosts = [s \in Rank |-> 0] /\ ghost = [s \in Rank |-> [i \in {} |-> 0]] /\ transit = {}
  /\ DOMAIN ptl = Rank /\ m_nparticles \in [Rank -> Nat] /\ m_rtag \in [Rank -> RTagArray]
  /\ \A s \in Rank : ptl[s] \in [Index(s) -> Particle]
  /\ rtag_size \in 0 .. MaxTags /\ m_nglobal \in 0 .. MaxTags /\ m_tag_set \subseteq Tag
  /\ m_recycled_tags \in Seq(Tag) /\ m_invalid_cached_tags \in BOOLEAN

GhostFreeLookup ==
  \A s \in Rank :
    /\ \A i \in Index(s) : m_rtag[s][ptl[s][i].tag] = i
    /\ \A u \in 0 .. (rtag_size - 1) : m_rtag[s][u] # NOT_LOCAL =>
          m_rtag[s][u] \in Index(s) /\ ptl[s][m_rtag[s][u]].tag = u
    /\ \A i \in 1 .. Len(m_recycled_tags) : m_rtag[s][m_recycled_tags[i]] = NOT_LOCAL

GhostFreeOnce ==
  /\ \A s \in Rank : \A i \in Index(s) : ptl[s][i].tag \in m_tag_set
  /\ \A u \in m_tag_set : \E s \in Rank : \E i \in Index(s) : ptl[s][i].tag = u
  /\ \A s, q \in Rank : \A i \in Index(s), j \in Index(q) : ptl[s][i].tag = ptl[q][j].tag => s = q

\* Together these conditions are the invariant.
LEMMA GhostFree ==
  GhostFreeTypes /\ GhostFreeLookup /\ GhostFreeOnce /\ TagSpace /\ CacheFresh => IInv
  <1> SUFFICES ASSUME GhostFreeTypes, GhostFreeLookup, GhostFreeOnce, TagSpace, CacheFresh PROVE IInv
    BY Zenon
  <1>1. TypeOK
    BY SMTT(30) DEF GhostFreeTypes, TypeOK, RTagArray
  <1>2. EveryParticleOnce
    <2>1. transit = {}
      BY ZenonT(60) DEF GhostFreeTypes
    <2>2. ASSUME NEW s \in Rank, NEW q \in Rank, NEW i \in Index(s), NEW j \in Index(q),
                 ptl[s][i].tag = ptl[q][j].tag
          PROVE  s = q /\ i = j
      <3>1. s = q
        BY <2>2, Zenon DEF GhostFreeOnce
      <3>2. m_rtag[s][ptl[s][i].tag] = i /\ m_rtag[q][ptl[q][j].tag] = j
        BY ZenonT(60) DEF GhostFreeLookup
      <3> QED BY <2>2, <3>1, <3>2, SMTT(30)
    <2> QED BY <2>1, <2>2, Zenon DEF GhostFreeOnce, EveryParticleOnce
  <1>3. RTagsConsistent
    <2>1. \A s \in Rank : m_nghosts[s] = 0 /\ m_nparticles[s] \in Nat
      BY Zenon DEF GhostFreeTypes
    <2>2. \A s \in Rank : \A u \in Index(s) : u < m_nparticles[s]
      BY <2>1 DEF Index
    <2> QED BY <2>1, <2>2, SMTT(30) DEF GhostFreeLookup, RTagsConsistent
  <1> QED BY <1>1, <1>2, <1>3, Zenon DEF IInv

\* The same of the state after a step.
LEMMA GhostFreeNext ==
  GhostFreeTypes' /\ GhostFreeLookup' /\ GhostFreeOnce' /\ TagSpace' /\ CacheFresh' => IInv'
  BY GhostFree, PTL

-----------------------------------------------------------------------------
(* Steps of single ranks, ghosts, migration, and calls that change no      *)
(* particle number.                                                        *)

\* setAngularMomentum() changes no tag.
LEMMA SetAngularMomentumInv ==
  ASSUME IInv, NEW t \in Tag, NEW v \in AngMom, setAngularMomentum(t, v)
  PROVE  IInv'
  <1> DEFINE r == getOwnerRank(t)
             k == m_rtag[r][t]
             q == [ptl[r][k] EXCEPT !.angmom = v]
  <1>1. r \in Rank /\ k \in Index(r)
    BY Zenon DEF setAngularMomentum, OwnedByOne, getOwnerRank, isLocal
  <1>2. ptl[r] \in [Index(r) -> Particle] /\ DOMAIN ptl = Rank
    BY <1>1, Zenon DEF IInv, TypeOK
  <1>3. /\ ptl' = [ptl EXCEPT ![r] = [@ EXCEPT ![k].angmom = v]]
        /\ UNCHANGED <<m_nparticles, ghost, m_nghosts, m_rtag, tags, cache, transit>>
    BY Zenon DEF setAngularMomentum
  <1> HIDE DEF r, k
  <1>4. q \in Particle /\ q.tag = ptl[r][k].tag
    BY <1>1, <1>2, Zenon DEF Particle
  <1>5. ptl' = [ptl EXCEPT ![r] = [@ EXCEPT ![k] = q]]
    BY <1>1, <1>2, <1>3, Zenon
  <1> HIDE DEF q
  <1> QED BY <1>1, <1>3, <1>4, <1>5, AttributeSet, ZenonT(120)

\* A rejected removal has removed the ghosts and nothing else.
LEMMA RemoveParticleThrowsInv ==
  ASSUME IInv, NEW t \in Tag, removeParticleThrows(t)
  PROVE  IInv'
  <1>1. /\ m_rtag' = [r \in Rank |-> RTagWithoutGhosts(r)]
        /\ m_nghosts' = [r \in Rank |-> 0] /\ ghost' = [r \in Rank |-> [i \in {} |-> 0]]
        /\ UNCHANGED <<ptl, m_nparticles, tags, cache, transit>>
    BY Zenon DEF removeParticleThrows, removeAllGhostParticles
  <1>2. \A r \in Rank : RTagWithoutGhosts(r) \in RTagArray
    BY WithoutGhosts, Zenon
  <1>3. TypeOK'
    BY <1>1, <1>2, SMTT(30) DEF IInv, TypeOK, tags, cache, Index, RTagArray
  <1>4. EveryParticleOnce'
    BY <1>1, SMTT(30) DEF IInv, EveryParticleOnce, Index, tags
  <1>5. RTagsConsistent'
    <2> SUFFICES ASSUME NEW r \in Rank PROVE
          /\ \A i \in Index(r) : RTagWithoutGhosts(r)[ptl[r][i].tag] = i
          /\ \A u \in 0 .. (rtag_size - 1) : RTagWithoutGhosts(r)[u] # NOT_LOCAL =>
               RTagWithoutGhosts(r)[u] < m_nparticles[r] /\ ptl[r][RTagWithoutGhosts(r)[u]].tag = u
          /\ \A i \in 1 .. Len(m_recycled_tags) :
               RTagWithoutGhosts(r)[m_recycled_tags[i]] = NOT_LOCAL
      BY <1>1, SMTT(30) DEF RTagsConsistent, Index, tags
    <2>1. m_nparticles[r] \in Nat
      BY Zenon DEF IInv, TypeOK
    <2>2. \A i \in Index(r) : i < m_nparticles[r]
      BY <2>1, SMTT(30) DEF Index
    <2> QED BY <2>2, WithoutGhosts, ZenonT(60)
  <1> QED BY <1>1, <1>3, <1>4, <1>5, TagsUnchanged, Zenon DEF IInv

\* A ghost is appended behind the particles, with its own lookup entry.
LEMMA AddGhostParticlesInv ==
  ASSUME IInv, NEW r \in Rank, NEW t \in Tag, addGhostParticles(r, t)
  PROVE  IInv'
  <1> DEFINE n == m_nparticles[r]
             g == m_nghosts[r]
  <1>1. /\ t \in m_tag_set /\ m_rtag[r][t] = NOT_LOCAL
        /\ ghost' = [ghost EXCEPT ![r] = Appended(@, g, t)]
        /\ m_nghosts' = [m_nghosts EXCEPT ![r] = g + 1]
        /\ m_rtag' = [m_rtag EXCEPT ![r] = [@ EXCEPT ![t] = n + g]]
        /\ UNCHANGED <<ptl, m_nparticles, tags, cache, transit>>
    BY Zenon DEF addGhostParticles
  <1>2. /\ n \in Nat /\ g \in Nat
        /\ ghost[r] \in [0 .. (g - 1) -> Tag]
        /\ m_rtag \in [Rank -> RTagArray]
        /\ ptl[r] \in [Index(r) -> Particle] /\ m_recycled_tags \in Seq(Tag)
    BY Zenon DEF IInv, TypeOK, RTagArray
  <1>3. TypeOK'
    <2>1. Appended(ghost[r], g, t) \in [0 .. ((g + 1) - 1) -> Tag]
      BY <1>2, SMTT(30) DEF Appended
    <2>2. [m_rtag[r] EXCEPT ![t] = n + g] \in RTagArray
      BY <1>2, SMTT(30) DEF RTagArray
    <2>3. \A s \in Rank : ghost'[s] \in [0 .. (m_nghosts'[s] - 1) -> Tag]
      BY <1>1, <2>1, Zenon DEF IInv, TypeOK
    <2>4. m_rtag' \in [Rank -> RTagArray]
      BY <1>1, <1>2, <2>2, ZenonT(60)
    <2>5. m_nghosts' \in [Rank -> Nat] /\ DOMAIN ghost' = Rank
      BY <1>1, <1>2, SMTT(30) DEF IInv, TypeOK
    <2> HIDE DEF n, g
    <2> QED BY <1>1, <2>3, <2>4, <2>5, ZenonT(60) DEF IInv, TypeOK, tags, cache, Index, RTagArray
  <1>4. EveryParticleOnce'
    BY <1>1, SMTT(30) DEF IInv, EveryParticleOnce, Index, tags
  <1>5. RTagsConsistent'
    <2>1. ASSUME NEW s \in Rank, s # r
          PROVE  m_rtag'[s] = m_rtag[s] /\ ghost'[s] = ghost[s] /\ m_nghosts'[s] = m_nghosts[s]
      BY <1>1, <1>2, <2>1, Zenon DEF IInv, TypeOK
    <2>2. m_rtag'[r] = [m_rtag[r] EXCEPT ![t] = n + g] /\ m_nghosts'[r] = g + 1
          /\ ghost'[r] = Appended(ghost[r], g, t)
      BY <1>1, <1>2, Zenon DEF IInv, TypeOK
    <2>3. ASSUME NEW i \in Index(r) PROVE m_rtag'[r][ptl[r][i].tag] = i
      <3>1. m_rtag[r][ptl[r][i].tag] = i /\ ptl[r][i].tag \in Tag
        BY <1>2, ZenonT(60) DEF IInv, RTagsConsistent, Particle
      <3>2. ptl[r][i].tag # t
        BY <1>1, <1>2, <3>1, SMTT(30) DEF NOT_LOCAL, Index
      <3> QED BY <1>2, <2>2, <3>1, <3>2, ZenonT(60) DEF RTagArray
    <2>4. ASSUME NEW i \in 0 .. g PROVE m_rtag'[r][ghost'[r][i]] = n + i
      <3>1. CASE i = g
        BY <1>2, <2>2, <3>1, SMTT(30) DEF Appended, RTagArray
      <3>2. CASE i < g
        <4>1. i \in 0 .. (g - 1) /\ ghost'[r][i] = ghost[r][i]
          BY <1>2, <2>2, <3>2, SMTT(30) DEF Appended
        <4>2. m_rtag[r][ghost[r][i]] = n + i /\ ghost[r][i] \in Tag
          BY <1>2, <4>1, ZenonT(60) DEF IInv, RTagsConsistent
        <4>a. n + i # NOT_LOCAL
          BY <1>2, <4>1, SMTT(30) DEF NOT_LOCAL
        <4>3. ghost[r][i] # t
          BY <1>1, <4>2, <4>a, Zenon
        <4> QED BY <1>2, <2>2, <4>1, <4>2, <4>3, ZenonT(60) DEF RTagArray
      <3>3. i = g \/ i < g
        BY <1>2, SMTT(30)
      <3> QED BY <3>1, <3>2, <3>3, ZenonT(60)
    <2>5. ASSUME NEW u \in 0 .. (rtag_size - 1), m_rtag'[r][u] # NOT_LOCAL
          PROVE  \/ /\ m_rtag'[r][u] < n
                    /\ ptl[r][m_rtag'[r][u]].tag = u
                 \/ /\ m_rtag'[r][u] - n \in 0 .. g
                    /\ ghost'[r][m_rtag'[r][u] - n] = u
      <3>0. u \in Tag
        <4>1. rtag_size \in 0 .. MaxTags
          BY Zenon DEF IInv, TypeOK
        <4> QED BY <4>1, TagsOfLookup, Zenon
      <3>1. CASE u = t
        <4>1. m_rtag'[r][u] = n + g
          BY <1>2, <2>2, <3>0, <3>1, ZenonT(60) DEF RTagArray
        <4>2. (n + g) - n = g /\ g \in 0 .. g
          BY <1>2, SMTT(30)
        <4>3. ghost'[r][g] = t
          BY <1>2, <2>2, <4>2, ZenonT(60) DEF Appended
        <4> QED BY <3>1, <4>1, <4>2, <4>3, ZenonT(60)
      <3>2. CASE u # t
        <4>1. m_rtag'[r][u] = m_rtag[r][u]
          BY <1>2, <2>2, <3>0, <3>2, SMTT(30) DEF RTagArray
        <4>2. CASE m_rtag[r][u] < n /\ ptl[r][m_rtag[r][u]].tag = u
          BY <4>1, <4>2, Zenon
        <4>3. CASE m_rtag[r][u] - n \in 0 .. (g - 1) /\ ghost[r][m_rtag[r][u] - n] = u
          <5>1. m_rtag[r][u] - n \in 0 .. g /\ m_rtag[r][u] - n # g
            BY <1>2, <4>3, SMTT(30)
          <5>2. ghost'[r][m_rtag[r][u] - n] = u
            BY <2>2, <4>3, <5>1, ZenonT(60) DEF Appended
          <5> QED BY <4>1, <5>1, <5>2, ZenonT(60)
        <4> QED BY <2>5, <4>1, <4>2, <4>3, ZenonT(60) DEF IInv, RTagsConsistent
      <3> QED BY <3>1, <3>2, Zenon
    <2>6. ASSUME NEW i \in 1 .. Len(m_recycled_tags) PROVE m_rtag'[r][m_recycled_tags[i]] = NOT_LOCAL
      <3>1. m_recycled_tags[i] \in Tag /\ m_rtag[r][m_recycled_tags[i]] = NOT_LOCAL
        BY <1>2, SMTT(30) DEF IInv, RTagsConsistent
      <3>2. m_recycled_tags[i] # t
        BY <1>1, ZenonT(60) DEF IInv, TagSpace
      <3>3. m_rtag'[r][m_recycled_tags[i]] = m_rtag[r][m_recycled_tags[i]]
        <4>1. m_rtag'[r] = [m_rtag[r] EXCEPT ![t] = n + g] /\ m_rtag[r] \in RTagArray
          BY <1>2, <2>2, Zenon
        <4> QED BY <3>1, <3>2, <4>1, SMTT(30) DEF RTagArray
      <3> QED BY <3>1, <3>3, ZenonT(60)
    <2>0. /\ ptl' = ptl /\ m_nparticles' = m_nparticles
          /\ rtag_size' = rtag_size /\ m_recycled_tags' = m_recycled_tags
      BY <1>1, Zenon DEF tags
    <2> SUFFICES ASSUME NEW s \in Rank PROVE
          /\ \A i \in Index(s) : m_rtag'[s][ptl[s][i].tag] = i
          /\ \A i \in 0 .. (m_nghosts'[s] - 1) : m_rtag'[s][ghost'[s][i]] = m_nparticles[s] + i
          /\ \A u \in 0 .. (rtag_size - 1) : m_rtag'[s][u] # NOT_LOCAL =>
               \/ /\ m_rtag'[s][u] < m_nparticles[s]
                  /\ ptl[s][m_rtag'[s][u]].tag = u
               \/ /\ m_rtag'[s][u] - m_nparticles[s] \in 0 .. (m_nghosts'[s] - 1)
                  /\ ghost'[s][m_rtag'[s][u] - m_nparticles[s]] = u
          /\ \A i \in 1 .. Len(m_recycled_tags) : m_rtag'[s][m_recycled_tags[i]] = NOT_LOCAL
      BY <2>0, ZenonT(60) DEF RTagsConsistent, Index
    <2>7. CASE s # r
      <3>1. m_rtag'[s] = m_rtag[s] /\ ghost'[s] = ghost[s] /\ m_nghosts'[s] = m_nghosts[s]
        BY <2>1, <2>7, Zenon
      <3>2. /\ \A i \in Index(s) : m_rtag[s][ptl[s][i].tag] = i
            /\ \A i \in 0 .. (m_nghosts[s] - 1) : m_rtag[s][ghost[s][i]] = m_nparticles[s] + i
            /\ \A u \in 0 .. (rtag_size - 1) : m_rtag[s][u] # NOT_LOCAL =>
                 \/ /\ m_rtag[s][u] < m_nparticles[s]
                    /\ ptl[s][m_rtag[s][u]].tag = u
                 \/ /\ m_rtag[s][u] - m_nparticles[s] \in 0 .. (m_nghosts[s] - 1)
                    /\ ghost[s][m_rtag[s][u] - m_nparticles[s]] = u
            /\ \A i \in 1 .. Len(m_recycled_tags) : m_rtag[s][m_recycled_tags[i]] = NOT_LOCAL
        BY ZenonT(60) DEF IInv, RTagsConsistent
      <3> QED BY <3>1, <3>2, Zenon
    <2>8. CASE s = r
      <3>1. 0 .. (m_nghosts'[r] - 1) = 0 .. g
        BY <1>2, <2>2, SMTT(30)
      <3> QED BY <2>3, <2>4, <2>5, <2>6, <2>8, <3>1, ZenonT(60)
    <2> QED BY <2>7, <2>8, Zenon
  <1> QED BY <1>1, <1>3, <1>4, <1>5, TagsUnchanged, ZenonT(60) DEF IInv

\* Packing the flagged particles of one rank.
LEMMA RemoveParticlesInv ==
  ASSUME IInv, NEW r \in Rank, removeParticles(r)
  PROVE  IInv'
  <1>1. PICK flagged \in SUBSET Index(r) :
          /\ ptl' = [ptl EXCEPT ![r] = Compacted(r, flagged)]
          /\ m_nparticles' = [m_nparticles EXCEPT ![r] = Cardinality(Kept(r, flagged))]
          /\ m_rtag' = [m_rtag EXCEPT ![r] = RTagCompacted(r, flagged, @)]
          /\ transit' = transit \union {ptl[r][i] : i \in flagged}
    BY Zenon DEF removeParticles
  <1>2. m_nghosts[r] = 0 /\ UNCHANGED <<ghost, m_nghosts, tags, cache>>
    BY Zenon DEF removeParticles
  <1> DEFINE m == Cardinality(Kept(r, flagged))
             c == Compacted(r, flagged)
             R == RTagCompacted(r, flagged, m_rtag[r])
  <1>3. /\ DOMAIN ptl = Rank /\ m_nparticles \in [Rank -> Nat] /\ m_rtag \in [Rank -> RTagArray]
        /\ \A s \in Rank : ptl[s] \in [Index(s) -> Particle]
        /\ m_recycled_tags \in Seq(Tag) /\ rtag_size \in 0 .. MaxTags /\ MaxTags \in Nat
    BY ParticleDataAssumption, Zenon DEF IInv, TypeOK, RTagArray
  <1>4. m_rtag[r] \in RTagArray
    BY <1>3, Zenon
  <1>5. /\ m \in Nat /\ c \in Particles(m) /\ R \in RTagArray
        /\ \A i \in 0 .. (m - 1) : \E k \in Kept(r, flagged) : c[i] = ptl[r][k]
        /\ \A k \in Kept(r, flagged) : \E i \in 0 .. (m - 1) : c[i] = ptl[r][k]
        /\ \A i \in 0 .. (m - 1) : R[c[i].tag] = i
        /\ \A k \in flagged : R[ptl[r][k].tag] = NOT_LOCAL
        /\ \A t \in Tag : (\A k \in Index(r) : ptl[r][k].tag # t) => R[t] = m_rtag[r][t]
    <2>1. Compacts(r, flagged, m_rtag[r])
      BY <1>4, CompactionKeeps, SMTT(30)
    <2> QED BY <2>1, Zenon DEF Compacts
  <1>6. /\ ptl'[r] = c /\ m_nparticles'[r] = m /\ m_rtag'[r] = R
        /\ \A s \in Rank \ {r} : /\ ptl'[s] = ptl[s] /\ m_nparticles'[s] = m_nparticles[s]
                                 /\ m_rtag'[s] = m_rtag[s] /\ Index(s)' = Index(s)
        /\ Index(r)' = 0 .. (m - 1)
    BY <1>1, <1>3, Zenon DEF Index
  <1>7. /\ DOMAIN ptl' = Rank /\ m_nparticles' \in [Rank -> Nat] /\ m_rtag' \in [Rank -> RTagArray]
    BY <1>1, <1>3, <1>5, Zenon
  <1>8. ASSUME NEW s \in Rank, NEW i \in Index(s)'
        PROVE  \E k \in Index(s) : ptl'[s][i] = ptl[s][k] /\ (s = r => k \notin flagged)
    <2>1. CASE s = r
      BY <1>5, <1>6, <2>1, Zenon DEF Kept
    <2>2. CASE s # r
      BY <1>6, <2>2, Zenon
    <2> QED BY <2>1, <2>2, Zenon
  <1>9. ASSUME NEW s \in Rank, NEW k \in Index(s)
        PROVE  (s = r /\ k \in flagged) \/ \E i \in Index(s)' : ptl'[s][i] = ptl[s][k]
    <2>1. CASE s = r /\ k \notin flagged
      <3>1. k \in Kept(r, flagged)
        BY <2>1, Zenon DEF Kept
      <3>2. PICK i \in 0 .. (m - 1) : c[i] = ptl[r][k]
        BY <1>5, <3>1, Zenon
      <3> QED BY <1>6, <2>1, <3>2, Zenon
    <2>2. CASE s # r
      BY <1>6, <2>2, ZenonT(60)
    <2> QED BY <2>1, <2>2, ZenonT(60)
  <1>10. \A i, j \in Index(r)' : ptl'[r][i].tag = ptl'[r][j].tag => i = j
    BY <1>5, <1>6, SMTT(30)
  <1>11. /\ \A p \in transit' : p \in transit \/ \E k \in flagged : p = ptl[r][k]
         /\ \A k \in flagged : ptl[r][k] \in transit'
         /\ \A p \in transit : p \in transit'
    BY <1>1, Zenon
  <1> HIDE DEF m, c, R
  <1>12. TypeOK'
    <2>1. \A s \in Rank : ptl'[s] \in [Index(s)' -> Particle]
      BY <1>3, <1>5, <1>6, ZenonT(60) DEF Particles
    <2>2. transit' \subseteq Particle
      BY <1>3, <1>11, SMTT(30) DEF IInv, TypeOK
    <2> QED BY <1>2, <1>7, <2>1, <2>2, ZenonT(60) DEF IInv, TypeOK, tags, cache, RTagArray
  <1>13. EveryParticleOnce'
    <2>1. \A s \in Rank : \A i \in Index(s)' : ptl'[s][i].tag \in m_tag_set
      BY <1>8, SMTT(30) DEF IInv, EveryParticleOnce
    <2>2. \A p \in transit' : p.tag \in m_tag_set
      BY <1>11, ZenonT(60) DEF IInv, EveryParticleOnce
    <2>3. ASSUME NEW t \in m_tag_set
          PROVE  \/ \E s \in Rank : \E i \in Index(s)' : ptl'[s][i].tag = t
                 \/ \E p \in transit' : p.tag = t
      <3>1. CASE \E s \in Rank : \E k \in Index(s) : ptl[s][k].tag = t
        <4>1. PICK s \in Rank : \E k \in Index(s) : ptl[s][k].tag = t
          BY <3>1, Zenon
        <4>2. PICK k \in Index(s) : ptl[s][k].tag = t
          BY <4>1, Zenon
        <4>3. CASE s = r /\ k \in flagged
          BY <1>11, <4>2, <4>3, Zenon
        <4>4. CASE \E i \in Index(s)' : ptl'[s][i] = ptl[s][k]
          BY <4>2, <4>4, Zenon
        <4> QED BY <1>9, <4>3, <4>4, Zenon
      <3>2. CASE \E p \in transit : p.tag = t
        BY <1>11, <3>2, Zenon
      <3> QED BY <3>1, <3>2, Zenon DEF IInv, EveryParticleOnce
    <2>4. ASSUME NEW s \in Rank, NEW q \in Rank, NEW i \in Index(s)', NEW j \in Index(q)',
                 ptl'[s][i].tag = ptl'[q][j].tag
          PROVE  s = q /\ i = j
      <3>1. PICK k \in Index(s) : ptl'[s][i] = ptl[s][k]
        BY <1>8, ZenonT(60)
      <3>2. PICK l \in Index(q) : ptl'[q][j] = ptl[q][l]
        BY <1>8, ZenonT(60)
      <3>3. s = q /\ k = l
        BY <2>4, <3>1, <3>2, TagIsUnique, SMTT(30)
      <3>4. CASE s = r
        BY <1>10, <2>4, <3>3, <3>4, ZenonT(60)
      <3>5. CASE s # r
        <4>1. i \in Index(s) /\ j \in Index(s) /\ ptl[s][i].tag = ptl[s][j].tag
          BY <1>6, <2>4, <3>3, <3>5, ZenonT(60)
        <4> QED BY <3>3, <4>1, TagIsUnique, SMTT(30)
      <3> QED BY <3>3, <3>4, <3>5, Zenon
    <2>5. ASSUME NEW s \in Rank, NEW i \in Index(s)', NEW p \in transit'
          PROVE  p.tag # ptl'[s][i].tag
      <3>1. PICK k \in Index(s) : ptl'[s][i] = ptl[s][k] /\ (s = r => k \notin flagged)
        BY <1>8, Zenon
      <3>2. CASE p \in transit
        BY <3>1, <3>2, TransitTagIsUnique, ZenonT(60)
      <3>3. CASE \E l \in flagged : p = ptl[r][l]
        <4>1. PICK l \in flagged : p = ptl[r][l]
          BY <3>3, Zenon
        <4>2. l \in Index(r) /\ k \in Index(s)
          BY <3>1, <4>1, ZenonT(60)
        <4>3. ptl[r][l].tag = ptl[s][k].tag => s = r /\ k = l
          BY <4>2, TagIsUnique, SMTT(30)
        <4> QED BY <3>1, <4>1, <4>3, ZenonT(60)
      <3> QED BY <1>11, <3>2, <3>3, Zenon
    <2>6. ASSUME NEW p \in transit', NEW q \in transit', p.tag = q.tag PROVE p = q
      BY <1>11, <2>6, SMTT(30) DEF IInv, EveryParticleOnce
    <2> QED BY <1>2, <2>1, <2>2, <2>3, <2>4, <2>5, <2>6, ZenonT(60) DEF EveryParticleOnce, tags
  <1>14. RTagsConsistent'
    <2>1. \A i \in Index(r)' : m_rtag'[r][ptl'[r][i].tag] = i
      BY <1>5, <1>6, Zenon
    <2>2. ASSUME NEW t \in 0 .. (rtag_size - 1), m_rtag'[r][t] # NOT_LOCAL
          PROVE  m_rtag'[r][t] < m_nparticles'[r] /\ ptl'[r][m_rtag'[r][t]].tag = t
      <3>0. t \in Tag
        BY <1>3, TagsOfLookup, ZenonT(60)
      <3>1. CASE \E k \in Index(r) : ptl[r][k].tag = t
        <4>1. PICK k \in Index(r) : ptl[r][k].tag = t
          BY <3>1, ZenonT(60)
        <4>2. k \notin flagged
          BY <1>5, <1>6, <2>2, <4>1, ZenonT(60)
        <4>3. PICK i \in Index(r)' : ptl'[r][i] = ptl[r][k]
          BY <1>9, <4>2, ZenonT(60)
        <4>4. m_rtag'[r][t] = i
          BY <2>1, <4>1, <4>3, ZenonT(60)
        <4>5. i \in 0 .. (m - 1) /\ m \in Nat /\ m_nparticles'[r] = m
          BY <1>5, <1>6, <4>3, ZenonT(60)
        <4>6. i < m
          BY <4>5, SMTT(30)
        <4> QED BY <4>1, <4>3, <4>4, <4>5, <4>6, ZenonT(60)
      <3>2. CASE \A k \in Index(r) : ptl[r][k].tag # t
        <4>1. m_rtag'[r][t] = m_rtag[r][t] /\ m_rtag[r][t] # NOT_LOCAL
          BY <1>5, <1>6, <2>2, <3>0, <3>2, ZenonT(60)
        <4>2. m_rtag[r][t] \in Nat
          BY <1>4, <3>0, <4>1, ZenonT(60) DEF RTagArray
        <4>3. \/ m_rtag[r][t] < m_nparticles[r] /\ ptl[r][m_rtag[r][t]].tag = t
              \/ m_rtag[r][t] - m_nparticles[r] \in 0 .. (m_nghosts[r] - 1)
          BY <4>1, ZenonT(60) DEF IInv, RTagsConsistent
        <4>a. \A i \in 0 .. (0 - 1) : FALSE
          BY SMTT(30)
        <4>b. m_rtag[r][t] < m_nparticles[r] /\ ptl[r][m_rtag[r][t]].tag = t
          BY <1>2, <4>3, <4>a, ZenonT(60)
        <4>c. m_nparticles[r] \in Nat
          BY <1>3, ZenonT(60)
        <4>4. m_rtag[r][t] \in Index(r) /\ ptl[r][m_rtag[r][t]].tag = t
          BY <4>2, <4>b, <4>c, SMTT(30) DEF Index
        <4> QED BY <3>2, <4>4, ZenonT(60)
      <3> QED BY <3>1, <3>2, Zenon
    <2>3. ASSUME NEW i \in 1 .. Len(m_recycled_tags) PROVE m_rtag'[r][m_recycled_tags[i]] = NOT_LOCAL
      <3>1. m_recycled_tags[i] \in Tag /\ m_rtag[r][m_recycled_tags[i]] = NOT_LOCAL
        BY <1>3, SMTT(30) DEF IInv, RTagsConsistent
      <3>2. \A k \in Index(r) : ptl[r][k].tag # m_recycled_tags[i]
        BY ZenonT(60) DEF IInv, TagSpace, EveryParticleOnce
      <3> QED BY <1>5, <1>6, <3>1, <3>2, ZenonT(60)
    <2> SUFFICES ASSUME NEW s \in Rank PROVE
          /\ \A i \in Index(s)' : m_rtag'[s][ptl'[s][i].tag] = i
          /\ \A i \in 0 .. (m_nghosts[s] - 1) : m_rtag'[s][ghost[s][i]] = m_nparticles'[s] + i
          /\ \A u \in 0 .. (rtag_size - 1) : m_rtag'[s][u] # NOT_LOCAL =>
               \/ /\ m_rtag'[s][u] < m_nparticles'[s]
                  /\ ptl'[s][m_rtag'[s][u]].tag = u
               \/ /\ m_rtag'[s][u] - m_nparticles'[s] \in 0 .. (m_nghosts[s] - 1)
                  /\ ghost[s][m_rtag'[s][u] - m_nparticles'[s]] = u
          /\ \A i \in 1 .. Len(m_recycled_tags) : m_rtag'[s][m_recycled_tags[i]] = NOT_LOCAL
      BY <1>2, ZenonT(60) DEF RTagsConsistent, tags
    <2>4. CASE s # r
      <3>1. /\ ptl'[s] = ptl[s] /\ m_rtag'[s] = m_rtag[s]
            /\ m_nparticles'[s] = m_nparticles[s] /\ Index(s)' = Index(s)
        BY <1>6, <2>4, Zenon
      <3>2. /\ \A i \in Index(s) : m_rtag[s][ptl[s][i].tag] = i
            /\ \A i \in 0 .. (m_nghosts[s] - 1) : m_rtag[s][ghost[s][i]] = m_nparticles[s] + i
            /\ \A u \in 0 .. (rtag_size - 1) : m_rtag[s][u] # NOT_LOCAL =>
                 \/ /\ m_rtag[s][u] < m_nparticles[s]
                    /\ ptl[s][m_rtag[s][u]].tag = u
                 \/ /\ m_rtag[s][u] - m_nparticles[s] \in 0 .. (m_nghosts[s] - 1)
                    /\ ghost[s][m_rtag[s][u] - m_nparticles[s]] = u
            /\ \A i \in 1 .. Len(m_recycled_tags) : m_rtag[s][m_recycled_tags[i]] = NOT_LOCAL
        BY ZenonT(60) DEF IInv, RTagsConsistent
      <3> QED BY <3>1, <3>2, Zenon
    <2>5. CASE s = r
      <3>1. \A i \in 0 .. (0 - 1) : FALSE
        BY SMTT(30)
      <3>2. \A i \in 0 .. (m_nghosts[r] - 1) : FALSE
        BY <1>2, <3>1, Zenon
      <3> QED BY <2>1, <2>2, <2>3, <2>5, <3>2, Zenon
    <2> QED BY <2>4, <2>5, ZenonT(60)
  <1> QED BY <1>2, <1>12, <1>13, <1>14, TagsUnchanged, ZenonT(60) DEF IInv

\* Unpacking a received particle on one rank.
LEMMA AddParticlesInv ==
  ASSUME IInv, NEW r \in Rank, addParticles(r)
  PROVE  IInv'
  <1> DEFINE n == m_nparticles[r]
  <1>1. PICK p \in transit :
          /\ ptl' = [ptl EXCEPT ![r] = Appended(@, n, p)]
          /\ m_nparticles' = [m_nparticles EXCEPT ![r] = @ + 1]
          /\ m_rtag' = [m_rtag EXCEPT ![r] = RTagOf(@, ptl'[r], m_nparticles'[r])]
          /\ transit' = transit \ {p}
    BY Zenon DEF addParticles
  <1>2. m_nghosts[r] = 0 /\ UNCHANGED <<ghost, m_nghosts, tags, cache>>
    BY Zenon DEF addParticles
  <1> DEFINE F == Appended(ptl[r], n, p)
             R == RTagOf(m_rtag[r], F, n + 1)
  <1>3. /\ DOMAIN ptl = Rank /\ m_nparticles \in [Rank -> Nat] /\ m_rtag \in [Rank -> RTagArray]
        /\ \A s \in Rank : ptl[s] \in [Index(s) -> Particle]
        /\ m_recycled_tags \in Seq(Tag) /\ rtag_size \in 0 .. MaxTags /\ MaxTags \in Nat
        /\ transit \subseteq Particle
    BY ParticleDataAssumption, Zenon DEF IInv, TypeOK, RTagArray
  <1>4. n \in Nat /\ ptl[r] \in Particles(n) /\ p \in Particle /\ m_rtag[r] \in RTagArray
        /\ Index(r) = 0 .. (n - 1)
    BY <1>3, Zenon DEF Particles, Index
  <1>5. /\ \A i, j \in 0 .. (n - 1) : ptl[r][i].tag = ptl[r][j].tag => i = j
        /\ \A i \in 0 .. (n - 1) : ptl[r][i].tag # p.tag
    <2>1. \A i, j \in 0 .. (n - 1) : ptl[r][i].tag = ptl[r][j].tag => i = j
      BY <1>4, TagIsUnique, SMTT(30)
    <2>2. \A i \in 0 .. (n - 1) : ptl[r][i].tag # p.tag
      BY <1>4, TransitTagIsUnique, ZenonT(60)
    <2> QED BY <2>1, <2>2, ZenonT(60)
  <1>6. /\ F \in Particles(n + 1) /\ R \in RTagArray
        /\ F[n] = p /\ R[p.tag] = n
        /\ \A i \in 0 .. (n - 1) : F[i] = ptl[r][i] /\ R[ptl[r][i].tag] = i
        /\ \A t \in Tag : t # p.tag /\ (\A i \in 0 .. (n - 1) : ptl[r][i].tag # t) => R[t] = m_rtag[r][t]
    <2> DEFINE f == ptl[r]
               rtag == m_rtag[r]
    <2>1. n \in Nat /\ f \in Particles(n) /\ p \in Particle /\ rtag \in RTagArray
      BY <1>4, Zenon
    <2>2. /\ \A i, j \in 0 .. (n - 1) : f[i].tag = f[j].tag => i = j
          /\ \A i \in 0 .. (n - 1) : f[i].tag # p.tag
      BY <1>5, Zenon
    <2> HIDE DEF n, f, rtag
    <2>3. IsAppended(n, f, p, rtag, Appended(f, n, p), RTagOf(rtag, Appended(f, n, p), n + 1))
      BY <2>1, <2>2, AppendOne, ZenonT(60)
    <2> QED BY <2>3, Zenon DEF f, rtag, IsAppended
  <1>7. /\ ptl'[r] = F /\ m_nparticles'[r] = n + 1 /\ m_rtag'[r] = R
        /\ \A s \in Rank \ {r} : /\ ptl'[s] = ptl[s] /\ m_nparticles'[s] = m_nparticles[s]
                                 /\ m_rtag'[s] = m_rtag[s] /\ Index(s)' = Index(s)
    BY <1>1, <1>3, ZenonT(60) DEF Index
  <1>8. Index(r)' = 0 .. n /\ (\A i \in 0 .. n : i = n \/ i \in 0 .. (n - 1)) /\ n \in 0 .. n
        /\ \A i \in 0 .. (n - 1) : i \in 0 .. n
    <2>1. Index(r)' = 0 .. ((n + 1) - 1) /\ n \in Nat
      BY <1>4, <1>7, ZenonT(60) DEF Index
    <2> HIDE DEF n
    <2>2. n \in Nat => /\ 0 .. ((n + 1) - 1) = 0 .. n /\ n \in 0 .. n
                       /\ \A i \in 0 .. n : i = n \/ i \in 0 .. (n - 1)
                       /\ \A i \in 0 .. (n - 1) : i \in 0 .. n
      BY SMTT(30)
    <2> QED BY <2>1, <2>2, ZenonT(60)
  <1>9. /\ DOMAIN ptl' = Rank /\ m_nparticles' \in [Rank -> Nat] /\ m_rtag' \in [Rank -> RTagArray]
    <2> HIDE DEF F, R
    <2>1. m_rtag' = [m_rtag EXCEPT ![r] = R]
      BY <1>1, <1>3, <1>7, ZenonT(60) DEF F, R
    <2>2. m_rtag' \in [Rank -> RTagArray]
      BY <1>3, <1>6, <2>1, ZenonT(60)
    <2>3. n + 1 \in Nat /\ m_nparticles' = [m_nparticles EXCEPT ![r] = n + 1]
      BY <1>1, <1>4, SMTT(30)
    <2>4. m_nparticles' \in [Rank -> Nat]
      BY <1>3, <2>3, ZenonT(60)
    <2> QED BY <1>1, <1>3, <2>2, <2>4, ZenonT(60)
  <1> HIDE DEF F, R, n
  <1>10. ASSUME NEW s \in Rank, NEW i \in Index(s)'
         PROVE  (s = r /\ i = n /\ ptl'[s][i] = p) \/ (i \in Index(s) /\ ptl'[s][i] = ptl[s][i])
    <2>1. CASE s = r
      BY <1>4, <1>6, <1>7, <1>8, <2>1, ZenonT(60)
    <2>2. CASE s # r
      BY <1>7, <2>2, ZenonT(60)
    <2> QED BY <2>1, <2>2, ZenonT(60)
  <1>11. ASSUME NEW s \in Rank, NEW i \in Index(s)
         PROVE  i \in Index(s)' /\ ptl'[s][i] = ptl[s][i]
    <2>1. CASE s = r
      BY <1>4, <1>6, <1>7, <1>8, <2>1, ZenonT(60)
    <2>2. CASE s # r
      BY <1>7, <2>2, ZenonT(60)
    <2> QED BY <2>1, <2>2, ZenonT(60)
  <1>12. TypeOK'
    <2>1. \A s \in Rank : ptl'[s] \in [Index(s)' -> Particle]
      <3>1. F \in [0 .. n -> Particle]
        <4>1. 0 .. ((n + 1) - 1) = 0 .. n
          BY <1>4, SMTT(30)
        <4> QED BY <1>6, <4>1, ZenonT(60) DEF Particles
      <3> QED BY <1>3, <1>7, <1>8, <3>1, ZenonT(60)
    <2>2. transit' \subseteq Particle
      BY <1>1, <1>3, ZenonT(60)
    <2> QED BY <1>2, <1>9, <2>1, <2>2, ZenonT(60) DEF IInv, TypeOK, tags, cache, RTagArray
  <1>13. EveryParticleOnce'
    <2>1. \A s \in Rank : \A i \in Index(s)' : ptl'[s][i].tag \in m_tag_set
      BY <1>10, SMTT(30) DEF IInv, EveryParticleOnce
    <2>2. \A q \in transit' : q.tag \in m_tag_set
      BY <1>1, Zenon DEF IInv, EveryParticleOnce
    <2>3. ASSUME NEW t \in m_tag_set
          PROVE  \/ \E s \in Rank : \E i \in Index(s)' : ptl'[s][i].tag = t
                 \/ \E q \in transit' : q.tag = t
      <3>1. CASE \E s \in Rank : \E k \in Index(s) : ptl[s][k].tag = t
        BY <1>11, <3>1, ZenonT(60)
      <3>2. CASE \E q \in transit : q.tag = t
        <4>1. PICK q \in transit : q.tag = t
          BY <3>2, ZenonT(60)
        <4>2. CASE q = p
          BY <1>6, <1>7, <1>8, <4>1, <4>2, ZenonT(60)
        <4>3. CASE q # p
          BY <1>1, <4>1, <4>3, ZenonT(60)
        <4> QED BY <4>2, <4>3, ZenonT(60)
      <3> QED BY <3>1, <3>2, ZenonT(60) DEF IInv, EveryParticleOnce
    <2>4. ASSUME NEW s \in Rank, NEW q \in Rank, NEW i \in Index(s)', NEW j \in Index(q)',
                 ptl'[s][i].tag = ptl'[q][j].tag
          PROVE  s = q /\ i = j
      <3>1. CASE i \in Index(s) /\ ptl'[s][i] = ptl[s][i] /\ j \in Index(q) /\ ptl'[q][j] = ptl[q][j]
        BY <2>4, <3>1, TagIsUnique, SMTT(30)
      <3>2. CASE s = r /\ i = n /\ ptl'[s][i] = p /\ j \in Index(q) /\ ptl'[q][j] = ptl[q][j]
        BY <2>4, <3>2, TransitTagIsUnique, ZenonT(60)
      <3>3. CASE q = r /\ j = n /\ ptl'[q][j] = p /\ i \in Index(s) /\ ptl'[s][i] = ptl[s][i]
        BY <2>4, <3>3, TransitTagIsUnique, ZenonT(60)
      <3> QED BY <1>10, <3>1, <3>2, <3>3, ZenonT(60)
    <2>5. ASSUME NEW s \in Rank, NEW i \in Index(s)', NEW q \in transit'
          PROVE  q.tag # ptl'[s][i].tag
      <3>1. q \in transit /\ q # p
        BY <1>1, ZenonT(60)
      <3>2. q.tag # p.tag
        BY <3>1, Zenon DEF IInv, EveryParticleOnce
      <3>3. i \in Index(s) => q.tag # ptl[s][i].tag
        BY <3>1, TransitTagIsUnique, ZenonT(60)
      <3> QED BY <1>10, <3>2, <3>3, ZenonT(60)
    <2>6. ASSUME NEW q1 \in transit', NEW q2 \in transit', q1.tag = q2.tag PROVE q1 = q2
      BY <1>1, <2>6, ZenonT(60) DEF IInv, EveryParticleOnce
    <2> QED BY <1>2, <2>1, <2>2, <2>3, <2>4, <2>5, <2>6, ZenonT(60) DEF EveryParticleOnce, tags
  <1>14. RTagsConsistent'
    <2>1. \A i \in Index(r)' : m_rtag'[r][ptl'[r][i].tag] = i
      BY <1>6, <1>7, <1>8, ZenonT(60)
    <2>2. ASSUME NEW t \in 0 .. (rtag_size - 1), m_rtag'[r][t] # NOT_LOCAL
          PROVE  m_rtag'[r][t] < m_nparticles'[r] /\ ptl'[r][m_rtag'[r][t]].tag = t
      <3>0. t \in Tag
        BY <1>3, TagsOfLookup, ZenonT(60)
      <3>1. CASE \E k \in Index(r)' : ptl'[r][k].tag = t
        <4>1. PICK k \in Index(r)' : ptl'[r][k].tag = t
          BY <3>1, ZenonT(60)
        <4>2. m_rtag'[r][t] = k
          BY <2>1, <4>1, ZenonT(60)
        <4>3. k \in 0 .. n /\ n \in Nat /\ m_nparticles'[r] = n + 1
          BY <1>4, <1>7, <1>8, <4>1, ZenonT(60)
        <4>4. k < n + 1
          BY <4>3, SMTT(30)
        <4> QED BY <4>1, <4>2, <4>3, <4>4, ZenonT(60)
      <3>2. CASE \A k \in Index(r)' : ptl'[r][k].tag # t
        <4>1. t # p.tag /\ \A i \in 0 .. (n - 1) : ptl[r][i].tag # t
          BY <1>6, <1>7, <1>8, <3>2, ZenonT(60)
        <4>2. m_rtag'[r][t] = m_rtag[r][t] /\ m_rtag[r][t] # NOT_LOCAL
          BY <1>6, <1>7, <2>2, <3>0, <4>1, ZenonT(60)
        <4>3. m_rtag[r][t] \in Nat
          BY <1>4, <3>0, <4>2, ZenonT(60) DEF RTagArray
        <4>4. \/ m_rtag[r][t] < m_nparticles[r] /\ ptl[r][m_rtag[r][t]].tag = t
              \/ m_rtag[r][t] - m_nparticles[r] \in 0 .. (m_nghosts[r] - 1)
          BY <4>2, ZenonT(60) DEF IInv, RTagsConsistent
        <4>a. \A i \in 0 .. (0 - 1) : FALSE
          BY SMTT(30)
        <4>b. m_rtag[r][t] < n /\ ptl[r][m_rtag[r][t]].tag = t /\ n \in Nat
          BY <1>2, <1>4, <4>4, <4>a, ZenonT(60) DEF n
        <4>5. m_rtag[r][t] \in 0 .. (n - 1) /\ ptl[r][m_rtag[r][t]].tag = t
          BY <4>3, <4>b, SMTT(30)
        <4> QED BY <4>1, <4>5, ZenonT(60)
      <3> QED BY <3>1, <3>2, ZenonT(60)
    <2>3. ASSUME NEW i \in 1 .. Len(m_recycled_tags) PROVE m_rtag'[r][m_recycled_tags[i]] = NOT_LOCAL
      <3>1. m_recycled_tags[i] \in Tag /\ m_rtag[r][m_recycled_tags[i]] = NOT_LOCAL
        BY <1>3, SMTT(30) DEF IInv, RTagsConsistent
      <3>2. /\ \A k \in 0 .. (n - 1) : ptl[r][k].tag # m_recycled_tags[i]
            /\ p.tag # m_recycled_tags[i]
        BY <1>4, ZenonT(60) DEF IInv, TagSpace, EveryParticleOnce
      <3> QED BY <1>6, <1>7, <3>1, <3>2, ZenonT(60)
    <2> SUFFICES ASSUME NEW s \in Rank PROVE
          /\ \A i \in Index(s)' : m_rtag'[s][ptl'[s][i].tag] = i
          /\ \A i \in 0 .. (m_nghosts[s] - 1) : m_rtag'[s][ghost[s][i]] = m_nparticles'[s] + i
          /\ \A u \in 0 .. (rtag_size - 1) : m_rtag'[s][u] # NOT_LOCAL =>
               \/ /\ m_rtag'[s][u] < m_nparticles'[s]
                  /\ ptl'[s][m_rtag'[s][u]].tag = u
               \/ /\ m_rtag'[s][u] - m_nparticles'[s] \in 0 .. (m_nghosts[s] - 1)
                  /\ ghost[s][m_rtag'[s][u] - m_nparticles'[s]] = u
          /\ \A i \in 1 .. Len(m_recycled_tags) : m_rtag'[s][m_recycled_tags[i]] = NOT_LOCAL
      BY <1>2, SMTT(30) DEF RTagsConsistent, tags
    <2>4. CASE s # r
      <3>1. /\ ptl'[s] = ptl[s] /\ m_rtag'[s] = m_rtag[s]
            /\ m_nparticles'[s] = m_nparticles[s] /\ Index(s)' = Index(s)
        BY <1>7, <2>4, ZenonT(60) DEF Index
      <3>2. /\ \A i \in Index(s) : m_rtag[s][ptl[s][i].tag] = i
            /\ \A i \in 0 .. (m_nghosts[s] - 1) : m_rtag[s][ghost[s][i]] = m_nparticles[s] + i
            /\ \A u \in 0 .. (rtag_size - 1) : m_rtag[s][u] # NOT_LOCAL =>
                 \/ /\ m_rtag[s][u] < m_nparticles[s]
                    /\ ptl[s][m_rtag[s][u]].tag = u
                 \/ /\ m_rtag[s][u] - m_nparticles[s] \in 0 .. (m_nghosts[s] - 1)
                    /\ ghost[s][m_rtag[s][u] - m_nparticles[s]] = u
            /\ \A i \in 1 .. Len(m_recycled_tags) : m_rtag[s][m_recycled_tags[i]] = NOT_LOCAL
        BY ZenonT(60) DEF IInv, RTagsConsistent
      <3> QED BY <3>1, <3>2, ZenonT(60)
    <2>5. CASE s = r
      <3>1. \A i \in 0 .. (0 - 1) : FALSE
        BY SMTT(30)
      <3>2. \A i \in 0 .. (m_nghosts[r] - 1) : FALSE
        BY <1>2, <3>1, ZenonT(60)
      <3> QED BY <2>1, <2>2, <2>3, <2>5, <3>2, ZenonT(60)
    <2> QED BY <2>4, <2>5, ZenonT(60)
  <1> QED BY <1>2, <1>12, <1>13, <1>14, TagsUnchanged, Zenon DEF IInv

\* setPosition() stores the position and moves the particle to its new owner.
LEMMA SetPositionInv ==
  ASSUME IInv, NEW t \in Tag, NEW d \in Rank, NEW move \in BOOLEAN, setPosition(t, d, move)
  PROVE  IInv'
  <1>0. getOwnerRank(t) \in Rank /\ m_rtag[getOwnerRank(t)][t] \in Index(getOwnerRank(t))
    BY Zenon DEF setPosition, OwnedByOne, getOwnerRank, isLocal
  <1>a. PICK r \in Rank : r = getOwnerRank(t)
    BY <1>0, Zenon
  <1>1. PICK k \in Index(r) : r = getOwnerRank(t) /\ k = m_rtag[r][t]
    BY <1>0, <1>a, Zenon
  <1> DEFINE p == [ptl[r][k] EXCEPT !.pos = d]
  <1>2. /\ DOMAIN ptl = Rank /\ m_nparticles \in [Rank -> Nat]
        /\ \A s \in Rank : ptl[s] \in [Index(s) -> Particle]
        /\ m_recycled_tags \in Seq(Tag) /\ rtag_size \in 0 .. MaxTags /\ MaxTags \in Nat
    BY ParticleDataAssumption, Zenon DEF IInv, TypeOK, RTagArray
  <1>3. p \in Particle /\ p.tag = ptl[r][k].tag
    <2>1. ptl[r][k] \in Particle
      BY <1>1, <1>2, Zenon
    <2> QED BY <2>1, Zenon DEF Particle
  <1>4. transit = {} /\ t < rtag_size /\ UNCHANGED <<tags, cache, transit>>
    BY Zenon DEF setPosition
  <1>5. ptl[r][k].tag = t
    <2>1. t \in 0 .. (rtag_size - 1) /\ k # NOT_LOCAL /\ ~(k - m_nparticles[r] \in 0 .. (m_nghosts[r] - 1))
      <3>1. m_nparticles[r] \in Nat /\ rtag_size \in 0 .. MaxTags /\ MaxTags \in Nat
        BY <1>2, Zenon
      <3>2. t \in 0 .. (rtag_size - 1)
        BY <1>4, <3>1, SMTT(30) DEF Tag
      <3>3. k # NOT_LOCAL /\ ~(k - m_nparticles[r] \in 0 .. (m_nghosts[r] - 1))
        BY <3>1, SMTT(30) DEF NOT_LOCAL, Index
      <3> QED BY <3>2, <3>3, Zenon
    <2> QED BY <1>1, <2>1, ZenonT(60) DEF IInv, RTagsConsistent
  <1>b. /\ t \in m_tag_set /\ \A s \in Rank : \A l \in Index(s) : ptl[s][l].tag \in m_tag_set
        /\ \A s \in Rank : \A l \in Index(s) : ptl[s][l].tag = t => s = r /\ l = k
    <2>1. \A s \in Rank : \A l \in Index(s) : ptl[s][l].tag \in m_tag_set
      BY Zenon DEF IInv, EveryParticleOnce
    <2>2. ASSUME NEW s \in Rank, NEW l \in Index(s), ptl[s][l].tag = t
          PROVE  s = r /\ l = k
      BY <1>5, <2>2, TagIsUnique, SMTT(30)
    <2> QED BY <1>5, <2>1, <2>2, ZenonT(60)
  <1>6. CASE d = r \/ ~move
    <2>1. /\ ptl' = [ptl EXCEPT ![r] = [@ EXCEPT ![k] = p]]
          /\ UNCHANGED <<m_nparticles, m_rtag, ghost, m_nghosts>>
      BY <1>1, <1>6, ZenonT(60) DEF setPosition
    <2> HIDE DEF p
    <2> QED BY <1>1, <1>3, <1>4, <2>1, AttributeSet, ZenonT(60)
  <1>7. CASE d # r /\ move
    <2> DEFINE Kp == Kept(r, {k})
               m == Cardinality(Kp)
               c == Compacted(r, {k})
               n == m_nparticles[d]
               F == Appended(ptl[d], n, p)
               R1 == RTagCompacted(r, {k}, RTagWithoutGhosts(r))
               R2 == RTagOf(RTagWithoutGhosts(d), F, n + 1)
    <2>1. /\ ptl' = [ptl EXCEPT ![r] = c, ![d] = F]
          /\ m_nparticles' = [m_nparticles EXCEPT ![r] = m, ![d] = n + 1]
          /\ m_nghosts' = [s \in Rank |-> 0] /\ ghost' = [s \in Rank |-> [i \in {} |-> 0]]
      BY <1>1, <1>2, <1>7, ZenonT(60) DEF setPosition, removeAllGhostParticles
    <2>2. /\ ptl'[r] = c /\ ptl'[d] = F /\ m_nparticles'[r] = m /\ m_nparticles'[d] = n + 1
          /\ \A s \in Rank \ {r, d} : ptl'[s] = ptl[s] /\ Index(s)' = Index(s)
          /\ DOMAIN ptl' = Rank
      BY <1>1, <1>2, <1>7, <2>1, ZenonT(60) DEF Index
    <2>3. m_rtag' = [s \in Rank |-> CASE s = r -> R1
                                      [] s = d -> RTagOf(RTagWithoutGhosts(d), ptl'[d], m_nparticles'[d])
                                      [] OTHER -> RTagWithoutGhosts(s)]
      BY <1>1, <1>7, ZenonT(60) DEF setPosition
    <2>4. /\ m_rtag'[r] = R1 /\ m_rtag'[d] = R2
          /\ \A s \in Rank \ {r, d} : m_rtag'[s] = RTagWithoutGhosts(s)
          /\ m_rtag' = [s \in Rank |-> m_rtag'[s]]
      BY <1>1, <1>7, <2>2, <2>3, ZenonT(60)
    <2>5. /\ RTagWithoutGhosts(r) \in RTagArray /\ RTagWithoutGhosts(d) \in RTagArray
          /\ {k} \in SUBSET Index(r)
      BY <1>1, WithoutGhosts, ZenonT(60)
    <2>6. /\ m \in Nat /\ c \in Particles(m) /\ R1 \in RTagArray
          /\ \A i \in 0 .. (m - 1) : \E l \in Kp : c[i] = ptl[r][l]
          /\ \A l \in Kp : \E i \in 0 .. (m - 1) : c[i] = ptl[r][l]
          /\ \A i \in 0 .. (m - 1) : R1[c[i].tag] = i
          /\ R1[t] = NOT_LOCAL
          /\ \A u \in Tag : (\A l \in Index(r) : ptl[r][l].tag # u) => R1[u] = RTagWithoutGhosts(r)[u]
      <3> DEFINE flagged == {k}
                 rtag == RTagWithoutGhosts(r)
      <3>1. flagged \in SUBSET Index(r) /\ rtag \in RTagArray /\ k \in flagged
        BY <2>5, ZenonT(60)
      <3> HIDE DEF flagged, rtag
      <3>2. Compacts(r, flagged, rtag)
        BY <3>1, CompactionKeeps, SMTT(30)
      <3> QED BY <1>5, <3>1, <3>2, ZenonT(60) DEF Compacts, flagged, rtag
    <2>7. n \in Nat /\ ptl[d] \in Particles(n) /\ Index(d) = 0 .. (n - 1)
      BY <1>2, ZenonT(60) DEF Particles, Index
    <2>8. /\ \A i, j \in 0 .. (n - 1) : ptl[d][i].tag = ptl[d][j].tag => i = j
          /\ \A i \in 0 .. (n - 1) : ptl[d][i].tag # p.tag
      <3>1. \A i \in Index(d) : ptl[d][i].tag # ptl[r][k].tag
        BY <1>7, ZenonT(60) DEF IInv, EveryParticleOnce
      <3>2. \A i, j \in Index(d) : ptl[d][i].tag = ptl[d][j].tag => i = j
        BY TagIsUnique, ZenonT(60)
      <3> QED BY <1>3, <2>7, <3>1, <3>2, ZenonT(60)
    <2>9. /\ F \in Particles(n + 1) /\ R2 \in RTagArray
          /\ F[n] = p /\ R2[p.tag] = n
          /\ \A i \in 0 .. (n - 1) : F[i] = ptl[d][i] /\ R2[ptl[d][i].tag] = i
          /\ \A u \in Tag : u # p.tag /\ (\A i \in 0 .. (n - 1) : ptl[d][i].tag # u) =>
                              R2[u] = RTagWithoutGhosts(d)[u]
      <3> DEFINE f == ptl[d]
                 rtag == RTagWithoutGhosts(d)
      <3>1. n \in Nat /\ f \in Particles(n) /\ p \in Particle /\ rtag \in RTagArray
        BY <1>3, <2>5, <2>7, ZenonT(60)
      <3>2. /\ \A i, j \in 0 .. (n - 1) : f[i].tag = f[j].tag => i = j
            /\ \A i \in 0 .. (n - 1) : f[i].tag # p.tag
        BY <2>8, Zenon
      <3> HIDE DEF n, f, rtag, p
      <3>3. IsAppended(n, f, p, rtag, Appended(f, n, p), RTagOf(rtag, Appended(f, n, p), n + 1))
        BY <3>1, <3>2, AppendOne, ZenonT(60)
      <3> QED BY <3>3, Zenon DEF f, rtag, IsAppended
    <2>10. p.tag = t
      BY <1>3, <1>5, ZenonT(60)
    <2>11. /\ Index(r)' = 0 .. (m - 1) /\ Index(d)' = 0 .. n
           /\ \A i \in 0 .. n : i = n \/ i \in 0 .. (n - 1)
           /\ n \in 0 .. n /\ \A i \in 0 .. (n - 1) : i \in 0 .. n
      BY <2>2, <2>6, <2>7, SMTT(30) DEF Index
    <2>12. \A l \in Kp : l \in Index(r) /\ l # k
      BY Zenon DEF Kept
    <2>13. \A l \in Index(r) : l = k \/ l \in Kp
      BY Zenon DEF Kept
    <2> HIDE DEF p, Kp, m, c, n, F, R1, R2
    <2>14. m_nparticles' \in [Rank -> Nat] /\ m_rtag' \in [Rank -> RTagArray]
      <3>1. \A s \in Rank : m_rtag'[s] \in RTagArray
        <4>1. ASSUME NEW s \in Rank PROVE m_rtag'[s] \in RTagArray
          <5>1. CASE s = r
            BY <2>4, <2>6, <5>1, ZenonT(60)
          <5>2. CASE s = d
            BY <2>4, <2>9, <5>2, ZenonT(60)
          <5>3. CASE s # r /\ s # d
            <6>1. RTagWithoutGhosts(s) \in RTagArray
              BY WithoutGhosts, ZenonT(60)
            <6>2. m_rtag'[s] = RTagWithoutGhosts(s)
              BY <2>4, <5>3, ZenonT(60)
            <6> QED BY <6>1, <6>2, ZenonT(60)
          <5> QED BY <5>1, <5>2, <5>3, ZenonT(60)
        <4> QED BY <4>1, Zenon
      <3>2. m_rtag' \in [Rank -> RTagArray]
        BY <2>4, <3>1, ZenonT(60)
      <3>3. n + 1 \in Nat
        BY <2>7, SMTT(30)
      <3> QED BY <1>2, <2>1, <2>6, <3>2, <3>3, ZenonT(60)
    <2>15. \A s \in Rank : ptl'[s] \in [Index(s)' -> Particle]
      <3>1. F \in [0 .. n -> Particle]
        <4>1. 0 .. ((n + 1) - 1) = 0 .. n
          BY <2>7
        <4> QED BY <2>9, <4>1, ZenonT(60) DEF Particles
      <3>2. c \in [0 .. (m - 1) -> Particle]
        BY <2>6, Zenon DEF Particles
      <3> QED BY <1>2, <2>2, <2>11, <3>1, <3>2, ZenonT(60)
    (* Every particle afterwards is one from before, on its rank; the moved one is on d. *)
    <2>16. ASSUME NEW s \in Rank, NEW i \in Index(s)'
           PROVE  \/ \E l \in Index(s) : ptl'[s][i] = ptl[s][l] /\ ptl[s][l].tag # t
                  \/ s = d /\ i = n /\ ptl'[s][i].tag = t
      <3>1. CASE s = r
        <4>1. PICK l \in Kp : c[i] = ptl[r][l]
          BY <2>6, <2>11, <3>1, ZenonT(60)
        <4>2. ptl[r][l].tag # t
          BY <1>b, <2>12, ZenonT(60)
        <4> QED BY <2>2, <2>12, <3>1, <4>1, <4>2, ZenonT(60)
      <3>2. CASE s = d
        <4>1. CASE i = n
          BY <2>2, <2>9, <2>10, <3>2, <4>1, ZenonT(60)
        <4>2. CASE i \in 0 .. (n - 1)
          BY <2>2, <2>7, <2>8, <2>9, <2>10, <3>2, <4>2, ZenonT(60)
        <4> QED BY <2>11, <3>2, <4>1, <4>2, ZenonT(60)
      <3>3. CASE s # r /\ s # d
        <4>1. i \in Index(s) /\ ptl'[s][i] = ptl[s][i]
          BY <2>2, <3>3, ZenonT(60)
        <4>2. ptl[s][i].tag # t
          BY <1>b, <3>3, <4>1, ZenonT(60)
        <4> QED BY <4>1, <4>2, ZenonT(60)
      <3> QED BY <3>1, <3>2, <3>3, ZenonT(60)
    <2>17. ASSUME NEW s \in Rank, NEW l \in Index(s), ptl[s][l].tag # t
           PROVE  \E i \in Index(s)' : ptl'[s][i] = ptl[s][l]
      <3>1. CASE s = r
        BY <1>5, <2>2, <2>6, <2>11, <2>13, <2>17, <3>1, ZenonT(60)
      <3>2. CASE s = d
        BY <2>2, <2>7, <2>9, <2>11, <3>2, ZenonT(60)
      <3>3. CASE s # r /\ s # d
        BY <2>2, <3>3, ZenonT(60)
      <3> QED BY <3>1, <3>2, <3>3, ZenonT(60)
    <2>18. \E i \in Index(d)' : ptl'[d][i].tag = t
      BY <2>2, <2>9, <2>10, <2>11, ZenonT(60)
    <2>19. \A s \in Rank : \A i \in Index(s)' :
              m_rtag'[s][ptl'[s][i].tag] = i /\ ptl'[s][i].tag \in m_tag_set
      <3> SUFFICES ASSUME NEW s \in Rank, NEW i \in Index(s)'
                   PROVE  m_rtag'[s][ptl'[s][i].tag] = i /\ ptl'[s][i].tag \in m_tag_set
        BY Zenon
      <3>1. ptl'[s][i].tag \in m_tag_set
        <4>1. ptl'[s][i].tag = t \/ \E l \in Index(s) : ptl'[s][i] = ptl[s][l]
          BY <2>16, ZenonT(60)
        <4> QED BY <1>b, <4>1, ZenonT(60)
      <3>2. CASE s = r
        BY <2>2, <2>4, <2>6, <2>11, <3>1, <3>2, ZenonT(60)
      <3>3. CASE s = d
        BY <2>2, <2>4, <2>9, <2>11, <3>1, <3>3, ZenonT(60)
      <3>4. CASE s # r /\ s # d
        <4>1. i \in Index(s) /\ ptl'[s] = ptl[s] /\ m_rtag'[s] = RTagWithoutGhosts(s)
          BY <2>2, <2>4, <3>4, ZenonT(60)
        <4>2. RTagWithoutGhosts(s)[ptl[s][i].tag] = i
          BY <4>1, WithoutGhosts, Zenon
        <4> QED BY <3>1, <4>1, <4>2, ZenonT(60)
      <3> QED BY <3>2, <3>3, <3>4, ZenonT(60)
    <2>a. ASSUME NEW s \in Rank, NEW u \in Tag, u # t, \A l \in Index(s) : ptl[s][l].tag # u
          PROVE  m_rtag'[s][u] = RTagWithoutGhosts(s)[u]
      <3>1. CASE s = r
        BY <2>4, <2>6, <2>a, <3>1, ZenonT(60)
      <3>2. CASE s = d
        BY <2>4, <2>7, <2>9, <2>10, <2>a, <3>2, ZenonT(60)
      <3>3. CASE s # r /\ s # d
        BY <2>4, <3>3, Zenon
      <3> QED BY <3>1, <3>2, <3>3, ZenonT(60)
    <2>20. ASSUME NEW s \in Rank, NEW u \in 0 .. (rtag_size - 1), m_rtag'[s][u] # NOT_LOCAL
           PROVE  m_rtag'[s][u] \in Index(s)' /\ ptl'[s][m_rtag'[s][u]].tag = u
      <3>1. CASE \E i \in Index(s)' : ptl'[s][i].tag = u
        <4>1. PICK i \in Index(s)' : ptl'[s][i].tag = u
          BY <3>1, Zenon
        <4>2. m_rtag'[s][u] = i
          BY <2>19, <4>1, Zenon
        <4> QED BY <4>1, <4>2, Zenon
      <3>2. CASE \A i \in Index(s)' : ptl'[s][i].tag # u
        <4>0. u \in Tag
          BY <1>2, TagsOfLookup, Zenon
        <4>1. CASE u = t
          <5>1. s # d
            BY <2>18, <3>2, <4>1, ZenonT(60)
          <5>2. s # r
            BY <2>4, <2>6, <2>20, <4>1, ZenonT(60)
          <5>3. m_rtag'[s][u] = RTagWithoutGhosts(s)[u]
            BY <2>4, <5>1, <5>2, ZenonT(60)
          <5>4. RTagWithoutGhosts(s)[u] \in Index(s) /\ ptl[s][RTagWithoutGhosts(s)[u]].tag = u
            BY <2>20, <5>3, WithoutGhosts, ZenonT(60)
          <5> QED BY <1>b, <4>1, <5>2, <5>4, ZenonT(60)
        <4>2. CASE u # t
          <5>1. \A l \in Index(s) : ptl[s][l].tag # u
            BY <2>17, <3>2, <4>2, ZenonT(60)
          <5>2. m_rtag'[s][u] = RTagWithoutGhosts(s)[u]
            BY <2>a, <4>0, <4>2, <5>1, Zenon
          <5> QED BY <2>20, <5>1, <5>2, WithoutGhosts, ZenonT(60)
        <4> QED BY <4>1, <4>2, Zenon
      <3> QED BY <3>1, <3>2, Zenon
    <2>21. ASSUME NEW s \in Rank, NEW i \in 1 .. Len(m_recycled_tags)
           PROVE  m_rtag'[s][m_recycled_tags[i]] = NOT_LOCAL
      <3> DEFINE u == m_recycled_tags[i]
      <3>1. u \in Tag /\ u \notin m_tag_set
        <4>1. u \in Tag
          BY <1>2, SMTT(30)
        <4> QED BY <4>1, Zenon DEF IInv, TagSpace
      <3>2. u # t /\ \A l \in Index(s) : ptl[s][l].tag # u
        BY <1>b, <3>1, Zenon
      <3>3. RTagWithoutGhosts(s)[u] = NOT_LOCAL
        BY WithoutGhosts, Zenon
      <3> HIDE DEF u
      <3>4. m_rtag'[s][u] = RTagWithoutGhosts(s)[u]
        BY <2>a, <3>1, <3>2, Zenon
      <3> QED BY <3>3, <3>4, ZenonT(60) DEF u
    <2>22. ASSUME NEW u \in m_tag_set PROVE \E s \in Rank : \E i \in Index(s)' : ptl'[s][i].tag = u
      <3>1. PICK s \in Rank : \E l \in Index(s) : ptl[s][l].tag = u
        BY <1>4, Zenon DEF IInv, EveryParticleOnce
      <3>2. PICK l \in Index(s) : ptl[s][l].tag = u
        BY <3>1, Zenon
      <3>3. CASE u = t
        BY <2>18, <3>3, Zenon
      <3>4. CASE u # t
        <4>1. PICK i \in Index(s)' : ptl'[s][i] = ptl[s][l]
          BY <2>17, <3>2, <3>4, ZenonT(60)
        <4> QED BY <3>2, <4>1, Zenon
      <3> QED BY <3>3, <3>4, Zenon
    <2>23. ASSUME NEW s \in Rank, NEW q \in Rank, NEW i \in Index(s)', NEW j \in Index(q)',
                  ptl'[s][i].tag = ptl'[q][j].tag
           PROVE  s = q
      <3>1. CASE ptl'[s][i].tag = t
        <4>1. s = d /\ q = d
          BY <2>16, <2>23, <3>1, ZenonT(60)
        <4> QED BY <4>1, Zenon
      <3>2. CASE ptl'[s][i].tag # t
        <4>1. PICK k1 \in Index(s) : ptl'[s][i] = ptl[s][k1]
          BY <2>16, <3>2, ZenonT(60)
        <4>2. PICK k2 \in Index(q) : ptl'[q][j] = ptl[q][k2]
          BY <2>16, <2>23, <3>2, ZenonT(60)
        <4> QED BY <2>23, <4>1, <4>2, TagIsUnique, SMTT(30)
      <3> QED BY <3>1, <3>2, Zenon
    <2>24. TagSpace' /\ CacheFresh'
      BY <1>4, TagsUnchanged, Zenon
    <2>25. /\ rtag_size' \in 0 .. MaxTags /\ m_nglobal' \in 0 .. MaxTags /\ m_tag_set' \subseteq Tag
           /\ m_recycled_tags' \in Seq(Tag) /\ m_invalid_cached_tags' \in BOOLEAN
           /\ m_tag_set' = m_tag_set /\ m_recycled_tags' = m_recycled_tags /\ rtag_size' = rtag_size
      BY <1>4, Zenon DEF IInv, TypeOK, tags, cache
    <2>26. GhostFreeTypes'
      BY <1>4, <2>1, <2>2, <2>14, <2>15, <2>25, ZenonT(60) DEF GhostFreeTypes
    <2>27. GhostFreeLookup'
      BY <2>19, <2>20, <2>21, <2>25, ZenonT(60) DEF GhostFreeLookup
    <2>28. GhostFreeOnce'
      BY <2>19, <2>22, <2>23, <2>25, Zenon DEF GhostFreeOnce
    <2> QED BY <2>24, <2>26, <2>27, <2>28, GhostFreeNext, ZenonT(60)
  <1> QED BY <1>6, <1>7, Zenon
=============================================================================
