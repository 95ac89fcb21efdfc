------------------------- MODULE ParticleDataProofs -------------------------
(***************************************************************************)
(* What is proved about ParticleData.tla, for any number of ranks and tags.*)
(***************************************************************************)
EXTENDS ParticleDataLemmas

\* The provers a step is given to unless it names one, with their time in seconds.
USE ZenonT(30), SMTT(30)

\* Popping the stack of recycled tags.
LEMMA Popped ==
  ASSUME NEW S, NEW s \in Seq(S), s # <<>>
  PROVE  /\ Len(s) >= 1 /\ Len(s) \in Nat
         /\ SubSeq(s, 1, Len(s) - 1) \in Seq(S)
         /\ Len(SubSeq(s, 1, Len(s) - 1)) = Len(s) - 1
         /\ \A i \in 1 .. (Len(s) - 1) : SubSeq(s, 1, Len(s) - 1)[i] = s[i]
  <1>1. Len(s) \in Nat /\ Len(s) # 0
    OBVIOUS
  <1> DEFINE n == Len(s) - 1
  <1>2. n \in Nat /\ n <= Len(s) /\ Len(s) >= 1 /\ \A i \in 1 .. n : i \in 1 .. Len(s)
    BY <1>1
  <1> HIDE DEF n
  <1>3. SubSeq(s, 1, n) = [i \in 1 .. n |-> s[i]]
    BY <1>1, <1>2, SMTT(30)
  <1>4. [i \in 1 .. n |-> s[i]] \in Seq(S) /\ Len([i \in 1 .. n |-> s[i]]) = n
    BY <1>1, <1>2
  <1> QED BY <1>1, <1>2, <1>3, <1>4, ZenonT(60) DEF n

(* The tag that addParticle() chooses is not in use, and the active and    *)
(* recycled tags it leaves still fill the tag space.                       *)
LEMMA AddParticleTags ==
  ASSUME IInv, addParticle
  PROVE  \E tag \in Tag :
           /\ tag \notin m_tag_set
           /\ m_tag_set' = m_tag_set \union {tag}
           /\ m_nglobal' \in 0 .. MaxTags /\ rtag_size' \in 0 .. MaxTags /\ m_recycled_tags' \in Seq(Tag)
           /\ \A i \in 1 .. Len(m_recycled_tags') :
                /\ i \in 1 .. Len(m_recycled_tags) /\ m_recycled_tags'[i] = m_recycled_tags[i]
                /\ m_recycled_tags'[i] # tag
           /\ TagSpace'
           /\ \A u \in rtag_size .. (rtag_size' - 1) :
                 u = tag \/ \E i \in 1 .. Len(m_recycled_tags) : m_recycled_tags[i] = u
           /\ m_rtag' = [r \in Rank |-> [RTagWithoutGhosts(r) EXCEPT
                                           ![tag] = IF r = 0 THEN m_nparticles[0] ELSE NOT_LOCAL]]
           /\ ptl' = [ptl EXCEPT ![0] = Appended(@, m_nparticles[0],
                                                 [tag |-> tag, pos |-> Origin, angmom |-> 0])]
  <1> DEFINE rec == m_recycled_tags
             l == Len(m_recycled_tags)
             full == m_nglobal + l
  <1>1. PICK tag \in Tag :
                   /\ tag = IF rec # <<>> THEN rec[l] ELSE m_nglobal
                   /\ m_recycled_tags' = IF rec # <<>> THEN SubSeq(rec, 1, l - 1) ELSE rec
                   /\ m_tag_set' = m_tag_set \union {tag}
                   /\ rtag_size' = getMaximumTag(m_tag_set') + 1
                   /\ m_rtag' = [r \in Rank |-> [RTagWithoutGhosts(r) EXCEPT
                                           ![tag] = IF r = 0 THEN m_nparticles[0] ELSE NOT_LOCAL]]
                   /\ ptl' = [ptl EXCEPT ![0] = Appended(@, m_nparticles[0],
                                                 [tag |-> tag, pos |-> Origin, angmom |-> 0])]
    BY Zenon DEF addParticle
  <1>2. m_nglobal' = m_nglobal + 1
    BY Zenon DEF addParticle
  <1>3. /\ rec \in Seq(Tag) /\ l \in Nat /\ m_nglobal \in Nat /\ MaxTags \in Nat
        /\ m_tag_set \subseteq Tag /\ rtag_size \in Nat /\ (rec # <<>> => l >= 1)
        /\ (rec = <<>> => l = 0) /\ \A i \in 1 .. l : rec[i] \in Tag
    BY ParticleDataAssumption, SMTT(30) DEF IInv, TypeOK
  <1>4. /\ \A u \in Int : u \in 0 .. (full - 1) <=>
              u \in m_tag_set \/ \E i \in 1 .. l : rec[i] = u
        /\ \A i \in 1 .. l : rec[i] \notin m_tag_set /\ \A j \in 1 .. l : rec[i] = rec[j] => i = j
        /\ \A u \in m_tag_set : u < rtag_size
        /\ (rec = <<>> => rtag_size = m_nglobal)
    <2>1. m_tag_set \union {rec[i] : i \in 1 .. l} = 0 .. (full - 1)
      BY Zenon DEF IInv, TagSpace
    <2>2. \A u : u \in 0 .. (full - 1) <=> u \in m_tag_set \/ \E i \in 1 .. l : rec[i] = u
      BY <2>1, Zenon
    <2> QED BY <2>2, ZenonT(60) DEF IInv, TagSpace
  <1>5. tag \notin m_tag_set
    <2>1. CASE rec # <<>>
      <3>1. l \in 1 .. l /\ tag = rec[l]
        BY <1>1, <1>3, <2>1, SMTT(30)
      <3> QED BY <1>4, <3>1, ZenonT(60)
    <2>2. CASE rec = <<>>
      <3>1. tag = m_nglobal /\ rtag_size = m_nglobal
        BY <1>1, <1>4, <2>2, ZenonT(60)
      <3> QED BY <1>3, <1>4, <3>1, SMTT(30)
    <2> QED BY <2>1, <2>2, Zenon
  <1> DEFINE nrec == m_recycled_tags'
             nl == Len(nrec)
  <1>6. /\ nrec \in Seq(Tag) /\ nl \in Nat /\ \A i \in 1 .. nl : nrec[i] \in Tag
        /\ \A i \in 1 .. nl : i \in 1 .. l /\ nrec[i] = rec[i] /\ nrec[i] # tag
        /\ \A i \in 1 .. l : rec[i] = tag \/ i \in 1 .. nl
    <2>1. CASE rec # <<>>
      <3>1. nrec = SubSeq(rec, 1, l - 1) /\ tag = rec[l]
        BY <1>1, <2>1, ZenonT(60)
      <3>2. nrec \in Seq(Tag) /\ nl = l - 1 /\ \A i \in 1 .. (l - 1) : nrec[i] = rec[i]
        BY <1>3, <2>1, <3>1, Popped, ZenonT(60)
      <3>3. \A i \in 1 .. (l - 1) : i \in 1 .. l /\ i # l /\ l \in 1 .. l
        BY <1>3
      <3>4. \A i \in 1 .. (l - 1) : rec[i] # rec[l]
        BY <1>4, <3>3, Zenon
      <3>5. \A i \in 1 .. l : i = l \/ i \in 1 .. (l - 1)
        BY <1>3, SMTT(30)
      <3>6. \A i \in 1 .. nl : i \in 1 .. l /\ nrec[i] = rec[i] /\ nrec[i] # tag /\ nrec[i] \in Tag
        BY <1>3, <3>1, <3>2, <3>3, <3>4, ZenonT(60)
      <3>7. \A i \in 1 .. l : rec[i] = tag \/ i \in 1 .. nl
        BY <3>1, <3>2, <3>5, ZenonT(60)
      <3>8. nl \in Nat
        BY <1>3, <2>1, <3>2, SMTT(30)
      <3> QED BY <3>2, <3>6, <3>7, <3>8, ZenonT(60)
    <2>2. CASE rec = <<>>
      BY <1>1, <1>3, <2>2
    <2> QED BY <2>1, <2>2, ZenonT(60)
  <1>7. m_nglobal' + nl = IF rec # <<>> THEN full ELSE full + 1
    <2>1. CASE rec # <<>>
      <3>1. nrec = SubSeq(rec, 1, l - 1)
        BY <1>1, <2>1, Zenon
      <3>2. nl = l - 1
        BY <1>3, <2>1, <3>1, Popped, ZenonT(60)
      <3> QED BY <1>2, <1>3, <2>1, <3>2
    <2>2. CASE rec = <<>>
      BY <1>1, <1>2, <1>3, <2>2, SMTT(30)
    <2> QED BY <2>1, <2>2, Zenon
  <1>8. PICK mx \in Tag : /\ rtag_size' = mx + 1 /\ mx \in m_tag_set'
                          /\ \A u \in m_tag_set' : u <= mx
    <2> DEFINE S == m_tag_set'
    <2>1. S \in SUBSET Tag /\ S # {} /\ rtag_size' = getMaximumTag(S) + 1
      BY <1>1, <1>3, ZenonT(60)
    <2> HIDE DEF S
    <2>2. getMaximumTag(S) \in S /\ \A u \in S : u <= getMaximumTag(S)
      BY <2>1, MaximumTag, ZenonT(60)
    <2> QED BY <2>1, <2>2, ZenonT(60) DEF S
  <1>9. mx \in Nat /\ tag \in Nat
    BY <1>3, SMTT(30) DEF Tag
  <1> HIDE DEF rec, l, nrec, nl
  <1>10. rtag_size' \in 0 .. MaxTags /\ m_nglobal' \in 0 .. MaxTags
    <2>1. m_nglobal' <= MaxTags
      <3>1. CASE rec # <<>>
        <4>1. full - 1 \in 0 .. (full - 1) /\ full - 1 \in Int
          BY <1>3, <3>1
        <4>2. full - 1 \in Tag
          BY <1>3, <1>4, <4>1, SMTT(30)
        <4> QED BY <1>2, <1>3, <3>1, <4>2, SMTT(30) DEF Tag
      <3>2. CASE rec = <<>>
        <4>1. tag = m_nglobal
          BY <1>1, <3>2, Zenon DEF rec
        <4> QED BY <1>1, <1>2, <1>3, <4>1 DEF Tag
      <3> QED BY <3>1, <3>2, Zenon
    <2> QED BY <1>2, <1>3, <1>8, <1>9, <2>1 DEF Tag
  <1>11. ASSUME NEW u \in rtag_size .. (rtag_size' - 1)
         PROVE  u = tag \/ \E i \in 1 .. l : rec[i] = u
    <2>1. u \in Nat /\ u >= rtag_size /\ u <= mx
      BY <1>3, <1>8, <1>9, SMTT(30)
    <2>2. mx = tag
      <3>1. mx \in m_tag_set \/ mx = tag
        BY <1>1, <1>8, ZenonT(60)
      <3> QED BY <1>3, <1>4, <1>8, <1>9, <2>1, <3>1, SMTT(30)
    <2>3. u \notin m_tag_set
      BY <1>3, <1>4, <2>1, SMTT(30)
    <2>4. CASE rec # <<>>
      <3>1. l \in 1 .. l /\ tag = rec[l]
        BY <1>1, <1>3, <2>4, SMTT(30) DEF rec, l
      <3>2. tag \in 0 .. (full - 1)
        BY <1>4, <1>9, <3>1, SMTT(30)
      <3>3. u \in 0 .. (full - 1)
        BY <1>3, <2>1, <2>2, <3>2, SMTT(30)
      <3> QED BY <1>4, <2>1, <2>3, <3>3, SMTT(30)
    <2>5. CASE rec = <<>>
      <3>1. tag = m_nglobal /\ rtag_size = m_nglobal
        BY <1>1, <1>4, <2>5, ZenonT(60) DEF rec
      <3> QED BY <1>3, <2>1, <2>2, <3>1, SMTT(30)
    <2> QED BY <2>4, <2>5, ZenonT(60)
  <1>12. TagSpace'
    <2>1. ASSUME NEW u \in Int
          PROVE  u \in 0 .. ((m_nglobal' + nl) - 1) <=> u \in m_tag_set' \/ \E i \in 1 .. nl : nrec[i] = u
      <3>1. u \in m_tag_set' \/ (\E i \in 1 .. nl : nrec[i] = u)
              <=> u = tag \/ u \in m_tag_set \/ \E i \in 1 .. l : rec[i] = u
        BY <1>1, <1>6, ZenonT(60)
      <3>2. u \in m_tag_set' \/ (\E i \in 1 .. nl : nrec[i] = u) <=> u = tag \/ u \in 0 .. (full - 1)
        BY <1>4, <3>1, ZenonT(60)
      <3>3. CASE rec # <<>>
        <4>1. l \in 1 .. l /\ tag = rec[l]
          BY <1>1, <1>3, <3>3 DEF rec, l
        <4>2. tag \in 0 .. (full - 1)
          BY <1>4, <1>9, <4>1, SMTT(30)
        <4>3. (m_nglobal' + nl) - 1 = full - 1
          BY <1>7, <3>3, ZenonT(60)
        <4> QED BY <3>2, <4>2, <4>3, ZenonT(60)
      <3>4. CASE rec = <<>>
        <4>1. tag = m_nglobal /\ l = 0
          BY <1>1, <1>3, <3>4, Zenon DEF rec
        <4>2. (m_nglobal' + nl) - 1 = m_nglobal /\ full - 1 = m_nglobal - 1
          BY <1>3, <1>7, <3>4, <4>1, SMTT(30)
        <4> QED BY <1>3, <3>2, <4>1, <4>2, SMTT(30)
      <3> QED BY <3>3, <3>4, ZenonT(60)
    <2>2. m_tag_set' \union {nrec[i] : i \in 1 .. nl} = 0 .. ((m_nglobal' + nl) - 1)
      <3>1. \A u \in m_tag_set' : u \in Int
        BY <1>1, <1>3 DEF Tag
      <3>2. \A i \in 1 .. nl : nrec[i] \in Int
        BY <1>6 DEF Tag
      <3>3. \A u \in 0 .. ((m_nglobal' + nl) - 1) : u \in Int
        OBVIOUS
      <3>4. \A u : u \in 0 .. ((m_nglobal' + nl) - 1) <=> u \in m_tag_set' \/ \E i \in 1 .. nl : nrec[i] = u
        BY <2>1, <3>1, <3>2, <3>3, Zenon
      <3> HIDE DEF full
      <3> QED BY <3>4, ZenonT(60)
    <2>3. ASSUME NEW i \in 1 .. nl
          PROVE  nrec[i] \notin m_tag_set' /\ \A j \in 1 .. nl : nrec[i] = nrec[j] => i = j
      BY <1>1, <1>4, <1>6, ZenonT(60)
    <2>4. ASSUME NEW u \in m_tag_set' PROVE u < rtag_size'
      <3>1. u \in Int /\ u <= mx
        BY <1>1, <1>3, <1>8, SMTT(30) DEF Tag
      <3> QED BY <1>8, <1>9, <3>1, SMTT(30)
    <2>5. ASSUME nrec = <<>> PROVE rtag_size' = m_nglobal'
      <3>1. nl = 0
        BY <2>5, ZenonT(60) DEF nl
      <3>2. \A u \in Int : u \in 0 .. (m_nglobal' - 1) <=> u \in m_tag_set'
        BY <1>2, <1>3, <2>1, <3>1, SMTT(30)
      <3>3. mx \in 0 .. (m_nglobal' - 1) /\ m_nglobal' - 1 \in m_tag_set'
        BY <1>2, <1>3, <1>8, <1>9, <3>2, SMTT(30)
      <3>4. m_nglobal' - 1 <= mx
        BY <1>8, <3>3, Zenon
      <3> QED BY <1>2, <1>3, <1>8, <1>9, <3>3, <3>4, SMTT(30)
    <2> QED BY <2>2, <2>3, <2>4, <2>5, ZenonT(60) DEF TagSpace, nrec, nl
  <1> WITNESS tag \in Tag
  <1> QED BY <1>1, <1>5, <1>6, <1>10, <1>11, <1>12, Zenon DEF rec, l, nrec, nl

\* addParticle() appends a particle with an unused tag on rank 0.
LEMMA AddParticleInv ==
  ASSUME IInv, addParticle
  PROVE  IInv'
  <1>1. PICK tag \in Tag :
           /\ tag \notin m_tag_set
           /\ m_tag_set' = m_tag_set \union {tag}
           /\ m_nglobal' \in 0 .. MaxTags /\ rtag_size' \in 0 .. MaxTags /\ m_recycled_tags' \in Seq(Tag)
           /\ \A i \in 1 .. Len(m_recycled_tags') :
                /\ i \in 1 .. Len(m_recycled_tags) /\ m_recycled_tags'[i] = m_recycled_tags[i]
                /\ m_recycled_tags'[i] # tag
           /\ TagSpace'
           /\ \A u \in rtag_size .. (rtag_size' - 1) :
                 u = tag \/ \E i \in 1 .. Len(m_recycled_tags) : m_recycled_tags[i] = u
           /\ m_rtag' = [r \in Rank |-> [RTagWithoutGhosts(r) EXCEPT
                                           ![tag] = IF r = 0 THEN m_nparticles[0] ELSE NOT_LOCAL]]
           /\ ptl' = [ptl EXCEPT ![0] = Appended(@, m_nparticles[0],
                                                 [tag |-> tag, pos |-> Origin, angmom |-> 0])]
    BY AddParticleTags, ZenonT(60)
  <1>2. /\ m_nparticles' = [m_nparticles EXCEPT ![0] = @ + 1]
        /\ m_invalid_cached_tags' = TRUE /\ transit' = {} /\ transit = {}
        /\ m_nghosts' = [r \in Rank |-> 0] /\ ghost' = [r \in Rank |-> [i \in {} |-> 0]]
    BY ZenonT(60) DEF addParticle, removeAllGhostParticles
  <1>3. /\ 0 \in Rank /\ DOMAIN ptl = Rank /\ m_nparticles \in [Rank -> Nat]
        /\ \A s \in Rank : ptl[s] \in [Index(s) -> Particle]
        /\ rtag_size \in Nat /\ MaxTags \in Nat /\ m_recycled_tags \in Seq(Tag)
        /\ m_tag_set \subseteq Tag
    BY ParticleDataAssumption, SMTT(30) DEF IInv, TypeOK, Rank
  <1>4. PICK n \in Nat : n = m_nparticles[0]
    BY <1>3, Zenon
  <1> DEFINE new == [tag |-> tag, pos |-> Origin, angmom |-> 0]
             F == Appended(ptl[0], n, new)
  <1>5. new \in Particle /\ new.tag = tag
    BY ParticleDataAssumption, ZenonT(60) DEF Particle, Rank
  <1>6. /\ ptl'[0] = F /\ Index(0)' = 0 .. n /\ Index(0) = 0 .. (n - 1)
        /\ m_nparticles' \in [Rank -> Nat] /\ DOMAIN ptl' = Rank
        /\ \A s \in Rank \ {0} : ptl'[s] = ptl[s] /\ Index(s)' = Index(s)
    BY <1>1, <1>2, <1>3, <1>4, SMTT(30) DEF Index
  <1>7. /\ F \in [0 .. n -> Particle] /\ F[n] = new /\ n \in 0 .. n
        /\ \A i \in 0 .. (n - 1) : F[i] = ptl[0][i] /\ i \in 0 .. n /\ i # n
        /\ \A i \in 0 .. n : i = n \/ i \in 0 .. (n - 1)
    <2>1. \A i \in 0 .. n : i = n \/ i \in 0 .. (n - 1)
      OBVIOUS
    <2>2. ptl[0] \in [0 .. (n - 1) -> Particle]
      BY <1>3, <1>6, ZenonT(60)
    <2> QED BY <1>5, <2>1, <2>2 DEF Appended
  <1>8. /\ \A s \in Rank : m_rtag'[s] = [RTagWithoutGhosts(s) EXCEPT ![tag] = IF s = 0 THEN n ELSE NOT_LOCAL]
        /\ m_rtag' = [s \in Rank |-> m_rtag'[s]]
    BY <1>1, <1>4, ZenonT(60)
  <1> HIDE DEF new, F
  <1>9. ASSUME NEW s \in Rank
        PROVE  /\ m_rtag'[s] \in RTagArray
               /\ m_rtag'[s][tag] = IF s = 0 THEN n ELSE NOT_LOCAL
               /\ \A u \in Tag \ {tag} : m_rtag'[s][u] = RTagWithoutGhosts(s)[u]
    <2>1. RTagWithoutGhosts(s) \in RTagArray
      BY WithoutGhosts, ZenonT(60)
    <2> QED BY <1>8, <2>1, ZenonT(60) DEF RTagArray
  <1>10. ASSUME NEW s \in Rank, NEW i \in Index(s)'
         PROVE  \/ s = 0 /\ i = n /\ ptl'[s][i] = new
                \/ i \in Index(s) /\ ptl'[s][i] = ptl[s][i] /\ (s = 0 => i # n)
    <2>1. CASE s = 0
      BY <1>6, <1>7, <2>1, ZenonT(60)
    <2>2. CASE s # 0
      BY <1>6, <2>2, ZenonT(60)
    <2> QED BY <2>1, <2>2, ZenonT(60)
  <1>11. ASSUME NEW s \in Rank, NEW i \in Index(s)
         PROVE  i \in Index(s)' /\ ptl'[s][i] = ptl[s][i] /\ ptl[s][i].tag \in m_tag_set
    <2>1. CASE s = 0
      BY <1>6, <1>7, <2>1, ZenonT(60) DEF IInv, EveryParticleOnce
    <2>2. CASE s # 0
      BY <1>6, <2>2, ZenonT(60) DEF IInv, EveryParticleOnce
    <2> QED BY <2>1, <2>2, ZenonT(60)
  <1>12. GhostFreeTypes'
    <2>1. \A s \in Rank : ptl'[s] \in [Index(s)' -> Particle]
      BY <1>3, <1>6, <1>7, ZenonT(60)
    <2>2. m_rtag' \in [Rank -> RTagArray]
      BY <1>8, <1>9, ZenonT(60)
    <2>3. m_tag_set' \subseteq Tag
      BY <1>1, <1>3, ZenonT(60)
    <2> QED BY <1>1, <1>2, <1>6, <2>1, <2>2, <2>3, ZenonT(60) DEF GhostFreeTypes
  <1>13. GhostFreeLookup'
    <2> SUFFICES ASSUME NEW s \in Rank
                 PROVE  /\ \A i \in Index(s)' : m_rtag'[s][ptl'[s][i].tag] = i
                        /\ \A u \in 0 .. (rtag_size' - 1) : m_rtag'[s][u] # NOT_LOCAL =>
                              m_rtag'[s][u] \in Index(s)' /\ ptl'[s][m_rtag'[s][u]].tag = u
                        /\ \A i \in 1 .. Len(m_recycled_tags') : m_rtag'[s][m_recycled_tags'[i]] = NOT_LOCAL
      BY ZenonT(60) DEF GhostFreeLookup
    <2>1. ASSUME NEW i \in Index(s)' PROVE m_rtag'[s][ptl'[s][i].tag] = i
      <3>1. CASE s = 0 /\ i = n /\ ptl'[s][i] = new
        BY <1>5, <1>9, <3>1, ZenonT(60)
      <3>2. CASE i \in Index(s) /\ ptl'[s][i] = ptl[s][i]
        <4>1. ptl[s][i].tag # tag /\ ptl[s][i].tag \in Tag
          BY <1>1, <1>3, <1>11, <3>2, SMTT(30)
        <4> QED BY <1>9, <3>2, <4>1, WithoutGhosts, SMTT(30)
      <3> QED BY <1>10, <3>1, <3>2, ZenonT(60)
    <2>2. ASSUME NEW u, u \in 0 .. (rtag_size' - 1), m_rtag'[s][u] # NOT_LOCAL
          PROVE  m_rtag'[s][u] \in Index(s)' /\ ptl'[s][m_rtag'[s][u]].tag = u
      <3>a. PICK z \in Nat : z = rtag_size' /\ z <= MaxTags
        BY <1>1, <1>3, SMTT(30)
      <3>b. u \in 0 .. (z - 1)
        BY <2>2, <3>a, ZenonT(60)
      <3>c. MaxTags \in Nat /\ rtag_size \in Nat
        BY <1>3, ZenonT(60)
      <3>0. u \in Tag /\ u \in Nat
        <4>1. z <= MaxTags
          BY <3>a, ZenonT(60)
        <4> QED BY <3>b, <3>c, <4>1, SMTT(30) DEF Tag
      <3>1. CASE u = tag
        BY <1>5, <1>6, <1>7, <1>9, <2>2, <3>1, SMTT(30)
      <3>2. CASE u # tag
        <4>1. m_rtag'[s][u] = RTagWithoutGhosts(s)[u]
          BY <1>9, <3>0, <3>2, ZenonT(60)
        <4>2. CASE u < rtag_size
          <5>1. u \in 0 .. (rtag_size - 1)
            BY <3>0, <3>c, <4>2, SMTT(30)
          <5>2. RTagWithoutGhosts(s)[u] \in Index(s) /\ ptl[s][RTagWithoutGhosts(s)[u]].tag = u
            BY <2>2, <4>1, <5>1, WithoutGhosts, ZenonT(60)
          <5> QED BY <1>11, <4>1, <5>2, ZenonT(60)
        <4>3. CASE ~(u < rtag_size)
          <5>1. u \in rtag_size .. (rtag_size' - 1)
            <6>1. u \in rtag_size .. (z - 1)
              BY <3>b, <3>c, <4>3, SMTT(30)
            <6> QED BY <3>a, <6>1, ZenonT(60)
          <5>2. PICK i \in 1 .. Len(m_recycled_tags) : m_recycled_tags[i] = u
            BY <1>1, <3>2, <5>1, ZenonT(60)
          <5> QED BY <2>2, <4>1, <5>2, WithoutGhosts, SMTT(30)
        <4> QED BY <4>2, <4>3, ZenonT(60)
      <3> QED BY <3>1, <3>2, ZenonT(60)
    <2>3. ASSUME NEW i \in 1 .. Len(m_recycled_tags') PROVE m_rtag'[s][m_recycled_tags'[i]] = NOT_LOCAL
      <3>1. /\ i \in 1 .. Len(m_recycled_tags) /\ m_recycled_tags'[i] = m_recycled_tags[i]
            /\ m_recycled_tags'[i] # tag /\ m_recycled_tags[i] \in Tag
        BY <1>1, <1>3, SMTT(30)
      <3> QED BY <1>9, <3>1, WithoutGhosts, SMTT(30)
    <2> QED BY <2>1, <2>2, <2>3, ZenonT(60)
  <1>14. GhostFreeOnce'
    <2>1. \A s \in Rank : \A i \in Index(s)' : ptl'[s][i].tag \in m_tag_set'
      BY <1>1, <1>5, <1>10, <1>11, SMTT(30)
    <2>2. ASSUME NEW u \in m_tag_set' PROVE \E s \in Rank : \E i \in Index(s)' : ptl'[s][i].tag = u
      <3>1. CASE u = tag
        BY <1>3, <1>5, <1>6, <1>7, <3>1, ZenonT(60)
      <3>2. CASE u \in m_tag_set
        <4>1. PICK s \in Rank : \E l \in Index(s) : ptl[s][l].tag = u
          BY <1>2, <3>2, ZenonT(60) DEF IInv, EveryParticleOnce
        <4> QED BY <1>11, <4>1, ZenonT(60)
      <3> QED BY <1>1, <3>1, <3>2, ZenonT(60)
    <2>3. ASSUME NEW s \in Rank, NEW q \in Rank, NEW i \in Index(s)', NEW j \in Index(q)',
                 ptl'[s][i].tag = ptl'[q][j].tag
          PROVE  s = q
      <3>1. CASE i \in Index(s) /\ ptl'[s][i] = ptl[s][i] /\ j \in Index(q) /\ ptl'[q][j] = ptl[q][j]
        BY <2>3, <3>1, SMTT(30) DEF IInv, EveryParticleOnce
      <3>a. tag \notin m_tag_set
        BY <1>1, ZenonT(60)
      <3>2. CASE s = 0 /\ ptl'[s][i] = new
        <4>1. ~(j \in Index(q) /\ ptl'[q][j] = ptl[q][j])
          <5>1. ptl'[q][j].tag = tag
            BY <1>5, <2>3, <3>2, ZenonT(60)
          <5> QED BY <1>11, <3>a, <5>1, ZenonT(60)
        <4> QED BY <1>10, <3>2, <4>1, ZenonT(60)
      <3>3. CASE q = 0 /\ ptl'[q][j] = new
        <4>1. ~(i \in Index(s) /\ ptl'[s][i] = ptl[s][i])
          <5>1. ptl'[s][i].tag = tag
            BY <1>5, <2>3, <3>3, ZenonT(60)
          <5> QED BY <1>11, <3>a, <5>1, ZenonT(60)
        <4> QED BY <1>10, <3>3, <4>1, ZenonT(60)
      <3> QED BY <1>10, <3>1, <3>2, <3>3, ZenonT(60)
    <2> QED BY <2>1, <2>2, <2>3, ZenonT(60) DEF GhostFreeOnce
  <1>15. CacheFresh'
    BY <1>2, ZenonT(60) DEF CacheFresh
  <1> QED BY <1>1, <1>12, <1>13, <1>14, <1>15, GhostFreeNext, ZenonT(60)

\* removeParticle() closes the gap and recycles the tag.
LEMMA RemoveParticleInv ==
  ASSUME IInv, NEW t \in Tag, removeParticle(t)
  PROVE  IInv'
  <1>1. PICK r \in Rank :
          /\ RTagWithoutGhosts(r)[t] \in Index(r)
          /\ LET k    == RTagWithoutGhosts(r)[t]
                 last == m_nparticles[r] - 1
                 gone == [s \in Rank |-> [RTagWithoutGhosts(s) EXCEPT ![t] = NOT_LOCAL]]
             IN  /\ ptl' = [ptl EXCEPT ![r] = GapClosed(@, last + 1, k)]
                 /\ m_nparticles' = [m_nparticles EXCEPT ![r] = last]
                 /\ m_rtag' = IF k = last THEN gone
                              ELSE [gone EXCEPT ![r] = [@ EXCEPT ![ptl[r][last].tag] = k]]
    BY ZenonT(60) DEF removeParticle
  <1>2. /\ m_invalid_cached_tags' = TRUE /\ transit' = {} /\ transit = {} /\ t < rtag_size /\ m_nglobal # 0
        /\ m_nghosts' = [s \in Rank |-> 0] /\ ghost' = [s \in Rank |-> [i \in {} |-> 0]]
        /\ m_tag_set' = m_tag_set \ {t} /\ m_recycled_tags' = Append(m_recycled_tags, t)
        /\ m_nglobal' = m_nglobal - 1 /\ rtag_size' = rtag_size
    BY ZenonT(60) DEF removeParticle, removeAllGhostParticles
  <1>3. /\ DOMAIN ptl = Rank /\ m_nparticles \in [Rank -> Nat]
        /\ \A s \in Rank : ptl[s] \in [Index(s) -> Particle]
        /\ rtag_size \in 0 .. MaxTags /\ MaxTags \in Nat /\ m_recycled_tags \in Seq(Tag)
        /\ m_tag_set \subseteq Tag /\ m_nglobal \in 0 .. MaxTags
    BY ParticleDataAssumption, ZenonT(60) DEF IInv, TypeOK
  <1>4. PICK n \in Nat : n = m_nparticles[r] /\ Index(r) = 0 .. (n - 1)
    BY <1>3, ZenonT(60) DEF Index
  <1>5. PICK k \in 0 .. (n - 1) : k = RTagWithoutGhosts(r)[t]
    BY <1>1, <1>4, ZenonT(60)
  <1>6. PICK last \in Nat : last = n - 1 /\ n = last + 1 /\ last \in 0 .. (n - 1)
    BY <1>5
  <1> DEFINE G == GapClosed(ptl[r], n, k)
             moved == ptl[r][last].tag
             gone(s) == [RTagWithoutGhosts(s) EXCEPT ![t] = NOT_LOCAL]
  <1>7. ptl[r][k].tag = t /\ ptl[r] \in [0 .. (n - 1) -> Particle] /\ t \in 0 .. (rtag_size - 1)
    <2>1. t \in 0 .. (rtag_size - 1)
      BY <1>2, <1>3, SMTT(30) DEF Tag
    <2>2. k # NOT_LOCAL
      BY DEF NOT_LOCAL
    <2> QED BY <1>3, <1>4, <1>5, <2>1, <2>2, WithoutGhosts, ZenonT(60)
  <1>8. /\ ptl'[r] = G /\ Index(r)' = 0 .. (last - 1)
        /\ m_nparticles' \in [Rank -> Nat] /\ DOMAIN ptl' = Rank
        /\ \A s \in Rank \ {r} : ptl'[s] = ptl[s] /\ Index(s)' = Index(s)
    BY <1>1, <1>3, <1>4, <1>5, <1>6, Zenon DEF Index
  <1>9. /\ \A s \in Rank \ {r} : m_rtag'[s] = gone(s)
        /\ m_rtag'[r] = IF k = last THEN gone(r) ELSE [gone(r) EXCEPT ![moved] = k]
        /\ m_rtag' = [s \in Rank |-> m_rtag'[s]]
    BY <1>1, <1>4, <1>5, <1>6, ZenonT(60)
  <1>10. \A i, j \in 0 .. (n - 1) : ptl[r][i].tag = ptl[r][j].tag => i = j
    BY <1>4, SMTT(30) DEF IInv, EveryParticleOnce
  <1>11. moved \in Tag /\ ptl[r][last] \in Particle /\ (k # last => moved # t)
    BY <1>6, <1>7, <1>10, ZenonT(60) DEF Particle
  <1>12. /\ G \in [0 .. (last - 1) -> Particle]
         /\ \A i \in 0 .. (last - 1) : G[i].tag = IF i = k THEN moved ELSE ptl[r][i].tag
    <2>1. 0 .. (n - 2) = 0 .. (last - 1) /\ \A i \in 0 .. (last - 1) : i \in 0 .. (n - 1)
      BY <1>6
    <2>2. \A i \in 0 .. (n - 1) : ptl[r][i] \in Particle
      BY <1>7, Zenon
    <2>3. MovedInto(ptl[r][k], ptl[r][last]) \in Particle
          /\ MovedInto(ptl[r][k], ptl[r][last]).tag = moved
      BY <1>6, <2>2, ZenonT(60) DEF MovedInto, Particle
    <2>4. n - 1 = last
      BY <1>6, ZenonT(60)
    <2>5. G = [i \in 0 .. (last - 1) |-> IF i = k THEN MovedInto(ptl[r][k], ptl[r][last]) ELSE ptl[r][i]]
      BY <2>1, <2>4, ZenonT(60) DEF GapClosed
    <2> HIDE DEF G, moved
    <2> QED BY <2>1, <2>2, <2>3, <2>5, ZenonT(60)
  <1> HIDE DEF G, moved
  <1>13. ASSUME NEW s \in Rank
         PROVE  /\ m_rtag'[s] \in RTagArray /\ m_rtag'[s][t] = NOT_LOCAL
                /\ (s = r /\ k # last) => m_rtag'[s][moved] = k
                /\ \A u \in Tag \ {t} : (s # r \/ k = last \/ u # moved) =>
                      m_rtag'[s][u] = RTagWithoutGhosts(s)[u]
    <2>1. RTagWithoutGhosts(s) \in RTagArray
      BY WithoutGhosts, ZenonT(60)
    <2>2. /\ gone(s) \in RTagArray /\ gone(s)[t] = NOT_LOCAL
          /\ \A u \in Tag \ {t} : gone(s)[u] = RTagWithoutGhosts(s)[u]
      BY <2>1, ZenonT(60) DEF RTagArray
    <2> HIDE DEF gone
    <2>3. CASE s # r \/ k = last
      BY <1>9, <2>2, <2>3, ZenonT(60)
    <2>4. CASE s = r /\ k # last
      <3>1. m_rtag'[s] = [gone(s) EXCEPT ![moved] = k]
        BY <1>9, <2>4, ZenonT(60)
      <3>2. k \in Nat
        OBVIOUS
      <3> QED BY <1>11, <2>2, <2>4, <3>1, <3>2, SMTT(30) DEF RTagArray
    <2> QED BY <2>3, <2>4, ZenonT(60)
  (* Where the particles come from, and where the others went. *)
  <1>14. ASSUME NEW s \in Rank, NEW i \in Index(s)'
         PROVE  /\ \E l \in Index(s) : ptl'[s][i].tag = ptl[s][l].tag
                /\ ptl'[s][i].tag # t /\ m_rtag'[s][ptl'[s][i].tag] = i
    <2>1. CASE s = r
      <3>1. i \in 0 .. (last - 1) /\ i \in 0 .. (n - 1) /\ i # last
        BY <1>6, <1>8, <2>1, SMTT(30)
      <3>2. CASE i = k
        <4>1. ptl'[s][i].tag = moved /\ k # last
          BY <1>8, <1>12, <2>1, <3>1, <3>2, ZenonT(60)
        <4> QED BY <1>4, <1>6, <1>11, <1>13, <2>1, <3>2, <4>1, ZenonT(60) DEF moved
      <3>3. CASE i # k
        <4>1. ptl'[s][i].tag = ptl[r][i].tag /\ ptl[r][i].tag \in Tag
          BY <1>7, <1>8, <1>12, <2>1, <3>1, <3>3, ZenonT(60) DEF Particle
        <4>2. ptl[r][i].tag # t /\ ptl[r][i].tag # moved
          BY <1>6, <1>7, <1>10, <3>1, <3>3, ZenonT(60) DEF moved
        <4>3. m_rtag'[s][ptl[r][i].tag] = i
          <5>1. m_rtag'[s][ptl[r][i].tag] = RTagWithoutGhosts(r)[ptl[r][i].tag]
            BY <1>13, <2>1, <4>1, <4>2, ZenonT(60)
          <5>2. \A l \in Index(r) : RTagWithoutGhosts(r)[ptl[r][l].tag] = l
            BY WithoutGhosts, ZenonT(60)
          <5> QED BY <1>4, <3>1, <5>1, <5>2, ZenonT(60)
        <4> QED BY <1>4, <2>1, <3>1, <4>1, <4>2, <4>3, ZenonT(60)
      <3> QED BY <3>2, <3>3, ZenonT(60)
    <2>2. CASE s # r
      <3>1. i \in Index(s) /\ ptl'[s][i] = ptl[s][i] /\ ptl[s][i].tag \in Tag
        BY <1>3, <1>8, <2>2, ZenonT(60) DEF Particle
      <3>2. ptl[s][i].tag # t
        BY <1>4, <1>7, <2>2, <3>1, ZenonT(60) DEF IInv, EveryParticleOnce
      <3> QED BY <1>13, <2>2, <3>1, <3>2, WithoutGhosts, SMTT(30)
    <2> QED BY <2>1, <2>2, Zenon
  <1>15. ASSUME NEW s \in Rank, NEW l \in Index(s), ptl[s][l].tag # t
         PROVE  \E i \in Index(s)' : ptl'[s][i].tag = ptl[s][l].tag
    <2>1. CASE s = r
      <3>1. l # k /\ l \in 0 .. (n - 1)
        BY <1>4, <1>7, <1>15, <2>1, ZenonT(60)
      <3>2. CASE l = last
        <4>1. k \in 0 .. (last - 1)
          BY <1>6, <3>1, <3>2, SMTT(30)
        <4> QED BY <1>8, <1>12, <2>1, <3>2, <4>1, ZenonT(60) DEF moved
      <3>3. CASE l # last
        <4>1. l \in 0 .. (last - 1)
          BY <1>6, <3>1, <3>3, SMTT(30)
        <4> QED BY <1>8, <1>12, <2>1, <3>1, <4>1, ZenonT(60)
      <3> QED BY <3>2, <3>3, ZenonT(60)
    <2>2. CASE s # r
      BY <1>8, <2>2, ZenonT(60)
    <2> QED BY <2>1, <2>2, ZenonT(60)
  <1>16. t \in m_tag_set
    BY <1>4, <1>7, ZenonT(60) DEF IInv, EveryParticleOnce
  <1> DEFINE rec == m_recycled_tags
             nrec == m_recycled_tags'
             l == Len(rec)
  <1>17. /\ nrec \in Seq(Tag) /\ l \in Nat /\ Len(nrec) = l + 1 /\ nrec[l + 1] = t
         /\ \A i \in 1 .. l : nrec[i] = rec[i] /\ rec[i] \in Tag
         /\ \A i \in 1 .. (l + 1) : i = l + 1 \/ i \in 1 .. l
         /\ l + 1 \in 1 .. (l + 1) /\ \A i \in 1 .. l : i \in 1 .. (l + 1) /\ i # l + 1
    <2>1. nrec = Append(rec, t) /\ rec \in Seq(Tag) /\ l \in Nat
      BY <1>2, <1>3, SMTT(30)
    <2>2. nrec \in Seq(Tag) /\ Len(nrec) = l + 1 /\ nrec[l + 1] = t
      BY <2>1
    <2>3. \A i \in 1 .. l : nrec[i] = rec[i] /\ rec[i] \in Tag
      BY <2>1
    <2>4. /\ \A i \in 1 .. (l + 1) : i = l + 1 \/ i \in 1 .. l
          /\ l + 1 \in 1 .. (l + 1) /\ \A i \in 1 .. l : i \in 1 .. (l + 1) /\ i # l + 1
      BY <2>1
    <2> QED BY <2>1, <2>2, <2>3, <2>4, ZenonT(60)
  <1> HIDE DEF nrec, l
  <1>18. GhostFreeTypes'
    <2>1. \A s \in Rank : ptl'[s] \in [Index(s)' -> Particle]
      BY <1>3, <1>8, <1>12, ZenonT(60)
    <2>2. m_rtag' \in [Rank -> RTagArray]
      BY <1>9, <1>13, ZenonT(60)
    <2>3. m_tag_set' \subseteq Tag /\ m_nglobal' \in 0 .. MaxTags /\ rtag_size' \in 0 .. MaxTags
      BY <1>2, <1>3, SMTT(30)
    <2> QED BY <1>2, <1>8, <1>17, <2>1, <2>2, <2>3, Zenon DEF GhostFreeTypes, nrec
  <1>19. GhostFreeLookup'
    <2> SUFFICES ASSUME NEW s \in Rank
                 PROVE  /\ \A i \in Index(s)' : m_rtag'[s][ptl'[s][i].tag] = i
                        /\ \A u \in 0 .. (rtag_size - 1) : m_rtag'[s][u] # NOT_LOCAL =>
                              m_rtag'[s][u] \in Index(s)' /\ ptl'[s][m_rtag'[s][u]].tag = u
                        /\ \A i \in 1 .. Len(nrec) : m_rtag'[s][nrec[i]] = NOT_LOCAL
      BY <1>2, Zenon DEF GhostFreeLookup, nrec
    <2>2. ASSUME NEW u \in 0 .. (rtag_size - 1), m_rtag'[s][u] # NOT_LOCAL
          PROVE  m_rtag'[s][u] \in Index(s)' /\ ptl'[s][m_rtag'[s][u]].tag = u
      <3>0. u \in Tag /\ u # t
        BY <1>3, <1>13, <2>2, SMTT(30) DEF Tag
      <3>1. \E j \in Index(s) : ptl[s][j].tag = u
        <4>1. CASE s = r /\ k # last /\ u = moved
          BY <1>4, <1>6, <4>1, ZenonT(60) DEF moved
        <4>2. CASE s # r \/ k = last \/ u # moved
          <5>1. m_rtag'[s][u] = RTagWithoutGhosts(s)[u]
            BY <1>13, <3>0, <4>2, ZenonT(60)
          <5> QED BY <2>2, <5>1, WithoutGhosts, ZenonT(60)
        <4> QED BY <4>1, <4>2, ZenonT(60)
      <3>2. PICK i \in Index(s)' : ptl'[s][i].tag = u
        BY <1>15, <3>0, <3>1, ZenonT(60)
      <3> QED BY <1>14, <3>2, ZenonT(60)
    <2>3. ASSUME NEW i \in 1 .. Len(nrec) PROVE m_rtag'[s][nrec[i]] = NOT_LOCAL
      <3>1. CASE i = l + 1
        BY <1>13, <1>17, <3>1, ZenonT(60)
      <3>2. CASE i \in 1 .. l
        <4>1. nrec[i] = rec[i] /\ rec[i] \in Tag /\ rec[i] \notin m_tag_set
          BY <1>17, <3>2, ZenonT(60) DEF IInv, TagSpace, l
        <4>2. rec[i] # t /\ rec[i] # moved
          <5>1. last \in Index(r)
            BY <1>4, <1>6, ZenonT(60)
          <5>2. ptl[r][last].tag \in m_tag_set
            BY <5>1, ZenonT(60) DEF IInv, EveryParticleOnce
          <5> QED BY <1>16, <4>1, <5>2, ZenonT(60) DEF moved
        <4>3. RTagWithoutGhosts(s)[rec[i]] = NOT_LOCAL
          BY <3>2, WithoutGhosts, ZenonT(60) DEF l
        <4>4. m_rtag'[s][rec[i]] = RTagWithoutGhosts(s)[rec[i]]
          BY <1>13, <4>1, <4>2, ZenonT(60)
        <4> QED BY <4>1, <4>3, <4>4, ZenonT(60)
      <3> QED BY <1>17, <3>1, <3>2, ZenonT(60)
    <2> QED BY <1>14, <2>2, <2>3, ZenonT(60)
  <1>20. GhostFreeOnce'
    <2>1. ASSUME NEW s \in Rank, NEW i \in Index(s)' PROVE ptl'[s][i].tag \in m_tag_set'
      BY <1>2, <1>14, SMTT(30) DEF IInv, EveryParticleOnce
    <2>2. ASSUME NEW u \in m_tag_set' PROVE \E s \in Rank : \E i \in Index(s)' : ptl'[s][i].tag = u
      <3>1. u \in m_tag_set /\ u # t
        BY <1>2, Zenon
      <3>2. PICK s \in Rank : \E j \in Index(s) : ptl[s][j].tag = u
        BY <1>2, <3>1, ZenonT(60) DEF IInv, EveryParticleOnce
      <3> QED BY <1>15, <3>1, <3>2, ZenonT(60)
    <2>3. ASSUME NEW s \in Rank, NEW q \in Rank, NEW i \in Index(s)', NEW j \in Index(q)',
                 ptl'[s][i].tag = ptl'[q][j].tag
          PROVE  s = q
      BY <1>14, <2>3, SMTT(30) DEF IInv, EveryParticleOnce
    <2> QED BY <2>1, <2>2, <2>3, ZenonT(60) DEF GhostFreeOnce
  <1>21. TagSpace'
    <2>1. (m_nglobal' + (l + 1)) = m_nglobal + l
      BY <1>2, <1>3, <1>17, SMTT(30)
    <2>2. \A u : u \in 0 .. ((m_nglobal + l) - 1) <=> u \in m_tag_set \/ \E i \in 1 .. l : rec[i] = u
      <3>1. m_tag_set \union {rec[i] : i \in 1 .. l} = 0 .. ((m_nglobal + l) - 1)
        BY ZenonT(60) DEF IInv, TagSpace, l
      <3> QED BY <3>1, ZenonT(60)
    <2>3. \A u : (\E i \in 1 .. (l + 1) : nrec[i] = u) <=> u = t \/ \E i \in 1 .. l : rec[i] = u
      BY <1>17, ZenonT(60)
    <2>4. \A u : u \in 0 .. ((m_nglobal' + (l + 1)) - 1) <=>
                   u \in m_tag_set' \/ \E i \in 1 .. (l + 1) : nrec[i] = u
      BY <1>2, <1>16, <2>1, <2>2, <2>3, ZenonT(60)
    <2>5. m_tag_set' \union {nrec[i] : i \in 1 .. (l + 1)} = 0 .. ((m_nglobal' + (l + 1)) - 1)
      <3> HIDE <2>1, <2>2, <2>3
      <3> QED BY <2>4, ZenonT(60)
    <2>6. \A i \in 1 .. l : rec[i] \notin m_tag_set /\ \A j \in 1 .. l : rec[i] = rec[j] => i = j
      BY ZenonT(60) DEF IInv, TagSpace, l
    <2>7. ASSUME NEW i \in 1 .. (l + 1)
          PROVE  nrec[i] \notin m_tag_set' /\ \A j \in 1 .. (l + 1) : nrec[i] = nrec[j] => i = j
      BY <1>2, <1>16, <1>17, <2>6, ZenonT(60)
    <2>8. \A u \in m_tag_set' : u < rtag_size'
      BY <1>2, ZenonT(60) DEF IInv, TagSpace
    <2>9. nrec # <<>>
      <3>1. Len(nrec) # 0
        BY <1>17
      <3> QED BY <3>1, SMTT(30)
    <2> QED BY <1>17, <2>5, <2>7, <2>8, <2>9, ZenonT(60) DEF TagSpace, nrec
  <1>22. CacheFresh'
    BY <1>2, Zenon DEF CacheFresh
  <1> QED BY <1>18, <1>19, <1>20, <1>21, <1>22, GhostFreeNext, ZenonT(60)

\* Loading a snapshot replaces every particle, tag and lookup.
LEMMA InitializeFromSnapshotInv ==
  ASSUME IInv, initializeFromSnapshot
  PROVE  IInv'
  <1>1. PICK n \in 0 .. MaxTags :
          \E pos \in [0 .. (n - 1) -> Rank], angmom \in [0 .. (n - 1) -> AngMom] :
            /\ m_nparticles' = [r \in Rank |-> Cardinality(PlacedOn(r, pos))]
            /\ ptl' = [r \in Rank |->
                         [i \in 0 .. (m_nparticles'[r] - 1) |->
                            LET t == Listed(PlacedOn(r, pos))[i]
                            IN  [tag |-> t, pos |-> r, angmom |-> angmom[t]]]]
            /\ m_rtag' = [r \in Rank |->
                            RTagOf([t \in Tag |-> IF t < n THEN NOT_LOCAL
                                                  ELSE RTagWithoutGhosts(r)[t]],
                                   ptl'[r], m_nparticles'[r])]
            /\ rtag_size' = n
            /\ m_nglobal' = n /\ m_tag_set' = 0 .. (n - 1) /\ m_recycled_tags' = <<>>
    BY Zenon DEF initializeFromSnapshot
  <1>2. PICK pos \in [0 .. (n - 1) -> Rank], angmom \in [0 .. (n - 1) -> AngMom] :
          /\ m_nparticles' = [r \in Rank |-> Cardinality(PlacedOn(r, pos))]
          /\ ptl' = [r \in Rank |->
                       [i \in 0 .. (m_nparticles'[r] - 1) |->
                          LET t == Listed(PlacedOn(r, pos))[i]
                          IN  [tag |-> t, pos |-> r, angmom |-> angmom[t]]]]
          /\ m_rtag' = [r \in Rank |->
                          RTagOf([t \in Tag |-> IF t < n THEN NOT_LOCAL
                                                ELSE RTagWithoutGhosts(r)[t]],
                                 ptl'[r], m_nparticles'[r])]
          /\ rtag_size' = n
          /\ m_nglobal' = n /\ m_tag_set' = 0 .. (n - 1) /\ m_recycled_tags' = <<>>
    BY <1>1, ZenonT(60)
  <1>3. /\ m_invalid_cached_tags' = TRUE /\ transit' = {}
        /\ m_nghosts' = [s \in Rank |-> 0] /\ ghost' = [s \in Rank |-> [i \in {} |-> 0]]
    BY Zenon DEF initializeFromSnapshot, removeAllGhostParticles
  <1>4. MaxTags \in Nat /\ n \in Nat /\ n <= MaxTags
    BY ParticleDataAssumption, SMTT(30)
  <1> DEFINE P(r) == PlacedOn(r, pos)
             c(r) == Cardinality(P(r))
             base(r) == [t \in Tag |-> IF t < n THEN NOT_LOCAL ELSE RTagWithoutGhosts(r)[t]]
  <1>5. ASSUME NEW r \in Rank
        PROVE  /\ c(r) \in Nat /\ Listed(P(r)) \in [0 .. (c(r) - 1) -> P(r)]
               /\ \A k \in P(r) : \E i \in 0 .. (c(r) - 1) : Listed(P(r))[i] = k
               /\ \A i, j \in 0 .. (c(r) - 1) : i < j => Listed(P(r))[i] < Listed(P(r))[j]
    <2>1. P(r) \in SUBSET (0 .. n)
      BY <1>4, SMTT(30) DEF PlacedOn
    <2> QED BY <1>4, <2>1, ListedInOrder, ZenonT(60)
  <1>6. \A r \in Rank : \A t : t \in P(r) <=> t \in 0 .. (n - 1) /\ pos[t] = r
    BY Zenon DEF PlacedOn
  <1> HIDE DEF P
  <1>7. m_nparticles' \in [Rank -> Nat] /\ DOMAIN ptl' = Rank
    <2>1. m_nparticles' = [r \in Rank |-> c(r)]
      BY <1>2, ZenonT(60) DEF P
    <2> QED BY <1>2, <1>5, <2>1, ZenonT(60)
  <1>8. ASSUME NEW r \in Rank
        PROVE  /\ m_nparticles'[r] = c(r) /\ Index(r)' = 0 .. (c(r) - 1)
               /\ ptl'[r] = [i \in 0 .. (c(r) - 1) |->
                    [tag |-> Listed(P(r))[i], pos |-> r, angmom |-> angmom[Listed(P(r))[i]]]]
               /\ m_rtag'[r] = RTagOf(base(r), ptl'[r], c(r))
    <2>1. m_nparticles'[r] = c(r)
      BY <1>2, ZenonT(60) DEF P
    <2> HIDE DEF c
    <2> QED BY <1>2, <2>1, ZenonT(60) DEF Index, P
  <1>9. ASSUME NEW r \in Rank
        PROVE  /\ ptl'[r] \in Particles(c(r))
               /\ \A i \in 0 .. (c(r) - 1) : ptl'[r][i].tag = Listed(P(r))[i] /\ ptl'[r][i].tag \in P(r)
               /\ \A i, j \in 0 .. (c(r) - 1) : ptl'[r][i].tag = ptl'[r][j].tag => i = j
    <2>1. ASSUME NEW i \in 0 .. (c(r) - 1)
          PROVE  /\ Listed(P(r))[i] \in P(r) /\ Listed(P(r))[i] \in 0 .. (n - 1)
                 /\ Listed(P(r))[i] \in Tag /\ angmom[Listed(P(r))[i]] \in AngMom
      <3>1. Listed(P(r))[i] \in P(r)
        BY <1>5, ZenonT(60)
      <3>2. Listed(P(r))[i] \in 0 .. (n - 1)
        BY <1>6, <3>1, ZenonT(60)
      <3> HIDE DEF c
      <3> QED BY <1>4, <3>1, <3>2, SMTT(30) DEF Tag
    <2> HIDE DEF c
    <2>2. ptl'[r] = [i \in 0 .. (c(r) - 1) |->
                    [tag |-> Listed(P(r))[i], pos |-> r, angmom |-> angmom[Listed(P(r))[i]]]]
      BY <1>8, ZenonT(60)
    <2>3. \A i \in 0 .. (c(r) - 1) :
            ptl'[r][i] = [tag |-> Listed(P(r))[i], pos |-> r, angmom |-> angmom[Listed(P(r))[i]]]
      BY <2>2, ZenonT(60)
    <2>4. ASSUME NEW i \in 0 .. (c(r) - 1) PROVE ptl'[r][i] \in Particle
      <3>1. Listed(P(r))[i] \in Tag /\ angmom[Listed(P(r))[i]] \in AngMom
        BY <2>1, <2>4, ZenonT(60)
      <3>2. ptl'[r][i] = [tag |-> Listed(P(r))[i], pos |-> r, angmom |-> angmom[Listed(P(r))[i]]]
        BY <2>3, <2>4, ZenonT(60)
      <3> QED BY <3>1, <3>2, SMTT(30) DEF Particle
    <2>5. DOMAIN ptl'[r] = 0 .. (c(r) - 1) /\ ptl'[r] = [i \in 0 .. (c(r) - 1) |-> ptl'[r][i]]
      BY <2>2, Zenon
    <2>6. ptl'[r] \in Particles(c(r))
      BY <2>4, <2>5, ZenonT(60) DEF Particles
    <2>7. \A i \in 0 .. (c(r) - 1) : ptl'[r][i].tag = Listed(P(r))[i] /\ ptl'[r][i].tag \in P(r)
      <3> SUFFICES ASSUME NEW i \in 0 .. (c(r) - 1)
                   PROVE  ptl'[r][i].tag = Listed(P(r))[i] /\ ptl'[r][i].tag \in P(r)
        BY Zenon
      <3>1. Listed(P(r))[i] \in P(r)
        BY <2>1, ZenonT(60)
      <3>2. ptl'[r][i] = [tag |-> Listed(P(r))[i], pos |-> r, angmom |-> angmom[Listed(P(r))[i]]]
        BY <2>3, ZenonT(60)
      <3> QED BY <3>1, <3>2, SMTT(30)
    <2>8. ASSUME NEW i \in 0 .. (c(r) - 1), NEW j \in 0 .. (c(r) - 1), ptl'[r][i].tag = ptl'[r][j].tag
          PROVE  i = j
      <3>1. Listed(P(r))[i] = Listed(P(r))[j] /\ Listed(P(r))[i] \in Int
        BY <2>1, <2>7, <2>8, SMTT(30)
      <3>2. c(r) \in Nat /\ ~(i < j) /\ ~(j < i)
        BY <1>5, <3>1
      <3> QED BY <3>2, SMTT(30)
    <2> QED BY <2>6, <2>7, <2>8, ZenonT(60)
  <1>10. ASSUME NEW r \in Rank
        PROVE  /\ m_rtag'[r] \in RTagArray
               /\ \A i \in 0 .. (c(r) - 1) : m_rtag'[r][ptl'[r][i].tag] = i
               /\ \A t \in 0 .. (n - 1) : t \in P(r) \/ m_rtag'[r][t] = NOT_LOCAL
    <2>1. base(r) \in RTagArray
      <3>1. RTagWithoutGhosts(r) \in RTagArray
        BY WithoutGhosts, ZenonT(60)
      <3> QED BY <3>1, ZenonT(60) DEF RTagArray
    <2>2. \A t \in 0 .. (n - 1) : t \in Tag /\ base(r)[t] = NOT_LOCAL
      BY <1>4, SMTT(30) DEF Tag
    <2> DEFINE f == ptl'[r]
               b == base(r)
               m == c(r)
    <2>3. /\ m \in Nat /\ f \in Particles(m) /\ b \in RTagArray
          /\ \A i, j \in 0 .. (m - 1) : f[i].tag = f[j].tag => i = j
      BY <1>5, <1>9, <2>1, ZenonT(60)
    <2>4. m_rtag'[r] = RTagOf(b, f, m)
      BY <1>8, ZenonT(60)
    <2> HIDE DEF f, b, m
    <2>5. /\ RTagOf(b, f, m) \in RTagArray
          /\ \A i \in 0 .. (m - 1) : RTagOf(b, f, m)[f[i].tag] = i
          /\ \A t \in Tag : (\A i \in 0 .. (m - 1) : f[i].tag # t) => RTagOf(b, f, m)[t] = b[t]
      BY <2>3, RTagOfArray, SMTT(30)
    <2>6. ASSUME NEW t \in 0 .. (n - 1), t \notin P(r) PROVE m_rtag'[r][t] = NOT_LOCAL
      <3>1. \A i \in 0 .. (m - 1) : f[i].tag # t
        BY <1>9, <2>6, SMTT(30) DEF f, m
      <3>2. b[t] = NOT_LOCAL /\ t \in Tag
        BY <2>2, Zenon DEF b
      <3> QED BY <2>4, <2>5, <3>1, <3>2, ZenonT(60)
    <2> QED BY <2>4, <2>5, <2>6, Zenon DEF f, m
  <1> HIDE DEF c, base
  <1>11. GhostFreeTypes'
    <2>1. \A s \in Rank : ptl'[s] \in [Index(s)' -> Particle]
      BY <1>8, <1>9, ZenonT(60) DEF Particles
    <2>2. m_rtag' \in [Rank -> RTagArray]
      <3>1. m_rtag' = [s \in Rank |-> m_rtag'[s]]
        BY <1>2, ZenonT(60)
      <3> QED BY <1>10, <3>1, ZenonT(60)
    <2>3. m_tag_set' \subseteq Tag /\ m_nglobal' \in 0 .. MaxTags /\ rtag_size' \in 0 .. MaxTags
          /\ m_recycled_tags' \in Seq(Tag)
      BY <1>2, <1>4, SMTT(30) DEF Tag
    <2> QED BY <1>3, <1>7, <2>1, <2>2, <2>3, ZenonT(60) DEF GhostFreeTypes
  <1>12. rtag_size' = n /\ m_nglobal' = n /\ m_tag_set' = 0 .. (n - 1) /\ m_recycled_tags' = <<>>
    BY <1>2, ZenonT(60)
  <1>13. GhostFreeLookup'
    <2>1. ASSUME NEW s \in Rank, NEW i \in Index(s)' PROVE m_rtag'[s][ptl'[s][i].tag] = i
      BY <1>8, <1>10, ZenonT(60)
    <2>2. ASSUME NEW s \in Rank, NEW u \in 0 .. (n - 1), m_rtag'[s][u] # NOT_LOCAL
          PROVE  m_rtag'[s][u] \in Index(s)' /\ ptl'[s][m_rtag'[s][u]].tag = u
      <3>1. u \in P(s)
        BY <1>10, <2>2, ZenonT(60)
      <3>2. PICK i \in 0 .. (c(s) - 1) : Listed(P(s))[i] = u
        BY <1>5, <3>1, ZenonT(60) DEF c
      <3>3. ptl'[s][i].tag = u /\ i \in Index(s)'
        BY <1>8, <1>9, <3>2, ZenonT(60)
      <3> QED BY <2>1, <3>3, ZenonT(60)
    <2>3. Len(m_recycled_tags') = 0
      BY <1>12, ZenonT(60)
    <2> QED BY <1>12, <2>1, <2>2, <2>3, SMTT(30) DEF GhostFreeLookup
  <1>14. GhostFreeOnce'
    <2>1. ASSUME NEW s \in Rank, NEW i \in Index(s)'
          PROVE  ptl'[s][i].tag \in 0 .. (n - 1) /\ pos[ptl'[s][i].tag] = s
      <3>1. ptl'[s][i].tag \in P(s)
        BY <1>8, <1>9, ZenonT(60)
      <3> QED BY <1>6, <3>1, ZenonT(60)
    <2>2. ASSUME NEW u \in 0 .. (n - 1) PROVE \E s \in Rank : \E i \in Index(s)' : ptl'[s][i].tag = u
      <3>1. pos[u] \in Rank /\ u \in P(pos[u])
        BY <1>6, ZenonT(60)
      <3>2. PICK s \in Rank : u \in P(s)
        BY <3>1, ZenonT(60)
      <3>3. PICK i \in 0 .. (c(s) - 1) : Listed(P(s))[i] = u
        BY <1>5, <3>2, ZenonT(60) DEF c
      <3> QED BY <1>8, <1>9, <3>3, ZenonT(60)
    <2>3. ASSUME NEW s \in Rank, NEW q \in Rank, NEW i \in Index(s)', NEW j \in Index(q)',
                 ptl'[s][i].tag = ptl'[q][j].tag
          PROVE  s = q
      BY <2>1, <2>3, SMTT(30)
    <2> QED BY <1>12, <2>1, <2>2, <2>3, ZenonT(60) DEF GhostFreeOnce
  <1>15. TagSpace'
    BY <1>4, <1>12 DEF TagSpace
  <1>16. CacheFresh'
    BY <1>3, Zenon DEF CacheFresh
  <1> QED BY <1>11, <1>13, <1>14, <1>15, <1>16, GhostFreeNext, ZenonT(60)

\* Every step keeps the invariant.
LEMMA NextInv == IInv /\ [Next]_vars => IInv'
  <1> SUFFICES ASSUME IInv, [Next]_vars PROVE IInv'
    BY Zenon
  <1>1. CASE initializeFromSnapshot
    BY <1>1, InitializeFromSnapshotInv, Zenon
  <1>2. CASE addParticle
    BY <1>2, AddParticleInv, ZenonT(60)
  <1>3. CASE getNthTag
    BY <1>3, GetNthTagInv, ZenonT(60)
  <1>4. CASE \E t \in Tag : removeParticle(t) \/ removeParticleThrows(t)
    BY <1>4, RemoveParticleInv, RemoveParticleThrowsInv, ZenonT(60)
  <1>5. CASE \E t \in Tag, d \in Rank, move \in BOOLEAN : setPosition(t, d, move)
    BY <1>5, SetPositionInv, ZenonT(60)
  <1>6. CASE \E t \in Tag, v \in AngMom : setAngularMomentum(t, v)
    BY <1>6, SetAngularMomentumInv, ZenonT(60)
  <1>7. CASE \E r \in Rank : removeParticles(r) \/ addParticles(r)
    BY <1>7, RemoveParticlesInv, AddParticlesInv, ZenonT(60)
  <1>8. CASE \E r \in Rank, t \in Tag : addGhostParticles(r, t)
    BY <1>8, AddGhostParticlesInv, ZenonT(60)
  <1>9. CASE UNCHANGED vars
    <2>1. /\ UNCHANGED <<ptl, m_nparticles, ghost, m_nghosts, m_rtag, transit>>
          /\ UNCHANGED <<m_nglobal, m_tag_set, m_recycled_tags, rtag_size>>
          /\ UNCHANGED <<m_cached_tag_set, m_invalid_cached_tags>>
      BY <1>9, ZenonT(60) DEF vars, tags, cache
    <2>2. \A r \in Rank : Index(r)' = Index(r)
      BY <2>1, Zenon DEF Index
    <2>3. TypeOK'
      BY <2>1, <2>2, ZenonT(60) DEF IInv, TypeOK
    <2>4. EveryParticleOnce'
      <3>1. EveryParticleOnce
        BY Zenon DEF IInv
      <3> QED BY <2>1, <2>2, <3>1, SMTT(30) DEF EveryParticleOnce
    <2>5. RTagsConsistent'
      BY <2>1, <2>2, ZenonT(60) DEF IInv, RTagsConsistent
    <2>6. TagSpace' /\ CacheFresh'
      BY <2>1, SMTT(30) DEF IInv, TagSpace, CacheFresh
    <2> QED BY <2>3, <2>4, <2>5, <2>6, ZenonT(60) DEF IInv
  <1> QED BY <1>1, <1>2, <1>3, <1>4, <1>5, <1>6, <1>7, <1>8, <1>9, ZenonT(60) DEF Next

(* The particle and ghost arrays always have the lengths that their        *)
(* counters say, and every member its type.                                *)
THEOREM TypeCorrect == Spec => []TypeOK
  BY InitInv, NextInv, PTL DEF Spec, IInv

(* No sequence of insertions, removals, moves, migration and ghost steps   *)
(* loses or duplicates a particle.                                         *)
THEOREM NoParticleLost == Spec => []EveryParticleOnce
  BY InitInv, NextInv, PTL DEF Spec, IInv

(* The reverse lookup is exact on every rank, also after its array was     *)
(* cut short and extended again.                                           *)
THEOREM LookupsConsistent == Spec => []RTagsConsistent
  BY InitInv, NextInv, PTL DEF Spec, IInv

(* A tag is never handed out twice, and the assertions of addParticle()    *)
(* about the size of m_rtag hold.                                          *)
THEOREM TagsUnique == Spec => []TagSpace
  BY InitInv, NextInv, PTL DEF Spec, IInv

\* getNthTag() returns the n-th smallest active tag.
THEOREM TagCacheFresh == Spec => []CacheFresh
  BY InitInv, NextInv, PTL DEF Spec, IInv

\* The lookup of a local tag leads to the particle with that tag.
LEMMA LocalTag ==
  ASSUME IInv, NEW t \in 0 .. (rtag_size - 1), NEW r \in Rank, isLocal(r, t)
  PROVE  m_rtag[r][t] \in Index(r) /\ ptl[r][m_rtag[r][t]].tag = t
  <1>1. m_nparticles[r] \in Nat /\ m_rtag[r][t] \in Index(r)
    BY Zenon DEF IInv, TypeOK, isLocal
  <1>2. m_rtag[r][t] # NOT_LOCAL /\ ~(m_rtag[r][t] - m_nparticles[r] \in 0 .. (m_nghosts[r] - 1))
    BY <1>1 DEF Index, NOT_LOCAL
  <1> QED BY <1>1, <1>2, ZenonT(60) DEF IInv, RTagsConsistent

(* Between migrations, looking up a tag succeeds on exactly one rank if    *)
(* the tag is active, and on none otherwise.                               *)
THEOREM LookupByTag == Spec => []LookupExact
  <1>1. IInv => LookupExact
    <2> SUFFICES ASSUME IInv, transit = {}, NEW t \in 0 .. (rtag_size - 1)
                 PROVE  /\ isOwned(t) <=> t \in m_tag_set
                        /\ isOwned(t) => OwnedByOne(t) /\ getParticle(t).tag = t
      BY Zenon DEF LookupExact
    <2>1. ASSUME NEW r \in Rank, isLocal(r, t)
          PROVE  ptl[r][m_rtag[r][t]].tag = t /\ m_rtag[r][t] \in Index(r)
      BY <2>1, LocalTag, ZenonT(60)
    <2>2. ASSUME NEW r \in Rank, NEW i \in Index(r), ptl[r][i].tag = t PROVE isLocal(r, t)
      BY <2>2, ZenonT(60) DEF IInv, RTagsConsistent, isLocal
    <2>3. isOwned(t) <=> t \in m_tag_set
      BY <2>1, <2>2, SMTT(30) DEF isOwned, IInv, EveryParticleOnce
    <2>4. ASSUME isOwned(t) PROVE OwnedByOne(t) /\ getParticle(t).tag = t
      <3>1. getOwnerRank(t) \in Rank /\ isLocal(getOwnerRank(t), t)
        BY <2>4, ZenonT(60) DEF isOwned, getOwnerRank
      <3>2. \A r, s \in Rank : isLocal(r, t) /\ isLocal(s, t) => r = s
        BY <2>1, SMTT(30) DEF IInv, EveryParticleOnce
      <3> QED BY <2>1, <3>1, <3>2, ZenonT(60) DEF OwnedByOne, getParticle
    <2> QED BY <2>3, <2>4, ZenonT(60)
  <1> QED BY <1>1, InitInv, NextInv, PTL DEF Spec

(* Element i of a snapshot is the particle with the i-th smallest active   *)
(* tag, the same that the calls by tag read.                               *)
THEOREM SnapshotByTag == Spec => []SnapshotAgrees
  <1>1. IInv /\ LookupExact => SnapshotAgrees
    <2> SUFFICES ASSUME IInv, LookupExact, transit = {}, NEW i \in 0 .. (m_nglobal - 1)
                 PROVE  /\ SnapshotElement(i) = getParticle(Listed(m_tag_set)[i])
                        /\ SnapshotElement(i).tag = Listed(m_tag_set)[i]
      BY Zenon DEF SnapshotAgrees
    <2>1. PICK t \in m_tag_set : t = Listed(m_tag_set)[i]
      <3>1. m_tag_set \in SUBSET (0 .. MaxTags) /\ MaxTags \in Nat /\ Cardinality(m_tag_set) = m_nglobal
        BY ParticleDataAssumption, ActiveTagCount, SMTT(30) DEF IInv, TypeOK, Tag
      <3>2. Listed(m_tag_set) \in [0 .. (m_nglobal - 1) -> m_tag_set]
        BY <3>1, ListedInOrder, ZenonT(60)
      <3> QED BY <3>2, ZenonT(60)
    <2>2. PICK r \in Rank : \E k \in Index(r) : ptl[r][k].tag = t
      BY ZenonT(60) DEF IInv, EveryParticleOnce
    <2>3. PICK k \in Index(r) : ptl[r][k].tag = t
      BY <2>2, ZenonT(60)
    <2>4. m_rtag[r][t] = k
      BY <2>3, ZenonT(60) DEF IInv, RTagsConsistent
    <2>5. \A s \in Rank : \A j \in Index(s) : ptl[s][j].tag = t => s = r /\ j = k
      BY <2>3, SMTT(30) DEF IInv, EveryParticleOnce
    <2>6. getParticle(t) = ptl[r][k]
      <3>1. t \in 0 .. (rtag_size - 1)
        BY SMTT(30) DEF IInv, TagSpace, TypeOK, Tag
      <3>2. OwnedByOne(t) /\ isLocal(r, t)
        BY <2>4, <3>1, ZenonT(60) DEF LookupExact, isLocal
      <3>3. getOwnerRank(t) = r
        BY <3>2, Zenon DEF OwnedByOne, getOwnerRank
      <3> QED BY <2>4, <3>3, ZenonT(60) DEF getParticle
    <2>7. SnapshotElement(i) = ptl[r][k]
      <3>1. CASE NRanks = 1
        <4>1. r = 0
          BY <3>1, SMTT(30) DEF Rank
        <4> QED BY <2>1, <2>4, <3>1, <4>1, ZenonT(60) DEF SnapshotElement, SnapshotTag
      <3>2. CASE NRanks # 1
        <4> DEFINE has(s) == \E j \in Index(s) : ptl[s][j].tag = t
        <4>1. has(r) /\ \A s \in Rank : has(s) => s = r
          BY <2>3, <2>5, ZenonT(60)
        <4>2. \A s \in 0 .. (r - 1) : s \in Rank /\ s # r
          BY ParticleDataAssumption DEF Rank
        <4>3. (CHOOSE s \in Rank : has(s) /\ \A q \in 0 .. (s - 1) : ~has(q)) = r
          <5> HIDE DEF has
          <5> QED BY <4>1, <4>2, Zenon
        <4>4. (CHOOSE j \in Index(r) : ptl[r][j].tag = t) = k
          BY <2>3, <2>5, ZenonT(60)
        <4>5. SnapshotElement(i) =
                LET q == CHOOSE s \in Rank : has(s) /\ \A z \in 0 .. (s - 1) : ~has(z)
                IN  ptl[q][CHOOSE j \in Index(q) : ptl[q][j].tag = t]
          BY <2>1, <3>2, ZenonT(60) DEF SnapshotElement, SnapshotTag
        <4> HIDE DEF has
        <4> QED BY <4>3, <4>4, <4>5, ZenonT(60)
      <3> QED BY <3>1, <3>2, ZenonT(60)
    <2> QED BY <2>1, <2>3, <2>6, <2>7, ZenonT(60)
  <1> QED BY <1>1, LookupByTag, InitInv, NextInv, PTL DEF Spec

-----------------------------------------------------------------------------
(* That ParticleData implements ParticleTable.  The table of positions is  *)
(* read off the particles wherever they are, so a step is followed through *)
(* the places at which a particle with tag u and position d is.            *)
Table == [t \in m_tag_set |-> ParticleOf(t).pos]

At(u, d) ==
  \/ \E r \in Rank : \E i \in Index(r) : ptl[r][i].tag = u /\ ptl[r][i].pos = d
  \/ \E p \in transit : p.tag = u /\ p.pos = d

TableRead ==
  \A u \in m_tag_set : /\ \E d \in Rank : At(u, d)
                       /\ \A d \in Rank : At(u, d) => Table[u] = d

\* Every active tag is at one position, which is its entry of the table.
LEMMA InvTable == IInv => TableRead
  <1> SUFFICES ASSUME IInv, NEW u \in m_tag_set
               PROVE  /\ \E d \in Rank : At(u, d)
                      /\ \A d \in Rank : At(u, d) => Table[u] = d
    BY Zenon DEF TableRead
  <1>1. \E d \in Rank : At(u, d)
    <2>1. CASE \E r \in Rank : \E i \in Index(r) : ptl[r][i].tag = u
      <3>1. PICK r \in Rank : \E i \in Index(r) : ptl[r][i].tag = u
        BY <2>1, Zenon
      <3>2. PICK i \in Index(r) : ptl[r][i].tag = u
        BY <3>1, ZenonT(60)
      <3>3. ptl[r][i] \in Particle
        BY ZenonT(60) DEF IInv, TypeOK
      <3>4. ptl[r][i].pos \in Rank
        BY <3>3 DEF Particle
      <3> QED BY <3>2, <3>4, ZenonT(60) DEF At
    <2>2. CASE \E p \in transit : p.tag = u
      <3>1. PICK p \in transit : p.tag = u
        BY <2>2, Zenon
      <3>2. p.pos \in Rank
        BY DEF IInv, TypeOK, Particle
      <3> QED BY <3>1, <3>2, ZenonT(60) DEF At
    <2> QED BY <2>1, <2>2, ZenonT(60) DEF IInv, EveryParticleOnce
  <1>2. ASSUME NEW d \in Rank, At(u, d) PROVE Table[u] = d
    <2>1. ASSUME NEW r \in Rank, NEW i \in Index(r) PROVE ptl[r][i] \in AllParticles
      <3> DEFINE S(s) == {ptl[s][j] : j \in Index(s)}
      <3>1. S(r) \in {S(s) : s \in Rank}
        BY Zenon
      <3>2. ptl[r][i] \in S(r)
        BY Zenon
      <3> QED BY <3>1, <3>2, Zenon DEF AllParticles
    <2>2. PICK p \in AllParticles : p.tag = u /\ p.pos = d
      BY <1>2, <2>1, ZenonT(60) DEF At, AllParticles
    <2>3. ASSUME NEW q \in AllParticles, q.tag = u PROVE q = p
      <3>1. \A x \in AllParticles :
              (\E r \in Rank : \E i \in Index(r) : x = ptl[r][i]) \/ x \in transit
        BY ZenonT(60) DEF AllParticles
      <3>2. CASE \E r \in Rank : \E i \in Index(r) : p = ptl[r][i]
        BY <2>2, <2>3, <3>1, <3>2, SMTT(30) DEF IInv, EveryParticleOnce
      <3>3. CASE p \in transit
        BY <2>2, <2>3, <3>1, <3>3, SMTT(30) DEF IInv, EveryParticleOnce
      <3> QED BY <3>1, <3>2, <3>3, ZenonT(60)
    <2>4. ParticleOf(u) = p
      BY <2>2, <2>3, ZenonT(60) DEF ParticleOf
    <2> QED BY <2>2, <2>4, ZenonT(60) DEF Table
  <1> QED BY <1>1, <1>2, Zenon

\* The same of the state after a step.
LEMMA InvTableNext == IInv' => TableRead'
  BY InvTable, PTL

\* A particle that is where it was keeps its entry.
LEMMA EntryKept ==
  ASSUME IInv, IInv', NEW u \in m_tag_set, u \in m_tag_set',
         \A d \in Rank : At(u, d) => At(u, d)'
  PROVE  Table'[u] = Table[u]
  <1>1. PICK d \in Rank : At(u, d)
    BY InvTable, ZenonT(60) DEF TableRead
  <1>2. Table[u] = d
    BY <1>1, InvTable, ZenonT(60) DEF TableRead
  <1>3. Table'[u] = d
    BY <1>1, InvTableNext, ZenonT(60) DEF TableRead
  <1> QED BY <1>2, <1>3, ZenonT(60)

\* Then, if no particle comes or goes, the table is the same.
LEMMA TableKept ==
  ASSUME IInv, IInv', m_tag_set' = m_tag_set,
         \A u \in m_tag_set, d \in Rank : At(u, d) => At(u, d)'
  PROVE  Table' = Table
  <1>1. \A u \in m_tag_set : Table'[u] = Table[u]
    BY EntryKept, Zenon
  <1>2. Table = [t \in m_tag_set |-> Table[t]] /\ Table' = [t \in m_tag_set' |-> Table'[t]]
    BY Zenon DEF Table
  <1> QED BY <1>1, <1>2, ZenonT(60)

\* Steps that leave the particle arrays and the migration buffers alone.
LEMMA ParticlesUntouched ==
  ASSUME IInv, IInv', UNCHANGED <<ptl, m_nparticles, transit, m_tag_set>>
  PROVE  Table' = Table
  <1>1. \A r \in Rank : Index(r)' = Index(r)
    BY Zenon DEF Index
  <1>2. \A u \in m_tag_set, d \in Rank : At(u, d) => At(u, d)'
    BY <1>1, Zenon DEF At
  <1> QED BY <1>2, TableKept, ZenonT(60)

\* Packing: the flagged particles go to the buffer, the others stay in the arrays.
LEMMA RemoveParticlesTable ==
  ASSUME IInv, IInv', NEW r \in Rank, removeParticles(r)
  PROVE  Table' = Table
  <1>1. PICK flagged \in SUBSET Index(r) :
          /\ ptl' = [ptl EXCEPT ![r] = Compacted(r, flagged)]
          /\ m_nparticles' = [m_nparticles EXCEPT ![r] = Cardinality(Kept(r, flagged))]
          /\ transit' = transit \union {ptl[r][i] : i \in flagged}
    BY Zenon DEF removeParticles
  <1>2. /\ m_tag_set' = m_tag_set /\ DOMAIN ptl = Rank /\ m_nparticles \in [Rank -> Nat]
        /\ m_rtag[r] \in RTagArray
    BY DEF removeParticles, tags, IInv, TypeOK, RTagArray
  <1> DEFINE m == Cardinality(Kept(r, flagged))
             c == Compacted(r, flagged)
  <1>3. \A k \in Kept(r, flagged) : \E i \in 0 .. (m - 1) : c[i] = ptl[r][k]
    <2>1. Compacts(r, flagged, m_rtag[r])
      BY <1>2, CompactionKeeps, SMTT(30)
    <2> QED BY <2>1, ZenonT(60) DEF Compacts
  <1> HIDE DEF m, c
  <1>4. ptl'[r] = c /\ Index(r)' = 0 .. (m - 1)
    BY <1>1, <1>2, ZenonT(60) DEF Index, m, c
  <1>5. \A s \in Rank \ {r} : ptl'[s] = ptl[s] /\ Index(s)' = Index(s)
    BY <1>1, <1>2, ZenonT(60) DEF Index
  <1>6. ASSUME NEW u \in m_tag_set, NEW d \in Rank, At(u, d) PROVE At(u, d)'
    <2>1. CASE \E p \in transit : p.tag = u /\ p.pos = d
      BY <1>1, <2>1, ZenonT(60) DEF At
    <2>2. ASSUME NEW s \in Rank, NEW i \in Index(s), ptl[s][i].tag = u, ptl[s][i].pos = d
          PROVE  At(u, d)'
      <3>1. CASE s # r
        BY <1>5, <2>2, <3>1, ZenonT(60) DEF At
      <3>2. CASE s = r /\ i \in flagged
        BY <1>1, <2>2, <3>2, ZenonT(60) DEF At
      <3>3. CASE s = r /\ i \notin flagged
        <4>1. PICK j \in 0 .. (m - 1) : c[j] = ptl[r][i]
          BY <1>3, <3>3, ZenonT(60) DEF Kept
        <4> QED BY <1>4, <2>2, <3>3, <4>1, ZenonT(60) DEF At
      <3> QED BY <3>1, <3>2, <3>3, ZenonT(60)
    <2> QED BY <1>6, <2>1, <2>2, ZenonT(60) DEF At
  <1> QED BY <1>2, <1>6, TableKept, ZenonT(60)

\* Unpacking: the particle of the buffer comes to the end of the array.
LEMMA AddParticlesTable ==
  ASSUME IInv, IInv', NEW r \in Rank, addParticles(r)
  PROVE  Table' = Table
  <1> DEFINE n == m_nparticles[r]
  <1>1. PICK p \in transit :
          /\ ptl' = [ptl EXCEPT ![r] = Appended(@, n, p)]
          /\ m_nparticles' = [m_nparticles EXCEPT ![r] = @ + 1]
          /\ transit' = transit \ {p}
    BY Zenon DEF addParticles
  <1>2. m_tag_set' = m_tag_set /\ DOMAIN ptl = Rank /\ m_nparticles \in [Rank -> Nat] /\ n \in Nat
    BY DEF addParticles, tags, IInv, TypeOK
  <1>3. /\ \A i \in Index(r) : i \in Index(r)' /\ ptl'[r][i] = ptl[r][i]
        /\ n \in Index(r)' /\ ptl'[r][n] = p
    <2>1. m_nparticles'[r] = n + 1 /\ ptl'[r] = Appended(ptl[r], n, p)
      BY <1>1, <1>2, ZenonT(60)
    <2> HIDE DEF n
    <2>2. Index(r) = 0 .. (n - 1) /\ Index(r)' = 0 .. n
      BY <1>2, <2>1, SMTT(30) DEF Index, n
    <2> QED BY <1>2, <2>1, <2>2, SMTT(30) DEF Appended
  <1>4. \A s \in Rank \ {r} : ptl'[s] = ptl[s] /\ Index(s)' = Index(s)
    BY <1>1, <1>2, ZenonT(60) DEF Index
  <1> HIDE DEF n
  <1>5. ASSUME NEW u \in m_tag_set, NEW d \in Rank, At(u, d) PROVE At(u, d)'
    <2>1. ASSUME NEW q \in transit, q.tag = u, q.pos = d PROVE At(u, d)'
      BY <1>1, <1>3, <2>1, ZenonT(60) DEF At
    <2>2. ASSUME NEW s \in Rank, NEW i \in Index(s), ptl[s][i].tag = u, ptl[s][i].pos = d
          PROVE  At(u, d)'
      <3>1. i \in Index(s)' /\ ptl'[s][i] = ptl[s][i]
        BY <1>3, <1>4, ZenonT(60)
      <3> QED BY <2>2, <3>1, ZenonT(60) DEF At
    <2> QED BY <1>5, <2>1, <2>2, ZenonT(60) DEF At
  <1> QED BY <1>2, <1>5, TableKept, ZenonT(60)

\* Overwriting attributes of one particle.
LEMMA RewrittenAt ==
  ASSUME IInv, NEW r \in Rank, NEW k \in Index(r), NEW q, q.tag = ptl[r][k].tag,
         ptl' = [ptl EXCEPT ![r] = [@ EXCEPT ![k] = q]], UNCHANGED <<m_nparticles, transit>>
  PROVE  /\ At(q.tag, q.pos)'
         /\ \A u \in m_tag_set, e \in Rank : u # q.tag /\ At(u, e) => At(u, e)'
  <1>1. /\ DOMAIN ptl = Rank /\ DOMAIN ptl[r] = Index(r)
        /\ \A s \in Rank : Index(s)' = Index(s)
    BY Zenon DEF IInv, TypeOK, Index
  <1>2. /\ ptl'[r][k] = q
        /\ \A s \in Rank : \A i \in Index(s) : s # r \/ i # k => ptl'[s][i] = ptl[s][i]
    BY <1>1, ZenonT(60)
  <1>3. At(q.tag, q.pos)'
    BY <1>1, <1>2, ZenonT(60) DEF At
  <1>4. ASSUME NEW u \in m_tag_set, NEW e \in Rank, u # q.tag, At(u, e) PROVE At(u, e)'
    <2>1. ASSUME NEW s \in Rank, NEW i \in Index(s), ptl[s][i].tag = u, ptl[s][i].pos = e
          PROVE  At(u, e)'
      <3>1. s # r \/ i # k
        BY <1>4, <2>1, ZenonT(60)
      <3>2. i \in Index(s)' /\ ptl'[s][i].tag = u /\ ptl'[s][i].pos = e
        BY <1>1, <1>2, <2>1, <3>1, ZenonT(60)
      <3> QED BY <3>2, ZenonT(60) DEF At
    <2> QED BY <1>4, <2>1, ZenonT(60) DEF At
  <1> QED BY <1>3, <1>4, ZenonT(60)

LEMMA SetAngularMomentumTable ==
  ASSUME IInv, IInv', NEW t \in Tag, NEW v \in AngMom, setAngularMomentum(t, v)
  PROVE  Table' = Table
  <1>1. getOwnerRank(t) \in Rank /\ m_rtag[getOwnerRank(t)][t] \in Index(getOwnerRank(t))
    BY Zenon DEF setAngularMomentum, OwnedByOne, getOwnerRank, isLocal
  <1>2. PICK r \in Rank : r = getOwnerRank(t)
    BY <1>1, ZenonT(60)
  <1>3. PICK k \in Index(r) : r = getOwnerRank(t) /\ k = m_rtag[r][t]
    BY <1>1, <1>2, ZenonT(60)
  <1>4. PICK q : q = [ptl[r][k] EXCEPT !.angmom = v]
    BY ZenonT(60)
  <1>5. ptl[r] \in [Index(r) -> Particle] /\ DOMAIN ptl = Rank /\ ptl[r][k].tag \in m_tag_set
    BY <1>3, ZenonT(60) DEF IInv, TypeOK, EveryParticleOnce
  <1>6. /\ ptl' = [ptl EXCEPT ![r] = [@ EXCEPT ![k].angmom = v]]
        /\ UNCHANGED <<m_nparticles, transit>> /\ m_tag_set' = m_tag_set
    BY <1>3, ZenonT(60) DEF setAngularMomentum, tags
  <1>7. q.pos = ptl[r][k].pos /\ q.tag = ptl[r][k].tag /\ q.pos \in Rank
    BY <1>5, <1>4 DEF Particle
  <1>8. ptl' = [ptl EXCEPT ![r] = [@ EXCEPT ![k] = q]]
    BY <1>5, <1>6, <1>4, ZenonT(60)
  <1>9. /\ At(q.tag, q.pos)'
        /\ \A u \in m_tag_set, e \in Rank : u # q.tag /\ At(u, e) => At(u, e)'
    <2>1. UNCHANGED <<m_nparticles, transit>> /\ q.tag = ptl[r][k].tag
      BY <1>6, <1>7, ZenonT(60)
    <2> QED BY <1>8, <2>1, RewrittenAt, ZenonT(60)
  <1>10. ASSUME NEW e \in Rank, At(q.tag, e) PROVE e = q.pos
    <2>1. q.tag \in m_tag_set /\ At(q.tag, q.pos)
      BY <1>5, <1>7, ZenonT(60) DEF At
    <2> QED BY <1>7, <1>10, <2>1, InvTable, ZenonT(60) DEF TableRead
  <1>11. ASSUME NEW u \in m_tag_set, NEW e \in Rank, At(u, e) PROVE At(u, e)'
    <2>1. CASE u = q.tag
      <3>1. e = q.pos
        BY <1>10, <1>11, <2>1, ZenonT(60)
      <3> QED BY <1>9, <2>1, <3>1, ZenonT(60)
    <2> QED BY <1>9, <1>11, <2>1, ZenonT(60)
  <1> QED BY <1>6, <1>11, TableKept, ZenonT(60)

\* The owner's array after setPosition(), which stores the position or moves the particle.
LEMMA SetPositionTable ==
  ASSUME IInv, IInv', NEW t \in Tag, NEW d \in Rank, NEW move \in BOOLEAN, setPosition(t, d, move)
  PROVE  t \in DOMAIN Table /\ Table' = [Table EXCEPT ![t] = d]
  <1>1. getOwnerRank(t) \in Rank /\ isLocal(getOwnerRank(t), t)
    BY ZenonT(60) DEF setPosition, OwnedByOne, getOwnerRank
  <1>2. PICK r \in Rank : r = getOwnerRank(t)
    BY <1>1, ZenonT(60)
  <1>3. t \in 0 .. (rtag_size - 1)
    BY SMTT(30) DEF setPosition, Tag, IInv, TypeOK
  <1>4. PICK k \in Index(r) : r = getOwnerRank(t) /\ k = m_rtag[r][t] /\ ptl[r][k].tag = t
    BY <1>1, <1>2, <1>3, LocalTag, ZenonT(60)
  <1>5. PICK p : p = [ptl[r][k] EXCEPT !.pos = d]
    BY Zenon
  <1>6. /\ DOMAIN ptl = Rank /\ m_nparticles \in [Rank -> Nat]
        /\ \A s \in Rank : ptl[s] \in [Index(s) -> Particle]
    BY ZenonT(60) DEF IInv, TypeOK
  <1>7. p.tag = t /\ p.pos = d
    <2>1. ptl[r][k] \in Particle
      BY <1>6, ZenonT(60)
    <2> QED BY <1>4, <1>5, <2>1 DEF Particle
  <1>8. transit = {} /\ m_tag_set' = m_tag_set /\ UNCHANGED transit /\ t \in m_tag_set
    <2>1. ptl[r][k].tag \in m_tag_set
      BY ZenonT(60) DEF IInv, EveryParticleOnce
    <2>2. t \in m_tag_set
      BY <1>4, <2>1, ZenonT(60)
    <2> QED BY <2>2, ZenonT(60) DEF setPosition, tags
  <1>9. /\ At(t, d)'
        /\ \A u \in m_tag_set, e \in Rank : u # t /\ At(u, e) => At(u, e)'
    <2>1. CASE d = r \/ ~move
      <3>1. /\ ptl' = [ptl EXCEPT ![r] = [@ EXCEPT ![k] = p]]
            /\ UNCHANGED <<m_nparticles, transit>>
        BY <1>4, <1>8, <1>5, <2>1, ZenonT(60) DEF setPosition
      <3>2. p.tag = ptl[r][k].tag
        BY <1>4, <1>7, ZenonT(60)
      <3>3. /\ At(p.tag, p.pos)'
            /\ \A u \in m_tag_set, e \in Rank : u # p.tag /\ At(u, e) => At(u, e)'
        BY <3>1, <3>2, RewrittenAt, ZenonT(60)
      <3> QED BY <1>7, <3>3, ZenonT(60)
    <2>2. CASE d # r /\ move
      <3> DEFINE m == Cardinality(Kept(r, {k}))
                 c == Compacted(r, {k})
                 n == m_nparticles[d]
      <3>1. /\ ptl' = [ptl EXCEPT ![r] = c, ![d] = Appended(ptl[d], n, p)]
            /\ m_nparticles' = [m_nparticles EXCEPT ![r] = m, ![d] = n + 1]
        BY <1>4, <1>6, <1>5, <2>2, ZenonT(60) DEF setPosition
      <3>2. /\ ptl'[r] = c /\ ptl'[d] = Appended(ptl[d], n, p)
            /\ m_nparticles'[r] = m /\ m_nparticles'[d] = n + 1
            /\ \A s \in Rank \ {r, d} : ptl'[s] = ptl[s] /\ Index(s)' = Index(s)
        BY <1>4, <1>6, <2>2, <3>1, ZenonT(60) DEF Index
      <3>3. \A l \in Kept(r, {k}) : \E i \in 0 .. (m - 1) : c[i] = ptl[r][l]
        <4> DEFINE flagged == {k}
        <4>1. flagged \in SUBSET Index(r) /\ m_rtag[r] \in RTagArray
          BY ZenonT(60) DEF IInv, TypeOK, RTagArray
        <4> HIDE DEF flagged
        <4>2. \A l \in Kept(r, flagged) :
                \E i \in 0 .. (Cardinality(Kept(r, flagged)) - 1) :
                  Compacted(r, flagged)[i] = ptl[r][l]
          <5>1. Compacts(r, flagged, m_rtag[r])
            BY <4>1, CompactionKeeps, SMTT(30)
          <5> QED BY <5>1, ZenonT(60) DEF Compacts
        <4> QED BY <4>2, ZenonT(60) DEF flagged
      <3> HIDE DEF m, c
      <3>4. Index(r)' = 0 .. (m - 1)
        BY <3>2, ZenonT(60) DEF Index
      <3>5. /\ n \in Index(d)' /\ ptl'[d][n] = p
            /\ \A i \in Index(d) : i \in Index(d)' /\ ptl'[d][i] = ptl[d][i]
        <4>1. n \in Nat /\ Index(d) = 0 .. (n - 1)
          BY <1>6, ZenonT(60) DEF Index
        <4>2. Index(d)' = 0 .. ((n + 1) - 1)
          BY <3>2, ZenonT(60) DEF Index
        <4> HIDE DEF n
        <4> QED BY <3>2, <4>1, <4>2, SMTT(30) DEF Appended
      <3> HIDE DEF n
      <3>6. At(t, d)'
        BY <1>7, <3>5, ZenonT(60) DEF At
      <3>7. ASSUME NEW u \in m_tag_set, NEW e \in Rank, u # t, At(u, e) PROVE At(u, e)'
        <4>1. PICK s \in Rank : \E i \in Index(s) : ptl[s][i].tag = u /\ ptl[s][i].pos = e
          BY <1>8, <3>7, ZenonT(60) DEF At
        <4>2. PICK i \in Index(s) : ptl[s][i].tag = u /\ ptl[s][i].pos = e
          BY <4>1, ZenonT(60)
        <4>3. CASE s = r
          <5>1. i \in Kept(r, {k})
            BY <1>4, <3>7, <4>2, <4>3, ZenonT(60) DEF Kept
          <5>2. PICK j \in 0 .. (m - 1) : c[j] = ptl[r][i]
            BY <3>3, <5>1, ZenonT(60)
          <5>3. ptl'[r][j].tag = u /\ ptl'[r][j].pos = e /\ j \in Index(r)'
            BY <3>2, <3>4, <4>2, <4>3, <5>2, ZenonT(60)
          <5> QED BY <5>3, ZenonT(60) DEF At
        <4>4. CASE s = d
          BY <3>5, <4>2, <4>4, ZenonT(60) DEF At
        <4>5. CASE s # r /\ s # d
          BY <3>2, <4>2, <4>5, ZenonT(60) DEF At
        <4> QED BY <4>3, <4>4, <4>5, ZenonT(60)
      <3> QED BY <3>6, <3>7, ZenonT(60)
    <2> QED BY <2>1, <2>2, ZenonT(60)
  <1>10. ASSUME NEW u \in m_tag_set, u # t PROVE Table'[u] = Table[u]
    BY <1>8, <1>9, <1>10, EntryKept, ZenonT(60)
  <1>11. Table'[t] = d
    BY <1>8, <1>9, InvTableNext, ZenonT(60) DEF TableRead
  <1>12. Table = [u \in m_tag_set |-> Table[u]] /\ Table' = [u \in m_tag_set' |-> Table'[u]]
    BY Zenon DEF Table
  <1> QED BY <1>8, <1>10, <1>11, <1>12, ZenonT(60)


\* The new particle is at the origin, at the end of rank 0.
LEMMA AddParticleTable ==
  ASSUME IInv, IInv', addParticle
  PROVE  \E t \in Tag \ DOMAIN Table :
           Table' = [u \in DOMAIN Table \union {t} |-> IF u = t THEN Origin ELSE Table[u]]
  <1>1. PICK t \in Tag :
          /\ t \notin m_tag_set
          /\ m_tag_set' = m_tag_set \union {t}
          /\ ptl' = [ptl EXCEPT ![0] = Appended(@, m_nparticles[0],
                                                [tag |-> t, pos |-> Origin, angmom |-> 0])]
    BY AddParticleTags, ZenonT(60)
  <1>2. /\ m_nparticles' = [m_nparticles EXCEPT ![0] = @ + 1] /\ transit' = transit
        /\ DOMAIN ptl = Rank /\ m_nparticles \in [Rank -> Nat]
    BY ZenonT(60) DEF addParticle, IInv, TypeOK
  <1>3. 0 \in Rank /\ Origin \in Rank
    BY ParticleDataAssumption, SMTT(30) DEF Rank
  <1>4. PICK p : p = [tag |-> t, pos |-> Origin, angmom |-> 0]
    BY Zenon
  <1>5. p.tag = t /\ p.pos = Origin
    BY <1>4
  <1>6. PICK n \in Nat : n = m_nparticles[0]
    BY <1>2, <1>3, ZenonT(60)
  <1>7. /\ n \in Index(0)' /\ ptl'[0][n] = p
        /\ \A i \in Index(0) : i \in Index(0)' /\ ptl'[0][i] = ptl[0][i]
    <2>1. m_nparticles'[0] = n + 1 /\ ptl'[0] = Appended(ptl[0], n, p)
      BY <1>1, <1>2, <1>3, <1>4, <1>6, ZenonT(60)
    <2>2. Index(0) = 0 .. (n - 1) /\ Index(0)' = 0 .. ((n + 1) - 1)
      BY <1>6, <2>1, ZenonT(60) DEF Index
    <2> QED BY <2>1, <2>2, SMTT(30) DEF Appended
  <1>8. \A s \in Rank \ {0} : ptl'[s] = ptl[s] /\ Index(s)' = Index(s)
    BY <1>1, <1>2, ZenonT(60) DEF Index
  <1>9. Table'[t] = Origin
    <2>1. At(t, Origin)'
      BY <1>3, <1>7, <1>5, ZenonT(60) DEF At
    <2> QED BY <1>1, <1>3, <2>1, InvTableNext, ZenonT(60) DEF TableRead
  <1>10. ASSUME NEW u \in m_tag_set PROVE Table'[u] = Table[u]
    <2>1. ASSUME NEW e \in Rank, At(u, e) PROVE At(u, e)'
      <3>1. ASSUME NEW s \in Rank, NEW i \in Index(s), ptl[s][i].tag = u, ptl[s][i].pos = e
            PROVE  At(u, e)'
        <4>1. i \in Index(s)' /\ ptl'[s][i] = ptl[s][i]
          BY <1>7, <1>8, ZenonT(60)
        <4>2. ptl'[s][i].tag = u /\ ptl'[s][i].pos = e
          BY <3>1, <4>1, ZenonT(60)
        <4> QED BY <4>1, <4>2, ZenonT(60) DEF At
      <3> QED BY <1>2, <2>1, <3>1, ZenonT(60) DEF At
    <2> QED BY <1>1, <2>1, EntryKept, ZenonT(60)
  <1>11. /\ DOMAIN Table = m_tag_set
        /\ Table' = [u \in m_tag_set' |-> Table'[u]]
    BY Zenon DEF Table
  <1>12. \A u \in m_tag_set' : Table'[u] = IF u = t THEN Origin ELSE Table[u]
    BY <1>1, <1>9, <1>10, ZenonT(60)
  <1>13. Table' = [u \in m_tag_set' |-> IF u = t THEN Origin ELSE Table[u]]
    BY <1>11, <1>12, ZenonT(60)
  <1> QED BY <1>1, <1>11, <1>13, ZenonT(60)

\* The last particle of the rank moves into the gap with its tag and position.
LEMMA RemoveParticleTable ==
  ASSUME IInv, IInv', NEW t \in Tag, removeParticle(t)
  PROVE  t \in DOMAIN Table /\ Table' = [u \in DOMAIN Table \ {t} |-> Table[u]]
  <1>1. PICK r \in Rank :
          /\ RTagWithoutGhosts(r)[t] \in Index(r)
          /\ ptl' = [ptl EXCEPT ![r] = GapClosed(@, (m_nparticles[r] - 1) + 1, RTagWithoutGhosts(r)[t])]
          /\ m_nparticles' = [m_nparticles EXCEPT ![r] = m_nparticles[r] - 1]
    BY ZenonT(60) DEF removeParticle
  <1>2. /\ transit' = transit /\ t < rtag_size /\ m_tag_set' = m_tag_set \ {t}
        /\ DOMAIN ptl = Rank /\ m_nparticles \in [Rank -> Nat] /\ rtag_size \in 0 .. MaxTags
    BY ZenonT(60) DEF removeParticle, IInv, TypeOK
  <1>3. PICK n \in Nat : n = m_nparticles[r] /\ Index(r) = 0 .. (n - 1)
    BY <1>2, ZenonT(60) DEF Index
  <1>4. PICK k \in 0 .. (n - 1) : k = RTagWithoutGhosts(r)[t]
    BY <1>1, <1>3, ZenonT(60)
  <1>5. ptl[r][k].tag = t
    <2>1. t \in 0 .. (rtag_size - 1) /\ k # NOT_LOCAL
      BY <1>2, ParticleDataAssumption, SMTT(30) DEF Tag, NOT_LOCAL
    <2> QED BY <1>4, <2>1, WithoutGhosts, ZenonT(60)
  <1>6. \A i \in 0 .. (n - 1) : ptl[r][i] \in Particle
    BY <1>3, ZenonT(60) DEF IInv, TypeOK
  <1>7. /\ Index(r)' = 0 .. (n - 2)
        /\ \A i \in 0 .. (n - 2) : ptl'[r][i] = IF i = k THEN MovedInto(ptl[r][k], ptl[r][n - 1])
                                                ELSE ptl[r][i]
    <2>1. (n - 1) + 1 = n /\ (n - 1) - 1 = n - 2
      OBVIOUS
    <2>2. m_nparticles'[r] = n - 1 /\ ptl'[r] = GapClosed(ptl[r], n, k)
      BY <1>1, <1>2, <1>3, <1>4, <2>1, Zenon
    <2> QED BY <2>1, <2>2, ZenonT(60) DEF Index, GapClosed
  <1>8. \A s \in Rank \ {r} : ptl'[s] = ptl[s] /\ Index(s)' = Index(s)
    BY <1>1, <1>2, ZenonT(60) DEF Index
  <1>9. /\ MovedInto(ptl[r][k], ptl[r][n - 1]).tag = ptl[r][n - 1].tag
        /\ MovedInto(ptl[r][k], ptl[r][n - 1]).pos = ptl[r][n - 1].pos
    <2>1. ptl[r][n - 1] \in Particle
      BY <1>4, <1>6, SMTT(30)
    <2> QED BY <2>1 DEF MovedInto, Particle
  <1>10. ASSUME NEW u \in m_tag_set \ {t} PROVE Table'[u] = Table[u]
    <2>1. ASSUME NEW e \in Rank, At(u, e) PROVE At(u, e)'
      <3>1. ASSUME NEW s \in Rank, NEW i \in Index(s), ptl[s][i].tag = u, ptl[s][i].pos = e
            PROVE  At(u, e)'
        <4>1. CASE s # r
          BY <1>8, <3>1, <4>1, ZenonT(60) DEF At
        <4>2. CASE s = r /\ i = n - 1
          <5>1. i # k
            BY <1>5, <3>1, <4>2, ZenonT(60)
          <5>2. k \in 0 .. (n - 2)
            BY <4>2, <5>1, SMTT(30)
          <5>3. ptl'[r][k].tag = u /\ ptl'[r][k].pos = e
            BY <1>7, <1>9, <3>1, <4>2, <5>2, ZenonT(60)
          <5> QED BY <1>7, <5>2, <5>3, ZenonT(60) DEF At
        <4>3. CASE s = r /\ i # n - 1
          <5>1. i \in 0 .. (n - 1)
            BY <1>3, <4>3, ZenonT(60)
          <5>2. i \in 0 .. (n - 2)
            BY <4>3, <5>1, SMTT(30)
          <5>3. i # k
            BY <1>5, <3>1, <4>3, ZenonT(60)
          <5>4. ptl'[r][i].tag = u /\ ptl'[r][i].pos = e
            BY <1>7, <3>1, <4>3, <5>2, <5>3, ZenonT(60)
          <5> QED BY <1>7, <5>2, <5>4, ZenonT(60) DEF At
        <4> QED BY <4>1, <4>2, <4>3, ZenonT(60)
      <3> QED BY <1>2, <2>1, <3>1, ZenonT(60) DEF At
    <2> QED BY <1>2, <2>1, EntryKept, ZenonT(60)
  <1>11. t \in m_tag_set
    <2>1. ptl[r][k].tag \in m_tag_set
      BY <1>3, ZenonT(60) DEF IInv, EveryParticleOnce
    <2> QED BY <1>5, <2>1, ZenonT(60)
  <1>12. /\ DOMAIN Table = m_tag_set
         /\ Table' = [u \in m_tag_set' |-> Table'[u]]
    BY Zenon DEF Table
  <1> QED BY <1>2, <1>10, <1>11, <1>12, ZenonT(60)

\* A snapshot gives the tags 0, 1, 2, ... positions of its own.
LEMMA InitializeFromSnapshotTable ==
  ASSUME IInv, IInv', initializeFromSnapshot
  PROVE  \E n \in 0 .. MaxTags : Table' \in [0 .. (n - 1) -> Rank]
  <1>1. PICK n \in 0 .. MaxTags : m_tag_set' = 0 .. (n - 1)
    BY ZenonT(60) DEF initializeFromSnapshot
  <1>2. Table' = [u \in m_tag_set' |-> Table'[u]]
    BY Zenon DEF Table
  <1>3. \A u \in m_tag_set' : Table'[u] \in Rank
    BY InvTableNext, ZenonT(60) DEF TableRead
  <1>4. Table' \in [m_tag_set' -> Rank]
    BY <1>2, <1>3, ZenonT(60)
  <1> QED BY <1>1, <1>4, ZenonT(60)

\* Every step is a step of the table, or leaves it alone.
LEMMA NextTable ==
  ASSUME IInv, IInv', [Next]_vars
  PROVE  [PosTable!Next]_Table
  <1>1. CASE initializeFromSnapshot
    BY <1>1, InitializeFromSnapshotTable, ZenonT(60) DEF PosTable!Next, PosTable!Load, Table
  <1>2. CASE addParticle
    BY <1>2, AddParticleTable, ZenonT(60) DEF PosTable!Next, PosTable!Add, Table, Tag
  <1>3. CASE getNthTag
    <2>1. UNCHANGED <<ptl, m_nparticles, transit, m_tag_set>>
      BY <1>3, ZenonT(60) DEF getNthTag, tags
    <2> QED BY <2>1, ParticlesUntouched, ZenonT(60)
  <1>4. ASSUME NEW t \in Tag, removeParticle(t) PROVE PosTable!Next
    BY <1>4, RemoveParticleTable, ZenonT(60) DEF PosTable!Next, PosTable!Remove, Table
  <1>5. ASSUME NEW t \in Tag, removeParticleThrows(t) PROVE Table' = Table
    <2>1. UNCHANGED <<ptl, m_nparticles, transit, m_tag_set>>
      BY <1>5, ZenonT(60) DEF removeParticleThrows, tags
    <2> QED BY <2>1, ParticlesUntouched, ZenonT(60)
  <1>6. ASSUME NEW t \in Tag, NEW d \in Rank, NEW move \in BOOLEAN, setPosition(t, d, move)
        PROVE  PosTable!Next
    <2>1. t \in DOMAIN Table /\ Table' = [Table EXCEPT ![t] = d]
      BY <1>6, SetPositionTable, ZenonT(60)
    <2>2. PosTable!Set
      BY <2>1, ZenonT(60) DEF PosTable!Set, Table
    <2> QED BY <2>2, ZenonT(60) DEF PosTable!Next
  <1>7. ASSUME NEW t \in Tag, NEW v \in AngMom, setAngularMomentum(t, v) PROVE Table' = Table
    BY <1>7, SetAngularMomentumTable, ZenonT(60)
  <1>8. ASSUME NEW r \in Rank, removeParticles(r) \/ addParticles(r) PROVE Table' = Table
    BY <1>8, RemoveParticlesTable, AddParticlesTable, ZenonT(60)
  <1>9. ASSUME NEW r \in Rank, NEW t \in Tag, addGhostParticles(r, t) PROVE Table' = Table
    <2>1. UNCHANGED <<ptl, m_nparticles, transit, m_tag_set>>
      BY <1>9, ZenonT(60) DEF addGhostParticles, tags
    <2> QED BY <2>1, ParticlesUntouched, ZenonT(60)
  <1>10. CASE UNCHANGED vars
    <2>1. UNCHANGED <<ptl, m_nparticles, transit, m_tag_set>>
      BY <1>10, ZenonT(60) DEF vars, tags
    <2> QED BY <2>1, ParticlesUntouched, Zenon
  <1> QED BY <1>1, <1>2, <1>3, <1>4, <1>5, <1>6, <1>7, <1>8, <1>9, <1>10, ZenonT(60) DEF Next

(* Users of the distributed particle data see a table from tags to         *)
(* positions: insertion, removal with its gap closing, migration, ghosts   *)
(* and the reuse of tags change no other particle's entry.                 *)
THEOREM TableOfPositions == Spec => Positions
  <1>1. Init => PosTable!Init
    BY ZenonT(60) DEF Init, PosTable!Init
  <1>2. IInv /\ IInv' /\ [Next]_vars => [PosTable!Next]_Table
    BY NextTable, ZenonT(60)
  <1>3. Spec => []IInv
    BY InitInv, NextInv, PTL DEF Spec
  <1> QED BY <1>1, <1>2, <1>3, PTL DEF Spec, Positions, PosTable!Spec, Table
=============================================================================
