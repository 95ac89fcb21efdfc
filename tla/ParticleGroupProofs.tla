------------------------- MODULE ParticleGroupProofs -------------------------
(***************************************************************************)
(* What the methods of a ParticleGroup do for any particles, and facts     *)
(* about listing indices in order and about tags that are taken and freed. *)
(***************************************************************************)
EXTENDS ParticleGroup, FiniteSetTheorems, WellFoundedInduction, TLAPS

\* The provers a step is given to unless it names one, with their time in seconds.
USE ZenonT(30), SMTT(30)

\* A set of natural numbers that is not empty has a least element.
LEMMA Least ==
  ASSUME NEW S \in SUBSET Nat, S # {}
  PROVE  \E x \in S : \A y \in S : x <= y
PROOF
  <1>1. IsWellFoundedOn(OpToRel(<, Nat), Nat)
    BY NatLessThanWellFounded, ZenonT(60)
  <1>2. PICK x \in S : \A y \in S : ~(<<y, x>> \in OpToRel(<, Nat))
    BY <1>1, WFMin, ZenonT(30)
  <1>3. \A y \in S : ~(y < x)
    BY <1>2, Zenon DEF OpToRel
  <1>4. QED
    BY <1>3, SMTT(30)

-----------------------------------------------------------------------------
(* Arrays that grow. *)

\* The equation of Grown: sizes k below n are replaced by larger ones.
Larger(k) == (9 * k) \div 8 + 1
GrowsTo(f, n, k) == f[k] = IF n > k THEN f[Larger(k)] ELSE k

LEMMA LargerIsLarger ==
  ASSUME NEW k \in Nat
  PROVE  Larger(k) \in Nat /\ Larger(k) > k
PROOF
  <1>1. (9 * k) \div 8 \in Int /\ 8 * ((9 * k) \div 8) <= 9 * k /\ 9 * k < 8 * ((9 * k) \div 8) + 8
    OBVIOUS
  <1>2. QED
    BY <1>1, SMTT(30) DEF Larger

\* It has a solution: from n downward, the value at k is the one at the next size.
LEMMA GrowthSolvable ==
  ASSUME NEW n \in Nat
  PROVE  \E f \in [Nat -> Nat] : \A k \in Nat : GrowsTo(f, n, k)
PROOF
  <1> DEFINE P(j) == \E f \in [Nat -> Nat] : \A k \in Nat : k >= j => GrowsTo(f, n, k)
             S == {j \in Nat : P(j)}
  <1>1. P(n)
    <2> DEFINE f == [k \in Nat |-> k]
    <2>1. f \in [Nat -> Nat] /\ \A k \in Nat : k >= n => GrowsTo(f, n, k)
      BY SMTT(30) DEF GrowsTo
    <2>2. QED
      BY <2>1, ZenonT(60)
  <1>2. PICK j \in S : \A i \in S : j <= i
    BY <1>1, Least, ZenonT(60)
  <1>3. ASSUME j > 0 PROVE FALSE
    <2> DEFINE i == j - 1
    <2>1. PICK f \in [Nat -> Nat] : \A k \in Nat : k >= j => GrowsTo(f, n, k)
      BY <1>2
    <2>2. i \in Nat /\ j = i + 1
      BY <1>2, <1>3, SMTT(30)
    <2> DEFINE v == IF n > i THEN f[Larger(i)] ELSE i
               g == [f EXCEPT ![i] = v]
    <2>3. Larger(i) \in Nat /\ Larger(i) > i
      BY <2>2, LargerIsLarger
    <2> HIDE DEF i
    <2>4. g \in [Nat -> Nat] /\ g[i] = v /\ \A k \in Nat : k # i => g[k] = f[k]
      BY <2>2, <2>3
    <2>5. GrowsTo(g, n, i)
      BY <2>2, <2>3, <2>4 DEF GrowsTo
    <2>6. ASSUME NEW k \in Nat, k >= j PROVE GrowsTo(g, n, k)
      <3>1. Larger(k) \in Nat /\ Larger(k) > k
        BY LargerIsLarger
      <3>2. k # i /\ Larger(k) # i
        BY <2>2, <2>6, <3>1, SMTT(30)
      <3>3. QED
        BY <2>1, <2>4, <2>6, <3>1, <3>2 DEF GrowsTo
    <2> HIDE DEF g
    <2>7. \A k \in Nat : k >= i => GrowsTo(g, n, k)
      BY <2>2, <2>5, <2>6
    <2>8. i \in S
      BY <2>2, <2>4, <2>7
    <2> HIDE DEF S
    <2>9. j <= i
      BY <1>2, <2>8
    <2>10. QED
      BY <2>2, <2>9, SMTT(30)
  <1>4. j = 0
    BY <1>2, <1>3, SMTT(30)
  <1>5. QED
    BY <1>2, <1>4, SMTT(30)

\* resize() makes the arrays large enough and never smaller.
LEMMA GrownFits ==
  ASSUME NEW m \in Nat, NEW n \in Nat
  PROVE  Grown(m, n) \in Nat /\ Grown(m, n) >= n /\ Grown(m, n) >= m
PROOF
  <1> DEFINE f == CHOOSE size : size = [k \in Nat |-> IF n > k THEN size[Larger(k)] ELSE k]
  <1>1. PICK g \in [Nat -> Nat] : \A k \in Nat : GrowsTo(g, n, k)
    BY GrowthSolvable, ZenonT(60)
  <1>2. g = [k \in Nat |-> IF n > k THEN g[Larger(k)] ELSE k]
    BY <1>1 DEF GrowsTo
  <1>3. f = [k \in Nat |-> IF n > k THEN f[Larger(k)] ELSE k]
    BY <1>2
  <1>4. Grown(m, n) = f[m]
    BY DEF Grown, Larger
  <1> HIDE DEF f
  <1> DEFINE P(k) == f[k] \in Nat /\ f[k] >= n /\ f[k] >= k
             S == {j \in Nat : \A k \in Nat : k >= j => P(k)}
  <1>5. n \in S
    BY <1>3, SMTT(30)
  <1>6. PICK j \in S : \A i \in S : j <= i
    BY <1>5, Least, ZenonT(60)
  <1>7. ASSUME j > 0 PROVE FALSE
    <2> DEFINE i == j - 1
    <2>1. i \in Nat /\ j = i + 1
      BY <1>6, <1>7, SMTT(30)
    <2>2. Larger(i) \in Nat /\ Larger(i) > i
      BY <2>1, LargerIsLarger
    <2> HIDE DEF i
    <2>3. P(Larger(i))
      BY <1>6, <2>1, <2>2, SMTT(30)
    <2>4. P(i)
      BY <1>3, <2>1, <2>2, <2>3, SMTT(30)
    <2>5. i \in S
      BY <1>6, <2>1, <2>4, SMTT(30)
    <2>6. j <= i
      BY <1>6, <2>5, ZenonT(60)
    <2>7. QED
      BY <2>1, <2>6, SMTT(30)
  <1>8. j = 0
    BY <1>6, <1>7, SMTT(30)
  <1>9. P(m)
    BY <1>6, <1>8, SMTT(30)
  <1>10. QED
    BY <1>4, <1>9

-----------------------------------------------------------------------------
(* Listing indices. *)

\* InOrder lists every element of a bounded set once, in increasing order.
LEMMA InOrderLists ==
  ASSUME NEW n \in Nat, NEW S \in SUBSET (1 .. n)
  PROVE  /\ IsFiniteSet(S) /\ Cardinality(S) \in Nat
         /\ InOrder(S) \in Seq(S) /\ Len(InOrder(S)) = Cardinality(S)
         /\ Range(InOrder(S)) = S
         /\ \A i, j \in DOMAIN InOrder(S) : i < j => InOrder(S)[i] < InOrder(S)[j]
PROOF
  <1> DEFINE below(k) == {j \in S : j < k}
             c == Cardinality(S)
             f == [k \in S |-> Cardinality(below(k)) + 1]
             L == InOrder(S)
  <1>1. IsFiniteSet(S) /\ c \in Nat
    <2>1. IsFiniteSet(1 .. n)
      BY FS_Interval, SMTT(30)
    <2>2. IsFiniteSet(S)
      BY <2>1, FS_Subset, ZenonT(60)
    <2>3. QED
      BY <2>2, FS_CardinalityType, ZenonT(60)
  <1>2. ASSUME NEW k \in S
        PROVE  IsFiniteSet(below(k)) /\ Cardinality(below(k)) \in Nat /\ f[k] \in 1 .. c
    <2>1. below(k) \in SUBSET S /\ below(k) # S
      OBVIOUS
    <2>2. IsFiniteSet(below(k)) /\ Cardinality(below(k)) \in Nat
      BY <1>1, <2>1, FS_Subset, FS_CardinalityType, ZenonT(60)
    <2>3. Cardinality(below(k)) <= c /\ c # Cardinality(below(k))
      BY <1>1, <2>1, FS_Subset, ZenonT(60)
    <2>4. QED
      BY <1>1, <2>2, <2>3
  <1>3. ASSUME NEW k \in S, NEW l \in S, k < l
        PROVE  f[k] < f[l]
    <2>1. k \in below(l) /\ k \notin below(k) /\ \A j \in below(k) : j \in below(l)
      BY <1>3
    <2>2. below(k) \in SUBSET below(l) /\ below(k) # below(l)
      BY <2>1, Zenon
    <2>3. Cardinality(below(k)) <= Cardinality(below(l))
          /\ Cardinality(below(l)) # Cardinality(below(k))
      BY <1>2, <2>2, FS_Subset, ZenonT(60)
    <2>4. Cardinality(below(k)) \in Nat /\ Cardinality(below(l)) \in Nat
      BY <1>2, ZenonT(60)
    <2>5. QED
      BY <2>3, <2>4, SMTT(30)
  <1>4. f \in Injection(S, 1 .. c)
    <2>1. f \in [S -> 1 .. c]
      BY <1>2
    <2>2. ASSUME NEW k \in S, NEW l \in S, f[k] = f[l] PROVE k = l
      <3>1. f[k] \in Int /\ f[l] \in Int /\ k \in Int /\ l \in Int
        BY <2>1
      <3> HIDE DEF f
      <3>2. ~(k < l) /\ ~(l < k)
        BY <1>3, <2>2, <3>1, SMTT(30)
      <3>3. QED
        BY <3>1, <3>2, SMTT(30)
    <2>3. QED
      BY <2>1, <2>2, ZenonT(60) DEF Injection, IsInjective
  <1>5. f \in Surjection(S, 1 .. c)
    <2> HIDE DEF c, f
    <2>1. IsFiniteSet(1 .. c) /\ Cardinality(1 .. c) = c
      BY <1>1, FS_Interval, SMTT(30)
    <2>2. QED
      BY <1>1, <1>4, <2>1, FS_Injection, ZenonT(60) DEF c
  <1>6. DOMAIN L = 1 .. c /\ L = [i \in 1 .. c |-> L[i]]
    <2> HIDE DEF c
    <2> DEFINE e(i) == CHOOSE k \in S : Cardinality(below(k)) = i - 1
    <2>1. L = [i \in 1 .. c |-> e(i)]
      BY DEF InOrder, c
    <2> HIDE DEF L, e
    <2>2. QED
      BY <2>1
  <1>7. ASSUME NEW i \in 1 .. c PROVE L[i] \in S /\ f[L[i]] = i
    <2>1. PICK k \in S : f[k] = i
      BY <1>5, ZenonT(60) DEF Surjection
    <2>2. Cardinality(below(k)) = i - 1
      BY <1>2, <2>1, SMTT(30)
    <2>3. L[i] = CHOOSE m \in S : Cardinality(below(m)) = i - 1
      BY ZenonT(60) DEF InOrder
    <2>4. L[i] \in S /\ Cardinality(below(L[i])) = i - 1
      BY <2>2, <2>3, ZenonT(60)
    <2> HIDE DEF L
    <2>5. QED
      BY <1>1, <2>4, SMTT(30)
  <1> HIDE DEF L, c, f
  <1>8. L \in [1 .. c -> S]
    BY <1>6, <1>7
  <1>9. L \in Seq(S) /\ Len(L) = c
    BY <1>1, <1>8, SMTT(30)
  <1>10. \A k \in S : f[k] \in 1 .. c /\ L[f[k]] = k
    BY <1>4, <1>7, ZenonT(60) DEF Injection, IsInjective
  <1>11. Range(L) = S
    BY <1>6, <1>7, <1>10, SMTT(30) DEF Range
  <1>12. ASSUME NEW i \in 1 .. c, NEW j \in 1 .. c, i < j PROVE L[i] < L[j]
    <2>1. L[i] \in S /\ L[j] \in S /\ f[L[i]] = i /\ f[L[j]] = j
      BY <1>7, Zenon
    <2>2. ~(L[j] < L[i])
      <3> SUFFICES ASSUME L[j] < L[i] PROVE FALSE
        OBVIOUS
      <3>1. j < i
        BY <1>3, <2>1, ZenonT(60)
      <3>2. QED
        BY <1>1, <1>12, <3>1, SMTT(30)
    <2>3. L[i] # L[j]
      BY <1>1, <1>12, <2>1, SMTT(30)
    <2>4. S \subseteq Int
      OBVIOUS
    <2>5. L[i] \in Int /\ L[j] \in Int
      BY <2>1, <2>4, Zenon
    <2>6. QED
      BY <2>2, <2>3, <2>5
  <1>13. QED
    BY <1>1, <1>6, <1>9, <1>11, <1>12 DEF L, c

\* As many indices as tags, if the tags are in the array and none is in it twice.
LEMMA AsManyIndices ==
  ASSUME NEW n \in Nat, NEW s \in [1 .. n -> Nat], IsInjective(s), NEW T, T \subseteq Range(s)
  PROVE  Cardinality({i \in 1 .. n : s[i] \in T}) = Cardinality(T)
PROOF
  <1> DEFINE S == {i \in 1 .. n : s[i] \in T}
             f == [i \in S |-> s[i]]
  <1>1. IsFiniteSet(S)
    BY FS_Interval, FS_Subset, SMTT(30)
  <1>2. f \in Bijection(S, T)
    <2>1. f \in [S -> T] /\ \A i, j \in S : f[i] = f[j] => i = j
      BY DEF IsInjective
    <2>2. \A t \in T : \E i \in S : f[i] = t
      BY DEF Range
    <2>3. QED
      BY <2>1, <2>2 DEF Bijection, Injection, Surjection, IsInjective
  <1>3. QED
    <2> HIDE DEF S, f
    <2>1. ExistsBijection(S, T)
      BY <1>2 DEF ExistsBijection
    <2>2. Cardinality(T) = Cardinality(S)
      BY <1>1, <2>1, FS_Bijection, ZenonT(60)
    <2>3. QED
      BY <2>2 DEF S
-----------------------------------------------------------------------------
(* What a group has right. *)

\* The indices of the particles with tags of T.
Marked(p, T) == {i \in 1 .. Len(p.order) : p.order[i] \in T}

(***************************************************************************)
(* The group: unless the number of particles has changed, the members are  *)
(* particles, the ones selected except for those retyped, the hash is that *)
(* of the members and both arrays have the size they should; and unless    *)
(* the particles have been sorted too, the index list is that of the       *)
(* members.  The flag for reallocated arrays adds nothing to this, because *)
(* arrays grow only together with the number of particles.                 *)
(***************************************************************************)
IsGroup(g) ==
    /\ DOMAIN g = {"tags", "hash", "nhash", "idx", "flags", "nflags",
                   "sorted", "reallocated", "resized"}
    /\ g.sorted \in BOOLEAN /\ g.reallocated \in BOOLEAN /\ g.resized \in BOOLEAN

MembersOK(g, p, stale) ==
    /\ g.tags \subseteq Range(p.order) /\ g.hash = g.tags
    /\ g.nhash = p.nrtag /\ g.nflags = p.maxn
    /\ \A t \in Range(p.order) \ stale : t \in g.tags <=> p.typ[t] = "A"

IndicesOK(g, p) ==
    /\ g.idx = InOrder(Marked(p, g.tags))
    /\ g.flags \intersect (1 .. Len(p.order)) = Marked(p, g.tags)

GroupOK(g, p, stale) ==
    /\ IsGroup(g)
    /\ ~g.resized => MembersOK(g, p, stale)
    /\ ~g.resized /\ ~g.sorted => IndicesOK(g, p)

-----------------------------------------------------------------------------
(* The methods of the group. *)

LEMMA Rebuilt ==
  ASSUME NEW p, NEW g, NEW stale, IsGroup(g), MembersOK(g, p, stale),
         NEW r, r = rebuildIndexList(g, p)
  PROVE  /\ IsGroup(r) /\ MembersOK(r, p, stale) /\ IndicesOK(r, p)
         /\ ~r.sorted /\ r.resized = g.resized /\ r.reallocated = g.reallocated
         /\ r.tags = g.tags
PROOF
  <1> DEFINE N == Len(p.order)
             M == {i \in 1 .. N : p.order[i] \in g.hash}
  <1>1. r = [g EXCEPT !.idx = InOrder(M), !.flags = (@ \ (1 .. N)) \union M, !.sorted = FALSE]
    BY DEF rebuildIndexList
  <1>2. M = Marked(p, g.tags)
    BY DEF MembersOK, Marked
  <1> HIDE DEF M
  <1>3. /\ r.idx = InOrder(M) /\ r.flags = (g.flags \ (1 .. N)) \union M /\ r.sorted = FALSE
        /\ r.tags = g.tags /\ r.hash = g.hash /\ r.nhash = g.nhash /\ r.nflags = g.nflags
        /\ r.resized = g.resized /\ r.reallocated = g.reallocated /\ DOMAIN r = DOMAIN g
    BY <1>1 DEF IsGroup
  <1>4. IsGroup(r) /\ MembersOK(r, p, stale)
    BY <1>3, ZenonT(60) DEF IsGroup, MembersOK
  <1>5. M \subseteq 1 .. N
    BY DEF M
  <1>6. IndicesOK(r, p)
    BY <1>2, <1>3, <1>5 DEF IndicesOK
  <1>7. QED
    BY <1>3, <1>4, <1>6

LEMMA TagsUpdated ==
  ASSUME NEW p, NEW g, IsGroup(g), NEW u, u = updateMemberTags(g, p, "A")
  PROVE  /\ IsGroup(u) /\ MembersOK(u, p, {}) /\ IndicesOK(u, p)
         /\ ~u.sorted /\ u.resized = g.resized /\ u.reallocated = g.reallocated
PROOF
  <1> DEFINE sel == getSelectedTags(p, "A")
  <1> DEFINE a == [g EXCEPT !.tags = sel, !.nhash = p.nrtag, !.nflags = p.maxn, !.flags = {}]
  <1> DEFINE h == buildTagHash(a)
  <1>1. u = rebuildIndexList(h, p)
    BY DEF updateMemberTags
  <1>2. /\ a.tags = sel /\ a.nhash = p.nrtag /\ a.nflags = p.maxn /\ a.resized = g.resized
        /\ a.reallocated = g.reallocated /\ a.sorted = g.sorted /\ DOMAIN a = DOMAIN g
    BY DEF IsGroup
  <1> HIDE DEF a, sel
  <1>3. /\ h.tags = sel /\ h.hash = sel /\ h.nhash = p.nrtag /\ h.nflags = p.maxn
        /\ h.resized = g.resized /\ h.reallocated = g.reallocated /\ h.sorted = g.sorted
        /\ DOMAIN h = DOMAIN g
    BY <1>2 DEF IsGroup, buildTagHash
  <1> HIDE DEF h
  <1>4. IsGroup(h)
    BY <1>3 DEF IsGroup
  <1>5. MembersOK(h, p, {})
    BY <1>3 DEF MembersOK, sel, getSelectedTags
  <1>6. QED
    BY <1>1, <1>3, <1>4, <1>5, Rebuilt, SMTT(30)

\* What checkRebuild() does when the arrays were reallocated.
AfterReallocation(g, p) == [reallocate(g, p) EXCEPT !.reallocated = FALSE]

LEMMA Reallocated ==
  ASSUME NEW p, NEW g, NEW stale, IsGroup(g), MembersOK(g, p, stale),
         NEW r, r = AfterReallocation(g, p)
  PROVE  /\ IsGroup(r) /\ MembersOK(r, p, stale)
         /\ ~r.reallocated /\ r.resized = g.resized /\ r.sorted = g.sorted
         /\ r.tags = g.tags /\ r.idx = g.idx /\ r.flags = g.flags
PROOF
  <1>1. g.nhash = p.nrtag
    BY DEF MembersOK
  <1>2. reallocate(g, p) = [g EXCEPT !.nflags = p.maxn]
    BY <1>1 DEF reallocate
  <1>3. QED
    BY <1>2 DEF IsGroup, MembersOK, AfterReallocation

\* Every access leaves a group whose members and indices are right, with no flag set.
LEMMA Accessed ==
  ASSUME NEW p, NEW g, NEW stale, GroupOK(g, p, stale), NEW h, h = checkRebuild(g, p, "A")
  PROVE  /\ IsGroup(h) /\ MembersOK(h, p, IF g.resized THEN {} ELSE stale) /\ IndicesOK(h, p)
         /\ ~h.resized /\ ~h.sorted
PROOF
  <1> DEFINE new == IF g.resized THEN {} ELSE stale
             u == updateMemberTags(g, p, "A")
             a == IF g.resized THEN [u EXCEPT !.resized = FALSE] ELSE g
             r == AfterReallocation(a, p)
             b == IF a.reallocated THEN r ELSE a
  <1>1. h = IF b.sorted THEN rebuildIndexList(b, p) ELSE b
    BY DEF checkRebuild, AfterReallocation
  <1>2. IsGroup(g) /\ u = updateMemberTags(g, p, "A") /\ r = AfterReallocation(a, p)
    BY DEF GroupOK
  <1>3. /\ a = IF g.resized THEN [u EXCEPT !.resized = FALSE] ELSE g
        /\ b = IF a.reallocated THEN r ELSE a
    OBVIOUS
  <1> HIDE DEF a, b, r, u, new
  <1>4. /\ IsGroup(a) /\ ~a.resized /\ MembersOK(a, p, new)
        /\ ~a.sorted => IndicesOK(a, p)
    <2>1. CASE g.resized
      <3>1. IsGroup(u) /\ MembersOK(u, p, {}) /\ IndicesOK(u, p)
        BY <1>2, TagsUpdated
      <3>2. a = [u EXCEPT !.resized = FALSE] /\ new = {}
        BY <1>3, <2>1 DEF new
      <3>3. QED
        BY <3>1, <3>2 DEF IsGroup, MembersOK, IndicesOK
    <2>2. CASE ~g.resized
      BY <1>3, <2>2 DEF GroupOK, new
    <2>3. QED
      BY <2>1, <2>2
  <1>5. /\ IsGroup(b) /\ ~b.resized /\ MembersOK(b, p, new)
        /\ ~b.sorted => IndicesOK(b, p)
    <2>1. CASE a.reallocated
      <3>1. /\ IsGroup(r) /\ MembersOK(r, p, new) /\ r.resized = a.resized
            /\ r.sorted = a.sorted /\ r.tags = a.tags /\ r.idx = a.idx /\ r.flags = a.flags
        BY <1>2, <1>4, Reallocated, SMTT(30)
      <3>2. b = r
        BY <1>3, <2>1
      <3>3. QED
        BY <1>4, <3>1, <3>2 DEF IndicesOK
    <2>2. CASE ~a.reallocated
      BY <1>3, <1>4, <2>2
    <2>3. QED
      BY <2>1, <2>2
  <1>6. IsGroup(h) /\ ~h.resized /\ MembersOK(h, p, new) /\ IndicesOK(h, p) /\ ~h.sorted
    <2>1. CASE b.sorted
      BY <1>1, <1>5, <2>1, Rebuilt, SMTT(30)
    <2>2. CASE ~b.sorted
      BY <1>1, <1>5, <2>2
    <2>3. QED
      BY <2>1, <2>2
  <1>7. QED
    BY <1>6 DEF new

-----------------------------------------------------------------------------
(* Sequences without repetition. *)

\* o has the elements of s and one more, or one less.
More(o, s, e, E) ==
    o \in Seq(E) /\ Len(o) = Len(s) + 1 /\ IsInjective(o) /\ Range(o) = Range(s) \union {e}
Less(o, s, e, E) ==
    o \in Seq(E) /\ Len(o) = Len(s) - 1 /\ IsInjective(o) /\ Range(o) = Range(s) \ {e}

LEMMA FunctionIsSeq ==
  ASSUME NEW S, NEW n \in Nat, NEW f \in [1 .. n -> S]
  PROVE  f \in Seq(S) /\ Len(f) = n
PROOF
  OBVIOUS

LEMMA Longer ==
  ASSUME NEW E, NEW s \in Seq(E), IsInjective(s), NEW e \in E, e \notin Range(s),
         NEW o, o = Append(s, e)
  PROVE  More(o, s, e, E)
PROOF
  <1>1. /\ o \in Seq(E) /\ Len(o) = Len(s) + 1 /\ Len(s) \in Nat
        /\ \A i \in 1 .. Len(s) : o[i] = s[i]
        /\ o[Len(s) + 1] = e /\ DOMAIN s = 1 .. Len(s) /\ DOMAIN o = 1 .. (Len(s) + 1)
    OBVIOUS
  <1>2. IsInjective(o)
    BY <1>1, SMTT(30) DEF IsInjective, Range
  <1>3. Range(o) = Range(s) \union {e}
    BY <1>1, SMTT(30) DEF Range
  <1>4. QED
    BY <1>1, <1>2, <1>3 DEF More

LEMMA Shorter ==
  ASSUME NEW E, NEW s \in Seq(E), IsInjective(s), s # <<>>, NEW o, o = Front(s)
  PROVE  Less(o, s, Last(s), E) /\ Last(s) \in Range(s)
PROOF
  <1> DEFINE n == Len(s)
  <1>1. n \in Nat /\ n > 0 /\ DOMAIN s = 1 .. n /\ \A i \in 1 .. n : s[i] \in E
    OBVIOUS
  <1>2. /\ o \in Seq(E) /\ Len(o) = n - 1 /\ DOMAIN o = 1 .. (n - 1)
        /\ \A i \in 1 .. (n - 1) : o[i] = s[i]
    BY <1>1 DEF Front
  <1>3. Last(s) = s[n] /\ n \in DOMAIN s
    BY <1>1, SMTT(30) DEF Last
  <1> HIDE DEF n
  <1>4. IsInjective(o)
    BY <1>1, <1>2, SMTT(30) DEF IsInjective
  <1>5. Range(o) = Range(s) \ {s[n]}
    <2>1. ASSUME NEW i \in 1 .. (n - 1) PROVE i \in DOMAIN s /\ s[i] # s[n]
      BY <1>1, <1>3, SMTT(30) DEF IsInjective
    <2>2. \A i \in DOMAIN s : i # n => i \in 1 .. (n - 1)
      BY <1>1
    <2>3. QED
      BY <1>2, <1>3, <2>1, <2>2 DEF Range
  <1>6. QED
    BY <1>1, <1>2, <1>3, <1>4, <1>5, ZenonT(60) DEF n, Range, Less

\* The last element takes the place of another one.
Filled(s, i) == Front([s EXCEPT ![i] = s[Len(s)]])

Fills(o, s, n, i) ==
    /\ n \in Nat /\ n > 0 /\ DOMAIN s = 1 .. n /\ i \in 1 .. n /\ DOMAIN o = 1 .. (n - 1)
    /\ \A k \in 1 .. (n - 1) : o[k] = IF k = i THEN s[n] ELSE s[k]

LEMMA GapFilledElements ==
  ASSUME NEW n, NEW s, NEW i, NEW o, IsInjective(s), Fills(o, s, n, i)
  PROVE  IsInjective(o) /\ Range(o) = Range(s) \ {s[i]}
PROOF
  <1> USE DEF Fills
  <1>1. \A k, m \in 1 .. n : s[k] = s[m] => k = m
    BY DEF IsInjective
  <1>2. IsInjective(o)
    BY <1>1, SMTT(30) DEF IsInjective
  <1>3. Range(o) \subseteq Range(s) \ {s[i]}
    <2>1. ASSUME NEW k \in 1 .. (n - 1) PROVE o[k] \in Range(s) /\ o[k] # s[i]
      BY <1>1, SMTT(30) DEF Range
    <2>2. QED
      BY <2>1 DEF Range
  <1>4. Range(s) \ {s[i]} \subseteq Range(o)
    <2>1. ASSUME NEW k \in 1 .. n, s[k] # s[i] PROVE s[k] \in Range(o)
      <3>1. CASE k = n
        <4>1. i \in 1 .. (n - 1) /\ o[i] = s[k]
          BY <2>1, <3>1, SMTT(30)
        <4>2. QED
          BY <4>1 DEF Range
      <3>2. CASE k # n
        <4>1. k \in 1 .. (n - 1) /\ o[k] = s[k]
          BY <2>1, <3>2, SMTT(30)
        <4>2. QED
          BY <4>1 DEF Range
      <3>3. QED
        BY <3>1, <3>2
    <2>2. QED
      BY <2>1 DEF Range
  <1>5. QED
    BY <1>2, <1>3, <1>4

LEMMA GapFilled ==
  ASSUME NEW E, NEW s \in Seq(E), IsInjective(s), NEW i \in 1 .. Len(s),
         NEW o, o = Filled(s, i)
  PROVE  Less(o, s, s[i], E)
PROOF
  <1> DEFINE n == Len(s)
             e == [s EXCEPT ![i] = s[n]]
  <1>1. n \in Nat /\ n > 0 /\ DOMAIN s = 1 .. n /\ \A k \in 1 .. n : s[k] \in E
    OBVIOUS
  <1>2. /\ e \in Seq(E) /\ Len(e) = n
        /\ \A k \in 1 .. n : e[k] = IF k = i THEN s[n] ELSE s[k]
    BY <1>1
  <1>3. o = Front(e)
    BY DEF Filled
  <1> HIDE DEF e
  <1>4. /\ o \in Seq(E) /\ Len(o) = n - 1 /\ DOMAIN o = 1 .. (n - 1)
        /\ \A k \in 1 .. (n - 1) : o[k] = e[k]
    BY <1>1, <1>2, <1>3, SMTT(30) DEF Front
  <1>5. \A k \in 1 .. (n - 1) : k \in 1 .. n
    BY <1>1
  <1>6. \A k \in 1 .. (n - 1) : o[k] = IF k = i THEN s[n] ELSE s[k]
    BY <1>2, <1>4, <1>5, Zenon
  <1>7. IsInjective(o) /\ Range(o) = Range(s) \ {s[i]}
    <2>1. i \in 1 .. n
      OBVIOUS
    <2>2. Fills(o, s, n, i)
      BY <1>1, <1>4, <1>6, <2>1, ZenonT(60) DEF Fills
    <2>3. IsInjective(o)
      BY <2>2, GapFilledElements, SMT
    <2>4. Range(o) = Range(s) \ {s[i]}
      BY <2>2, GapFilledElements, SMT
    <2>5. QED
      BY <2>3, <2>4, ZenonT(60)
  <1>8. QED
    BY <1>4, <1>7, ZenonT(60) DEF Less

\* A set of tags that is not empty has a largest one.
LEMMA Largest ==
  ASSUME NEW m \in Nat, NEW T \in SUBSET (0 .. m), T # {}
  PROVE  Max(T) \in Nat /\ \A t \in T : t <= Max(T)
PROOF
  <1> DEFINE U == {k \in Nat : \A y \in T : y <= k}
  <1>1. m \in U
    BY SMTT(30)
  <1>2. PICK k \in U : \A j \in U : k <= j
    BY <1>1, Least, ZenonT(60)
  <1>3. k \in T
    <2>1. SUFFICES ASSUME k \notin T PROVE FALSE
      OBVIOUS
    <2>2. PICK t \in T : TRUE
      BY ZenonT(60)
    <2>3. t \in Nat /\ t <= k /\ t # k /\ k \in Nat
      BY <1>2, <2>1, <2>2, SMTT(30)
    <2>4. k - 1 \in Nat /\ \A y \in T : y <= k - 1
      BY <1>2, <2>1, <2>3, SMTT(30)
    <2>5. k - 1 \in U
      BY <2>4
    <2>6. QED
      BY <1>2, <2>3, <2>5, SMTT(30)
  <1>4. \E x \in T : \A y \in T : x >= y
    BY <1>2, <1>3
  <1>5. Max(T) \in T /\ \A y \in T : Max(T) >= y
    BY <1>4, ZenonT(60) DEF Max
  <1>6. \A t \in T : t \in Nat
    OBVIOUS
  <1>7. QED
    BY <1>5, <1>6, ZenonT(60)

-----------------------------------------------------------------------------
(* Tags in use and tags free: they are different, and together an initial segment. *)

Below(max) == 0 .. (max - 1)

TagsOK(order, recycled, max) ==
    /\ order \in Seq(0 .. (max - 1)) /\ IsInjective(order)
    /\ recycled \in Seq(0 .. (max - 1)) /\ IsInjective(recycled)
    /\ Range(order) \intersect Range(recycled) = {}
    /\ Range(order) \union Range(recycled) = 0 .. (Len(order) + Len(recycled) - 1)

\* A tag that goes from one of the two sequences to the other one.
LEMMA TagMoved ==
  ASSUME NEW max \in Nat, NEW s, NEW f, TagsOK(s, f, max), NEW tag \in Range(f),
         NEW o, More(o, s, tag, Below(max)), NEW r, Less(r, f, tag, Below(max))
  PROVE  TagsOK(o, r, max)
PROOF
  <1>1. Range(o) = Range(s) \union {tag} /\ Range(r) = Range(f) \ {tag}
    BY ZenonT(60) DEF More, Less
  <1>2. /\ Len(o) = Len(s) + 1 /\ Len(r) = Len(f) - 1
        /\ o \in Seq(Below(max)) /\ IsInjective(o) /\ r \in Seq(Below(max)) /\ IsInjective(r)
    BY ZenonT(60) DEF More, Less
  <1>3. /\ s \in Seq(Below(max)) /\ f \in Seq(Below(max)) /\ Range(s) \intersect Range(f) = {}
        /\ Range(s) \union Range(f) = 0 .. (Len(s) + Len(f) - 1)
    BY ZenonT(60) DEF TagsOK, Below
  <1>4. Len(s) \in Nat /\ Len(f) \in Nat
    BY <1>3, SMTT(30)
  <1>5. Len(o) + Len(r) = Len(s) + Len(f)
    BY <1>2, <1>4, SMTT(30)
  <1>6. Range(o) \intersect Range(r) = {}
    BY <1>1, <1>3, Zenon
  <1>7. Range(o) \union Range(r) = Range(s) \union Range(f)
    BY <1>1, ZenonT(60)
  <1>8. Range(o) \union Range(r) = 0 .. (Len(o) + Len(r) - 1)
    BY <1>3, <1>5, <1>7, SMT
  <1>9. QED
    BY <1>2, <1>6, <1>8, Zenon DEF TagsOK, Below

LEMMA TagsSymmetric ==
  ASSUME NEW max \in Nat, NEW s, NEW f, TagsOK(s, f, max)
  PROVE  TagsOK(f, s, max)
PROOF
  <1>1. s \in Seq(Below(max)) /\ f \in Seq(Below(max))
    BY ZenonT(60) DEF TagsOK, Below
  <1>2. Len(s) + Len(f) = Len(f) + Len(s)
    BY <1>1, SMTT(30)
  <1>3. Range(f) \union Range(s) = 0 .. (Len(f) + Len(s) - 1)
    <2>1. Range(s) \union Range(f) = 0 .. (Len(s) + Len(f) - 1)
      BY ZenonT(60) DEF TagsOK
    <2>2. QED
      BY <1>2, <2>1, SMT
  <1>4. QED
    BY <1>3, ZenonT(60) DEF TagsOK

\* The next new tag is the number of tags in use.
LEMMA TagAdded ==
  ASSUME NEW max \in Nat, NEW s, TagsOK(s, <<>>, max), NEW o, More(o, s, Len(s), Below(max))
  PROVE  TagsOK(o, <<>>, max)
PROOF
  <1>1. /\ Len(s) \in Nat /\ Len(<<>>) = 0 /\ Range(<<>>) = {}
        /\ <<>> \in Seq(Below(max)) /\ IsInjective(<<>>)
    BY SMTT(30) DEF TagsOK, Range, IsInjective
  <1>2. Range(s) = 0 .. (Len(s) - 1)
    <2>1. Range(s) \union Range(<<>>) = 0 .. (Len(s) + Len(<<>>) - 1)
      BY ZenonT(60) DEF TagsOK
    <2>2. Len(s) + Len(<<>>) - 1 = Len(s) - 1 /\ Range(s) \union Range(<<>>) = Range(s)
      BY <1>1, SMTT(30)
    <2>3. QED
      BY <2>1, <2>2, ZenonT(60)
  <1>3. Range(o) = Range(s) \union {Len(s)} /\ Len(o) = Len(s) + 1
    BY DEF More
  <1>4. Range(o) = 0 .. (Len(o) - 1)
    BY <1>1, <1>2, <1>3, SMTT(30)
  <1>5. Len(o) + Len(<<>>) - 1 = Len(o) - 1
    BY <1>1, <1>3, SMTT(30)
  <1>6. QED
    BY <1>1, <1>4, <1>5 DEF TagsOK, More, Below

LEMMA TagTaken ==
  ASSUME NEW max \in Nat, NEW s, NEW f, TagsOK(s, f, max),
         NEW tag, tag = IF f # <<>> THEN Last(f) ELSE Len(s), tag < max,
         NEW o, o = Append(s, tag), NEW r, r = IF f # <<>> THEN Front(f) ELSE <<>>
  PROVE  TagsOK(o, r, max) /\ More(o, s, tag, Below(max)) /\ tag \notin Range(s)
PROOF
  <1>1. /\ max \in Nat /\ s \in Seq(Below(max)) /\ f \in Seq(Below(max))
        /\ IsInjective(s) /\ IsInjective(f) /\ Len(s) \in Nat /\ Len(f) \in Nat
        /\ Range(s) \intersect Range(f) = {}
        /\ Range(s) \union Range(f) = 0 .. (Len(s) + Len(f) - 1)
    BY SMTT(30) DEF TagsOK, Below
  <1>2. CASE f # <<>>
    <2>1. tag = Last(f) /\ r = Front(f)
      BY <1>2
    <2>2. Less(r, f, tag, Below(max)) /\ tag \in Range(f)
      BY <1>1, <1>2, <2>1, Shorter
    <2>3. tag \in Below(max)
      <3>1. \A i \in DOMAIN f : f[i] \in Below(max)
        BY <1>1, SMTT(30)
      <3>2. QED
        BY <2>2, <3>1, ZenonT(60) DEF Range
    <2>4. tag \notin Range(s)
      BY <1>1, <2>2, ZenonT(60)
    <2>5. More(o, s, tag, Below(max))
      BY <1>1, <2>3, <2>4, Longer, ZenonT(60)
    <2>6. TagsOK(o, r, max)
      BY <2>2, <2>5, TagMoved, ZenonT(60)
    <2>7. QED
      BY <2>4, <2>5, <2>6
  <1>3. CASE f = <<>>
    <2>1. tag = Len(s) /\ r = <<>>
      BY <1>3
    <2>2. Len(f) = 0 /\ Range(f) = {}
      BY <1>3, SMTT(30) DEF Range
    <2>3. Range(s) = 0 .. (Len(s) - 1)
      BY <1>1, <2>2, SMTT(30)
    <2>4. tag \in Below(max) /\ tag \notin Range(s)
      BY <1>1, <2>1, <2>3, SMTT(30) DEF Below
    <2>5. More(o, s, tag, Below(max))
      BY <1>1, <2>4, Longer, ZenonT(60)
    <2>6. TagsOK(o, r, max)
      BY <1>3, <2>1, <2>5, TagAdded, ZenonT(60)
    <2>7. QED
      BY <2>4, <2>5, <2>6
  <1>4. QED
    BY <1>2, <1>3

LEMMA TagFreed ==
  ASSUME NEW max \in Nat, NEW s, NEW f, TagsOK(s, f, max), NEW i \in 1 .. Len(s), NEW tag, tag = s[i],
         NEW o, o = Filled(s, i), NEW r, r = Append(f, tag)
  PROVE  TagsOK(o, r, max) /\ Less(o, s, tag, Below(max))
PROOF
  <1>1. /\ s \in Seq(Below(max)) /\ f \in Seq(Below(max)) /\ IsInjective(s) /\ IsInjective(f)
        /\ Range(f) \intersect Range(s) = {}
        /\ Range(f) \union Range(s) = 0 .. (Len(s) + Len(f) - 1)
    BY ZenonT(60) DEF TagsOK, Below
  <1>2. Less(o, s, tag, Below(max))
    BY <1>1, GapFilled, ZenonT(60)
  <1>3. /\ DOMAIN s = 1 .. Len(s) /\ \A k \in 1 .. Len(s) : s[k] \in Below(max)
        /\ Len(s) \in Nat /\ Len(f) \in Nat
    BY <1>1, SMTT(30)
  <1>4. tag \in Below(max) /\ tag \in Range(s)
    BY <1>3, ZenonT(60) DEF Range
  <1>5. tag \notin Range(f)
    BY <1>1, <1>4, ZenonT(60)
  <1>6. More(r, f, tag, Below(max))
    BY <1>1, <1>4, <1>5, Longer, ZenonT(60)
  <1>7. TagsOK(r, o, max)
    BY <1>2, <1>4, <1>6, TagMoved, TagsSymmetric, ZenonT(60)
  <1>8. QED
    BY <1>2, <1>7, TagsSymmetric, ZenonT(60)

\* No more tags are in use than the bound allows.
LEMMA TagsBounded ==
  ASSUME NEW max \in Nat, NEW s, NEW f, TagsOK(s, f, max)
  PROVE  /\ Len(s) \in 0 .. max /\ s \in [1 .. Len(s) -> 0 .. (max - 1)]
         /\ Len(s) \in Nat /\ s \in [1 .. Len(s) -> Nat]
PROOF
  <1> DEFINE n == Len(s)
             m == Len(f)
  <1>1. /\ s \in Seq(Below(max)) /\ f \in Seq(Below(max))
        /\ Range(s) \union Range(f) = 0 .. (n + m - 1)
    BY ZenonT(60) DEF TagsOK, Below
  <1>2. /\ n \in Nat /\ m \in Nat /\ s \in [1 .. n -> Below(max)] /\ f \in [1 .. m -> Below(max)]
    BY <1>1, SMTT(30)
  <1>3. /\ max \in Nat /\ n \in Nat /\ m \in Nat /\ s \in [1 .. n -> 0 .. (max - 1)]
        /\ Range(s) \union Range(f) = 0 .. (n + m - 1)
        /\ Range(s) \subseteq 0 .. (max - 1) /\ Range(f) \subseteq 0 .. (max - 1)
    <2>1. Range(s) \subseteq Below(max) /\ Range(f) \subseteq Below(max)
      BY <1>2 DEF Range
    <2>2. QED
      BY <1>1, <1>2, <2>1 DEF Below
  <1> HIDE DEF n, m
  <1>4. 0 .. (n + m - 1) \subseteq 0 .. (max - 1)
    BY <1>3, ZenonT(60)
  <1>5. n > max => n + m - 1 \in 0 .. (n + m - 1) /\ n + m - 1 \notin 0 .. (max - 1)
    BY <1>3, SMTT(30)
  <1>6. n <= max
    <2>1. ~(n > max)
      BY <1>4, <1>5, ZenonT(60)
    <2>2. QED
      BY <1>3, <2>1, SMTT(30)
  <1>7. QED
    BY <1>3, <1>6, SMTT(30) DEF n

\* One more than the largest tag: the size that the lookup gets.
LEMMA LookupSize ==
  ASSUME NEW max \in Nat, NEW o \in Seq(Below(max)), NEW tag \in Range(o)
  PROVE  /\ Len(o) \in Nat /\ Max(Range(o)) + 1 \in Nat
         /\ \A t \in Range(o) : t < Max(Range(o)) + 1
PROOF
  <1>1. Range(o) \subseteq Below(max) /\ Len(o) \in Nat
    BY SMTT(30) DEF Range
  <1>2. max - 1 \in Nat /\ Range(o) \in SUBSET (0 .. (max - 1)) /\ Range(o) # {}
    BY <1>1, SMTT(30) DEF Below
  <1>3. Max(Range(o)) \in Nat /\ \A t \in Range(o) : t <= Max(Range(o))
    BY <1>2, Largest, ZenonT(60)
  <1>4. \A t \in Range(o) : t \in Nat
    BY <1>2, SMTT(30)
  <1>5. QED
    BY <1>1, <1>3, <1>4, SMTT(30)

\* The tags of n particles that are loaded into an empty system.
LEMMA FirstTags ==
  ASSUME NEW max \in Nat, NEW n \in Nat, n <= max, NEW o, o = [i \in 1 .. n |-> i - 1]
  PROVE  /\ TagsOK(o, <<>>, max) /\ Len(o) = n /\ Range(o) = 0 .. (n - 1)
         /\ \A t \in 0 .. (n - 1) : t < n
PROOF
  <1>1. o \in Seq(0 .. (max - 1)) /\ Len(o) = n
    BY SMTT(30)
  <1>2. Range(o) = 0 .. (n - 1)
    <2>1. \A t \in 0 .. (n - 1) : t + 1 \in 1 .. n /\ o[t + 1] = t
      BY SMTT(30)
    <2>2. DOMAIN o = 1 .. n /\ \A i \in 1 .. n : o[i] \in 0 .. (n - 1)
      BY SMTT(30)
    <2>3. \A t \in 0 .. (n - 1) : \E i \in DOMAIN o : o[i] = t
      BY <2>1, <2>2, ZenonT(60)
    <2>4. \A t \in Range(o) : t \in 0 .. (n - 1)
      BY <2>2, ZenonT(60) DEF Range
    <2>5. \A t \in 0 .. (n - 1) : t \in Range(o)
      BY <2>3, ZenonT(60) DEF Range
    <2>6. QED
      BY <2>4, <2>5, ZenonT(60)
  <1>3. IsInjective(o)
    BY SMTT(30) DEF IsInjective
  <1>4. /\ <<>> \in Seq(0 .. (max - 1)) /\ IsInjective(<<>>) /\ Range(<<>>) = {} /\ Len(<<>>) = 0
    BY SMTT(30) DEF Range, IsInjective
  <1>5. Len(o) + Len(<<>>) - 1 = n - 1 /\ \A t \in 0 .. (n - 1) : t < n
    BY <1>1, <1>4, SMTT(30)
  <1>6. TagsOK(o, <<>>, max)
    BY <1>1, <1>2, <1>3, <1>4, <1>5, ZenonT(60) DEF TagsOK
  <1>7. QED
    BY <1>1, <1>2, <1>5, <1>6

\* The domain of a sequence.
LEMMA DomainOfSeq ==
  ASSUME NEW S, NEW s \in Seq(S)
  PROVE  Len(s) \in Nat /\ DOMAIN s = 1 .. Len(s)
  BY SMTT(30)

LEMMA OneLess ==
  ASSUME NEW a \in Nat, NEW b \in Nat, a <= b
  PROVE  a - 1 <= b
  BY SMTT(30)
=============================================================================
