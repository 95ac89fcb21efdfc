------------------------- MODULE CommunicatorProofs -------------------------
(***************************************************************************)
(* MessagesMatch and NobodyStuck of Communicator.tla, proved for every     *)
(* grid of domains, any set of particles and any jobs.                     *)
(*                                                                         *)
(* Between two votes a rank takes no decision of its own: what it sends    *)
(* to whom depends on members that have the same values on every rank that *)
(* has come as far.  So there is one schedule, the sequence of points at   *)
(* which a rank stops, and every rank is at one of its points.  A channel  *)
(* from q to p carries the messages of those points where q sends to p     *)
(* that q has come to and p has not left, in their order.  A vote is       *)
(* taken when all the ranks are at the last point, with nothing under way, *)
(* and starts a new schedule.  Two theorems follow: the first message of a *)
(* channel is the one of the point its receiver is at, and the rank that   *)
(* is behind all the others can go on.                                     *)
(*                                                                         *)
(* The operators of the schedule take the job as g, so that a step, which  *)
(* leaves the job alone, leaves them alone.                                *)
(***************************************************************************)
EXTENDS Communicator, WellFoundedInduction, TLAPS

\* The provers a step is given to unless it names one, with their time in seconds.
USE ZenonT(30), SMTT(30)

-----------------------------------------------------------------------------
(* The grid: neighbors in opposite directions. *)

\* Quotient and remainder of an integer.
LEMMA Division ==
  ASSUME NEW n \in Int, n > 0, NEW a \in Int
  PROVE  a % n \in 0..(n - 1) /\ a \div n \in Int /\ a = n * (a \div n) + (a % n)
PROOF
  BY SMTT(30)

\* The rank x + n * y is in column x of row y.
LEMMA DivisionIsUnique ==
  ASSUME NEW n \in Nat \ {0}, NEW x \in 0..(n - 1), NEW y \in Nat
  PROVE  (x + n * y) % n = x /\ (x + n * y) \div n = y
PROOF
  <1> DEFINE a == x + n * y
             u == a % n
             v == a \div n
  <1>1. n * y \in Nat
    BY SMTT(30)
  <1>2. a \in Nat
    BY <1>1, SMTT(30)
  <1>3. u \in 0..(n - 1) /\ v \in Int /\ a = n * v + u
    BY <1>2, Division, SMTT(30)
  <1> HIDE DEF u, v
  <1>4. n * (v - y) = x - u
    <2>1. n * (v - y) = n * v - n * y
      BY <1>3, SMTT(30)
    <2>2. QED
      BY <2>1, <1>1, <1>3, SMTT(30)
  <1>5. v - y < 1
    <2>1. SUFFICES ASSUME v - y >= 1 PROVE FALSE
      BY <1>3, SMTT(30)
    <2>2. n * (v - y) >= n
      BY <2>1, <1>3, SMTT(30)
    <2>3. QED
      BY <2>2, <1>4, <1>3, SMTT(30)
  <1>6. v - y > -1
    <2>1. SUFFICES ASSUME v - y <= -1 PROVE FALSE
      BY <1>3, SMTT(30)
    <2>2. n * (v - y) <= -n
      BY <2>1, <1>3, SMTT(30)
    <2>3. QED
      BY <2>2, <1>4, <1>3, SMTT(30)
  <1>7. v = y
    BY <1>3, <1>5, <1>6, SMTT(30)
  <1>8. u = x
    BY <1>7, <1>4, <1>3, SMTT(30)
  <1>9. QED
    BY <1>7, <1>8, SMTT(30) DEF u, v

\* One step up and one step down on a ring of n places.
LEMMA RingSteps ==
  ASSUME NEW n \in Nat \ {0}, NEW z \in 0..(n - 1)
  PROVE  /\ (z + 1 + n) % n = IF z = n - 1 THEN 0 ELSE z + 1
         /\ (z - 1 + n) % n = IF z = 0 THEN n - 1 ELSE z - 1
PROOF
  <1>1. 0 + n * 1 = n /\ 0 + n * 2 = n + n /\ z - 1 \in Int
    BY SMTT(30)
  <1>2. (z + 1 + n) % n = IF z = n - 1 THEN 0 ELSE z + 1
    <2>1. CASE z = n - 1
      <3>1. z + 1 + n = 0 + n * 2
        BY <2>1, SMTT(30)
      <3>2. QED
        BY <2>1, <3>1, DivisionIsUnique, SMTT(30)
    <2>2. CASE z # n - 1
      <3>1. z + 1 + n = (z + 1) + n * 1 /\ z + 1 \in 0..(n - 1)
        BY <2>2, SMTT(30)
      <3>2. ((z + 1) + n * 1) % n = z + 1
        BY <3>1, DivisionIsUnique, SMTT(30)
      <3>3. QED
        BY <2>2, <3>1, <3>2, SMTT(30)
    <2>3. QED
      BY <2>1, <2>2
  <1>3. (z - 1 + n) % n = IF z = 0 THEN n - 1 ELSE z - 1
    <2>1. CASE z = 0
      <3>1. z - 1 + n = (n - 1) + n * 0 /\ n - 1 \in 0..(n - 1)
        BY <2>1, SMTT(30)
      <3>2. ((n - 1) + n * 0) % n = n - 1
        BY <3>1, DivisionIsUnique, SMTT(30)
      <3>3. QED
        BY <2>1, <3>1, <3>2, SMTT(30)
    <2>2. CASE z # 0
      <3>1. z - 1 + n = (z - 1) + n * 1 /\ z - 1 \in 0..(n - 1)
        BY <2>2, SMTT(30)
      <3>2. ((z - 1) + n * 1) % n = z - 1
        BY <3>1, DivisionIsUnique, SMTT(30)
      <3>3. QED
        BY <2>2, <3>1, <3>2, SMTT(30)
    <2>3. QED
      BY <2>1, <2>2
  <1>4. QED
    BY <1>2, <1>3

\* The column and the row of a rank, and the rank of a column and a row.
LEMMA GridPositions ==
  ASSUME NEW g, g.w \in Nat \ {0}, g.h \in Nat \ {0}
  PROVE  /\ \A r \in Ranks(g) :
              /\ r % g.w \in 0..(g.w - 1) /\ r \div g.w \in 0..(g.h - 1)
              /\ GridPos(g, r) = <<r % g.w, r \div g.w>>
              /\ Rank(g, <<r % g.w, r \div g.w>>) = r
         /\ \A x \in 0..(g.w - 1), y \in 0..(g.h - 1) :
              /\ Rank(g, <<x, y>>) \in Ranks(g)
              /\ GridPos(g, Rank(g, <<x, y>>)) = <<x, y>>
PROOF
  <1> DEFINE w == g.w
             h == g.h
  <1>1. ASSUME NEW r \in 0..(w * h - 1)
        PROVE  r % w \in 0..(w - 1) /\ r \div w \in 0..(h - 1) /\ r = (r % w) + w * (r \div w)
    <2> DEFINE u == r % w
               v == r \div w
    <2>1. w * h \in Nat
      BY SMTT(30)
    <2>2. r \in Nat /\ r < w * h
      BY <2>1, SMTT(30)
    <2>3. u \in 0..(w - 1) /\ v \in Int /\ r = w * v + u
      <3>1. w \in Int /\ w > 0 /\ r \in Int
        BY <2>2, SMTT(30)
      <3> HIDE DEF w
      <3>2. QED
        BY <3>1, Division, SMTT(30)
    <2> HIDE DEF u, v, w, h
    <2>w. w \in Nat \ {0} /\ h \in Nat \ {0}
      BY DEF w, h
    <2>4. v >= 0
      <3>1. SUFFICES ASSUME v <= -1 PROVE FALSE
        BY <2>3, SMTT(30)
      <3>2. w * v <= -w
        BY <3>1, <2>w, <2>3, SMTT(30)
      <3>3. QED
        BY <3>2, <2>2, <2>3, <2>w, SMTT(30)
    <2>5. v < h
      <3>1. SUFFICES ASSUME v >= h PROVE FALSE
        BY <2>3, <2>w, SMTT(30)
      <3>2. w * v >= w * h
        BY <3>1, <2>w, <2>3, SMTT(30)
      <3>3. QED
        BY <3>2, <2>2, <2>3, <2>1, <2>w, SMTT(30)
    <2>6. QED
      BY <2>3, <2>4, <2>5, <2>w, SMTT(30) DEF u, v
  <1>2. ASSUME NEW x \in 0..(w - 1), NEW y \in 0..(h - 1)
        PROVE  x + w * y \in 0..(w * h - 1) /\ (x + w * y) % w = x /\ (x + w * y) \div w = y
    <2>1. w \in Nat \ {0} /\ h \in Nat \ {0} /\ x \in Nat /\ y \in Nat
      BY SMTT(30)
    <2> HIDE DEF w, h
    <2>2. w * y >= 0
      BY <2>1, SMTT(30)
    <2>3. w * (y + 1) <= w * h
      BY <2>1, SMTT(30)
    <2>4. w * (y + 1) = w * y + w
      BY <2>1, SMTT(30)
    <2>5. w * h \in Int /\ w * y \in Int
      BY <2>1, SMTT(30)
    <2>6. x + w * y \in 0..(w * h - 1)
      BY <2>1, <2>2, <2>3, <2>4, <2>5, SMTT(30)
    <2>7. QED
      BY <2>1, <2>6, DivisionIsUnique
  <1>3. QED
    BY <1>1, <1>2, SMTT(30) DEF Ranks, GridPos, Rank

\* A neighbor is a rank, and the neighbor of a neighbor on the other side is the
\* rank itself.
LEMMA NeighborsAreMutual ==
  ASSUME NEW g, g.w \in Nat \ {0}, g.h \in Nat \ {0},
         NEW r \in Ranks(g), NEW dir \in Dirs
  PROVE  /\ getNeighborRank(g, r, dir) \in Ranks(g)
         /\ getNeighborRank(g, getNeighborRank(g, r, dir), Opposite(dir)) = r
PROOF
  <1> DEFINE x == r % g.w
             y == r \div g.w
             up(z, n) == IF z = n - 1 THEN 0 ELSE z + 1
             down(z, n) == IF z = 0 THEN n - 1 ELSE z - 1
  <1>1. /\ x \in 0..(g.w - 1) /\ y \in 0..(g.h - 1)
        /\ GridPos(g, r) = <<x, y>> /\ Rank(g, <<x, y>>) = r
    BY GridPositions
  <1>2. ASSUME NEW n \in Nat \ {0}, NEW z \in 0..(n - 1)
        PROVE  /\ up(z, n) \in 0..(n - 1) /\ down(z, n) \in 0..(n - 1)
               /\ down(up(z, n), n) = z /\ up(down(z, n), n) = z
               /\ (z + 1 + n) % n = up(z, n) /\ (z + (-1) + n) % n = down(z, n)
    <2>1. /\ up(z, n) \in 0..(n - 1) /\ down(z, n) \in 0..(n - 1)
          /\ down(up(z, n), n) = z /\ up(down(z, n), n) = z
      BY SMTT(30)
    <2>2. (z + 1 + n) % n = up(z, n) /\ (z - 1 + n) % n = down(z, n)
      BY RingSteps
    <2>3. z + (-1) + n = z - 1 + n
      BY SMTT(30)
    <2>4. QED
      BY <2>1, <2>2, <2>3
  <1>3. ASSUME NEW q \in Ranks(g), NEW a \in 0..(g.w - 1), NEW b \in 0..(g.h - 1),
               GridPos(g, q) = <<a, b>>
        PROVE  /\ getNeighborRank(g, q, 0) = Rank(g, <<up(a, g.w), b>>)
               /\ getNeighborRank(g, q, 1) = Rank(g, <<down(a, g.w), b>>)
               /\ getNeighborRank(g, q, 2) = Rank(g, <<a, up(b, g.h)>>)
               /\ getNeighborRank(g, q, 3) = Rank(g, <<a, down(b, g.h)>>)
    <2> HIDE DEF up, down
    <2>1. /\ (a + 1 + g.w) % g.w = up(a, g.w) /\ (a + (-1) + g.w) % g.w = down(a, g.w)
          /\ (b + 1 + g.h) % g.h = up(b, g.h) /\ (b + (-1) + g.h) % g.h = down(b, g.h)
      BY <1>2
    <2>2. /\ Axis(0) = 1 /\ Axis(1) = 1 /\ Axis(2) = 2 /\ Axis(3) = 2
          /\ East(0) /\ ~East(1) /\ East(2) /\ ~East(3)
      BY SMTT(30) DEF Axis, East
    <2>3. Grid(g)[1] = g.w /\ Grid(g)[2] = g.h
      BY DEF Grid
    <2>4. \A c : [<<a, b>> EXCEPT ![1] = c] = <<c, b>> /\ [<<a, b>> EXCEPT ![2] = c] = <<a, c>>
      BY SMTT(30)
    <2>5. <<a, b>>[1] = a /\ <<a, b>>[2] = b
      BY SMTT(30)
    <2>6. getNeighborRank(g, q, 0) = Rank(g, <<up(a, g.w), b>>)
      <3>1. getNeighborRank(g, q, 0) = Rank(g, [<<a, b>> EXCEPT ![1] = (<<a, b>>[1] + 1 + g.w) % g.w])
        BY <1>3, <2>2, <2>3 DEF getNeighborRank
      <3>2. QED
        BY <3>1, <2>1, <2>4, <2>5
    <2>7. getNeighborRank(g, q, 1) = Rank(g, <<down(a, g.w), b>>)
      <3>1. getNeighborRank(g, q, 1) = Rank(g, [<<a, b>> EXCEPT ![1] = (<<a, b>>[1] + (-1) + g.w) % g.w])
        BY <1>3, <2>2, <2>3 DEF getNeighborRank
      <3>2. QED
        BY <3>1, <2>1, <2>4, <2>5
    <2>8. getNeighborRank(g, q, 2) = Rank(g, <<a, up(b, g.h)>>)
      <3>1. getNeighborRank(g, q, 2) = Rank(g, [<<a, b>> EXCEPT ![2] = (<<a, b>>[2] + 1 + g.h) % g.h])
        BY <1>3, <2>2, <2>3 DEF getNeighborRank
      <3>2. QED
        BY <3>1, <2>1, <2>4, <2>5
    <2>9. getNeighborRank(g, q, 3) = Rank(g, <<a, down(b, g.h)>>)
      <3>1. getNeighborRank(g, q, 3) = Rank(g, [<<a, b>> EXCEPT ![2] = (<<a, b>>[2] + (-1) + g.h) % g.h])
        BY <1>3, <2>2, <2>3 DEF getNeighborRank
      <3>2. QED
        BY <3>1, <2>1, <2>4, <2>5
    <2>10. QED
      BY <2>6, <2>7, <2>8, <2>9
  <1> HIDE DEF up, down
  <1>4. Opposite(0) = 1 /\ Opposite(1) = 0 /\ Opposite(2) = 3 /\ Opposite(3) = 2
    BY SMTT(30) DEF Opposite, East
  <1>5. dir \in {0, 1, 2, 3}
    BY SMTT(30) DEF Dirs
  <1>6. ASSUME NEW a \in 0..(g.w - 1), NEW b \in 0..(g.h - 1)
        PROVE  Rank(g, <<a, b>>) \in Ranks(g) /\ GridPos(g, Rank(g, <<a, b>>)) = <<a, b>>
    BY GridPositions, SMTT(30)
  <1>7. /\ up(x, g.w) \in 0..(g.w - 1) /\ down(x, g.w) \in 0..(g.w - 1)
        /\ down(up(x, g.w), g.w) = x /\ up(down(x, g.w), g.w) = x
        /\ up(y, g.h) \in 0..(g.h - 1) /\ down(y, g.h) \in 0..(g.h - 1)
        /\ down(up(y, g.h), g.h) = y /\ up(down(y, g.h), g.h) = y
    BY <1>1, <1>2
  <1> HIDE DEF x, y
  <1>8. CASE dir = 0
    <2> DEFINE q == Rank(g, <<up(x, g.w), y>>)
    <2>1. getNeighborRank(g, r, dir) = q
      BY <1>8, <1>1, <1>3
    <2>2. q \in Ranks(g) /\ GridPos(g, q) = <<up(x, g.w), y>>
      BY <1>1, <1>6, <1>7
    <2> HIDE DEF q
    <2>3. getNeighborRank(g, q, 1) = Rank(g, <<x, y>>)
      <3>1. up(x, g.w) \in 0..(g.w - 1) /\ y \in 0..(g.h - 1)
        BY <1>1, <1>7
      <3>2. getNeighborRank(g, q, 1) = Rank(g, <<down(up(x, g.w), g.w), y>>)
        BY <3>1, <2>2, <1>3
      <3>3. QED
        BY <3>2, <1>7
    <2>4. QED
      BY <1>8, <1>1, <1>4, <2>1, <2>2, <2>3
  <1>9. CASE dir = 1
    <2> DEFINE q == Rank(g, <<down(x, g.w), y>>)
    <2>1. getNeighborRank(g, r, dir) = q
      BY <1>9, <1>1, <1>3
    <2>2. q \in Ranks(g) /\ GridPos(g, q) = <<down(x, g.w), y>>
      BY <1>1, <1>6, <1>7
    <2> HIDE DEF q
    <2>3. getNeighborRank(g, q, 0) = Rank(g, <<x, y>>)
      <3>1. down(x, g.w) \in 0..(g.w - 1) /\ y \in 0..(g.h - 1)
        BY <1>1, <1>7
      <3>2. getNeighborRank(g, q, 0) = Rank(g, <<up(down(x, g.w), g.w), y>>)
        BY <3>1, <2>2, <1>3
      <3>3. QED
        BY <3>2, <1>7
    <2>4. QED
      BY <1>9, <1>1, <1>4, <2>1, <2>2, <2>3
  <1>10. CASE dir = 2
    <2> DEFINE q == Rank(g, <<x, up(y, g.h)>>)
    <2>1. getNeighborRank(g, r, dir) = q
      BY <1>10, <1>1, <1>3
    <2>2. q \in Ranks(g) /\ GridPos(g, q) = <<x, up(y, g.h)>>
      BY <1>1, <1>6, <1>7
    <2> HIDE DEF q
    <2>3. getNeighborRank(g, q, 3) = Rank(g, <<x, y>>)
      <3>1. x \in 0..(g.w - 1) /\ up(y, g.h) \in 0..(g.h - 1)
        BY <1>1, <1>7
      <3>2. getNeighborRank(g, q, 3) = Rank(g, <<x, down(up(y, g.h), g.h)>>)
        BY <3>1, <2>2, <1>3
      <3>3. QED
        BY <3>2, <1>7
    <2>4. QED
      BY <1>10, <1>1, <1>4, <2>1, <2>2, <2>3
  <1>11. CASE dir = 3
    <2> DEFINE q == Rank(g, <<x, down(y, g.h)>>)
    <2>1. getNeighborRank(g, r, dir) = q
      BY <1>11, <1>1, <1>3
    <2>2. q \in Ranks(g) /\ GridPos(g, q) = <<x, down(y, g.h)>>
      BY <1>1, <1>6, <1>7
    <2> HIDE DEF q
    <2>3. getNeighborRank(g, q, 2) = Rank(g, <<x, y>>)
      <3>1. x \in 0..(g.w - 1) /\ down(y, g.h) \in 0..(g.h - 1)
        BY <1>1, <1>7
      <3>2. getNeighborRank(g, q, 2) = Rank(g, <<x, up(down(y, g.h), g.h)>>)
        BY <3>1, <2>2, <1>3
      <3>3. QED
        BY <3>2, <1>7
    <2>4. QED
      BY <1>11, <1>1, <1>4, <2>1, <2>2, <2>3
  <1>12. QED
    BY <1>5, <1>8, <1>9, <1>10, <1>11

-----------------------------------------------------------------------------
(***************************************************************************)
(* The schedule.  What a rank does next depends on members that do not     *)
(* depend on its particles, and on the votes.  The definitions below       *)
(* follow communicate() and its callers on these members alone.            *)
(***************************************************************************)
Waits == {"update", "migrate", "exchange"}
Votes == {"peek", "compute"}
Calls == {"idle", "prepRun", "force", "sort", "integrate"}

ListFields == {"rbuff", "force", "checked", "result", "updated", "first", "computed",
               "lastPos", "pairs"}
RankFields == {"pc", "ret", "dir", "call", "left", "t", "force", "communicating", "hasGhosts",
               "added", "copies", "received", "local", "ghosts", "rtag", "nl", "out"}
ControlFields == {"pc", "ret", "dir", "call", "left", "t", "force", "communicating", "hasGhosts", "nl"}

\* Two neighbor lists that differ in the stored positions and pairs only.
SameList(a, b) ==
    /\ DOMAIN a = ListFields /\ DOMAIN b = ListFields
    /\ a.rbuff = b.rbuff /\ a.force = b.force /\ a.checked = b.checked /\ a.result = b.result
    /\ a.updated = b.updated /\ a.first = b.first /\ a.computed = b.computed

\* Rank s is at the point c of the schedule.
Agrees(s, c) ==
    /\ DOMAIN s = RankFields /\ DOMAIN c = ControlFields
    /\ s.pc = c.pc /\ s.ret = c.ret /\ s.dir = c.dir /\ s.call = c.call /\ s.left = c.left
    /\ s.t = c.t /\ s.force = c.force /\ s.communicating = c.communicating
    /\ s.hasGhosts = c.hasGhosts /\ SameList(s.nl, c.nl)

\* Two lists that differ in positions and pairs agree on whether a distance check is
\* due, which is collective.
LEMMA ListCollective ==
  ASSUME NEW a, NEW b, SameList(a, b), NEW g, NEW t
  PROVE  Collective(g, a, t) = Collective(g, b, t)
PROOF
  BY DEF SameList, Collective, shouldCheckDistance, Unchecked

\* They give the same verdict when the votes are the same.
LEMMA ListVerdict ==
  ASSUME NEW a, NEW b, SameList(a, b), NEW g, NEW t, NEW vote
  PROVE  Verdict(g, a, t, vote) = Verdict(g, b, t, vote)
PROOF
  <1>1. /\ shouldCheckDistance(g, a, t) = shouldCheckDistance(g, b, t)
        /\ Unchecked(g, a, t) = Unchecked(g, b, t)
    BY DEF SameList, shouldCheckDistance, Unchecked
  <1>2. QED
    BY <1>1 DEF SameList, Verdict

\* The methods of the neighbor list keep two such lists alike.
LEMMA ListMethods ==
  ASSUME NEW a, NEW b, SameList(a, b)
  PROVE  /\ SameList(forceUpdate(a), forceUpdate(b))
         /\ \A rbuff : SameList(setRBuff(a, rbuff), setRBuff(b, rbuff))
         /\ \A t : SameList(Noted(a, t), Noted(b, t))
         /\ \A g, t, vote : SameList(needsUpdating(g, a, t, vote), needsUpdating(g, b, t, vote))
PROOF
  <1>1. SameList(forceUpdate(a), forceUpdate(b))
    BY DEF SameList, forceUpdate, ListFields
  <1>2. \A rbuff : SameList(setRBuff(a, rbuff), setRBuff(b, rbuff))
    BY DEF SameList, forceUpdate, setRBuff, ListFields
  <1>3. \A t : SameList(Noted(a, t), Noted(b, t))
    BY DEF SameList, Noted, ListFields
  <1>4. ASSUME NEW g, NEW t, NEW vote
        PROVE  SameList(needsUpdating(g, a, t, vote), needsUpdating(g, b, t, vote))
    <2>1. Verdict(g, a, t, vote) = Verdict(g, b, t, vote)
      BY ListVerdict, SMTT(30)
    <2>2. QED
      BY <2>1 DEF SameList, needsUpdating, ListFields
  <1>5. QED
    BY <1>1, <1>2, <1>3, <1>4

\* What building the list changes is not part of the schedule.
LEMMA ListBuilt ==
  ASSUME NEW a, NEW b, SameList(a, b), NEW g, NEW t, NEW vote, NEW n, NEW particles
  PROVE  SameList(Built(g, a, t, vote, n, particles), needsUpdating(g, Noted(b, t), t, vote))
PROOF
  <1> DEFINE k == needsUpdating(g, Noted(a, t), t, vote)
             m == needsUpdating(g, Noted(b, t), t, vote)
  <1>1. SameList(k, m)
    BY ListMethods
  <1> HIDE DEF k, m
  <1>2. SameList(buildNlist(g, k, n, particles), m)
    BY <1>1 DEF SameList, buildNlist, ListFields
  <1>3. Built(g, a, t, vote, n, particles) \in {buildNlist(g, k, n, particles), k}
    BY DEF Built, k
  <1>4. QED
    BY <1>1, <1>2, <1>3 DEF m

-----------------------------------------------------------------------------
(* The schedule of communicate(), from its end to its beginning. *)

Exchanging(g, c, dir) ==
    LET d == NextDir(g, dir)
    IN  IF d = 4 THEN Returned([c EXCEPT !.hasGhosts = TRUE])
        ELSE [c EXCEPT !.pc = "exchange", !.dir = d]

Migrating(g, c, dir) ==
    LET d == NextDir(g, dir)
    IN  IF d = 4 THEN Exchanging(g, c, 0)
        ELSE [notifyParticleSort(c) EXCEPT !.pc = "migrate", !.dir = d]

Narrow(g, c) == \E k \in Axes : Grid(g)[k] > 1 /\ 2 * getGhostLayerWidth(g, c.nl) >= g.len

Deciding(g, c, request) ==
    IF ~(request \/ c.force \/ ~c.hasGhosts) THEN Returned(c)
    ELSE IF Narrow(g, c) THEN [c EXCEPT !.force = FALSE, !.pc = "idle", !.left = 0]
    ELSE Migrating(g, [c EXCEPT !.force = FALSE, !.hasGhosts = FALSE], 0)

Asking(g, c) ==
    IF c.force THEN Deciding(g, c, FALSE)
    ELSE IF Collective(g, c.nl, c.t) THEN [c EXCEPT !.pc = "peek"]
    ELSE Deciding(g, [c EXCEPT !.nl = needsUpdating(g, @, c.t, FALSE)], Verdict(g, c.nl, c.t, FALSE))

Refreshing(g, c, dir) ==
    LET d == NextDir(g, dir)
    IN  IF d = 4 THEN Asking(g, c) ELSE [c EXCEPT !.pc = "update", !.dir = d]

Communicating(g, c, ret) ==
    LET b == [c EXCEPT !.communicating = TRUE, !.ret = ret]
    IN  IF ~c.force /\ c.hasGhosts THEN Refreshing(g, b, 0) ELSE Asking(g, b)

\* What a rank that goes on as s has sent: the message it will wait for the
\* counterpart of, or nothing.
Posts(s, r) ==
    IF s.pc \in Waits
    THEN \E m : /\ m.kind = s.pc /\ m.dir = s.dir
                /\ s.out = <<[to |-> getNeighborRank(job, r, s.dir), msg |-> m]>>
    ELSE s.out = <<>>

\* Changes of the particles do not touch the schedule.
LEMMA DataChanges ==
  ASSUME NEW s, NEW c, Agrees(s, c), NEW x
  PROVE  /\ Agrees([s EXCEPT !.local = x], c) /\ Agrees([s EXCEPT !.ghosts = x], c)
         /\ Agrees([s EXCEPT !.copies = x], c)
         /\ [s EXCEPT !.local = x].out = s.out /\ [s EXCEPT !.ghosts = x].out = s.out
         /\ [s EXCEPT !.copies = x].out = s.out
PROOF
  BY DEF Agrees, RankFields

\* The short methods of a rank do to the schedule what they do to the rank.
LEMMA SmallMethods ==
  ASSUME NEW s, NEW c, Agrees(s, c)
  PROVE  /\ Agrees(forceMigrate(s), forceMigrate(c)) /\ forceMigrate(s).out = s.out
         /\ Agrees(notifyParticleSort(s), notifyParticleSort(c)) /\ notifyParticleSort(s).out = s.out
         /\ Agrees(Returned(s), Returned(c)) /\ Returned(s).out = s.out
         /\ Agrees(removeAllGhostParticles(s), [c EXCEPT !.hasGhosts = FALSE])
         /\ removeAllGhostParticles(s).out = s.out
         /\ \A local : /\ Agrees(WithLocal(s, local), notifyParticleSort(c))
                       /\ WithLocal(s, local).out = s.out
PROOF
  <1>1. Agrees(forceMigrate(s), forceMigrate(c)) /\ forceMigrate(s).out = s.out
    BY DEF Agrees, forceMigrate, RankFields, ControlFields
  <1>2. ASSUME NEW u, NEW v, Agrees(u, v)
        PROVE  Agrees(notifyParticleSort(u), notifyParticleSort(v)) /\ notifyParticleSort(u).out = u.out
    <2>1. Agrees(forceMigrate(u), forceMigrate(v)) /\ forceMigrate(u).out = u.out
      BY <1>2 DEF Agrees, forceMigrate, RankFields, ControlFields
    <2>2. SameList(forceUpdate(forceMigrate(u).nl), forceUpdate(forceMigrate(v).nl))
      BY <2>1, ListMethods DEF Agrees
    <2>3. QED
      BY <2>1, <2>2 DEF Agrees, notifyParticleSort, RankFields, ControlFields
  <1>3. Agrees(Returned(s), Returned(c)) /\ Returned(s).out = s.out
    BY DEF Agrees, Returned, RankFields, ControlFields
  <1>4. /\ Agrees(removeAllGhostParticles(s), [c EXCEPT !.hasGhosts = FALSE])
        /\ removeAllGhostParticles(s).out = s.out
    BY DEF Agrees, removeAllGhostParticles, RankFields, ControlFields
  <1>5. ASSUME NEW local
        PROVE  Agrees(WithLocal(s, local), notifyParticleSort(c)) /\ WithLocal(s, local).out = s.out
    <2>1. PICK x : WithLocal(s, local) = notifyParticleSort([s EXCEPT !.local = local, !.rtag = x])
      BY DEF WithLocal
    <2>2. /\ Agrees([s EXCEPT !.local = local, !.rtag = x], c)
          /\ [s EXCEPT !.local = local, !.rtag = x].out = s.out
      BY DEF Agrees, RankFields
    <2>3. QED
      BY <2>1, <2>2, <1>2
  <1>6. QED
    BY <1>1, <1>2, <1>3, <1>4, <1>5

-----------------------------------------------------------------------------
(* The ranks keep to the schedule. *)

\* The next direction of a loop over the directions is one that communicates, or
\* there is none.
LEMMA NextDirection ==
  ASSUME NEW g, NEW dir \in 0..4
  PROVE  LET d == NextDir(g, dir) IN d = 4 \/ (d \in Dirs /\ isCommunicating(g, d))
PROOF
  <1> DEFINE P(d) == (d = 4 \/ isCommunicating(g, d)) /\ \A e \in dir..(d - 1) : ~isCommunicating(g, e)
  <1>1. \E d \in dir..4 : P(d)
    <2>1. dir \in {0, 1, 2, 3, 4}
      BY SMTT(30)
    <2>2. QED
      BY <2>1, SMTT(30)
  <1>2. NextDir(g, dir) \in dir..4 /\ P(NextDir(g, dir))
    BY <1>1 DEF NextDir
  <1>3. \A d \in dir..4 : d = 4 \/ d \in Dirs
    BY SMTT(30) DEF Dirs
  <1>4. QED
    BY <1>2, <1>3

\* A point of the schedule: where a rank waits and where it goes on.
IsControl(g, c) ==
    /\ c.ret \in Calls
    /\ c.pc \in Calls \union {"forced"} \union Votes \union Waits
    /\ c.pc \in Waits => c.dir \in Dirs /\ isCommunicating(g, c.dir)

\* The rank r has come to point c as s.
Arrives(s, r, c) == Agrees(s, c) /\ Posts(s, r) /\ IsControl(job, c)

\* It has sent nothing since its last stop.
Ready(s, c) == Agrees(s, c) /\ s.out = <<>> /\ c.ret \in Calls

\* What a message of the ghosts brings does not move a rank to another point.
WithGhosts(s, x, y, z) == [s EXCEPT !.ghosts = x, !.received = y, !.rtag = z]

LEMMA GhostsRefreshed ==
  ASSUME NEW s, NEW c, Ready(s, c), NEW x
  PROVE  Ready([s EXCEPT !.ghosts = x], c)
PROOF
  BY SMTT(30) DEF Ready, Agrees, RankFields

LEMMA GhostsRead ==
  ASSUME NEW s, NEW c, Ready(s, c), NEW x, NEW y, NEW z
  PROVE  Ready(WithGhosts(s, x, y, z), c)
PROOF
  BY SMTT(30) DEF Ready, Agrees, RankFields, WithGhosts

\* A rank that sends in direction d stops there.
LEMMA Sending ==
  ASSUME NEW s, NEW c, Ready(s, c), NEW r, NEW m, NEW kind \in Waits, m.kind = kind,
         NEW d \in Dirs, m.dir = d, isCommunicating(job, d)
  PROVE  Arrives(Send(s, r, d, m), r, [c EXCEPT !.pc = kind, !.dir = d])
PROOF
  <1> DEFINE u == Send(s, r, d, m)
             v == [c EXCEPT !.pc = kind, !.dir = d]
  <1>1. Agrees(u, v) /\ v.ret = c.ret
    BY DEF Ready, Agrees, Send, RankFields, ControlFields
  <1>2. u.out = <<[to |-> getNeighborRank(job, r, d), msg |-> m]>>
    BY DEF Ready, Agrees, Send, RankFields
  <1>3. u.pc = kind /\ u.dir = d /\ v.pc = kind /\ v.dir = d
    BY DEF Ready, Agrees, Send, RankFields, ControlFields
  <1> HIDE DEF u, v
  <1>4. Posts(u, r)
    BY <1>2, <1>3 DEF Posts
  <1>5. IsControl(job, v)
    BY <1>1, <1>3 DEF IsControl, Ready
  <1>6. QED
    BY <1>1, <1>4, <1>5 DEF Arrives, u, v

\* communicate() returns to its caller.
LEMMA Returning ==
  ASSUME NEW s, NEW c, Ready(s, c), NEW r
  PROVE  Arrives(Returned(s), r, Returned(c))
PROOF
  <1>1. Agrees(Returned(s), Returned(c)) /\ Returned(s).out = <<>>
    BY SmallMethods DEF Ready
  <1>2. Returned(c).pc = c.ret /\ Returned(c).ret = c.ret /\ Returned(s).pc = c.ret
    BY DEF Ready, Agrees, Returned, RankFields, ControlFields
  <1>3. c.ret \notin Waits
    BY DEF Ready, Calls, Waits
  <1>4. QED
    BY <1>1, <1>2, <1>3 DEF Arrives, Posts, IsControl, Ready

\* exchangeGhosts() follows the schedule.
LEMMA ExchangeFollows ==
  ASSUME NEW s, NEW c, Ready(s, c), NEW r, NEW dir \in 0..4
  PROVE  Arrives(exchangeGhosts(s, r, dir), r, Exchanging(job, c, dir))
PROOF
  <1> DEFINE d == NextDir(job, dir)
  <1>1. CASE d = 4
    <2> DEFINE u == [s EXCEPT !.added = Len(s.ghosts), !.hasGhosts = TRUE]
               v == [c EXCEPT !.hasGhosts = TRUE]
    <2>1. Ready(u, v)
      BY DEF Ready, Agrees, RankFields, ControlFields
    <2>2. exchangeGhosts(s, r, dir) = Returned(u)
      BY <1>1, Zenon DEF exchangeGhosts, Exchanged
    <2>3. Exchanging(job, c, dir) = Returned(v)
      BY <1>1, Zenon DEF Exchanging
    <2> HIDE DEF u, v
    <2>4. QED
      BY <2>1, <2>2, <2>3, Returning
  <1>2. CASE d # 4
    <2>1. PICK m, k : /\ m.kind = "exchange" /\ m.dir = d
                      /\ exchangeGhosts(s, r, dir) = Send([s EXCEPT !.copies[d] = k], r, d, m)
      BY <1>2, Zenon DEF exchangeGhosts
    <2> DEFINE u == [s EXCEPT !.copies[d] = k]
    <2>2. Ready(u, c)
      BY DataChanges DEF Ready
    <2>3. d \in Dirs /\ isCommunicating(job, d)
      BY <1>2, NextDirection
    <2>4. Exchanging(job, c, dir) = [c EXCEPT !.pc = "exchange", !.dir = d]
      BY <1>2, Zenon DEF Exchanging
    <2>5. exchangeGhosts(s, r, dir) = Send(u, r, d, m)
      BY <2>1
    <2> HIDE DEF u, d
    <2>6. "exchange" \in Waits
      BY DEF Waits
    <2>7. Arrives(Send(u, r, d, m), r, [c EXCEPT !.pc = "exchange", !.dir = d])
      BY <2>1, <2>2, <2>3, <2>6, Sending
    <2>8. QED
      BY <2>4, <2>5, <2>7
  <1>3. QED
    BY <1>1, <1>2

\* migrateParticles() follows the schedule: it sends in every direction, also when
\* no particle leaves.
LEMMA MigrateFollows ==
  ASSUME NEW s, NEW c, Ready(s, c), NEW r, NEW dir \in 0..4
  PROVE  Arrives(migrateParticles(s, r, dir), r, Migrating(job, c, dir))
PROOF
  <1> DEFINE d == NextDir(job, dir)
  <1>1. CASE d = 4
    <2>1. migrateParticles(s, r, dir) = exchangeGhosts(s, r, 0)
      BY <1>1, Zenon DEF migrateParticles
    <2>2. Migrating(job, c, dir) = Exchanging(job, c, 0)
      BY <1>1, Zenon DEF Migrating
    <2>3. 0 \in 0..4
      BY SMTT(30)
    <2>4. QED
      BY <2>1, <2>2, <2>3, ExchangeFollows
  <1>2. CASE d # 4
    <2>1. PICK m, kept : /\ m.kind = "migrate" /\ m.dir = d
                         /\ migrateParticles(s, r, dir) = Send(WithLocal(s, kept), r, d, m)
      BY <1>2, Zenon DEF migrateParticles
    <2>2. Ready(WithLocal(s, kept), notifyParticleSort(c))
      <3>1. Agrees(WithLocal(s, kept), notifyParticleSort(c)) /\ WithLocal(s, kept).out = <<>>
        BY SmallMethods DEF Ready
      <3>2. notifyParticleSort(c).ret = c.ret
        BY DEF Ready, Agrees, notifyParticleSort, forceMigrate, ControlFields
      <3>3. QED
        BY <3>1, <3>2 DEF Ready
    <2>3. d \in Dirs /\ isCommunicating(job, d)
      BY <1>2, NextDirection
    <2>4. Migrating(job, c, dir) = [notifyParticleSort(c) EXCEPT !.pc = "migrate", !.dir = d]
      BY <1>2, Zenon DEF Migrating
    <2> HIDE DEF d
    <2>5. "migrate" \in Waits
      BY DEF Waits
    <2>6. Arrives(Send(WithLocal(s, kept), r, d, m), r,
                  [notifyParticleSort(c) EXCEPT !.pc = "migrate", !.dir = d])
      BY <2>1, <2>2, <2>3, <2>5, Sending
    <2>7. QED
      BY <2>1, <2>4, <2>6
  <1>3. QED
    BY <1>1, <1>2

\* So does communicate() once the request for a migration is known.
LEMMA RequestFollows ==
  ASSUME NEW s, NEW c, Ready(s, c), NEW r, NEW request
  PROVE  Arrives(Requested(s, r, request), r, Deciding(job, c, request))
PROOF
  <1> DEFINE started == [s EXCEPT !.force = FALSE]
             go == request \/ s.force \/ ~s.hasGhosts
  <1>1. s.force = c.force /\ s.hasGhosts = c.hasGhosts
    BY DEF Ready, Agrees
  <1>2. BoxTooSmall(s) = Narrow(job, c)
    <2>1. getGhostLayerWidth(job, s.nl) = getGhostLayerWidth(job, c.nl)
      BY DEF Ready, Agrees, SameList, getGhostLayerWidth
    <2>2. QED
      BY <2>1 DEF BoxTooSmall, Narrow
  <1>3. CASE ~go
    <2>1. Requested(s, r, request) = Returned(s) /\ Deciding(job, c, request) = Returned(c)
      BY <1>1, <1>3 DEF Requested, Deciding
    <2>2. QED
      BY <2>1, Returning
  <1>4. CASE go /\ BoxTooSmall(s)
    <2> DEFINE u == [started EXCEPT !.pc = "idle", !.left = 0]
               v == [c EXCEPT !.force = FALSE, !.pc = "idle", !.left = 0]
    <2>1. Requested(s, r, request) = u /\ Deciding(job, c, request) = v
      BY <1>1, <1>2, <1>4 DEF Requested, Deciding
    <2>2. Agrees(u, v) /\ u.out = <<>> /\ u.pc = "idle" /\ v.pc = "idle" /\ v.ret = c.ret
      BY DEF Ready, Agrees, RankFields, ControlFields
    <2> HIDE DEF u, v
    <2>3. "idle" \notin Waits /\ "idle" \in Calls
      BY DEF Waits, Calls
    <2>4. Arrives(u, r, v)
      BY <2>2, <2>3 DEF Arrives, Posts, IsControl, Ready
    <2>5. QED
      BY <2>1, <2>4
  <1>5. CASE go /\ ~BoxTooSmall(s)
    <2> DEFINE u == removeAllGhostParticles(started)
               v == [c EXCEPT !.force = FALSE, !.hasGhosts = FALSE]
    <2>1. Requested(s, r, request) = migrateParticles(u, r, 0)
      BY <1>5 DEF Requested
    <2>2. Deciding(job, c, request) = Migrating(job, v, 0)
      BY <1>1, <1>2, <1>5 DEF Deciding
    <2>3. Agrees(started, [c EXCEPT !.force = FALSE]) /\ started.out = <<>>
      BY DEF Ready, Agrees, RankFields, ControlFields
    <2>4. Agrees(u, [[c EXCEPT !.force = FALSE] EXCEPT !.hasGhosts = FALSE]) /\ u.out = <<>>
      BY <2>3, SmallMethods
    <2>5. v.ret = c.ret
      BY DEF Ready, Agrees, ControlFields
    <2>6. Ready(u, v)
      BY <2>4, <2>5 DEF Ready
    <2>7. 0 \in 0..4
      BY SMTT(30)
    <2> HIDE DEF u, v
    <2>8. Arrives(migrateParticles(u, r, 0), r, Migrating(job, v, 0))
      BY <2>6, <2>7, MigrateFollows
    <2>9. QED
      BY <2>1, <2>2, <2>8
  <1>6. QED
    BY <1>3, <1>4, <1>5

\* The neighbor lists of two ranks at the same point give the same answers.
LEMMA SameAnswers ==
  ASSUME NEW s, NEW c, Agrees(s, c)
  PROVE  /\ Computes(s.nl, s.t) = Computes(c.nl, c.t)
         /\ Collective(job, s.nl, s.t) = Collective(job, c.nl, c.t)
         /\ \A vote :
              /\ Verdict(job, s.nl, s.t, vote) = Verdict(job, c.nl, c.t, vote)
              /\ SameList(needsUpdating(job, s.nl, s.t, vote), needsUpdating(job, c.nl, c.t, vote))
PROOF
  <1>1. s.t = c.t /\ SameList(s.nl, c.nl)
    BY DEF Agrees
  <1>2. Computes(s.nl, s.t) = Computes(c.nl, s.t)
    BY <1>1 DEF SameList, Computes
  <1>3. Collective(job, s.nl, s.t) = Collective(job, c.nl, s.t)
    BY <1>1, ListCollective, SMTT(30)
  <1>4. ASSUME NEW vote
        PROVE  Verdict(job, s.nl, s.t, vote) = Verdict(job, c.nl, s.t, vote)
    BY <1>1, ListVerdict, SMTT(30)
  <1>5. ASSUME NEW vote
        PROVE  SameList(needsUpdating(job, s.nl, s.t, vote), needsUpdating(job, c.nl, s.t, vote))
    BY <1>1, ListMethods
  <1>6. QED
    BY <1>1, <1>2, <1>3, <1>4, <1>5

\* So does the request itself, unless it needs the votes.
LEMMA AskFollows ==
  ASSUME NEW s, NEW c, Ready(s, c), NEW r
  PROVE  Arrives(Asked(s, r), r, Asking(job, c))
PROOF
  <1>1. s.force = c.force /\ Agrees(s, c)
    BY DEF Ready, Agrees
  <1>2. /\ Collective(job, s.nl, s.t) = Collective(job, c.nl, c.t)
        /\ Verdict(job, s.nl, s.t, FALSE) = Verdict(job, c.nl, c.t, FALSE)
        /\ SameList(needsUpdating(job, s.nl, s.t, FALSE), needsUpdating(job, c.nl, c.t, FALSE))
    BY <1>1, SameAnswers
  <1>3. CASE s.force
    <2>1. Asked(s, r) = Requested(s, r, FALSE) /\ Asking(job, c) = Deciding(job, c, FALSE)
      BY <1>1, <1>3 DEF Asked, Asking
    <2>2. QED
      BY <2>1, RequestFollows
  <1>4. CASE ~s.force /\ Collective(job, s.nl, s.t)
    <2> DEFINE u == [s EXCEPT !.pc = "peek"]
               v == [c EXCEPT !.pc = "peek"]
    <2>1. Asked(s, r) = u /\ Asking(job, c) = v
      BY <1>1, <1>2, <1>4 DEF Asked, Asking
    <2>2. Agrees(u, v) /\ u.out = <<>> /\ u.pc = "peek" /\ v.pc = "peek" /\ v.ret = c.ret
      BY DEF Ready, Agrees, RankFields, ControlFields
    <2> HIDE DEF u, v
    <2>3. "peek" \notin Waits /\ "peek" \in Votes
      BY DEF Waits, Votes
    <2>4. Arrives(u, r, v)
      BY <2>2, <2>3 DEF Arrives, Posts, IsControl, Ready
    <2>5. QED
      BY <2>1, <2>4
  <1>5. CASE ~s.force /\ ~Collective(job, s.nl, s.t)
    <2> DEFINE u == [s EXCEPT !.nl = needsUpdating(job, s.nl, s.t, FALSE)]
               v == [c EXCEPT !.nl = needsUpdating(job, c.nl, c.t, FALSE)]
               yes == Verdict(job, s.nl, s.t, FALSE)
    <2>1. Asked(s, r) = Requested(u, r, yes)
      BY <1>5 DEF Asked
    <2>2. Asking(job, c) = Deciding(job, v, yes)
      BY <1>1, <1>2, <1>5 DEF Asking
    <2>3. Ready(u, v)
      BY <1>2 DEF Ready, Agrees, RankFields, ControlFields
    <2> HIDE DEF u, v, yes
    <2>4. QED
      BY <2>1, <2>2, <2>3, RequestFollows
  <1>6. QED
    BY <1>3, <1>4, <1>5

\* So does the update of the ghosts.
LEMMA UpdateFollows ==
  ASSUME NEW s, NEW c, Ready(s, c), NEW r, NEW dir \in 0..4
  PROVE  Arrives(updateGhosts(s, r, dir), r, Refreshing(job, c, dir))
PROOF
  <1> DEFINE d == NextDir(job, dir)
  <1>1. CASE d = 4
    <2>1. updateGhosts(s, r, dir) = Asked(s, r) /\ Refreshing(job, c, dir) = Asking(job, c)
      BY <1>1, ZenonT(60) DEF updateGhosts, Refreshing
    <2>2. QED
      BY <2>1, AskFollows
  <1>2. CASE d # 4
    <2>1. PICK m : m.kind = "update" /\ m.dir = d /\ updateGhosts(s, r, dir) = Send(s, r, d, m)
      BY <1>2, ZenonT(60) DEF updateGhosts
    <2>2. d \in Dirs /\ isCommunicating(job, d)
      BY <1>2, NextDirection
    <2>3. Refreshing(job, c, dir) = [c EXCEPT !.pc = "update", !.dir = d]
      BY <1>2, Zenon DEF Refreshing
    <2> HIDE DEF d
    <2>4. "update" \in Waits
      BY DEF Waits
    <2>5. Arrives(Send(s, r, d, m), r, [c EXCEPT !.pc = "update", !.dir = d])
      BY <2>1, <2>2, <2>4, Sending
    <2>6. QED
      BY <2>1, <2>3, <2>5
  <1>3. QED
    BY <1>1, <1>2

\* So does communicate() as a whole.
LEMMA CommunicateFollows ==
  ASSUME NEW s, NEW c, Agrees(s, c), s.out = <<>>, NEW r, NEW ret \in Calls
  PROVE  Arrives(communicate(s, r, ret), r, Communicating(job, c, ret))
PROOF
  <1> DEFINE u == [s EXCEPT !.communicating = TRUE, !.ret = ret]
             v == [c EXCEPT !.communicating = TRUE, !.ret = ret]
             b == ~s.force /\ s.hasGhosts
  <1>1. Ready(u, v)
    BY DEF Ready, Agrees, RankFields, ControlFields
  <1>2. b = (~c.force /\ c.hasGhosts)
    BY DEF Agrees
  <1>3. /\ communicate(s, r, ret) = IF b THEN updateGhosts(u, r, 0) ELSE Asked(u, r)
        /\ Communicating(job, c, ret) = IF b THEN Refreshing(job, v, 0) ELSE Asking(job, v)
    BY <1>2, Zenon DEF communicate, Communicating
  <1>4. 0 \in 0..4
    BY SMTT(30)
  <1> HIDE DEF u, v, b
  <1>5. /\ Arrives(updateGhosts(u, r, 0), r, Refreshing(job, v, 0))
        /\ Arrives(Asked(u, r), r, Asking(job, v))
    BY <1>1, <1>4, UpdateFollows, AskFollows
  <1>6. QED
    BY <1>3, <1>5

-----------------------------------------------------------------------------
(* The schedule of a run. *)

\* The point that follows c, unless the votes of all the ranks are needed.
After(g, c) ==
    CASE c.pc = "idle" ->
            LET k == g.runs[c.call + 1]
                b == [c EXCEPT !.call = @ + 1, !.left = k.steps,
                               !.nl = IF @.rbuff = k.rbuff THEN @ ELSE setRBuff(@, k.rbuff)]
            IN  Communicating(g, forceMigrate(b), "prepRun")
      [] c.pc = "prepRun" -> Communicating(g, forceMigrate(c), "force")
      [] c.pc = "force" ->
            IF ~Computes(c.nl, c.t) THEN [c EXCEPT !.pc = "forced"]
            ELSE IF Collective(g, c.nl, c.t) THEN [c EXCEPT !.pc = "compute"]
            ELSE [c EXCEPT !.pc = "forced", !.nl = needsUpdating(g, Noted(@, c.t), c.t, FALSE)]
      [] c.pc = "forced" ->
            IF c.left = 0 THEN [c EXCEPT !.pc = "idle"]
            ELSE IF c.t \in g.runs[c.call].sorts THEN Communicating(g, forceMigrate(c), "sort")
            ELSE [c EXCEPT !.pc = "integrate"]
      [] c.pc = "sort" ->
            Communicating(g, notifyParticleSort([c EXCEPT !.hasGhosts = FALSE]), "integrate")
      [] c.pc = "integrate" -> Communicating(g, [c EXCEPT !.t = @ + 1, !.left = @ - 1], "force")
      [] c.pc = "update" -> Refreshing(g, c, c.dir + 1)
      [] c.pc = "migrate" -> Migrating(g, notifyParticleSort(c), c.dir + 1)
      [] c.pc = "exchange" -> Exchanging(g, c, c.dir + 1)

\* The point that follows a vote.
Voted(g, c, vote) ==
    IF c.pc = "peek"
    THEN Deciding(g, [c EXCEPT !.nl = needsUpdating(g, @, c.t, vote)], Verdict(g, c.nl, c.t, vote))
    ELSE [c EXCEPT !.pc = "forced", !.nl = needsUpdating(g, Noted(@, c.t), c.t, vote)]

\* A rank at c can go on without a vote.
Proceeds(g, c) == c.pc \notin Votes /\ (c.pc = "idle" => c.call < Len(g.runs))

\* A rank stops without sending.
LEMMA Stopping ==
  ASSUME NEW s, NEW c, Agrees(s, c), s.out = <<>>, c.ret \in Calls, NEW r,
         c.pc \in Calls \union {"forced"} \union Votes
  PROVE  Arrives(s, r, c)
PROOF
  <1>1. c.pc \notin Waits /\ s.pc = c.pc
    BY DEF Calls, Votes, Waits, Agrees
  <1>2. QED
    BY <1>1 DEF Arrives, Posts, IsControl

\* The rank r leaves point c, as s with what it sends.
Leaving(r, c, s) ==
    /\ Proceeds(job, c) /\ Arrives(s, r, After(job, c))
    /\ rank' = [rank EXCEPT ![r] = Quiet(s)] /\ job' = job
    /\ IF c.pc \in Waits
       THEN /\ Incoming(r) # <<>>
            /\ net' = Posted([net EXCEPT ![<<Source(r), r>>] = Tail(@)], r, s)
       ELSE net' = Posted(net, r, s)

\* An action that does not receive takes rank r from c to the point that follows.
LEMMA Going ==
  ASSUME NEW r, NEW c, NEW s, NEW v, Becomes(r, s), UNCHANGED <<job, world>> \/ UNCHANGED job,
         c.pc \notin Waits, Proceeds(job, c), Arrives(s, r, v), After(job, c) = v
  PROVE  \E u : Leaving(r, c, u)
PROOF
  <1>1. job' = job
    OBVIOUS
  <1>2. Arrives(s, r, After(job, c))
    OBVIOUS
  <1>3. Leaving(r, c, s)
    BY <1>1, <1>2 DEF Leaving, Becomes
  <1>4. QED
    BY <1>3

\* Simulation.run() follows the schedule.
LEMMA RunFollows ==
  ASSUME NEW r, NEW c, Agrees(rank[r], c), rank[r].out = <<>>, IsControl(job, c), Run(r)
  PROVE  \E s : Leaving(r, c, s)
PROOF
  <1> DEFINE k == job.runs[rank[r].call + 1]
             a == [rank[r] EXCEPT !.call = @ + 1, !.left = k.steps,
                                  !.nl = IF @.rbuff = k.rbuff THEN @ ELSE setRBuff(@, k.rbuff)]
             b == [c EXCEPT !.call = @ + 1, !.left = k.steps,
                            !.nl = IF @.rbuff = k.rbuff THEN @ ELSE setRBuff(@, k.rbuff)]
             u == communicate(forceMigrate(a), r, "prepRun")
             v == Communicating(job, forceMigrate(b), "prepRun")
  <1>1. /\ rank[r].pc = "idle" /\ rank[r].call < Len(job.runs)
        /\ Becomes(r, u) /\ UNCHANGED <<job, world>>
    BY DEF Run
  <1>2. rank[r].pc = c.pc /\ rank[r].call = c.call /\ SameList(rank[r].nl, c.nl)
    BY DEF Agrees
  <1>3. rank[r].nl.rbuff = c.nl.rbuff
    BY <1>2 DEF SameList
  <1>4. \A rbuff : SameList(setRBuff(rank[r].nl, rbuff), setRBuff(c.nl, rbuff))
    BY <1>2, ListMethods
  <1>5. Agrees(a, b) /\ a.out = <<>>
    <2>1. SameList(IF rank[r].nl.rbuff = k.rbuff THEN rank[r].nl ELSE setRBuff(rank[r].nl, k.rbuff),
                   IF c.nl.rbuff = k.rbuff THEN c.nl ELSE setRBuff(c.nl, k.rbuff))
      BY <1>2, <1>3, <1>4
    <2> HIDE DEF k
    <2>2. QED
      BY <2>1 DEF Agrees, RankFields, ControlFields
  <1>6. After(job, c) = v
    BY <1>1, <1>2, ZenonT(60) DEF After
  <1> HIDE DEF a, b
  <1>7. Agrees(forceMigrate(a), forceMigrate(b)) /\ forceMigrate(a).out = <<>>
    BY <1>5, SmallMethods
  <1>8. "prepRun" \in Calls
    BY DEF Calls
  <1>9. Arrives(u, r, v)
    BY <1>7, <1>8, CommunicateFollows
  <1>10. c.pc \notin Waits /\ Proceeds(job, c)
    BY <1>1, <1>2 DEF Waits, Votes, Proceeds
  <1> HIDE DEF u, v
  <1>11. QED
    BY <1>1, <1>6, <1>9, <1>10, Going

\* So does prepRun().
LEMMA PrepRunFollows ==
  ASSUME NEW r, NEW c, Agrees(rank[r], c), rank[r].out = <<>>, IsControl(job, c), PrepRun(r)
  PROVE  \E s : Leaving(r, c, s)
PROOF
  <1> DEFINE u == communicate(forceMigrate(rank[r]), r, "force")
             v == Communicating(job, forceMigrate(c), "force")
  <1>1. c.pc = "prepRun" /\ Becomes(r, u) /\ UNCHANGED <<job, world>>
    BY DEF PrepRun, Agrees
  <1>2. Agrees(forceMigrate(rank[r]), forceMigrate(c)) /\ forceMigrate(rank[r]).out = <<>>
    BY SmallMethods
  <1>3. "force" \in Calls
    BY DEF Calls
  <1>4. Arrives(u, r, v)
    BY <1>2, <1>3, CommunicateFollows
  <1>5. After(job, c) = v
    BY <1>1, ZenonT(60) DEF After
  <1>6. c.pc \notin Waits /\ Proceeds(job, c)
    BY <1>1 DEF Waits, Votes, Proceeds
  <1> HIDE DEF u, v
  <1>7. QED
    BY <1>1, <1>4, <1>5, <1>6, Going

\* So does the computation of the forces, up to the vote of the distance check.
LEMMA ForceFollows ==
  ASSUME NEW r, NEW c, Agrees(rank[r], c), rank[r].out = <<>>, IsControl(job, c), ComputeNetForce(r)
  PROVE  \E s : Leaving(r, c, s)
PROOF
  <1> DEFINE s == rank[r]
             built == Built(job, s.nl, s.t, FALSE, Len(s.local), Particles(s))
             noted == needsUpdating(job, Noted(c.nl, c.t), c.t, FALSE)
             u == IF ~Computes(s.nl, s.t) THEN [s EXCEPT !.pc = "forced"]
                  ELSE IF Collective(job, s.nl, s.t) THEN [s EXCEPT !.pc = "compute"]
                  ELSE [s EXCEPT !.pc = "forced", !.nl = built]
             v == IF ~Computes(c.nl, c.t) THEN [c EXCEPT !.pc = "forced"]
                  ELSE IF Collective(job, c.nl, c.t) THEN [c EXCEPT !.pc = "compute"]
                  ELSE [c EXCEPT !.pc = "forced", !.nl = noted]
  <1>1. c.pc = "force" /\ Becomes(r, u) /\ UNCHANGED <<job, world>>
    BY ZenonT(60) DEF ComputeNetForce, Agrees
  <1>2. s.t = c.t /\ SameList(s.nl, c.nl) /\ c.ret \in Calls
    BY DEF Agrees, IsControl
  <1>3. Computes(s.nl, s.t) = Computes(c.nl, c.t)
    BY SameAnswers
  <1>4. Collective(job, s.nl, s.t) = Collective(job, c.nl, c.t)
    BY SameAnswers
  <1>5. SameList(built, noted)
    BY <1>2, ListBuilt
  <1> HIDE DEF built, noted
  <1>6. Agrees(u, v) /\ u.out = <<>> /\ v.pc \in {"forced", "compute"} /\ v.ret = c.ret
    <2>1. CASE ~Computes(s.nl, s.t)
      BY <2>1, <1>3 DEF Agrees, RankFields, ControlFields
    <2>2. CASE Computes(s.nl, s.t) /\ Collective(job, s.nl, s.t)
      BY <2>2, <1>3, <1>4 DEF Agrees, RankFields, ControlFields
    <2>3. CASE Computes(s.nl, s.t) /\ ~Collective(job, s.nl, s.t)
      BY <2>3, <1>3, <1>4, <1>5 DEF Agrees, RankFields, ControlFields
    <2>4. QED
      BY <2>1, <2>2, <2>3
  <1>7. After(job, c) = v
    BY <1>1, ZenonT(60) DEF After, noted
  <1>8. c.pc \notin Waits /\ Proceeds(job, c)
    BY <1>1 DEF Waits, Votes, Proceeds
  <1> HIDE DEF u, v
  <1>9. Arrives(u, r, v)
    BY <1>2, <1>6, Stopping DEF Votes
  <1>10. QED
    BY <1>1, <1>7, <1>8, <1>9, Going

\* So does the run loop.
LEMMA LoopFollows ==
  ASSUME NEW r, NEW c, Agrees(rank[r], c), rank[r].out = <<>>, IsControl(job, c), Loop(r)
  PROVE  \E s : Leaving(r, c, s)
PROOF
  <1> DEFINE s == rank[r]
             u == IF s.left = 0 THEN [s EXCEPT !.pc = "idle"]
                  ELSE IF s.t \in job.runs[s.call].sorts
                  THEN communicate(forceMigrate(s), r, "sort")
                  ELSE [s EXCEPT !.pc = "integrate"]
             v == IF c.left = 0 THEN [c EXCEPT !.pc = "idle"]
                  ELSE IF c.t \in job.runs[c.call].sorts
                  THEN Communicating(job, forceMigrate(c), "sort")
                  ELSE [c EXCEPT !.pc = "integrate"]
  <1>1. c.pc = "forced" /\ Becomes(r, u) /\ UNCHANGED <<job, world>>
    BY DEF Loop, Agrees
  <1>2. s.left = c.left /\ s.t = c.t /\ s.call = c.call /\ c.ret \in Calls
    BY DEF Agrees, IsControl
  <1>3. Arrives(communicate(forceMigrate(s), r, "sort"), r, Communicating(job, forceMigrate(c), "sort"))
    <2>1. Agrees(forceMigrate(s), forceMigrate(c)) /\ forceMigrate(s).out = <<>>
      BY SmallMethods
    <2>2. "sort" \in Calls
      BY DEF Calls
    <2>3. QED
      BY <2>1, <2>2, CommunicateFollows
  <1>4. ASSUME NEW pc \in {"idle", "integrate"}
        PROVE  Arrives([s EXCEPT !.pc = pc], r, [c EXCEPT !.pc = pc])
    <2> DEFINE a == [s EXCEPT !.pc = pc]
               b == [c EXCEPT !.pc = pc]
    <2>1. Agrees(a, b) /\ a.out = <<>> /\ b.pc = pc /\ b.ret = c.ret
      BY DEF Agrees, RankFields, ControlFields
    <2> HIDE DEF a, b
    <2>2. b.pc \in Calls
      BY <2>1 DEF Calls
    <2>3. Arrives(a, r, b)
      BY <1>2, <2>1, <2>2, Stopping
    <2>4. QED
      BY <2>3 DEF a, b
  <1>5. After(job, c) = v
    BY <1>1, ZenonT(60) DEF After
  <1>6. Arrives(u, r, v)
    BY <1>2, <1>3, <1>4
  <1>7. c.pc \notin Waits /\ Proceeds(job, c)
    BY <1>1 DEF Waits, Votes, Proceeds
  <1> HIDE DEF u, v
  <1>8. QED
    BY <1>1, <1>5, <1>6, <1>7, Going

\* So does the particle sorter, whatever the order it chooses.
LEMMA SortFollows ==
  ASSUME NEW r, NEW c, Agrees(rank[r], c), rank[r].out = <<>>, IsControl(job, c), Sort(r)
  PROVE  \E s : Leaving(r, c, s)
PROOF
  <1> DEFINE s == removeAllGhostParticles(rank[r])
             b == [c EXCEPT !.hasGhosts = FALSE]
             v == Communicating(job, notifyParticleSort(b), "integrate")
  <1>1. Agrees(s, b) /\ s.out = <<>> /\ b.pc = c.pc
    <2>1. Agrees(s, b) /\ s.out = rank[r].out
      BY SmallMethods
    <2>2. b.pc = c.pc
      BY DEF Agrees, ControlFields
    <2>3. QED
      BY <2>1, <2>2
  <1>2. PICK local : /\ s.pc = "sort" /\ UNCHANGED <<job, world>>
                     /\ Becomes(r, communicate(WithLocal(s, local), r, "integrate"))
    BY ZenonT(60) DEF Sort
  <1>3. c.pc = "sort"
    BY <1>1, <1>2 DEF Agrees
  <1> DEFINE u == communicate(WithLocal(s, local), r, "integrate")
  <1>4. After(job, c) = v
    BY <1>3, ZenonT(60) DEF After
  <1> HIDE DEF s, b
  <1>5. Agrees(WithLocal(s, local), notifyParticleSort(b)) /\ WithLocal(s, local).out = <<>>
    <2>1. Agrees(WithLocal(s, local), notifyParticleSort(b)) /\ WithLocal(s, local).out = s.out
      BY <1>1, SmallMethods, ZenonT(60)
    <2>2. QED
      BY <1>1, <2>1, Zenon
  <1>6. "integrate" \in Calls
    BY DEF Calls
  <1>7. Arrives(u, r, v)
    BY <1>5, <1>6, CommunicateFollows
  <1>8. c.pc \notin Waits /\ Proceeds(job, c)
    BY <1>3 DEF Waits, Votes, Proceeds
  <1> HIDE DEF v
  <1>9. QED
    BY <1>2, <1>4, <1>7, <1>8, Going

\* So does the integration, wherever the particles move.
LEMMA IntegrateFollows ==
  ASSUME NEW r, NEW c, Agrees(rank[r], c), rank[r].out = <<>>, IsControl(job, c), Update(r)
  PROVE  \E s : Leaving(r, c, s)
PROOF
  <1> DEFINE a(local) == [rank[r] EXCEPT !.local = local, !.t = @ + 1, !.left = @ - 1]
             b == [c EXCEPT !.t = @ + 1, !.left = @ - 1]
             v == Communicating(job, b, "force")
  <1>1. PICK local : /\ rank[r].pc = "integrate" /\ UNCHANGED job
                     /\ Becomes(r, communicate(a(local), r, "force"))
    BY Zenon DEF Update
  <1>2. c.pc = "integrate"
    BY <1>1 DEF Agrees
  <1>3. Agrees(a(local), b) /\ a(local).out = <<>>
    BY DEF Agrees, RankFields, ControlFields
  <1>4. After(job, c) = v
    BY <1>2, Zenon DEF After
  <1>5. "force" \in Calls
    BY DEF Calls
  <1> HIDE DEF a, b
  <1>6. Arrives(communicate(a(local), r, "force"), r, v)
    BY <1>3, <1>5, CommunicateFollows
  <1>7. c.pc \notin Waits /\ Proceeds(job, c)
    BY <1>2 DEF Waits, Votes, Proceeds
  <1> HIDE DEF v
  <1>8. QED
    BY <1>1, <1>4, <1>6, <1>7, Going

\* The three actions that end a wait.
LEMMA Received ==
  ASSUME NEW r, NEW c, Agrees(rank[r], c), IsControl(job, c), NEW kind \in Waits, NEW s,
         Receive(r, kind, s),
         c.pc = kind => Arrives(s, r, After(job, c))
  PROVE  Leaving(r, c, s)
PROOF
  <1>1. c.pc = kind /\ job' = job
    BY DEF Agrees, Receive
  <1>2. Proceeds(job, c)
    BY <1>1 DEF Proceeds, Waits, Votes
  <1>3. QED
    BY <1>1, <1>2 DEF Leaving, Receive

\* So does a rank after an MPI_Waitall, whatever the message brings.
LEMMA ReceiveFollows ==
  ASSUME NEW r, NEW c, Agrees(rank[r], c), rank[r].out = <<>>, IsControl(job, c),
         ReceiveUpdate(r) \/ ReceiveParticles(r) \/ ReceiveGhosts(r)
  PROVE  \E s : Leaving(r, c, s)
PROOF
  <1> DEFINE s == rank[r]
             body == Head(Incoming(r)).body
  <1>1. s.dir = c.dir /\ c.ret \in Calls /\ c.pc = s.pc
    BY DEF Agrees, IsControl
  <1>2. c.pc \in Waits => c.dir + 1 \in 0..4
    BY SMTT(30) DEF IsControl, Dirs
  <1>3. CASE ReceiveUpdate(r)
    <2> DEFINE u == UpdateReceived(s, r, body)
    <2>1. Ready(u, c)
      <3>1. PICK x : u = [s EXCEPT !.ghosts = x]
        BY Zenon DEF UpdateReceived
      <3>2. Ready(s, c)
        BY <1>1, Zenon DEF Ready
      <3> HIDE DEF u, s
      <3>3. Ready([s EXCEPT !.ghosts = x], c)
        BY <3>2, GhostsRefreshed, Zenon
      <3>4. QED
        BY <3>1, <3>3, Zenon
    <2>2. "update" \in Waits
      BY DEF Waits
    <2> HIDE DEF u
    <2>3. c.pc = "update" => Arrives(updateGhosts(u, r, c.dir + 1), r, After(job, c))
      <3>1. HAVE c.pc = "update"
      <3>2. After(job, c) = Refreshing(job, c, c.dir + 1)
        BY <3>1, Zenon DEF After
      <3>3. QED
        BY <3>1, <3>2, <2>1, <2>2, <1>2, UpdateFollows
    <2>4. Receive(r, "update", updateGhosts(u, r, c.dir + 1))
      BY <1>1, <1>3, Zenon DEF ReceiveUpdate, u
    <2>5. Leaving(r, c, updateGhosts(u, r, c.dir + 1))
      BY <2>2, <2>3, <2>4, Received
    <2>6. QED
      BY <2>5
  <1>4. CASE ReceiveParticles(r)
    <2> DEFINE u == ParticlesReceived(s, r, body)
               v == notifyParticleSort(c)
    <2>1. Ready(u, v)
      <3>1. PICK x : u = WithLocal(s, x)
        BY Zenon DEF ParticlesReceived
      <3>2. Agrees(WithLocal(s, x), v) /\ WithLocal(s, x).out = <<>>
        BY SmallMethods
      <3>3. v.ret = c.ret
        BY DEF Agrees, notifyParticleSort, forceMigrate, ControlFields
      <3>4. QED
        BY <3>1, <3>2, <3>3, <1>1 DEF Ready
    <2>2. "migrate" \in Waits
      BY DEF Waits
    <2>3. c.pc = "migrate" => After(job, c) = Migrating(job, v, c.dir + 1)
      BY ZenonT(60) DEF After
    <2> HIDE DEF u, v
    <2>4. c.pc = "migrate" => Arrives(migrateParticles(u, r, c.dir + 1), r, After(job, c))
      BY <2>1, <2>2, <2>3, <1>2, MigrateFollows
    <2>5. Receive(r, "migrate", migrateParticles(u, r, c.dir + 1))
      BY <1>1, <1>4, ZenonT(60) DEF ReceiveParticles, u
    <2>6. Leaving(r, c, migrateParticles(u, r, c.dir + 1))
      BY <2>2, <2>4, <2>5, Received
    <2>7. QED
      BY <2>6
  <1>5. CASE ReceiveGhosts(r)
    <2> DEFINE u == GhostsReceived(s, r, body)
    <2>1. Ready(u, c)
      <3>1. PICK x, y, z : u = WithGhosts(s, x, y, z)
        BY Zenon DEF GhostsReceived, WithGhosts
      <3>2. Ready(s, c)
        BY <1>1, Zenon DEF Ready
      <3> HIDE DEF u, s
      <3>3. Ready(WithGhosts(s, x, y, z), c)
        BY <3>2, GhostsRead, Zenon
      <3>4. QED
        BY <3>1, <3>3, Zenon
    <2>2. "exchange" \in Waits
      BY DEF Waits
    <2>3. c.pc = "exchange" => After(job, c) = Exchanging(job, c, c.dir + 1)
      BY ZenonT(60) DEF After
    <2> HIDE DEF u
    <2>4. c.pc = "exchange" => Arrives(exchangeGhosts(u, r, c.dir + 1), r, After(job, c))
      BY <2>1, <2>2, <2>3, <1>2, ExchangeFollows
    <2>5. Receive(r, "exchange", exchangeGhosts(u, r, c.dir + 1))
      BY <1>1, <1>5, Zenon DEF ReceiveGhosts, u
    <2>6. Leaving(r, c, exchangeGhosts(u, r, c.dir + 1))
      BY <2>2, <2>4, <2>5, Received
    <2>7. QED
      BY <2>6
  <1>6. QED
    BY <1>3, <1>4, <1>5

\* A step of one rank is the next one of the schedule.
LEMMA ActFollows ==
  ASSUME NEW r, NEW c, Agrees(rank[r], c), rank[r].out = <<>>, IsControl(job, c), Act(r)
  PROVE  \E s : Leaving(r, c, s)
PROOF
  BY RunFollows, PrepRunFollows, ForceFollows, LoopFollows, SortFollows, IntegrateFollows,
     ReceiveFollows DEF Act

-----------------------------------------------------------------------------
(***************************************************************************)
(* The messages under way.  In a schedule tr, a rank q at point hi has     *)
(* sent to p for every point up to hi where the neighbor of q is p, and p  *)
(* at point lo has taken those before lo.                                  *)
(***************************************************************************)
Sends(g, c, q, p) == c.pc \in Waits /\ getNeighborRank(g, q, c.dir) = p

For(m, c) == m.kind = c.pc /\ m.dir = c.dir

\* The points at[1], at[2], ... from lo to hi are those where q sends to p, in order,
\* and queue has a message for each.
Lists(g, queue, tr, lo, hi, q, p, at) ==
    /\ at \in [1..Len(queue) -> Int]
    /\ \A k \in 1..Len(queue) :
         at[k] \in lo..hi /\ Sends(g, tr[at[k]], q, p) /\ For(queue[k], tr[at[k]])
    /\ \A k \in 1..Len(queue) : \A l \in 1..Len(queue) : k < l => at[k] < at[l]
    /\ \A i \in lo..hi : Sends(g, tr[i], q, p) => \E k \in 1..Len(queue) : at[k] = i

Carries(g, queue, tr, lo, hi, q, p) ==
    /\ \A i \in (hi + 1)..(lo - 1) : ~Sends(g, tr[i], q, p)
    /\ \E S : queue \in Seq(S)
    /\ \E at : Lists(g, queue, tr, lo, hi, q, p, at)

\* The receiver takes the message of the point where it waits.
LEMMA CarriesTail ==
  ASSUME NEW g, NEW queue, NEW tr, NEW lo \in Int, NEW hi \in Int, NEW q, NEW p,
         Carries(g, queue, tr, lo, hi, q, p), Sends(g, tr[lo], q, p), queue # <<>>
  PROVE  For(Head(queue), tr[lo]) /\ Carries(g, Tail(queue), tr, lo + 1, hi, q, p)
PROOF
  <1>1. PICK S : queue \in Seq(S)
    BY DEF Carries
  <1>2. PICK at : Lists(g, queue, tr, lo, hi, q, p, at)
    BY DEF Carries
  <1> DEFINE n == Len(queue)
             u == Tail(queue)
             at1 == [k \in 1..(n - 1) |-> at[k + 1]]
  <1>3. n \in Nat /\ n >= 1 /\ Head(queue) = queue[1]
    BY <1>1, SMTT(30)
  <1>4. u \in Seq(S) /\ Len(u) = n - 1 /\ \A k \in 1..(n - 1) : u[k] = queue[k + 1]
    BY <1>1, <1>3, SMTT(30)
  <1> HIDE DEF n, u
  <1>5. /\ \A k \in 1..n : at[k] \in lo..hi /\ Sends(g, tr[at[k]], q, p) /\ For(queue[k], tr[at[k]])
        /\ \A k \in 1..n : \A l \in 1..n : k < l => at[k] < at[l]
        /\ \A i \in lo..hi : Sends(g, tr[i], q, p) => \E k \in 1..n : at[k] = i
    BY <1>2 DEF Lists, n
  <1>6. lo <= hi /\ at[1] = lo
    <2>1. 1 \in 1..n /\ at[1] \in lo..hi
      BY <1>3, <1>5, SMTT(30)
    <2>2. lo \in lo..hi
      BY <2>1, SMTT(30)
    <2>3. PICK k \in 1..n : at[k] = lo
      BY <2>2, <1>5
    <2>4. 1 < k => at[1] < at[k]
      BY <2>1, <1>5
    <2>5. QED
      BY <2>1, <2>2, <2>3, <2>4, SMTT(30)
  <1>7. For(Head(queue), tr[lo])
    <2>1. 1 \in 1..n
      BY <1>3, SMTT(30)
    <2>2. QED
      BY <2>1, <1>3, <1>5, <1>6
  <1>8. Lists(g, u, tr, lo + 1, hi, q, p, at1)
    <2>1. \A k \in 1..(n - 1) : k + 1 \in 1..n /\ at1[k] = at[k + 1] /\ 1 < k + 1
      BY <1>3, SMTT(30)
    <2>2. \A k \in 1..(n - 1) : at1[k] \in (lo + 1)..hi
      BY <2>1, <1>3, <1>5, <1>6, SMTT(30)
    <2>3. \A k \in 1..(n - 1) : Sends(g, tr[at1[k]], q, p) /\ For(u[k], tr[at1[k]])
      BY <2>1, <1>4, <1>5
    <2>4. ASSUME NEW k \in 1..(n - 1), NEW l \in 1..(n - 1), k < l
          PROVE  at1[k] < at1[l]
      <3>1. k + 1 \in 1..n /\ l + 1 \in 1..n /\ k + 1 < l + 1
        BY <2>4, <1>3, SMTT(30)
      <3>2. at[k + 1] < at[l + 1]
        BY <3>1, <1>5
      <3>3. QED
        BY <3>2, <2>1
    <2>5. ASSUME NEW i \in (lo + 1)..hi, Sends(g, tr[i], q, p)
          PROVE  \E k \in 1..(n - 1) : at1[k] = i
      <3>1. i \in lo..hi /\ i # lo
        BY SMTT(30)
      <3>2. PICK k \in 1..n : at[k] = i
        BY <3>1, <2>5, <1>5
      <3>3. k # 1
        BY <3>1, <3>2, <1>6
      <3>4. k - 1 \in 1..(n - 1) /\ (k - 1) + 1 = k
        BY <3>3, <1>3, SMTT(30)
      <3>5. at1[k - 1] = i
        BY <3>2, <3>4, <2>1
      <3>6. QED
        BY <3>4, <3>5
    <2>6. at1 \in [1..(n - 1) -> Int]
      <3>1. \A k \in 1..(n - 1) : at[k + 1] \in Int
        BY <2>1, <2>2, SMTT(30)
      <3>2. QED
        BY <3>1
    <2> HIDE DEF at1
    <2>7. QED
      BY <2>2, <2>3, <2>4, <2>5, <2>6, <1>4 DEF Lists
  <1>9. \A i \in (hi + 1)..(lo + 1 - 1) : ~Sends(g, tr[i], q, p)
    BY <1>6, SMTT(30)
  <1>10. Carries(g, u, tr, lo + 1, hi, q, p)
    BY <1>4, <1>8, <1>9, SMTT(30) DEF Carries
  <1>11. QED
    BY <1>7, <1>10 DEF u

\* The receiver goes on from a point where the sender sends it nothing.
LEMMA CarriesPast ==
  ASSUME NEW g, NEW queue, NEW tr, NEW lo \in Int, NEW hi \in Int, NEW q, NEW p,
         Carries(g, queue, tr, lo, hi, q, p), ~Sends(g, tr[lo], q, p)
  PROVE  Carries(g, queue, tr, lo + 1, hi, q, p)
PROOF
  <1>1. PICK at : Lists(g, queue, tr, lo, hi, q, p, at)
    BY DEF Carries
  <1>2. \A k \in 1..Len(queue) : at[k] \in (lo + 1)..hi
    <2>1. \A k \in 1..Len(queue) : at[k] # lo /\ at[k] \in lo..hi
      BY <1>1 DEF Lists
    <2>2. QED
      BY <2>1, SMTT(30)
  <1>3. \A i \in (lo + 1)..hi : i \in lo..hi
    BY SMTT(30)
  <1>4. Lists(g, queue, tr, lo + 1, hi, q, p, at)
    BY <1>1, <1>2, <1>3 DEF Lists
  <1>5. \A i \in (hi + 1)..(lo + 1 - 1) : ~Sends(g, tr[i], q, p)
    <2>1. \A i \in (hi + 1)..(lo + 1 - 1) : i = lo \/ i \in (hi + 1)..(lo - 1)
      BY SMTT(30)
    <2>2. QED
      BY <2>1 DEF Carries
  <1>6. QED
    BY <1>4, <1>5, SMTT(30) DEF Carries

\* The sender comes to a point where it sends.
LEMMA CarriesMore ==
  ASSUME NEW g, NEW queue, NEW tr, NEW lo \in Int, NEW hi \in Int, NEW q, NEW p, NEW m,
         Carries(g, queue, tr, lo, hi, q, p), Sends(g, tr[hi + 1], q, p), For(m, tr[hi + 1])
  PROVE  Carries(g, Append(queue, m), tr, lo, hi + 1, q, p)
PROOF
  <1>1. PICK S : queue \in Seq(S)
    BY DEF Carries
  <1>2. PICK at : Lists(g, queue, tr, lo, hi, q, p, at)
    BY DEF Carries
  <1> DEFINE n == Len(queue)
             u == Append(queue, m)
             at1 == [k \in 1..(n + 1) |-> IF k = n + 1 THEN hi + 1 ELSE at[k]]
  <1>3. n \in Nat
    BY <1>1, SMTT(30)
  <1>4. u \in Seq(S \union {m}) /\ Len(u) = n + 1 /\ \A k \in 1..(n + 1) : u[k] = IF k = n + 1 THEN m ELSE queue[k]
    <2>1. queue \in Seq(S \union {m})
      BY <1>1, SMTT(30)
    <2>2. QED
      BY <2>1, SMTT(30)
  <1>5. lo <= hi + 1
    <2>1. SUFFICES ASSUME ~(lo <= hi + 1) PROVE FALSE
      OBVIOUS
    <2>2. hi + 1 \in (hi + 1)..(lo - 1)
      BY <2>1, SMTT(30)
    <2>3. QED
      BY <2>2 DEF Carries
  <1> HIDE DEF n, u
  <1>6. /\ at \in [1..n -> Int]
        /\ \A k \in 1..n : at[k] \in lo..hi /\ Sends(g, tr[at[k]], q, p) /\ For(queue[k], tr[at[k]])
        /\ \A k \in 1..n : \A l \in 1..n : k < l => at[k] < at[l]
        /\ \A i \in lo..hi : Sends(g, tr[i], q, p) => \E k \in 1..n : at[k] = i
    BY <1>2 DEF Lists, n
  <1>7. /\ n + 1 \in 1..(n + 1) /\ at1[n + 1] = hi + 1
        /\ \A k \in 1..(n + 1) : k # n + 1 => k \in 1..n /\ at1[k] = at[k]
    BY <1>3, SMTT(30)
  <1>8. at1 \in [1..(n + 1) -> Int]
    BY <1>6, <1>7, SMTT(30)
  <1> HIDE DEF at1
  <1>9. Lists(g, u, tr, lo, hi + 1, q, p, at1)
    <2>1. \A k \in 1..(n + 1) : at1[k] \in lo..(hi + 1)
      BY <1>3, <1>5, <1>6, <1>7, SMTT(30)
    <2>2. \A k \in 1..(n + 1) : Sends(g, tr[at1[k]], q, p) /\ For(u[k], tr[at1[k]])
      BY <1>4, <1>6, <1>7
    <2>3. ASSUME NEW k \in 1..(n + 1), NEW l \in 1..(n + 1), k < l
          PROVE  at1[k] < at1[l]
      <3>1. k # n + 1
        BY <2>3, <1>3, SMTT(30)
      <3>2. k \in 1..n /\ at1[k] = at[k] /\ at[k] \in lo..hi
        BY <3>1, <1>6, <1>7
      <3>3. CASE l = n + 1
        BY <3>2, <3>3, <1>7, SMTT(30)
      <3>4. CASE l # n + 1
        BY <2>3, <3>2, <3>4, <1>6, <1>7
      <3>5. QED
        BY <3>3, <3>4
    <2>4. ASSUME NEW i \in lo..(hi + 1), Sends(g, tr[i], q, p)
          PROVE  \E k \in 1..(n + 1) : at1[k] = i
      <3>1. CASE i = hi + 1
        BY <3>1, <1>7
      <3>2. CASE i # hi + 1
        <4>1. i \in lo..hi
          BY <3>2, SMTT(30)
        <4>2. PICK k \in 1..n : at[k] = i
          BY <4>1, <2>4, <1>6
        <4>3. k \in 1..(n + 1) /\ k # n + 1
          BY <1>3, SMTT(30)
        <4>4. QED
          BY <4>2, <4>3, <1>7
      <3>3. QED
        BY <3>1, <3>2
    <2>5. QED
      BY <2>1, <2>2, <2>3, <2>4, <1>4, <1>8 DEF Lists
  <1>10. \A i \in (hi + 1 + 1)..(lo - 1) : ~Sends(g, tr[i], q, p)
    BY <1>5, SMTT(30)
  <1>11. Carries(g, u, tr, lo, hi + 1, q, p)
    BY <1>4, <1>9, <1>10 DEF Carries
  <1>12. QED
    BY <1>11 DEF u

\* The sender comes to a point where it sends the receiver nothing.
LEMMA CarriesOn ==
  ASSUME NEW g, NEW queue, NEW tr, NEW lo \in Int, NEW hi \in Int, NEW q, NEW p,
         Carries(g, queue, tr, lo, hi, q, p), ~Sends(g, tr[hi + 1], q, p)
  PROVE  Carries(g, queue, tr, lo, hi + 1, q, p)
PROOF
  <1>1. PICK at : Lists(g, queue, tr, lo, hi, q, p, at)
    BY DEF Carries
  <1>2. /\ \A i \in lo..hi : i \in lo..(hi + 1)
        /\ \A i \in lo..(hi + 1) : i # hi + 1 => i \in lo..hi
        /\ \A i \in (hi + 1 + 1)..(lo - 1) : i \in (hi + 1)..(lo - 1)
    BY SMTT(30)
  <1>3. Lists(g, queue, tr, lo, hi + 1, q, p, at)
    BY <1>1, <1>2 DEF Lists
  <1>4. QED
    BY <1>2, <1>3 DEF Carries

\* Two schedules that agree as far as the ranks have come.
LEMMA CarriesSame ==
  ASSUME NEW g, NEW queue, NEW tr, NEW n \in Nat, NEW lo \in 0..n, NEW hi \in 0..n, NEW q, NEW p,
         Carries(g, queue, tr, lo, hi, q, p), NEW tr1, \A i \in 0..n : tr1[i] = tr[i]
  PROVE  Carries(g, queue, tr1, lo, hi, q, p)
PROOF
  <1>1. PICK at : Lists(g, queue, tr, lo, hi, q, p, at)
    BY DEF Carries
  <1>2. /\ \A i \in lo..hi : i \in 0..n
        /\ \A i \in (hi + 1)..(lo - 1) : i \in 0..n
    BY SMTT(30)
  <1>3. \A i \in lo..hi : tr1[i] = tr[i]
    BY <1>2
  <1>4. Lists(g, queue, tr1, lo, hi, q, p, at)
    BY <1>1, <1>3 DEF Lists
  <1>5. \A i \in (hi + 1)..(lo - 1) : ~Sends(g, tr1[i], q, p)
    BY <1>2 DEF Carries
  <1>6. QED
    BY <1>4, <1>5 DEF Carries

\* What is under way between a receiver at lo and a sender at hi.
LEMMA CarriesWhat ==
  ASSUME NEW g, NEW queue, NEW tr, NEW lo \in Int, NEW hi \in Int, NEW q, NEW p,
         Carries(g, queue, tr, lo, hi, q, p)
  PROVE  /\ lo <= hi /\ Sends(g, tr[lo], q, p) => queue # <<>>
         /\ hi < lo \/ (hi = lo /\ ~Sends(g, tr[lo], q, p)) => queue = <<>>
PROOF
  <1>1. PICK S : queue \in Seq(S)
    BY DEF Carries
  <1>2. PICK at : Lists(g, queue, tr, lo, hi, q, p, at)
    BY DEF Carries
  <1>3. Len(queue) \in Nat /\ (Len(queue) = 0 <=> queue = <<>>)
    BY <1>1, SMTT(30)
  <1>4. ASSUME lo <= hi, Sends(g, tr[lo], q, p)
        PROVE  queue # <<>>
    <2>1. lo \in lo..hi
      BY <1>4, SMTT(30)
    <2>2. PICK k \in 1..Len(queue) : at[k] = lo
      BY <1>2, <1>4, <2>1 DEF Lists
    <2>3. Len(queue) # 0
      BY <1>3, <2>2, SMTT(30)
    <2>4. QED
      BY <1>3, <2>3
  <1>5. ASSUME queue # <<>>
        PROVE  lo <= hi /\ (hi = lo => Sends(g, tr[lo], q, p))
    <2>1. 1 \in 1..Len(queue)
      BY <1>3, <1>5, SMTT(30)
    <2>2. at[1] \in lo..hi /\ Sends(g, tr[at[1]], q, p)
      BY <1>2, <2>1 DEF Lists
    <2>3. lo <= hi /\ (hi = lo => at[1] = lo)
      BY <2>2, SMTT(30)
    <2>4. QED
      BY <2>2, <2>3
  <1>6. hi < lo => ~(lo <= hi)
    BY SMTT(30)
  <1>7. QED
    BY <1>4, <1>5, <1>6

-----------------------------------------------------------------------------
(***************************************************************************)
(* The inductive invariant: since the last vote, or since the start, the   *)
(* ranks have followed one schedule tr, in which rank r is at point at[r]. *)
(* The first n points are those some rank has come to.                     *)
(***************************************************************************)
Schedule(g, tr, n) ==
    /\ \A i \in 0..n : IsControl(g, tr[i])
    /\ \A i \in 0..(n - 1) : Proceeds(g, tr[i]) /\ tr[i + 1] = After(g, tr[i])

InStep(g, ranks, tr, at) ==
    \A r \in Ranks(g) : Agrees(ranks[r], tr[at[r]]) /\ ranks[r].out = <<>>

Channels(g, m, tr, lo, hi) ==
    \A q \in Ranks(g) : \A p \in Ranks(g) : Carries(g, m[<<q, p>>], tr, lo[p], hi[q], q, p)

Together(g, ranks, m) ==
    \E n \in Nat : \E tr : \E at \in [Ranks(g) -> 0..n] :
        Schedule(g, tr, n) /\ InStep(g, ranks, tr, at) /\ Channels(g, m, tr, at, at)

IInv ==
    /\ job \in Jobs /\ DOMAIN rank = All /\ DOMAIN net = All \X All
    /\ Together(job, rank, net)

-----------------------------------------------------------------------------
(* A step of one rank. *)

\* The domains of a job form a grid.
LEMMA JobIsGrid ==
  ASSUME job \in Jobs
  PROVE  job.w \in Nat \ {0} /\ job.h \in Nat \ {0} /\ Len(job.runs) \in Nat
PROOF
  <1>1. /\ job.w \in Nat \ {0} /\ job.h \in Nat \ {0}
        /\ job.runs \in Seq([rbuff : Nat, steps : Nat, sorts : SUBSET Nat])
    BY JobsAssumption, ZenonT(60)
  <1>2. QED
    BY <1>1, SMTT(30)

\* Opposite() is its own inverse.
LEMMA OppositeDirection ==
  ASSUME NEW dir \in Dirs
  PROVE  Opposite(dir) \in Dirs /\ Opposite(Opposite(dir)) = dir
PROOF
  <1>1. dir \in {0, 1, 2, 3}
    BY SMTT(30) DEF Dirs
  <1>2. Opposite(0) = 1 /\ Opposite(1) = 0 /\ Opposite(2) = 3 /\ Opposite(3) = 2
    BY SMTT(30) DEF Opposite, East
  <1>3. 0 \in Dirs /\ 1 \in Dirs /\ 2 \in Dirs /\ 3 \in Dirs
    BY SMTT(30) DEF Dirs
  <1>4. QED
    BY <1>1, <1>2, <1>3

\* Who sends to r at point c: the neighbor r expects a message from.
LEMMA SenderIsSource ==
  ASSUME job \in Jobs, NEW r \in All, NEW c, IsControl(job, c), c.pc \in Waits
  PROVE  LET src == getNeighborRank(job, r, Opposite(c.dir)) IN
         src \in All /\ \A q \in All : Sends(job, c, q, r) <=> q = src
PROOF
  <1> DEFINE src == getNeighborRank(job, r, Opposite(c.dir))
  <1>1. c.dir \in Dirs /\ Opposite(c.dir) \in Dirs /\ Opposite(Opposite(c.dir)) = c.dir
    BY OppositeDirection DEF IsControl
  <1>2. r \in Ranks(job) /\ job.w \in Nat \ {0} /\ job.h \in Nat \ {0}
    BY JobIsGrid DEF All
  <1>3. src \in Ranks(job) /\ getNeighborRank(job, src, c.dir) = r
    <2>1. getNeighborRank(job, src, Opposite(Opposite(c.dir))) = r /\ src \in Ranks(job)
      BY <1>1, <1>2, NeighborsAreMutual
    <2>2. QED
      BY <2>1, <1>1
  <1>4. ASSUME NEW q \in Ranks(job), getNeighborRank(job, q, c.dir) = r
        PROVE  q = src
    <2>1. getNeighborRank(job, getNeighborRank(job, q, c.dir), Opposite(c.dir)) = q
      BY <1>1, <1>2, NeighborsAreMutual
    <2>2. QED
      BY <2>1, <1>4
  <1> HIDE DEF src
  <1>5. src \in All /\ \A q \in All : Sends(job, c, q, r) <=> q = src
    BY <1>3, <1>4 DEF Sends, All
  <1>6. QED
    BY <1>5 DEF src

\* The rank r takes its message, if it waits, and leaves its point.
LEMMA ReceiverMoves ==
  ASSUME job \in Jobs, NEW m, DOMAIN m = All \X All, NEW tr, NEW lo \in [All -> Int],
         NEW hi \in [All -> Int], Channels(job, m, tr, lo, hi), NEW r \in All,
         NEW c, c = tr[lo[r]], IsControl(job, c), NEW m1,
         LET src == getNeighborRank(job, r, Opposite(c.dir)) IN
         IF c.pc \in Waits THEN m[<<src, r>>] # <<>> /\ m1 = [m EXCEPT ![<<src, r>>] = Tail(@)]
         ELSE m1 = m
  PROVE  DOMAIN m1 = All \X All /\ Channels(job, m1, tr, [lo EXCEPT ![r] = @ + 1], hi)
PROOF
  <1> DEFINE src == getNeighborRank(job, r, Opposite(c.dir))
             lo1 == [lo EXCEPT ![r] = @ + 1]
  <1>1. /\ c.pc \in Waits => /\ src \in All /\ \A q \in All : Sends(job, c, q, r) <=> q = src
                             /\ m[<<src, r>>] # <<>> /\ m1 = [m EXCEPT ![<<src, r>>] = Tail(@)]
        /\ c.pc \notin Waits => m1 = m /\ \A q \in All : ~Sends(job, c, q, r)
    <2>1. ASSUME c.pc \in Waits
          PROVE  src \in All /\ \A q \in All : Sends(job, c, q, r) <=> q = src
      BY <2>1, SenderIsSource
    <2>2. c.pc \in Waits => m[<<src, r>>] # <<>> /\ m1 = [m EXCEPT ![<<src, r>>] = Tail(@)]
      OBVIOUS
    <2>3. c.pc \notin Waits => m1 = m /\ \A q \in All : ~Sends(job, c, q, r)
      BY DEF Sends
    <2>4. QED
      BY <2>1, <2>2, <2>3
  <1> HIDE DEF src
  <1>2. DOMAIN m1 = All \X All
    BY <1>1
  <1>3. lo1[r] = lo[r] + 1 /\ \A p \in All : p # r => lo1[p] = lo[p]
    OBVIOUS
  <1> HIDE DEF lo1
  <1>4. ASSUME NEW q \in All, NEW p \in All
        PROVE  Carries(job, m1[<<q, p>>], tr, lo1[p], hi[q], q, p)
    <2>1. Carries(job, m[<<q, p>>], tr, lo[p], hi[q], q, p)
      BY DEF Channels, All
    <2>2. lo[p] \in Int /\ hi[q] \in Int
      OBVIOUS
    <2>3. CASE p # r
      <3>1. m1[<<q, p>>] = m[<<q, p>>]
        <4>1. <<q, p>> # <<src, r>> /\ <<q, p>> \in DOMAIN m
          BY <2>3, SMTT(30)
        <4>2. QED
          BY <4>1, <1>1
      <3>2. QED
        BY <2>1, <2>3, <3>1, <1>3
    <2>4. CASE p = r /\ Sends(job, c, q, r)
      <3>1. c.pc \in Waits /\ q = src /\ m[<<q, r>>] # <<>>
        BY <1>1, <2>4 DEF Sends
      <3>2. m1[<<q, r>>] = Tail(m[<<q, r>>])
        <4>1. <<q, r>> \in DOMAIN m
          BY SMTT(30)
        <4>2. QED
          BY <4>1, <3>1, <1>1
      <3>3. Carries(job, Tail(m[<<q, r>>]), tr, lo[r] + 1, hi[q], q, r)
        BY <2>1, <2>2, <2>4, <3>1, CarriesTail
      <3>4. QED
        BY <2>4, <3>2, <3>3, <1>3
    <2>5. CASE p = r /\ ~Sends(job, c, q, r)
      <3>1. m1[<<q, r>>] = m[<<q, r>>]
        <4>1. CASE c.pc \notin Waits
          BY <4>1, <1>1
        <4>2. CASE c.pc \in Waits
          <5>1. <<q, r>> # <<src, r>> /\ <<q, r>> \in DOMAIN m
            BY <4>2, <2>5, <1>1, SMTT(30)
          <5>2. QED
            BY <5>1, <4>2, <1>1
        <4>3. QED
          BY <4>1, <4>2
      <3>2. Carries(job, m[<<q, r>>], tr, lo[r] + 1, hi[q], q, r)
        BY <2>1, <2>2, <2>5, CarriesPast
      <3>3. QED
        BY <2>5, <3>1, <3>2, <1>3
    <2>6. QED
      BY <2>3, <2>4, <2>5
  <1>5. QED
    BY <1>2, <1>4 DEF Channels, All, lo1

\* The rank r comes to its next point as s and sends the message of this point.
LEMMA SenderMoves ==
  ASSUME NEW m, DOMAIN m = All \X All, NEW tr, NEW lo \in [All -> Int], NEW hi \in [All -> Int],
         Channels(job, m, tr, lo, hi), NEW r \in All, NEW s, NEW c, c = tr[hi[r] + 1],
         Agrees(s, c), Posts(s, r)
  PROVE  /\ DOMAIN Posted(m, r, s) = All \X All
         /\ Channels(job, Posted(m, r, s), tr, lo, [hi EXCEPT ![r] = @ + 1])
PROOF
  <1> DEFINE to == getNeighborRank(job, r, c.dir)
             m1 == Posted(m, r, s)
             hi1 == [hi EXCEPT ![r] = @ + 1]
  <1>1. s.pc = c.pc /\ s.dir = c.dir
    BY DEF Agrees
  <1>2. c.pc \notin Waits => m1 = m
    BY <1>1 DEF Posts, Posted
  <1>3. ASSUME c.pc \in Waits
        PROVE  \E x : For(x, c) /\ m1 = [m EXCEPT ![<<r, to>>] = Append(m[<<r, to>>], x)]
    <2>1. PICK x : x.kind = s.pc /\ x.dir = s.dir /\ s.out = <<[to |-> to, msg |-> x]>>
      BY <1>1, <1>3 DEF Posts
    <2>2. s.out # <<>> /\ s.out[1] = [to |-> to, msg |-> x]
      BY <2>1, SMTT(30)
    <2>3. s.out[1].to = to /\ s.out[1].msg = x
      BY <2>2, SMTT(30)
    <2>4. m1 = [m EXCEPT ![<<r, to>>] = Append(m[<<r, to>>], x)]
      BY <2>2, <2>3 DEF Posted
    <2>5. QED
      BY <2>1, <2>4, <1>1 DEF For
  <1>4. hi1[r] = hi[r] + 1 /\ \A q \in All : q # r => hi1[q] = hi[q]
    OBVIOUS
  <1>5. \A p : Sends(job, c, r, p) <=> c.pc \in Waits /\ p = to
    BY DEF Sends
  <1> HIDE DEF to, m1, hi1
  <1>6. DOMAIN m1 = All \X All
    BY <1>2, <1>3
  <1>7. ASSUME NEW q \in All, NEW p \in All
        PROVE  Carries(job, m1[<<q, p>>], tr, lo[p], hi1[q], q, p)
    <2>1. Carries(job, m[<<q, p>>], tr, lo[p], hi[q], q, p)
      BY DEF Channels, All
    <2>2. lo[p] \in Int /\ hi[q] \in Int /\ <<q, p>> \in DOMAIN m
      BY SMTT(30)
    <2>3. CASE q = r /\ Sends(job, c, r, p)
      <3>1. PICK x : For(x, c) /\ m1 = [m EXCEPT ![<<r, to>>] = Append(m[<<r, to>>], x)]
        BY <1>3, <2>3 DEF Sends
      <3>2. m1[<<q, p>>] = Append(m[<<q, p>>], x)
        BY <3>1, <2>2, <2>3, <1>5
      <3>3. Carries(job, Append(m[<<q, p>>], x), tr, lo[p], hi[q] + 1, q, p)
        BY <3>1, <2>1, <2>2, <2>3, CarriesMore
      <3>4. QED
        BY <3>2, <3>3, <2>3, <1>4
    <2>4. CASE q # r \/ ~Sends(job, c, r, p)
      <3>1. m1[<<q, p>>] = m[<<q, p>>]
        <4>1. CASE c.pc \notin Waits
          BY <4>1, <1>2
        <4>2. CASE c.pc \in Waits
          <5>1. <<q, p>> # <<r, to>>
            BY <4>2, <2>4, <1>5, SMTT(30)
          <5>2. PICK x : m1 = [m EXCEPT ![<<r, to>>] = Append(m[<<r, to>>], x)]
            BY <4>2, <1>3
          <5>3. QED
            BY <5>1, <5>2, <2>2
        <4>3. QED
          BY <4>1, <4>2
      <3>2. CASE q # r
        BY <3>1, <3>2, <2>1, <1>4
      <3>3. CASE q = r
        <4>1. Carries(job, m[<<q, p>>], tr, lo[p], hi[q] + 1, q, p)
          BY <3>3, <2>1, <2>2, <2>4, CarriesOn
        <4>2. QED
          BY <4>1, <3>1, <3>3, <1>4
      <3>4. QED
        BY <3>2, <3>3
    <2>5. QED
      BY <2>3, <2>4
  <1>8. Channels(job, m1, tr, lo, hi1)
    BY <1>7 DEF Channels, All
  <1>9. QED
    BY <1>6, <1>8 DEF m1, hi1

\* The schedule goes on from any of its points where a rank proceeds.
LEMMA ScheduleGoesOn ==
  ASSUME NEW g, NEW tr, NEW n \in Nat, Schedule(g, tr, n), NEW i \in 0..n,
         Proceeds(g, tr[i]), IsControl(g, After(g, tr[i]))
  PROVE  \E n1 \in Nat : \E tr1 :
            /\ n <= n1 /\ i + 1 \in 0..n1
            /\ Schedule(g, tr1, n1) /\ tr1[i + 1] = After(g, tr[i])
            /\ \A j \in 0..n : tr1[j] = tr[j]
PROOF
  <1>1. CASE i < n
    <2>1. i \in 0..(n - 1) /\ i + 1 \in 0..n /\ n <= n
      BY <1>1, SMTT(30)
    <2>2. tr[i + 1] = After(g, tr[i])
      BY <2>1 DEF Schedule
    <2>3. QED
      BY <2>1, <2>2
  <1>2. CASE ~(i < n)
    <2> DEFINE c == After(g, tr[i])
               tr1 == [j \in Nat |-> IF j = n + 1 THEN c ELSE tr[j]]
    <2>1. i = n /\ n + 1 \in Nat /\ n <= n + 1 /\ n + 1 \in 0..(n + 1)
      BY <1>2, SMTT(30)
    <2>2. /\ \A j \in 0..n : j \in Nat /\ j # n + 1
          /\ \A j \in 0..(n + 1) : j = n + 1 \/ j \in 0..n
          /\ \A j \in 0..(n + 1 - 1) : j \in 0..n /\ (j = n \/ (j \in 0..(n - 1) /\ j + 1 \in 0..n))
      BY SMTT(30)
    <2>3. tr1[n + 1] = c /\ \A j \in 0..n : tr1[j] = tr[j]
      BY <2>1, <2>2
    <2> HIDE DEF tr1, c
    <2>4. \A j \in 0..(n + 1) : IsControl(g, tr1[j])
      <3>1. IsControl(g, c)
        BY DEF c
      <3>2. QED
        BY <3>1, <2>2, <2>3 DEF Schedule
    <2>5. ASSUME NEW j \in 0..(n + 1 - 1)
          PROVE  Proceeds(g, tr1[j]) /\ tr1[j + 1] = After(g, tr1[j])
      <3>1. tr1[j] = tr[j]
        BY <2>2, <2>3
      <3>2. CASE j = n
        BY <3>1, <3>2, <2>1, <2>3 DEF c
      <3>3. CASE j # n
        <4>1. j \in 0..(n - 1) /\ j + 1 \in 0..n
          BY <3>3, <2>2
        <4>2. QED
          BY <4>1, <3>1, <2>3 DEF Schedule
      <3>4. QED
        BY <3>2, <3>3
    <2>6. Schedule(g, tr1, n + 1)
      BY <2>4, <2>5, SMTT(30) DEF Schedule
    <2>7. QED
      BY <2>1, <2>3, <2>6 DEF c
  <1>3. QED
    BY <1>1, <1>2

\* Putting the message on the network is not part of the schedule.
LEMMA QuietAgrees ==
  ASSUME NEW s, NEW c, Agrees(s, c)
  PROVE  Agrees(Quiet(s), c) /\ Quiet(s).out = <<>>
PROOF
  BY DEF Quiet, Agrees, RankFields

\* An action of one rank: it takes its message, moves to the next point and sends.
LEMMA ActInv ==
  ASSUME IInv, NEW r \in All, Act(r)
  PROVE  IInv'
PROOF
  <1>1. job \in Jobs /\ DOMAIN rank = All /\ DOMAIN net = All \X All
    BY DEF IInv
  <1>2. PICK n \in Nat : \E tr : \E at \in [Ranks(job) -> 0..n] :
            Schedule(job, tr, n) /\ InStep(job, rank, tr, at) /\ Channels(job, net, tr, at, at)
    BY Zenon DEF IInv, Together
  <1>3. PICK tr : \E at \in [Ranks(job) -> 0..n] :
            Schedule(job, tr, n) /\ InStep(job, rank, tr, at) /\ Channels(job, net, tr, at, at)
    BY <1>2, ZenonT(60)
  <1>4. PICK at \in [Ranks(job) -> 0..n] :
            Schedule(job, tr, n) /\ InStep(job, rank, tr, at) /\ Channels(job, net, tr, at, at)
    BY <1>3, ZenonT(60)
  <1>5. r \in Ranks(job) /\ at[r] \in 0..n
    BY DEF All
  <1> DEFINE i == at[r]
             c == tr[i]
  <1>6. Agrees(rank[r], c) /\ rank[r].out = <<>> /\ IsControl(job, c)
    BY <1>4, <1>5 DEF InStep, Schedule
  <1>7. PICK s : Leaving(r, c, s)
    BY <1>6, ActFollows
  <1>8. Proceeds(job, c) /\ Arrives(s, r, After(job, c)) /\ job' = job
        /\ rank' = [rank EXCEPT ![r] = Quiet(s)]
    BY <1>7 DEF Leaving
  <1>9. PICK n1 \in Nat : \E tr1 :
            /\ n <= n1 /\ i + 1 \in 0..n1
            /\ Schedule(job, tr1, n1) /\ tr1[i + 1] = After(job, c)
            /\ \A j \in 0..n : tr1[j] = tr[j]
    BY <1>4, <1>5, <1>8, ScheduleGoesOn, SMTT(30) DEF Arrives
  <1>10. PICK tr1 : /\ n <= n1 /\ i + 1 \in 0..n1
                    /\ Schedule(job, tr1, n1) /\ tr1[i + 1] = After(job, c)
                    /\ \A j \in 0..n : tr1[j] = tr[j]
    BY <1>9
  <1> DEFINE at1 == [at EXCEPT ![r] = @ + 1]
  <1>11. at1[r] = i + 1 /\ \A q \in All : q # r => at1[q] = at[q]
    BY <1>5 DEF All
  <1>12. at1 \in [Ranks(job) -> 0..n1]
    <2>1. \A j \in 0..n : j \in 0..n1
      BY <1>10, SMTT(30)
    <2>2. QED
      BY <2>1, <1>10
  <1>13. at \in [All -> Int] /\ at[r] + 1 = i + 1
    <2>1. \A j \in 0..n : j \in Int
      BY SMTT(30)
    <2>2. QED
      BY <2>1 DEF All
  <1>14. Channels(job, net, tr1, at, at)
    <2>1. ASSUME NEW q \in Ranks(job), NEW p \in Ranks(job)
          PROVE  Carries(job, net[<<q, p>>], tr1, at[p], at[q], q, p)
      <3>1. Carries(job, net[<<q, p>>], tr, at[p], at[q], q, p) /\ at[p] \in 0..n /\ at[q] \in 0..n
        BY <1>4 DEF Channels
      <3>2. QED
        BY <3>1, <1>10, CarriesSame
    <2>2. QED
      BY <2>1 DEF Channels
  <1>15. c = tr1[at[r]]
    BY <1>5, <1>10
  <1>16. PICK m : /\ net' = Posted(m, r, s)
                  /\ LET src == getNeighborRank(job, r, Opposite(c.dir)) IN
                     IF c.pc \in Waits
                     THEN net[<<src, r>>] # <<>> /\ m = [net EXCEPT ![<<src, r>>] = Tail(@)]
                     ELSE m = net
    <2>1. rank[r].dir = c.dir
      BY <1>6 DEF Agrees
    <2>2. CASE c.pc \in Waits
      <3> DEFINE src == getNeighborRank(job, r, Opposite(c.dir))
      <3>1. Source(r) = src /\ Incoming(r) = net[<<src, r>>]
        BY <2>1 DEF Source, Incoming
      <3> HIDE DEF src, c
      <3>2. /\ net[<<src, r>>] # <<>>
            /\ net' = Posted([net EXCEPT ![<<src, r>>] = Tail(@)], r, s)
        BY <2>2, <3>1, <1>7 DEF Leaving
      <3>3. QED
        BY <2>2, <3>2 DEF src
    <2>3. CASE c.pc \notin Waits
      <3>1. net' = Posted(net, r, s)
        BY <2>3, <1>7 DEF Leaving
      <3>2. QED
        BY <2>3, <3>1
    <2>4. QED
      BY <2>2, <2>3
  <1> HIDE DEF c, i
  <1>17. DOMAIN m = All \X All /\ Channels(job, m, tr1, at1, at)
    BY <1>1, <1>6, <1>13, <1>14, <1>15, <1>16, ReceiverMoves
  <1>18. at1 \in [All -> Int]
    <2>1. \A j \in 0..n1 : j \in Int
      BY SMTT(30)
    <2>2. QED
      BY <2>1, <1>12 DEF All
  <1> HIDE DEF at1
  <1> DEFINE d == After(job, c)
             hi1 == [at EXCEPT ![r] = @ + 1]
  <1>19. DOMAIN net' = All \X All /\ Channels(job, net', tr1, at1, hi1)
    <2>1. d = tr1[at[r] + 1] /\ Agrees(s, d) /\ Posts(s, r)
      BY <1>8, <1>10, <1>13 DEF Arrives
    <2> HIDE DEF d
    <2>2. at \in [All -> Int] /\ DOMAIN m = All \X All /\ Channels(job, m, tr1, at1, at)
      BY <1>13, <1>17
    <2>3. /\ DOMAIN Posted(m, r, s) = All \X All
          /\ Channels(job, Posted(m, r, s), tr1, at1, hi1)
      BY <2>1, <2>2, <1>18, SenderMoves
    <2> HIDE DEF hi1
    <2>4. QED
      BY <2>3, <1>16
  <1>20. InStep(job, rank', tr1, at1)
    <2>1. ASSUME NEW q \in Ranks(job)
          PROVE  Agrees(rank'[q], tr1[at1[q]]) /\ rank'[q].out = <<>>
      <3>1. CASE q = r
        <4>1. rank'[q] = Quiet(s) /\ tr1[at1[q]] = After(job, c)
          BY <3>1, <1>1, <1>8, <1>10, <1>11
        <4>2. QED
          BY <4>1, <1>8, QuietAgrees DEF Arrives
      <3>2. CASE q # r
        <4>1. rank'[q] = rank[q] /\ tr1[at1[q]] = tr[at[q]]
          <5>1. at1[q] = at[q] /\ at[q] \in 0..n
            BY <3>2, <1>11 DEF All
          <5>2. QED
            BY <5>1, <3>2, <1>1, <1>8, <1>10, SMTT(30) DEF All
        <4>2. QED
          BY <4>1, <1>4 DEF InStep
      <3>3. QED
        BY <3>1, <3>2
    <2>2. QED
      BY <2>1 DEF InStep
  <1>21. Together(job, rank', net')
    <2>1. Channels(job, net', tr1, at1, at1)
      BY <1>19 DEF at1, hi1
    <2>2. QED
      BY <2>1, <1>10, <1>12, <1>20 DEF Together
  <1>22. DOMAIN rank' = All
    BY <1>1, <1>8
  <1>23. QED
    BY <1>1, <1>8, <1>19, <1>21, <1>22 DEF IInv, All

-----------------------------------------------------------------------------
(* A schedule that starts: every rank is at its point 0. *)

\* Nothing is under way before the first point.
LEMMA CarriesNothing ==
  ASSUME NEW g, NEW tr, NEW q, NEW p
  PROVE  Carries(g, <<>>, tr, 0, -1, q, p)
PROOF
  <1> DEFINE at == [k \in 1..0 |-> 0]
  <1>1. /\ Len(<<>>) = 0 /\ <<>> \in Seq({})
        /\ \A i \in 0..(-1) : FALSE
        /\ \A i \in (-1 + 1)..(0 - 1) : FALSE
        /\ \A k \in 1..0 : FALSE
    BY SMTT(30)
  <1>2. at \in [1..0 -> Int]
    BY SMTT(30)
  <1> HIDE DEF at
  <1>3. Lists(g, <<>>, tr, 0, -1, q, p, at)
    BY <1>1, <1>2 DEF Lists
  <1>4. QED
    BY <1>1, <1>3 DEF Carries

\* All the ranks are at c, as ranks[r] before they send, and nothing was under way.
LEMMA NewSchedule ==
  ASSUME NEW c, NEW ranks, \A r \in All : Arrives(ranks[r], r, c),
         NEW m, DOMAIN m = All \X All, \A q \in All : \A p \in All : m[<<q, p>>] = <<>>,
         NEW after, after = [r \in All |-> Quiet(ranks[r])],
         NEW m1, m1 = [e \in All \X All |-> Posted(m, e[1], ranks[e[1]])[e]]
  PROVE  Together(job, after, m1)
PROOF
  <1> DEFINE tr == [i \in Int |-> c]
             at == [r \in All |-> 0]
             hi == [r \in All |-> -1]
  <1>1. \A i \in Int : tr[i] = c
    OBVIOUS
  <1>2. at \in [All -> Int] /\ hi \in [All -> Int] /\ \A r \in All : at[r] = 0 /\ hi[r] = -1
    BY SMTT(30)
  <1>3. at \in [Ranks(job) -> 0..0]
    BY SMTT(30) DEF All
  <1> HIDE DEF tr, at, hi
  <1>4. Channels(job, m, tr, at, hi)
    <2>1. ASSUME NEW q \in Ranks(job), NEW p \in Ranks(job)
          PROVE  Carries(job, m[<<q, p>>], tr, at[p], hi[q], q, p)
      <3>1. m[<<q, p>>] = <<>> /\ at[p] = 0 /\ hi[q] = -1
        BY <1>2 DEF All
      <3>2. QED
        BY <3>1, CarriesNothing
    <2>2. QED
      BY <2>1 DEF Channels
  <1>5. Channels(job, m1, tr, at, at)
    <2>1. ASSUME NEW q \in All, NEW p \in All
          PROVE  Carries(job, m1[<<q, p>>], tr, at[p], at[q], q, p)
      <3> DEFINE k == Posted(m, q, ranks[q])
                 hi1 == [hi EXCEPT ![q] = @ + 1]
      <3>1. Agrees(ranks[q], c) /\ Posts(ranks[q], q)
        BY DEF Arrives
      <3>2. hi[q] + 1 = 0 /\ hi[q] + 1 = at[q] /\ hi[q] + 1 \in Int
        <4>1. hi[q] = -1 /\ at[q] = 0
          BY <1>2
        <4>2. QED
          BY <4>1, SMTT(30)
      <3>3. c = tr[hi[q] + 1]
        BY <1>1, <3>2
      <3>4. Channels(job, k, tr, at, hi1)
        BY <1>2, <1>4, <3>1, <3>3, SenderMoves
      <3>5. hi1[q] = at[q]
        BY <1>2, <3>2
      <3>6. m1[<<q, p>>] = k[<<q, p>>]
        <4>1. <<q, p>> \in All \X All /\ <<q, p>>[1] = q
          BY SMTT(30)
        <4>2. QED
          BY <4>1
      <3> HIDE DEF k, hi1
      <3>7. Carries(job, k[<<q, p>>], tr, at[p], hi1[q], q, p)
        BY <3>4 DEF Channels, All
      <3>8. QED
        BY <3>5, <3>6, <3>7
    <2>2. QED
      BY <2>1 DEF Channels, All
  <1>6. InStep(job, after, tr, at)
    <2>1. ASSUME NEW r \in Ranks(job)
          PROVE  Agrees(after[r], tr[at[r]]) /\ after[r].out = <<>>
      <3>1. r \in All /\ after[r] = Quiet(ranks[r]) /\ Agrees(ranks[r], c)
        BY DEF All, Arrives
      <3>2. tr[at[r]] = c
        <4>1. at[r] \in Int
          BY <3>1, <1>2
        <4>2. QED
          BY <4>1, <1>1
      <3>3. QED
        BY <3>1, <3>2, QuietAgrees
    <2>2. QED
      BY <2>1 DEF InStep
  <1>7. CASE All = {}
    <2> DEFINE c0 == [ret |-> "idle", pc |-> "idle"]
               tr0 == [i \in Int |-> c0]
    <2>1. IsControl(job, c0)
      BY DEF IsControl, Calls, Waits
    <2>2. (\A i \in 0..0 : i \in Int) /\ (\A i \in 0..(0 - 1) : FALSE) /\ 0 \in Nat
      BY SMTT(30)
    <2>3. \A i \in Int : tr0[i] = c0
      OBVIOUS
    <2> HIDE DEF c0, tr0
    <2>4. Schedule(job, tr0, 0)
      BY <2>1, <2>2, <2>3 DEF Schedule
    <2>5. InStep(job, after, tr0, at) /\ Channels(job, m1, tr0, at, at)
      BY <1>7 DEF InStep, Channels, All
    <2>6. QED
      BY <2>2, <2>4, <2>5, <1>3 DEF Together
  <1>8. CASE All # {}
    <2>1. IsControl(job, c)
      BY <1>8 DEF Arrives
    <2>2. (\A i \in 0..0 : i \in Int) /\ (\A i \in 0..(0 - 1) : FALSE) /\ 0 \in Nat
      BY SMTT(30)
    <2>3. Schedule(job, tr, 0)
      BY <2>1, <2>2, <1>1 DEF Schedule
    <2>4. QED
      BY <2>2, <2>3, <1>3, <1>5, <1>6 DEF Together
  <1>9. QED
    BY <1>7, <1>8

\* The constructors leave all the ranks at the same point.
LEMMA InitInv ==
  ASSUME Init
  PROVE  IInv
PROOF
  <1> DEFINE c == [pc |-> "idle", ret |-> "idle", dir |-> 4, call |-> 0, left |-> 0, t |-> 0,
                   force |-> FALSE, communicating |-> FALSE, hasGhosts |-> FALSE,
                   nl |-> NewList(job.runs[1].rbuff)]
  <1>1. ASSUME NEW r \in All
        PROVE  Arrives(rank[r], r, c) /\ Quiet(rank[r]) = rank[r] /\ rank[r].out = <<>>
    <2>1. PICK added, copies, received, local, rtag, nl :
            /\ nl = NewList(job.runs[1].rbuff)
            /\ rank[r] = [pc |-> "idle", ret |-> "idle", dir |-> 4, call |-> 0, left |-> 0, t |-> 0,
                          force |-> FALSE, communicating |-> FALSE, hasGhosts |-> FALSE,
                          added |-> added, copies |-> copies, received |-> received,
                          local |-> local, ghosts |-> <<>>, rtag |-> rtag, nl |-> nl, out |-> <<>>]
      BY ZenonT(60) DEF Init, NewRank
    <2>2. SameList(nl, NewList(job.runs[1].rbuff))
      BY <2>1 DEF SameList, NewList, ListFields
    <2>3. c.nl = NewList(job.runs[1].rbuff)
      OBVIOUS
    <2> HIDE DEF NewList
    <2>4. Agrees(rank[r], c) /\ rank[r].out = <<>>
      <3>1. /\ DOMAIN rank[r] = RankFields /\ rank[r].nl = nl /\ rank[r].out = <<>>
            /\ rank[r].pc = "idle" /\ rank[r].ret = "idle" /\ rank[r].dir = 4 /\ rank[r].call = 0
            /\ rank[r].left = 0 /\ rank[r].t = 0 /\ rank[r].force = FALSE
            /\ rank[r].communicating = FALSE /\ rank[r].hasGhosts = FALSE
        BY <2>1, SMTT(30) DEF RankFields
      <3>2. /\ DOMAIN c = ControlFields
            /\ c.pc = "idle" /\ c.ret = "idle" /\ c.dir = 4 /\ c.call = 0
            /\ c.left = 0 /\ c.t = 0 /\ c.force = FALSE
            /\ c.communicating = FALSE /\ c.hasGhosts = FALSE
        BY SMTT(30) DEF ControlFields
      <3> HIDE DEF c
      <3>3. QED
        BY <3>1, <3>2, <2>2, <2>3 DEF Agrees
    <2>5. c.ret \in Calls /\ c.pc \in Calls
      BY DEF Calls
    <2>6. Quiet(rank[r]) = rank[r]
      <3>1. PICK f : rank[r] = [x \in RankFields |-> f[x]]
        <4>1. \E f : rank[r] = [x \in DOMAIN f |-> f[x]] /\ DOMAIN f = RankFields
          BY <2>1, SMTT(30) DEF RankFields
        <4>2. QED
          BY <4>1
      <3>2. rank[r].out = <<>>
        BY <2>4
      <3>3. QED
        BY <3>1, <3>2, SMTT(30) DEF Quiet
    <2>7. QED
      BY <2>4, <2>5, <2>6, Stopping
  <1> HIDE DEF c
  <1>2. rank = [r \in All |-> Quiet(rank[r])]
    BY <1>1 DEF Init
  <1>3. /\ net = [e \in All \X All |-> <<>>] /\ DOMAIN net = All \X All
        /\ \A q \in All : \A p \in All : net[<<q, p>>] = <<>>
    BY SMTT(30) DEF Init
  <1>4. net = [e \in All \X All |-> Posted(net, e[1], rank[e[1]])[e]]
    <2>1. ASSUME NEW e \in All \X All
          PROVE  Posted(net, e[1], rank[e[1]])[e] = <<>>
      <3>1. e[1] \in All
        BY SMTT(30)
      <3>2. Posted(net, e[1], rank[e[1]]) = net
        BY <3>1, <1>1 DEF Posted
      <3>3. QED
        BY <3>2, <1>3
    <2>2. [e \in All \X All |-> <<>>] = [e \in All \X All |-> Posted(net, e[1], rank[e[1]])[e]]
      BY <2>1
    <2>3. QED
      BY <2>2, <1>3
  <1>5. Together(job, rank, net)
    <2> DEFINE ranks == rank
               m == net
    <2>1. \A r \in All : Arrives(ranks[r], r, c)
      BY <1>1
    <2>2. DOMAIN m = All \X All /\ \A q \in All : \A p \in All : m[<<q, p>>] = <<>>
      BY <1>3
    <2>3. /\ rank = [r \in All |-> Quiet(ranks[r])]
          /\ net = [e \in All \X All |-> Posted(m, e[1], ranks[e[1]])[e]]
      BY <1>2, <1>4
    <2> HIDE DEF ranks, m
    <2>4. QED
      BY <2>1, <2>2, <2>3, NewSchedule
  <1>6. QED
    BY <1>5, <1>3, <1>2 DEF IInv, Init

\* The vote: all the ranks are at the last point, nothing is under way, and a new
\* schedule starts with the result of the vote.
LEMMA AllReduceInv ==
  ASSUME IInv, AllReduce
  PROVE  IInv'
PROOF
  <1>1. job \in Jobs /\ DOMAIN rank = All /\ DOMAIN net = All \X All
    BY DEF IInv
  <1>2. PICK n \in Nat : \E tr : \E at \in [Ranks(job) -> 0..n] :
            Schedule(job, tr, n) /\ InStep(job, rank, tr, at) /\ Channels(job, net, tr, at, at)
    BY Zenon DEF IInv, Together
  <1>3. PICK tr : \E at \in [Ranks(job) -> 0..n] :
            Schedule(job, tr, n) /\ InStep(job, rank, tr, at) /\ Channels(job, net, tr, at, at)
    BY <1>2, ZenonT(60)
  <1>4. PICK at \in [Ranks(job) -> 0..n] :
            Schedule(job, tr, n) /\ InStep(job, rank, tr, at) /\ Channels(job, net, tr, at, at)
    BY <1>3, ZenonT(60)
  <1> DEFINE vote == \E r \in All : distanceCheck(job, rank[r].nl, rank[r].local)
             c == tr[n]
             d == Voted(job, c, vote)
             voted(s) == [s EXCEPT !.nl = needsUpdating(job, @, s.t, vote)]
             built(s) == [s EXCEPT !.pc = "forced",
                                   !.nl = Built(job, @, s.t, vote, Len(s.local), Particles(s))]
             after(r) ==
                 IF rank[r].pc = "peek"
                 THEN Requested(voted(rank[r]), r, Verdict(job, rank[r].nl, rank[r].t, vote))
                 ELSE built(rank[r])
             ranks == [r \in All |-> after(r)]
  <1>5. /\ \A r \in All : rank[r].pc \in Votes
        /\ rank' = [r \in All |-> Quiet(after(r))]
        /\ net' = [e \in All \X All |-> Posted(net, e[1], after(e[1]))[e]]
        /\ job' = job
    BY ZenonT(60) DEF AllReduce, Votes
  <1>6. ASSUME NEW r \in All
        PROVE  at[r] = n /\ Agrees(rank[r], c) /\ rank[r].out = <<>> /\ IsControl(job, c)
    <2>1. r \in Ranks(job) /\ at[r] \in 0..n
      BY DEF All
    <2>2. Agrees(rank[r], tr[at[r]]) /\ rank[r].out = <<>> /\ IsControl(job, tr[at[r]])
      BY <2>1, <1>4 DEF InStep, Schedule
    <2>3. tr[at[r]].pc \in Votes
      BY <2>2, <1>5 DEF Agrees
    <2>4. at[r] \notin 0..(n - 1)
      BY <2>3, <1>4 DEF Schedule, Proceeds
    <2>5. at[r] = n
      BY <2>1, <2>4, SMTT(30)
    <2>6. QED
      BY <2>2, <2>5
  <1>7. ASSUME NEW q \in All, NEW p \in All
        PROVE  net[<<q, p>>] = <<>>
    <2>1. Carries(job, net[<<q, p>>], tr, n, n, q, p)
      BY <1>4, <1>6 DEF Channels, All
    <2>2. c.pc \in Votes
      BY <1>5, <1>6 DEF Agrees
    <2>3. ~Sends(job, tr[n], q, p)
      BY <2>2 DEF Sends, Votes, Waits
    <2>4. n \in Int
      BY SMTT(30)
    <2>5. QED
      BY <2>1, <2>3, <2>4, CarriesWhat
  <1> HIDE DEF vote, c
  <1>8. ASSUME NEW r \in All
        PROVE  Arrives(after(r), r, d)
    <2> DEFINE s == rank[r]
    <2>1. Agrees(s, c) /\ s.out = <<>> /\ IsControl(job, c) /\ s.pc \in Votes
      BY <1>5, <1>6
    <2>2. s.pc = c.pc /\ s.t = c.t /\ SameList(s.nl, c.nl) /\ c.ret \in Calls
      BY <2>1 DEF Agrees, IsControl
    <2>3. /\ Verdict(job, s.nl, s.t, vote) = Verdict(job, c.nl, c.t, vote)
          /\ SameList(needsUpdating(job, s.nl, s.t, vote), needsUpdating(job, c.nl, c.t, vote))
      BY <2>1, SameAnswers
    <2> HIDE DEF s
    <2>4. CASE c.pc = "peek"
      <3> DEFINE v == [c EXCEPT !.nl = needsUpdating(job, c.nl, c.t, vote)]
                 yes == Verdict(job, s.nl, s.t, vote)
      <3>1. Ready(voted(s), v)
        BY <2>1, <2>2, <2>3 DEF Ready, Agrees, RankFields, ControlFields
      <3>2. d = Deciding(job, v, yes)
        BY <2>3, <2>4 DEF Voted
      <3>3. after(r) = Requested(voted(s), r, yes)
        BY <2>2, <2>4 DEF s
      <3> HIDE DEF v, yes, voted, d, after
      <3>4. Arrives(Requested(voted(s), r, yes), r, Deciding(job, v, yes))
        BY <3>1, RequestFollows
      <3>5. QED
        BY <3>2, <3>3, <3>4
    <2>5. CASE c.pc # "peek"
      <3> DEFINE v == [c EXCEPT !.pc = "forced", !.nl = needsUpdating(job, Noted(c.nl, c.t), c.t, vote)]
                 list == Built(job, s.nl, s.t, vote, Len(s.local), Particles(s))
      <3>1. SameList(list, needsUpdating(job, Noted(c.nl, c.t), c.t, vote))
        BY <2>2, ListBuilt
      <3>2. built(s) = [s EXCEPT !.pc = "forced", !.nl = list]
        OBVIOUS
      <3> HIDE DEF list
      <3>3. Agrees([s EXCEPT !.pc = "forced", !.nl = list], v)
            /\ [s EXCEPT !.pc = "forced", !.nl = list].out = <<>>
            /\ v.ret = c.ret /\ v.pc = "forced"
        BY <2>1, <3>1, SMTT(30) DEF Agrees, RankFields, ControlFields
      <3>4. d = v
        BY <2>5 DEF Voted
      <3>5. after(r) = built(s)
        BY <2>2, <2>5 DEF s
      <3> HIDE DEF v, built, d, after
      <3>6. v.ret \in Calls /\ v.pc \in Calls \union {"forced"} \union Votes
        BY <2>2, <3>3
      <3>7. Arrives(built(s), r, v)
        BY <3>2, <3>3, <3>6, Stopping
      <3>8. QED
        BY <3>4, <3>5, <3>7
    <2>6. QED
      BY <2>4, <2>5
  <1> HIDE DEF d, after
  <1>9. \A r \in All : ranks[r] = after(r)
    OBVIOUS
  <1> HIDE DEF ranks
  <1>10. rank' = [r \in All |-> Quiet(ranks[r])]
    BY <1>5, <1>9
  <1>11. net' = [e \in All \X All |-> Posted(net, e[1], ranks[e[1]])[e]]
    <2>1. \A e \in All \X All : e[1] \in All
      BY SMTT(30)
    <2>2. QED
      BY <1>5, <1>9, <2>1
  <1>12. Together(job, rank', net')
    <2>1. \A r \in All : Arrives(ranks[r], r, d)
      BY <1>8, <1>9
    <2>2. \A q \in All : \A p \in All : net[<<q, p>>] = <<>>
      BY <1>7
    <2>3. QED
      BY <2>1, <2>2, <1>1, <1>10, <1>11, NewSchedule
  <1>13. QED
    <2>1. DOMAIN rank' = All /\ DOMAIN net' = All \X All
      BY <1>10, <1>11
    <2>2. QED
      BY <2>1, <1>1, <1>5, <1>12 DEF IInv, All

-----------------------------------------------------------------------------
\* Every step keeps the ranks together.
LEMMA NextInv ==
  ASSUME IInv, [Next]_vars
  PROVE  IInv'
PROOF
  <1>1. CASE AllReduce
    BY <1>1, AllReduceInv
  <1>2. ASSUME NEW r \in All, Act(r) PROVE IInv'
    BY <1>2, ActInv
  <1>3. CASE UNCHANGED vars
    BY <1>3 DEF vars, IInv, All
  <1>4. QED
    BY <1>1, <1>2, <1>3 DEF Next, Terminated

\* A rank that waits, at point c, for whom and where.
LEMMA WaitingAt ==
  ASSUME NEW r, NEW c, Agrees(rank[r], c)
  PROVE  /\ Waiting(r) <=> c.pc \in Waits
         /\ Source(r) = getNeighborRank(job, r, Opposite(c.dir))
         /\ Incoming(r) = net[<<Source(r), r>>]
PROOF
  BY DEF Agrees, Waiting, Waits, Source, Incoming

\* The first message under way to a rank is the one of its point.
LEMMA InvMatches ==
  ASSUME IInv
  PROVE  MessagesMatch
PROOF
  <1>1. PICK n \in Nat : \E tr : \E at \in [Ranks(job) -> 0..n] :
            Schedule(job, tr, n) /\ InStep(job, rank, tr, at) /\ Channels(job, net, tr, at, at)
    BY Zenon DEF IInv, Together
  <1>2. PICK tr : \E at \in [Ranks(job) -> 0..n] :
            Schedule(job, tr, n) /\ InStep(job, rank, tr, at) /\ Channels(job, net, tr, at, at)
    BY <1>1, ZenonT(60)
  <1>3. PICK at \in [Ranks(job) -> 0..n] :
            Schedule(job, tr, n) /\ InStep(job, rank, tr, at) /\ Channels(job, net, tr, at, at)
    BY <1>2, ZenonT(60)
  <1>4. ASSUME NEW r \in All, Waiting(r), Incoming(r) # <<>>
        PROVE  Head(Incoming(r)).kind = rank[r].pc /\ Head(Incoming(r)).dir = rank[r].dir
    <2> DEFINE c == tr[at[r]]
               src == Source(r)
    <2>1. r \in Ranks(job) /\ at[r] \in 0..n /\ job \in Jobs
      BY DEF All, IInv
    <2>2. Agrees(rank[r], c) /\ IsControl(job, c)
      BY <2>1, <1>3 DEF InStep, Schedule
    <2>3. c.pc \in Waits /\ src = getNeighborRank(job, r, Opposite(c.dir)) /\ Incoming(r) = net[<<src, r>>]
      BY <2>2, <1>4, WaitingAt
    <2>4. src \in All /\ Sends(job, c, src, r)
      BY <2>1, <2>2, <2>3, SenderIsSource
    <2>5. Carries(job, net[<<src, r>>], tr, at[r], at[src], src, r)
      BY <2>1, <2>4, <1>3 DEF Channels, All
    <2>6. at[r] \in Int /\ at[src] \in Int
      <3>1. \A i \in 0..n : i \in Int
        BY SMTT(30)
      <3>2. QED
        BY <3>1, <2>1, <2>4 DEF All
    <2> HIDE DEF src
    <2>7. For(Head(net[<<src, r>>]), c)
      BY <2>3, <2>4, <2>5, <2>6, <1>4, CarriesTail
    <2>8. QED
      BY <2>2, <2>3, <2>7 DEF For, Agrees
  <1>5. QED
    BY <1>4 DEF MessagesMatch

\* A non-empty set of natural numbers has a least element.
LEMMA Least ==
  ASSUME NEW S \in SUBSET Nat, S # {}
  PROVE  \E x \in S : \A y \in S : x <= y
PROOF
  <1>1. IsWellFoundedOn(OpToRel(<, Nat), Nat)
    BY NatLessThanWellFounded, ZenonT(60)
  <1>2. PICK x \in S : \A y \in S : ~(<<y, x>> \in OpToRel(<, Nat))
    BY <1>1, WFMin, ZenonT(60)
  <1>3. \A y \in S : ~(y < x)
    BY <1>2, ZenonT(60) DEF OpToRel
  <1>4. QED
    BY <1>3, SMTT(30)

\* The rank that is behind all the others can go on, or all the ranks are at the
\* same point, which is the end or a vote.
LEMMA InvGoesOn ==
  ASSUME IInv
  PROVE  NobodyStuck
PROOF
  <1>1. PICK n \in Nat : \E tr : \E at \in [Ranks(job) -> 0..n] :
            Schedule(job, tr, n) /\ InStep(job, rank, tr, at) /\ Channels(job, net, tr, at, at)
    BY Zenon DEF IInv, Together
  <1>2. PICK tr : \E at \in [Ranks(job) -> 0..n] :
            Schedule(job, tr, n) /\ InStep(job, rank, tr, at) /\ Channels(job, net, tr, at, at)
    BY <1>1, Zenon
  <1>3. PICK at \in [Ranks(job) -> 0..n] :
            Schedule(job, tr, n) /\ InStep(job, rank, tr, at) /\ Channels(job, net, tr, at, at)
    BY <1>2, Zenon
  <1>4. /\ \A i \in 0..n : i \in Nat /\ i \in Int /\ (i = n \/ i \in 0..(n - 1))
        /\ \A r \in All : at[r] \in 0..n
    BY SMTT(30) DEF All
  <1>5. ASSUME NEW r \in All
        PROVE  Agrees(rank[r], tr[at[r]]) /\ IsControl(job, tr[at[r]])
    BY <1>3, <1>4 DEF InStep, Schedule, All
  <1>6. CASE All = {}
    BY <1>6 DEF NobodyStuck
  <1>7. CASE All # {}
    <2>1. PICK r \in All : \A q \in All : at[r] <= at[q]
      <3> DEFINE S == {at[q] : q \in All}
      <3>1. S \in SUBSET Nat /\ S # {}
        BY <1>4, <1>7
      <3>2. PICK x \in S : \A y \in S : x <= y
        BY <3>1, Least
      <3>3. QED
        BY <3>2
    <2> DEFINE c == tr[at[r]]
    <2>2. Agrees(rank[r], c) /\ IsControl(job, c)
      BY <1>5
    <2>3. at[r] \in 0..n /\ at[r] \in Int
      BY <1>4
    <2>4. ASSUME ~Proceeds(job, c), NEW q \in All
          PROVE  Agrees(rank[q], c)
      <3>1. at[r] = n
        BY <2>3, <2>4, <1>3, <1>4 DEF Schedule
      <3>2. at[q] = n
        <4>1. at[r] <= at[q] /\ at[q] \in 0..n
          BY <2>1, <1>4
        <4>2. QED
          BY <3>1, <4>1, SMTT(30)
      <3>3. QED
        BY <3>1, <3>2, <1>5
    <2> HIDE DEF c
    <2>5. CASE c.pc \in Votes
      <3>1. ~Proceeds(job, c)
        BY <2>5 DEF Proceeds
      <3>2. \A q \in All : rank[q].pc \in Votes
        BY <2>4, <2>5, <3>1 DEF Agrees
      <3>3. QED
        BY <3>2 DEF NobodyStuck, Votes
    <2>6. CASE Finished(r)
      <3>1. c.pc = "idle" /\ c.call = Len(job.runs)
        BY <2>2, <2>6 DEF Finished, Agrees
      <3>2. Len(job.runs) \in Nat
        BY JobIsGrid DEF IInv
      <3>3. ~(c.call < Len(job.runs))
        BY <3>1, <3>2, SMTT(30)
      <3>4. ~Proceeds(job, c)
        BY <3>1, <3>3 DEF Proceeds
      <3>5. \A q \in All : Finished(q)
        BY <3>1, <3>4, <2>4 DEF Finished, Agrees
      <3>6. QED
        BY <3>5 DEF NobodyStuck
    <2>7. CASE c.pc \in Waits
      <3> DEFINE src == Source(r)
                 to == getNeighborRank(job, r, c.dir)
      <3>1. Waiting(r) /\ src = getNeighborRank(job, r, Opposite(c.dir)) /\ Incoming(r) = net[<<src, r>>]
        BY <2>2, <2>7, WaitingAt
      <3>2. src \in All /\ Sends(job, c, src, r)
        BY <2>2, <2>7, <3>1, SenderIsSource DEF IInv
      <3>3. Incoming(r) # <<>>
        <4>1. Carries(job, net[<<src, r>>], tr, at[r], at[src], src, r)
          BY <3>2, <1>3 DEF Channels, All
        <4>2. at[src] \in Int /\ at[r] <= at[src]
          BY <3>2, <2>1, <1>4
        <4> HIDE DEF src
        <4>3. net[<<src, r>>] # <<>>
          BY <4>1, <4>2, <3>2, <2>3, CarriesWhat DEF c
        <4>4. QED
          BY <4>3, <3>1
      <3>4. to \in All /\ getNeighborRank(job, to, Opposite(c.dir)) = r
        <4>1. c.dir \in Dirs /\ job.w \in Nat \ {0} /\ job.h \in Nat \ {0} /\ r \in Ranks(job)
          BY <2>2, <2>7, JobIsGrid DEF IsControl, IInv, All
        <4>2. QED
          BY <4>1, NeighborsAreMutual DEF All
      <3> HIDE DEF to, src
      <3>5. net[<<r, to>>] = <<>> \/ (Waiting(to) /\ Source(to) = r)
        <4>1. CASE at[r] < at[to]
          <5>1. Carries(job, net[<<r, to>>], tr, at[to], at[r], r, to)
            BY <3>4, <1>3 DEF Channels, All
          <5>2. at[to] \in Int
            BY <3>4, <1>4
          <5>3. QED
            BY <5>1, <5>2, <4>1, <2>3, CarriesWhat
        <4>2. CASE ~(at[r] < at[to])
          <5>1. at[to] = at[r]
            <6>1. at[to] \in Int /\ at[r] <= at[to]
              BY <3>4, <2>1, <1>4
            <6>2. QED
              BY <6>1, <4>2, <2>3, SMTT(30)
          <5>2. Agrees(rank[to], c)
            BY <5>1, <3>4, <1>5 DEF c
          <5>3. QED
            BY <5>2, <3>4, <2>7, WaitingAt
        <4>3. QED
          BY <4>1, <4>2
      <3>6. Matched(r)
        <4>1. rank[r].dir = c.dir
          BY <2>2 DEF Agrees
        <4>2. to = getNeighborRank(job, r, rank[r].dir)
          BY <4>1 DEF to
        <4>3. QED
          BY <3>5, <4>2 DEF Matched
      <3>7. QED
        BY <3>1, <3>3, <3>6 DEF NobodyStuck
    <2>8. CASE c.pc \notin Votes /\ c.pc \notin Waits /\ ~Finished(r)
      <3>1. ~Waiting(r) /\ rank[r].pc \notin {"peek", "compute"}
        BY <2>2, <2>8 DEF Agrees, Waiting, Waits, Votes
      <3>2. QED
        BY <3>1, <2>8 DEF NobodyStuck
    <2>9. QED
      BY <2>5, <2>6, <2>7, <2>8
  <1>8. QED
    BY <1>6, <1>7

\* The ranks are together in every reachable state.
LEMMA Invariance == Spec => []IInv
PROOF
  <1>1. Init => IInv
    BY InitInv
  <1>2. IInv /\ [Next]_vars => IInv'
    BY NextInv
  <1>3. QED
    BY <1>1, <1>2, PTL DEF Spec

\* A rank that waits in communicate() finds the message of its own phase and
\* direction first in line, for every grid of domains, any particles, any script and
\* any moves, sort orders and votes.
THEOREM EveryMessageMatches == Spec => []MessagesMatch
PROOF
  <1>1. IInv => MessagesMatch
    BY InvMatches
  <1>2. QED
    BY <1>1, Invariance, PTL

\* Until the script has ended some rank can go on, whether or not MPI buffers the
\* messages, for every grid of domains, any particles, any script and any moves,
\* sort orders and votes.
THEOREM TheRanksGoOn == Spec => []NobodyStuck
PROOF
  <1>1. IInv => NobodyStuck
    BY InvGoesOn
  <1>2. QED
    BY <1>1, Invariance, PTL
=============================================================================
