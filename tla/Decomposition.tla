--------------------------- MODULE Decomposition ---------------------------
(***************************************************************************)
(* The grid of domains (hoomd/DomainDecomposition.cc), the directions in   *)
(* which a rank communicates and the shifted box with which it wraps what  *)
(* it receives (hoomd/Communicator.cc).                                    *)
(*                                                                         *)
(* A geometry g is a record with the number of domains along two axes,     *)
(* g.w and g.h, and the length g.len of a domain.  Coordinates are         *)
(* integers and the box is orthorhombic; the third axis is handled by the  *)
(* same lines of code as these two and is left out.  A position is a pair  *)
(* of coordinates.                                                         *)
(***************************************************************************)
EXTENDS Integers, FiniteSets, Sequences

Axes == 1..2
Grid(g) == <<g.w, g.h>>
Length(g, k) == Grid(g)[k] * g.len      \* of the global box
Ranks(g) == 0..(g.w * g.h - 1)
GridPos(g, r) == <<r % g.w, r \div g.w>>
Rank(g, cell) == cell[1] + g.w * cell[2]

\* faceEnum: 0 east, 1 west, 2 north, 3 south.
Dirs == 0..3
Axis(dir) == dir \div 2 + 1
East(dir) == dir % 2 = 0
Opposite(dir) == IF East(dir) THEN dir + 1 ELSE dir - 1

isCommunicating(g, dir) == Grid(g)[Axis(dir)] > 1

isAtBoundary(g, r, dir) ==
    GridPos(g, r)[Axis(dir)] = IF East(dir) THEN Grid(g)[Axis(dir)] - 1 ELSE 0

getNeighborRank(g, r, dir) ==
    LET step == IF East(dir) THEN 1 ELSE -1
        n    == Grid(g)[Axis(dir)]
    IN  Rank(g, [GridPos(g, r) EXCEPT ![Axis(dir)] = (@ + step + n) % n])

\* The first communicating direction from dir on; 4 when there is none.
NextDir(g, dir) ==
    CHOOSE d \in dir..4 :
        /\ d = 4 \/ isCommunicating(g, d)
        /\ \A e \in dir..(d - 1) : ~isCommunicating(g, e)

Lo(g, r, k) == GridPos(g, r)[k] * g.len
Hi(g, r, k) == Lo(g, r, k) + g.len

InDomain(g, r, pos) == \A k \in Axes : pos[k] >= Lo(g, r, k) /\ pos[k] < Hi(g, r, k)

\* placeParticle(), the rank that takes a particle of the snapshot: along each axis
\* the domain below the first bound that does not compare less, so that a particle
\* on a bound between two domains goes to the lower one, which it has to leave.  It
\* throws for a position outside of the box.
placeParticle(g, pos) ==
    LET lower_bound(k) == Cardinality({b \in 0..Grid(g)[k] : b * g.len < pos[k]})
        cell(k) == LET ix == lower_bound(k) - 1
                   IN  IF ix < 0 THEN ix + 1 ELSE IF ix >= Grid(g)[k] THEN ix - 1 ELSE ix
    IN  Rank(g, [k \in Axes |-> cell(k)])

\* BoxDim::wrap with the box [lo, lo + length), lo being given as two times
\* its value; over says that the tolerance moves the box up, so that a
\* coordinate equal to a bound is below it.
Wrapped(x, twiceLo, over, length) ==
    LET below(c, bound) == IF over THEN c <= bound ELSE c < bound
    IN  CASE ~below(2 * x, twiceLo + 2 * length) -> x - length
          [] below(2 * x, twiceLo)               -> x + length
          [] OTHER                               -> x

\* getShiftedBox() and wrap(): a rank at the upper boundary shifts the global
\* box up by half a domain (and 0.0001), a rank at the lower boundary down.  The
\* shifted box is periodic along the decomposed axes only.
Shift(g, r, k) ==
    IF isAtBoundary(g, r, 2 * k - 2) THEN 1
    ELSE IF isAtBoundary(g, r, 2 * k - 1) THEN -1 ELSE 0

ShiftedWrap(g, r, pos) ==
    [k \in Axes |->
        IF Grid(g)[k] = 1 THEN pos[k]
        ELSE Wrapped(pos[k], Shift(g, r, k) * g.len, Shift(g, r, k) = 1, Length(g, k))]

\* box.wrap() with the local box, periodic only along an axis that is not
\* decomposed.
LocalWrap(g, pos) ==
    [k \in Axes |-> IF Grid(g)[k] = 1 THEN Wrapped(pos[k], 0, FALSE, Length(g, k)) ELSE pos[k]]

Minus(a, b) == [k \in Axes |-> a[k] - b[k]]
Plus(a, b) == [k \in Axes |-> a[k] + b[k]]
Abs(x) == IF x < 0 THEN -x ELSE x

\* The squared length of box.minImage(d) in the local box, and of the shortest
\* image of d in the global box.
Square(x) == x * x
Nearest(x, length) == LET y == Abs(x) % length IN IF 2 * y > length THEN length - y ELSE y
LocalSq(g, d) ==
    LET c(k) == IF Grid(g)[k] = 1 THEN Nearest(d[k], Length(g, k)) ELSE d[k]
    IN  Square(c(1)) + Square(c(2))
GlobalSq(g, d) == Square(Nearest(d[1], Length(g, 1))) + Square(Nearest(d[2], Length(g, 2)))

\* A position as it is found in the global box.
InBox(g, pos) == [k \in Axes |-> pos[k] % Length(g, k)]
=============================================================================
