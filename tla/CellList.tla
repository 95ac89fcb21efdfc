------------------------------ MODULE CellList ------------------------------
(***************************************************************************)
(* The cell list (hoomd/CellList.cc): the particles sorted into the cells  *)
(* of a grid that are at least as wide as the search radius, so that all   *)
(* neighbors of a particle are in the cells next to its own.  The box is   *)
(* given by its two lengths L and has its center at 0; it is periodic and  *)
(* not decomposed.  A CellList is a value c with                           *)
(*                                                                         *)
(*   c.width    m_nominal_width, an integer;                               *)
(*   c.dim      the number of cells along the axes (m_dim);                *)
(*   c.nmax     the room for particles in a cell (m_Nmax), c.room the one  *)
(*              the memory and its indexer were made for;                  *)
(*   c.size     the number of particles in every cell (m_cell_size);       *)
(*   c.members  the indices of the particles in the memory of every cell   *)
(*              (m_xyzf with the flag of setFlagIndex);                    *)
(*   c.adj      the cells next to every cell (m_cell_adj), c.nadj the      *)
(*              number of entries per cell (m_cell_adj_indexer);           *)
(*   c.params, c.sorted, c.box                                             *)
(*              m_params_changed, m_particles_sorted and m_box_changed;    *)
(*   c.first, c.computed                                                   *)
(*              m_first_compute and m_last_computed of Compute.            *)
(*                                                                         *)
(* and the operators are its methods, with the radius and the multiple at  *)
(* 1, as all callers on the CPU leave them.  Particles outside of the box, *)
(* for which compute() throws, are left out.                               *)
(***************************************************************************)
EXTENDS Decomposition, SequencesExt

radius == 1

NewCellList ==
    [width |-> 1, dim |-> <<0, 0>>, nmax |-> 0, room |-> 0, size |-> <<>>, members |-> <<>>,
     adj |-> <<>>, nadj |-> 0, params |-> TRUE, sorted |-> FALSE, box |-> FALSE,
     first |-> TRUE, computed |-> 0]

setNominalWidth(c, width) == [c EXCEPT !.width = width, !.params = TRUE]
setSortCellList(c) == [c EXCEPT !.params = TRUE]
slotParticlesSorted(c) == [c EXCEPT !.sorted = TRUE]
slotBoxChanged(c) == [c EXCEPT !.box = TRUE]

computeDimensions(c, L) == [k \in Axes |-> Max({1, L[k] \div c.width})]

Cells(c) == (0 .. (c.dim[1] - 1)) \X (0 .. (c.dim[2] - 1))

\* The cell of a position: makeFraction() times the number of cells.  What is
\* exactly on the upper face of the box goes to the first cell.
CellOf(c, L, x) ==
    [k \in Axes |-> (((2 * x[k] + L[k]) * c.dim[k]) \div (2 * L[k])) % c.dim[k]]

initializeWidth(c, L) == [c EXCEPT !.dim = computeDimensions(c, L)]

\* initializeCellAdj(): the distinct cells around a cell, wrapped, for which
\* initializeMemory() has made room.
Wraps(c, cell, i, j) == <<(cell[1] + i) % c.dim[1], (cell[2] + j) % c.dim[2]>>
\* Mutant: cells that are met twice stay in the list.
Around_Repeated(c, cell) ==
    LET n == 2 * radius + 1
    IN  [k \in 1 .. (n * n) |-> Wraps(c, cell, ((k - 1) % n) - radius, ((k - 1) \div n) - radius)]
Around(c, cell) ==
    LET all == [k \in 1 .. (c.dim[1] * c.dim[2]) |-> <<(k - 1) % c.dim[1], (k - 1) \div c.dim[1]>>]
    IN  SelectSeq(all, LAMBDA q : \E i, j \in (-radius) .. radius : q = Wraps(c, cell, i, j))
Room(n) == Min({n, 2 * radius + 1})

initializeMemory(c, n) ==
    LET ncells == c.dim[1] * c.dim[2]
        nmax   == IF c.nmax # 0 THEN c.nmax ELSE Max({1, (n + ncells - 1) \div ncells})
    IN  [c EXCEPT !.nmax = nmax, !.room = nmax,
                  !.size = [q \in Cells(c) |-> 0], !.members = [q \in Cells(c) |-> <<>>],
                  !.adj = [q \in Cells(c) |-> Around(c, q)],
                  !.nadj = Room(c.dim[1]) * Room(c.dim[2])]

initializeAll(c, L, n) == initializeMemory(initializeWidth(c, L), n)

\* The particles of every cell in index order, and as many as there is room for.
Within(c, L, pos) ==
    LET cell == [i \in DOMAIN pos |-> CellOf(c, L, pos[i])]
    IN  [q \in Cells(c) |-> SelectSeq([i \in DOMAIN pos |-> i], LAMBDA i : cell[i] = q)]
FirstOf(s, n) == SubSeq(s, 1, Min({Len(s), n}))

\* computeCellList(): every particle is counted, and stored while there is room.
computeCellList(c, L, pos) ==
    LET within == Within(c, L, pos)
    IN  [c EXCEPT !.size = [q \in Cells(c) |-> Len(within[q])],
                  !.members = [q \in Cells(c) |-> FirstOf(within[q], c.nmax)]]

\* The largest size that was counted beyond nmax (m_conditions.x), or 0.
Condition(c) == LET m == Max({c.size[q] : q \in Cells(c)}) IN IF m > c.nmax THEN m ELSE 0

\* The loop of compute(): when a cell has overflowed, all are given the room it
\* needs and filled again.
Filled(c, L, pos) ==
    LET made == computeCellList(c, L, pos)
        m    == Condition(made)
    IN  IF m > c.nmax
        THEN computeCellList(initializeAll([made EXCEPT !.nmax = m], L, Len(pos)), L, pos) ELSE made

\* compute() until the loop: flags are cleared ...
Prepared(c, L, n) ==
    LET a == IF c.params THEN [initializeAll(c, L, n) EXCEPT !.params = FALSE] ELSE c
        b == IF ~a.box THEN a
             ELSE [IF computeDimensions(a, L) = a.dim THEN initializeWidth(a, L) ELSE initializeAll(a, L, n)
                     EXCEPT !.box = FALSE]
    IN  [b EXCEPT !.sorted = FALSE, !.first = FALSE, !.computed = 1]

\* ... and whether the loop is entered (Compute::shouldCompute, the current step
\* being 1).
Recomputes(c) == c.first \/ c.computed # 1 \/ c.params \/ c.box \/ c.sorted

computeCells(c, L, pos) ==
    LET p == Prepared(c, L, Len(pos)) IN IF Recomputes(c) THEN Filled(p, L, pos) ELSE p
=============================================================================
