----------------------------- MODULE RigidBodies -----------------------------
(***************************************************************************)
(* Rigid bodies (hoomd/md/ForceComposite.cc): a central particle and       *)
(* constituents that follow it, in a simulation without MPI.  A            *)
(* ForceComposite is a value f with                                        *)
(*                                                                         *)
(*   f.def      for every particle type the types of the constituents of   *)
(*              its bodies, none for most (m_body_types, m_body_len);      *)
(*   f.mol      the molecule of every tag (m_molecule_tag), f.nmol their   *)
(*              number (m_n_molecules_global);                             *)
(*   f.changed  m_bodies_changed;                                          *)
(*   f.resized  m_particles_added_removed, set by the signal of the        *)
(*              particle data;                                             *)
(*                                                                         *)
(* and the operators are its methods.  A snapshot is a sequence of         *)
(* particles in tag order: their type and their body, the tag of the       *)
(* central particle or NO_BODY.  Positions, orientations, charges and      *)
(* diameters of the constituents, and floppy bodies, are left out.         *)
(***************************************************************************)
EXTENDS Integers, SequencesExt

NO_BODY     == -1
NO_MOLECULE == -1

\* The tag of the particle at a position of a snapshot.
TagAt(i) == i - 1

\* The constructor.
NewForceComposite(types) ==
    [def |-> [t \in types |-> <<>>], mol |-> <<>>, nmol |-> 0, changed |-> FALSE, resized |-> FALSE]

slotPtlsAddedRemoved(f) == [f EXCEPT !.resized = TRUE]

\* Mutant: only a change of the number of constituents counts.
setParam_OnlyLength(f, type, constituents) ==
    [f EXCEPT !.changed = @ \/ Len(f.def[type]) # Len(constituents), !.def[type] = constituents]

\* setParam(), comparing with what is there.
setParam(f, type, constituents) ==
    [f EXCEPT !.changed = @ \/ f.def[type] # constituents, !.def[type] = constituents]

-----------------------------------------------------------------------------
Central(def, particle) == def[particle.type] # <<>>

\* The first check of validateRigidBodies(): no constituent is a body itself.
Nested(def) == \E t \in DOMAIN def : \E c \in Range(def[t]) : def[c] # <<>>

\* The number of constituents with the body of particle i and a smaller tag.
CountBefore(def, snap, i) ==
    Cardinality({j \in 1 .. (i - 1) : ~Central(def, snap[j]) /\ snap[j].body = snap[i].body})

\* The checks of one particle: a central particle, a free one, a constituent.
Validated(def, snap, i) ==
    LET p == snap[i]
        c == p.body + 1
    IN  \/ Central(def, p) /\ p.body = TagAt(i)
        \/ ~Central(def, p) /\ p.body = NO_BODY
        \/ /\ ~Central(def, p) /\ p.body # NO_BODY
           /\ c \in DOMAIN snap /\ snap[c].body = p.body
           /\ c < i /\ Central(def, snap[c])
           /\ CountBefore(def, snap, i) < Len(def[snap[c].type])
           /\ def[snap[c].type][CountBefore(def, snap, i) + 1] = p.type

Constituents(def, snap, tag) ==
    Cardinality({j \in DOMAIN snap : ~Central(def, snap[j]) /\ snap[j].body = tag})

\* validateRigidBodies() does not throw.
Validates(f, snap) ==
    \/ ~f.changed /\ ~f.resized
    \/ /\ ~Nested(f.def)
       /\ \A i \in DOMAIN snap : Validated(f.def, snap, i)
       /\ \A i \in DOMAIN snap :
             Central(f.def, snap[i]) => Constituents(f.def, snap, TagAt(i)) = Len(f.def[snap[i].type])

\* What it then leaves: the molecules are numbered by their central particles.
validateRigidBodies(f, snap) ==
    LET central(n) == {i \in 1..n : Central(f.def, snap[i])}
        number(i)  == Cardinality(central(i)) - 1
    IN  IF ~f.changed /\ ~f.resized THEN f
        ELSE [f EXCEPT !.mol = [i \in DOMAIN snap |->
                                  IF Central(f.def, snap[i]) THEN number(i)
                                  ELSE IF snap[i].body = NO_BODY THEN NO_MOLECULE
                                  ELSE number(snap[i].body + 1)],
                       !.nmol = Cardinality(central(Len(snap))),
                       !.changed = FALSE, !.resized = FALSE]

-----------------------------------------------------------------------------
(* The particles createRigidBodies() leaves.  Constituents that exist      *)
(* already, particles with a body whose type has no definition, make it    *)
(* drop every particle with a body; the number of particles to insert was  *)
(* counted before.  Particles are inserted with the first type and without *)
(* a body and then filled in, body by body.                                *)
Sum(s) == FoldLeft(LAMBDA a, b : a + b, 0, s)

WithoutBodies(def, snap) ==
    IF \E i \in DOMAIN snap : snap[i].body # NO_BODY /\ ~Central(def, snap[i])
    THEN SelectSeq(snap, LAMBDA p : p.body = NO_BODY)
    ELSE snap

\* Mutant: the body is numbered as if the central particles came first.
NewConstituents_Numbered(def, snap, i) ==
    [k \in DOMAIN def[snap[i].type] |->
        [type |-> def[snap[i].type][k], body |-> Cardinality({j \in 1 .. (i - 1) : Central(def, snap[j])})]]
NewConstituents(def, snap, i) ==
    [k \in DOMAIN def[snap[i].type] |-> [type |-> def[snap[i].type][k], body |-> TagAt(i)]]

createRigidBodies(def, snap, firstType) ==
    LET inserted == Sum([i \in DOMAIN snap |-> Len(def[snap[i].type])])
        base     == WithoutBodies(def, snap)
        centers  == [i \in DOMAIN base |->
                       IF Central(def, base[i]) THEN [base[i] EXCEPT !.body = TagAt(i)] ELSE base[i]]
        filled   == FlattenSeq([i \in DOMAIN base |-> NewConstituents(def, base, i)])
        rest     == [k \in 1 .. (inserted - Len(filled)) |-> [type |-> firstType, body |-> NO_BODY]]
    IN  centers \o filled \o rest
=============================================================================
