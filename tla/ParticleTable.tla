--------------------------- MODULE ParticleTable ---------------------------
(***************************************************************************)
(* What the distributed particle data promises its users: a table from     *)
(* particle tags to attribute values.  Adding a particle gives it a tag no *)
(* other particle has, removing one removes only its own entry, setting an *)
(* attribute changes only that particle, and nothing else (ghosts,         *)
(* migration between ranks, reordering) can be observed.  ParticleData.tla *)
(* is shown to implement this table.                                       *)
(***************************************************************************)
EXTENDS Integers

CONSTANTS
    MaxTags,        \* tags are 0 .. MaxTags-1
    Value,          \* attribute values
    Default         \* the value a new particle has

VARIABLE table      \* a function from the active tags to their values

Init == table = [t \in {} |-> Default]

\* initializeFromSnapshot(): the snapshot's particles get the tags 0, 1, 2, ...
Load == \E n \in 0 .. MaxTags : table' \in [0 .. (n - 1) -> Value]

Add ==
    \E t \in (0 .. (MaxTags - 1)) \ DOMAIN table :
        table' = [u \in DOMAIN table \union {t} |-> IF u = t THEN Default ELSE table[u]]

Remove ==
    \E t \in DOMAIN table : table' = [u \in DOMAIN table \ {t} |-> table[u]]

Set ==
    \E t \in DOMAIN table, v \in Value : table' = [table EXCEPT ![t] = v]

Next == Load \/ Add \/ Remove \/ Set

Spec == Init /\ [][Next]_table
=============================================================================
