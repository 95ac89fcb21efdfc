------------------------------ MODULE MCSystem ------------------------------
(***************************************************************************)
(* An instance of System for TLC: a sorter, two updaters that move         *)
(* particles, between them one that changes groups, and two writers, with  *)
(* triggers of every class that share their members.                       *)
(***************************************************************************)
EXTENDS System

CONSTANTS sorter, mover, filterer, resizer, writer1, writer2
CONSTANTS periodic, before, on, after, custom, conj, disj, neg

MCTuners == <<sorter>>
MCUpdaters == <<mover, filterer, resizer>>
MCWriters == <<writer1, writer2>>

MCRequested ==
    [o \in Op |-> IF o \in {mover, writer1} THEN {"pressure_tensor"}
                  ELSE IF o = writer2 THEN {"external_field_virial"} ELSE {}]

MCObject == {periodic, before, on, after, custom, conj, disj, neg}

MCKind ==
    [o \in MCObject |->
        CASE o = periodic -> [class |-> "Periodic", period |-> 2, phase |-> 1]
          [] o = before   -> [class |-> "Before", timestep |-> 2]
          [] o = on       -> [class |-> "On", timestep |-> 3]
          [] o = after    -> [class |-> "After", timestep |-> 0]
          [] o = custom   -> [class |-> "Custom", on |-> {0, 2}]
          [] o = conj     -> [class |-> "And", triggers |-> <<after, periodic>>]
          [] o = disj     -> [class |-> "Or", triggers |-> <<on, custom>>]
          [] o = neg      -> [class |-> "Not", trigger |-> conj]]

MCChoices ==
    [o \in Op |-> CASE o = sorter   -> {periodic}
                    [] o = mover    -> {before}
                    [] o = filterer -> {disj, after}
                    [] o = resizer  -> {custom}
                    [] o = writer1  -> {neg, periodic}
                    [] o = writer2  -> {after}]

=============================================================================
