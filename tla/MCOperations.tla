---------------------------- MODULE MCOperations ----------------------------
(***************************************************************************)
(* Operations with two updaters, a writer, an integrator with force and    *)
(* method lists and one without, and two containers.  A script holds       *)
(* either one container and all objects, or both containers and fewer      *)
(* objects; attaching some of them raises until the user completes them.   *)
(***************************************************************************)
EXTENDS Operations

CONSTANTS o1, o2, w1, i1, i2, c1, c2

MCKinds == <<"updaters", "writers">>
MCKindOf == [o \in Op |-> IF o = w1 THEN "writers" ELSE "updaters"]

MCScripts ==
    {[objects |-> {o1, o2, w1, i1, i2}, containers |-> {c1}, incomplete |-> {o2, i2}],
     [objects |-> {o1, w1, i1}, containers |-> {c1, c2}, incomplete |-> {w1, i1}],
     [objects |-> {o1, i1, i2}, containers |-> {c1, c2}, incomplete |-> {o1}]}
RetryScripts == {[objects |-> {o1, o2, w1, i1}, containers |-> {c1}, incomplete |-> {o1}]}
=============================================================================
