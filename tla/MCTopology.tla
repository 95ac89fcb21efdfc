----------------------------- MODULE MCTopology -----------------------------
(***************************************************************************)
(* Instances of Topology for TLC.                                          *)
(***************************************************************************)
EXTENDS Topology

\* Two particles exchanged, or the whole order reversed.
MCOrders(s) ==
    {Reverse(s)} \union {[s EXCEPT ![i] = s[j], ![j] = s[i]] : i, j \in DOMAIN s}

Free(types) == [i \in DOMAIN types |-> [type |-> types[i], body |-> NO_BODY]]

\* No particles; two without a bond; a chain of four, where "1-4" matters.
Chains ==
    {[particles |-> <<>>, members |-> <<>>],
     [particles |-> Free(<<"A", "A">>), members |-> <<>>],
     [particles |-> Free(<<"A", "A", "A", "A">>), members |-> <<<<0, 1>>, <<1, 2>>, <<2, 3>>>>]}

\* Particles without a body; a body with one constituent; one whose constituent
\* comes first.
Centers ==
    {[particles |-> Free(<<"B", "A", "A">>), members |-> <<>>],
     [particles |-> <<[type |-> "A", body |-> 0], [type |-> "B", body |-> 0]>>, members |-> <<>>],
     [particles |-> <<[type |-> "B", body |-> 1], [type |-> "A", body |-> 1]>>, members |-> <<>>]}

MCSnapshots(w) == IF w = "bodies" THEN Centers ELSE Chains

MCLists == {<<>>, <<"bond", "1-3">>, <<"1-4">>}

MCBodies == [A |-> {<<"B">>, <<"C">>, <<"B", "C">>, <<"A">>}, B |-> {<<>>}, C |-> {<<"B">>}]
=============================================================================
