--------------------------- MODULE MCCommunicator ---------------------------
(***************************************************************************)
(* The jobs of the model-checking run of Communicator.tla.                 *)
(***************************************************************************)
EXTENDS Communicator

MCTags == {1, 2}
Still == {<<0, 0>>}
AlongX == {<<-1, 0>>, <<0, 0>>, <<1, 0>>}
Anywhere == AlongX \union {<<0, -1>>, <<0, 1>>}

Call(rbuff, steps, sorts) == [rbuff |-> rbuff, steps |-> steps, sorts |-> sorts]
Job(w, h, len, rcut, start, drift, runs, eager) ==
    [w |-> w, h |-> h, len |-> len, rcut |-> rcut, delay |-> 1, dist |-> TRUE,
     start |-> start, drift |-> drift, runs |-> runs, eager |-> eager]

\* Two by two domains without a buffer.  The second particle sits where four
\* domains meet, in the middle of the box or at its corner; the first one starts
\* around it and moves.
Corners ==
    {Job(2, 2, 5, 2, <<<<(c + x) % 10, (c + y) % 10>>, <<c, c>>>>, <<Anywhere, Still>>,
         <<Call(0, 1, {})>>, FALSE) :
        c \in {0, 5}, x \in {-2, -1}, y \in {-1, 0}}

\* Two domains and a buffer in which particles move without a migration; the
\* particles are sorted before the first step, and the distance check asks for a
\* migration after the third.
Line2 ==
    {Job(2, 1, 9, 1, <<<<x, 0>>, <<y, 0>>>>, <<AlongX, AlongX>>, <<Call(3, 3, {0})>>, eager) :
        x \in {0, 8}, y \in {1, 9, 16}, eager \in BOOLEAN}

\* Three domains: the middle one is at no boundary.
Line3 ==
    {Job(3, 1, 5, 2, <<<<x, 0>>, <<y, 0>>>>, <<AlongX, AlongX>>, <<Call(0, 1, {})>>, TRUE) :
        x \in {0, 3, 6, 9, 11, 14}, y \in {5, 9}}

\* The second call asks for a ghost layer that does not fit; the third one goes
\* back to the first width.
Retry ==
    {Job(2, 1, 9, 1, <<<<x, 0>>, <<9, 0>>>>, <<AlongX, Still>>,
         <<Call(3, 1, {}), Call(4, 1, {}), Call(3, 1, {})>>, TRUE) : x \in {7, 8}}

\* Distance checks disabled: the list is rebuilt in every step, or in every
\* second one.
Periods ==
    {[Job(2, 1, 9, 1, <<<<8, 0>>, <<9, 0>>>>, <<AlongX, Still>>, <<Call(1, 3, {})>>, TRUE)
        EXCEPT !.delay = delay, !.dist = FALSE] : delay \in {0, 2}}

MCJobs == Corners \union Line2 \union Line3 \union Retry \union Periods
=============================================================================
