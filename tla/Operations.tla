----------------------------- MODULE Operations -----------------------------
(***************************************************************************)
(* The Python side of a simulation's operations and the C++ lists it is    *)
(* kept in step with (hoomd/operations.py, hoomd/operation.py,             *)
(* hoomd/data/syncedlist.py, hoomd/simulation.py, hoomd/md/integrate.py).  *)
(*                                                                         *)
(* An Operations object holds four SyncedLists and at most one integrator. *)
(* The first run() of the simulation it belongs to schedules it: a C++     *)
(* object is created for every Python object (_attach) and appended to the *)
(* list of its kind in the C++ System.  From then on every list method     *)
(* changes both lists.  The C++ System executes its own lists and its own  *)
(* integrator, so the two sides must agree.                                *)
(*                                                                         *)
(* Attaching raises when the object's parameters are incomplete            *)
(* (IncompleteSpecificationError), and the user may complete them and call *)
(* run() again: every place where a handler can be left half way by that   *)
(* exception is modelled.  Python is single threaded; scheduling is split  *)
(* into one step per list and no other action runs in between.             *)
(*                                                                         *)
(* A C++ object is <<o, n>>, the n-th one created for Python object o.     *)
(***************************************************************************)
EXTENDS Integers, Sequences

CONSTANTS
    Op,          \* updaters, writers, tuners and computes
    Integ,       \* integrators
    Dynamic,     \* the integrators with force and method lists (hoomd.md)
    Container,   \* Operations objects
    Home,        \* the Operations object a Simulation is constructed with
    Kinds,       \* the kinds of lists, in the order _schedule syncs them
    KindOf,      \* the kind of each operation
    Scripts,     \* what a user's script may hold: [objects, containers, incomplete],
                 \* incomplete are the objects whose parameters are not all set at first
    NoObj,       \* Python's None
    MaxAttach    \* bound: C++ objects created per Python object

\* The items of a list.
Items(s) == {s[i] : i \in DOMAIN s}

Kind == Items(Kinds)
Obj == Op \union Integ

Script == [objects : SUBSET Obj, containers : SUBSET Container, incomplete : SUBSET Obj]

ASSUME OperationsAssumption ==
    /\ Kinds \in Seq(Kind) /\ KindOf \in [Op -> Kind]
    /\ Dynamic \subseteq Integ /\ Op \intersect Integ = {} /\ NoObj \notin Obj
    /\ Home \in Container
    /\ Scripts \subseteq Script
    /\ MaxAttach \in Nat

VARIABLES
    lst,            \* lst[c][k]: the Python list of kind k of container c
    synced,         \* synced[c][k]: SyncedList._synced
    scheduled,      \* Operations._scheduled
    integrator,     \* Operations._integrator
    operations,     \* Simulation._operations
    added,          \* _HOOMDBaseObject._added: its _simulation is set
    cppObj,         \* the C++ object held in _cpp_obj, 0 for None
    born,           \* C++ objects created so far
    cppList,        \* the vectors of the C++ System
    cppIntegrator,  \* System::m_integrator
    script,         \* what the user's script holds
    incomplete,     \* objects whose _attach raises
    mishaps,        \* what happened so far of the things the promises below exclude
    pc              \* where _schedule is: Idle, AtIntegrator or the list to sync next

user == <<script, incomplete>>
vars == <<lst, synced, scheduled, integrator, operations, added, cppObj, born,
          cppList, cppIntegrator, user, mishaps, pc>>

Idle == -1
AtIntegrator == 0

Cpp(o) == <<o, cppObj[o]>>

\* Operations._simulation is set for the container of the simulation only.
HasSimulation(c) == c = operations

Init ==
    /\ lst = [c \in Container |-> [k \in Kind |-> << >>]]
    /\ synced = [c \in Container |-> [k \in Kind |-> FALSE]]
    /\ scheduled = [c \in Container |-> FALSE]
    /\ integrator = [c \in Container |-> NoObj]
    /\ operations = Home
    /\ added = [o \in Obj |-> FALSE]
    /\ cppObj = [o \in Obj |-> 0]
    /\ born = [o \in Obj |-> 0]
    /\ cppList = [k \in Kind |-> << >>]
    /\ cppIntegrator = NoObj
    /\ script \in Scripts
    /\ incomplete = script.incomplete
    /\ mishaps = {}
    /\ pc = Idle

-----------------------------------------------------------------------------
(***************************************************************************)
(* Attaching: every _attach creates the C++ object first and validates the *)
(* parameters afterwards, so an object whose _attach raised has _cpp_obj   *)
(* set.  There is no check that the object is attached already.            *)
(***************************************************************************)
Attached(S) ==
    /\ born' = [o \in Obj |-> IF o \in S THEN born[o] + 1 ELSE born[o]]
    /\ cppObj' = [o \in Obj |-> IF o \in S THEN born[o] + 1 ELSE cppObj[o]]

CanAttach(o) == born[o] < MaxAttach

\* _attach_value: refuses an object that is in a list, adds it, and attaches
\* it when the list is synced.
MayBeAdded(o) == ~added[o]

AttachValue(c, k, o) ==
    /\ MayBeAdded(o)
    /\ added' = [added EXCEPT ![o] = TRUE]
    /\ IF synced[c][k]
       THEN CanAttach(o) /\ Attached({o})
       ELSE UNCHANGED <<born, cppObj>>

AttachRaises(c, k, o) == synced[c][k] /\ o \in incomplete

\* _detach_value(value, remove = True): the value is detached when the list is
\* synced, and forgets its simulation.
AfterRemoval(o) == [added EXCEPT ![o] = ~added[o]]

-----------------------------------------------------------------------------
(***************************************************************************)
(* The methods of SyncedList, called through the container's lists.        *)
(* Positions are counted from 1.                                           *)
(***************************************************************************)

\* list.insert() and del, in terms of Sequences alone: the library's operators come
\* with definitions that slow the proofs of OperationsProofs.tla down a lot.
InsertAt(s, i, e) == SubSeq(s, 1, i - 1) \o <<e>> \o SubSeq(s, i, Len(s))
RemoveAt(s, i) == SubSeq(s, 1, i - 1) \o SubSeq(s, i + 1, Len(s))

\* insert() and __setitem__() of an incomplete object in a synced list: the
\* exception leaves after _attach_value and before either list is changed.
AddingRaises(c, k, o) ==
    /\ pc = Idle
    /\ KindOf[o] = k
    /\ AttachRaises(c, k, o)
    /\ AttachValue(c, k, o)
    /\ UNCHANGED <<lst, synced, scheduled, integrator, operations, cppList,
                   cppIntegrator, user, mishaps, pc>>

\* insert() that appends to the C++ list instead.
Inserted_AtEnd(k, i, o) ==
    cppList' = [cppList EXCEPT ![k] = Append(@, <<o, cppObj'[o]>>)]

Inserted(k, i, o) ==
    cppList' = [cppList EXCEPT ![k] = InsertAt(@, i, <<o, cppObj'[o]>>)]

Insert(c, k, i, o) ==
    /\ pc = Idle
    /\ KindOf[o] = k
    /\ ~AttachRaises(c, k, o)
    /\ AttachValue(c, k, o)
    /\ lst' = [lst EXCEPT ![c][k] = InsertAt(@, i, o)]
    /\ IF synced[c][k] THEN Inserted(k, i, o) ELSE UNCHANGED cppList
    /\ UNCHANGED <<synced, scheduled, integrator, operations, cppIntegrator,
                   user, mishaps, pc>>

\* __setitem__: the new value is attached, both lists are changed, then the
\* old value is detached and removed.
SetItem(c, k, i, o) ==
    LET old == lst[c][k][i] IN
    /\ pc = Idle
    /\ KindOf[o] = k
    /\ ~AttachRaises(c, k, o)
    /\ MayBeAdded(o)
    /\ added' = [AfterRemoval(old) EXCEPT ![o] = TRUE]
    /\ IF synced[c][k]
       THEN /\ CanAttach(o)
            /\ born' = [born EXCEPT ![o] = @ + 1]
            /\ cppObj' = [cppObj EXCEPT ![o] = born[o] + 1, ![old] = 0]
            /\ cppList' = [cppList EXCEPT ![k][i] = <<o, born[o] + 1>>]
       ELSE UNCHANGED <<born, cppObj, cppList>>
    /\ lst' = [lst EXCEPT ![c][k][i] = o]
    /\ UNCHANGED <<synced, scheduled, integrator, operations, cppIntegrator,
                   user, mishaps, pc>>

DelItem(c, k, i) ==
    LET old == lst[c][k][i] IN
    /\ pc = Idle
    /\ added' = AfterRemoval(old)
    /\ IF synced[c][k]
       THEN /\ cppList' = [cppList EXCEPT ![k] = RemoveAt(@, i)]
            /\ cppObj' = [cppObj EXCEPT ![old] = 0]
       ELSE UNCHANGED <<cppObj, cppList>>
    /\ lst' = [lst EXCEPT ![c][k] = RemoveAt(@, i)]
    /\ UNCHANGED <<synced, scheduled, integrator, operations, born,
                   cppIntegrator, user, mishaps, pc>>

-----------------------------------------------------------------------------
(***************************************************************************)
(* The integrator.  hoomd.md attaches the forces and methods before it     *)
(* tells the C++ System about the integrator, so an incomplete force stops *)
(* it before System::setIntegrator; the other integrators are incomplete   *)
(* in their own parameters, which are validated after that call.           *)
(***************************************************************************)
SetsCpp(o) == o \notin incomplete \/ o \notin Dynamic

AttachIntegrator(o) ==
    cppIntegrator' = IF SetsCpp(o) THEN <<o, born[o] + 1>> ELSE cppIntegrator

\* A mishap: the C++ System was not told about the integrator.
NotTold(o) == IF SetsCpp(o) THEN {} ELSE {"not told"}

\* A mishap: another container has the integrator, too.  A container without a
\* simulation does not mark its integrator as added.
Shared(c, op) ==
    IF op # NoObj /\ \E d \in Container \ {c} : integrator[d] = op THEN {"shared"} ELSE {}

\* The setter without the branch that attaches to a scheduled container.
SetIntegrator_NotAttached(c, op) ==
    LET old == integrator[c]
        given == IF op = NoObj THEN added ELSE [added EXCEPT ![op] = HasSimulation(c)]
    IN
    /\ pc = Idle
    /\ op # NoObj => MayBeAdded(op)
    /\ integrator' = [integrator EXCEPT ![c] = op]
    /\ IF old = NoObj
       THEN added' = given /\ UNCHANGED cppObj
       ELSE /\ added' = [given EXCEPT ![old] = FALSE]
            /\ cppObj' = [cppObj EXCEPT ![old] = 0]
    /\ UNCHANGED <<lst, synced, scheduled, operations, born, cppList,
                   cppIntegrator, user, mishaps, pc>>

\* Operations.integrator = op.  The object belongs to the container's
\* simulation from here on, which is None when the container has none.  The
\* old integrator is only given up when attaching did not raise.
SetIntegrator(c, op) ==
    LET old == integrator[c]
        attach == scheduled[c] /\ op # NoObj
        raises == attach /\ op \in incomplete
        given == IF op = NoObj THEN added ELSE [added EXCEPT ![op] = HasSimulation(c)]
        create == IF attach THEN [cppObj EXCEPT ![op] = born[op] + 1] ELSE cppObj
    IN
    /\ pc = Idle
    /\ op # NoObj => MayBeAdded(op)
    /\ attach => CanAttach(op)
    /\ integrator' = [integrator EXCEPT ![c] = op]
    /\ born' = IF attach THEN [born EXCEPT ![op] = @ + 1] ELSE born
    /\ IF attach THEN AttachIntegrator(op) ELSE UNCHANGED cppIntegrator
    /\ IF old = NoObj \/ raises
       THEN added' = given /\ cppObj' = create
       ELSE /\ added' = [given EXCEPT ![old] = FALSE]
            /\ cppObj' = [create EXCEPT ![old] = 0]
    /\ mishaps' = mishaps \union Shared(c, op)
                          \union (IF attach THEN NotTold(op) ELSE {})
    /\ UNCHANGED <<lst, synced, scheduled, operations, cppList, user, pc>>

-----------------------------------------------------------------------------
(***************************************************************************)
(* _schedule, one step for the integrator and one for each list.           *)
(***************************************************************************)

\* Simulation.run() of a container that is not scheduled yet.
Run ==
    /\ pc = Idle
    /\ ~scheduled[operations]
    /\ \A o \in Obj : CanAttach(o)
    /\ pc' = AtIntegrator
    /\ UNCHANGED <<lst, synced, scheduled, integrator, operations, added,
                   cppObj, born, cppList, cppIntegrator, user, mishaps>>

\* An integrator that has a C++ object is not attached again.
ScheduleIntegrator ==
    LET o == integrator[operations] IN
    /\ pc = AtIntegrator
    /\ IF o = NoObj \/ (o # NoObj /\ cppObj[o] # 0)
       THEN UNCHANGED <<added, cppObj, born, cppIntegrator, mishaps>> /\ pc' = 1
       ELSE /\ added' = [added EXCEPT ![o] = TRUE]
            /\ Attached({o})
            /\ AttachIntegrator(o)
            /\ mishaps' = mishaps \union NotTold(o)
            /\ pc' = IF o \in incomplete THEN Idle ELSE 1
    /\ UNCHANGED <<lst, synced, scheduled, integrator, operations, cppList, user>>

\* SyncedList._sync: the items are attached and appended in turn, n of them up
\* to the first one that raises; what was appended stays in the C++ list, a
\* mishap.
SyncList(k, n) ==
    LET l == lst[operations][k]
        raises == n < Len(l)
        tried == {l[i] : i \in 1 .. (IF raises THEN n + 1 ELSE n)}
    IN
    /\ \A i \in 1 .. n : l[i] \notin incomplete
    /\ raises => l[n + 1] \in incomplete
    /\ Attached(tried)
    /\ added' = [o \in Obj |-> o \in tried \/ added[o]]
    /\ cppList' = [cppList EXCEPT
                     ![k] = @ \o [i \in 1 .. n |-> <<l[i], cppObj'[l[i]]>>]]
    /\ synced' = [synced EXCEPT ![operations][k] = ~raises]
    /\ mishaps' = mishaps \union (IF raises /\ n > 0 THEN {"appended"} ELSE {})
    /\ pc' = IF raises THEN Idle ELSE pc + 1

Sync ==
    /\ pc \in 1 .. Len(Kinds)
    /\ IF synced[operations][Kinds[pc]]
       THEN pc' = pc + 1 /\ UNCHANGED <<synced, added, cppObj, born, cppList, mishaps>>
       ELSE \E n \in 0 .. Len(lst[operations][Kinds[pc]]) : SyncList(Kinds[pc], n)
    /\ UNCHANGED <<lst, scheduled, integrator, operations, cppIntegrator, user>>

\* The end of _schedule.  Every list has been synced.
Scheduled ==
    /\ pc = Len(Kinds) + 1
    /\ scheduled' = [scheduled EXCEPT ![operations] = TRUE]
    /\ pc' = Idle
    /\ UNCHANGED <<lst, synced, integrator, operations, added, cppObj, born,
                   cppList, cppIntegrator, user, mishaps>>

\* _unschedule: the integrator and the items of the synced lists are detached.
\* _unsync drops the reference to the C++ list, it does not empty it.
Detached(c) ==
    [o \in Obj |->
        IF \/ o = integrator[c]
           \/ \E k \in Kind : synced[c][k] /\ o \in Items(lst[c][k])
        THEN 0 ELSE cppObj[o]]

\* _detach_value(item, False) that removes the item all the same.
AddedAfterUnsync_Removed(c) ==
    [o \in Obj |-> added[o] /\ ~\E k \in Kind : synced[c][k] /\ o \in Items(lst[c][k])]

\* Items keep the placeholder of their list, so they still count as added.
AddedAfterUnsync(c) == added

\* _unsync that leaves _synced set.
SyncedAfterUnsync_Kept(c) == synced

SyncedAfterUnsync(c) == [synced EXCEPT ![c] = [k \in Kind |-> FALSE]]

\* Mishaps: the C++ lists still hold what a replaced container put there, and
\* _unschedule is not called for one whose scheduling was left half way.
Begun(c) ==
    \/ integrator[c] # NoObj /\ cppObj[integrator[c]] # 0
    \/ \E k \in Kind : synced[c][k]
Left(c) == IF scheduled[c] THEN {"replaced"} ELSE IF Begun(c) THEN {"abandoned"} ELSE {}

\* Simulation.operations = c.  A container that was scheduled is unscheduled,
\* and the new one is scheduled in its place.
SetOperations(c) ==
    /\ pc = Idle
    /\ c # operations
    /\ ~scheduled[c]
    /\ operations' = c
    /\ IF scheduled[operations]
       THEN /\ \A o \in Obj : CanAttach(o)
            /\ cppObj' = Detached(operations)
            /\ added' = AddedAfterUnsync(operations)
            /\ synced' = SyncedAfterUnsync(operations)
            /\ scheduled' = [scheduled EXCEPT ![operations] = FALSE]
            /\ pc' = AtIntegrator
       ELSE UNCHANGED <<synced, scheduled, cppObj, added, pc>>
    /\ mishaps' = mishaps \union Left(operations)
    /\ UNCHANGED <<lst, integrator, born, cppList, cppIntegrator, user>>

\* The user sets the missing parameters of an object.
Complete(o) ==
    /\ pc = Idle
    /\ o \in incomplete
    /\ incomplete' = incomplete \ {o}
    /\ UNCHANGED <<lst, synced, scheduled, integrator, operations, added,
                   cppObj, born, cppList, cppIntegrator, script, mishaps, pc>>

Next ==
    \/ \E c \in script.containers, k \in Kind, o \in Op \intersect script.objects :
          \/ AddingRaises(c, k, o)
          \/ \E i \in 1 .. Len(lst[c][k]) + 1 : Insert(c, k, i, o)
          \/ \E i \in 1 .. Len(lst[c][k]) : SetItem(c, k, i, o)
    \/ \E c \in script.containers, k \in Kind :
          \E i \in 1 .. Len(lst[c][k]) : DelItem(c, k, i)
    \/ \E c \in script.containers, op \in (Integ \intersect script.objects) \union {NoObj} :
          SetIntegrator(c, op)
    \/ Run
    \/ ScheduleIntegrator
    \/ Sync
    \/ Scheduled
    \/ \E c \in script.containers : SetOperations(c)
    \/ \E o \in Obj : Complete(o)

Spec == Init /\ [][Next]_vars

-----------------------------------------------------------------------------
(***************************************************************************)
(* Properties                                                              *)
(***************************************************************************)

\* Between two calls of the user, the vectors of a scheduled System hold the
\* current C++ objects of the Python lists, one each and in the same order, so
\* that run() executes exactly the operations the user sees ("This class ensures
\* that standard list methods affect both Python and C++.", SyncedList).
CppMirrorsPython ==
    pc = Idle /\ scheduled[operations] =>
        \A k \in Kind :
            LET l == lst[operations][k] IN cppList[k] = [i \in DOMAIN l |-> Cpp(l[i])]

(***************************************************************************)
(* The vectors mirror the lists in spite of objects whose attaching raises *)
(* and of other containers, unless _sync raised when it had appended       *)
(* something, or the simulation's container was exchanged once scheduling  *)
(* had begun.                                                              *)
(***************************************************************************)
ListsMirrored ==
    mishaps \intersect {"appended", "replaced", "abandoned"} = {} => CppMirrorsPython

(***************************************************************************)
(* A scheduled System integrates with the C++ object of the integrator the *)
(* user assigned, whatever integrators were assigned before and whenever,  *)
(* also when the container was exchanged, unless a force or a method of an *)
(* integrator raised, an integrator was assigned to two containers, or a   *)
(* container was exchanged that had been scheduled half way.               *)
(***************************************************************************)
RunsItsIntegrator ==
    /\ mishaps \intersect {"not told", "shared", "abandoned"} = {}
    /\ pc = Idle /\ scheduled[operations] /\ integrator[operations] # NoObj
    => cppIntegrator = Cpp(integrator[operations])

\* No operation is in two lists, or twice in one, of all the containers, also after
\* calls that failed half way, and the flag _added that _attach_value checks for this
\* is set for everything in a list, also after _unsync: the check never goes blind.
OnePlace ==
    \A c, d \in Container, j, k \in Kind :
        \A m \in DOMAIN lst[c][j], n \in DOMAIN lst[d][k] :
            /\ lst[c][j][m] = lst[d][k][n] => <<c, j, m>> = <<d, k, n>>
            /\ added[lst[c][j][m]]

\* Every item of a synced list has a C++ object, however often the list was
\* synced, unsynced and left half way.
SyncedIsAttached ==
    \A c \in Container, k \in Kind :
        synced[c][k] => \A o \in Items(lst[c][k]) : cppObj[o] # 0

=============================================================================
