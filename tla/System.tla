------------------------------- MODULE System -------------------------------
(***************************************************************************)
(* The run loop: System::run (hoomd/System.cc) with the triggers of the    *)
(* operations, the particle data flags, the degrees of freedom of the      *)
(* particle groups, the MD integrator (hoomd/md/IntegratorTwoStep.cc) and  *)
(* the caching of forces (hoomd/Compute.cc, hoomd/ForceCompute.cc).        *)
(*                                                                         *)
(* Forces are not numbers here.  The model keeps what the arrays hold:     *)
(* force.current says that the arrays of the force were computed from the  *)
(* particles as they are now and in their present order, force.flags for   *)
(* which optional quantities, and net the same for the net force in the    *)
(* particle data, with the number of times the rigid bodies were added.    *)
(* Operations are executed one per step, the user acts between two runs,   *)
(* and an operation, a force or a signal handler may raise, which leaves   *)
(* run() at that point.  The MPI communication of run() is the subject of  *)
(* Communicator.tla; accelerations, statistics and timing are left out.    *)
(***************************************************************************)
EXTENDS Trigger

CONSTANTS
    Tuners, Updaters, Writers,  \* m_tuners, m_updaters, m_analyzers
    Sorter,         \* the tuners that reorder the particles
    Mover,          \* the updaters that may move particles or the box
    Filterer,       \* the updaters that may change degrees of freedom
    Requested,      \* [operation -> the flags it requests when it acts]
    Flag,           \* the particle data flags
    Choices,        \* [operation -> the triggers the user gives it]
    Raising,        \* what may raise: "operation", "force"
    MaxFailures,    \* bound: computations of the force that raise
    MaxStep,        \* bound: largest time step reached
    MaxRun          \* bound: steps of one run

Members(s) == {s[i] : i \in DOMAIN s}
Op == Members(Tuners) \union Members(Updaters) \union Members(Writers)

\* Positions of a list hold different operations.
Distinct(s) == \A i, j \in DOMAIN s : s[i] = s[j] => i = j

\* The lists have no operation in common and none twice (OnePlace of
\* Operations.tla).
ASSUME SystemAssumption ==
    /\ {Tuners, Updaters, Writers} \subseteq Seq(Op)
    /\ Distinct(Tuners) /\ Distinct(Updaters) /\ Distinct(Writers)
    /\ Members(Tuners) \intersect Members(Updaters) = {}
    /\ Members(Writers) \intersect (Members(Tuners) \union Members(Updaters)) = {}
    /\ Requested \in [Op -> SUBSET Flag]
    /\ Choices \in [Op -> SUBSET Object]
    /\ {MaxStep, MaxRun, MaxFailures} \subseteq Nat /\ MaxStep < 2^Width - 1
    /\ Raising \subseteq {"operation", "force"}

VARIABLES
    cur,        \* m_cur_tstep
    end,        \* m_end_tstep
    pc, idx,    \* where run() is, and in which entry of a list
    atStart,    \* write_at_start
    cache,      \* the caches of the triggers
    trigger,    \* [Op -> Object]: m_trigger of each operation
    flags,      \* ParticleData::m_flags
    dofNext,    \* m_update_group_dof_next_step
    dofKnown,   \* the groups' degrees of freedom are those of the current groups
    dofLost,    \* groups were changed by an updater that raised, nobody had asked for
                \* a count, and there was none since
    comp,       \* the members of Compute and ForceCompute that decide on caching; void
                \* says that m_last_computed is a step at which the force raised, or at
                \* which particles moved afterwards and the step was given up
    force,      \* what the arrays of the force hold
    failures,   \* computations of the force that raised
    rigid,      \* copies of m_rigid_bodies in m_constraint_forces
    net,        \* what the net force and virial in the particle data hold
    done,       \* the last decision of run() about an operation
    last        \* [Op -> the last step at which it acted in the loop], forgotten
                \* when that step raised and was given up

loop   == <<cur, end, pc, idx, atStart>>
dof    == <<dofNext, dofKnown, dofLost>>
forces == <<comp, force, failures, rigid, net>>
vars   == <<loop, cache, trigger, flags, dof, forces, done, last>>

Never == -1
NoDecision == [known |-> FALSE]
Phase == {"idle", "prepRun", "start", "tuners", "updaters", "integrate", "writers",
          "signals"}

Init ==
    /\ cur = 0 /\ end = 0 /\ pc = "idle" /\ idx = 1 /\ atStart = FALSE
    /\ cache = [o \in Object |-> Fresh]
    /\ trigger \in {f \in [Op -> Object] : \A o \in Op : f[o] \in Choices[o]}
    /\ flags = {}
    /\ dofNext = TRUE /\ dofKnown = FALSE /\ dofLost = FALSE
    /\ comp = [first |-> TRUE, last |-> 0, sorted |-> FALSE, flags |-> {}, void |-> FALSE]
    /\ force = [current |-> FALSE, flags |-> {}]
    /\ failures = 0
    /\ rigid = 0
    /\ net = [current |-> FALSE, flags |-> {}, rigid |-> 0]
    /\ done = NoDecision
    /\ last = [o \in Op |-> Never]

-----------------------------------------------------------------------------
(* The flags. *)

\* The operations whose triggers announce that they act at step t.
ActingAt(t) == {o \in Op : Answer(trigger[o], t, cache)}

\* setFlags(determineFlags(t)): every trigger is asked.
SetFlags(t) ==
    /\ flags' = UNION {Requested[o] : o \in ActingAt(t)}
    /\ cache' = Remembered({trigger[o] : o \in Op}, t, cache)

-----------------------------------------------------------------------------
(* Forces. *)

\* Compute::shouldCompute.  forceCompute(), which sets m_force_compute, is not
\* called for forces.
ShouldCompute(t) == comp.first \/ comp.last # t

\* Mutant: a sort is not noticed.
Recompute_SortIgnored(t) == ShouldCompute(t) \/ flags # comp.flags

\* Mutant: new flags are not noticed.
Recompute_FlagsIgnored(t) == comp.sorted \/ ShouldCompute(t)

\* The condition of ForceCompute::compute.
Recompute(t) == comp.sorted \/ ShouldCompute(t) \/ flags # comp.flags

\* What shouldCompute leaves behind; it is not called when the particles were
\* sorted (the disjunction stops there).
AfterAsking(t) == IF comp.sorted THEN comp ELSE [comp EXCEPT !.first = FALSE, !.last = t]

\* IntegratorTwoStep::computeNetForce pushes the rigid bodies and pops them.
Popped(n) == n - 1

(***************************************************************************)
(* IntegratorTwoStep::computeNetForce and Integrator::computeNetForce:     *)
(* every force is computed if its cache says so, then summed, the rigid    *)
(* bodies as one of the constraint forces.  held is what the arrays of the *)
(* force hold when it starts.                                              *)
(***************************************************************************)
computeNetForce(t, held) ==
    LET f == IF Recompute(t) THEN [current |-> TRUE, flags |-> flags] ELSE held
        c == AfterAsking(t)
    IN /\ force' = f
       /\ comp' = [c EXCEPT !.sorted = FALSE, !.flags = flags,
                            !.void = @ /\ ~(Recompute(t) /\ c.last = t)]
       /\ net' = [current |-> f.current, flags |-> f.flags, rigid |-> rigid + 1]
       /\ rigid' = Popped(rigid + 1)
       /\ UNCHANGED failures

\* computeForces() of the force raises: the rigid bodies were pushed, and unless
\* the particles were sorted the cache of the force says that it was computed.
computeNetForceRaises(t, held) ==
    /\ "force" \in Raising
    /\ Recompute(t)
    /\ failures < MaxFailures
    /\ failures' = failures + 1
    /\ force' = [held EXCEPT !.current = FALSE]
    /\ comp' = [AfterAsking(t) EXCEPT !.void = @ \/ ~comp.sorted]
    /\ rigid' = rigid + 1

-----------------------------------------------------------------------------
(* run(). *)

Goto(p) == pc' = p /\ idx' = 1

Raised == Goto("idle") /\ UNCHANGED <<cur, end, atStart>>

\* An exception ends a step that was not counted yet: the operations that acted
\* in it may act at this time step again, and if particles moved without a sort
\* the cache of the force does not know.
GivenUp == last' = [o \in Op |-> Never]
Overtaken(c, f) == [c EXCEPT !.void = @ \/ (~f.current /\ ~c.sorted)]

\* The groups are counted again when that was asked for.
UpdateGroupDOF ==
    IF dofNext THEN dofNext' = FALSE /\ dofKnown' = TRUE /\ dofLost' = FALSE
    ELSE UNCHANGED dof

\* System::run up to prepRun: the flags are set for the operations that act at
\* the present step.
Run(n, w) ==
    /\ pc = "idle"
    /\ cur + n <= MaxStep
    /\ end' = cur + n
    /\ atStart' = w
    /\ SetFlags(cur)
    /\ UpdateGroupDOF
    /\ done' = NoDecision
    /\ Goto("prepRun")
    /\ UNCHANGED <<cur, trigger, forces, last>>

\* Mutant: after the last step run() starts over.
NextStep_StartsOver == IF cur < end THEN "tuners" ELSE "start"

\* The condition of the loop over the steps.
NextStep == IF cur < end THEN "tuners" ELSE "idle"

PrepRun ==
    /\ pc = "prepRun"
    /\ computeNetForce(cur, force)
    /\ Goto(IF atStart THEN "start" ELSE NextStep)
    /\ UNCHANGED <<cur, end, atStart, cache, trigger, flags, dof, done, last>>

PrepRunRaises ==
    /\ pc = "prepRun"
    /\ computeNetForceRaises(cur, force)
    /\ Raised
    /\ UNCHANGED <<cache, trigger, flags, dof, net, done, last>>

\* The next operation of list ops is asked about; it acts, or not.
Decide(ops) ==
    LET o == ops[idx]
    IN /\ cache' = Remembered({trigger[o]}, cur, cache)
       /\ done' = [known |-> TRUE, op |-> o, at |-> cur,
                   acted |-> Answer(trigger[o], cur, cache)]

Acted == done'.acted

MayRaise == "operation" \in Raising

Visit(p, ops) == pc = p /\ idx \in DOMAIN ops /\ Decide(ops)

GoOn == idx' = idx + 1 /\ UNCHANGED <<cur, end, pc, atStart>>

Executed(o) == last' = IF Acted THEN [last EXCEPT ![o] = cur] ELSE last

\* Writers on the initial step.
WriteAtStart ==
    /\ Visit("start", Writers)
    /\ GoOn \/ (Acted /\ MayRaise /\ Raised)
    /\ UNCHANGED <<trigger, flags, dof, forces, last>>

\* A sorter reorders the particles and with them the net force, not the arrays
\* of the forces, and emits the sort signal.  One that raises may have done so: it
\* communicates before and afterwards.
Tune ==
    /\ Visit("tuners", Tuners)
    /\ \E sorts \in BOOLEAN :
          LET o == Tuners[idx]
              c == [comp EXCEPT !.sorted = @ \/ sorts]
          IN /\ force' = [force EXCEPT !.current = @ /\ ~sorts]
             /\ \/ /\ GoOn
                   /\ Executed(o)
                   /\ sorts = (Acted /\ o \in Sorter)
                   /\ comp' = c
                \/ /\ Acted /\ MayRaise /\ Raised /\ GivenUp
                   /\ sorts => o \in Sorter
                   /\ comp' = Overtaken(c, force')
    /\ UNCHANGED <<trigger, flags, dof, failures, rigid, net>>

\* Mutant: the last updater's answer replaces the others'.
MayChange_Assigned(o) == o \in Filterer

\* m_update_group_dof_next_step |= updater->mayChangeDegreesOfFreedom(...)
MayChange(o) == dofNext \/ o \in Filterer

\* What an updater did before it raised stays: the particles it moved, and the
\* groups a FilterUpdater filled before it came to the filter that raised.  It is
\* not asked whether it may have changed the degrees of freedom.
Update ==
    /\ Visit("updaters", Updaters)
    /\ \E moves, changes \in BOOLEAN :
          LET o == Updaters[idx]
          IN /\ moves => Acted /\ o \in Mover
             /\ changes => Acted /\ o \in Filterer
             /\ dofKnown' = (dofKnown /\ ~changes)
             /\ force' = [force EXCEPT !.current = @ /\ ~moves]
             /\ net' = [net EXCEPT !.current = @ /\ ~moves]
             /\ \/ /\ GoOn
                   /\ Executed(o)
                   /\ dofNext' = IF Acted THEN MayChange(o) ELSE dofNext
                   /\ UNCHANGED <<comp, dofLost>>
                \/ /\ Acted /\ MayRaise /\ Raised /\ GivenUp
                   /\ comp' = Overtaken(comp, force')
                   /\ dofLost' = (dofLost \/ (changes /\ ~dofNext))
                   /\ UNCHANGED dofNext
    /\ UNCHANGED <<trigger, flags, failures, rigid>>

\* The end of a list.
EndOfWritersAtStart ==
    /\ pc = "start" /\ idx > Len(Writers)
    /\ Goto(NextStep)
    /\ UNCHANGED <<cur, end, atStart, cache, trigger, flags, dof, forces, done, last>>

EndOfTuners ==
    /\ pc = "tuners" /\ idx > Len(Tuners)
    /\ Goto("updaters")
    /\ UNCHANGED <<cur, end, atStart, cache, trigger, flags, dof, forces, done, last>>

\* After the updaters: the groups are counted, the flags are set for the
\* operations that act at the next step.
EndOfUpdaters ==
    /\ pc = "updaters" /\ idx > Len(Updaters)
    /\ UpdateGroupDOF
    /\ SetFlags(cur + 1)
    /\ Goto("integrate")
    /\ UNCHANGED <<cur, end, atStart, trigger, forces, done, last>>

Moved == [force EXCEPT !.current = FALSE]

\* Mutant: the step is not counted.
Counted_Not(t) == t

\* m_cur_tstep++
Counted(t) == t + 1

\* IntegratorTwoStep::update, after which the step is counted.
Integrate ==
    /\ pc = "integrate"
    /\ computeNetForce(cur + 1, Moved)
    /\ cur' = Counted(cur)
    /\ Goto("writers")
    /\ UNCHANGED <<end, atStart, cache, trigger, flags, dof, done, last>>

IntegrateRaises ==
    /\ pc = "integrate"
    /\ computeNetForceRaises(cur + 1, Moved)
    /\ net' = [net EXCEPT !.current = FALSE]
    /\ Raised
    /\ GivenUp
    /\ UNCHANGED <<cache, trigger, flags, dof, done>>

Write ==
    /\ Visit("writers", Writers)
    /\ \/ GoOn /\ Executed(Writers[idx])
       \/ Acted /\ MayRaise /\ Raised /\ UNCHANGED last
    /\ UNCHANGED <<trigger, flags, dof, forces>>

EndOfWriters ==
    /\ pc = "writers" /\ idx > Len(Writers)
    /\ Goto("signals")
    /\ UNCHANGED <<cur, end, atStart, cache, trigger, flags, dof, forces, done, last>>

\* PyErr_CheckSignals: an interrupt leaves run(), otherwise the next step starts.
CheckSignals ==
    /\ pc = "signals"
    /\ Goto(NextStep) \/ Goto("idle")
    /\ UNCHANGED <<cur, end, atStart, cache, trigger, flags, dof, forces, done, last>>

-----------------------------------------------------------------------------
(* The user, between two runs. *)

\* State.set_snapshot: new particles, the sort signal, and a request to count
\* the degrees of freedom.
SetSnapshot ==
    /\ pc = "idle"
    /\ dofNext' = TRUE /\ dofKnown' = FALSE /\ dofLost' = FALSE
    /\ comp' = [comp EXCEPT !.sorted = TRUE]
    /\ force' = [force EXCEPT !.current = FALSE]
    /\ net' = [net EXCEPT !.current = FALSE]
    /\ UNCHANGED <<loop, cache, trigger, flags, failures, rigid, done, last>>

\* An operation gets another trigger.
SetTrigger(o, t) ==
    /\ pc = "idle"
    /\ trigger' = [trigger EXCEPT ![o] = t]
    /\ done' = NoDecision
    /\ UNCHANGED <<loop, cache, flags, dof, forces, last>>

RunLoop ==
    \/ PrepRun \/ PrepRunRaises
    \/ WriteAtStart \/ EndOfWritersAtStart
    \/ Tune \/ EndOfTuners
    \/ Update \/ EndOfUpdaters
    \/ Integrate \/ IntegrateRaises
    \/ Write \/ EndOfWriters
    \/ CheckSignals

Next ==
    \/ \E n \in 0 .. MaxRun, w \in BOOLEAN : Run(n, w)
    \/ RunLoop
    \/ SetSnapshot
    \/ \E o \in Op : \E t \in Choices[o] : SetTrigger(o, t)

\* run() goes on until it returns: it is one thread that never waits.
Spec == Init /\ [][Next]_vars /\ WF_vars(RunLoop)

-----------------------------------------------------------------------------
(* Properties. *)

Acting == done.known /\ done.acted

(***************************************************************************)
(* An operation acts at a step exactly when the documented function of its *)
(* trigger says so (hoomd/trigger.py: "A `Trigger` is a boolean valued     *)
(* function of the timestep ... A single trigger object may be assigned to *)
(* multiple operations"), although determineFlags asks the same objects    *)
(* about the next step in between and the objects share their caches.      *)
(***************************************************************************)
ActsAsDocumented == done.known => done.acted = Meaning(trigger[done.op], done.at)

(***************************************************************************)
(* An operation that acts finds the optional quantities it requested: the  *)
(* flags were set before the forces of that step were computed ("so that   *)
(* any analyzers/updaters run on step 0 have the info they need",          *)
(* System.cc:90), also when triggers are exchanged, runs are interrupted   *)
(* and forces are not recomputed.                                          *)
(***************************************************************************)
FlagsServed ==
    pc \in {"start", "tuners", "updaters", "writers"} /\ Acting /\ done.at = cur
        => Requested[done.op] \subseteq net.flags

(***************************************************************************)
(* Writers see the net force of the particles as they are: after prepRun,  *)
(* when the user replaced the state between two runs at the same step, and *)
(* after every step.  The exception is the step that m_last_computed names *)
(* although the force raised there, or although particles moved there      *)
(* before the step was given up: the force is not computed for it, be it   *)
(* when run() starts again or, after a sort, one step later.  As long as   *)
(* no force has raised, the rigid bodies are in the sum once.              *)
(***************************************************************************)
WritersSeeForces ==
    pc \in {"start", "writers"} =>
        /\ ~comp.void => net.current
        /\ failures = 0 => net.rigid = 1

(***************************************************************************)
(* The integrator steps with the degrees of freedom of the current groups: *)
(* a change by any updater of a step, or by the user, is counted before    *)
(* the next integration, also when an operation after it raised, an        *)
(* interrupt ended the run, or the run that asked for the count is not the *)
(* one that integrates.  The exception are groups changed by an updater    *)
(* that raised itself, which skips the request (System.cc:145): they are   *)
(* counted with the next change that is asked for, and only then.          *)
(***************************************************************************)
DegreesOfFreedomKnown == pc = "integrate" => dofKnown \/ dofLost

(***************************************************************************)
(* The rigid bodies contribute once to the net force, as hoomd/md/         *)
(* constrain.py documents it: F_b' = F_b + sum_c F_c.                      *)
(***************************************************************************)
RigidOnce == pc \in {"start", "tuners", "updaters", "integrate", "writers", "signals"}
                 => net.rigid = 1

(***************************************************************************)
(* m_cur_tstep advances when the integrator is through: however often run  *)
(* is interrupted and called again, a tuner or an updater acts at most     *)
(* once at a time step, unless something raised within that step.          *)
(***************************************************************************)
OncePerStep ==
    [][/\ pc = "tuners" /\ idx \in DOMAIN Tuners /\ Acted => last[Tuners[idx]] < cur
       /\ pc = "updaters" /\ idx \in DOMAIN Updaters /\ Acted
             => last[Updaters[idx]] < cur]_vars

\* Every run ends.
RunReturns == pc # "idle" ~> pc = "idle"

=============================================================================
