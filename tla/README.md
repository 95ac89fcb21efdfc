# Verification project for HOOMD-blue

TLA+ models of the stateful core of HOOMD-blue, model-checked with TLC on small
instances and, for seven components, proved with TLAPS for every instance.

1. [The system and its parts](#the-system-and-its-parts)
2. [Modules](#modules)
3. [Runs](#runs)
4. [Bounds and fairness](#bounds-and-fairness)
5. [Proofs](#proofs)
6. [Disagreements met while modelling](#disagreements-met-while-modelling)
7. [Not modelled](#not-modelled)

## The system and its parts

HOOMD-blue is a particle simulation engine: C++ classes (CPU, with GPU
subclasses) driven from Python, optionally distributed over MPI ranks by spatial
domain decomposition.  What is hard to get right, beside the arithmetic of the
force fields, is the state around it:

* arrays mirrored between host and device (`GPUArray`, `GlobalArray`, `GPUVector`);
* particles addressed by index, tag and reverse tag, reordered, migrated between
  ranks and shadowed by ghosts (`ParticleData`, `Communicator`);
* results cached per time step (`Compute`, `Trigger`, `NeighborList`) while
  signals announce reordering, migration and resizing;
* one run loop (`System::run`) that interleaves tuners, updaters, the integrator and
  writers, and looks one step ahead to find out what must be computed;
* Python lists of operations kept in step with C++ lists, where attaching may raise.

The parts, their state and the operations on it:

| part | state | operations | concurrency and failures | modelled in |
| --- | --- | --- | --- | --- |
| `GPUArray` | two memories, which of them is valid, shape, lock | construct, acquire, release, resize, assign, swap | acquire throws after locking | `GPUArray` |
| `ParticleData` | particle and ghost arrays, reverse lookup, tag set, recycled tags, tag cache | add, remove, set, snapshot, ghosts, pack and unpack | ranks pack and unpack independently; removal throws | `ParticleData` |
| Python operations | four lists, integrator, flags `_added`, `_attached`, `_synced`; C++ lists | list methods, set integrator, swap containers, `run()` | `_attach` raises half way, the user retries | `Operations` |
| triggers | last time step and answer | ask, compose, share | shared objects asked for two steps in turn | `Trigger` |
| run loop, MD integrator, force cache | time step, flags, lists, forces, degrees of freedom | run, tune, update, integrate, write | interrupts, raising operations and forces | `System` |
| domain decomposition, `Communicator` | per rank: flags, ghosts, copy lists, lookup | migrate, exchange and update ghosts | MPI ranks interleave; the box check raises | `Decomposition`, `Communicator` |
| neighbor lists | force and check flags, last positions, pairs | check, build | collective vote | `NeighborList` |
| cell list and the list built from it | flags, dimensions, cells, head list, memory | compute, change box, cutoffs, buffer | memory that grows while it is filled; the box check raises | `CellList`, `NeighborListBinned` |
| bonded groups | groups, lookup, tags, lookup table | add, remove, restore, migrate, mark ghosts, build the table | MPI ranks interleave | `BondedGroupData`, `GroupCommunicator` |
| particle groups, exclusions, rigid bodies | flags set by signals and what is rebuilt from them | access, set, create, validate | remaking raises half way | `ParticleGroup`, `Exclusions`, `RigidBodies`, `Topology` |
| vectors, allocators, load balancer, autotuner, Monte Carlo, MPCD, force fields, I/O, GPU kernels | | | | no, see [Not modelled](#not-modelled) |

`PROJECT.json` lists all parts, with the hazards each is exposed to.

How they interact: `Simulation.run()` schedules the Python operations (`Operations`)
and calls `System::run`, which asks triggers and executes operations (`System`,
`Trigger`).  The integrator calls `Communicator::communicate`, which asks the neighbor
list whether to migrate, moves particles between the ranks' `ParticleData` and
refreshes ghosts (`Communicator`), and the bonds with them (`GroupCommunicator`).
Insertion, removal and sorting are announced by signals; particle groups, lookup tables,
exclusions, rigid bodies (`Topology`) and cell lists (`NeighborListBinned`) note them and
rebuild at the next access.  Everything is stored in `GPUArray`s.

## Modules

A definition has the name of the function or member it models.  Definitions with an
underscore and a suffix (`Plan_Strict`) are faulty variants of the definition that
follows them; no specification uses them.  They record which mistake each property
detects.

### GPUArray, AbstractArray

`GPUArray` has one variable per member (`h_data`, `d_data`, `m_num_elements`, `m_pitch`,
`m_height`, `m_data_location`, `m_acquired`) and, for the clients, the live handles and the
value the last read returned.  `acquire` is the location/mode state machine of
`GPUArray::acquire` with its copies and its two exceptions.  `resize` follows the order of
the code: what is allocated, cleared and copied, and which side is then
valid.  Mapped memory and asynchronous copies are left out.  `CUDAEnabled` is the
set of arrays whose execution configuration has a GPU; arrays are assigned and swapped
within one simulation, that is among arrays with the same configuration.

`AbstractArray` is what a client may rely on: one logical content per array.  Its
`val` is mapped to the copy that `m_data_location` marks valid.  Clients keep at most
one handle per array (`Unused`); the class does not enforce this, see below.

### ParticleData, ParticleTable

`ParticleData` models all ranks.  The collective calls (`addParticle`, `removeParticle`,
`setPosition`, `initializeFromSnapshot`, ...) are single steps, because the ranks
synchronise inside them; packing (`removeParticles`) and unpacking (`addParticles`) of
migrating particles and adding ghosts are steps of single ranks.  What all ranks compute
identically (the tag set, the recycled tags, the tag cache) is kept once.  `m_rtag` keeps its
memory beyond the current size, as the vector does.  A position is the rank
whose domain contains it.

`ParticleTable` is the promise: a table from tags to values.

### Operations

Python objects with `_added`, `_attached`, `_synced` flags, `Operations` containers, and
the C++ `System`'s lists of C++ objects, which are numbered per Python object so that a
stale one is recognised.  Attaching raises for objects with incomplete parameters, at every
place where the code can be left half way; the user may complete them and call `run()`
again.  Python is single threaded: scheduling is split into one step per list, without other
actions in between.  A behaviour follows a script, which says which containers and objects
there are and which objects are incomplete at first.

`mishaps` is a history variable.  It collects what has happened that leaves Python and C++
out of step for good: `_sync` raised after it had appended (`appended`), a scheduled
container was exchanged (`replaced`), or one that was scheduled half way (`abandoned`), a
force or a method of an integrator raised (`not told`), one integrator was assigned to two
containers (`shared`).  The properties about C++ name the mishaps they exclude, so that each
is exact about what the code guarantees and when.

### Trigger, System

`Trigger` has the classes of `Trigger.h` in unsigned arithmetic, their caches and the
short circuit of the composites, over a graph of shared objects.

`System` is `System::run` one operation per step, with look-ahead for flags,
the MD integrator's `prepRun`, `update` and `computeNetForce` (including the temporary entry
of the rigid bodies in the constraint forces), and the caching of forces.  Forces are not
numbers: the model keeps for which particles, order and flags they were computed.  Between
runs the user replaces the state or a trigger; an operation, a force or a signal raises.
What an operation did before it raised stays done: particles moved, groups filled, particles
sorted.  `comp.void` records that the cache names a step whose forces were not computed, or
were computed for particles that have moved since, and `dofLost` that an updater raised after
it had changed groups, so that nobody asked for a count (see below).

### Decomposition, NeighborList, Communicator

`Decomposition` has the grid of domains, neighbors, boundaries and the shifted box with
which received positions are wrapped, in integers and two dimensions; the third axis is
handled by the same lines of code.  `placeParticle` puts a particle of the snapshot that is on
the bound between two domains in the lower one, although the upper one owns it; the first
migration corrects that.  Particles outside of the box, for which it throws, are not input.

`NeighborList` has `needsUpdating` with its per-step cache, the force flag that
the first caller consumes, the distance check and what `buildNlist` puts in the list.

`Communicator` composes these with migration, ghost exchange and ghost update.  Each rank
is a process: it runs from one blocking MPI call to the next in one action, since nothing
another rank does can be seen in between.  Messages are first in, first out per pair of
ranks, and a send may or may not complete before the matching receive is
posted (`eager`).  The callers are modelled as far as they call: `System::run`, `prepRun`,
the two communications of the particle sorter, and `update`, in which particles move by an
arbitrary displacement of a small set.  `world` records where the particles really are, for
the properties only.

### BondedGroupData, GroupCommunicator

`BondedGroupData` is the container of one rank as a value, its methods as operators: adding
and removing groups with recycled tags, snapshots, `moveParticleGroups`, and the lookup
table with the exception for a member that is not there.

`GroupCommunicator` runs it on several ranks: `migrateGroups` (first the owners of members
are passed on, then groups are sent and dropped) for every direction of the migration, then
`markGhostParticles` and the ghosts of every direction.  As in `Communicator`, an action
takes a rank from one blocking MPI call to the next.  A position is reduced to what these
functions look at: the domains a particle has moved by and the half of the domain it is in.
There is no pair potential, so a particle is a ghost for a group only; where ghosts of both
kinds meet, `Communicator`'s are by position and cannot go both ways along an axis.

### ParticleGroup, Exclusions, RigidBodies, Topology

The first three are classes as values, with the flags their slots set and the methods that
rebuild at the next access.  `Topology` composes them with the particle data and the bonds:
an action of the user (add or remove a particle or a bond, set a type, sort, restore a
snapshot, assign exclusions or body definitions, create bodies) emits the signals that the
C++ call emits, and separate actions access the subscribers.  A
behaviour watches one of the four subscribers, chosen at the start: none changes what
another reads, except that creating bodies loads a snapshot, which the others have as an
action of its own.  Without MPI.  `nl.beyond`, `rigid.asked` and `rigid.ignored` are history:
that a tag outside of the arrays was excluded, what the user last assigned to `Rigid.body`,
and for which types that was `None` and not taken up.  Detaching reads the definitions back
from C++, as `TypeParameterDict._detach` does.

### CellList, NeighborListBinned

`CellList` has `compute()` as it is written: sorted particles only bin again, a changed
box or width recomputes dimensions and memory, an overflowing cell grows and the
binning starts over.  Coordinates are integers; a cell is found by the quotient that
`makeFraction` and the truncation give.  `NeighborListBinned` has the
list that is built from it: the largest cutoff of the forces, the distance check in a box
that shrinks (`lambda_min`), `buildHeadList`, and the loop that enlarges `m_Nmax` until
the neighbors of every particle fit.

## Runs

| run | instance | result |
| --- | --- | --- |
| `gpuarray` | in a behaviour one of: two 1-D arrays with a GPU, a 2-D array with one, a 1-D array without | handles point to valid copies, valid copies agree; the inductive invariant of the proofs, with rows that fill the memory exactly; the abstract array is implemented through construction, resizing, assignment and swaps |
| `particledata` | two ranks, three tags | no particle is lost or duplicated, lookups are consistent, tags are unique, the tag cache is fresh, snapshots agree with calls by tag, the table is implemented |
| `particledata_angmom` | one rank | violation: finding 1 |
| `operations` | three scripts: one container with three operations and two integrators; two containers with two operations and an integrator, or with one and two; `_attach` of some objects raises until they are completed | the C++ lists and integrator mirror the Python ones unless there was a mishap; no operation is in two places or unadded while listed; none is unattached in a synced list |
| `operations_retry` | an updater with incomplete parameters | violation: finding 2 |
| `system` | six operations, eight triggers, three time steps | operations act as documented and find the flags they requested; writers see current forces unless the force cache is void; degrees of freedom are known unless the updater that changed them raised; no step is repeated; every run returns |
| `system_force_raises` | a force raises | violation: finding 3 |
| `communicator` | two, three and four ranks, two particles | no particle is lost; messages meet the phase and direction they were sent for; migrated particles are in their domain; lookups find each particle once; ghosts are current and neighbor lists complete when forces are computed; nobody waits for ever |
| `bonds` | bonds and an angle over three particles on two, three and four ranks | a group is stored where its members are and nowhere else, its copies name the owners, lookups and tags agree between ranks, every member is on the rank when the table is built, no ghost arrives where the particle is known, messages meet the phase they were sent for |
| `bonds_chain` | four domains in a row, a particle bonded to both sides | violation: finding 4 |
| `derived` | two programs: the subscribers of `Topology` with up to four particles and three bonds; `NeighborListBinned` with up to three particles in boxes that change | group indices and membership, lookup table, exclusions, bodies and molecules are right when accessed after any three changes; the list built from cells has every pair within the cutoff, each neighbor once and in memory of its own |
| `rigid_recreate` | `create_bodies` on a state with bodies | violation: finding 5 |

The findings, each shown by a run:

1. `ParticleData::removeParticle` moves the last particle into the gap without its
   angular momentum and moments of inertia (`ParticleData.cc:2642`).
2. `SyncedList._sync` appends to the C++ list before it can fail and does not undo it: after
   a failed `run()` and a retry the first operation is executed twice per step
   (`syncedlist.py:242`).
3. `IntegratorTwoStep::computeNetForce` leaves the rigid bodies in the list of constraint
   forces when a force raises; later net forces count them twice
   (`IntegratorTwoStep.cc:321`).
4. A ghost is sent on in every direction of its plan.  A particle bonded to partners in both
   neighbor domains comes back as a ghost to the rank that owns it, which overwrites the
   lookup entry of the local particle (`Communicator.cc:2034`, against the assertion at
   2375).  `bonds` excludes such chains (`chains`).
5. `ForceComposite::createRigidBodies` on a state that has bodies drops their central
   particles together with the constituents (`ForceComposite.cc:542`), although
   `constrain.py:309` says that it replaces existing constituents.  `derived` creates bodies
   only where there are none (`Recreate`).

## Bounds and fairness

* `GPUArray`: two values; up to two elements, or `MaxPaired` in each of two arrays, or two
  rows of two columns, where at most `MaxNonzero` elements of the two copies together are not
  zero.  Every branch of `acquire`,
  `resize` and `swap` depends only on locations, modes and whether an array is NULL, and all
  combinations occur.  The proofs have no bound.
* `ParticleData`: two ranks and three tags are the least with which a gap in the middle
  is closed, a tag is recycled while a larger one is in use, and a particle travels while
  another is removed.  The proofs have no bound.
* `Operations`: `MaxAttach` limits how often an object is attached; two is enough to
  attach, detach and attach again, and to retry.  With two containers there are fewer
  objects: what matters is one object that is in one of them, then in the other.  The proofs
  have no bound.
* `System`: three steps let every trigger class change its answer and let the look-ahead
  of one run be used by the next.  `Width` keeps the wrap-around of time steps; `MaxStep` stays
  below the last one, which the constructor of `Trigger` uses as "never asked".  One of the
  updaters changes the number of particles.  The proofs have no bound on the operations, the
  triggers or the steps below the last one.
* `Communicator`: positions are chosen around the boundaries of domains and ghost layers,
  where decisions change, and on them, so that particles start in a domain they must leave.  `Corners` has four domains meeting at a point, so a
  particle is forwarded twice and ghosts travel through an intermediate rank; `Line2` has two
  domains, where both neighbors are the same rank, and a buffer in which particles move
  before the distance check fires; `Line3` has a domain at no boundary; `Retry` raises in
  `checkBoxSize()` and runs again; `Periods` disables distance checks.  Particles move
  less than a domain per step, as the code requires.
* `GroupCommunicator`: three particles and two groups that share one.  `Ring` has
  domains with distinct neighbors on both sides, `Pair` longer sequences of calls with both
  neighbors the same rank, `Sides` particles in both halves of a domain, `Square4` groups
  that travel along both axes, `Angle` three members of which the middle may leave first.
* `Topology`: four tags let a chain have a 1-4 pair and a tag be recycled below the largest;
  three changes suffice to set a flag, have it consumed by a partial rebuild and change
  again.  The snapshots have bodies whose constituent comes before and after its center.
* `NeighborListBinned`: boxes of 7 and 9 with widths of 2 and 3 give two to four cells per
  axis (with fewer than three, an adjacent cell is met twice and has to be filtered); a
  width of 4 does not fit and the box check raises.  There is a contraction that brings two particles across a boundary into the cutoff, and sites in
  corner cells.  `Granule` is 1 instead of 4 so that three particles overflow the memory.

Fairness is assumed in `System` only: weak fairness of the steps of `run()`, a
loop in one thread.  `RunReturns` needs it.  The user is never forced to act.
`Communicator` needs none: `NobodyStuck` says as an invariant that some
rank can go on until the script ends.  Deadlock is checked in every passing run except
`gpuarray`, where an array that a throwing acquire locked leaves nothing to do.

## Proofs

### GPUArray (`GPUArrayProofs`)

From `GPUArrayAssumption` (disjoint sets of 1-D and 2-D arrays, positive
alignment and bound): `Coherence`, `CopiesAgree`, `HandlesValid`, `RowsInBounds` and `Refinement` (the
mirrored array implements `AbstractArray`).  `HostDeviceAgree` is not inductive: a device
handle may write while the host copy is marked valid unless handles are tied to
locations.  `CoherenceInv` adds the types, the location of a live handle, one handle
per array, and that an array which is not mirrored stays on the host.  One lemma per action
shows that it is kept, and one per action that the step maps to a step of the abstract
array or a stutter.

### ParticleData (`ParticleDataLemmas`, `ParticleDataProofs`)

From `ParticleDataAssumption`, for any number of ranks and tags: `TypeCorrect`,
`NoParticleLost`, `LookupsConsistent`, `TagsUnique`, `TagCacheFresh`, `LookupByTag`,
`SnapshotByTag`, and the refinement `TableOfPositions`.  The inductive invariant `IInv` is the
conjunction of the types, `EveryParticleOnce`, `RTagsConsistent`, `TagSpace` and `CacheFresh`:
compaction is correct only because the lookup is exact and every tag names one particle, and
reusing a tag only because active and recycled tags partition an initial segment.
`ParticleDataLemmas` holds the facts about compaction, appending, recomputing the lookup and
listing a set in order, the steps of single ranks and the move of a particle to another rank;
`ParticleDataProofs` inserting and removing a particle, snapshots, the step theorem and the
results.

`TableOfPositions` says that the ranks together implement `ParticleTable`.  The mapping
chooses the particle with a tag among all arrays and buffers.  `At(u, d)` says that a particle
with tag `u` and position `d` is somewhere, and by the invariant the entry of `u` is the only
such `d` (`InvTable`).  So a step that keeps every `At(u, d)` keeps the table (`TableKept`):
packing, unpacking, ghosts, lookups and failed removals stutter; each of the other calls is
followed to the entry it names.

### Trigger and System (`SystemProofs`)

From `TriggerAssumption` (the trigger objects form a finite or infinite graph in which no
object contains itself) and `SystemAssumption` (operations are in one list each, requested
flags are flags, the last step is below the largest number).  Answers are defined by
recursion over the graph, in three ways: with the caches, without, and as documented.
`Determined` and `Solvable` show that such an equation has exactly one solution, by
considering a minimal object at which two solutions differ, and a largest set on which there
is one.  It follows that caching and short circuits never change an answer
(`AnswersAreComputed`), whatever objects are shared, and that regular triggers mean what
`trigger.py` documents (`RegularActsAsDocumented`; `Regular` excludes periods for which the
subtraction wraps, see below).

The inductive invariant has a part for each property.  `FlagsServed` needs that the flags
are those of the step whose forces come next, which is the current step before the
integrator and the following one in it (`FlagsInv`).  `WritersSeeForces` is about writers only,
but the cache may say "computed" long before: `ForcesInv` says of every phase which of the
arrays are current.  `OncePerStep` needs that the operations after the present position
of a list have not acted at this step (`OnceInv`).  All of them use the types, the bounds of
the steps and that caches are right (`CachesInv`).  Theorems: `OperationsAreServed`,
`ForcesAreSeen`, `DegreesOfFreedomAreKnown`, `ActOncePerStep`, for all lists of operations,
triggers and bounds, and whatever raises.  The second and the third have the exceptions that
their properties name, `comp.void` and `dofLost`: `DofInv` says that what is not known will be
counted or is lost, and that no request is left when the integrator steps.

### Operations (`OperationsProofs`)

From `OperationsAssumption`, for any number of containers, lists, objects and scripts:
`InOnePlace`, `SyncedItemsAreAttached`, `VectorsMirrorLists`, `SystemHasIntegrator`.
`OnePlace` is inductive with the types, because it includes the flag the code checks.  The
others need that only the simulation's container is scheduled and how far scheduling has got
(`ScheduleInv`), that vectors of lists that are not synced are empty and that no other
container has a synced list (`MirrorInv`), and that no two containers share an integrator
(`IntegratorInv`), each unless one of the mishaps it names has happened.
The module begins with what inserting into and removing from a sequence does to its elements
and what each method does to both lists; the parts of the invariant follow one by one.

### Particle groups (`ParticleGroupProofs`, `TopologyProofs`)

From `TopologyAssumption` (a sort permutes, snapshots fit the bound on tags), for any number of
particles and changes: `GroupIndices` (`GroupIndexRight`) and `GroupMembers`
(`MembershipCurrent`).  Both properties speak of what the next access will return, so the
inductive invariant `IInv` has to say what a group that is out of date still has right, and
which flag stands for what is missing.  Unless the number of particles has changed, the
members are particles, those selected but for the retyped ones, with a hash and arrays of the
present sizes (`MembersOK`); unless the particles were sorted too, the index list is that of
the members (`IndicesOK`).  One lemma per method of the group carries this through
`checkRebuild()`.  The particle data needs an invariant of its own (`ParticlesOK`): used and
free tags are disjoint and together an initial segment (`TagsOK`), otherwise a new tag could
be one in use and a member would be listed twice; and the arrays hold all particles, which
for `resize()` needs that its loop ends (`GrowthSolvable`, `GrownFits`).  `rebuildIndexList()`
lists indices in order (`InOrderLists`), as many as there are members (`AsManyIndices`).
`ParticleGroupProofs` has what holds of a group, of tags and of arrays whatever else happens;
`TopologyProofs` the invariant, the steps and the results.

### Communication (`CommunicatorProofs`)

From `JobsAssumption` (a grid of more than one domain, natural numbers of steps), for every
grid, any particles and any list of jobs: `EveryMessageMatches` (`MessagesMatch`) and
`TheRanksGoOn` (`NobodyStuck`).  What a rank sends in a direction depends on its particles,
but whether it sends, to whom and what comes after does not, except where all ranks vote.  So
between two votes all ranks pass through the same points in the same order: `After(g, c)` is
the point after `c`, computed from the flags of the communicator and of the neighbor list
alone.  The inductive invariant `IInv` says that there is a history `tr` with the points since
the last vote, that every rank `r` is at its point `at[r]` (`Agrees`), and that the channel
from `q` to `p` holds exactly the messages of those points where `q` sends to `p` that `q` has
come to and `p` has not left, in this order (`Carries`).

One lemma per method shows that a rank which is at a point and goes on is at the next
(`MigrateFollows`, `UpdateFollows`, `SmallMethods` and others), one that the grid makes
neighbors mutual (`NeighborsAreMutual`, for which `GridPositions` inverts the numbering of
ranks), and three that `Carries` is kept when a rank sends, reads its message or only passes
a point (`CarriesMore`, `CarriesTail`, `CarriesPast`).  The vote
is cast when all ranks are at the last point; the channels are empty then, and a new history
begins.  `MessagesMatch` follows because the first message of a channel is that of the point
the receiver is at, and `NobodyStuck` because the rank furthest behind, which
exists as `at` has a least value, finds its message sent by a rank at least as far.  `IInv`
quantifies over a history, so TLC cannot evaluate it; the run checks the two properties.

### Only model-checked

* `RunReturns`: liveness under fairness is out of the prover's reach.
* `TableRight`, `ExclusionsRight`, `BodiesCreated`, `MoleculesRight`, `NeighborsFound`,
  `NeighborsApart`: what they speak about is computed by folding over bonds, particles or
  cells.  The library's induction rules cannot be used with the installed provers, so each of
  these folds would need an argument from a smallest counterexample of its own, as
  `GrowthSolvable` has; that is not done.
* `EachParticleOnce`, `MigratedInDomain`, `GhostsAreCurrent`, `PairsComplete` of
  `Communicator` and the properties of `GroupCommunicator`: they are about the contents of the
  messages, which in the middle of an exchange differ from rank to rank.  An inductive
  invariant would have to say for every point of the schedule where each particle and ghost
  is; it is not written down.

## Disagreements met while modelling

Beside the findings, these were met and are kept out of the passing runs by the
restriction given, or do not affect their properties.

* `GPUArray.h:302`, `1183`: `acquire()` returns its dispatch object by value and slices it,
  so `m_acquired` is false while a handle lives and a second acquire is not refused, against
  the intent stated at 685.  The model follows the code.
* `GPUArray.h:1262`: a device acquire that throws leaves `m_acquired` set, although nothing
  holds the array (403).  Modelled.
* `GPUArray.h:1603`: resizing a NULL 1-D array leaves pitch and height of zero, against 500.
* `GPUArray.h:757`: the pitch of a width that is a multiple of 16 gets 16 more elements than
  the comment at 756 says.  Modelled.
* `syncedlist.py:258`: a scheduled container that is replaced leaves its objects in the C++
  lists, against 247.  Modelled as the mishap `replaced`.
* `simulation.py:294`: a container whose scheduling was left half way is not unscheduled when
  it is replaced, since the setter asks `_scheduled`; its objects stay attached.  Modelled as
  `abandoned`.
* `operations.py:184`: an integrator whose force or method raises is half attached; the next
  `run()` skips it and the C++ `System` is never told, against `simulation.py:427`.  Modelled
  as `not told`.
* `operations.py:252`: `integrator = None` keeps the C++ integrator, against 233.
* `operations.py:243-257`: an integrator assigned to a container without a simulation is not
  marked as added, so it can be put in two containers, against 44, and replacing it in one
  detaches it from the other.  Modelled as `shared`.
* `syncedlist.py:200`: an insert that raises leaves the object marked as added for ever,
  against `operations.py:93`.
* `Trigger.h:83`: before the phase the unsigned difference wraps; for periods that do not
  divide 2^64 a `Periodic` trigger is active at other steps than `trigger.py:101-103`
  documents.  The instance uses period 2, the theorem assumes `Regular`.
* `Trigger.h:45`: a user-defined trigger that raises leaves the new time step beside the old
  answer (`trigger.py:67-69`).  User-defined triggers return normally in the model.
* `Compute.cc:57`: the time step is noted as computed before the computation, which may
  raise; a retry at the same step uses old forces, against 39-40.  The integrator asks for
  the forces of the next step, so also a sort or a new snapshot between the failure and the
  next `run()` does not help once the step is reached (`ForceCompute.cc:516`).  Modelled as
  `comp.void`, which `WritersSeeForces` excludes.
* An updater moves particles and raises, or a later one does: `run()` is left at a step whose
  forces were computed before the move, and the next `run()` at this step uses them.  Modelled
  as `comp.void` too.
* `System.cc:145`: an updater is asked whether it may have changed degrees of freedom after it
  has returned.  `ParticleFilterUpdater::update` (`ParticleFilterUpdater.cc:26-29`) fills one
  group after the other, and a custom filter may raise when some are filled: the request is
  lost.  The updater acts again when the step is repeated, unless its trigger was exchanged or
  it was removed; then the integrator steps with the old number of degrees of freedom until
  something else asks for a count.  Modelled as `dofLost`, which `DegreesOfFreedomKnown`
  excludes; the instance reaches it.
* Changes of force parameters or local snapshots at an unchanged time step are not noticed by
  the force cache; not modelled.
* `NeighborList.cc:1390-1400`: with `check_dist=False` and `rebuild_check_delay=1` a distance
  check is made, while `md/nlist.py:24-25` says that the list "always rebuilds".  Modelled; the
  list stays complete.
* `Communicator.cc:1526`, `1567`: an exception of `checkBoxSize()` leaves
  `m_is_communicating` set and `m_force_migrate` cleared, so `forceMigrate()` of the next
  run is ignored, against the comment at `System.cc:100`.  Modelled; after a change of the
  buffer the neighbor list asks for the migration.
* `Communicator.cc:1557`: the branch for an empty list of compute callbacks cannot be reached
  with an integrator attached.
* `md/NeighborList.cc:364`: remaking the exclusions clears the old ones and the flags before
  `addOneThreeExclusionsFromTopology` and its sibling may throw, which they do when bond tags
  have gaps.  A script that goes on runs without exclusions.  Modelled; `ExclusionsRight` is
  stated for lists whose last remake has not thrown.
* `md/NeighborList.cc:580-581`: `addExclusion` asserts that its tags are at most the largest
  tag in use.  Removing a particle does not remove its bonds, so a bond to a removed particle
  with a larger tag breaks this when the exclusions are remade.  Once `addParticle` has cut
  `m_rtag` (`ParticleData.cc:2469`), the tag is also outside of `m_n_ex_tag` and
  `m_ex_list_tag`, which are made for as many tags as `m_rtag` has: in a chain of four, remove
  tags 3 and 0 and add a particle.  Whether the memory is still there depends on the capacity
  the vector keeps and on whether `growExclusionList` has reallocated the other array, so what
  the list holds is not defined.  Modelled as `nl.beyond`, after which `ExclusionsRight` says
  nothing; the instance reaches it.
* `md/NeighborList.cc:583`, `1035`: `addExclusion` and `isExcluded` assert that no change of the
  number of particles is pending, but assigning `exclusions` (`setExclusions`, 688-697) resizes
  the arrays without clearing `m_n_particles_changed`, so a debug build stops when exclusions
  are assigned between a change and the next `compute()`.  The release build enters them and
  makes them again in `compute()`; this is modelled, and `ExclusionsRight` covers it.
* `md/ForceComposite.h:94-97`: `setBody` returns when it is given `None`, so `None` assigned to
  an attached `Rigid` leaves the definition in use, against `md/constrain.py:250` ("Can set
  rigid body definition to be None explicitly") and 261-262 ("The mapping respects ``None`` as
  meaning that the type is not a rigid body center").  Reading the attribute returns the old
  definition, and detaching stores it in the Python object.  Modelled as `rigid.ignored`, which
  `MoleculesRight` excludes; the instance reaches it.
* `md/NeighborList.cc:387`: `checkBoxSize()` throws after `needsUpdating()` has consumed the
  request.  Modelled; `NeighborsFound` is stated for lists built since.
* `CellList.cc:597`: `checkConditions()` enlarges `m_Nmax` and may then throw for a particle
  outside of the box, before the memory is enlarged.  Such particles are not modelled.
* `CellList.h`, `setMultiple`: unlike the other setters it does not set `m_params_changed`.
  Nothing on the CPU calls it after the first `compute()`.
* `ParticleData::setType` is announced as a sort only, so molecules are not made anew when the
  type of a center changes; `MoleculesRight` has no such step.
* Bonds that change after `compute()` at a time step are not noticed by a second call at the
  same step, which returns early.  The flag stays set, and `ExclusionsRight` is stated for
  lists with no flag set.

The release build is modelled: an `assert` that fails is not a step of the program.  Where
what follows a failed assertion is undefined behaviour, the model records it and the
properties claim nothing from there on (`nl.beyond`).

## Not modelled

The definitions map about 9,500 of some 200,000 lines.  The rest cannot be brought under TLC
faithfully by reducing data, because the data is the point of it:

* **Floating point.**  Force fields, shapes and overlap tests, integration methods,
  minimisation, collision rules, variants and Python root finders are formulas over reals, by
  far the largest part of the code (`hoomd/md`, `hoomd/hpmc`, `hoomd/mpcd`, `hoomd/metal`).
  When they are evaluated and with which particles is in `System` and `Communicator`.
* **GPU kernels and subclasses.**  Data-parallel versions of the modelled classes, with the
  same results by design.
* **Vendored libraries** (`hoomd/extern`), explicit instantiations and export tables, the
  build system.
* **I/O, strings and start-up.**  File formats, schema handling of Python parameters,
  logging, messages, device selection.
* **Repetitions of modelled structure.**  MPCD has a second particle data, cell list and
  communicator; meshes are groups; `GlobalArray` without managed memory forwards to
  `GPUArray`; `UpdaterMuVT` calls `addParticle` and `removeParticle`; custom actions are
  operations.  Modelling them again would repeat the same actions.

Inside the modelled parts these are left out:

* `GPUArray`: mapped memory, asynchronous copies.
* `Communicator`: reverse communication of net forces, `updateNetForce`, ghosts of rigid
  bodies, `exchangeGhostGroups` (constraints only), the third axis.
* `NeighborList` and its builders: several types, full storage, exclusion by body; stencils
  and trees are search structures in floating point.
* `RigidBodies`: positions, orientations, forces and virials, the lookup with MPI, floppy
  bodies, adding and removing single particles beside existing bodies.
* `Topology`: MPI, filters other than by type, the throw for too many bonds
  per particle.  In a step of the code the constituents are placed before the bodies are
  validated; placing them is floating point and not part of the model.
* `Operations`: parameter dictionaries, pickling, the nested lists of forces and methods.
* The load balancer: new boundaries come from floating point arithmetic; what follows is a
  forced migration.
