---------------------------- MODULE SystemProofs ----------------------------
(***************************************************************************)
(* The safety properties of the run loop, for every set of operations,     *)
(* every graph of triggers and every bound.  The inductive invariant has a *)
(* part for each of them; all parts use the types and the bounds of the    *)
(* time steps, and the parts about operations that act use that the caches *)
(* of the triggers are right.                                              *)
(*                                                                         *)
(* The triggers come first.  The objects form a graph of any shape without *)
(* cycles.  An equation that gives the value at an object from the values  *)
(* at its members has exactly one solution (Determined, Solvable); answers *)
(* with caches, answers without and the documented meaning are three such  *)
(* equations.  F[o][f] stands for the right-hand side at o.                *)
(***************************************************************************)
EXTENDS System, TLAPS

\* The provers a step is given to unless it names one, with their time in seconds.
USE ZenonT(30), SMTT(30)

-----------------------------------------------------------------------------
(* Equations over the graph of triggers. *)

\* F[o] looks at the members of o only.
Local(F, V) ==
    \A o \in Object : \A f, g \in [Object -> V] :
        (\A m \in Parts(Kind[o]) : f[m] = g[m]) => F[o][f] = F[o][g]

\* f solves the equations at the objects of D, which has the members of each.
Solves(f, F, D) == \A o \in D : f[o] = F[o][f]
Closed(D) == D \subseteq Object /\ \A o \in D : Parts(Kind[o]) \subseteq D

\* Two solutions agree wherever both solve the equations.
LEMMA Determined ==
  ASSUME NEW V, NEW F, Local(F, V),
         NEW D, Closed(D), NEW E, Closed(E),
         NEW f \in [Object -> V], Solves(f, F, D),
         NEW g \in [Object -> V], Solves(g, F, E)
  PROVE  \A o \in D \intersect E : f[o] = g[o]
PROOF
  <1> DEFINE S == {o \in D \intersect E : f[o] # g[o]}
  <1> SUFFICES ASSUME S # {} PROVE FALSE
    OBVIOUS
  <1>1. PICK o \in S : Parts(Kind[o]) \intersect S = {}
    <2>1. S \in SUBSET Object
      BY DEF Closed
    <2>2. QED
      BY <2>1, TriggerAssumption, Zenon
  <1>2. o \in D /\ o \in E /\ o \in Object /\ f[o] # g[o]
    BY <1>1 DEF Closed
  <1>3. Parts(Kind[o]) \subseteq D \intersect E
    BY <1>2 DEF Closed
  <1>4. \A m \in Parts(Kind[o]) : f[m] = g[m]
    BY <1>1, <1>3
  <1>5. F[o][f] = F[o][g]
    BY <1>2, <1>4 DEF Local
  <1>6. QED
    BY <1>2, <1>5 DEF Solves

\* There is a solution on all objects.
LEMMA Solvable ==
  ASSUME NEW V, V # {}, NEW F, Local(F, V),
         \A o \in Object : \A f \in [Object -> V] : F[o][f] \in V
  PROVE  \E f \in [Object -> V] : Solves(f, F, Object)
PROOF
  <1> DEFINE Good(D, f) == Closed(D) /\ f \in [Object -> V] /\ Solves(f, F, D)
             U == {o \in Object : \E D \in SUBSET Object : \E f \in [Object -> V] :
                                      Good(D, f) /\ o \in D}
             h == [o \in Object |->
                     CHOOSE v \in V :
                         o \in U => \E D \in SUBSET Object : \E f \in [Object -> V] :
                                        Good(D, f) /\ o \in D /\ v = f[o]]
  <1>1. \A o \in Object :
          /\ h[o] \in V
          /\ o \in U => \E D \in SUBSET Object : \E f \in [Object -> V] :
                            Good(D, f) /\ o \in D /\ h[o] = f[o]
    <2> TAKE o \in Object
    <2>1. \E v \in V :
             o \in U => \E D \in SUBSET Object : \E f \in [Object -> V] :
                            Good(D, f) /\ o \in D /\ v = f[o]
      <3>1. CASE o \in U
        <4>1. PICK D \in SUBSET Object, f \in [Object -> V] : Good(D, f) /\ o \in D
          BY <3>1
        <4>2. f[o] \in V
          BY <4>1
        <4>3. QED
          BY <4>1, <4>2
      <3>2. CASE o \notin U
        BY <3>2
      <3>3. QED
        BY <3>1, <3>2
    <2>2. QED
      BY <2>1
  <1>2. h \in [Object -> V]
    BY <1>1
  <1> HIDE DEF h
  <1>3. ASSUME NEW D \in SUBSET Object, NEW f \in [Object -> V], Good(D, f)
        PROVE  \A o \in D : h[o] = f[o]
    <2> TAKE o \in D
    <2>1. o \in U
      BY <1>3
    <2>2. PICK E \in SUBSET Object, g \in [Object -> V] : Good(E, g) /\ o \in E /\ h[o] = g[o]
      BY <1>1, <2>1
    <2>3. f[o] = g[o]
      BY <1>3, <2>2, Determined, SMTT(30)
    <2>4. QED
      BY <2>2, <2>3
  <1>4. Closed(U)
    <2> SUFFICES ASSUME NEW o \in U, NEW m \in Parts(Kind[o]) PROVE m \in U
      BY DEF Closed
    <2>1. PICK D \in SUBSET Object, f \in [Object -> V] : Good(D, f) /\ o \in D
      OBVIOUS
    <2>2. m \in D
      BY <2>1 DEF Closed
    <2>3. QED
      BY <2>1, <2>2
  <1>5. Solves(h, F, U)
    <2> SUFFICES ASSUME NEW o \in U PROVE h[o] = F[o][h]
      BY DEF Solves
    <2>1. PICK D \in SUBSET Object, f \in [Object -> V] : Good(D, f) /\ o \in D
      OBVIOUS
    <2>2. \A m \in D : h[m] = f[m]
      BY <1>3, <2>1
    <2>3. Parts(Kind[o]) \subseteq D
      BY <2>1 DEF Closed
    <2>4. F[o][h] = F[o][f]
      BY <1>2, <2>2, <2>3 DEF Local
    <2>5. f[o] = F[o][f]
      BY <2>1 DEF Solves
    <2>6. QED
      BY <2>1, <2>2, <2>4, <2>5
  <1>6. U = Object
    <2> SUFFICES ASSUME Object \ U # {} PROVE FALSE
      OBVIOUS
    <2>1. PICK o \in Object \ U : Parts(Kind[o]) \intersect (Object \ U) = {}
      BY TriggerAssumption, Zenon
    <2>2. Parts(Kind[o]) \subseteq U
      BY <2>1, TriggerAssumption
    <2> DEFINE W == U \union {o}
               g == [h EXCEPT ![o] = F[o][h]]
    <2>3. g \in [Object -> V] /\ g[o] = F[o][h] /\ \A m \in U : g[m] = h[m]
      BY <1>2, <2>1
    <2> HIDE DEF g
    <2>4. Closed(W)
      BY <1>4, <2>1, <2>2, Zenon DEF Closed
    <2>5. \A x \in W : F[x][g] = F[x][h]
      <3> TAKE x \in W
      <3>1. x \in Object /\ \A m \in Parts(Kind[x]) : g[m] = h[m]
        BY <1>4, <2>1, <2>2, <2>3, Zenon DEF Closed
      <3>2. QED
        BY <1>2, <2>3, <3>1, SMTT(30) DEF Local
    <2>6. Solves(g, F, W)
      BY <1>5, <2>3, <2>5, SMTT(30) DEF Solves
    <2>7. Good(W, g) /\ W \in SUBSET Object
      BY <2>3, <2>4, <2>6, Zenon DEF Closed
    <2>8. QED
      BY <2>1, <2>3, <2>7
  <1> HIDE DEF U, Good
  <1>7. Solves(h, F, Object)
    BY <1>5, <1>6
  <1>8. QED
    BY <1>2, <1>7

-----------------------------------------------------------------------------
(* Answers without caches. *)

Computes(t) ==
    LET answer[o \in Object] == Compute(Kind[o], t, answer)
    IN answer

LEMMA ComputeBoolean ==
  ASSUME NEW o \in Object, NEW t, NEW f
  PROVE  Compute(Kind[o], t, f) \in BOOLEAN
PROOF
  <1> DEFINE k == Kind[o]
  <1>1. k.class \in Class
    BY TriggerAssumption
  <1>2. CASE k.class = "Periodic"
    BY <1>2 DEF Compute, Periodic
  <1>3. CASE k.class = "Before"
    BY <1>3 DEF Compute, Before
  <1>4. CASE k.class = "On"
    BY <1>4 DEF Compute, On
  <1>5. CASE k.class = "After"
    BY <1>5 DEF Compute, After
  <1>6. CASE k.class = "Not"
    BY <1>6 DEF Compute
  <1>7. CASE k.class = "And"
    BY <1>7 DEF Compute
  <1>8. CASE k.class = "Or"
    BY <1>8 DEF Compute
  <1>9. CASE k.class = "Custom"
    BY <1>9 DEF Compute
  <1>10. QED
    BY <1>1, <1>2, <1>3, <1>4, <1>5, <1>6, <1>7, <1>8, <1>9 DEF Class

\* What compute returns depends on the answers of the members.
LEMMA ComputeLocal ==
  ASSUME NEW o \in Object, NEW t, NEW f, NEW g,
         \A m \in Parts(Kind[o]) : f[m] = g[m]
  PROVE  Compute(Kind[o], t, f) = Compute(Kind[o], t, g)
PROOF
  <1> DEFINE k == Kind[o]
  <1>1. CASE k.class = "Not"
    <2>1. f[k.trigger] = g[k.trigger]
      BY <1>1 DEF Parts
    <2>2. QED
      BY <1>1, <2>1 DEF Compute
  <1>2. CASE k.class \in {"And", "Or"}
    <2>1. \A i \in DOMAIN k.triggers : f[k.triggers[i]] = g[k.triggers[i]]
      BY <1>2 DEF Parts
    <2>2. QED
      BY <1>2, <2>1 DEF Compute
  <1>3. CASE k.class \notin {"Not", "And", "Or"}
    BY <1>3, TriggerAssumption DEF Class, Compute
  <1>4. QED
    BY <1>1, <1>2, <1>3

\* The recursive definition of Computes has a solution.
LEMMA ComputesDef ==
  ASSUME NEW t
  PROVE  /\ Computes(t) \in [Object -> BOOLEAN]
         /\ \A o \in Object : Computes(t)[o] = Compute(Kind[o], t, Computes(t))
PROOF
  <1> DEFINE F == [o \in Object |-> [f \in [Object -> BOOLEAN] |-> Compute(Kind[o], t, f)]]
  <1>1. \A o \in Object : \A f \in [Object -> BOOLEAN] :
           F[o][f] = Compute(Kind[o], t, f) /\ F[o][f] \in BOOLEAN
    BY ComputeBoolean
  <1> HIDE DEF F
  <1>2. Local(F, BOOLEAN)
    <2> SUFFICES ASSUME NEW o \in Object,
                        NEW f \in [Object -> BOOLEAN], NEW g \in [Object -> BOOLEAN],
                        \A m \in Parts(Kind[o]) : f[m] = g[m]
                 PROVE  F[o][f] = F[o][g]
      BY Zenon DEF Local
    <2>1. Compute(Kind[o], t, f) = Compute(Kind[o], t, g)
      BY ComputeLocal, SMTT(30)
    <2>2. QED
      BY <1>1, <2>1, SMTT(30)
  <1>3. PICK f \in [Object -> BOOLEAN] : Solves(f, F, Object)
    BY <1>1, <1>2, Solvable, Zenon
  <1>4. f = [o \in Object |-> Compute(Kind[o], t, f)]
    BY <1>1, <1>3 DEF Solves
  <1>5. Computes(t) = [o \in Object |-> Compute(Kind[o], t, Computes(t))]
    BY <1>4 DEF Computes
  <1>6. QED
    BY <1>5, ComputeBoolean, SMTT(30)

-----------------------------------------------------------------------------
(* Answers with caches. *)

\* What a cache may hold: the answer for the step it names, if it names step t.
RightFor(c, t) ==
    \A o \in Object : c[o].value \in BOOLEAN /\ (c[o].last = t => c[o].value = Computes(t)[o])

\* Trigger::operator() returns what compute would return without any cache,
\* whichever of the objects have been asked about the step already.
THEOREM AnswersAreComputed ==
  ASSUME NEW t, NEW c, RightFor(c, t)
  PROVE  Answers(t, c) = Computes(t)
PROOF
  <1> DEFINE Rhs(o, f) == IF Cached(c, o, t) THEN c[o].value ELSE Compute(Kind[o], t, f)
             F == [o \in Object |-> [f \in [Object -> BOOLEAN] |-> Rhs(o, f)]]
             x == Computes(t)
             a == Answers(t, c)
  <1>1. \A o \in Object : \A f : Rhs(o, f) \in BOOLEAN
    BY ComputeBoolean DEF RightFor
  <1>2. \A o \in Object : \A f \in [Object -> BOOLEAN] : F[o][f] = Rhs(o, f)
    OBVIOUS
  <1>3. x \in [Object -> BOOLEAN] /\ \A o \in Object : x[o] = Rhs(o, x)
    BY ComputesDef DEF RightFor, Cached
  <1>4. x = [o \in Object |-> Rhs(o, x)]
    BY <1>3
  <1>5. a = [o \in Object |-> Rhs(o, a)]
    BY <1>4, Zenon DEF Answers
  <1> HIDE DEF F, x, a
  <1>6. a \in [Object -> BOOLEAN] /\ \A o \in Object : a[o] = Rhs(o, a)
    BY <1>1, <1>5
  <1>7. Local(F, BOOLEAN)
    <2> SUFFICES ASSUME NEW o \in Object,
                        NEW f \in [Object -> BOOLEAN], NEW g \in [Object -> BOOLEAN],
                        \A m \in Parts(Kind[o]) : f[m] = g[m]
                 PROVE  F[o][f] = F[o][g]
      BY Zenon DEF Local
    <2>1. Compute(Kind[o], t, f) = Compute(Kind[o], t, g)
      BY ComputeLocal, SMTT(30)
    <2>2. QED
      BY <1>2, <2>1
  <1>8. Solves(x, F, Object) /\ Solves(a, F, Object)
    BY <1>2, <1>3, <1>6 DEF Solves
  <1>9. Closed(Object)
    BY TriggerAssumption DEF Closed
  <1>10. \A o \in Object : x[o] = a[o]
    BY <1>3, <1>6, <1>7, <1>8, <1>9, Determined, SMTT(30)
  <1>11. QED
    BY <1>3, <1>6, <1>10 DEF x, a

-----------------------------------------------------------------------------
(* The documented meaning. *)

\* The parameters with which a periodic trigger never shows that the difference
\* of time step and phase is unsigned.
Regular(k) ==
    k.class = "Periodic" =>
        /\ k.phase \in TimeStep /\ k.period \in Nat \ {0}
        /\ k.phase = 0 \/ \E n \in Nat : 2^Width = n * k.period

\* Multiples of the period do not count.
LEMMA ModuloShift ==
  ASSUME NEW y \in Int, NEW n \in Int, NEW p \in Nat \ {0}
  PROVE  (y + n * p) % p = y % p
PROOF
  <1> DEFINE z == y + n * p
             d == (z \div p) - (y \div p) - n
  <1>1. /\ y = p * (y \div p) + (y % p) /\ y % p \in 0 .. p - 1 /\ y \div p \in Int
    OBVIOUS
  <1>2. z \in Int
    OBVIOUS
  <1> HIDE DEF z
  <1>3. /\ z = p * (z \div p) + (z % p) /\ z % p \in 0 .. p - 1 /\ z \div p \in Int
    BY <1>2
  <1>4. p * d = (y % p) - (z % p)
    BY <1>1, <1>3, <1>2 DEF z
  <1>5. d \in Int
    BY <1>1, <1>3
  <1> HIDE DEF d
  <1>6. d = 0
    <2>1. CASE d >= 1
      <3>1. p * d >= p
        BY <1>5, <2>1
      <3>2. QED
        BY <1>1, <1>3, <1>4, <3>1
    <2>2. CASE d <= -1
      <3>1. p * d <= -p
        BY <1>5, <2>2
      <3>2. QED
        BY <1>1, <1>3, <1>4, <3>1
    <2>3. QED
      BY <1>5, <2>1, <2>2
  <1>7. QED
    BY <1>1, <1>3, <1>4, <1>6 DEF z

LEMMA PeriodicRegular ==
  ASSUME NEW k, k.class = "Periodic", Regular(k), NEW t \in TimeStep
  PROVE  Periodic(k, t) <=> (t - k.phase) % k.period = 0
PROOF
  <1> DEFINE M == 2^Width
             p == k.period
             y == t - k.phase
  <1>1. M \in Nat \ {0} /\ p \in Nat \ {0} /\ y \in Int /\ y < M /\ -M < y
    BY TriggerAssumption, SMTT(30) DEF Regular, TimeStep
  <1> HIDE DEF M, p, y
  <1>2. CASE y >= 0
    <2>1. y % M = y
      BY <1>1, <1>2
    <2>2. QED
      BY <2>1 DEF Periodic, M, p, y
  <1>3. CASE y < 0
    <2>1. y % M = y + M
      BY <1>1, <1>3
    <2>2. PICK n \in Nat : M = n * p
      BY <1>1, <1>3, TriggerAssumption, SMTT(30) DEF Regular, TimeStep, M, p, y
    <2> n \in Int
      OBVIOUS
    <2>3. (y + n * p) % p = y % p
      BY <1>1, ModuloShift, Zenon
    <2>4. QED
      BY <2>1, <2>2, <2>3 DEF Periodic, M, p, y
  <1>4. QED
    BY <1>1, <1>2, <1>3

\* With such parameters, compute returns what trigger.py documents.
LEMMA MeaningsAreComputed ==
  ASSUME NEW t \in TimeStep, \A o \in Object : Regular(Kind[o])
  PROVE  Meanings(t) = Computes(t)
PROOF
  <1> DEFINE x == Computes(t)
             m == Meanings(t)
  <1>1. ASSUME NEW o \in Object, NEW f 
        PROVE  Documented(Kind[o], t, f) = Compute(Kind[o], t, f)
    <2> DEFINE k == Kind[o]
    <2>1. k.class \in Class
      BY TriggerAssumption
    <2>2. CASE k.class = "Periodic"
      <3>1. Periodic(k, t) <=> (t - k.phase) % k.period = 0
        BY <2>2, PeriodicRegular
      <3>2. QED
        BY <2>2, <3>1 DEF Documented, Compute, Periodic
    <2>3. CASE k.class \in {"Before", "On", "After"}
      BY <2>3, Zenon DEF Documented, Compute, Before, On, After
    <2>4. CASE k.class = "Not"
      BY <2>4 DEF Documented, Compute
    <2>5. CASE k.class \in {"And", "Or"}
      BY <2>5, Zenon DEF Documented, Compute
    <2>6. CASE k.class = "Custom"
      BY <2>6 DEF Documented, Compute
    <2>7. QED
      BY <2>1, <2>2, <2>3, <2>4, <2>5, <2>6 DEF Class
  <1>2. x \in [Object -> BOOLEAN] /\ \A o \in Object : x[o] = Compute(Kind[o], t, x)
    BY ComputesDef
  <1>3. x = [o \in Object |-> Documented(Kind[o], t, x)]
    BY <1>1, <1>2
  <1>4. m = [o \in Object |-> Documented(Kind[o], t, m)]
    BY <1>3, Zenon DEF Meanings
  <1> HIDE DEF x, m
  <1>5. m = [o \in Object |-> Compute(Kind[o], t, m)] /\ m \in [Object -> BOOLEAN]
    BY <1>1, <1>4, ComputeBoolean, SMTT(30)
  <1> DEFINE F == [o \in Object |-> [f \in [Object -> BOOLEAN] |-> Compute(Kind[o], t, f)]]
  <1>6. \A o \in Object : \A f \in [Object -> BOOLEAN] : F[o][f] = Compute(Kind[o], t, f)
    OBVIOUS
  <1> HIDE DEF F
  <1>7. Local(F, BOOLEAN)
    <2> SUFFICES ASSUME NEW o \in Object,
                        NEW f \in [Object -> BOOLEAN], NEW g \in [Object -> BOOLEAN],
                        \A n \in Parts(Kind[o]) : f[n] = g[n]
                 PROVE  F[o][f] = F[o][g]
      BY Zenon DEF Local
    <2>1. Compute(Kind[o], t, f) = Compute(Kind[o], t, g)
      BY ComputeLocal, SMTT(30)
    <2>2. QED
      BY <1>6, <2>1
  <1>8. Solves(x, F, Object) /\ Solves(m, F, Object)
    BY <1>2, <1>5, <1>6 DEF Solves
  <1>9. Closed(Object)
    BY TriggerAssumption DEF Closed
  <1>10. \A o \in Object : x[o] = m[o]
    BY <1>2, <1>5, <1>7, <1>8, <1>9, Determined, SMTT(30)
  <1>11. QED
    BY <1>2, <1>5, <1>10 DEF x, m

-----------------------------------------------------------------------------
(* The inductive invariant of the run loop. *)

TypeOK ==
    /\ cur \in Nat /\ end \in Nat /\ idx \in Nat \ {0}
    /\ pc \in Phase /\ atStart \in BOOLEAN
    /\ cache \in [Object -> [last : TimeStep, value : BOOLEAN]]
    /\ trigger \in [Op -> Object]
    /\ flags \in SUBSET Flag
    /\ dofNext \in BOOLEAN /\ dofKnown \in BOOLEAN /\ dofLost \in BOOLEAN
    /\ comp \in [first : BOOLEAN, last : Nat, sorted : BOOLEAN, flags : SUBSET Flag,
                 void : BOOLEAN]
    /\ force \in [current : BOOLEAN, flags : SUBSET Flag]
    /\ failures \in Nat /\ rigid \in Nat
    /\ net \in [current : BOOLEAN, flags : SUBSET Flag, rigid : Nat]
    /\ last \in [Op -> Int]

\* The steps of one run: run() never asks about a step after the last one.
StepsInv ==
    /\ cur <= end /\ end <= MaxStep
    /\ pc \in {"tuners", "updaters", "integrate"} => cur < end

\* A cache holds the answer for the step it names, or has never been used.
CachesInv ==
    \A o \in Object : \/ cache[o].last = 2^Width - 1
                      \/ cache[o].value = Computes(cache[o].last)[o]

\* The last decision is the one of the trigger the operation has.
DecisionInv ==
    done.known => /\ done.op \in Op /\ done.at \in Nat /\ done.at <= MaxStep
                  /\ done.acted = Computes(done.at)[trigger[done.op]]

\* The operations that act at step t and the flags they request.
Acts(t) == {o \in Op : Computes(t)[trigger[o]]}
FlagsFor(t) == UNION {Requested[o] : o \in Acts(t)}

\* The flags of the particle data are those of the step whose forces are computed
\* next, and the flags of the force and of the net force are those of the cache.
FlagsInv ==
    /\ force.flags = comp.flags /\ net.flags = comp.flags
    /\ pc \in {"prepRun", "start", "tuners", "updaters", "writers", "signals"}
          => flags = FlagsFor(cur)
    /\ pc = "integrate" => flags = FlagsFor(cur + 1)
    /\ pc \in {"start", "tuners", "updaters", "writers", "signals"} => net.flags = flags

\* Degrees of freedom that are not known will be counted, unless they are lost; and
\* when the integrator steps nothing is left to be counted.
DofInv ==
    /\ dofKnown \/ dofNext \/ dofLost
    /\ pc = "integrate" => ~dofNext

(***************************************************************************)
(* m_last_computed is never ahead of the time step, unless it is void; and *)
(* outside of the loop over tuners and updaters, if the cache says that    *)
(* there is nothing to compute then the arrays are current, unless it is   *)
(* void.                                                                   *)
(***************************************************************************)
ForcesInv ==
    /\ comp.last <= cur \/ comp.void \/ comp.first
    /\ pc \in {"idle", "prepRun"} /\ comp.last = cur
          => force.current \/ comp.first \/ comp.sorted \/ comp.void
    /\ pc \in {"start", "writers", "signals"} => net.current \/ comp.void
    /\ pc \in {"start", "writers", "signals"} => force.current \/ comp.void
    /\ failures = 0 => rigid = 0
    /\ failures = 0 /\ pc \notin {"idle", "prepRun"} => net.rigid = 1

\* Tuners and updaters that are still to be asked at this step have not acted at it.
OnceInv ==
    /\ \A o \in Op : last[o] <= cur
    /\ pc \in {"idle", "prepRun", "start", "writers", "signals"} =>
          \A o \in Members(Tuners) \union Members(Updaters) : last[o] < cur
    /\ pc = "tuners" =>
          /\ \A i \in DOMAIN Tuners : i >= idx => last[Tuners[i]] < cur
          /\ \A o \in Members(Updaters) : last[o] < cur
    /\ pc = "updaters" => \A i \in DOMAIN Updaters : i >= idx => last[Updaters[i]] < cur

IInv ==
    /\ TypeOK /\ StepsInv /\ CachesInv /\ DecisionInv
    /\ FlagsInv /\ DofInv /\ ForcesInv /\ OnceInv

-----------------------------------------------------------------------------
(* Asking triggers. *)

\* Whatever is in the caches, a trigger answers what compute returns.
LEMMA AnswersRight ==
  ASSUME TypeOK, CachesInv, NEW t \in Nat, t <= MaxStep
  PROVE  \A o \in Object : Answer(o, t, cache) = Computes(t)[o]
PROOF
  <1>1. t # 2^Width - 1
    BY SystemAssumption, TriggerAssumption, SMTT(30)
  <1>2. RightFor(cache, t)
    BY <1>1 DEF RightFor, TypeOK, CachesInv
  <1>3. QED
    BY <1>2, AnswersAreComputed DEF Answer

\* The caches are right after any of the objects have been asked.
LEMMA RememberedRight ==
  ASSUME TypeOK, CachesInv, NEW t \in Nat, t <= MaxStep, NEW S,
         cache' = Remembered(S, t, cache)
  PROVE  /\ cache' \in [Object -> [last : TimeStep, value : BOOLEAN]]
         /\ CachesInv'
PROOF
  <1>1. \A o \in Object : Answer(o, t, cache) = Computes(t)[o] /\ Computes(t)[o] \in BOOLEAN
    BY AnswersRight, ComputesDef
  <1>2. t \in TimeStep
    BY SystemAssumption, TriggerAssumption, SMTT(30) DEF TimeStep
  <1>3. \A o \in Object : \/ cache'[o] = cache[o]
                           \/ cache'[o] = [last |-> t, value |-> Answer(o, t, cache)]
    BY DEF Remembered
  <1>4. QED
    BY <1>1, <1>2, <1>3 DEF CachesInv, TypeOK, Remembered

\* The operations that are announced for a step are the ones that act at it.
LEMMA ActingRight ==
  ASSUME TypeOK, CachesInv, NEW t \in Nat, t <= MaxStep
  PROVE  ActingAt(t) = Acts(t)
PROOF
  <1>1. \A o \in Op : Answer(trigger[o], t, cache) = Computes(t)[trigger[o]]
    BY AnswersRight DEF TypeOK
  <1>2. QED
    BY <1>1 DEF ActingAt, Acts

LEMMA FlagsSet ==
  ASSUME TypeOK, CachesInv, NEW t \in Nat, t <= MaxStep, SetFlags(t)
  PROVE  /\ flags' = FlagsFor(t) /\ flags' \in SUBSET Flag
         /\ cache' \in [Object -> [last : TimeStep, value : BOOLEAN]]
         /\ CachesInv'
PROOF
  <1>1. flags' = FlagsFor(t)
    BY ActingRight DEF SetFlags, FlagsFor
  <1>2. FlagsFor(t) \in SUBSET Flag
    BY SystemAssumption DEF FlagsFor, Acts
  <1>3. QED
    BY <1>1, <1>2, RememberedRight DEF SetFlags

\* A decision about an operation of a list.
LEMMA DecisionRight ==
  ASSUME TypeOK, CachesInv, cur <= MaxStep, NEW ops, ops \in {Tuners, Updaters, Writers},
         NEW p, Visit(p, ops)
  PROVE  /\ ops[idx] \in Op /\ cur \in Nat
         /\ done' = [known |-> TRUE, op |-> ops[idx], at |-> cur,
                     acted |-> Computes(cur)[trigger[ops[idx]]]]
         /\ Computes(cur)[trigger[ops[idx]]] \in BOOLEAN
         /\ Acted = Computes(cur)[trigger[ops[idx]]]
         /\ cache' \in [Object -> [last : TimeStep, value : BOOLEAN]]
         /\ CachesInv'
PROOF
  <1>1. ops[idx] \in Op /\ cur \in Nat
    BY DEF Visit, Op, Members, TypeOK
  <1>2. trigger[ops[idx]] \in Object
    BY <1>1 DEF TypeOK
  <1>3. Answer(trigger[ops[idx]], cur, cache) = Computes(cur)[trigger[ops[idx]]]
    BY <1>1, <1>2, AnswersRight
  <1>4. Computes(cur)[trigger[ops[idx]]] \in BOOLEAN
    BY <1>2, ComputesDef
  <1>5. cache' \in [Object -> [last : TimeStep, value : BOOLEAN]] /\ CachesInv'
    BY <1>1, RememberedRight DEF Visit, Decide
  <1>6. QED
    BY <1>1, <1>3, <1>4, <1>5, Zenon DEF Visit, Decide, Acted

-----------------------------------------------------------------------------
(* Computing the net force. *)

ForceType == [current : BOOLEAN, flags : SUBSET Flag]

\* When particles move the arrays of the force are no longer current.
LEMMA MovedType ==
  ASSUME TypeOK
  PROVE  Moved \in ForceType /\ Moved.flags = force.flags /\ ~Moved.current
PROOF
  <1>1. force \in ForceType
    BY DEF TypeOK, ForceType
  <1>2. QED
    BY <1>1, Zenon DEF ForceType, Moved

\* When a force is computed, its arrays, the net force and the cache agree; when it
\* is not, the cache named this step and these flags already.
LEMMA NetForceComputed ==
  ASSUME TypeOK, NEW t \in Nat, NEW held \in ForceType, computeNetForce(t, held)
  PROVE  /\ force' \in ForceType
         /\ comp' \in [first : BOOLEAN, last : Nat, sorted : BOOLEAN, flags : SUBSET Flag,
                       void : BOOLEAN]
         /\ net' = [current |-> force'.current, flags |-> force'.flags, rigid |-> rigid + 1]
         /\ rigid' = rigid /\ failures' = failures
         /\ comp'.flags = flags /\ ~comp'.sorted
         /\ Recompute(t) => force'.current /\ force'.flags = flags
         /\ ~Recompute(t) => /\ force' = held /\ flags = comp.flags
                             /\ ~comp.first /\ ~comp.sorted /\ comp.last = t
                             /\ comp'.void = comp.void
         /\ comp'.last # t => /\ comp'.last = comp.last
                              /\ comp'.first = comp.first /\ comp'.void = comp.void
PROOF
  <1> USE DEF TypeOK, ForceType
  <1>1. force' = IF Recompute(t) THEN [current |-> TRUE, flags |-> flags] ELSE held
    BY DEF computeNetForce
  <1>2. rigid' = rigid /\ failures' = failures
    BY SMTT(30) DEF computeNetForce, Popped
  <1>3. net' = [current |-> force'.current, flags |-> force'.flags, rigid |-> rigid + 1]
    BY DEF computeNetForce
  <1> DEFINE c == AfterAsking(t)
  <1>4. /\ c \in [first : BOOLEAN, last : Nat, sorted : BOOLEAN, flags : SUBSET Flag, void : BOOLEAN]
        /\ c.void = comp.void
        /\ c.last # t => c.last = comp.last /\ c.first = comp.first
    BY Zenon DEF AfterAsking
  <1>5. comp' = [c EXCEPT !.sorted = FALSE, !.flags = flags,
                          !.void = @ /\ ~(Recompute(t) /\ c.last = t)]
    BY Zenon DEF computeNetForce
  <1> HIDE DEF c
  <1>6. /\ comp' \in [first : BOOLEAN, last : Nat, sorted : BOOLEAN, flags : SUBSET Flag,
                      void : BOOLEAN]
        /\ comp'.last = c.last /\ comp'.first = c.first
        /\ comp'.flags = flags /\ ~comp'.sorted
        /\ comp'.void = (c.void /\ ~(Recompute(t) /\ c.last = t))
    BY <1>4, <1>5, ZenonT(60)
  <1>7. ~Recompute(t) => ~comp.first /\ ~comp.sorted /\ comp.last = t /\ flags = comp.flags
    BY DEF Recompute, ShouldCompute
  <1>8. QED
    BY <1>1, <1>2, <1>3, <1>4, <1>6, <1>7

\* When a force raises, the cache is void or will be asked again because of a sort.
LEMMA NetForceRaised ==
  ASSUME TypeOK, NEW t \in Nat, NEW held \in ForceType, computeNetForceRaises(t, held)
  PROVE  /\ force' \in ForceType /\ force'.flags = held.flags
         /\ comp' \in [first : BOOLEAN, last : Nat, sorted : BOOLEAN, flags : SUBSET Flag,
                       void : BOOLEAN]
         /\ rigid' = rigid + 1 /\ failures' = failures + 1
         /\ comp'.flags = comp.flags
         /\ comp'.sorted \/ comp'.void
         /\ ~comp'.void => comp' = comp
PROOF
  <1> USE DEF TypeOK, ForceType
  <1>1. CASE comp.sorted
    BY <1>1, ZenonT(60) DEF computeNetForceRaises, AfterAsking
  <1>2. CASE ~comp.sorted
    BY <1>2, ZenonT(60) DEF computeNetForceRaises, AfterAsking
  <1>3. QED
    BY <1>1, <1>2

\* The flags for a step depend on the triggers alone.
LEMMA FlagsForKept ==
  ASSUME UNCHANGED trigger
  PROVE  /\ FlagsFor(cur)' = FlagsFor(cur') /\ FlagsFor(cur + 1)' = FlagsFor(cur' + 1)
PROOF
  BY DEF FlagsFor, Acts


-----------------------------------------------------------------------------
(* The steps keep each part of the invariant. *)

\* Time steps stay within the bounds of the run.
LEMMA StepsKept ==
  ASSUME IInv, [Next]_vars
  PROVE  StepsInv'
PROOF
  <1> USE DEF IInv, TypeOK, StepsInv
  <1>1. ASSUME NEW n \in 0 .. MaxRun, NEW w \in BOOLEAN, Run(n, w) PROVE StepsInv'
    BY <1>1, SystemAssumption, SMTT(30) DEF loop, dof, forces, Run, UpdateGroupDOF, Goto
  <1>2. CASE PrepRun
    BY <1>2, SystemAssumption DEF loop, dof, forces, PrepRun, Goto, NextStep, computeNetForce
  <1>3. CASE PrepRunRaises
    BY <1>3, SystemAssumption DEF loop, dof, forces, PrepRunRaises, Raised, Goto, computeNetForceRaises
  <1>4. CASE WriteAtStart
    BY <1>4, SystemAssumption DEF loop, dof, forces, WriteAtStart, Visit, GoOn, Raised, Goto
  <1>5. CASE EndOfWritersAtStart
    BY <1>5, SystemAssumption DEF loop, dof, forces, EndOfWritersAtStart, Goto, NextStep
  <1>6. CASE Tune
    BY <1>6, SystemAssumption DEF loop, dof, forces, Tune, Visit, GoOn, Raised, Goto, GivenUp, Overtaken, Executed
  <1>7. CASE EndOfTuners
    BY <1>7, SystemAssumption DEF loop, dof, forces, EndOfTuners, Goto
  <1>8. CASE Update
    BY <1>8, SystemAssumption DEF loop, dof, forces, Update, Visit, GoOn, Raised, Goto, GivenUp, Overtaken, Executed, MayChange
  <1>9. CASE EndOfUpdaters
    BY <1>9, SystemAssumption DEF loop, dof, forces, EndOfUpdaters, UpdateGroupDOF, Goto
  <1>10. CASE Integrate
    <2>1. pc = "integrate" /\ cur' = Counted(cur) /\ end' = end /\ pc' = "writers"
      BY <1>10, Zenon DEF Integrate, Goto
    <2>2. cur \in Nat /\ end \in Nat /\ cur <= end /\ end <= MaxStep /\ cur < end
      BY <2>1, Zenon
    <2> HIDE DEF IInv, TypeOK, StepsInv
    <2>3. QED
      BY <2>1, <2>2, SystemAssumption, SMTT(30) DEF Counted, StepsInv
  <1>11. CASE IntegrateRaises
    BY <1>11, SystemAssumption DEF loop, dof, forces, IntegrateRaises, computeNetForceRaises, Raised, Goto, GivenUp, Moved
  <1>12. CASE Write
    BY <1>12, SystemAssumption DEF loop, dof, forces, Write, Visit, GoOn, Raised, Goto, Executed
  <1>13. CASE EndOfWriters
    BY <1>13, SystemAssumption DEF loop, dof, forces, EndOfWriters, Goto
  <1>14. CASE CheckSignals
    BY <1>14, SystemAssumption DEF loop, dof, forces, CheckSignals, Goto, NextStep
  <1>15. CASE SetSnapshot
    BY <1>15, SystemAssumption DEF loop, dof, forces, SetSnapshot
  <1>16. ASSUME NEW o \in Op, NEW t \in Choices[o], SetTrigger(o, t) PROVE StepsInv'
    BY <1>16, SystemAssumption DEF loop, dof, forces, SetTrigger
  <1>17. CASE UNCHANGED vars
    BY <1>17 DEF vars, loop, dof, forces
  <1>18. QED
    BY <1>1, <1>2, <1>3, <1>4, <1>5, <1>6, <1>7, <1>8, <1>9, <1>10, <1>11, <1>12, <1>13, <1>14, <1>15, <1>16, <1>17, SMTT(30) DEF Next, RunLoop

\* Degrees of freedom that may have changed are counted before the integrator runs.
LEMMA DofKept ==
  ASSUME IInv, [Next]_vars
  PROVE  DofInv'
PROOF
  <1> USE DEF IInv, TypeOK, DofInv
  <1>1. ASSUME NEW n \in 0 .. MaxRun, NEW w \in BOOLEAN, Run(n, w) PROVE DofInv'
    BY <1>1 DEF loop, dof, forces, Run, UpdateGroupDOF, Goto
  <1>2. CASE PrepRun
    BY <1>2 DEF loop, dof, forces, PrepRun, Goto, NextStep, computeNetForce
  <1>3. CASE PrepRunRaises
    BY <1>3 DEF loop, dof, forces, PrepRunRaises, Raised, Goto, computeNetForceRaises
  <1>4. CASE WriteAtStart
    BY <1>4 DEF loop, dof, forces, WriteAtStart, Visit, GoOn, Raised, Goto
  <1>5. CASE EndOfWritersAtStart
    BY <1>5 DEF loop, dof, forces, EndOfWritersAtStart, Goto, NextStep
  <1>6. CASE Tune
    BY <1>6 DEF loop, dof, forces, Tune, Visit, GoOn, Raised, Goto, GivenUp, Overtaken, Executed
  <1>7. CASE EndOfTuners
    BY <1>7 DEF loop, dof, forces, EndOfTuners, Goto
  <1>8. CASE Update
    BY <1>8, SMTT(30) DEF loop, dof, forces, Update, Visit, GoOn, Raised, Goto, GivenUp, Overtaken, Executed, MayChange
  <1>9. CASE EndOfUpdaters
    BY <1>9 DEF loop, dof, forces, EndOfUpdaters, UpdateGroupDOF, Goto
  <1>10. CASE Integrate
    BY <1>10 DEF loop, dof, forces, Integrate, computeNetForce, Counted, Goto, Moved
  <1>11. CASE IntegrateRaises
    BY <1>11 DEF loop, dof, forces, IntegrateRaises, computeNetForceRaises, Raised, Goto, GivenUp, Moved
  <1>12. CASE Write
    BY <1>12 DEF loop, dof, forces, Write, Visit, GoOn, Raised, Goto, Executed
  <1>13. CASE EndOfWriters
    BY <1>13 DEF loop, dof, forces, EndOfWriters, Goto
  <1>14. CASE CheckSignals
    BY <1>14 DEF loop, dof, forces, CheckSignals, Goto, NextStep
  <1>15. CASE SetSnapshot
    BY <1>15 DEF loop, dof, forces, SetSnapshot
  <1>16. ASSUME NEW o \in Op, NEW t \in Choices[o], SetTrigger(o, t) PROVE DofInv'
    BY <1>16 DEF loop, dof, forces, SetTrigger
  <1>17. CASE UNCHANGED vars
    BY <1>17 DEF vars, loop, dof, forces
  <1>18. QED
    BY <1>1, <1>2, <1>3, <1>4, <1>5, <1>6, <1>7, <1>8, <1>9, <1>10, <1>11, <1>12, <1>13, <1>14, <1>15, <1>16, <1>17, SMTT(30) DEF Next, RunLoop

\* The step counter is a time step of the runs, and in a step so is the next one.
LEMMA StepBounds ==
  ASSUME TypeOK, StepsInv
  PROVE  /\ cur \in Nat /\ cur <= MaxStep
         /\ pc = "updaters" => cur + 1 \in Nat /\ cur + 1 <= MaxStep
PROOF
  <1>1. cur \in Nat /\ end \in Nat /\ cur <= end /\ end <= MaxStep /\ (pc = "updaters" => cur < end)
    BY ZenonT(60) DEF TypeOK, StepsInv
  <1>2. MaxStep \in Nat
    BY SystemAssumption, ZenonT(60)
  <1>3. QED
    BY <1>1, <1>2, SMTT(30)

\* Caches stay right, whichever trigger is asked about whichever step.
LEMMA CachesKept ==
  ASSUME IInv, [Next]_vars
  PROVE  CachesInv'
PROOF
  <1>1. ASSUME NEW n \in 0 .. MaxRun, NEW w \in BOOLEAN, Run(n, w) PROVE CachesInv'
    <2>1. cur \in Nat /\ cur <= MaxStep /\ SetFlags(cur)
      BY <1>1, StepBounds, ZenonT(60) DEF Run, IInv
    <2>2. QED
      BY <2>1, FlagsSet DEF IInv
  <1>2. CASE PrepRun
    BY <1>2 DEF IInv, CachesInv, PrepRun
  <1>3. CASE PrepRunRaises
    BY <1>3 DEF IInv, CachesInv, PrepRunRaises
  <1>4. CASE WriteAtStart
    <2>1. Visit("start", Writers) /\ cur <= MaxStep /\ trigger' = trigger
      BY <1>4, StepBounds, ZenonT(60) DEF WriteAtStart, IInv
    <2>2. QED
      BY <2>1, DecisionRight DEF IInv
  <1>5. CASE EndOfWritersAtStart
    BY <1>5 DEF IInv, CachesInv, EndOfWritersAtStart
  <1>6. CASE Tune
    <2>1. Visit("tuners", Tuners) /\ cur <= MaxStep /\ trigger' = trigger
      BY <1>6, StepBounds, ZenonT(60) DEF Tune, IInv
    <2>2. QED
      BY <2>1, DecisionRight DEF IInv
  <1>7. CASE EndOfTuners
    BY <1>7 DEF IInv, CachesInv, EndOfTuners
  <1>8. CASE Update
    <2>1. Visit("updaters", Updaters) /\ cur <= MaxStep /\ trigger' = trigger
      BY <1>8, StepBounds, ZenonT(60) DEF Update, IInv
    <2>2. QED
      BY <2>1, DecisionRight DEF IInv
  <1>9. CASE EndOfUpdaters
    <2>1. cur + 1 \in Nat /\ cur + 1 <= MaxStep /\ SetFlags(cur + 1)
      BY <1>9, StepBounds, ZenonT(60) DEF EndOfUpdaters, IInv
    <2>2. QED
      BY <2>1, FlagsSet DEF IInv
  <1>10. CASE Integrate
    BY <1>10 DEF IInv, CachesInv, Integrate
  <1>11. CASE IntegrateRaises
    BY <1>11 DEF IInv, CachesInv, IntegrateRaises
  <1>12. CASE Write
    <2>1. Visit("writers", Writers) /\ cur <= MaxStep /\ trigger' = trigger
      BY <1>12, StepBounds, ZenonT(60) DEF Write, IInv
    <2>2. QED
      BY <2>1, DecisionRight DEF IInv
  <1>13. CASE EndOfWriters
    BY <1>13 DEF IInv, CachesInv, EndOfWriters
  <1>14. CASE CheckSignals
    BY <1>14 DEF IInv, CachesInv, CheckSignals
  <1>15. CASE SetSnapshot
    BY <1>15 DEF IInv, CachesInv, SetSnapshot
  <1>16. ASSUME NEW o \in Op, NEW t \in Choices[o], SetTrigger(o, t) PROVE CachesInv'
    BY <1>16 DEF IInv, CachesInv, SetTrigger
  <1>17. CASE UNCHANGED vars
    BY <1>17 DEF IInv, CachesInv, vars, loop, dof, forces
  <1>18. QED
    BY <1>1, <1>2, <1>3, <1>4, <1>5, <1>6, <1>7, <1>8, <1>9, <1>10, <1>11, <1>12, <1>13, <1>14, <1>15, <1>16, <1>17 DEF Next, RunLoop

\* Decisions follow the triggers.
LEMMA DecisionKept ==
  ASSUME IInv, [Next]_vars
  PROVE  DecisionInv'
PROOF
  <1> USE DEF IInv, DecisionInv
  <1>1. ASSUME NEW n \in 0 .. MaxRun, NEW w \in BOOLEAN, Run(n, w) PROVE DecisionInv'
    BY <1>1 DEF Run, NoDecision
  <1>2. CASE PrepRun
    BY <1>2 DEF loop, dof, forces, PrepRun, Goto, NextStep, computeNetForce
  <1>3. CASE PrepRunRaises
    BY <1>3 DEF loop, dof, forces, PrepRunRaises, Raised, Goto, computeNetForceRaises
  <1>4. CASE WriteAtStart
    <2>1. Visit("start", Writers) /\ cur <= MaxStep /\ trigger' = trigger
      BY <1>4, StepBounds, ZenonT(60) DEF WriteAtStart
    <2>2. QED
      BY <2>1, DecisionRight, SMTT(30)
  <1>5. CASE EndOfWritersAtStart
    BY <1>5, Zenon DEF loop, dof, forces, EndOfWritersAtStart, Goto, NextStep
  <1>6. CASE Tune
    <2>1. Visit("tuners", Tuners) /\ cur <= MaxStep /\ trigger' = trigger
      BY <1>6, StepBounds, ZenonT(60) DEF Tune
    <2>2. QED
      BY <2>1, DecisionRight, SMTT(30)
  <1>7. CASE EndOfTuners
    BY <1>7, ZenonT(30) DEF loop, dof, forces, EndOfTuners, Goto
  <1>8. CASE Update
    <2>1. Visit("updaters", Updaters) /\ cur <= MaxStep /\ trigger' = trigger
      BY <1>8, StepBounds, ZenonT(60) DEF Update
    <2>2. QED
      BY <2>1, DecisionRight, SMTT(30)
  <1>9. CASE EndOfUpdaters
    BY <1>9, Zenon DEF loop, dof, forces, EndOfUpdaters, UpdateGroupDOF, Goto
  <1>10. CASE Integrate
    BY <1>10 DEF loop, dof, forces, Integrate, computeNetForce, Counted, Goto, Moved
  <1>11. CASE IntegrateRaises
    BY <1>11 DEF loop, dof, forces, IntegrateRaises, computeNetForceRaises, Raised, Goto, GivenUp, Moved
  <1>12. CASE Write
    <2>1. Visit("writers", Writers) /\ cur <= MaxStep /\ trigger' = trigger
      BY <1>12, StepBounds, ZenonT(60) DEF Write
    <2>2. QED
      BY <2>1, DecisionRight, SMTT(30)
  <1>13. CASE EndOfWriters
    BY <1>13 DEF loop, dof, forces, EndOfWriters, Goto
  <1>14. CASE CheckSignals
    BY <1>14 DEF loop, dof, forces, CheckSignals, Goto, NextStep
  <1>15. CASE SetSnapshot
    BY <1>15 DEF loop, dof, forces, SetSnapshot
  <1>16. ASSUME NEW o \in Op, NEW t \in Choices[o], SetTrigger(o, t) PROVE DecisionInv'
    BY <1>16 DEF SetTrigger, NoDecision
  <1>17. CASE UNCHANGED vars
    BY <1>17 DEF vars, loop, dof, forces
  <1>18. QED
    BY <1>1, <1>2, <1>3, <1>4, <1>5, <1>6, <1>7, <1>8, <1>9, <1>10, <1>11, <1>12, <1>13, <1>14, <1>15, <1>16, <1>17, ZenonT(30) DEF Next, RunLoop

\* Types.
LEMMA TypesKept ==
  ASSUME IInv, [Next]_vars
  PROVE  TypeOK'
PROOF
  <1>1. ASSUME NEW n \in 0 .. MaxRun, NEW w \in BOOLEAN, Run(n, w) PROVE TypeOK'
    <2>1. cur \in Nat /\ cur <= MaxStep /\ SetFlags(cur)
      BY <1>1, StepBounds, ZenonT(60) DEF Run, IInv
    <2>2. /\ flags' \in SUBSET Flag
          /\ cache' \in [Object -> [last : TimeStep, value : BOOLEAN]]
      BY <2>1, FlagsSet DEF IInv
    <2>3. dofNext' \in BOOLEAN /\ dofKnown' \in BOOLEAN /\ dofLost' \in BOOLEAN
      BY <1>1, Zenon DEF IInv, TypeOK, Run, UpdateGroupDOF, dof
    <2>4. /\ cur' \in Nat /\ end' \in Nat /\ idx' \in Nat \ {0}
          /\ pc' \in Phase /\ atStart' \in BOOLEAN
      BY <1>1, SystemAssumption, SMTT(30) DEF IInv, TypeOK, Phase, Run, Goto
    <2>5. UNCHANGED <<trigger, forces, last>>
      BY <1>1 DEF Run
    <2>6. QED
      BY <2>2, <2>3, <2>4, <2>5 DEF IInv, TypeOK, forces
  <1>2. CASE PrepRun
    <2>1. cur \in Nat /\ force \in ForceType
      BY DEF IInv, TypeOK, ForceType
    <2>2. computeNetForce(cur, force)
      BY <1>2 DEF PrepRun
    <2>3. /\ force' \in ForceType
          /\ comp' \in [first : BOOLEAN, last : Nat, sorted : BOOLEAN, flags : SUBSET Flag,
                           void : BOOLEAN]
          /\ net' = [current |-> force'.current, flags |-> force'.flags, rigid |-> rigid + 1]
          /\ rigid' = rigid /\ failures' = failures
      BY <2>1, <2>2, NetForceComputed DEF IInv
    <2>4. QED
      BY <1>2, <2>3, SMTT(30) DEF IInv, TypeOK, ForceType, Phase, dof, PrepRun, Goto, NextStep
  <1>3. CASE PrepRunRaises
    <2>1. cur \in Nat /\ force \in ForceType
      BY DEF IInv, TypeOK, ForceType
    <2>2. computeNetForceRaises(cur, force)
      BY <1>3 DEF PrepRunRaises
    <2>3. /\ force' \in ForceType
          /\ comp' \in [first : BOOLEAN, last : Nat, sorted : BOOLEAN, flags : SUBSET Flag,
                           void : BOOLEAN]
          /\ rigid' = rigid + 1 /\ failures' = failures + 1
      BY <2>1, <2>2, NetForceRaised DEF IInv
    <2>4. QED
      BY <1>3, <2>3, SMTT(30) DEF IInv, TypeOK, ForceType, Phase, dof, PrepRunRaises, Raised, Goto
  <1>4. CASE WriteAtStart
    <2>1. Visit("start", Writers) /\ cur <= MaxStep
      BY <1>4, StepBounds, ZenonT(60) DEF WriteAtStart, IInv
    <2>2. cache' \in [Object -> [last : TimeStep, value : BOOLEAN]]
      BY <2>1, DecisionRight DEF IInv
    <2>3. QED
      BY <1>4, <2>2, SMTT(30) DEF IInv, TypeOK, Phase, forces, dof, WriteAtStart, GoOn, Raised, Goto
  <1>5. CASE EndOfWritersAtStart
    BY <1>5, SMTT(30) DEF IInv, TypeOK, Phase, loop, dof, forces, EndOfWritersAtStart, Goto, NextStep
  <1>6. CASE Tune
    <2>1. Visit("tuners", Tuners) /\ cur <= MaxStep
      BY <1>6, StepBounds, ZenonT(60) DEF Tune, IInv
    <2>2. cache' \in [Object -> [last : TimeStep, value : BOOLEAN]]
      BY <2>1, DecisionRight DEF IInv
    <2>3. last' \in [Op -> Int]
      BY <1>6, SMTT(30) DEF IInv, TypeOK, Tune, GivenUp, Executed, Never
    <2>4. /\ comp' \in [first : BOOLEAN, last : Nat, sorted : BOOLEAN, flags : SUBSET Flag,
                      void : BOOLEAN]
          /\ force' \in [current : BOOLEAN, flags : SUBSET Flag]
          /\ net' \in [current : BOOLEAN, flags : SUBSET Flag, rigid : Nat]
      <3>a. PICK sorts \in BOOLEAN :
              LET c == [comp EXCEPT !.sorted = @ \/ sorts]
              IN  comp' = c \/ comp' = Overtaken(c, force')
        BY <1>6, ZenonT(60) DEF Tune
      <3>b. comp \in [first : BOOLEAN, last : Nat, sorted : BOOLEAN, flags : SUBSET Flag,
                      void : BOOLEAN]
        BY DEF IInv, TypeOK
      <3>1. comp' \in [first : BOOLEAN, last : Nat, sorted : BOOLEAN, flags : SUBSET Flag,
                       void : BOOLEAN]
        BY <3>a, <3>b, ZenonT(60) DEF Overtaken
      <3>2. force' \in [current : BOOLEAN, flags : SUBSET Flag]
        BY <1>6, ZenonT(60) DEF IInv, TypeOK, Tune
      <3>3. net' \in [current : BOOLEAN, flags : SUBSET Flag, rigid : Nat]
        BY <1>6, ZenonT(60) DEF IInv, TypeOK, Tune
      <3>4. QED
        BY <3>1, <3>2, <3>3
    <2>5. /\ cur' \in Nat /\ end' \in Nat /\ idx' \in Nat \ {0}
          /\ pc' \in Phase /\ atStart' \in BOOLEAN
      BY <1>6, SMTT(30) DEF IInv, TypeOK, Phase, Tune, GoOn, Raised, Goto
    <2>6. /\ dofNext' \in BOOLEAN /\ dofKnown' \in BOOLEAN /\ dofLost' \in BOOLEAN
          /\ UNCHANGED <<trigger, flags, failures, rigid>>
      BY <1>6 DEF IInv, TypeOK, Tune, dof
    <2>7. QED
      BY <2>2, <2>3, <2>4, <2>5, <2>6 DEF IInv, TypeOK
  <1>7. CASE EndOfTuners
    BY <1>7, SMTT(30) DEF IInv, TypeOK, Phase, loop, dof, forces, EndOfTuners, Goto
  <1>8. CASE Update
    <2>1. Visit("updaters", Updaters) /\ cur <= MaxStep
      BY <1>8, StepBounds, ZenonT(60) DEF Update, IInv
    <2>2. cache' \in [Object -> [last : TimeStep, value : BOOLEAN]]
      BY <2>1, DecisionRight DEF IInv
    <2>3. last' \in [Op -> Int]
      BY <1>8, SMTT(30) DEF IInv, TypeOK, Update, GivenUp, Executed, Never
    <2>4. /\ comp' \in [first : BOOLEAN, last : Nat, sorted : BOOLEAN, flags : SUBSET Flag,
                      void : BOOLEAN]
          /\ force' \in [current : BOOLEAN, flags : SUBSET Flag]
          /\ net' \in [current : BOOLEAN, flags : SUBSET Flag, rigid : Nat]
      <3>a. comp' = comp \/ comp' = Overtaken(comp, force')
        BY <1>8, ZenonT(60) DEF Update
      <3>b. comp \in [first : BOOLEAN, last : Nat, sorted : BOOLEAN, flags : SUBSET Flag,
                      void : BOOLEAN]
        BY DEF IInv, TypeOK
      <3>1. comp' \in [first : BOOLEAN, last : Nat, sorted : BOOLEAN, flags : SUBSET Flag,
                       void : BOOLEAN]
        BY <3>a, <3>b, ZenonT(60) DEF Overtaken
      <3>2. force' \in [current : BOOLEAN, flags : SUBSET Flag]
        BY <1>8, ZenonT(60) DEF IInv, TypeOK, Update
      <3>3. net' \in [current : BOOLEAN, flags : SUBSET Flag, rigid : Nat]
        BY <1>8, ZenonT(60) DEF IInv, TypeOK, Update
      <3>4. QED
        BY <3>1, <3>2, <3>3
    <2>5. /\ cur' \in Nat /\ end' \in Nat /\ idx' \in Nat \ {0}
          /\ pc' \in Phase /\ atStart' \in BOOLEAN
      BY <1>8, SMTT(30) DEF IInv, TypeOK, Phase, Update, GoOn, Raised, Goto
    <2>6. /\ dofNext' \in BOOLEAN /\ dofKnown' \in BOOLEAN /\ dofLost' \in BOOLEAN
          /\ UNCHANGED <<trigger, flags, failures, rigid>>
      BY <1>8, Zenon DEF IInv, TypeOK, Update, dof, MayChange
    <2>7. QED
      BY <2>2, <2>3, <2>4, <2>5, <2>6 DEF IInv, TypeOK
  <1>9. CASE EndOfUpdaters
    <2>1. cur + 1 \in Nat /\ cur + 1 <= MaxStep /\ SetFlags(cur + 1)
      BY <1>9, StepBounds, ZenonT(60) DEF EndOfUpdaters, IInv
    <2>2. /\ flags' \in SUBSET Flag
          /\ cache' \in [Object -> [last : TimeStep, value : BOOLEAN]]
      BY <2>1, FlagsSet DEF IInv
    <2>3. dofNext' \in BOOLEAN /\ dofKnown' \in BOOLEAN /\ dofLost' \in BOOLEAN
      BY <1>9, Zenon DEF IInv, TypeOK, EndOfUpdaters, UpdateGroupDOF, dof
    <2>4. /\ cur' \in Nat /\ end' \in Nat /\ idx' \in Nat \ {0}
          /\ pc' \in Phase /\ atStart' \in BOOLEAN
      BY <1>9, SystemAssumption, SMTT(30) DEF IInv, TypeOK, Phase, EndOfUpdaters, Goto
    <2>5. UNCHANGED <<trigger, forces, last>>
      BY <1>9 DEF EndOfUpdaters
    <2>6. QED
      BY <2>2, <2>3, <2>4, <2>5 DEF IInv, TypeOK, forces
  <1>10. CASE Integrate
    <2>1. cur + 1 \in Nat
      BY SMTT(30) DEF IInv, TypeOK
    <2>2. Moved \in ForceType /\ computeNetForce(cur + 1, Moved)
      BY <1>10, MovedType DEF Integrate, IInv
    <2>3. /\ force' \in ForceType
          /\ comp' \in [first : BOOLEAN, last : Nat, sorted : BOOLEAN, flags : SUBSET Flag,
                           void : BOOLEAN]
          /\ net' = [current |-> force'.current, flags |-> force'.flags, rigid |-> rigid + 1]
          /\ rigid' = rigid /\ failures' = failures
      BY <2>1, <2>2, NetForceComputed DEF IInv
    <2>4. QED
      BY <1>10, <2>3, SMTT(30) DEF IInv, TypeOK, ForceType, Phase, dof, Integrate, Counted, Goto
  <1>11. CASE IntegrateRaises
    <2>1. cur + 1 \in Nat
      BY SMTT(30) DEF IInv, TypeOK
    <2>2. Moved \in ForceType /\ computeNetForceRaises(cur + 1, Moved)
      BY <1>11, MovedType DEF IntegrateRaises, IInv
    <2>3. /\ force' \in ForceType
          /\ comp' \in [first : BOOLEAN, last : Nat, sorted : BOOLEAN, flags : SUBSET Flag,
                           void : BOOLEAN]
          /\ rigid' = rigid + 1 /\ failures' = failures + 1
      BY <2>1, <2>2, NetForceRaised DEF IInv
    <2>4. last' \in [Op -> Int]
      BY <1>11 DEF IntegrateRaises, GivenUp, Never
    <2>5. net' \in [current : BOOLEAN, flags : SUBSET Flag, rigid : Nat]
      BY <1>11, Zenon DEF IInv, TypeOK, IntegrateRaises
    <2>6. UNCHANGED <<cur, end, atStart, cache, trigger, flags, dof>> /\ pc' = "idle" /\ idx' = 1
      BY <1>11 DEF IntegrateRaises, Raised, Goto
    <2>7. QED
      BY <2>3, <2>4, <2>5, <2>6, SMTT(30) DEF IInv, TypeOK, ForceType, Phase, dof
  <1>12. CASE Write
    <2>1. Visit("writers", Writers) /\ cur <= MaxStep
      BY <1>12, StepBounds, ZenonT(60) DEF Write, IInv
    <2>2. cache' \in [Object -> [last : TimeStep, value : BOOLEAN]]
      BY <2>1, DecisionRight DEF IInv
    <2>3. QED
      BY <1>12, <2>2, SMTT(30) DEF IInv, TypeOK, Phase, forces, dof, Write, GoOn, Raised, Goto, Executed
  <1>13. CASE EndOfWriters
    BY <1>13, SMTT(30) DEF IInv, TypeOK, Phase, loop, dof, forces, EndOfWriters, Goto
  <1>14. CASE CheckSignals
    BY <1>14, SMTT(30) DEF IInv, TypeOK, Phase, loop, dof, forces, CheckSignals, Goto, NextStep
  <1>15. CASE SetSnapshot
    BY <1>15, Zenon DEF IInv, TypeOK, Phase, loop, dof, forces, SetSnapshot
  <1>16. ASSUME NEW o \in Op, NEW t \in Choices[o], SetTrigger(o, t) PROVE TypeOK'
    BY <1>16, SystemAssumption, ZenonT(60) DEF IInv, TypeOK, loop, dof, forces, SetTrigger
  <1>17. CASE UNCHANGED vars
    BY <1>17 DEF IInv, TypeOK, vars, loop, dof, forces
  <1>18. QED
    BY <1>1, <1>2, <1>3, <1>4, <1>5, <1>6, <1>7, <1>8, <1>9, <1>10, <1>11, <1>12, <1>13, <1>14, <1>15, <1>16, <1>17 DEF Next, RunLoop

\* The net force that writers see is current.
LEMMA ForcesKept ==
  ASSUME IInv, [Next]_vars
  PROVE  ForcesInv'
PROOF
  <1>1. ASSUME NEW n \in 0 .. MaxRun, NEW w \in BOOLEAN, Run(n, w) PROVE ForcesInv'
    BY <1>1 DEF IInv, TypeOK, ForcesInv, loop, dof, forces, Run, UpdateGroupDOF, Goto
  <1>2. CASE PrepRun
    <2>1. cur \in Nat /\ force \in ForceType
      BY DEF IInv, TypeOK, ForceType
    <2>2. computeNetForce(cur, force)
      BY <1>2 DEF PrepRun
    <2>3. /\ comp' \in [first : BOOLEAN, last : Nat, sorted : BOOLEAN, flags : SUBSET Flag,
                           void : BOOLEAN]
          /\ net' = [current |-> force'.current, flags |-> force'.flags, rigid |-> rigid + 1]
          /\ rigid' = rigid /\ failures' = failures /\ ~comp'.sorted
          /\ Recompute(cur) => force'.current
          /\ ~Recompute(cur) => /\ force' = force
                                /\ ~comp.first /\ ~comp.sorted /\ comp.last = cur
                                /\ comp'.void = comp.void
          /\ comp'.last # cur => /\ comp'.last = comp.last
                                 /\ comp'.first = comp.first /\ comp'.void = comp.void
      BY <2>1, <2>2, NetForceComputed DEF IInv
    <2>4. QED
      BY <1>2, <2>3, SMTT(30) DEF IInv, TypeOK, ForcesInv, ForceType, dof, PrepRun, Goto, NextStep
  <1>3. CASE PrepRunRaises
    <2>1. cur \in Nat /\ force \in ForceType
      BY DEF IInv, TypeOK, ForceType
    <2>2. computeNetForceRaises(cur, force)
      BY <1>3 DEF PrepRunRaises
    <2>3. /\ comp' \in [first : BOOLEAN, last : Nat, sorted : BOOLEAN, flags : SUBSET Flag,
                           void : BOOLEAN]
          /\ failures' = failures + 1
          /\ comp'.sorted \/ comp'.void
          /\ ~comp'.void => comp' = comp
      BY <2>1, <2>2, NetForceRaised DEF IInv
    <2>4. QED
      BY <1>3, <2>3, SMTT(30) DEF IInv, TypeOK, ForcesInv, ForceType, dof, PrepRunRaises, Raised, Goto
  <1>4. CASE WriteAtStart
    BY <1>4 DEF IInv, TypeOK, ForcesInv, loop, dof, forces, WriteAtStart, Visit, GoOn, Raised, Goto
  <1>5. CASE EndOfWritersAtStart
    BY <1>5 DEF IInv, TypeOK, ForcesInv, loop, dof, forces, EndOfWritersAtStart, Goto, NextStep
  <1>6. CASE Tune
    BY <1>6, ZenonT(60) DEF IInv, TypeOK, ForcesInv, loop, dof, forces, Tune, Visit, GoOn, Raised, Goto, GivenUp, Overtaken, Executed
  <1>7. CASE EndOfTuners
    BY <1>7 DEF IInv, TypeOK, ForcesInv, loop, dof, forces, EndOfTuners, Goto
  <1>8. CASE Update
    BY <1>8, ZenonT(60) DEF IInv, TypeOK, ForcesInv, loop, dof, forces, Update, Visit, GoOn, Raised, Goto, GivenUp, Overtaken, Executed, MayChange
  <1>9. CASE EndOfUpdaters
    BY <1>9 DEF IInv, TypeOK, ForcesInv, loop, dof, forces, EndOfUpdaters, UpdateGroupDOF, Goto
  <1>10. CASE Integrate
    <2>1. cur + 1 \in Nat
      BY SMTT(30) DEF IInv, TypeOK
    <2>2. Moved \in ForceType /\ computeNetForce(cur + 1, Moved)
      BY <1>10, MovedType DEF Integrate, IInv
    <2>3. /\ comp' \in [first : BOOLEAN, last : Nat, sorted : BOOLEAN, flags : SUBSET Flag,
                           void : BOOLEAN]
          /\ net' = [current |-> force'.current, flags |-> force'.flags, rigid |-> rigid + 1]
          /\ rigid' = rigid /\ failures' = failures /\ ~comp'.sorted
          /\ Recompute(cur + 1) => force'.current
          /\ ~Recompute(cur + 1) => /\ force' = Moved
                                /\ ~comp.first /\ ~comp.sorted /\ comp.last = cur + 1
                                /\ comp'.void = comp.void
          /\ comp'.last # cur + 1 => /\ comp'.last = comp.last
                                 /\ comp'.first = comp.first /\ comp'.void = comp.void
      BY <2>1, <2>2, NetForceComputed DEF IInv
    <2>4. QED
      BY <1>10, <2>3, SMTT(30) DEF IInv, TypeOK, ForcesInv, ForceType, dof, Integrate, Counted, Goto, Moved
  <1>11. CASE IntegrateRaises
    <2>1. cur + 1 \in Nat
      BY SMTT(30) DEF IInv, TypeOK
    <2>2. Moved \in ForceType /\ computeNetForceRaises(cur + 1, Moved)
      BY <1>11, MovedType DEF IntegrateRaises, IInv
    <2>3. /\ comp' \in [first : BOOLEAN, last : Nat, sorted : BOOLEAN, flags : SUBSET Flag,
                           void : BOOLEAN]
          /\ failures' = failures + 1
          /\ comp'.sorted \/ comp'.void
          /\ ~comp'.void => comp' = comp
      BY <2>1, <2>2, NetForceRaised DEF IInv
    <2>4. QED
      BY <1>11, <2>3, SMTT(30) DEF IInv, TypeOK, ForcesInv, ForceType, dof, IntegrateRaises, Raised, Goto, GivenUp
  <1>12. CASE Write
    BY <1>12 DEF IInv, TypeOK, ForcesInv, loop, dof, forces, Write, Visit, GoOn, Raised, Goto, Executed
  <1>13. CASE EndOfWriters
    BY <1>13 DEF IInv, TypeOK, ForcesInv, loop, dof, forces, EndOfWriters, Goto
  <1>14. CASE CheckSignals
    BY <1>14 DEF IInv, TypeOK, ForcesInv, loop, dof, forces, CheckSignals, Goto, NextStep
  <1>15. CASE SetSnapshot
    BY <1>15 DEF IInv, TypeOK, ForcesInv, loop, dof, forces, SetSnapshot
  <1>16. ASSUME NEW o \in Op, NEW t \in Choices[o], SetTrigger(o, t) PROVE ForcesInv'
    BY <1>16 DEF IInv, TypeOK, ForcesInv, loop, dof, forces, SetTrigger
  <1>17. CASE UNCHANGED vars
    BY <1>17 DEF IInv, ForcesInv, vars, loop, dof, forces
  <1>18. QED
    BY <1>1, <1>2, <1>3, <1>4, <1>5, <1>6, <1>7, <1>8, <1>9, <1>10, <1>11, <1>12, <1>13, <1>14, <1>15, <1>16, <1>17 DEF Next, RunLoop

\* The flags are those of the step whose forces are computed with them.
LEMMA FlagsKept ==
  ASSUME IInv, [Next]_vars
  PROVE  FlagsInv'
PROOF
  <1>1. ASSUME NEW n \in 0 .. MaxRun, NEW w \in BOOLEAN, Run(n, w) PROVE FlagsInv'
    <2>1. cur \in Nat /\ cur <= MaxStep /\ SetFlags(cur)
      BY <1>1, StepBounds, ZenonT(60) DEF Run, IInv
    <2>2. flags' = FlagsFor(cur)
      BY <2>1, FlagsSet DEF IInv
    <2>3. UNCHANGED trigger
      BY <1>1 DEF Run
    <2>4. QED
      BY <1>1, <2>2, <2>3, FlagsForKept DEF IInv, FlagsInv, forces, Run, Goto
  <1>2. CASE PrepRun
    <2>1. cur \in Nat /\ force \in ForceType
      BY DEF IInv, TypeOK, ForceType
    <2>2. computeNetForce(cur, force)
      BY <1>2 DEF PrepRun
    <2>3. /\ net'.flags = force'.flags
          /\ comp'.flags = flags
          /\ Recompute(cur) => force'.flags = flags
          /\ ~Recompute(cur) => force' = force /\ flags = comp.flags
      BY <2>1, <2>2, NetForceComputed, SMTT(30) DEF IInv
    <2>4. UNCHANGED trigger
      BY <1>2 DEF PrepRun
    <2>5. QED
      BY <1>2, <2>3, <2>4, FlagsForKept DEF IInv, TypeOK, FlagsInv, PrepRun, Goto, NextStep
  <1>3. CASE PrepRunRaises
    <2>1. cur \in Nat /\ force \in ForceType
      BY DEF IInv, TypeOK, ForceType
    <2>2. computeNetForceRaises(cur, force)
      BY <1>3 DEF PrepRunRaises
    <2>3. /\ force'.flags = force.flags
          /\ comp'.flags = comp.flags
      BY <2>1, <2>2, NetForceRaised DEF IInv
    <2>4. UNCHANGED trigger
      BY <1>3 DEF PrepRunRaises
    <2>5. QED
      BY <1>3, <2>3, <2>4, FlagsForKept DEF IInv, TypeOK, FlagsInv, PrepRunRaises, Raised, Goto
  <1>4. CASE WriteAtStart
    <2>1. UNCHANGED trigger
      BY <1>4 DEF WriteAtStart, loop
    <2>2. QED
      BY <1>4, <2>1, FlagsForKept DEF IInv, TypeOK, FlagsInv, loop, forces, WriteAtStart, Visit, GoOn, Raised, Goto
  <1>5. CASE EndOfWritersAtStart
    <2>1. UNCHANGED trigger
      BY <1>5 DEF EndOfWritersAtStart, loop
    <2>2. QED
      BY <1>5, <2>1, FlagsForKept DEF IInv, TypeOK, FlagsInv, loop, forces, EndOfWritersAtStart, Goto, NextStep
  <1>6. CASE Tune
    <2>1. UNCHANGED trigger
      BY <1>6 DEF Tune, loop
    <2>2. QED
      BY <1>6, <2>1, FlagsForKept DEF IInv, TypeOK, FlagsInv, loop, forces, Tune, Visit, GoOn, Raised, Goto, GivenUp, Overtaken, Executed
  <1>7. CASE EndOfTuners
    <2>1. UNCHANGED trigger
      BY <1>7 DEF EndOfTuners, loop
    <2>2. QED
      BY <1>7, <2>1, FlagsForKept DEF IInv, TypeOK, FlagsInv, loop, forces, EndOfTuners, Goto
  <1>8. CASE Update
    <2>1. UNCHANGED trigger
      BY <1>8 DEF Update, loop
    <2>2. QED
      BY <1>8, <2>1, FlagsForKept DEF IInv, TypeOK, FlagsInv, loop, forces, Update, Visit, GoOn, Raised, Goto, GivenUp, Overtaken, Executed, MayChange
  <1>9. CASE EndOfUpdaters
    <2>1. cur + 1 \in Nat /\ cur + 1 <= MaxStep /\ SetFlags(cur + 1)
      BY <1>9, StepBounds, ZenonT(60) DEF EndOfUpdaters, IInv
    <2>2. flags' = FlagsFor(cur + 1)
      BY <2>1, FlagsSet DEF IInv
    <2>3. UNCHANGED trigger
      BY <1>9 DEF EndOfUpdaters
    <2>4. QED
      BY <1>9, <2>2, <2>3, FlagsForKept DEF IInv, FlagsInv, forces, EndOfUpdaters, Goto
  <1>10. CASE Integrate
    <2>1. cur + 1 \in Nat
      BY SMTT(30) DEF IInv, TypeOK
    <2>2. Moved \in ForceType /\ computeNetForce(cur + 1, Moved)
      BY <1>10, MovedType DEF Integrate, IInv
    <2>3. /\ net'.flags = force'.flags
          /\ comp'.flags = flags
          /\ Recompute(cur + 1) => force'.flags = flags
          /\ ~Recompute(cur + 1) => force' = Moved /\ flags = comp.flags
      BY <2>1, <2>2, NetForceComputed, SMTT(30) DEF IInv
    <2>4. UNCHANGED trigger
      BY <1>10 DEF Integrate
    <2>5. Moved.flags = force.flags
      BY MovedType DEF IInv
    <2>6. QED
      BY <1>10, <2>3, <2>4, <2>5, FlagsForKept DEF IInv, TypeOK, FlagsInv, Integrate, Counted, Goto
  <1>11. CASE IntegrateRaises
    <2>1. cur + 1 \in Nat
      BY SMTT(30) DEF IInv, TypeOK
    <2>2. Moved \in ForceType /\ computeNetForceRaises(cur + 1, Moved)
      BY <1>11, MovedType DEF IntegrateRaises, IInv
    <2>3. /\ force'.flags = Moved.flags
          /\ comp'.flags = comp.flags
      BY <2>1, <2>2, NetForceRaised DEF IInv
    <2>4. UNCHANGED trigger
      BY <1>11 DEF IntegrateRaises
    <2>5. Moved.flags = force.flags
      BY MovedType DEF IInv
    <2>6. QED
      BY <1>11, <2>3, <2>4, <2>5, FlagsForKept DEF IInv, TypeOK, FlagsInv, IntegrateRaises, Raised, Goto, GivenUp
  <1>12. CASE Write
    <2>1. UNCHANGED trigger
      BY <1>12 DEF Write, loop
    <2>2. QED
      BY <1>12, <2>1, FlagsForKept DEF IInv, TypeOK, FlagsInv, loop, forces, Write, Visit, GoOn, Raised, Goto, Executed
  <1>13. CASE EndOfWriters
    <2>1. UNCHANGED trigger
      BY <1>13 DEF EndOfWriters, loop
    <2>2. QED
      BY <1>13, <2>1, FlagsForKept DEF IInv, TypeOK, FlagsInv, loop, forces, EndOfWriters, Goto
  <1>14. CASE CheckSignals
    <2>1. UNCHANGED trigger
      BY <1>14 DEF CheckSignals, loop
    <2>2. QED
      BY <1>14, <2>1, FlagsForKept DEF IInv, TypeOK, FlagsInv, loop, forces, CheckSignals, Goto, NextStep
  <1>15. CASE SetSnapshot
    <2>1. UNCHANGED trigger
      BY <1>15 DEF SetSnapshot, loop
    <2>2. QED
      BY <1>15, <2>1, FlagsForKept DEF IInv, TypeOK, FlagsInv, loop, forces, SetSnapshot
  <1>16. ASSUME NEW o \in Op, NEW t \in Choices[o], SetTrigger(o, t) PROVE FlagsInv'
    BY <1>16 DEF IInv, FlagsInv, loop, forces, SetTrigger
  <1>17. CASE UNCHANGED vars
    BY <1>17 DEF IInv, FlagsInv, FlagsFor, Acts, vars, loop, dof, forces
  <1>18. QED
    BY <1>1, <1>2, <1>3, <1>4, <1>5, <1>6, <1>7, <1>8, <1>9, <1>10, <1>11, <1>12, <1>13, <1>14, <1>15, <1>16, <1>17 DEF Next, RunLoop

\* Each operation of a list has one place, in one list.
LEMMA MembersAreOps ==
  /\ \A ops \in {Tuners, Updaters, Writers} :
        /\ \A i \in DOMAIN ops : ops[i] \in Members(ops) /\ ops[i] \in Op
        /\ \A i, j \in DOMAIN ops : i # j => ops[i] # ops[j]
        /\ DOMAIN ops \subseteq Nat \ {0} /\ Members(ops) \subseteq Op
  /\ Members(Tuners) \cap Members(Updaters) = {}
  /\ Members(Tuners) \cap Members(Writers) = {}
  /\ Members(Updaters) \cap Members(Writers) = {}
PROOF
  <1>1. \A ops \in {Tuners, Updaters, Writers} : Members(ops) \subseteq Op
    BY DEF Op
  <1>2. ASSUME NEW ops \in {Tuners, Updaters, Writers}
        PROVE  /\ \A i \in DOMAIN ops : ops[i] \in Members(ops)
               /\ \A i, j \in DOMAIN ops : i # j => ops[i] # ops[j]
               /\ DOMAIN ops \subseteq Nat \ {0}
    <2>1. ops \in Seq(Op) /\ Distinct(ops)
      BY SystemAssumption, ZenonT(60)
    <2>2. \A i, j \in DOMAIN ops : i # j => ops[i] # ops[j]
      BY <2>1, Zenon DEF Distinct
    <2>3. DOMAIN ops \subseteq Nat \ {0}
      BY <2>1, SMTT(30)
    <2>4. QED
      BY <2>2, <2>3, Zenon DEF Members
  <1>3. QED
    BY <1>1, <1>2, SystemAssumption

\* After an exception everybody may act again.
LEMMA OnceForgotten ==
  ASSUME cur \in Nat, cur' = cur, last' = [o \in Op |-> Never], Goto("idle")
  PROVE  OnceInv'
PROOF
  <1>1. Never <= cur /\ Never < cur
    BY SMTT(30) DEF Never
  <1>2. \A o \in Op : last'[o] <= cur' /\ last'[o] < cur'
    BY <1>1, Zenon
  <1>3. Members(Tuners) \union Members(Updaters) \subseteq Op
    BY MembersAreOps, Zenon
  <1>4. pc' = "idle"
    BY Zenon DEF Goto
  <1>5. QED
    BY <1>2, <1>3, <1>4, Zenon DEF OnceInv

\* When one entry of a list has acted, the ones behind it have not.
LEMMA OthersWait ==
  ASSUME NEW ops \in {Tuners, Updaters}, cur \in Nat, idx \in DOMAIN ops, idx' = idx + 1,
         \A i \in DOMAIN ops : i >= idx => last[ops[i]] < cur,
         \A x \in Op : last'[x] = last[x] \/ (x = ops[idx] /\ last'[x] = cur)
  PROVE  \A i \in DOMAIN ops : i >= idx' => last'[ops[i]] < cur
PROOF
  <1> SUFFICES ASSUME NEW i \in DOMAIN ops, i >= idx' PROVE last'[ops[i]] < cur
    BY Zenon
  <1>1. i \in Nat /\ idx \in Nat /\ ops[i] \in Op /\ (i # idx => ops[i] # ops[idx])
    BY MembersAreOps, Zenon
  <1>2. i # idx /\ i >= idx
    BY <1>1, SMTT(30)
  <1>3. last'[ops[i]] = last[ops[i]]
    BY <1>1, <1>2, Zenon
  <1>4. QED
    BY <1>2, <1>3, Zenon

\* Nobody acts at a step that is still to come.
LEMMA NobodyAhead ==
  ASSUME cur \in Nat, OnceInv, cur' = cur, \A x \in Op : last'[x] = last[x] \/ last'[x] = cur
  PROVE  \A o \in Op : last'[o] <= cur'
PROOF
  <1>1. \A o \in Op : last[o] <= cur
    BY Zenon DEF OnceInv
  <1>2. cur <= cur
    BY SMTT(30)
  <1>3. QED
    BY <1>1, <1>2, Zenon

\* Who is still to be asked has not acted.
LEMMA OnceKept ==
  ASSUME IInv, [Next]_vars
  PROVE  OnceInv'
PROOF
  <1>0. cur \in Nat /\ OnceInv
    BY Zenon DEF IInv, TypeOK
  <1>1. ASSUME NEW n \in 0 .. MaxRun, NEW w \in BOOLEAN, Run(n, w) PROVE OnceInv'
    BY <1>1 DEF IInv, TypeOK, OnceInv, loop, Run, Goto
  <1>2. CASE PrepRun
    BY <1>2, MembersAreOps DEF IInv, TypeOK, OnceInv, loop, PrepRun, Goto, NextStep
  <1>3. CASE PrepRunRaises
    BY <1>3 DEF IInv, TypeOK, OnceInv, loop, PrepRunRaises, Raised, Goto
  <1>4. CASE WriteAtStart
    BY <1>4, SMTT(30) DEF IInv, TypeOK, OnceInv, loop, WriteAtStart, Visit, GoOn, Raised, Goto
  <1>5. CASE EndOfWritersAtStart
    BY <1>5, MembersAreOps DEF IInv, TypeOK, OnceInv, loop, EndOfWritersAtStart, Goto, NextStep
  <1>6. CASE Tune
    <2>1. idx \in DOMAIN Tuners /\ pc = "tuners" /\ UNCHANGED cur
      BY <1>6 DEF Tune, Visit, GoOn, Raised
    <2>2. CASE last' = [o \in Op |-> Never] /\ Goto("idle")
      BY <1>0, <2>1, <2>2, OnceForgotten, Zenon
    <2>3. CASE GoOn /\ Executed(Tuners[idx])
      <3>1. \/ last' = last
            \/ last' = [last EXCEPT ![Tuners[idx]] = cur]
        BY <2>3 DEF Executed
      <3>2. Tuners[idx] \in Members(Tuners)
        BY <2>1 DEF Members
      <3>3. \A x \in Op : last'[x] = last[x] \/ (x = Tuners[idx] /\ last'[x] = cur)
        BY <3>1 DEF IInv, TypeOK
      <3>4. idx' = idx + 1 /\ cur' = cur /\ pc' = pc
        BY <2>3, Zenon DEF GoOn
      <3>5. \A o \in Op : last'[o] <= cur'
        BY <1>0, <3>3, <3>4, NobodyAhead, Zenon
      <3>6. \A i \in DOMAIN Tuners : i >= idx => last[Tuners[i]] < cur
        BY <1>0, <2>1, Zenon DEF OnceInv
      <3>7. \A i \in DOMAIN Tuners : i >= idx' => last'[Tuners[i]] < cur
        BY <1>0, <2>1, <3>3, <3>4, <3>6, OthersWait, Zenon
      <3>8. ASSUME NEW o \in Members(Updaters) PROVE last'[o] < cur
        <4>1. o \in Op /\ o # Tuners[idx]
          BY <3>2, MembersAreOps, Zenon
        <4>2. last[o] < cur
          BY <1>0, <2>1, Zenon DEF OnceInv
        <4>3. QED
          BY <3>3, <4>1, <4>2, Zenon
      <3>9. QED
        BY <2>1, <3>4, <3>5, <3>7, <3>8, ZenonT(60) DEF OnceInv
    <2>4. QED
      BY <1>6, <2>2, <2>3 DEF Tune, Raised, GivenUp
  <1>7. CASE EndOfTuners
    BY <1>7, MembersAreOps DEF IInv, TypeOK, OnceInv, loop, EndOfTuners, Goto
  <1>8. CASE Update
    <2>1. idx \in DOMAIN Updaters /\ pc = "updaters" /\ UNCHANGED cur
      BY <1>8 DEF Update, Visit, GoOn, Raised
    <2>2. CASE last' = [o \in Op |-> Never] /\ Goto("idle")
      BY <1>0, <2>1, <2>2, OnceForgotten, Zenon
    <2>3. CASE GoOn /\ Executed(Updaters[idx])
      <3>1. \/ last' = last
            \/ last' = [last EXCEPT ![Updaters[idx]] = cur]
        BY <2>3 DEF Executed
      <3>2. Updaters[idx] \in Members(Updaters)
        BY <2>1 DEF Members
      <3>3. \A x \in Op : last'[x] = last[x] \/ (x = Updaters[idx] /\ last'[x] = cur)
        BY <3>1 DEF IInv, TypeOK
      <3>4. idx' = idx + 1 /\ cur' = cur /\ pc' = pc
        BY <2>3, Zenon DEF GoOn
      <3>5. \A o \in Op : last'[o] <= cur'
        BY <1>0, <3>3, <3>4, NobodyAhead, Zenon
      <3>6. \A i \in DOMAIN Updaters : i >= idx => last[Updaters[i]] < cur
        BY <1>0, <2>1, Zenon DEF OnceInv
      <3>7. \A i \in DOMAIN Updaters : i >= idx' => last'[Updaters[i]] < cur
        BY <1>0, <2>1, <3>3, <3>4, <3>6, OthersWait, Zenon
      <3>8. QED
        BY <2>1, <3>4, <3>5, <3>7, ZenonT(60) DEF OnceInv
    <2>4. QED
      BY <1>8, <2>2, <2>3 DEF Update, Raised, GivenUp
  <1>9. CASE EndOfUpdaters
    BY <1>9 DEF IInv, TypeOK, OnceInv, loop, EndOfUpdaters, Goto
  <1>10. CASE Integrate
    BY <1>10, MembersAreOps, SMTT(30) DEF IInv, TypeOK, OnceInv, Integrate, Counted, Goto
  <1>11. CASE IntegrateRaises
    BY <1>11, MembersAreOps, SMTT(30) DEF IInv, TypeOK, OnceInv, IntegrateRaises, Raised, Goto, GivenUp, Never
  <1>12. CASE Write
    <2>1. idx \in DOMAIN Writers /\ pc = "writers" /\ UNCHANGED cur
      BY <1>12 DEF Write, Visit, GoOn, Raised
    <2>2. CASE Goto("idle") /\ UNCHANGED last
      BY <2>1, <2>2 DEF IInv, TypeOK, OnceInv, Goto
    <2>3. CASE GoOn /\ Executed(Writers[idx])
      <3>1. \/ last' = last
            \/ last' = [last EXCEPT ![Writers[idx]] = cur]
        BY <2>3 DEF Executed
      <3>2. Writers[idx] \in Members(Writers)
        BY <2>1 DEF Members
      <3>3. \A x \in Op : last'[x] = last[x] \/ (x = Writers[idx] /\ last'[x] = cur)
        BY <3>1 DEF IInv, TypeOK
      <3>4. idx' = idx + 1 /\ cur' = cur /\ pc' = pc
        BY <2>3, Zenon DEF GoOn
      <3>5. \A o \in Op : last'[o] <= cur'
        BY <1>0, <3>3, <3>4, NobodyAhead, Zenon
      <3>6. ASSUME NEW o \in Members(Tuners) \union Members(Updaters) PROVE last'[o] < cur
        <4>1. o \in Op /\ o # Writers[idx]
          BY <3>2, MembersAreOps, Zenon
        <4>2. last[o] < cur
          BY <1>0, <2>1, Zenon DEF OnceInv
        <4>3. QED
          BY <3>3, <4>1, <4>2, Zenon
      <3>7. QED
        BY <2>1, <3>4, <3>5, <3>6, ZenonT(60) DEF OnceInv
    <2>4. QED
      BY <1>12, <2>2, <2>3 DEF Write, Raised
  <1>13. CASE EndOfWriters
    BY <1>13 DEF IInv, TypeOK, OnceInv, loop, EndOfWriters, Goto
  <1>14. CASE CheckSignals
    BY <1>14, MembersAreOps DEF IInv, TypeOK, OnceInv, loop, CheckSignals, Goto, NextStep
  <1>15. CASE SetSnapshot
    BY <1>15 DEF IInv, TypeOK, OnceInv, loop, SetSnapshot
  <1>16. ASSUME NEW o \in Op, NEW t \in Choices[o], SetTrigger(o, t) PROVE OnceInv'
    BY <1>16, ZenonT(30) DEF IInv, TypeOK, OnceInv, loop, SetTrigger
  <1>17. CASE UNCHANGED vars
    BY <1>17, Zenon DEF IInv, OnceInv, vars, loop, dof, forces
  <1>18. QED
    BY <1>1, <1>2, <1>3, <1>4, <1>5, <1>6, <1>7, <1>8, <1>9, <1>10, <1>11, <1>12, <1>13, <1>14, <1>15, <1>16, <1>17 DEF Next, RunLoop

-----------------------------------------------------------------------------
(* The theorems. *)

\* A System starts in a state of the invariant: nothing has been computed or asked.
LEMMA InitInv ==
  ASSUME Init
  PROVE  IInv
PROOF
  <1>1. TypeOK
    <2>1. Fresh \in [last : TimeStep, value : BOOLEAN]
      BY TriggerAssumption, SMTT(30) DEF Fresh, TimeStep
    <2>2. trigger \in [Op -> Object]
      BY DEF Init
    <2>3. cache \in [Object -> [last : TimeStep, value : BOOLEAN]]
      BY <2>1 DEF Init
    <2>4. last \in [Op -> Int]
      BY SMTT(30) DEF Init, Never
    <2>5. /\ comp \in [first : BOOLEAN, last : Nat, sorted : BOOLEAN, flags : SUBSET Flag,
                      void : BOOLEAN]
          /\ force \in [current : BOOLEAN, flags : SUBSET Flag]
          /\ net \in [current : BOOLEAN, flags : SUBSET Flag, rigid : Nat]
      BY DEF Init
    <2>6. /\ cur \in Nat /\ end \in Nat /\ idx \in Nat \ {0}
          /\ failures \in Nat /\ rigid \in Nat
      BY DEF Init
    <2>7. pc \in Phase /\ flags \in SUBSET Flag
      BY DEF Init, Phase
    <2>8. atStart \in BOOLEAN /\ dofNext \in BOOLEAN /\ dofKnown \in BOOLEAN /\ dofLost \in BOOLEAN
      BY Zenon DEF Init
    <2>9. QED
      BY <2>2, <2>3, <2>4, <2>5, <2>6, <2>7, <2>8 DEF TypeOK
  <1>2. CachesInv
    BY ZenonT(60) DEF Init, CachesInv, Fresh
  <1>3. StepsInv /\ DecisionInv
    <2>1. cur = 0 /\ end = 0 /\ pc = "idle" /\ done = NoDecision
      BY Zenon DEF Init
    <2>2. StepsInv
      BY <2>1, SystemAssumption, SMTT(30) DEF StepsInv
    <2>3. QED
      BY <2>1, <2>2, Zenon DEF DecisionInv, NoDecision
  <1>4. FlagsInv /\ DofInv /\ ForcesInv
    BY Zenon DEF Init, FlagsInv, DofInv, ForcesInv
  <1>5. OnceInv
    <2>1. cur = 0 /\ pc = "idle" /\ last = [o \in Op |-> Never]
      BY Zenon DEF Init
    <2>2. Never < 0 /\ Never <= 0
      BY SMTT(30) DEF Never
    <2>3. \A o \in Op : last[o] < cur /\ last[o] <= cur
      BY <2>1, <2>2, Zenon
    <2>4. Members(Tuners) \subseteq Op /\ Members(Updaters) \subseteq Op
      BY MembersAreOps, Zenon
    <2>5. QED
      BY <2>1, <2>3, <2>4, Zenon DEF OnceInv
  <1>6. QED
    BY <1>1, <1>2, <1>3, <1>4, <1>5 DEF IInv

LEMMA StepInv ==
  ASSUME IInv, [Next]_vars
  PROVE  IInv'
PROOF
  BY TypesKept, StepsKept, CachesKept, DecisionKept, FlagsKept, DofKept, ForcesKept,
     OnceKept DEF IInv

\* The invariant holds in every state of the run loop, however runs, interrupts,
\* exceptions, new triggers and new snapshots follow each other.
THEOREM Invariance == Spec => []IInv
PROOF
  BY InitInv, StepInv, PTL DEF Spec

(***************************************************************************)
(* An operation acts at a step exactly when its trigger is documented to,  *)
(* if the triggers are regular: a Periodic trigger has a period and a      *)
(* phase, and the phase is 0 or the step counter wraps around in a         *)
(* multiple of the period.  Otherwise the subtraction timestep - phase of  *)
(* PeriodicTrigger::compute wraps around before the phase is reached.      *)
(***************************************************************************)
THEOREM RegularActsAsDocumented ==
  ASSUME \A o \in Object : Regular(Kind[o])
  PROVE  Spec => []ActsAsDocumented
PROOF
  <1>1. IInv => ActsAsDocumented
    <2> SUFFICES ASSUME IInv, done.known
                 PROVE  done.acted = Meaning(trigger[done.op], done.at)
      BY DEF ActsAsDocumented
    <2>1. /\ done.op \in Op /\ done.at \in Nat /\ done.at <= MaxStep
          /\ done.acted = Computes(done.at)[trigger[done.op]]
      BY DEF IInv, DecisionInv
    <2>2. done.at \in TimeStep
      BY <2>1, SystemAssumption, TriggerAssumption, SMTT(30) DEF TimeStep
    <2>3. Meanings(done.at) = Computes(done.at)
      BY <2>2, MeaningsAreComputed
    <2>4. QED
      BY <2>1, <2>3 DEF Meaning
  <1>2. QED
    BY <1>1, Invariance, PTL

\* Whoever acts finds the quantities requested in the net force.
THEOREM OperationsAreServed == Spec => []FlagsServed
PROOF
  <1>1. IInv => FlagsServed
    <2> SUFFICES ASSUME IInv, pc \in {"start", "tuners", "updaters", "writers"},
                        done.known, done.acted, done.at = cur
                 PROVE  Requested[done.op] \subseteq net.flags
      BY DEF FlagsServed, Acting
    <2>1. done.op \in Acts(cur)
      BY Zenon DEF IInv, DecisionInv, Acts
    <2>2. net.flags = FlagsFor(cur)
      BY DEF IInv, FlagsInv
    <2>3. QED
      BY <2>1, <2>2 DEF FlagsFor
  <1>2. QED
    BY <1>1, Invariance, PTL

\* Writers see current forces, unless the cache of the force is void.
THEOREM ForcesAreSeen == Spec => []WritersSeeForces
PROOF
  <1>1. IInv => WritersSeeForces
    BY DEF IInv, ForcesInv, WritersSeeForces
  <1>2. QED
    BY <1>1, Invariance, PTL

\* Groups that may have changed are counted before the integrator steps, unless the
\* updater that changed them raised.
THEOREM DegreesOfFreedomAreKnown == Spec => []DegreesOfFreedomKnown
PROOF
  <1>1. IInv => DegreesOfFreedomKnown
    BY DEF IInv, DofInv, DegreesOfFreedomKnown
  <1>2. QED
    BY <1>1, Invariance, PTL

\* No tuner and no updater acts twice at a time step that nothing raised in.
THEOREM ActOncePerStep == Spec => OncePerStep
PROOF
  <1> DEFINE A == /\ pc = "tuners" /\ idx \in DOMAIN Tuners /\ Acted => last[Tuners[idx]] < cur
                  /\ pc = "updaters" /\ idx \in DOMAIN Updaters /\ Acted
                        => last[Updaters[idx]] < cur
  <1>1. IInv => A
    BY MembersAreOps, SMTT(30) DEF IInv, OnceInv
  <1>2. QED
    BY <1>1, Invariance, PTL DEF OncePerStep

=============================================================================
