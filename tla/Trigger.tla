------------------------------- MODULE Trigger -------------------------------
(***************************************************************************)
(* The triggers of hoomd/Trigger.h, which decide at which steps an         *)
(* operation acts.  Every trigger object keeps the last time step it was   *)
(* asked about and its answer; the composite triggers (Not, And, Or) ask   *)
(* their members through the same cached call, with the short circuit of   *)
(* std::all_of and std::any_of, and a member may be shared by several      *)
(* composites and by several operations.                                   *)
(*                                                                         *)
(* The objects form a graph, given by Kind; System.tla asks them.  Time    *)
(* steps are uint64_t in the code and numbers below 2^Width here, with the *)
(* wrap-around kept.  User-defined triggers return normally.               *)
(***************************************************************************)
EXTENDS Integers, Sequences

CONSTANTS
    Width,      \* bits of a time step (64 in the code)
    Object,     \* the trigger objects
    Kind        \* [Object -> record]: the class and the parameters of each

\* The members of a composite trigger.
Parts(k) ==
    CASE k.class = "Not" -> {k.trigger}
      [] k.class \in {"And", "Or"} -> {k.triggers[i] : i \in DOMAIN k.triggers}
      [] OTHER -> {}

Class == {"Periodic", "Before", "On", "After", "Not", "And", "Or", "Custom"}

(***************************************************************************)
(* A composite gets its members when it is constructed and Python has no   *)
(* way to exchange them, so no trigger is a member of itself, directly or  *)
(* through others: every set of objects has one without members in the set.*)
(***************************************************************************)
ASSUME TriggerAssumption ==
    /\ Width \in Nat \ {0} /\ 2^Width \in Nat \ {0}
    /\ \A o \in Object : Kind[o].class \in Class /\ Parts(Kind[o]) \subseteq Object
    /\ \A S \in SUBSET Object : S # {} => \E o \in S : Parts(Kind[o]) \intersect S = {}

TimeStep == 0 .. (2^Width - 1)

-----------------------------------------------------------------------------
(* What the classes compute. *)

\* PeriodicTrigger::compute, in the unsigned arithmetic of the code.
Periodic(k, t) == ((t - k.phase) % 2^Width) % k.period = 0

\* BeforeTrigger::compute.
Before(k, t) == t < k.timestep

\* OnTrigger::compute.
On(k, t) == t = k.timestep

\* AfterTrigger::compute.
After(k, t) == t > k.timestep

\* Trigger::Trigger: the last time step starts as uint64_t(-1).
Fresh == [last |-> 2^Width - 1, value |-> FALSE]

\* Mutant: an answer is taken to hold from its step on.
Cached_Later(c, o, t) == c[o] # Fresh /\ c[o].last <= t

\* The test of Trigger::operator().
Cached(c, o, t) == c[o].last = t

-----------------------------------------------------------------------------
(***************************************************************************)
(* Trigger::operator() with the caches c: Answers is what the objects      *)
(* return for step t, Computed the objects whose compute runs on the way,  *)
(* and Remembered the caches when a set of objects has been asked.  And    *)
(* and Or ask their members in order and stop at the first that decides.   *)
(* Within one step a member answers the same from its cache and from       *)
(* compute, so an answer can be evaluated with the caches as they were     *)
(* before.                                                                 *)
(***************************************************************************)

\* compute() of each class, where answer is what its members return.
Compute(k, t, answer) ==
    CASE k.class = "Periodic" -> Periodic(k, t)
      [] k.class = "Before"   -> Before(k, t)
      [] k.class = "On"       -> On(k, t)
      [] k.class = "After"    -> After(k, t)
      [] k.class = "Not"      -> ~answer[k.trigger]
      [] k.class = "And"      -> \A i \in DOMAIN k.triggers : answer[k.triggers[i]]
      [] k.class = "Or"       -> \E i \in DOMAIN k.triggers : answer[k.triggers[i]]
      [] k.class = "Custom"   -> t \in k.on

Answers(t, c) ==
    LET answer[o \in Object] ==
            IF Cached(c, o, t) THEN c[o].value ELSE Compute(Kind[o], t, answer)
    IN answer

Answer(o, t, c) == Answers(t, c)[o]

\* The members that std::all_of or std::any_of reaches.
Asked(k, t, c) ==
    IF k.class \in {"And", "Or"}
    THEN {k.triggers[i] : i \in {i \in DOMAIN k.triggers :
              \A j \in 1 .. i - 1 : Answer(k.triggers[j], t, c) = (k.class = "And")}}
    ELSE Parts(k)

Computed(t, c) ==
    LET computed[o \in Object] ==
            IF Cached(c, o, t) THEN {}
            ELSE {o} \union UNION {computed[m] : m \in Asked(Kind[o], t, c)}
    IN computed

Remembered(objs, t, c) ==
    LET new == UNION {Computed(t, c)[o] : o \in objs}
    IN [o \in Object |-> IF o \in new THEN [last |-> t, value |-> Answer(o, t, c)]
                         ELSE c[o]]

-----------------------------------------------------------------------------
(***************************************************************************)
(* What hoomd/trigger.py documents of each class, over the integers:       *)
(* "return (t - phase) % period == 0", "return t < timestep", "return      *)
(* t == timestep", "return t > timestep", "return not trigger(t)",         *)
(* "return all([f(t) for f in triggers])", "return any(...)".              *)
(***************************************************************************)
Documented(k, t, meaning) ==
    CASE k.class = "Periodic" -> (t - k.phase) % k.period = 0
      [] k.class = "Before"   -> t < k.timestep
      [] k.class = "On"       -> t = k.timestep
      [] k.class = "After"    -> t > k.timestep
      [] k.class = "Not"      -> ~meaning[k.trigger]
      [] k.class = "And"      -> \A i \in DOMAIN k.triggers : meaning[k.triggers[i]]
      [] k.class = "Or"       -> \E i \in DOMAIN k.triggers : meaning[k.triggers[i]]
      [] k.class = "Custom"   -> t \in k.on

Meanings(t) ==
    LET meaning[o \in Object] == Documented(Kind[o], t, meaning)
    IN meaning

Meaning(o, t) == Meanings(t)[o]

=============================================================================
