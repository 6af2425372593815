--------------------------- MODULE NativeProcess ---------------------------
(* The systemd process port: a durable registry of generations (one start   *)
(* of a process tree each) in front of a service manager that is asked with *)
(* helper commands.  A helper may fail, may outlive its deadline and, when   *)
(* the gateway dies, may still reach the manager.  The port itself keeps     *)
(* nothing in memory but the call under way.                                 *)
(*                                                                           *)
(* A generation's unit is named after the generation and the registry that   *)
(* holds it; invocation and control group are one with the unit, so a record *)
(* only says whether they are bound.  A tree is its main process and its     *)
(* descendants.  The owner of a user-data directory is the configuration     *)
(* digest and the registry identity that its marker names.                   *)

EXTENDS Integers, FiniteSets

CONSTANTS
  Gens,                             \* generations
  Namespaces, NamespaceOf,          \* user-data directories; a generation's profile has one
  capacity,                         \* rows of the registry
  None,
  MaxBoot, MaxIdentity, MaxDigest   \* bounds: host boots, registries, configurations

ASSUME NativeConfig ==
  /\ NamespaceOf \in [Gens -> Namespaces]
  /\ IsFiniteSet(Gens) /\ None \notin Gens \cup Namespaces
  /\ {capacity, MaxBoot, MaxIdentity, MaxDigest} \subseteq Nat \ {0}

VARIABLES
  registry,   \* the row of each generation, durable
  identity,   \* of the registry
  marker,     \* the owner written into each user-data directory, durable
  call,       \* the call under way: its kind, generation, next step and what it was shown
  boot, digest,
  units,      \* external: the manager's units and their processes
  starts,     \* history: how often a start of a generation was asked for
  answers     \* history: what callers were told of a generation

vars == <<registry, identity, marker, call, boot, digest, units, starts, answers>>

Idle == [kind |-> "idle", g |-> None, at |-> "idle", shown |-> None]
NoUnit == [phase |-> "none", members |-> {}]
UnitOf(g) == <<g, identity>>

Init ==
  /\ registry = [g \in Gens |-> None]
  /\ identity = 1
  /\ marker = [n \in Namespaces |-> None]
  /\ call = Idle
  /\ boot = 1 /\ digest = 1
  /\ units = [u \in Gens \X (1..MaxIdentity) |-> NoUnit]
  /\ starts = [g \in Gens |-> 0]
  /\ answers = [g \in Gens |-> {}]

Phases == {"none", "asked", "queued", "loaded", "stopping", "unloaded", "failed"}
GenerationRecords ==
  [boot : Nat, digest : Nat, dispatched : BOOLEAN, stopping : BOOLEAN,
   absent : BOOLEAN, identity : BOOLEAN, bound : BOOLEAN]

\* Nothing is no row and no owner.
ASSUME NativeNothing == None \notin GenerationRecords /\ None \notin Nat \X Nat

At(kind, g, at) == [kind |-> kind, g |-> g, at |-> at, shown |-> None]
Goes(at) == call' = [call EXCEPT !.at = at]

-----------------------------------------------------------------------------
(* The registry.                                                            *)

Rows == {g \in Gens : registry[g] # None}

GenerationRecord ==
  [boot |-> boot, digest |-> digest, dispatched |-> FALSE, stopping |-> FALSE,
   absent |-> FALSE, identity |-> FALSE, bound |-> FALSE]

\* (Mutant of NamespaceFree: a generation that is being stopped is out of the way.)
NamespaceFreeOfRunning(n) ==
  \A g \in Rows : NamespaceOf[g] = n => registry[g].absent \/ registry[g].stopping

\* An unresolved generation keeps every other out of its directory.
NamespaceFree(n) == \A g \in Rows : NamespaceOf[g] = n => registry[g].absent

\* Stages and bindings of a row only ever advance.
save(g, record) ==
  /\ \A f \in {"dispatched", "stopping", "absent", "identity", "bound"} :
       registry[g][f] => record[f]
  /\ registry' = [registry EXCEPT ![g] = record]

\* A row is of use only under the boot and the configuration it was made with.
checked_record(g) ==
  g \in Rows /\ registry[g].boot = boot /\ registry[g].digest = digest

-----------------------------------------------------------------------------
(* start_generation.                                                        *)

\* (Mutant of StartsAnew: a generation that was not seen to run is started again.)
StartsUnlessSeen(g) == g \in Rows => ~registry[g].bound

\* Only the call that made the row may start; any other looks it up.
StartsAnew(g) == g \notin Rows

reserve(g) ==
  IF g \in Rows THEN checked_record(g) /\ UNCHANGED registry
  ELSE /\ Cardinality(Rows) < capacity /\ NamespaceFree(NamespaceOf[g])
       /\ registry' = [registry EXCEPT ![g] = GenerationRecord]

start_generation(g) ==
  /\ call = Idle
  /\ reserve(g)
  /\ \/ StartsAnew(g) /\ call' = At("start", g, "claim")
     \/ ~StartsAnew(g) /\ registry[g].dispatched /\ call' = At("start", g, "show")
  /\ UNCHANGED <<identity, marker, boot, digest, units, starts, answers>>

Owner == <<digest, identity>>
Torn == <<0, 0>>   \* a marker whose text was not written

\* The directory is marked, or bears this very mark already; anything else in
\* it is left alone and refused.
claim_user_data ==
  LET n == NamespaceOf[call.g]
  IN /\ call.at = "claim"
     /\ \/ marker[n] = None /\ marker' = [marker EXCEPT ![n] = Owner]
        \/ marker[n] = Owner /\ UNCHANGED marker
     /\ Goes("dispatch")
     /\ UNCHANGED <<registry, identity, boot, digest, units, starts, answers>>

MarkDispatched ==
  /\ call.at = "dispatch"
  /\ save(call.g, [registry[call.g] EXCEPT !.dispatched = TRUE])
  /\ Goes("run")
  /\ UNCHANGED <<identity, marker, boot, digest, units, starts, answers>>

\* The helper is spawned ...
RunUnit ==
  LET u == UnitOf(call.g)
  IN /\ call.at = "run"
     /\ units' = [units EXCEPT ![u].phase = "asked"]
     /\ starts' = [starts EXCEPT ![call.g] = @ + 1]
     /\ Goes("wait")
     /\ UNCHANGED <<registry, identity, marker, boot, digest, answers>>

\* ... and has reported success, that is, the process was executed, ...
RunAnswered ==
  /\ call.at = "wait" /\ units[UnitOf(call.g)].phase \in {"loaded", "unloaded"}
  /\ Goes("show")
  /\ UNCHANGED <<registry, identity, marker, boot, digest, units, starts, answers>>

\* ... or is killed at its deadline, which takes nothing back.
RunTimedOut ==
  /\ call.at = "wait"
  /\ units' = [units EXCEPT ![UnitOf(call.g)].phase = IF @ = "asked" THEN "none" ELSE @]
  /\ call' = Idle
  /\ UNCHANGED <<registry, identity, marker, boot, digest, starts, answers>>

-----------------------------------------------------------------------------
(* Observation: the properties of the unit first, then its control group.   *)

\* (Mutant of ProvesAbsence: a unit the manager does not know is gone.)
MissingIsAbsent(g, shown, members) ==
  members = {} /\ shown \in {"missing", "terminal"}

\* A missing unit was there before, or a unit that has ended for good.
ProvesAbsence(g, shown, members) ==
  members = {} /\ (shown = "terminal" \/ (shown = "missing" /\ registry[g].bound))

\* A unit is shown as ended only after its last process has gone, and no more
\* starts.  One whose group was released is accepted only for a row that is
\* bound; one that is queued or failed to start has no group.
verified_properties(g) ==
  LET unit == units[UnitOf(g)]
  IN CASE unit.phase \in {"none", "asked", "unloaded"} -> {"missing"}
       [] unit.phase = "stopping" \/ (unit.phase = "loaded" /\ unit.members # {}) -> {"running"}
       [] unit.phase = "loaded" /\ unit.members = {} ->
            {"running", "terminal"} \cup (IF registry[g].bound THEN {} ELSE {"mismatch"})
       [] OTHER -> {"mismatch"}

ShowUnit ==
  /\ call.at = "show"
  /\ \E shown \in verified_properties(call.g) \ {"mismatch"} :
       call' = [call EXCEPT !.at = "group", !.shown = shown]
  /\ UNCHANGED <<registry, identity, marker, boot, digest, units, starts, answers>>

\* The row as an observation leaves it: the unit is bound when it is present,
\* its main process when it is among the members.
Observed(g, shown, members) ==
  LET record == registry[g]
  IN [record EXCEPT !.bound = @ \/ shown # "missing",
                    !.identity = @ \/ (shown # "missing" /\ "main" \in members),
                    !.absent = @ \/ ProvesAbsence(g, shown, members)]

\* What follows the observation: a stop goes on unless the tree is gone, any
\* other call answers.
AfterObservation(kind, record) ==
  IF kind = "stop" /\ ~record.absent THEN "stop" ELSE "answer"

observe ==
  LET g == call.g
      members == units[UnitOf(g)].members
      record == Observed(g, call.shown, members)
  IN /\ call.at = "group"
     /\ registry[g].absent => members = {}
     /\ call.shown = "missing" => record.absent
     /\ save(g, record)
     /\ call' = [call EXCEPT !.at = AfterObservation(call.kind, record), !.shown = None]
     /\ UNCHANGED <<identity, marker, boot, digest, units, starts, answers>>

\* A start and a recovery say found when the identity is known, the calls on a
\* handle need it from the start; a stop says stopped when the tree is gone.
Answer ==
  LET record == registry[call.g]
      said == IF record.identity THEN {"Settled"} ELSE {}
  IN /\ call.at = "answer"
     /\ answers' = [answers EXCEPT ![call.g] = @ \cup said]
     /\ call' = Idle
     /\ UNCHANGED <<registry, identity, marker, boot, digest, units, starts>>

-----------------------------------------------------------------------------
(* The other calls.                                                         *)

recover_generation(g) ==
  /\ call = Idle /\ checked_record(g) /\ registry[g].dispatched
  /\ call' = At("recover", g, "show")
  /\ UNCHANGED <<registry, identity, marker, boot, digest, units, starts, answers>>

\* inspect, inspect_identity and descendants.
inspect(g) ==
  /\ call = Idle /\ checked_record(g) /\ registry[g].identity
  /\ call' = At("inspect", g, "show")
  /\ UNCHANGED <<registry, identity, marker, boot, digest, units, starts, answers>>

stop(g) ==
  /\ call = Idle /\ checked_record(g) /\ registry[g].identity
  /\ call' = At("stop", g, "show")
  /\ UNCHANGED <<registry, identity, marker, boot, digest, units, starts, answers>>

MarkStopping ==
  /\ call.at = "stop"
  /\ save(call.g, [registry[call.g] EXCEPT !.stopping = TRUE])
  /\ Goes("kill")
  /\ UNCHANGED <<identity, marker, boot, digest, units, starts, answers>>

\* The manager is asked to stop the unit; when it does so is its own affair.
StopUnit ==
  /\ call.at = "kill" /\ units[UnitOf(call.g)].phase \in {"loaded", "stopping"}
  /\ units' = [units EXCEPT ![UnitOf(call.g)].phase = "stopping"]
  /\ call' = At("stopped", call.g, "settle")
  /\ UNCHANGED <<registry, identity, marker, boot, digest, starts, answers>>

StopAnswered ==
  /\ call.at = "settle" /\ units[UnitOf(call.g)].phase = "unloaded"
  /\ Goes("show")
  /\ UNCHANGED <<registry, identity, marker, boot, digest, units, starts, answers>>

\* Any step may fail or run into its deadline: the call ends with an error.  The
\* gateway may die there too, which leaves a helper running and a marker torn.
Interrupted ==
  /\ call # Idle
  /\ call' = Idle
  /\ \/ UNCHANGED marker
     \/ /\ call.at = "claim" /\ marker[NamespaceOf[call.g]] = None
        /\ marker' = [marker EXCEPT ![NamespaceOf[call.g]] = Torn]
  /\ UNCHANGED <<registry, identity, boot, digest, units, starts, answers>>

-----------------------------------------------------------------------------
(* The manager and its units (external).                                    *)

\* An asked-for start reaches the manager, whoever still waits for it, ...
HelperReaches(u) ==
  /\ units[u].phase = "asked"
  /\ units' = [units EXCEPT ![u].phase = "queued"]
  /\ UNCHANGED <<registry, identity, marker, call, boot, digest, starts, answers>>

\* ... and is carried out once.
UnitStarts(u) ==
  /\ units[u].phase = "queued"
  /\ \/ units' = [units EXCEPT ![u].phase = "loaded", ![u].members = {"main"}]
     \/ units' = [units EXCEPT ![u].phase = "failed"]
  /\ UNCHANGED <<registry, identity, marker, call, boot, digest, starts, answers>>

ProcessSteps(u) ==
  /\ units[u].members # {}
  /\ \/ units' = [units EXCEPT ![u].members = @ \cup {"child"}]
     \/ \E m \in units[u].members : units' = [units EXCEPT ![u].members = @ \ {m}]
  /\ UNCHANGED <<registry, identity, marker, call, boot, digest, starts, answers>>

\* A stop kills the whole group and the transient unit is forgotten.
UnitStops(u) ==
  /\ units[u].phase = "stopping"
  /\ units' = [units EXCEPT ![u].phase = "unloaded", ![u].members = {}]
  /\ UNCHANGED <<registry, identity, marker, call, boot, digest, starts, answers>>

\* The host boots again: no process and no unit survives.
Reboot ==
  /\ boot < MaxBoot
  /\ boot' = boot + 1 /\ call' = Idle
  /\ units' = [u \in DOMAIN units |->
                 [units[u] EXCEPT !.members = {},
                    !.phase = IF @ \in {"loaded", "stopping"} THEN "unloaded"
                              ELSE IF @ \in {"asked", "queued"} THEN "none" ELSE @]]
  /\ UNCHANGED <<registry, identity, marker, digest, starts, answers>>

\* The gateway is started again with another configuration, or with a registry
\* that was removed and is made anew.
Reconfigure ==
  /\ call = Idle /\ digest < MaxDigest
  /\ digest' = digest + 1
  /\ UNCHANGED <<registry, identity, marker, call, boot, units, starts, answers>>

RegistryRecreated ==
  /\ call = Idle /\ identity < MaxIdentity
  /\ identity' = identity + 1 /\ registry' = [g \in Gens |-> None]
  /\ UNCHANGED <<marker, call, boot, digest, units, starts, answers>>

Next ==
  \/ \E g \in Gens : start_generation(g)
  \/ claim_user_data \/ MarkDispatched \/ RunUnit \/ RunAnswered \/ RunTimedOut
  \/ ShowUnit \/ observe \/ Answer \/ MarkStopping \/ StopUnit \/ StopAnswered \/ Interrupted
  \/ \E g \in Gens : recover_generation(g) \/ inspect(g) \/ stop(g)
  \/ \E u \in DOMAIN units :
       HelperReaches(u) \/ UnitStarts(u) \/ ProcessSteps(u) \/ UnitStops(u)
  \/ Reboot \/ Reconfigure \/ RegistryRecreated

Spec == Init /\ [][Next]_vars

-----------------------------------------------------------------------------
(* Properties.                                                              *)

Live(u) == units[u].members # {} \/ units[u].phase \in {"asked", "queued"}

\* No two generations run, or may yet come to run, in one user-data directory,
\* even across lost answers, crashes, a changed configuration and a registry
\* that was lost and made anew.
OneTreePerNamespace ==
  \A u, v \in DOMAIN units : Live(u) /\ Live(v) /\ NamespaceOf[u[1]] = NamespaceOf[v[1]] => u = v

\* A generation recorded as absent has no process and never will have one
\* again, although the unit and its group were read one after the other.
AbsentIsGone ==
  \A g \in Rows : registry[g].absent => ~Live(UnitOf(g)) /\ units[UnitOf(g)].phase # "none"

\* What the generations are to their callers: each is started at most once,
\* however often it is retried, and found only if it was.
EffectOf(g) ==
  IF \E i \in 1..MaxIdentity : units[<<g, i>>].phase \in {"loaded", "stopping", "unloaded"}
  THEN "done"
  ELSE IF \E i \in 1..MaxIdentity : units[<<g, i>>].phase = "failed" THEN "refused" ELSE "none"

AMO == INSTANCE AtMostOnce WITH
  Ops <- Gens, writes <- starts, effect <- [g \in Gens |-> EffectOf(g)], answers <- answers

ImplementsAtMostOnce == AMO!Spec
=============================================================================
