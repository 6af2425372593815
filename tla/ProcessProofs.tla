--------------------------- MODULE ProcessProofs ---------------------------
(* Proofs about the processes of an instance.  First the systemd process    *)
(* port, for every set of generations and of user-data directories, every   *)
(* capacity and every number of host boots, configurations and registries;  *)
(* then the supervisor that starts processes through such a port, for every *)
(* number of operations and of restarts and every set of profiles and       *)
(* leases.                                                                  *)
EXTENDS NativeProcess, ProcessLifecycle, FiniteSetTheorems, WellFoundedInduction, TLAPS

-----------------------------------------------------------------------------
(* The port: the inductive invariant.                                       *)

Units == [phase : Phases, members : SUBSET {"main", "child"}]
UnitIds == Gens \X (1..MaxIdentity)
Kinds == {"idle", "start", "recover", "inspect", "stop", "stopped"}
CallPlaces == {"idle", "claim", "dispatch", "run", "wait", "show", "group", "answer",
               "stop", "kill", "settle"}
Shown == {"missing", "running", "terminal"}
CallRecords == [kind : Kinds, g : Gens \cup {None}, at : CallPlaces, shown : Shown \cup {None}]

Typed ==
  /\ registry \in [Gens -> GenerationRecords \cup {None}]
  /\ identity \in 1..MaxIdentity
  /\ marker \in [Namespaces -> (Nat \X Nat) \cup {None}]
  /\ call \in CallRecords
  /\ boot \in Nat /\ digest \in Nat
  /\ units \in [UnitIds -> Units]
  /\ starts \in [Gens -> Nat]
  /\ answers \in [Gens -> SUBSET {"Settled"}]

Begun == {"loaded", "stopping", "unloaded"}
MarkerOf(g) == marker[NamespaceOf[g]]

\* A directory bears the mark of no registry that is yet to come.
MarkerSound == \A n \in Namespaces : marker[n] # None => marker[n][2] <= identity

\* A generation is started once, by the registry whose mark its directory
\* bears, which then has its row.
StartSound(g) ==
  /\ starts[g] \in {0, 1}
  /\ starts[g] = 1 =>
       /\ MarkerOf(g) # None
       /\ MarkerOf(g)[2] = identity => registry[g] # None /\ registry[g].dispatched

\* A unit is there only for a generation that was started, and has processes
\* only while it is loaded.
UnitSound(u) ==
  /\ units[u].phase # "none" =>
       starts[u[1]] = 1 /\ MarkerOf(u[1]) # None /\ MarkerOf(u[1])[2] = u[2]
  /\ units[u].members # {} => units[u].phase \in {"loaded", "stopping"}

\* What a row says of its unit.
RowSound(g) ==
  registry[g] # None =>
    /\ registry[g].bound => units[UnitOf(g)].phase \in Begun
    /\ registry[g].identity => registry[g].bound
    /\ registry[g].absent => registry[g].bound /\ units[UnitOf(g)].members = {}

\* One row of a directory is open.
OneOpenRow ==
  \A g, h \in Gens :
    /\ registry[g] # None /\ registry[h] # None /\ NamespaceOf[g] = NamespaceOf[h]
    /\ ~registry[g].absent /\ ~registry[h].absent
    => g = h

\* The call that made the row is the only one that starts the unit.
CallSound ==
  /\ call.at = "idle" => call = Idle
  /\ call.at # "idle" => call.g \in Gens /\ registry[call.g] # None
  /\ call.at \in {"claim", "dispatch", "run"} => ~registry[call.g].bound
  /\ call.at \in {"claim", "dispatch"} => ~registry[call.g].dispatched
  /\ call.at \in {"dispatch", "run"} => MarkerOf(call.g) = Owner
  /\ call.at = "run" => registry[call.g].dispatched /\ starts[call.g] = 0
  /\ call.at = "group" /\ call.shown # "missing" => units[UnitOf(call.g)].phase \in Begun

Sound ==
  /\ MarkerSound
  /\ \A g \in Gens : StartSound(g)
  /\ \A u \in UnitIds : UnitSound(u)
  /\ \A g \in Gens : RowSound(g)
  /\ OneOpenRow
  /\ OneTreePerNamespace

IInv == Typed /\ Sound /\ CallSound

-----------------------------------------------------------------------------
(* Steps of the manager and of the processes.                               *)

\* The unit u at phase x, with the processes ms.
UnitAt(n, u, x, ms) ==
  /\ n \in [UnitIds -> Units]
  /\ n[u].phase = x /\ n[u].members = ms
  /\ \A v \in UnitIds : v # u => n[v] = units[v]

LEMMA UnitFacts ==
  ASSUME Typed, NEW u \in UnitIds, NEW x \in Phases,
         NEW ms \in SUBSET {"main", "child"}, NEW n
  PROVE  /\ n = [units EXCEPT ![u].phase = x] => UnitAt(n, u, x, units[u].members)
         /\ n = [units EXCEPT ![u].members = ms] => UnitAt(n, u, units[u].phase, ms)
         /\ n = [units EXCEPT ![u].phase = x, ![u].members = ms] => UnitAt(n, u, x, ms)
<1>1. units \in [UnitIds -> Units] /\ units[u] \in Units
  BY DEF Typed
<1>2. PICK a \in Units : a = [units[u] EXCEPT !.phase = x]
  BY <1>1 DEF Units
<1>3. a.phase = x /\ a.members = units[u].members
  BY <1>1, <1>2 DEF Units
<1>4. ASSUME NEW m, m = [units EXCEPT ![u].phase = x]
      PROVE  /\ m \in [UnitIds -> Units] /\ m[u] = a
             /\ \A v \in UnitIds : v # u => m[v] = units[v]
  <2>1. m = [units EXCEPT ![u] = a]
    BY <1>2, <1>4
  <2> QED
    BY <1>1, <2>1
<1>5. ASSUME NEW m \in [UnitIds -> Units], \A v \in UnitIds : v # u => m[v] = units[v],
             n = [m EXCEPT ![u].members = ms]
      PROVE  UnitAt(n, u, m[u].phase, ms)
  <2>1. PICK b \in Units : b = [m[u] EXCEPT !.members = ms]
    BY DEF Units
  <2>2. b.phase = m[u].phase /\ b.members = ms
    BY <2>1 DEF Units
  <2>3. n = [m EXCEPT ![u] = b]
    BY <1>5, <2>1
  <2>4. /\ n \in [UnitIds -> Units] /\ n[u] = b
        /\ \A v \in UnitIds : v # u => n[v] = m[v]
    BY <2>3
  <2> QED
    BY <1>5, <2>2, <2>4 DEF UnitAt
<1>6. n = [units EXCEPT ![u].phase = x] => UnitAt(n, u, x, units[u].members)
  BY <1>3, <1>4 DEF UnitAt
<1>7. n = [units EXCEPT ![u].members = ms] => UnitAt(n, u, units[u].phase, ms)
  BY <1>1, <1>5
<1>8. n = [units EXCEPT ![u].phase = x, ![u].members = ms] => UnitAt(n, u, x, ms)
  <2>1. PICK m : m = [units EXCEPT ![u].phase = x]
    OBVIOUS
  <2>2. n = [units EXCEPT ![u].phase = x, ![u].members = ms]
        => n = [m EXCEPT ![u].members = ms]
    BY <2>1, Zenon
  <2>3. /\ m \in [UnitIds -> Units] /\ m[u].phase = x
        /\ \A v \in UnitIds : v # u => m[v] = units[v]
    BY <1>3, <1>4, <2>1
  <2>4. n = [m EXCEPT ![u].members = ms] => UnitAt(n, u, x, ms)
    BY <1>5, <2>3
  <2> QED
    BY <2>2, <2>4, Zenon
<1> QED
  BY <1>6, <1>7, <1>8, Zenon

\* No unit begins: what was asked for goes on, ends or is forgotten.
Declines(u) ==
  /\ units[u].phase = "none" => units'[u].phase = "none"
  /\ units[u].phase \in Begun => units'[u].phase \in Begun
  /\ units'[u].members # {} => units'[u].phase \in {"loaded", "stopping"}
  /\ units[u].phase \in Begun /\ units[u].members = {} => units'[u].members = {}
  /\ Live(u)' => Live(u)

LEMMA UnitsDecline ==
  ASSUME IInv, UNCHANGED <<registry, identity, marker, starts>>,
         units' \in [UnitIds -> Units],
         \A u \in UnitIds : Declines(u)
  PROVE  Sound'
<1>1. Typed /\ Sound
  BY DEF IInv
<1>2. MarkerSound' /\ OneOpenRow'
  BY <1>1 DEF Sound, MarkerSound, OneOpenRow
<1>3. \A g \in Gens : StartSound(g)'
  BY <1>1 DEF Sound, StartSound, MarkerOf
<1>4. \A u \in UnitIds : UnitSound(u)'
  BY <1>1 DEF Sound, UnitSound, MarkerOf, Declines
<1>5. ASSUME NEW g \in Gens PROVE RowSound(g)'
  <2>1. UnitOf(g) \in UnitIds /\ UnitOf(g)' = UnitOf(g)
    BY <1>1 DEF UnitOf, UnitIds, Typed
  <2>2. RowSound(g) /\ Declines(UnitOf(g))
    BY <1>1, <2>1 DEF Sound
  <2> QED
    BY <2>1, <2>2 DEF RowSound, Declines
<1>6. OneTreePerNamespace'
  <2>1. DOMAIN units = UnitIds /\ DOMAIN units' = UnitIds
    BY <1>1 DEF Typed
  <2>2. \A u \in UnitIds : Live(u)' => Live(u)
    BY DEF Declines
  <2> QED
    BY <1>1, <2>1, <2>2 DEF Sound, OneTreePerNamespace
<1> QED
  BY <1>2, <1>3, <1>4, <1>5, <1>6 DEF Sound

\* The call goes on, or is over.
LEMMA CallDeclines ==
  ASSUME IInv, UNCHANGED <<registry, identity, marker, digest, starts>>,
         \A u \in UnitIds : Declines(u), call' \in {call, Idle}
  PROVE  CallSound' /\ call' \in CallRecords
<1>1. Typed /\ CallSound
  BY DEF IInv
<1>2. /\ Idle.at = "idle" /\ Idle.shown = None /\ Idle \in CallRecords
  BY DEF Idle, CallRecords, Kinds, CallPlaces
<1>3. CASE call' = Idle
  BY <1>2, <1>3 DEF CallSound
<1>4. CASE call' = call
  <2>1. /\ call.at = "idle" => call = Idle
        /\ call.at # "idle" => call.g \in Gens /\ registry[call.g] # None
        /\ call.at \in {"claim", "dispatch", "run"} => ~registry[call.g].bound
        /\ call.at \in {"claim", "dispatch"} => ~registry[call.g].dispatched
        /\ call.at \in {"dispatch", "run"} => MarkerOf(call.g)' = Owner'
        /\ call.at = "run" => registry[call.g].dispatched /\ starts[call.g] = 0
    BY <1>1, <1>4 DEF CallSound, MarkerOf, Owner
  <2>2. call.at = "group" /\ call.shown # "missing"
        => units'[UnitOf(call.g)].phase \in Begun
    <3>1. call.at = "group" => UnitOf(call.g) \in UnitIds
      BY <1>1, <2>1 DEF UnitOf, UnitIds, Typed
    <3> QED
      BY <1>1, <3>1 DEF CallSound, Declines
  <2>3. UnitOf(call.g)' = UnitOf(call.g)
    BY <1>4 DEF UnitOf
  <2> QED
    BY <1>1, <1>4, <2>1, <2>2, <2>3 DEF CallSound, Typed
<1> QED
  BY <1>3, <1>4

\* One unit moves on.
LEMMA UnitMoves ==
  ASSUME IInv, NEW u \in UnitIds, NEW x \in Phases, NEW ms,
         UnitAt(units', u, x, ms),
         units[u].phase = "none" => x = "none",
         units[u].phase \in Begun => x \in Begun,
         ms # {} => x \in {"loaded", "stopping"},
         units[u].phase \in Begun /\ units[u].members = {} => ms = {},
         x \in {"asked", "queued"} \/ ms # {} => Live(u)
  PROVE  units' \in [UnitIds -> Units] /\ \A v \in UnitIds : Declines(v)
<1>1. units' \in [UnitIds -> Units]
  BY DEF UnitAt
<1>2. ASSUME NEW v \in UnitIds PROVE Declines(v)
  <2>1. CASE v = u
    BY <2>1 DEF UnitAt, Declines, Live
  <2>2. CASE v # u
    <3>1. units'[v] = units[v] /\ UnitSound(v)
      BY <2>2 DEF UnitAt, IInv, Sound
    <3> QED
      BY <3>1 DEF Declines, Live, UnitSound
  <2> QED
    BY <2>1, <2>2
<1> QED
  BY <1>1, <1>2

LEMMA ManagerInv ==
  ASSUME IInv, NEW u \in DOMAIN units,
         \/ HelperReaches(u) \/ UnitStarts(u) \/ ProcessSteps(u) \/ UnitStops(u)
  PROVE  IInv'
<1>1. UNCHANGED <<registry, identity, marker, call, boot, digest, starts, answers>>
  BY DEF HelperReaches, UnitStarts, ProcessSteps, UnitStops
<1>2. Typed /\ UnitSound(u) /\ u \in UnitIds /\ units[u] \in Units
  BY DEF IInv, Sound, Typed
<1>3. \E x \in Phases, ms \in SUBSET {"main", "child"} :
        /\ UnitAt(units', u, x, ms)
        /\ units[u].phase = "none" => x = "none"
        /\ units[u].phase \in Begun => x \in Begun
        /\ ms # {} => x \in {"loaded", "stopping"}
        /\ units[u].phase \in Begun /\ units[u].members = {} => ms = {}
        /\ x \in {"asked", "queued"} \/ ms # {} => Live(u)
  <2>1. CASE HelperReaches(u)
    <3>1. units[u].phase = "asked" /\ units' = [units EXCEPT ![u].phase = "queued"]
      BY <2>1 DEF HelperReaches
    <3>2. UnitAt(units', u, "queued", units[u].members) /\ "queued" \in Phases
      BY <1>2, <3>1, UnitFacts DEF Phases
    <3>3. /\ units[u].members \in SUBSET {"main", "child"} /\ units[u].members = {}
          /\ Live(u)
      BY <1>2, <3>1 DEF UnitSound, Live, Units
    <3> QED
      BY <3>1, <3>2, <3>3 DEF Begun
  <2>2. CASE UnitStarts(u)
    <3>1. /\ units[u].phase = "queued" /\ units[u].members = {}
          /\ Live(u) /\ {} \in SUBSET {"main", "child"}
          /\ {"main"} \in SUBSET {"main", "child"} /\ {"loaded", "failed"} \subseteq Phases
      BY <1>2, <2>2 DEF UnitStarts, UnitSound, Live, Phases
    <3>2. \/ UnitAt(units', u, "loaded", {"main"})
          \/ UnitAt(units', u, "failed", units[u].members)
      <4>1. \/ units' = [units EXCEPT ![u].phase = "loaded", ![u].members = {"main"}]
            \/ units' = [units EXCEPT ![u].phase = "failed"]
        BY <2>2, Zenon DEF UnitStarts
      <4>2. units' = [units EXCEPT ![u].phase = "loaded", ![u].members = {"main"}]
            => UnitAt(units', u, "loaded", {"main"})
        BY <1>2, <3>1, UnitFacts, Zenon
      <4>3. units' = [units EXCEPT ![u].phase = "failed"]
            => UnitAt(units', u, "failed", units[u].members)
        BY <1>2, <3>1, UnitFacts, Zenon
      <4> QED
        BY <4>1, <4>2, <4>3, Zenon
    <3>3. CASE UnitAt(units', u, "loaded", {"main"})
      BY <3>1, <3>3 DEF Begun
    <3>4. CASE UnitAt(units', u, "failed", units[u].members)
      BY <3>1, <3>4 DEF Begun
    <3> QED
      BY <3>2, <3>3, <3>4
  <2>3. CASE ProcessSteps(u)
    <3>1. /\ units[u].members # {} /\ Live(u)
          /\ units[u].phase \in {"loaded", "stopping"} /\ units[u].phase \in Phases
          /\ units[u].members \in SUBSET {"main", "child"}
      BY <1>2, <2>3 DEF ProcessSteps, UnitSound, Live, Units
    <3>2. PICK ms \in SUBSET {"main", "child"} :
            units' = [units EXCEPT ![u].members = ms]
      BY <2>3, <3>1 DEF ProcessSteps
    <3>3. UnitAt(units', u, units[u].phase, ms)
      BY <1>2, <3>1, <3>2, UnitFacts
    <3> QED
      BY <3>1, <3>3 DEF Begun
  <2>4. CASE UnitStops(u)
    <3>1. /\ units[u].phase = "stopping"
          /\ {} \in SUBSET {"main", "child"} /\ "unloaded" \in Phases
      BY <2>4 DEF UnitStops, Phases
    <3>2. UnitAt(units', u, "unloaded", {})
      <4>1. units' = [units EXCEPT ![u].phase = "unloaded", ![u].members = {}]
        BY <2>4, Zenon DEF UnitStops
      <4>2. units' = [units EXCEPT ![u].phase = "unloaded", ![u].members = {}]
            => UnitAt(units', u, "unloaded", {})
        BY <1>2, <3>1, UnitFacts, Zenon
      <4> QED
        BY <4>1, <4>2, Zenon
    <3> QED
      BY <3>1, <3>2 DEF Begun
  <2> QED
    BY <2>1, <2>2, <2>3, <2>4
<1>4. units' \in [UnitIds -> Units] /\ \A v \in UnitIds : Declines(v)
  BY <1>2, <1>3, UnitMoves
<1>5. Sound'
  BY <1>1, <1>4, UnitsDecline
<1>6. CallSound'
  BY <1>1, <1>4, CallDeclines
<1>7. Typed'
  BY <1>1, <1>4 DEF IInv, Typed
<1> QED
  BY <1>5, <1>6, <1>7 DEF IInv

\* No process and no start under way survives a boot of the host.
LEMMA RebootFacts ==
  ASSUME Typed, Reboot, NEW u \in UnitIds
  PROVE  /\ units'[u] \in Units /\ units'[u].members = {}
         /\ units'[u].phase = IF units[u].phase \in {"loaded", "stopping"} THEN "unloaded"
                              ELSE IF units[u].phase \in {"asked", "queued"} THEN "none"
                              ELSE units[u].phase
<1>1. units[u] \in Units /\ DOMAIN units = UnitIds
  BY DEF Typed
<1>2. PICK x : x = IF units[u].phase \in {"loaded", "stopping"} THEN "unloaded"
                   ELSE IF units[u].phase \in {"asked", "queued"} THEN "none"
                   ELSE units[u].phase
  OBVIOUS
<1>3. x \in Phases
  BY <1>1, <1>2 DEF Units, Phases
<1>4. PICK a \in Units : a = [units[u] EXCEPT !.members = {}]
  BY <1>1 DEF Units
<1>5. a.members = {} /\ a.phase = units[u].phase
  BY <1>1, <1>4 DEF Units
<1>6. PICK b \in Units : b = [a EXCEPT !.phase = x]
  BY <1>3 DEF Units
<1>7. b.members = {} /\ b.phase = x
  BY <1>5, <1>6 DEF Units
<1>8. units'[u] = b
  <2>1. units' = [v \in UnitIds |->
                    [units[v] EXCEPT !.members = {},
                       !.phase = IF @ \in {"loaded", "stopping"} THEN "unloaded"
                                 ELSE IF @ \in {"asked", "queued"} THEN "none" ELSE @]]
    BY <1>1, Zenon DEF Reboot
  <2>2. units'[u] = [units[u] EXCEPT !.members = {}, !.phase = x]
    BY <1>2, <2>1, Zenon
  <2>3. [units[u] EXCEPT !.members = {}, !.phase = x] = [a EXCEPT !.phase = x]
    BY <1>4, Zenon
  <2> QED
    BY <1>6, <2>2, <2>3, Zenon
<1> QED
  BY <1>2, <1>7, <1>8

LEMMA RebootInv ==
  ASSUME IInv, Reboot
  PROVE  IInv'
<1>1. /\ UNCHANGED <<registry, identity, marker, digest, starts, answers>>
      /\ call' = Idle /\ boot' = boot + 1
  BY DEF Reboot
<1>2. Typed /\ DOMAIN units = UnitIds
  BY DEF IInv, Typed
<1>3. ASSUME NEW u \in UnitIds PROVE units'[u] \in Units /\ Declines(u)
  BY <1>2, RebootFacts DEF Declines, Live, Begun
<1>4. units' \in [UnitIds -> Units]
  <2>1. units' = [u \in UnitIds |-> units'[u]]
    BY <1>2, Zenon DEF Reboot
  <2> QED
    BY <1>3, <2>1
<1>5. Sound'
  BY <1>1, <1>3, <1>4, UnitsDecline
<1>6. CallSound' /\ call' \in CallRecords
  BY <1>1, <1>3, CallDeclines
<1>7. Typed'
  BY <1>1, <1>4, <1>6 DEF IInv, Typed
<1> QED
  BY <1>5, <1>6, <1>7 DEF IInv

-----------------------------------------------------------------------------
(* Steps of the port that reach the manager.                                *)

\* A helper that is killed at its deadline takes nothing back.
LEMMA RunTimedOutInv ==
  ASSUME IInv, RunTimedOut
  PROVE  IInv'
<1>1. PICK u : u = UnitOf(call.g)
  OBVIOUS
<1>2. PICK x : x = IF units[u].phase = "asked" THEN "none" ELSE units[u].phase
  OBVIOUS
<1>3. /\ UNCHANGED <<registry, identity, marker, boot, digest, starts, answers>>
      /\ call' = Idle /\ units' = [units EXCEPT ![u].phase = x]
  BY <1>1, <1>2 DEF RunTimedOut
<1>4. Typed /\ u \in UnitIds
  BY <1>1 DEF IInv, Typed, CallSound, RunTimedOut, UnitOf, UnitIds
<1>5. UnitSound(u) /\ units[u] \in Units /\ x \in Phases
  BY <1>2, <1>4 DEF IInv, Sound, Typed, Units, Phases
<1>6. UnitAt(units', u, x, units[u].members)
  BY <1>3, <1>4, <1>5, UnitFacts DEF Units
<1>7. /\ units[u].phase = "none" => x = "none"
      /\ units[u].phase \in Begun => x \in Begun
      /\ units[u].members # {} => x \in {"loaded", "stopping"}
      /\ x \in {"asked", "queued"} \/ units[u].members # {} => Live(u)
  BY <1>2, <1>5 DEF Begun, UnitSound, Live
<1>8. units' \in [UnitIds -> Units] /\ \A v \in UnitIds : Declines(v)
  BY <1>4, <1>5, <1>6, <1>7, UnitMoves
<1>9. Sound'
  BY <1>3, <1>8, UnitsDecline
<1>10. CallSound' /\ call' \in CallRecords
  BY <1>3, <1>8, CallDeclines
<1>11. Typed'
  BY <1>3, <1>8, <1>10 DEF IInv, Typed
<1> QED
  BY <1>9, <1>10, <1>11 DEF IInv

\* A stop is asked for; the processes are still there.
LEMMA StopUnitInv ==
  ASSUME IInv, StopUnit
  PROVE  IInv'
<1>1. PICK u : u = UnitOf(call.g)
  OBVIOUS
<1>2. /\ UNCHANGED <<registry, identity, marker, boot, digest, starts, answers>>
      /\ call' = At("stopped", call.g, "settle")
      /\ units' = [units EXCEPT ![u].phase = "stopping"]
      /\ units[u].phase \in {"loaded", "stopping"}
  BY <1>1 DEF StopUnit
<1>3. Typed /\ u \in UnitIds /\ call.g \in Gens /\ registry[call.g] # None
  BY <1>1 DEF IInv, Typed, CallSound, StopUnit, UnitOf, UnitIds
<1>4. UnitSound(u) /\ units[u] \in Units /\ "stopping" \in Phases
  BY <1>3 DEF IInv, Sound, Typed, Phases
<1>5. UnitAt(units', u, "stopping", units[u].members)
  BY <1>2, <1>3, <1>4, UnitFacts DEF Units
<1>6. units' \in [UnitIds -> Units] /\ \A v \in UnitIds : Declines(v)
  BY <1>2, <1>3, <1>4, <1>5, UnitMoves DEF Begun, Live
<1>7. Sound'
  BY <1>2, <1>6, UnitsDecline
<1>8. /\ call' \in CallRecords /\ call'.at = "settle" /\ call'.g = call.g
  BY <1>2, <1>3 DEF At, CallRecords, Kinds, CallPlaces
<1>9. CallSound'
  BY <1>2, <1>3, <1>8 DEF CallSound
<1>10. Typed'
  BY <1>2, <1>6, <1>8 DEF IInv, Typed
<1> QED
  BY <1>7, <1>9, <1>10 DEF IInv

\* The one start: the directory bears this registry's mark, and whoever had it
\* before is absent.
LEMMA RunUnitInv ==
  ASSUME IInv, RunUnit
  PROVE  IInv'
<1>1. PICK g, u : g = call.g /\ u = UnitOf(call.g)
  OBVIOUS
<1>2. /\ UNCHANGED <<registry, identity, marker, boot, digest, answers>>
      /\ call.at = "run" /\ call' = [call EXCEPT !.at = "wait"]
      /\ units' = [units EXCEPT ![u].phase = "asked"]
      /\ starts' = [starts EXCEPT ![g] = @ + 1]
  BY <1>1 DEF RunUnit, Goes
<1>3. /\ Typed /\ g \in Gens /\ u \in UnitIds /\ u[1] = g /\ u[2] = identity
      /\ starts[g] = 0 /\ MarkerOf(g) = Owner /\ registry[g] # None
      /\ registry[g].dispatched /\ ~registry[g].bound /\ identity \in Nat
  BY <1>1, <1>2 DEF IInv, Typed, CallSound, UnitOf, UnitIds
<1>4. UnitSound(u) /\ units[u] \in Units /\ "asked" \in Phases
  BY <1>3 DEF IInv, Sound, Typed, Phases
<1>5. units[u].phase = "none" /\ units[u].members = {}
  BY <1>3, <1>4 DEF UnitSound
<1>6. /\ units' \in [UnitIds -> Units]
      /\ units'[u].phase = "asked" /\ units'[u].members = {}
      /\ \A v \in UnitIds : v # u => units'[v] = units[v]
  <2>1. UnitAt(units', u, "asked", units[u].members)
    BY <1>2, <1>3, <1>4, UnitFacts DEF Units
  <2> QED
    BY <1>5, <2>1 DEF UnitAt
<1>7. /\ starts' \in [Gens -> Nat] /\ starts'[g] = 1
      /\ \A h \in Gens : h # g => starts'[h] = starts[h]
  BY <1>2, <1>3 DEF Typed
<1>8. /\ MarkerOf(g) # None /\ MarkerOf(g)[2] = identity
      /\ \A h \in Gens : MarkerOf(h)' = MarkerOf(h)
  <2>1. Owner \in Nat \X Nat /\ Owner[2] = identity
    BY <1>3 DEF Owner, Typed
  <2> QED
    BY <1>2, <1>3, <2>1, NativeNothing DEF MarkerOf
<1>9. MarkerSound' /\ OneOpenRow'
  BY <1>2 DEF IInv, Sound, MarkerSound, OneOpenRow
<1>10. ASSUME NEW h \in Gens PROVE StartSound(h)'
  <2>1. StartSound(h)
    BY DEF IInv, Sound
  <2> QED
    BY <1>2, <1>3, <1>7, <1>8, <2>1 DEF StartSound
<1>11. ASSUME NEW v \in UnitIds PROVE UnitSound(v)'
  <2>1. UnitSound(v) /\ v[1] \in Gens
    BY DEF IInv, Sound, UnitIds
  <2>2. CASE v = u
    BY <1>3, <1>6, <1>7, <1>8, <2>2 DEF UnitSound
  <2>3. CASE v # u
    <3>1. units'[v] = units[v] /\ (starts[v[1]] = 1 => starts'[v[1]] = 1)
      BY <1>3, <1>6, <1>7, <2>1, <2>3
    <3> QED
      BY <1>8, <2>1, <3>1 DEF UnitSound
  <2> QED
    BY <2>2, <2>3
<1>12. ASSUME NEW h \in Gens PROVE RowSound(h)'
  <2>1. RowSound(h) /\ UnitOf(h) \in UnitIds /\ UnitOf(h)' = UnitOf(h)
        /\ UnitOf(h)[1] = h
    BY <1>2, <1>3 DEF IInv, Sound, UnitOf, UnitIds, Typed
  <2>2. CASE h = g
    BY <1>2, <1>3, <2>1, <2>2 DEF RowSound
  <2>3. CASE h # g
    <3>1. units'[UnitOf(h)] = units[UnitOf(h)]
      BY <1>3, <1>6, <2>1, <2>3
    <3> QED
      BY <1>2, <2>1, <3>1 DEF RowSound
  <2> QED
    BY <2>2, <2>3
<1>13. ASSUME NEW v \in UnitIds, Live(v), NamespaceOf[v[1]] = NamespaceOf[g]
       PROVE  v = u
  <2>1. v[1] \in Gens /\ v[2] \in 1..MaxIdentity /\ v = <<v[1], v[2]>>
    BY DEF UnitIds
  <2>2. units[v].phase # "none"
    BY <1>13 DEF IInv, Sound, UnitSound, Live
  <2>3. /\ starts[v[1]] = 1 /\ v[2] = identity
        /\ MarkerOf(v[1]) # None /\ MarkerOf(v[1])[2] = identity
    BY <1>8, <1>13, <2>2 DEF IInv, Sound, UnitSound, MarkerOf
  <2>4. registry[v[1]] # None
    BY <2>1, <2>3 DEF IInv, Sound, StartSound
  <2>5. v = UnitOf(v[1])
    BY <2>1, <2>3 DEF UnitOf
  <2>6. ~registry[v[1]].absent
    <3>1. RowSound(v[1])
      BY <2>1 DEF IInv, Sound
    <3> QED
      BY <1>13, <2>4, <2>5, <3>1 DEF RowSound, Live, Begun
  <2>7. ~registry[g].absent
    BY <1>3 DEF IInv, Sound, RowSound
  <2>8. v[1] = g
    BY <1>3, <1>13, <2>1, <2>4, <2>6, <2>7 DEF IInv, Sound, OneOpenRow
  <2> QED
    BY <1>1, <2>5, <2>8
<1>14. OneTreePerNamespace'
  <2>1. DOMAIN units' = UnitIds /\ DOMAIN units = UnitIds
    BY <1>3, <1>6 DEF Typed
  <2>2. SUFFICES ASSUME NEW v \in UnitIds, NEW w \in UnitIds, Live(v)', Live(w)',
                        NamespaceOf[v[1]] = NamespaceOf[w[1]]
                 PROVE  v = w
    BY <2>1 DEF OneTreePerNamespace
  <2>3. \A z \in UnitIds : z # u => (Live(z)' <=> Live(z))
    BY <1>6 DEF Live
  <2>4. CASE v = u \/ w = u
    BY <1>3, <1>13, <2>2, <2>3, <2>4
  <2>5. CASE v # u /\ w # u
    BY <2>1, <2>2, <2>3, <2>5 DEF IInv, Sound, OneTreePerNamespace
  <2> QED
    BY <2>4, <2>5
<1>15. call' \in CallRecords /\ call'.at = "wait" /\ call'.g = g
  BY <1>1, <1>2, <1>3 DEF Typed, CallRecords, CallPlaces
<1>16. CallSound'
  BY <1>2, <1>3, <1>15 DEF CallSound
<1>17. Typed'
  BY <1>2, <1>3, <1>6, <1>7, <1>15 DEF Typed
<1> QED
  BY <1>9, <1>10, <1>11, <1>12, <1>14, <1>16, <1>17 DEF IInv, Sound

-----------------------------------------------------------------------------
(* Steps of the port on its registry.                                       *)

\* A row is saved with no less than it had.
LEMMA RowSaved ==
  ASSUME IInv, NEW g \in Gens, registry[g] # None, NEW r \in GenerationRecords,
         registry' = [registry EXCEPT ![g] = r],
         UNCHANGED <<identity, marker, units, starts>>,
         registry[g].dispatched => r.dispatched,
         registry[g].absent => r.absent,
         r.bound => units[UnitOf(g)].phase \in Begun,
         r.identity => r.bound,
         r.absent => r.bound /\ units[UnitOf(g)].members = {}
  PROVE  /\ Sound' /\ registry' \in [Gens -> GenerationRecords \cup {None}]
         /\ registry'[g] = r /\ r # None
<1>1. Typed /\ Sound /\ r # None
  BY NativeNothing DEF IInv
<1>2. /\ registry' \in [Gens -> GenerationRecords \cup {None}] /\ registry'[g] = r
      /\ \A h \in Gens : h # g => registry'[h] = registry[h]
  BY <1>1 DEF Typed
<1>3. MarkerSound' /\ OneTreePerNamespace'
  BY <1>1 DEF Sound, MarkerSound, OneTreePerNamespace, Live
<1>4. ASSUME NEW h \in Gens PROVE StartSound(h)'
  <2>1. StartSound(h)
    BY <1>1 DEF Sound
  <2>2. registry[h] # None /\ registry[h].dispatched
        => registry'[h] # None /\ registry'[h].dispatched
    BY <1>1, <1>2
  <2> QED
    BY <2>1, <2>2 DEF StartSound, MarkerOf
<1>5. ASSUME NEW u \in UnitIds PROVE UnitSound(u)'
  BY <1>1 DEF Sound, UnitSound, MarkerOf
<1>6. ASSUME NEW h \in Gens PROVE RowSound(h)'
  <2>1. RowSound(h) /\ UnitOf(h)' = UnitOf(h)
    BY <1>1 DEF Sound, UnitOf
  <2>2. CASE h = g
    BY <1>2, <2>1, <2>2 DEF RowSound
  <2>3. CASE h # g
    BY <1>2, <2>1, <2>3 DEF RowSound
  <2> QED
    BY <2>2, <2>3
<1>7. OneOpenRow'
  <2>1. \A h \in Gens : registry'[h] # None /\ ~registry'[h].absent
                        => registry[h] # None /\ ~registry[h].absent
    BY <1>2
  <2> QED
    BY <1>1, <2>1 DEF Sound, OneOpenRow
<1> QED
  BY <1>1, <1>2, <1>3, <1>4, <1>5, <1>6, <1>7 DEF Sound

LEMMA RegistryQuiet ==
  ASSUME IInv, UNCHANGED <<registry, identity, marker, units, starts>>
  PROVE  Sound'
<1>1. Typed /\ Sound
  BY DEF IInv
<1>2. MarkerSound' /\ OneTreePerNamespace' /\ OneOpenRow'
  BY <1>1 DEF Sound, MarkerSound, OneTreePerNamespace, Live, OneOpenRow
<1>3. ASSUME NEW h \in Gens PROVE StartSound(h)' /\ RowSound(h)'
  BY <1>1 DEF Sound, StartSound, MarkerOf, RowSound, UnitOf
<1>4. ASSUME NEW u \in UnitIds PROVE UnitSound(u)'
  BY <1>1 DEF Sound, UnitSound, MarkerOf
<1> QED
  BY <1>2, <1>3, <1>4 DEF Sound

LEMMA NoCall ==
  ASSUME call' = Idle
  PROVE  CallSound' /\ call' \in CallRecords
<1>1. Idle.at = "idle" /\ Idle \in CallRecords
  BY DEF Idle, CallRecords, Kinds, CallPlaces
<1> QED
  BY <1>1 DEF CallSound

\* A call that only looks its row up.
LEMMA CallLooks ==
  ASSUME NEW g \in Gens, NEW kind \in Kinds, registry'[g] # None,
         call' = At(kind, g, "show")
  PROVE  CallSound' /\ call' \in CallRecords
<1>1. /\ call' \in CallRecords /\ call'.at = "show" /\ call'.g = g
  BY DEF At, CallRecords, CallPlaces
<1> QED
  BY <1>1 DEF CallSound

\* A new row keeps every other out of its directory.
LEMMA StartGenerationInv ==
  ASSUME IInv, NEW g \in Gens, start_generation(g)
  PROVE  IInv'
<1>1. /\ UNCHANGED <<identity, marker, boot, digest, units, starts, answers>>
      /\ reserve(g)
      /\ \/ g \notin Rows /\ call' = At("start", g, "claim")
         \/ g \in Rows /\ call' = At("start", g, "show")
  BY DEF start_generation, StartsAnew
<1>2. Typed /\ Sound
  BY DEF IInv
<1>3. CASE g \in Rows
  <2>1. UNCHANGED registry /\ registry[g] # None /\ call' = At("start", g, "show")
    BY <1>1, <1>3 DEF reserve, Rows
  <2>2. Sound'
    BY <1>1, <2>1, RegistryQuiet
  <2>3. CallSound' /\ call' \in CallRecords
    BY <2>1, CallLooks DEF Kinds
  <2>4. Typed'
    BY <1>1, <2>1, <2>3 DEF IInv, Typed
  <2> QED
    BY <2>2, <2>3, <2>4 DEF IInv
<1>4. CASE g \notin Rows
  <2>1. /\ registry[g] = None /\ NamespaceFree(NamespaceOf[g])
        /\ registry' = [registry EXCEPT ![g] = GenerationRecord]
        /\ call' = At("start", g, "claim")
    BY <1>1, <1>4 DEF reserve, Rows
  <2>2. PICK r : r = GenerationRecord
    OBVIOUS
  <2>3. /\ r \in GenerationRecords /\ ~r.dispatched /\ ~r.absent /\ ~r.identity
        /\ ~r.bound
    BY <1>2, <2>2 DEF GenerationRecord, GenerationRecords, Typed
  <2>4. r # None
    BY <2>3, NativeNothing
  <2>5. /\ registry' \in [Gens -> GenerationRecords \cup {None}] /\ registry'[g] = r
        /\ \A h \in Gens : h # g => registry'[h] = registry[h]
    BY <1>2, <2>1, <2>2, <2>3 DEF Typed
  <2>6. MarkerSound' /\ OneTreePerNamespace'
    BY <1>1, <1>2 DEF Sound, MarkerSound, OneTreePerNamespace, Live
  <2>7. ASSUME NEW h \in Gens PROVE StartSound(h)' /\ RowSound(h)'
    <3>1. StartSound(h) /\ RowSound(h) /\ UnitOf(h)' = UnitOf(h)
          /\ MarkerOf(h)' = MarkerOf(h)
      BY <1>1, <1>2 DEF Sound, UnitOf, MarkerOf
    <3>2. CASE h = g
      BY <1>1, <2>1, <2>3, <2>5, <3>1, <3>2 DEF StartSound, RowSound
    <3>3. CASE h # g
      BY <1>1, <2>5, <3>1, <3>3 DEF StartSound, RowSound
    <3> QED
      BY <3>2, <3>3
  <2>8. ASSUME NEW u \in UnitIds PROVE UnitSound(u)'
    BY <1>1, <1>2 DEF Sound, UnitSound, MarkerOf
  <2>9. OneOpenRow'
    <3>1. \A h \in Gens : registry[h] # None /\ NamespaceOf[h] = NamespaceOf[g]
                          => registry[h].absent
      BY <2>1 DEF NamespaceFree, Rows
    <3>2. SUFFICES ASSUME NEW h \in Gens, NEW k \in Gens,
                          registry'[h] # None, registry'[k] # None,
                          NamespaceOf[h] = NamespaceOf[k],
                          ~registry'[h].absent, ~registry'[k].absent
                   PROVE  h = k
      BY DEF OneOpenRow
    <3>3. CASE h = g \/ k = g
      BY <2>5, <3>1, <3>2, <3>3
    <3>4. CASE h # g /\ k # g
      BY <1>2, <2>5, <3>2, <3>4 DEF Sound, OneOpenRow
    <3> QED
      BY <3>3, <3>4
  <2>10. /\ call' \in CallRecords /\ call'.at = "claim" /\ call'.g = g
    BY <2>1 DEF At, CallRecords, Kinds, CallPlaces
  <2>11. CallSound'
    BY <2>3, <2>4, <2>5, <2>10 DEF CallSound
  <2>12. Typed'
    BY <1>1, <1>2, <2>5, <2>10 DEF Typed
  <2> QED
    BY <2>6, <2>7, <2>8, <2>9, <2>11, <2>12 DEF IInv, Sound
<1> QED
  BY <1>3, <1>4

\* The marker of a directory is written once.
LEMMA MarkerWritten ==
  ASSUME IInv, NEW n \in Namespaces, marker[n] = None,
         NEW w \in Nat \X Nat, w[2] <= identity,
         marker' = [marker EXCEPT ![n] = w],
         UNCHANGED <<registry, identity, units, starts>>
  PROVE  Sound' /\ marker' \in [Namespaces -> (Nat \X Nat) \cup {None}]
<1>1. Typed /\ Sound /\ w # None
  BY NativeNothing DEF IInv
<1>2. /\ marker' \in [Namespaces -> (Nat \X Nat) \cup {None}] /\ marker'[n] = w
      /\ \A m \in Namespaces : m # n => marker'[m] = marker[m]
  BY <1>1 DEF Typed
<1>3. MarkerSound'
  BY <1>1, <1>2 DEF Sound, MarkerSound
<1>4. OneTreePerNamespace' /\ OneOpenRow'
  BY <1>1 DEF Sound, OneTreePerNamespace, Live, OneOpenRow
<1>5. ASSUME NEW h \in Gens
      PROVE  MarkerOf(h) # None => MarkerOf(h)' = MarkerOf(h)
  <2>1. NamespaceOf[h] \in Namespaces
    BY NativeConfig
  <2> QED
    BY <1>2, <2>1 DEF MarkerOf
<1>6. ASSUME NEW h \in Gens PROVE StartSound(h)' /\ RowSound(h)'
  <2>1. StartSound(h) /\ RowSound(h)
    BY <1>1 DEF Sound
  <2>2. StartSound(h)'
    BY <1>5, <2>1 DEF StartSound
  <2>3. RowSound(h)'
    BY <2>1 DEF RowSound, UnitOf
  <2> QED
    BY <2>2, <2>3
<1>7. ASSUME NEW u \in UnitIds PROVE UnitSound(u)'
  <2>1. UnitSound(u) /\ u[1] \in Gens
    BY <1>1 DEF Sound, UnitIds
  <2> QED
    BY <1>5, <2>1 DEF UnitSound
<1> QED
  BY <1>2, <1>3, <1>4, <1>6, <1>7 DEF Sound

\* The directory is this registry's when the start goes on.
LEMMA ClaimInv ==
  ASSUME IInv, claim_user_data
  PROVE  IInv'
<1>1. PICK g, n : g = call.g /\ n = NamespaceOf[call.g]
  OBVIOUS
<1>2. /\ UNCHANGED <<registry, identity, boot, digest, units, starts, answers>>
      /\ call.at = "claim" /\ call' = [call EXCEPT !.at = "dispatch"]
      /\ \/ marker[n] = None /\ marker' = [marker EXCEPT ![n] = Owner]
         \/ marker[n] = Owner /\ UNCHANGED marker
  BY <1>1 DEF claim_user_data, Goes
<1>3. /\ Typed /\ g \in Gens /\ registry[g] # None /\ ~registry[g].bound
      /\ ~registry[g].dispatched
  BY <1>1, <1>2 DEF IInv, CallSound
<1>4. /\ n \in Namespaces /\ identity \in Nat /\ digest \in Nat
      /\ marker \in [Namespaces -> (Nat \X Nat) \cup {None}]
  BY <1>1, <1>3, NativeConfig DEF Typed
<1>5. Owner \in Nat \X Nat /\ Owner[2] <= identity /\ Owner' = Owner
  BY <1>2, <1>4 DEF Owner
<1>6. /\ Sound' /\ marker' \in [Namespaces -> (Nat \X Nat) \cup {None}]
      /\ marker'[n] = Owner
  <2>1. CASE marker[n] = None /\ marker' = [marker EXCEPT ![n] = Owner]
    <3>1. Sound' /\ marker' \in [Namespaces -> (Nat \X Nat) \cup {None}]
      BY <1>2, <1>4, <1>5, <2>1, MarkerWritten
    <3> QED
      BY <1>4, <2>1, <3>1
  <2>2. CASE marker[n] = Owner /\ UNCHANGED marker
    BY <1>2, <1>4, <2>2, RegistryQuiet
  <2> QED
    BY <1>2, <2>1, <2>2
<1>7. call' \in CallRecords /\ call'.at = "dispatch" /\ call'.g = g
  BY <1>1, <1>2, <1>3 DEF Typed, CallRecords, CallPlaces
<1>8. CallSound'
  BY <1>1, <1>2, <1>3, <1>5, <1>6, <1>7 DEF CallSound, MarkerOf
<1>9. Typed'
  BY <1>2, <1>3, <1>6, <1>7 DEF Typed
<1> QED
  BY <1>6, <1>8, <1>9 DEF IInv

\* A call that fails leaves at most a torn marker.
LEMMA InterruptedInv ==
  ASSUME IInv, Interrupted
  PROVE  IInv'
<1>1. PICK n : n = NamespaceOf[call.g]
  OBVIOUS
<1>2. /\ UNCHANGED <<registry, identity, boot, digest, units, starts, answers>>
      /\ call' = Idle
      /\ \/ UNCHANGED marker
         \/ call.at = "claim" /\ marker[n] = None /\ marker' = [marker EXCEPT ![n] = Torn]
  BY <1>1 DEF Interrupted
<1>3. Typed /\ CallSound /\ identity \in Nat
  BY DEF IInv, Typed
<1>4. Sound' /\ marker' \in [Namespaces -> (Nat \X Nat) \cup {None}]
  <2>1. CASE UNCHANGED marker
    BY <1>2, <1>3, <2>1, RegistryQuiet DEF Typed
  <2>2. CASE call.at = "claim" /\ marker[n] = None /\ marker' = [marker EXCEPT ![n] = Torn]
    <3>1. n \in Namespaces
      BY <1>1, <1>3, <2>2, NativeConfig DEF CallSound
    <3>2. Torn \in Nat \X Nat /\ Torn[2] <= identity
      BY <1>3 DEF Torn
    <3> QED
      BY <1>2, <2>2, <3>1, <3>2, MarkerWritten
  <2> QED
    BY <1>2, <2>1, <2>2
<1>5. CallSound' /\ call' \in CallRecords
  BY <1>2, NoCall
<1>6. Typed'
  BY <1>2, <1>3, <1>4, <1>5 DEF Typed
<1> QED
  BY <1>4, <1>5, <1>6 DEF IInv

\* The start is on record before it is asked for.
LEMMA MarkDispatchedInv ==
  ASSUME IInv, MarkDispatched
  PROVE  IInv'
<1>1. PICK g, r : g = call.g /\ r = [registry[call.g] EXCEPT !.dispatched = TRUE]
  OBVIOUS
<1>2. /\ UNCHANGED <<identity, marker, boot, digest, units, starts, answers>>
      /\ call.at = "dispatch" /\ call' = [call EXCEPT !.at = "run"]
      /\ registry' = [registry EXCEPT ![g] = r]
  BY <1>1 DEF MarkDispatched, Goes, save
<1>3. /\ Typed /\ g \in Gens /\ registry[g] # None /\ ~registry[g].bound
      /\ ~registry[g].dispatched /\ MarkerOf(g) = Owner
  BY <1>1, <1>2 DEF IInv, CallSound
<1>4. registry[g] \in GenerationRecords /\ RowSound(g) /\ StartSound(g)
  BY <1>3 DEF IInv, Sound, Typed
<1>5. /\ r \in GenerationRecords /\ r.dispatched
      /\ r.bound = registry[g].bound /\ r.absent = registry[g].absent
      /\ r.identity = registry[g].identity
  BY <1>1, <1>4 DEF GenerationRecords
<1>6. /\ Sound' /\ registry' \in [Gens -> GenerationRecords \cup {None}]
      /\ registry'[g] = r /\ r # None
  BY <1>2, <1>3, <1>4, <1>5, RowSaved DEF RowSound
<1>7. starts[g] = 0
  <2>1. Owner \in Nat \X Nat /\ Owner[2] = identity
    BY <1>3 DEF Owner, Typed
  <2> QED
    BY <1>3, <1>4, <2>1 DEF StartSound
<1>8. call' \in CallRecords /\ call'.at = "run" /\ call'.g = g
  BY <1>1, <1>2, <1>3 DEF Typed, CallRecords, CallPlaces
<1>9. MarkerOf(g)' = Owner'
  BY <1>2, <1>3 DEF MarkerOf, Owner
<1>10. CallSound'
  BY <1>2, <1>3, <1>5, <1>6, <1>7, <1>8, <1>9 DEF CallSound, MarkerOf
<1>11. Typed'
  BY <1>2, <1>3, <1>6, <1>8 DEF Typed
<1> QED
  BY <1>6, <1>10, <1>11 DEF IInv

LEMMA MarkStoppingInv ==
  ASSUME IInv, MarkStopping
  PROVE  IInv'
<1>1. PICK g, r : g = call.g /\ r = [registry[call.g] EXCEPT !.stopping = TRUE]
  OBVIOUS
<1>2. /\ UNCHANGED <<identity, marker, boot, digest, units, starts, answers>>
      /\ call.at = "stop" /\ call' = [call EXCEPT !.at = "kill"]
      /\ registry' = [registry EXCEPT ![g] = r]
  BY <1>1 DEF MarkStopping, Goes, save
<1>3. Typed /\ g \in Gens /\ registry[g] # None
  BY <1>1, <1>2 DEF IInv, CallSound
<1>4. registry[g] \in GenerationRecords /\ RowSound(g)
  BY <1>3 DEF IInv, Sound, Typed
<1>5. /\ r \in GenerationRecords /\ r.dispatched = registry[g].dispatched
      /\ r.bound = registry[g].bound /\ r.absent = registry[g].absent
      /\ r.identity = registry[g].identity
  BY <1>1, <1>4 DEF GenerationRecords
<1>6. /\ Sound' /\ registry' \in [Gens -> GenerationRecords \cup {None}]
      /\ registry'[g] = r /\ r # None
  BY <1>2, <1>3, <1>4, <1>5, RowSaved DEF RowSound
<1>7. call' \in CallRecords /\ call'.at = "kill" /\ call'.g = g
  BY <1>1, <1>2, <1>3 DEF Typed, CallRecords, CallPlaces
<1>8. CallSound'
  BY <1>3, <1>6, <1>7 DEF CallSound
<1>9. Typed'
  BY <1>2, <1>3, <1>6, <1>7 DEF Typed
<1> QED
  BY <1>6, <1>8, <1>9 DEF IInv

\* The call at place a, having been shown s.
CallAt(n, a, s) ==
  n \in CallRecords /\ n.at = a /\ n.shown = s /\ n.g = call.g

LEMMA CallFacts ==
  ASSUME Typed, NEW a \in CallPlaces, NEW s \in Shown \cup {None}, NEW n
  PROVE  n = [call EXCEPT !.at = a, !.shown = s] => CallAt(n, a, s)
<1>1. call \in CallRecords
  BY DEF Typed
<1>2. PICK m \in CallRecords : m = [call EXCEPT !.at = a]
  BY <1>1 DEF CallRecords
<1>3. m.at = a /\ m.g = call.g
  BY <1>1, <1>2 DEF CallRecords
<1>4. n = [call EXCEPT !.at = a, !.shown = s] => n = [m EXCEPT !.shown = s]
  BY <1>2, Zenon
<1>5. n = [m EXCEPT !.shown = s] => CallAt(n, a, s)
  BY <1>3 DEF CallRecords, CallAt
<1> QED
  BY <1>4, <1>5, Zenon

LEMMA ShowUnitInv ==
  ASSUME IInv, ShowUnit
  PROVE  IInv'
<1>1. /\ UNCHANGED <<registry, identity, marker, boot, digest, units, starts, answers>>
      /\ call.at = "show"
  BY DEF ShowUnit
<1>2. PICK shown \in verified_properties(call.g) \ {"mismatch"} :
        call' = [call EXCEPT !.at = "group", !.shown = shown]
  BY Zenon DEF ShowUnit
<1>3. Typed /\ call.g \in Gens /\ registry[call.g] # None /\ "group" \in CallPlaces
  BY <1>1 DEF IInv, CallSound, CallPlaces
<1>4. shown \in Shown /\ (shown # "missing" => units[UnitOf(call.g)].phase \in Begun)
  BY <1>2 DEF verified_properties, Shown, Begun
<1>5. CallAt(call', "group", shown)
  BY <1>2, <1>3, <1>4, CallFacts, Zenon
<1>6. UnitOf(call.g)' = UnitOf(call.g)
  BY <1>1, <1>5 DEF UnitOf, CallAt
<1>7. CallSound'
  <2>1. /\ call'.at = "group" /\ call'.g = call.g /\ call'.shown = shown
    BY <1>5 DEF CallAt
  <2> QED
    BY <1>1, <1>3, <1>4, <1>6, <2>1 DEF CallSound, UnitOf
<1>8. Sound'
  BY <1>1, RegistryQuiet
<1>9. Typed'
  BY <1>1, <1>3, <1>5 DEF Typed, CallAt
<1> QED
  BY <1>7, <1>8, <1>9 DEF IInv

\* What an observation leaves of the row.
Noted(n, g, shown, members) ==
  /\ n \in GenerationRecords
  /\ n.dispatched = registry[g].dispatched
  /\ n.bound = (registry[g].bound \/ shown # "missing")
  /\ n.identity =
       (registry[g].identity \/ (shown # "missing" /\ "main" \in members))
  /\ n.absent = (registry[g].absent \/ ProvesAbsence(g, shown, members))

LEMMA ObservedFacts ==
  ASSUME Typed, NEW g \in Gens, registry[g] # None, NEW shown, NEW members
  PROVE  Noted(Observed(g, shown, members), g, shown, members)
<1>1. PICK row \in GenerationRecords : row = registry[g]
  BY DEF Typed
<1>2. PICK b : b = (row.bound \/ shown # "missing")
  OBVIOUS
<1>3. PICK i : i = (row.identity \/ (shown # "missing" /\ "main" \in members))
  OBVIOUS
<1>4. PICK a : a = (row.absent \/ ProvesAbsence(g, shown, members))
  OBVIOUS
<1>5. b \in BOOLEAN /\ i \in BOOLEAN /\ a \in BOOLEAN
  BY <1>1, <1>2, <1>3, <1>4 DEF GenerationRecords
<1>6. PICK r1 \in GenerationRecords : r1 = [row EXCEPT !.bound = b]
  BY <1>5 DEF GenerationRecords
<1>7. PICK r2 \in GenerationRecords : r2 = [r1 EXCEPT !.identity = i]
  BY <1>5 DEF GenerationRecords
<1>8. PICK r3 \in GenerationRecords : r3 = [r2 EXCEPT !.absent = a]
  BY <1>5 DEF GenerationRecords
<1>9. Observed(g, shown, members) = r3
  BY <1>1, <1>2, <1>3, <1>4, <1>6, <1>7, <1>8, Zenon DEF Observed
<1>10. /\ r3.dispatched = row.dispatched /\ r3.bound = b /\ r3.identity = i
       /\ r3.absent = a
  BY <1>6, <1>7, <1>8 DEF GenerationRecords
<1>11. Noted(r3, g, shown, members)
  BY <1>1, <1>2, <1>3, <1>4, <1>8, <1>10 DEF Noted
<1> QED
  BY <1>9, <1>11, Zenon

\* What is recorded of a unit was seen while the unit had begun: it can only
\* end after that.
LEMMA ObserveInv ==
  ASSUME IInv, observe
  PROVE  IInv'
<1>1. PICK g, ms, r : /\ g = call.g /\ ms = units[UnitOf(g)].members
                      /\ r = Observed(g, call.shown, ms)
  OBVIOUS
<1>2. PICK at \in {"stop", "answer"} : at = AfterObservation(call.kind, r)
  BY DEF AfterObservation
<1>3. /\ UNCHANGED <<identity, marker, boot, digest, units, starts, answers>>
      /\ call.at = "group"
      /\ registry[g].absent => ms = {}
      /\ call.shown = "missing" => r.absent
      /\ registry' = [registry EXCEPT ![g] = r]
  BY <1>1 DEF observe, save
<1>4. call' = [call EXCEPT !.at = at, !.shown = None]
  BY <1>1, <1>2, Zenon DEF observe
<1>5. /\ Typed /\ g \in Gens /\ registry[g] # None
      /\ call.shown # "missing" => units[UnitOf(g)].phase \in Begun
  BY <1>1, <1>3 DEF IInv, CallSound
<1>6. Noted(r, g, call.shown, ms)
  BY <1>1, <1>5, ObservedFacts, Zenon
<1>7. RowSound(g)
  BY <1>5 DEF IInv, Sound
<1>8. /\ r \in GenerationRecords
      /\ registry[g].dispatched => r.dispatched
      /\ registry[g].absent => r.absent
      /\ r.bound => units[UnitOf(g)].phase \in Begun
      /\ r.identity => r.bound
      /\ r.absent => r.bound /\ units[UnitOf(g)].members = {}
  BY <1>1, <1>3, <1>5, <1>6, <1>7 DEF Noted, RowSound, ProvesAbsence
<1>9. /\ Sound' /\ registry' \in [Gens -> GenerationRecords \cup {None}]
      /\ registry'[g] = r /\ r # None
  BY <1>3, <1>5, <1>8, RowSaved
<1>10. CallAt(call', at, None) /\ at \in CallPlaces
  <2>1. at \in CallPlaces
    BY <1>2 DEF CallPlaces
  <2> QED
    BY <1>4, <1>5, <2>1, CallFacts, Zenon
<1>11. CallSound'
  <2>1. call'.at \in {"stop", "answer"} /\ call'.g = g
    BY <1>1, <1>2, <1>10 DEF CallAt
  <2> QED
    BY <1>5, <1>9, <2>1 DEF CallSound
<1>12. Typed'
  BY <1>3, <1>5, <1>9, <1>10 DEF Typed, CallAt
<1> QED
  BY <1>9, <1>11, <1>12 DEF IInv

LEMMA AnsweredInv ==
  ASSUME IInv, RunAnswered \/ StopAnswered
  PROVE  IInv'
<1>1. /\ UNCHANGED <<registry, identity, marker, boot, digest, units, starts, answers>>
      /\ call.at # "idle" /\ call' = [call EXCEPT !.at = "show"]
  BY DEF RunAnswered, StopAnswered, Goes
<1>2. Typed /\ call.g \in Gens /\ registry[call.g] # None
  BY <1>1 DEF IInv, CallSound
<1>3. call' \in CallRecords /\ call'.at = "show" /\ call'.g = call.g
  BY <1>1, <1>2 DEF Typed, CallRecords, CallPlaces
<1>4. Sound'
  BY <1>1, RegistryQuiet
<1>5. CallSound'
  BY <1>1, <1>2, <1>3 DEF CallSound
<1>6. Typed'
  BY <1>1, <1>2, <1>3 DEF Typed
<1> QED
  BY <1>4, <1>5, <1>6 DEF IInv

LEMMA AnswerInv ==
  ASSUME IInv, Answer
  PROVE  IInv'
<1>1. /\ UNCHANGED <<registry, identity, marker, boot, digest, units, starts>>
      /\ call.at = "answer" /\ call' = Idle
      /\ \E said \in SUBSET {"Settled"} :
           answers' = [answers EXCEPT ![call.g] = @ \cup said]
  BY DEF Answer
<1>2. Typed
  BY DEF IInv
<1>3. answers' \in [Gens -> SUBSET {"Settled"}]
  BY <1>1, <1>2 DEF Typed
<1>4. Sound'
  BY <1>1, RegistryQuiet
<1>5. CallSound' /\ call' \in CallRecords
  BY <1>1, NoCall
<1>6. Typed'
  BY <1>1, <1>2, <1>3, <1>5 DEF Typed
<1> QED
  BY <1>4, <1>5, <1>6 DEF IInv

LEMMA LookUpInv ==
  ASSUME IInv, NEW g \in Gens, recover_generation(g) \/ inspect(g) \/ stop(g)
  PROVE  IInv'
<1>1. /\ UNCHANGED <<registry, identity, marker, boot, digest, units, starts, answers>>
      /\ registry[g] # None
      /\ \E kind \in Kinds : call' = At(kind, g, "show")
  BY DEF recover_generation, inspect, stop, checked_record, Rows, Kinds
<1>2. Sound'
  BY <1>1, RegistryQuiet
<1>3. CallSound' /\ call' \in CallRecords
  BY <1>1, CallLooks
<1>4. Typed'
  BY <1>1, <1>3 DEF IInv, Typed
<1> QED
  BY <1>2, <1>3, <1>4 DEF IInv

LEMMA ReconfigureInv ==
  ASSUME IInv, Reconfigure
  PROVE  IInv'
<1>1. /\ UNCHANGED <<registry, identity, marker, call, boot, units, starts, answers>>
      /\ call = Idle /\ digest' = digest + 1
  BY DEF Reconfigure
<1>2. Sound'
  BY <1>1, RegistryQuiet
<1>3. CallSound' /\ call' \in CallRecords
  BY <1>1, NoCall
<1>4. Typed'
  BY <1>1, <1>3 DEF IInv, Typed
<1> QED
  BY <1>2, <1>3, <1>4 DEF IInv

\* A registry made anew has no row, and its directories are to be claimed under
\* an identity that none of them bears.
LEMMA RegistryRecreatedInv ==
  ASSUME IInv, RegistryRecreated
  PROVE  IInv'
<1>1. /\ UNCHANGED <<marker, call, boot, digest, units, starts, answers>>
      /\ call = Idle /\ identity < MaxIdentity /\ identity' = identity + 1
      /\ registry' = [g \in Gens |-> None]
  BY DEF RegistryRecreated
<1>2. Typed /\ Sound /\ MaxIdentity \in Nat /\ identity \in Nat
  BY NativeConfig DEF IInv, Typed
<1>3. \A n \in Namespaces : marker[n] # None => marker[n][2] \in Nat
  BY <1>2 DEF Typed
<1>4. /\ registry' \in [Gens -> GenerationRecords \cup {None}]
      /\ identity' \in 1..MaxIdentity /\ \A g \in Gens : registry'[g] = None
  BY <1>1, <1>2 DEF Typed
<1>5. MarkerSound'
  BY <1>1, <1>2, <1>3 DEF Sound, MarkerSound
<1>6. ASSUME NEW g \in Gens PROVE StartSound(g)'
  <2>1. StartSound(g) /\ NamespaceOf[g] \in Namespaces
    BY <1>2, NativeConfig DEF Sound
  <2>2. MarkerOf(g) # None => MarkerOf(g)[2] # identity'
    BY <1>1, <1>2, <1>3, <2>1 DEF MarkerOf, Sound, MarkerSound
  <2> QED
    BY <1>1, <2>1, <2>2 DEF StartSound, MarkerOf
<1>7. ASSUME NEW u \in UnitIds PROVE UnitSound(u)'
  BY <1>1, <1>2 DEF Sound, UnitSound, MarkerOf
<1>8. ASSUME NEW g \in Gens PROVE RowSound(g)'
  BY <1>4 DEF RowSound
<1>9. OneOpenRow' /\ OneTreePerNamespace'
  BY <1>1, <1>2, <1>4 DEF Sound, OneOpenRow, OneTreePerNamespace, Live
<1>10. CallSound' /\ call' \in CallRecords
  BY <1>1, NoCall
<1>11. Typed'
  BY <1>1, <1>2, <1>4, <1>10 DEF Typed
<1> QED
  BY <1>5, <1>6, <1>7, <1>8, <1>9, <1>10, <1>11 DEF IInv, Sound

-----------------------------------------------------------------------------
(* The theorems.                                                            *)

LEMMA InitInv == Init => IInv
<1> SUFFICES ASSUME Init PROVE IInv
  OBVIOUS
<1> USE DEF Init
<1>1. Idle \in CallRecords /\ Idle.at = "idle"
  BY DEF Idle, CallRecords, Kinds, CallPlaces
<1>2. NoUnit \in Units /\ NoUnit.phase = "none" /\ NoUnit.members = {}
  BY DEF NoUnit, Units, Phases
<1>3. units \in [UnitIds -> Units] /\ \A u \in UnitIds : units[u] = NoUnit
  BY <1>2 DEF UnitIds
<1>4. identity \in 1..MaxIdentity
  BY NativeConfig
<1>5. Typed
  BY <1>1, <1>3, <1>4 DEF Typed
<1>6. /\ \A g \in Gens : registry[g] = None /\ starts[g] = 0
      /\ \A n \in Namespaces : marker[n] = None
  OBVIOUS
<1>7. MarkerSound /\ OneOpenRow /\ \A g \in Gens : StartSound(g) /\ RowSound(g)
  BY <1>6 DEF MarkerSound, OneOpenRow, StartSound, RowSound
<1>8. \A u \in UnitIds : UnitSound(u) /\ ~Live(u)
  BY <1>2, <1>3 DEF UnitSound, Live
<1>9. OneTreePerNamespace
  BY <1>3, <1>8 DEF OneTreePerNamespace
<1>10. CallSound
  BY <1>1 DEF CallSound
<1> QED
  BY <1>5, <1>7, <1>8, <1>9, <1>10 DEF IInv, Sound

LEMMA StepInv == IInv /\ [Next]_vars => IInv'
<1> SUFFICES ASSUME IInv, [Next]_vars PROVE IInv'
  OBVIOUS
<1>1. CASE UNCHANGED vars
  <2>1. UNCHANGED <<registry, identity, marker, call, boot, digest, units, starts, answers>>
    BY <1>1 DEF vars
  <2>2. Sound'
    BY <2>1, RegistryQuiet
  <2>3. CallSound'
    BY <2>1 DEF IInv, CallSound, MarkerOf, Owner, UnitOf
  <2>4. Typed'
    BY <2>1 DEF IInv, Typed
  <2> QED
    BY <2>2, <2>3, <2>4 DEF IInv
<1>2. ASSUME NEW g \in Gens,
             start_generation(g) \/ recover_generation(g) \/ inspect(g) \/ stop(g)
      PROVE  IInv'
  BY <1>2, StartGenerationInv, LookUpInv
<1>3. CASE claim_user_data \/ MarkDispatched \/ RunUnit \/ RunAnswered \/ RunTimedOut
  BY <1>3, ClaimInv, MarkDispatchedInv, RunUnitInv, AnsweredInv, RunTimedOutInv
<1>4. CASE ShowUnit \/ observe \/ Answer \/ MarkStopping \/ StopUnit \/ StopAnswered
  BY <1>4, ShowUnitInv, ObserveInv, AnswerInv, MarkStoppingInv, StopUnitInv, AnsweredInv
<1>5. CASE Interrupted \/ Reboot \/ Reconfigure \/ RegistryRecreated
  BY <1>5, InterruptedInv, RebootInv, ReconfigureInv, RegistryRecreatedInv
<1>6. ASSUME NEW u \in DOMAIN units,
             HelperReaches(u) \/ UnitStarts(u) \/ ProcessSteps(u) \/ UnitStops(u)
      PROVE  IInv'
  BY <1>6, ManagerInv
<1> QED
  BY <1>1, <1>2, <1>3, <1>4, <1>5, <1>6 DEF Next

\* The invariant holds of every state of the port.
THEOREM NativeInvariant == Spec => []IInv
  BY InitInv, StepInv, PTL DEF Spec

\* No two process trees run, or may yet come to run, in one user-data directory,
\* whatever answers are lost and whatever registry is lost and made anew: the
\* marker of the directory and the rows of the registry it names keep them apart.
THEOREM OneTreeTheorem == Spec => []OneTreePerNamespace
<1>1. IInv => OneTreePerNamespace
  BY DEF IInv, Sound
<1> QED
  BY <1>1, NativeInvariant, PTL

\* A generation recorded as absent has ended for good: it was bound, so its unit
\* had begun, and a unit that has begun and lost its last process starts no other.
THEOREM AbsentTheorem == Spec => []AbsentIsGone
<1>1. IInv => AbsentIsGone
  <2> SUFFICES ASSUME IInv, NEW g \in Gens, registry[g] # None, registry[g].absent
               PROVE  ~Live(UnitOf(g)) /\ units[UnitOf(g)].phase # "none"
    BY DEF AbsentIsGone, Rows
  <2>1. RowSound(g)
    BY DEF IInv, Sound
  <2> QED
    BY <2>1 DEF RowSound, Live, Begun
<1> QED
  BY <1>1, NativeInvariant, PTL
-----------------------------------------------------------------------------
(* The port implements the promise of a single start.                       *)

\* A step after which every unit has begun, or failed, as it had before.
SameOutcome ==
  \A u \in UnitIds :
    /\ units'[u].phase \in Begun <=> units[u].phase \in Begun
    /\ units'[u].phase = "failed" <=> units[u].phase = "failed"

LEMMA EffectKept ==
  ASSUME SameOutcome
  PROVE  [g \in Gens |-> EffectOf(g)]' = [g \in Gens |-> EffectOf(g)]
<1>1. ASSUME NEW g \in Gens PROVE EffectOf(g)' = EffectOf(g)
  <2>1. \A i \in 1..MaxIdentity :
          /\ units'[<<g, i>>].phase \in Begun <=> units[<<g, i>>].phase \in Begun
          /\ units'[<<g, i>>].phase = "failed" <=> units[<<g, i>>].phase = "failed"
    BY DEF SameOutcome, UnitIds
  <2> QED
    BY <2>1 DEF EffectOf, Begun
<1> QED
  BY <1>1

\* A step that starts nothing, decides nothing and says nothing.
LEMMA Stutters ==
  ASSUME SameOutcome, UNCHANGED <<starts, answers>>
  PROVE  [AMO!Next]_(AMO!vars)
<1>1. UNCHANGED AMO!vars
  BY EffectKept DEF AMO!vars
<1> QED
  BY <1>1

\* The start of a unit decides what became of its generation.
LEMMA StartDecides ==
  ASSUME IInv, NEW u \in DOMAIN units, UnitStarts(u)
  PROVE  [AMO!Next]_(AMO!vars)
<1>1. PICK g \in Gens, k \in 1..MaxIdentity : u = <<g, k>>
  BY DEF IInv, Typed, UnitIds
<1>2. /\ Typed /\ u \in UnitIds /\ u[1] = g /\ u[2] = k /\ units[u] \in Units
      /\ units[u].phase = "queued" /\ UNCHANGED <<starts, answers>>
  BY <1>1 DEF IInv, Typed, UnitIds, UnitStarts
<1>3. starts[g] = 1 /\ MarkerOf(g) # None /\ MarkerOf(g)[2] = k
  BY <1>2 DEF IInv, Sound, UnitSound
<1>4. /\ {"loaded", "failed"} \subseteq Phases /\ {"main"} \in SUBSET {"main", "child"}
      /\ units[u].members \in SUBSET {"main", "child"}
  BY <1>2 DEF Phases, Units
<1>5. PICK x \in {"loaded", "failed"} : \E ms : UnitAt(units', u, x, ms)
  <2>1. \/ units' = [units EXCEPT ![u].phase = "loaded", ![u].members = {"main"}]
        \/ units' = [units EXCEPT ![u].phase = "failed"]
    BY Zenon DEF UnitStarts
  <2>2. units' = [units EXCEPT ![u].phase = "loaded", ![u].members = {"main"}]
        => UnitAt(units', u, "loaded", {"main"})
    BY <1>2, <1>4, UnitFacts, Zenon
  <2>3. units' = [units EXCEPT ![u].phase = "failed"]
        => UnitAt(units', u, "failed", units[u].members)
    BY <1>2, <1>4, UnitFacts, Zenon
  <2> QED
    BY <2>1, <2>2, <2>3, Zenon
<1>6. /\ units'[u].phase = x
      /\ \A v \in UnitIds : v # u => units'[v] = units[v]
  BY <1>5 DEF UnitAt
<1>7. \A i \in 1..MaxIdentity : i # k =>
        units[<<g, i>>].phase = "none" /\ units'[<<g, i>>].phase = "none"
  <2> SUFFICES ASSUME NEW i \in 1..MaxIdentity, i # k
               PROVE  units[<<g, i>>].phase = "none" /\ units'[<<g, i>>].phase = "none"
    OBVIOUS
  <2>1. <<g, i>> \in UnitIds /\ <<g, i>> # u
    BY <1>1 DEF UnitIds
  <2>2. UnitSound(<<g, i>>)
    BY <2>1 DEF IInv, Sound
  <2>3. units[<<g, i>>].phase = "none"
    BY <1>3, <2>2 DEF UnitSound
  <2> QED
    BY <1>6, <2>1, <2>3
<1>8. EffectOf(g) = "none"
  BY <1>1, <1>2, <1>7 DEF EffectOf
<1>9. PICK e \in {"done", "refused"} : EffectOf(g)' = e
  BY <1>1, <1>6, <1>7 DEF EffectOf
<1>10. ASSUME NEW h \in Gens, h # g PROVE EffectOf(h)' = EffectOf(h)
  <2>1. \A i \in 1..MaxIdentity : units'[<<h, i>>] = units[<<h, i>>]
    BY <1>1, <1>6, <1>10 DEF UnitIds
  <2> QED
    BY <2>1 DEF EffectOf
<1>11. [h \in Gens |-> EffectOf(h)]' =
         [[h \in Gens |-> EffectOf(h)] EXCEPT ![g] = e]
  BY <1>9, <1>10
<1>12. AMO!Decide(g, e)
  BY <1>2, <1>3, <1>8, <1>11 DEF AMO!Decide
<1> QED
  BY <1>12 DEF AMO!Next, AMO!Effect

\* The one request for a start is the one write of the promise.
LEMMA RunWrites ==
  ASSUME IInv, RunUnit
  PROVE  [AMO!Next]_(AMO!vars)
<1>1. PICK g, u : g = call.g /\ u = UnitOf(call.g)
  OBVIOUS
<1>2. /\ UNCHANGED answers /\ call.at = "run"
      /\ units' = [units EXCEPT ![u].phase = "asked"]
      /\ starts' = [starts EXCEPT ![g] = @ + 1]
  BY <1>1 DEF RunUnit
<1>3. /\ Typed /\ g \in Gens /\ u \in UnitIds /\ u[1] = g /\ starts[g] = 0
      /\ units[u] \in Units /\ "asked" \in Phases
  BY <1>1, <1>2 DEF IInv, Typed, CallSound, UnitOf, UnitIds, Phases
<1>4. units[u].phase = "none"
  BY <1>3 DEF IInv, Sound, UnitSound
<1>5. UnitAt(units', u, "asked", units[u].members)
  BY <1>2, <1>3, UnitFacts DEF Units
<1>6. SameOutcome
  BY <1>4, <1>5 DEF SameOutcome, UnitAt, Begun
<1>7. [h \in Gens |-> EffectOf(h)]' = [h \in Gens |-> EffectOf(h)]
  BY <1>6, EffectKept
<1>8. starts' = [starts EXCEPT ![g] = 1] /\ "Rejected" \notin answers[g]
  BY <1>2, <1>3 DEF Typed
<1>9. AMO!Write(g)
  BY <1>2, <1>3, <1>7, <1>8 DEF AMO!Write
<1> QED
  BY <1>3, <1>9 DEF AMO!Next

\* A caller is told that its generation was found only if it was started.
LEMMA AnswerIsTruthful ==
  ASSUME IInv, Answer
  PROVE  [AMO!Next]_(AMO!vars)
<1>1. PICK g : g = call.g
  OBVIOUS
<1>2. /\ UNCHANGED <<units, starts>> /\ call.at = "answer"
      /\ answers' = [answers EXCEPT ![g] =
                       @ \cup IF registry[g].identity THEN {"Settled"} ELSE {}]
  BY <1>1 DEF Answer
<1>3. /\ Typed /\ g \in Gens /\ registry[g] # None /\ RowSound(g)
      /\ identity \in 1..MaxIdentity
  BY <1>1, <1>2 DEF IInv, CallSound, Sound, Typed
<1>4. SameOutcome
  BY <1>2 DEF SameOutcome
<1>5. CASE registry[g].identity
  <2>1. EffectOf(g) = "done"
    BY <1>3, <1>5 DEF RowSound, EffectOf, UnitOf, Begun
  <2>2. [h \in Gens |-> EffectOf(h)]' = [h \in Gens |-> EffectOf(h)]
    BY <1>4, EffectKept
  <2>3. AMO!Answer(g, "Settled")
    BY <1>2, <1>3, <1>5, <2>1, <2>2 DEF AMO!Answer, AMO!Truthful
  <2> QED
    BY <1>3, <2>3 DEF AMO!Next
<1>6. CASE ~registry[g].identity
  <2>1. answers' = answers
    BY <1>2, <1>3, <1>6 DEF Typed
  <2> QED
    BY <1>2, <1>4, <2>1, Stutters
<1> QED
  BY <1>5, <1>6

\* The other steps of the units.
LEMMA OutcomeStands ==
  ASSUME IInv,
         \/ \E u \in DOMAIN units : HelperReaches(u) \/ ProcessSteps(u) \/ UnitStops(u)
         \/ RunTimedOut \/ StopUnit \/ Reboot
  PROVE  SameOutcome /\ UNCHANGED <<starts, answers>>
<1>1. Typed /\ DOMAIN units = UnitIds
  BY DEF IInv, Typed
<1>2. ASSUME NEW u \in UnitIds, NEW x \in Phases, NEW ms, UnitAt(units', u, x, ms),
             x \in Begun <=> units[u].phase \in Begun,
             x = "failed" <=> units[u].phase = "failed"
      PROVE  SameOutcome
  BY <1>2 DEF SameOutcome, UnitAt
<1>3. ASSUME NEW u \in UnitIds, HelperReaches(u) \/ ProcessSteps(u) \/ UnitStops(u)
      PROVE  SameOutcome
  <2>1. units[u] \in Units /\ UnitSound(u)
    BY <1>1 DEF Typed, IInv, Sound
  <2>2. CASE HelperReaches(u)
    <3>1. units[u].phase = "asked" /\ "queued" \in Phases
      BY <2>2 DEF HelperReaches, Phases
    <3>2. UnitAt(units', u, "queued", units[u].members)
      BY <1>1, <2>1, <2>2, <3>1, UnitFacts DEF HelperReaches, Units
    <3> QED
      BY <1>2, <3>1, <3>2 DEF Begun
  <2>3. CASE ProcessSteps(u)
    <3>1. /\ units[u].phase \in Phases /\ units[u].members \in SUBSET {"main", "child"}
      BY <2>1 DEF Units
    <3>2. PICK ms \in SUBSET {"main", "child"} :
            units' = [units EXCEPT ![u].members = ms]
      BY <2>3, <3>1 DEF ProcessSteps
    <3>3. UnitAt(units', u, units[u].phase, ms)
      BY <1>1, <3>1, <3>2, UnitFacts
    <3> QED
      BY <1>2, <3>1, <3>3
  <2>4. CASE UnitStops(u)
    <3>1. /\ units[u].phase = "stopping" /\ "unloaded" \in Phases
          /\ {} \in SUBSET {"main", "child"}
      BY <2>4 DEF UnitStops, Phases
    <3>2. units' = [units EXCEPT ![u].phase = "unloaded", ![u].members = {}]
      BY <2>4, Zenon DEF UnitStops
    <3>3. UnitAt(units', u, "unloaded", {})
      BY <1>1, <3>1, <3>2, UnitFacts, Zenon
    <3> HIDE <3>2
    <3> QED
      BY <1>2, <3>1, <3>3 DEF Begun
  <2> QED
    BY <1>3, <2>2, <2>3, <2>4
<1>4. ASSUME RunTimedOut PROVE SameOutcome
  <2>1. PICK u : u = UnitOf(call.g)
    OBVIOUS
  <2>2. PICK x : x = IF units[u].phase = "asked" THEN "none" ELSE units[u].phase
    OBVIOUS
  <2>3. u \in UnitIds /\ units' = [units EXCEPT ![u].phase = x]
    BY <1>1, <1>4, <2>1, <2>2
       DEF IInv, Typed, CallSound, RunTimedOut, UnitOf, UnitIds
  <2>4. units[u] \in Units /\ x \in Phases
    BY <1>1, <2>2, <2>3 DEF Typed, Units, Phases
  <2>5. UnitAt(units', u, x, units[u].members)
    BY <1>1, <2>3, <2>4, UnitFacts DEF Units
  <2> QED
    BY <1>2, <2>2, <2>3, <2>4, <2>5 DEF Begun
<1>5. ASSUME StopUnit PROVE SameOutcome
  <2>1. PICK u : u = UnitOf(call.g)
    OBVIOUS
  <2>2. /\ u \in UnitIds /\ units' = [units EXCEPT ![u].phase = "stopping"]
        /\ units[u].phase \in {"loaded", "stopping"} /\ "stopping" \in Phases
    BY <1>1, <1>5, <2>1
       DEF IInv, Typed, CallSound, StopUnit, UnitOf, UnitIds, Phases
  <2>3. units[u] \in Units
    BY <1>1, <2>2 DEF Typed
  <2>4. UnitAt(units', u, "stopping", units[u].members)
    BY <1>1, <2>2, <2>3, UnitFacts DEF Units
  <2> QED
    BY <1>2, <2>2, <2>4 DEF Begun
<1>6. ASSUME Reboot PROVE SameOutcome
  BY <1>1, <1>6, RebootFacts DEF SameOutcome, Begun
<1>7. UNCHANGED <<starts, answers>>
  BY DEF HelperReaches, ProcessSteps, UnitStops, RunTimedOut, StopUnit, Reboot
<1> QED
  BY <1>1, <1>3, <1>4, <1>5, <1>6, <1>7

LEMMA OnceStep == IInv /\ [Next]_vars => [AMO!Next]_(AMO!vars)
<1> SUFFICES ASSUME IInv, [Next]_vars PROVE [AMO!Next]_(AMO!vars)
  OBVIOUS
<1>1. ASSUME UNCHANGED <<units, starts, answers>> PROVE [AMO!Next]_(AMO!vars)
  <2>1. SameOutcome
    BY <1>1 DEF SameOutcome
  <2> QED
    BY <1>1, <2>1, Stutters
<1>2. CASE UNCHANGED vars
  BY <1>1, <1>2 DEF vars
<1>3. ASSUME NEW g \in Gens,
             start_generation(g) \/ recover_generation(g) \/ inspect(g) \/ stop(g)
      PROVE  [AMO!Next]_(AMO!vars)
  <2>1. UNCHANGED <<units, starts, answers>>
    BY <1>3 DEF start_generation, recover_generation, inspect, stop
  <2> QED
    BY <1>1, <2>1
<1>4. CASE \/ claim_user_data \/ MarkDispatched \/ RunAnswered \/ ShowUnit
           \/ observe \/ MarkStopping \/ StopAnswered \/ Interrupted
           \/ Reconfigure \/ RegistryRecreated
  <2>1. UNCHANGED <<units, starts, answers>>
    BY <1>4, Zenon
       DEF claim_user_data, MarkDispatched, RunAnswered, ShowUnit, observe,
           MarkStopping, StopAnswered, Interrupted, Reconfigure, RegistryRecreated
  <2> QED
    BY <1>1, <2>1
<1>5. CASE RunUnit \/ Answer
  BY <1>5, RunWrites, AnswerIsTruthful
<1>6. ASSUME NEW u \in DOMAIN units, UnitStarts(u)
      PROVE  [AMO!Next]_(AMO!vars)
  BY <1>6, StartDecides
<1>7. ASSUME \/ \E u \in DOMAIN units : HelperReaches(u) \/ ProcessSteps(u) \/ UnitStops(u)
             \/ RunTimedOut \/ StopUnit \/ Reboot
      PROVE  [AMO!Next]_(AMO!vars)
  BY <1>7, OutcomeStands, Stutters
<1> QED
  BY <1>2, <1>3, <1>4, <1>5, <1>6, <1>7 DEF Next

\* A generation is started at most once across lost answers, crashes, boots of
\* the host and registries made anew, and is said to be found only if it was.
THEOREM NativeRefinesAtMostOnce == Spec => ImplementsAtMostOnce
<1>1. Init => AMO!Init
  <2> SUFFICES ASSUME Init PROVE AMO!Init
    OBVIOUS
  <2>1. ASSUME NEW g \in Gens PROVE EffectOf(g) = "none"
    <3>1. \A i \in 1..MaxIdentity : units[<<g, i>>].phase = "none"
      BY DEF Init, NoUnit
    <3> QED
      BY <3>1 DEF EffectOf
  <2> QED
    BY <2>1 DEF Init, AMO!Init
<1>2. IInv /\ [Next]_vars => [AMO!Next]_(AMO!vars)
  BY OnceStep
<1> QED
  BY <1>1, <1>2, NativeInvariant, PTL DEF Spec, ImplementsAtMostOnce, AMO!Spec

-----------------------------------------------------------------------------
(* The supervisor: the inductive invariant.                                 *)

\* Operations that have made a tree.
Made == {o \in Ops : tree[o].proc # "none"}
NoTree == \A p \in Ops : ~LiveTree(p)

\* Rows are in the order in which they were made, and say which operations can
\* have a process.
Bounded == \E b \in Nat : \A o \in Known : rec[o].seq <= b
RowsTrue ==
  /\ \A o, p \in Known : rec[o].seq = rec[p].seq => o = p
  /\ owner # Nothing => owner.op \in Known /\ owner.seq = rec[owner.op].seq
  /\ \A o \in Made : o \in Known /\ Creates(o) /\ rec[o].state # "IntentRecorded"
  /\ \A o \in Ops : tree[o].kids # "none" => o \in Made
  /\ \A o \in Known : rec[o].state \in {"Started", "Attached"} => rec[o].proc # Nothing
  /\ \A o \in Known : rec[o].state = "Starting" => rec[o].kind = "LaunchNew"

\* The handler works on the latest operation that is not rejected, under its
\* lease.
JobCurrent ==
  job # Nothing =>
    /\ job.o \in Known /\ rec[job.o].lease = lease
    /\ job.o \in NotRejected \/ job.at = "clear"
    /\ \A o \in NotRejected : rec[o].seq <= rec[job.o].seq

\* What is known at a place of the handler.
Gone == {"reserve", "starting", "replaced", "replacement_reserve", "start", "start_refused",
         "stopped", "failed"}
Fresh == {"attach", "stop", "stop_again", "restart", "restart_again"}
Named == {"verify", "retained", "replace", "restart_reserve", "restart_reserve_again",
          "restart_verify", "attach_verify", "stop_verify", "recovered", "reject_fault",
          "reject_refused"}
Place(at, o, p) ==
  /\ at \in Gone => NoTree
  /\ at \in Fresh => o \notin Made
  /\ at \in Named => p # Nothing
  /\ at = "block_refused" => ~LiveTree(o)
  /\ at \in {"reserve", "starting"} => rec[o].kind = "LaunchNew"
  /\ at \in {"starting", "start"} => owner = Nothing \/ owner.seq >= rec[o].seq
  /\ at \in {"replacement_reserve", "start"} => rec[o].proc = Nothing /\ p = Nothing
  /\ at \in {"launching", "verify"} => p = rec[o].proc
  /\ at \in {"reject_fault", "reject_refused"} => p = o /\ o \in Made
JobPlaced == job # Nothing => Place(job.at, job.o, job.proc)

\* A tree that can still be there is the newest that was made by an operation
\* that stands.  That operation and all that stand after it are active and name
\* no other process; each of these had, under its lease, one before it to refer
\* to.
TreeHeld(p) ==
  /\ p \in NotRejected
  /\ \A o \in NotRejected : rec[o].seq >= rec[p].seq =>
       is_active(rec[o]) /\ rec[o].proc \in {Nothing, p}
  /\ \A o \in NotRejected : rec[o].seq > rec[p].seq =>
       \E c \in NotRejected : /\ rec[p].seq <= rec[c].seq /\ rec[c].seq < rec[o].seq
                              /\ rec[c].proc = p /\ rec[c].lease = rec[o].lease
  /\ \A o \in NotRejected \cap Made : rec[o].seq <= rec[p].seq
  /\ owner # Nothing => owner.seq >= rec[p].seq
  /\ job # Nothing => job.proc \in {Nothing, p}

TreesHeld ==
  /\ \A p, q \in Ops : LiveTree(p) /\ LiveTree(q) => p = q
  /\ \A p \in Ops : LiveTree(p) => TreeHeld(p)

LifecycleInv == TypeOK /\ Bounded /\ RowsTrue /\ JobCurrent /\ JobPlaced /\ TreesHeld

-----------------------------------------------------------------------------
(* The constants, and what is greatest.                                     *)

\* A set of numbers below a bound has a greatest.
LEMMA GreatestExists ==
  ASSUME NEW S \in SUBSET Nat, S # {}, NEW b \in Nat, \A x \in S : x <= b
  PROVE  \E x \in S : \A y \in S : y <= x
<1> DEFINE R == {ss \in Nat \X Nat : ss[1] < ss[2]}
<1>1. IsWellFoundedOn(R, Nat)
  BY NatLessThanWellFounded DEF OpToRel
<1> HIDE DEF R
<1> DEFINE T == {b - x : x \in S}
<1>2. T \subseteq Nat /\ T # {}
  <2>1. \A x \in S : b - x \in Nat
    OBVIOUS
  <2>2. PICK x \in S : TRUE
    OBVIOUS
  <2>3. b - x \in T
    OBVIOUS
  <2>4. T \subseteq Nat
    BY <2>1
  <2>5. QED
    BY <2>3, <2>4
<1>3. PICK t \in T : \A u \in T : ~(<<u, t>> \in R)
  BY <1>1, <1>2, WFMin
<1>4. \A u \in T : ~(u < t)
  BY <1>2, <1>3 DEF R
<1>5. PICK x \in S : t = b - x
  BY <1>3
<1>6. \A y \in S : b - y \in T
  OBVIOUS
<1>7. \A y \in S : ~(b - y < b - x)
  BY <1>4, <1>5, <1>6
<1>8. QED
  BY <1>7

LEMMA MaxIs ==
  ASSUME NEW S \in SUBSET Nat, S # {}, NEW b \in Nat, \A x \in S : x <= b
  PROVE  Max(S) \in S /\ \A y \in S : y <= Max(S)
<1>1. \E x \in S : \A y \in S : x >= y
  BY GreatestExists
<1>2. Max(S) \in S /\ \A y \in S : Max(S) >= y
  BY <1>1 DEF Max
<1>3. QED
  BY <1>2

-----------------------------------------------------------------------------
(* Types.                                                                   *)

LEMMA RowTyped ==
  ASSUME TypeOK, NEW o \in Known
  PROVE  /\ o \in Ops /\ rec[o] \in OperationRows
         /\ rec[o].kind \in LifecycleActions /\ rec[o].profile \in Profiles \cup {Nothing}
         /\ rec[o].target \in Ops \cup {Nothing} /\ rec[o].seq \in Nat
         /\ rec[o].req \in 1..MaxEpoch /\ rec[o].auth \in 1..MaxEpoch
         /\ rec[o].lease \in Leases /\ rec[o].state \in States
         /\ rec[o].proc \in Ops \cup {Nothing}
<1>1. o \in Ops /\ rec[o] \in OperationRows
  BY DEF TypeOK, Known
<1>2. QED
  BY <1>1 DEF OperationRows

LEMMA OwnerTyped ==
  ASSUME TypeOK, owner # Nothing
  PROVE  /\ owner.op \in Ops /\ owner.seq \in Nat /\ owner.profile \in Profiles \cup {Nothing}
         /\ owner.proc \in Ops \cup {Nothing}
         /\ owner = [op |-> owner.op, seq |-> owner.seq, profile |-> owner.profile,
                     proc |-> owner.proc]
<1>1. owner \in OwnershipRows
  BY DEF TypeOK
<1>2. QED
  BY <1>1 DEF OwnershipRows

LEMMA JobTyped ==
  ASSUME TypeOK, job # Nothing
  PROVE  /\ job.at \in Places /\ job.o \in Ops /\ job.proc \in Ops \cup {Nothing}
         /\ job.profile \in Profiles \cup {Nothing}
         /\ job = [at |-> job.at, o |-> job.o, proc |-> job.proc, profile |-> job.profile]
<1>1. job \in Jobs
  BY DEF TypeOK
<1>2. QED
  BY <1>1 DEF Jobs

LEMMA TreeTyped ==
  ASSUME TypeOK, NEW o \in Ops
  PROVE  /\ tree[o].proc \in {"none", "requested", "running", "exited"}
         /\ tree[o].kids \in {"none", "approved", "foreign"} /\ tree[o].good \in BOOLEAN
         /\ tree[o] = [proc |-> tree[o].proc, kids |-> tree[o].kids, good |-> tree[o].good]
<1>1. tree[o] \in Trees
  BY DEF TypeOK
<1>2. QED
  BY <1>1 DEF Trees

\* A tree that can still be there was made.
LEMMA LiveMade ==
  ASSUME RowsTrue, NEW p \in Ops, LiveTree(p)
  PROVE  p \in Made
BY DEF RowsTrue, LiveTree, Made

\* The latest of some rows.
LEMMA LatestIs ==
  ASSUME TypeOK, Bounded, NEW S \in SUBSET Known, S # {}
  PROVE  Latest(S) \in S /\ \A p \in S : rec[p].seq <= rec[Latest(S)].seq
<1> DEFINE Q == {rec[o].seq : o \in S}
<1>1. PICK b \in Nat : \A o \in Known : rec[o].seq <= b
  BY DEF Bounded
<1>2. Q \subseteq Nat /\ Q # {} /\ \A x \in Q : x <= b
  BY <1>1, RowTyped
<1> HIDE DEF Q
<1>3. PICK x \in Q : \A y \in Q : y <= x
  BY <1>2, GreatestExists
<1> USE DEF Q
<1>4. PICK o \in S : x = rec[o].seq
  BY <1>3
<1>5. \A p \in S : rec[p].seq <= rec[o].seq
  BY <1>3, <1>4
<1>6. QED
  BY <1>5 DEF Latest

\* A new row comes after all others.
LEMMA IssuedLast ==
  ASSUME TypeOK, Bounded
  PROVE  /\ issue_sequence \in Nat /\ \A o \in Known : rec[o].seq < issue_sequence
<1> DEFINE Q == {0} \cup {rec[o].seq : o \in Known}
<1>1. PICK b \in Nat : \A o \in Known : rec[o].seq <= b
  BY DEF Bounded
<1>2. Q \subseteq Nat /\ Q # {} /\ \A x \in Q : x <= b
  BY <1>1, RowTyped
<1>3. \A o \in Known : rec[o].seq \in Q
  OBVIOUS
<1>4. issue_sequence = Max(Q) + 1
  BY DEF issue_sequence
<1> HIDE DEF Q
<1>5. Max(Q) \in Q /\ \A y \in Q : y <= Max(Q)
  BY <1>2, MaxIs
<1>6. Max(Q) \in Nat /\ \A o \in Known : rec[o].seq <= Max(Q) /\ rec[o].seq \in Nat
  BY <1>2, <1>3, <1>5, RowTyped
<1>7. QED
  BY <1>4, <1>6

LEMMA EpochTyped ==
  ASSUME TypeOK
  PROVE  current_authority_epoch \in 1..MaxEpoch
<1> DEFINE Q == {1} \cup {rec[o].auth : o \in Known}
<1>1. MaxEpoch \in Nat \ {0}
  BY LifecycleConstants
<1>2. \A o \in Known : rec[o].auth \in 1..MaxEpoch
  BY RowTyped
<1>3. Q \subseteq 1..MaxEpoch /\ Q # {}
  BY <1>1, <1>2
<1>4. current_authority_epoch = Max(Q)
  BY DEF current_authority_epoch
<1> HIDE DEF Q
<1>5. Q \in SUBSET Nat /\ \A x \in Q : x <= MaxEpoch
  BY <1>1, <1>3
<1>6. QED
  BY <1>1, <1>3, <1>4, <1>5, MaxIs

\* The profile an operation runs under.
LEMMA ProfileTyped ==
  ASSUME TypeOK, NEW o \in Known
  PROVE  profile_for_operation(o) \in Profiles \cup {Nothing}
<1> DEFINE S == {c \in Known : rec[c].proc # Nothing /\ is_active(rec[c]) /\ Creates(c)}
<1>1. MaxOp \in Nat \ {0}
  BY LifecycleConstants
<1>2. S \in SUBSET Nat /\ \A x \in S : x <= MaxOp
  BY <1>1 DEF Known, Ops
<1>3. S # {} => Max(S) \in Known
  BY <1>1, <1>2, MaxIs
<1>4. S # {} => rec[Max(S)].profile \in Profiles \cup {Nothing}
  BY <1>3, RowTyped
<1>5. rec[o].profile \in Profiles \cup {Nothing}
  BY RowTyped
<1>6. owner # Nothing => owner.profile \in Profiles \cup {Nothing}
  BY OwnerTyped
<1>7. QED
  BY <1>4, <1>5, <1>6 DEF profile_for_operation

-----------------------------------------------------------------------------
(* What a step must keep.                                                   *)

\* The trees of a step are those before it, or fewer.
Shrinks ==
  /\ tree' \in [Ops -> Trees]
  /\ Made' = Made
  /\ \A o \in Ops : LiveTree(o)' => LiveTree(o)
  /\ \A o \in Ops : tree'[o].kids # "none" => o \in Made

\* The handler goes on with its operation.
JobNext ==
  /\ job' \in Jobs \cup {Nothing}
  /\ job' # Nothing => job # Nothing /\ job'.o = job.o /\ lease' = lease
  /\ \A p \in Ops : LiveTree(p) /\ job' # Nothing => job'.proc \in {Nothing, p}

\* No live tree is newer than the owner.
OwnerNext ==
  /\ owner' \in OwnershipRows \cup {Nothing}
  /\ owner' # Nothing => owner'.op \in Known /\ owner'.seq = rec[owner'.op].seq
  /\ \A p \in Ops : LiveTree(p) /\ owner' # Nothing => owner'.seq >= rec[p].seq

LEMMA SameRows ==
  ASSUME LifecycleInv, rec' = rec, lease' \in Leases, Shrinks, JobNext, OwnerNext, JobPlaced',
         job' # Nothing => job.o \in NotRejected \/ job'.at = "clear"
  PROVE  LifecycleInv'
<1>1. Known' = Known /\ NotRejected' = NotRejected
  BY DEF Known, NotRejected
<1>2. \A o : Creates(o)' = Creates(o)
  BY DEF Creates
<1>3. TypeOK'
  BY DEF LifecycleInv, TypeOK, Shrinks, JobNext, OwnerNext
<1>4. Bounded'
  BY <1>1 DEF LifecycleInv, Bounded
<1>5. RowsTrue'
  BY <1>1, <1>2 DEF LifecycleInv, RowsTrue, Shrinks, OwnerNext
<1>6. JobCurrent'
  BY <1>1 DEF LifecycleInv, JobCurrent, JobNext
<1>7. \A p \in Ops : LiveTree(p)' => LiveTree(p)
  BY DEF Shrinks
<1>8. ASSUME NEW p \in Ops, LiveTree(p)' PROVE TreeHeld(p)'
  <2>1. TreeHeld(p)
    BY <1>7, <1>8 DEF LifecycleInv, TreesHeld
  <2>2. job' # Nothing => job'.proc \in {Nothing, p}
    BY <1>7, <1>8 DEF JobNext
  <2>3. owner' # Nothing => owner'.seq >= rec[p].seq
    BY <1>7, <1>8 DEF OwnerNext
  <2>4. QED
    BY <1>1, <2>1, <2>2, <2>3 DEF TreeHeld, Shrinks
<1>9. TreesHeld'
  BY <1>7, <1>8 DEF LifecycleInv, TreesHeld
<1>10. QED
  BY <1>3, <1>4, <1>5, <1>6, <1>9 DEF LifecycleInv

\* The row of the operation under way changes.
RowNext(o, r) ==
  /\ r \in OperationRows
  /\ r.kind = rec[o].kind /\ r.seq = rec[o].seq /\ r.lease = rec[o].lease
  /\ r.state = "IntentRecorded" => rec[o].state = "IntentRecorded"
  /\ r.state \in {"Started", "Attached"} => r.proc # Nothing
  /\ r.state = "Starting" => r.kind = "LaunchNew"
  /\ \A p \in Ops : LiveTree(p) =>
       \/ r.state = "Rejected" /\ p # o
       \/ is_active(r) /\ r.proc \in {Nothing, p}

LEMMA OneRow ==
  ASSUME LifecycleInv, NEW o \in NotRejected, \A c \in NotRejected : rec[c].seq <= rec[o].seq,
         NEW r, RowNext(o, r), rec' = [rec EXCEPT ![o] = r],
         UNCHANGED <<owner, lease, tree>>, JobNext, JobPlaced',
         job' # Nothing => job.o = o /\ (r.state # "Rejected" \/ job'.at = "clear")
  PROVE  LifecycleInv'
<1> USE DEF RowNext
<1>1. o \in Known /\ o \in Ops /\ rec[o].state # "Rejected"
  BY DEF NotRejected, Known
<1>2. r # Nothing
  BY NothingIsNoRow
<1>3. /\ rec' \in [Ops -> OperationRows \cup {Nothing}]
      /\ rec'[o] = r /\ \A c \in Ops \ {o} : rec'[c] = rec[c]
  BY <1>1 DEF LifecycleInv, TypeOK
<1>4. Known' = Known
  BY <1>1, <1>2, <1>3 DEF Known
<1>5. \A c \in Known : rec'[c].seq = rec[c].seq /\ rec'[c].kind = rec[c].kind
                       /\ rec'[c].lease = rec[c].lease
  BY <1>3 DEF Known
<1>6. NotRejected' \subseteq NotRejected /\ NotRejected \ {o} \subseteq NotRejected'
  BY <1>1, <1>3, <1>4 DEF NotRejected, Known
<1>7. r.state # "Rejected" => o \in NotRejected'
  BY <1>1, <1>3, <1>4 DEF NotRejected
<1>8. Made' = Made /\ \A p : LiveTree(p)' = LiveTree(p)
  BY DEF Made, LiveTree
<1>9. TypeOK'
  BY <1>3 DEF LifecycleInv, TypeOK, JobNext
<1>10. Bounded'
  BY <1>4, <1>5 DEF LifecycleInv, Bounded
<1>11. RowsTrue'
  <2>1. \A c, d \in Known : rec'[c].seq = rec'[d].seq => c = d
    BY <1>5 DEF LifecycleInv, RowsTrue
  <2>2. owner # Nothing => owner.op \in Known /\ owner.seq = rec'[owner.op].seq
    BY <1>5 DEF LifecycleInv, RowsTrue
  <2>3. \A c \in Made : c \in Known /\ Creates(c)' /\ rec'[c].state # "IntentRecorded"
    <3>1. \A c \in Made : c \in Known /\ Creates(c) /\ rec[c].state # "IntentRecorded"
      BY DEF LifecycleInv, RowsTrue
    <3>2. \A c \in Known : c \in Ops
      BY DEF Known
    <3>3. QED
      BY <1>3, <1>5, <3>1, <3>2 DEF Creates
  <2>4. \A c \in Known : rec'[c].state \in {"Started", "Attached"} => rec'[c].proc # Nothing
    BY <1>3 DEF LifecycleInv, RowsTrue, Known
  <2>5. \A c \in Known : rec'[c].state = "Starting" => rec'[c].kind = "LaunchNew"
    BY <1>3 DEF LifecycleInv, RowsTrue, Known
  <2>6. \A c \in Ops : tree[c].kids # "none" => c \in Made
    BY DEF LifecycleInv, RowsTrue
  <2>7. QED
    BY <1>4, <1>8, <2>1, <2>2, <2>3, <2>4, <2>5, <2>6 DEF RowsTrue
<1>12. JobCurrent'
  <2>1. ASSUME job' # Nothing
        PROVE  /\ job'.o = o /\ rec'[o].lease = lease
               /\ o \in NotRejected' \/ job'.at = "clear"
               /\ \A c \in NotRejected' : rec'[c].seq <= rec'[o].seq
    <3>1. job # Nothing /\ job'.o = o /\ job.o = o
      BY <2>1 DEF JobNext
    <3>2. rec[o].lease = lease
      BY <3>1 DEF LifecycleInv, JobCurrent
    <3>3. \A c \in NotRejected' : c \in Known
      BY <1>6 DEF NotRejected
    <3>4. QED
      BY <1>1, <1>5, <1>6, <1>7, <2>1, <3>1, <3>2, <3>3
  <2>2. QED
    BY <1>1, <1>4, <2>1 DEF JobCurrent
<1>13. TreesHeld'
  <2>1. ASSUME NEW p \in Ops, LiveTree(p) PROVE TreeHeld(p)'
    <3>1. TreeHeld(p) /\ p \in Made /\ p \in Known
      BY <2>1, LiveMade DEF LifecycleInv, TreesHeld, RowsTrue
    <3>2. p \in NotRejected'
      BY <1>6, <1>7, <2>1, <3>1 DEF TreeHeld, is_active
    <3>3. ASSUME NEW c \in NotRejected', rec'[c].seq >= rec'[p].seq
          PROVE  is_active(rec'[c]) /\ rec'[c].proc \in {Nothing, p}
      <4>1. c \in NotRejected /\ c \in Known /\ rec[c].seq >= rec[p].seq
        BY <1>5, <1>6, <3>1, <3>3 DEF NotRejected
      <4>2. CASE c = o
        BY <1>3, <2>1, <4>2, <3>3 DEF NotRejected
      <4>3. CASE c # o
        BY <1>3, <3>1, <4>1, <4>3 DEF TreeHeld, Known
      <4>4. QED
        BY <4>2, <4>3
    <3>4. ASSUME NEW d \in NotRejected', rec'[d].seq > rec'[p].seq
          PROVE  \E c \in NotRejected' :
                   /\ rec'[p].seq <= rec'[c].seq /\ rec'[c].seq < rec'[d].seq
                   /\ rec'[c].proc = p /\ rec'[c].lease = rec'[d].lease
      <4>1. d \in NotRejected /\ d \in Known /\ rec[d].seq > rec[p].seq
        BY <1>5, <1>6, <3>1, <3>4 DEF NotRejected
      <4>2. PICK c \in NotRejected : /\ rec[p].seq <= rec[c].seq /\ rec[c].seq < rec[d].seq
                                     /\ rec[c].proc = p /\ rec[c].lease = rec[d].lease
        BY <3>1, <4>1 DEF TreeHeld
      <4>3. rec[d].seq <= rec[o].seq /\ rec[d].seq \in Nat /\ rec[o].seq \in Nat
            /\ rec[c].seq \in Nat /\ c \in Known
        BY <1>1, <4>1, RowTyped DEF LifecycleInv, NotRejected
      <4>4. c # o
        BY <4>2, <4>3
      <4>5. c \in NotRejected' /\ rec'[c].proc = rec[c].proc
        BY <1>3, <1>6, <4>3, <4>4 DEF Known
      <4>6. QED
        BY <1>5, <3>1, <4>1, <4>2, <4>3, <4>5
    <3>5. \A c \in NotRejected' \cap Made : rec'[c].seq <= rec'[p].seq
      <4>1. \A c \in NotRejected' \cap Made : c \in Known /\ rec[c].seq <= rec[p].seq
        BY <1>6, <3>1 DEF TreeHeld, NotRejected
      <4>2. QED
        BY <1>5, <3>1, <4>1
    <3>6. owner # Nothing => owner.seq >= rec'[p].seq
      BY <1>5, <3>1 DEF TreeHeld
    <3>7. job' # Nothing => job'.proc \in {Nothing, p}
      BY <2>1 DEF JobNext
    <3>8. QED
      BY <1>8, <3>2, <3>3, <3>4, <3>5, <3>6, <3>7 DEF TreeHeld
  <2>2. \A p, q \in Ops : LiveTree(p) /\ LiveTree(q) => p = q
    BY DEF LifecycleInv, TreesHeld
  <2>3. QED
    BY <1>8, <2>1, <2>2 DEF TreesHeld
<1>14. QED
  BY <1>9, <1>10, <1>11, <1>12, <1>13 DEF LifecycleInv

-----------------------------------------------------------------------------
(* The pieces of a handler.                                                 *)

\* The operation under way, while it is not rejected.
LEMMA JobIs ==
  ASSUME LifecycleInv, job # Nothing
  PROVE  /\ job.o \in Known /\ job.o \in Ops /\ rec[job.o].lease = lease
         /\ job.o \in NotRejected \/ job.at = "clear"
         /\ \A c \in NotRejected : rec[c].seq <= rec[job.o].seq
         /\ Place(job.at, job.o, job.proc)
         /\ \A p \in Ops : LiveTree(p) => job.proc \in {Nothing, p}
BY DEF LifecycleInv, JobCurrent, JobPlaced, TreesHeld, TreeHeld, Known

\* A live tree is older than the operation under way, or its own.
LEMMA LiveBefore ==
  ASSUME LifecycleInv, job # Nothing, NEW p \in Ops, LiveTree(p)
  PROVE  /\ p \in NotRejected /\ p \in Known /\ p \in Made /\ Creates(p)
         /\ rec[p].seq <= rec[job.o].seq
         /\ job.o \in NotRejected => /\ is_active(rec[job.o])
                                     /\ rec[job.o].proc \in {Nothing, p}
                                     /\ job.o \in Made => job.o = p
<1>1. TreeHeld(p) /\ p \in Made
  BY LiveMade DEF LifecycleInv, TreesHeld
<1>2. p \in NotRejected /\ p \in Known /\ Creates(p)
  BY <1>1 DEF TreeHeld, LifecycleInv, RowsTrue
<1>3. rec[p].seq <= rec[job.o].seq
  BY <1>2, JobIs
<1>4. rec[p].seq \in Nat /\ rec[job.o].seq \in Nat /\ job.o \in Known
  BY <1>2, JobIs, RowTyped DEF LifecycleInv
<1>5. ASSUME job.o \in NotRejected
      PROVE  /\ is_active(rec[job.o]) /\ rec[job.o].proc \in {Nothing, p}
             /\ job.o \in Made => job.o = p
  <2>1. is_active(rec[job.o]) /\ rec[job.o].proc \in {Nothing, p}
    BY <1>1, <1>3, <1>4, <1>5 DEF TreeHeld
  <2>2. job.o \in Made => rec[job.o].seq <= rec[p].seq
    BY <1>1, <1>5 DEF TreeHeld
  <2>3. job.o \in Made => rec[job.o].seq = rec[p].seq
    BY <1>3, <1>4, <2>2
  <2>4. QED
    BY <1>2, <1>4, <2>1, <2>3 DEF LifecycleInv, RowsTrue
<1>6. QED
  BY <1>1, <1>2, <1>3, <1>5

\* Nothing but the handler changes.
LEMMA JobMoves ==
  ASSUME LifecycleInv, UNCHANGED <<rec, owner, lease, tree>>, JobNext, JobPlaced',
         job' # Nothing => job.o \in NotRejected \/ job'.at = "clear"
  PROVE  LifecycleInv'
<1>1. Shrinks
  BY DEF Shrinks, LifecycleInv, TypeOK, Made, LiveTree, RowsTrue
<1>2. OwnerNext
  BY DEF OwnerNext, LifecycleInv, TypeOK, RowsTrue, TreesHeld, TreeHeld
<1>3. lease' \in Leases
  BY DEF LifecycleInv, TypeOK
<1>4. QED
  BY <1>1, <1>2, <1>3, SameRows

\* The handler ends.
LEMMA Ends ==
  ASSUME LifecycleInv, job' = Nothing
  PROVE  JobNext /\ JobPlaced'
<1>1. JobNext
  BY DEF JobNext
<1>2. JobPlaced'
  BY DEF JobPlaced
<1>3. QED
  BY <1>1, <1>2

LEMMA GivesUp == ASSUME LifecycleInv, GiveUp PROVE LifecycleInv'
<1>1. JobNext /\ JobPlaced' /\ job' = Nothing /\ UNCHANGED <<rec, owner, lease, tree>>
  BY Ends DEF GiveUp
<1>2. QED
  BY <1>1, JobMoves

\* What a place asks depends on the rows, the owner and the trees only.
LEMMA PlaceSame ==
  ASSUME UNCHANGED <<rec, owner, tree>>, NEW at, NEW o, NEW p, Place(at, o, p)
  PROVE  Place(at, o, p)'
BY DEF Place, NoTree, LiveTree, Made

\* The handler goes on at another place, with another process or profile.
LEMMA GoesOn ==
  ASSUME LifecycleInv, job # Nothing, job.o \in NotRejected, NEW at, at \in Places,
         NEW p \in Ops \cup {Nothing}, NEW profile \in Profiles \cup {Nothing},
         job' = [at |-> at, o |-> job.o, proc |-> p, profile |-> profile],
         UNCHANGED <<rec, owner, lease, tree>>, Place(at, job.o, p),
         \A q \in Ops : LiveTree(q) => p \in {Nothing, q}
  PROVE  LifecycleInv'
<1>1. job.o \in Ops
  BY JobIs
<1>2. job' \in Jobs /\ job'.at = at /\ job'.o = job.o /\ job'.proc = p
  BY <1>1 DEF Jobs
<1>3. JobNext
  BY <1>2 DEF JobNext
<1>4. PICK o : o = job.o
  OBVIOUS
<1>5. Place(at, o, p)'
  BY <1>4, PlaceSame
<1>6. JobPlaced'
  BY <1>2, <1>4, <1>5 DEF JobPlaced
<1>7. QED
  BY <1>3, <1>6, JobMoves

\* Then: the handler keeps its process.
LEMMA ThenGoes ==
  ASSUME LifecycleInv, job # Nothing, job.o \in NotRejected, NEW at,
         at \in Places \cup {"done"},
         Then(at), UNCHANGED <<rec, owner, lease, tree>>, Place(at, job.o, job.proc)
  PROVE  LifecycleInv'
<1>1. CASE at = "done"
  BY <1>1, GivesUp DEF Then, GiveUp
<1>2. CASE at # "done"
  <2>1. job = [at |-> job.at, o |-> job.o, proc |-> job.proc, profile |-> job.profile]
        /\ job.proc \in Ops \cup {Nothing} /\ job.profile \in Profiles \cup {Nothing}
    BY JobTyped DEF LifecycleInv
  <2>2. job' = [at |-> at, o |-> job.o, proc |-> job.proc, profile |-> job.profile]
    BY <1>2, <2>1 DEF Then
  <2>3. \A q \in Ops : LiveTree(q) => job.proc \in {Nothing, q}
    BY JobIs
  <2>4. at \in Places
    BY <1>2
  <2>5. QED
    BY <2>1, <2>2, <2>3, <2>4, GoesOn
<1>3. QED
  BY <1>1, <1>2

\* Places that ask nothing.
Free == {"own", "owner_process", "cleanup_owner", "cleanup_record", "clear", "block_fault",
         "await", "stopping", "restarting", "done"}
LEMMA FreePlace ==
  ASSUME NEW at, at \in Free, NEW o, NEW p
  PROVE  at \in Places \cup {"done"} /\ Place(at, o, p)
<1>1. at \in Places \cup {"done"}
  BY DEF Free, Places
<1>2. Place(at, o, p)
  BY DEF Free, Place, Gone, Fresh, Named
<1>3. QED
  BY <1>1, <1>2

LEMMA ThenFree ==
  ASSUME LifecycleInv, job # Nothing, job.o \in NotRejected, NEW at, at \in Free,
         Then(at), UNCHANGED <<rec, owner, lease, tree>>
  PROVE  LifecycleInv'
BY FreePlace, ThenGoes

\* The state and the process of the operation change.
LEMMA Persists ==
  ASSUME LifecycleInv, job # Nothing, job.o \in NotRejected, NEW state \in States,
         NEW p \in Ops \cup {Nothing}, NEW at,
         at \in Free \cup {"start", "replacement_reserve"},
         persist_update(state, p, at),
         state # "IntentRecorded", state \in {"Started", "Attached"} => p # Nothing,
         state = "Starting" => rec[job.o].kind = "LaunchNew",
         state = "Rejected" => at \in {"clear", "done"} /\ ~LiveTree(job.o),
         state \in {"Stopped", "Failed"} => NoTree,
         at \in {"start", "replacement_reserve"} => NoTree /\ p = Nothing,
         at = "start" => owner = Nothing \/ owner.seq >= rec[job.o].seq,
         \A q \in Ops : LiveTree(q) => p \in {Nothing, q}
  PROVE  LifecycleInv'
<1> DEFINE o == job.o
           r == [rec[o] EXCEPT !.state = state, !.proc = p]
<1>1. /\ o \in Known /\ o \in Ops /\ rec[o] \in OperationRows
      /\ \A c \in NotRejected : rec[c].seq <= rec[o].seq
  BY JobIs, RowTyped DEF LifecycleInv
<1>2. rec \in [Ops -> OperationRows \cup {Nothing}]
  BY DEF LifecycleInv, TypeOK
<1>3. rec' = [rec EXCEPT ![o] = r] /\ UNCHANGED <<owner, lease, tree>>
  BY <1>1, <1>2 DEF persist_update
<1>4. /\ r \in OperationRows /\ r.kind = rec[o].kind /\ r.seq = rec[o].seq
      /\ r.lease = rec[o].lease /\ r.state = state /\ r.proc = p
  BY <1>1 DEF OperationRows
<1> HIDE DEF r
<1>5. RowNext(o, r)
  BY <1>4 DEF RowNext, is_active, NoTree
<1>6. job = [at |-> job.at, o |-> job.o, proc |-> job.proc, profile |-> job.profile]
      /\ job.profile \in Profiles \cup {Nothing}
  BY JobTyped DEF LifecycleInv
<1>7. at \in Places \cup {"done"}
  BY DEF Free, Places
<1>8. \/ at = "done" /\ job' = Nothing
      \/ /\ at # "done" /\ job' = [at |-> at, o |-> o, proc |-> p, profile |-> job.profile]
         /\ job' \in Jobs
  BY <1>1, <1>6, <1>7 DEF persist_update, Then, ThenWith, Jobs
<1>9. JobNext
  BY <1>3, <1>8 DEF JobNext
<1>10. JobPlaced'
  <2>1. CASE job' = Nothing
    BY <2>1 DEF JobPlaced
  <2>2. CASE at \in Free /\ at # "done"
    BY <1>8, <2>2 DEF JobPlaced, Free, Place, Gone, Fresh, Named
  <2>3. CASE at \in {"start", "replacement_reserve"}
    <3>1. NoTree' /\ rec'[o].proc = Nothing /\ rec'[o].seq = rec[o].seq
      BY <1>1, <1>2, <1>3, <1>4, <2>3 DEF NoTree, LiveTree
    <3>2. job'.at = at /\ job'.o = o /\ job'.proc = Nothing
      BY <1>8, <2>3
    <3>3. at = "start" => owner' = Nothing \/ owner'.seq >= rec'[o].seq
      BY <1>3, <3>1
    <3>4. QED
      BY <2>3, <3>1, <3>2, <3>3 DEF JobPlaced, Place, Gone, Fresh, Named
  <2>4. QED
    BY <1>8, <2>1, <2>2, <2>3
<1>11. job' # Nothing => job.o = o /\ (r.state # "Rejected" \/ job'.at = "clear")
  BY <1>4, <1>8
<1>12. QED
  BY <1>1, <1>3, <1>5, <1>9, <1>10, <1>11, OneRow

\* The handler goes on with its process.
LEMMA ThenJob ==
  ASSUME LifecycleInv, job # Nothing, NEW at, at \in Places, Then(at)
  PROVE  job' \in Jobs /\ job'.at = at /\ job'.o = job.o /\ job'.proc = job.proc
<1>1. /\ job = [at |-> job.at, o |-> job.o, proc |-> job.proc, profile |-> job.profile]
      /\ job.profile \in Profiles \cup {Nothing} /\ job.proc \in Ops \cup {Nothing}
      /\ job.o \in Ops
  BY JobTyped DEF LifecycleInv
<1>2. at # "done"
  BY DEF Places
<1>3. job' = [at |-> at, o |-> job.o, proc |-> job.proc, profile |-> job.profile]
  BY <1>1, <1>2 DEF Then
<1>4. QED
  BY <1>1, <1>3 DEF Jobs

\* The same, and the trees shrink.
LEMMA ShrinksAndGoes ==
  ASSUME LifecycleInv, job # Nothing, job.o \in NotRejected, Shrinks,
         UNCHANGED <<rec, owner, lease>>, NEW at, at \in Places, Then(at), JobPlaced'
  PROVE  LifecycleInv'
<1>1. job' \in Jobs /\ job'.o = job.o /\ job'.proc = job.proc
  BY ThenJob
<1>2. JobNext
  BY <1>1, JobIs DEF JobNext
<1>3. OwnerNext /\ lease' \in Leases
  BY DEF OwnerNext, LifecycleInv, TypeOK, RowsTrue, TreesHeld, TreeHeld
<1>4. QED
  BY <1>2, <1>3, SameRows

\* A tree that was made changes and is no more than it was.
LEMMA TreeLess ==
  ASSUME LifecycleInv, NEW p \in Made, NEW t \in Trees, t.proc # "none",
         t.proc \in {"requested", "running"} \/ t.kids # "none" => LiveTree(p),
         tree' = [tree EXCEPT ![p] = t]
  PROVE  Shrinks
<1>1. tree \in [Ops -> Trees] /\ p \in Ops /\ tree[p].proc # "none"
  BY DEF LifecycleInv, TypeOK, Made
<1>2. /\ tree' \in [Ops -> Trees] /\ tree'[p] = t
      /\ \A q \in Ops \ {p} : tree'[q] = tree[q]
  BY <1>1
<1>3. Made' = Made
  BY <1>1, <1>2 DEF Made
<1>4. \A q \in Ops : LiveTree(q)' => LiveTree(q)
  BY <1>2 DEF LiveTree
<1>5. \A q \in Ops : tree'[q].kids # "none" => q \in Made
  BY <1>2 DEF LifecycleInv, RowsTrue
<1>6. QED
  BY <1>2, <1>3, <1>4, <1>5 DEF Shrinks

\* After a stop of its process and the look at the descendants the handler goes
\* on, and where it is certain that they are gone nothing is left.
LEMMA Looks ==
  ASSUME LifecycleInv, job # Nothing, job.o \in NotRejected, NEW p \in Made, job.proc = p,
         NEW faulted, NEW survived, NEW gone,
         faulted \in {"cleanup_owner", "block_fault"}, survived = "cleanup_owner",
         gone \in {"block_fault", "block_refused", "stopped", "replaced", "failed"},
         StopAndLook(p, faulted, survived, gone)
  PROVE  LifecycleInv'
<1> DEFINE exited(kids) == [proc |-> "exited", kids |-> kids, good |-> tree[p].good]
<1>1. PICK o \in Ops : job.o = o
  BY JobIs
<1>2. tree \in [Ops -> Trees] /\ p \in Ops /\ tree[p].proc # "none"
      /\ tree[p] = [proc |-> tree[p].proc, kids |-> tree[p].kids, good |-> tree[p].good]
      /\ tree[p].kids \in {"none", "approved", "foreign"} /\ tree[p].good \in BOOLEAN
  BY TreeTyped DEF LifecycleInv, TypeOK, Made
<1>3. \A q \in Ops : LiveTree(q) => q = p
  <2>1. p # Nothing
    BY <1>2, LifecycleConstants
  <2>2. QED
    BY <2>1, JobIs
<1>4. ASSUME NEW kids \in {"none", tree[p].kids}, tree' = [tree EXCEPT ![p] = exited(kids)]
      PROVE  Shrinks /\ (kids = "none" => NoTree')
  <2>1. exited(kids) \in Trees /\ exited(kids).proc = "exited" /\ exited(kids).kids = kids
    BY <1>2 DEF Trees
  <2>2. kids # "none" => LiveTree(p)
    BY <1>4 DEF LiveTree
  <2>3. tree'[p] = exited(kids)
    BY <1>2, <1>4
  <2> HIDE DEF exited
  <2>4. Shrinks
    BY <1>4, <2>1, <2>2, TreeLess
  <2>5. kids = "none" => NoTree'
    BY <1>3, <2>1, <2>3, <2>4 DEF Shrinks, NoTree, LiveTree
  <2>6. QED
    BY <2>4, <2>5
<1>10. UNCHANGED <<rec, owner, lease>>
  BY DEF StopAndLook
<1>5. CASE Then(faulted) /\ tree' = tree
  <2>1. faulted \in Free
    BY DEF Free
  <2>2. QED
    BY <1>5, <1>10, <2>1, ThenFree
<1>6. ASSUME Then(faulted), NEW kids \in {"none", tree[p].kids},
             tree' = Exited(p, kids)
      PROVE  LifecycleInv'
  <2>1. tree' = [tree EXCEPT ![p] = exited(kids)]
    BY <1>6 DEF Exited
  <2>2. Shrinks
    BY <1>4, <2>1
  <2>3. faulted \in Places
    BY DEF Places
  <2>4. JobPlaced'
    BY <1>6, <2>3, ThenJob DEF JobPlaced, Place, Gone, Fresh, Named
  <2>5. QED
    BY <1>6, <1>10, <2>2, <2>3, <2>4, ShrinksAndGoes
<1>7. CASE Then(survived) /\ tree' = Exited(p, tree[p].kids)
  <2>1. tree' = [tree EXCEPT ![p] = exited(tree[p].kids)]
    BY <1>7 DEF Exited
  <2>2. Shrinks
    BY <1>4, <2>1
  <2>3. survived \in Places
    BY DEF Places
  <2>4. JobPlaced'
    BY <1>7, <2>3, ThenJob DEF JobPlaced, Place, Gone, Fresh, Named
  <2>5. QED
    BY <1>7, <1>10, <2>2, <2>3, <2>4, ShrinksAndGoes
<1>8. CASE Then(gone) /\ tree' = Exited(p, "none")
  <2>1. tree' = [tree EXCEPT ![p] = exited("none")]
    BY <1>8 DEF Exited
  <2>2. Shrinks /\ NoTree'
    BY <1>4, <2>1
  <2>3. gone \in Places
    BY DEF Places
  <2>4. job'.at = gone /\ job'.o \in Ops
    BY <1>1, <1>8, <2>3, ThenJob
  <2>5. JobPlaced'
    BY <2>2, <2>4 DEF JobPlaced, Place, Gone, Fresh, Named, NoTree
  <2>6. QED
    BY <1>8, <1>10, <2>2, <2>3, <2>5, ShrinksAndGoes
<1>9. QED
  BY <1>5, <1>6, <1>7, <1>8 DEF StopAndLook

\* The operation takes the ownership, or leaves it to a newer one.
LEMMA Owns ==
  ASSUME LifecycleInv, job # Nothing, job.o \in NotRejected, NEW row \in OwnershipRows,
         row.op \in Known, row.seq = rec[row.op].seq,
         \A q \in Ops : LiveTree(q) => row.seq >= rec[q].seq,
         NEW at, at \in {"starting", "replace", "start", "done", "cleanup_record"},
         at \in {"starting", "start"} => NoTree /\ row.seq = rec[job.o].seq,
         at = "starting" => rec[job.o].kind = "LaunchNew",
         at = "start" => rec[job.o].proc = Nothing /\ job.proc = Nothing,
         at = "replace" => job.proc # Nothing,
         UpdateOwner(row, at)
  PROVE  LifecycleInv'
<1>1. PICK o \in Ops, p \in Ops \cup {Nothing} : job.o = o /\ job.proc = p
  BY JobTyped DEF LifecycleInv
<1>2. rec[o].seq \in Nat /\ row.seq \in Nat
  BY <1>1, JobIs, RowTyped DEF LifecycleInv, OwnershipRows
<1>3. at # "done" => at \in Places
  BY DEF Places
<1>4. CASE ~operation_can_update_owner(job.o)
  <2>1. Then(at) /\ UNCHANGED <<rec, owner, lease, tree>>
    BY <1>4 DEF UpdateOwner
  <2>2. owner # Nothing /\ owner.seq >= rec[o].seq
    BY <1>1, <1>2, <1>4, OwnerTyped DEF operation_can_update_owner, LifecycleInv
  <2>3. Place(at, o, p)
    BY <1>1, <2>2 DEF Place, Gone, Fresh, Named
  <2>4. QED
    BY <1>1, <1>3, <2>1, <2>3, ThenGoes
<1>5. CASE operation_can_update_owner(job.o) /\ ~ownership_update_allowed(row)
  BY <1>5, GivesUp DEF UpdateOwner, persist_ownership, GiveUp
<1>6. CASE operation_can_update_owner(job.o) /\ ownership_update_allowed(row)
  <2>1. owner' = row /\ Then(at) /\ UNCHANGED <<rec, lease, tree>>
    BY <1>6 DEF UpdateOwner, persist_ownership
  <2>2. Shrinks /\ lease' \in Leases
    BY <2>1 DEF Shrinks, LifecycleInv, TypeOK, Made, LiveTree, RowsTrue
  <2>3. OwnerNext
    BY <2>1 DEF OwnerNext
  <2>4. CASE at = "done"
    <3>1. job' = Nothing
      BY <2>1, <2>4 DEF Then
    <3>2. QED
      BY <2>1, <2>2, <2>3, <3>1, Ends, SameRows
  <2>5. CASE at # "done"
    <3>1. /\ job = [at |-> job.at, o |-> o, proc |-> p, profile |-> job.profile]
          /\ job.profile \in Profiles \cup {Nothing}
      BY <1>1, JobTyped DEF LifecycleInv
    <3>2. job' = [at |-> at, o |-> o, proc |-> p, profile |-> job.profile]
      BY <2>1, <2>5, <3>1 DEF Then
    <3>3. job' \in Jobs /\ job'.at = at /\ job'.o = o /\ job'.proc = p
      BY <1>3, <2>5, <3>1, <3>2 DEF Jobs
    <3>4. JobNext
      BY <1>1, <2>1, <3>3, JobIs DEF JobNext
    <3>5. Place(at, o, p)'
      <4>1. at \in {"starting", "start"} => NoTree' /\ owner'.seq >= rec'[o].seq
        BY <1>1, <1>2, <2>1 DEF NoTree, LiveTree
      <4>2. at = "starting" => rec'[o].kind = "LaunchNew"
        BY <1>1, <2>1
      <4>3. at = "start" => rec'[o].proc = Nothing /\ p = Nothing
        BY <1>1, <2>1
      <4>4. at = "replace" => p # Nothing
        BY <1>1
      <4>5. QED
        BY <2>5, <4>1, <4>2, <4>3, <4>4 DEF Place, Gone, Fresh, Named
    <3>6. JobPlaced'
      BY <3>3, <3>5 DEF JobPlaced
    <3>7. QED
      BY <2>1, <2>2, <2>3, <3>4, <3>6, SameRows
  <2>6. QED
    BY <2>4, <2>5
<1>7. QED
  BY <1>4, <1>5, <1>6

\* The row that makes the operation under way the owner.
LEMMA OwnRow ==
  ASSUME LifecycleInv, job # Nothing, NEW profile \in Profiles \cup {Nothing},
         NEW p \in Ops \cup {Nothing}, NEW row, row = Row(job.o, profile, p)
  PROVE  /\ row \in OwnershipRows /\ row.op = job.o /\ row.op \in Known
         /\ row.seq = rec[job.o].seq /\ row.seq = rec[row.op].seq
         /\ \A q \in Ops : LiveTree(q) => row.seq >= rec[q].seq
<1>1. job.o \in Known /\ job.o \in Ops /\ rec[job.o].seq \in Nat
  BY JobIs, RowTyped DEF LifecycleInv
<1>2. \A q \in Ops : LiveTree(q) => rec[q].seq \in Nat /\ rec[q].seq <= rec[job.o].seq
  BY LiveBefore, RowTyped DEF LifecycleInv
<1>3. QED
  BY <1>1, <1>2 DEF Row, OwnershipRows

\* The row of the owner, with another process.
LEMMA OwnsProcess ==
  ASSUME LifecycleInv, job # Nothing, job.o \in NotRejected, NEW at,
         at \in {"done", "cleanup_record"}, UpdateOwnerProcess(at)
  PROVE  LifecycleInv'
<1>1. CASE owner = Nothing
  <2>1. at \in Free
    BY DEF Free
  <2>2. QED
    BY <1>1, <2>1, ThenFree DEF UpdateOwnerProcess
<1>2. CASE owner # Nothing
  <2> DEFINE row == [owner EXCEPT !.proc = job.proc]
  <2>1. /\ owner = [op |-> owner.op, seq |-> owner.seq, profile |-> owner.profile,
                    proc |-> owner.proc]
        /\ owner.op \in Ops /\ owner.seq \in Nat /\ owner.profile \in Profiles \cup {Nothing}
        /\ job.proc \in Ops \cup {Nothing}
    BY <1>2, OwnerTyped, JobTyped DEF LifecycleInv
  <2>2. row \in OwnershipRows /\ row.op = owner.op /\ row.seq = owner.seq
    BY <2>1 DEF OwnershipRows
  <2>3. UpdateOwner(row, at)
    BY <1>2 DEF UpdateOwnerProcess
  <2> HIDE DEF row
  <2>4. row.op \in Known /\ row.seq = rec[row.op].seq
        /\ \A q \in Ops : LiveTree(q) => row.seq >= rec[q].seq
    BY <1>2, <2>2 DEF LifecycleInv, RowsTrue, TreesHeld, TreeHeld
  <2>5. QED
    BY <2>2, <2>3, <2>4, Owns
<1>3. QED
  BY <1>1, <1>2

-----------------------------------------------------------------------------
(* The process an operation refers to.                                      *)

\* A handler at a place, but for the last write of a rejected operation.
LEMMA AtPlace ==
  ASSUME LifecycleInv, NEW place, place # "clear", JobAt(place)
  PROVE  /\ job # Nothing /\ job.at = place /\ job.o \in NotRejected
         /\ Place(place, job.o, job.proc)
BY JobIs DEF JobAt

\* An active operation that is not older than a live tree and names a process
\* names that tree.
LEMMA AuthorizedHolds ==
  ASSUME LifecycleInv, NEW c \in Known, Authorized(c)
  PROVE  /\ c \in NotRejected /\ rec[c].proc \in Ops /\ rec[c].lease = lease
         /\ \A q \in Ops : LiveTree(q) /\ rec[c].seq >= rec[q].seq => rec[c].proc = q
<1>1. c \in NotRejected
  BY DEF Authorized, is_active, NotRejected
<1>2. rec[c].proc \in Ops
  BY RowTyped DEF Authorized, LifecycleInv
<1>3. QED
  BY <1>1, <1>2, LifecycleConstants DEF Authorized, LifecycleInv, TreesHeld, TreeHeld

\* The operation before the one under way, in a handler that has made no tree.
LEMMA PreviousHolds ==
  ASSUME LifecycleInv, job # Nothing, job.o \in NotRejected, job.o \notin Made,
         NEW c, c = latest_authorized_excluding(job.o), c # Nothing
  PROVE  /\ c \in Known /\ rec[c].proc \in Ops
         /\ \A q \in Ops : LiveTree(q) => rec[c].proc = q
<1>0. TypeOK /\ Bounded /\ job.o \in Known
  BY JobIs DEF LifecycleInv
<1>1. CASE owner # Nothing
  <2>1. c = owner.op /\ Authorized(c)
    BY <1>1 DEF latest_authorized_excluding
  <2>2. c \in Known /\ owner.seq = rec[c].seq
    BY <1>1, <2>1 DEF LifecycleInv, RowsTrue
  <2>3. \A q \in Ops : LiveTree(q) => owner.seq >= rec[q].seq
    BY <1>1 DEF LifecycleInv, TreesHeld, TreeHeld
  <2>4. QED
    BY <2>1, <2>2, <2>3, AuthorizedHolds
<1>2. CASE owner = Nothing
  <2> DEFINE S == {d \in Known \ {job.o} : Authorized(d)}
  <2>1. latest_authoritative_record = job.o
    <3>1. NotRejected \subseteq Known /\ NotRejected # {}
      BY DEF NotRejected
    <3>2. /\ Latest(NotRejected) \in NotRejected
          /\ rec[job.o].seq <= rec[Latest(NotRejected)].seq
      BY <1>0, <3>1, LatestIs
    <3>3. PICK d \in NotRejected : d = Latest(NotRejected)
      BY <3>2
    <3>4. rec[d].seq <= rec[job.o].seq /\ rec[job.o].seq <= rec[d].seq
      BY <3>2, <3>3, JobIs
    <3>5. rec[d].seq \in Nat /\ rec[job.o].seq \in Nat /\ d \in Known
      BY <1>0, <3>1, <3>3, RowTyped
    <3>6. rec[d].seq = rec[job.o].seq
      BY <3>4, <3>5
    <3>7. d = job.o
      BY <1>0, <3>5, <3>6 DEF LifecycleInv, RowsTrue
    <3>8. QED
      BY <3>3, <3>7 DEF latest_authoritative_record
  <2>2. c = Latest(S)
    <3>1. job.o # Nothing
      BY JobIs, LifecycleConstants
    <3>2. QED
      BY <1>2, <2>1, <3>1 DEF latest_authorized_excluding
  <2>3. S # {} /\ S \subseteq Known
    BY <2>2 DEF Latest
  <2>4. c \in S /\ \A d \in S : rec[d].seq <= rec[c].seq
    BY <1>0, <2>2, <2>3, LatestIs
  <2>5. c \in Known /\ Authorized(c)
    BY <2>4
  <2>6. ASSUME NEW q \in Ops, LiveTree(q) PROVE rec[q].seq <= rec[c].seq
    <3>1. TreeHeld(q) /\ q \in Known /\ q # job.o /\ rec[q].seq <= rec[job.o].seq
      BY <2>6, LiveMade, LiveBefore DEF LifecycleInv, TreesHeld
    <3>2. rec[q].seq \in Nat /\ rec[job.o].seq \in Nat /\ rec[c].seq \in Nat
      BY <1>0, <2>5, <3>1, RowTyped
    <3>3. rec[q].seq # rec[job.o].seq
      BY <1>0, <3>1 DEF LifecycleInv, RowsTrue
    <3>4. rec[job.o].seq > rec[q].seq
      BY <3>1, <3>2, <3>3
    <3>5. PICK d \in NotRejected : /\ rec[q].seq <= rec[d].seq /\ rec[d].seq < rec[job.o].seq
                                   /\ rec[d].proc = q /\ rec[d].lease = rec[job.o].lease
      BY <3>1, <3>4 DEF TreeHeld
    <3>6. d \in Known /\ rec[d].seq \in Nat
      BY <1>0, <3>5, RowTyped DEF NotRejected
    <3>7. is_active(rec[d])
      BY <3>1, <3>2, <3>5, <3>6 DEF TreeHeld
    <3>8. d # job.o
      BY <3>2, <3>5
    <3>9. rec[d].lease = lease /\ rec[d].proc # Nothing
      BY <2>6, <3>5, JobIs, LifecycleConstants
    <3>10. d \in S
      BY <3>6, <3>7, <3>8, <3>9 DEF Authorized
    <3>11. rec[d].seq <= rec[c].seq
      BY <2>4, <3>10
    <3>12. QED
      BY <3>2, <3>5, <3>6, <3>11
  <2>7. \A q \in Ops : LiveTree(q) => rec[c].seq >= rec[q].seq
    <3>1. \A q \in Ops : LiveTree(q) => q \in Known
      BY LiveBefore
    <3>2. QED
      BY <1>0, <2>5, <2>6, <3>1, RowTyped
  <2>8. QED
    BY <2>5, <2>7, AuthorizedHolds
<1>3. QED
  BY <1>1, <1>2

\* The row takes a process that every live tree is.
LEMMA Takes ==
  ASSUME LifecycleInv, job # Nothing, job.o \in NotRejected, NEW r \in OperationRows,
         r.kind = rec[job.o].kind, r.seq = rec[job.o].seq, r.lease = rec[job.o].lease,
         \/ r.state \in {"Attached", "Stopping", "Restarting", "Started"}
         \/ r.state = rec[job.o].state,
         r.proc \in Ops, NEW profile \in Profiles \cup {Nothing}, NEW at,
         at \in {"attach_verify", "stop_verify", "stopping", "restart_verify",
                 "restart_reserve", "own", "block_refused"},
         at = "block_refused" => job.o \notin Made,
         \A q \in Ops : LiveTree(q) => r.proc = q,
         rec' = [rec EXCEPT ![job.o] = r], UNCHANGED <<owner, lease, tree>>,
         job' = [at |-> at, o |-> job.o, proc |-> r.proc, profile |-> profile]
  PROVE  LifecycleInv'
<1>1. PICK o \in Ops : job.o = o
  BY JobIs
<1>2. job' \in Jobs /\ job'.at = at /\ job'.o = o /\ job'.proc = r.proc
  BY <1>1 DEF Jobs, Places
<1>3. JobNext
  BY <1>1, <1>2 DEF JobNext
<1>4. rec[o].state # "Rejected" /\ (\A q \in Ops : LiveTree(q) => is_active(rec[o]))
  BY <1>1, LiveBefore DEF NotRejected
<1>5. rec[o].state = "Starting" => rec[o].kind = "LaunchNew"
  BY <1>1, JobIs DEF LifecycleInv, RowsTrue
<1>6. r.proc # Nothing
  BY LifecycleConstants
<1>7. RowNext(o, r)
  BY <1>1, <1>4, <1>5, <1>6 DEF RowNext, is_active
<1>8. at = "block_refused" => ~LiveTree(o)'
  <2>1. LiveTree(o)' = LiveTree(o)
    BY DEF LiveTree
  <2>2. QED
    BY <1>1, <2>1, LiveMade DEF LifecycleInv
<1>9. JobPlaced'
  BY <1>2, <1>6, <1>8 DEF JobPlaced, Place, Gone, Fresh, Named
<1>10. r.state # "Rejected"
  BY <1>1, <1>4
<1>11. QED
  BY <1>1, <1>2, <1>3, <1>7, <1>9, <1>10, JobIs, OneRow

-----------------------------------------------------------------------------
(* Launches and failures.                                                   *)

\* The process of the handler is every live tree.
LEMMA JobsProcess ==
  ASSUME LifecycleInv, job # Nothing, job.proc # Nothing
  PROVE  job.proc \in Ops /\ \A q \in Ops : LiveTree(q) => job.proc = q
BY JobIs, JobTyped DEF LifecycleInv

\* A tree the operation under way has made is every live tree.
LEMMA OwnTree ==
  ASSUME LifecycleInv, job # Nothing, job.o \in NotRejected, job.o \in Made
  PROVE  job.o \in Ops /\ job.o # Nothing /\ \A q \in Ops : LiveTree(q) => job.o = q
BY JobIs, LiveBefore, LifecycleConstants

LEMMA BlockOperation == ASSUME LifecycleInv, block_operation PROVE LifecycleInv'
<1>1. CASE JobAt("block_fault") /\ persist_update("Blocked", job.proc, "done")
  <2>1. job # Nothing /\ job.o \in NotRejected
    BY <1>1, AtPlace
  <2>2. /\ job.proc \in Ops \cup {Nothing}
        /\ \A q \in Ops : LiveTree(q) => job.proc \in {Nothing, q}
    BY <2>1, JobIs, JobTyped DEF LifecycleInv
  <2>3. "Blocked" \in States /\ "done" \in Free
    BY DEF States, Free
  <2>4. QED
    BY <1>1, <2>1, <2>2, <2>3, Persists
<1>2. CASE /\ JobAt("block_refused")
           /\ persist_update("Rejected", job.proc,
                             IF owner # Nothing /\ owner.op = job.o THEN "clear" ELSE "done")
  <2>1. job # Nothing /\ job.o \in NotRejected /\ Place("block_refused", job.o, job.proc)
    BY <1>2, AtPlace
  <2>2. /\ job.proc \in Ops \cup {Nothing}
        /\ \A q \in Ops : LiveTree(q) => job.proc \in {Nothing, q}
    BY <2>1, JobIs, JobTyped DEF LifecycleInv
  <2>3. "Rejected" \in States /\ ~LiveTree(job.o)
    BY <2>1 DEF States, Place
  <2>4. PICK at \in {"clear", "done"} : persist_update("Rejected", job.proc, at)
    BY <1>2
  <2>5. at \in Free
    BY DEF Free
  <2>6. QED
    BY <2>1, <2>2, <2>3, <2>4, <2>5, Persists
<1>3. QED
  BY <1>1, <1>2 DEF block_operation

LEMMA BlockCleanup == ASSUME LifecycleInv, block_cleanup PROVE LifecycleInv'
<1>1. job # Nothing /\ job.o \in NotRejected
  BY AtPlace DEF block_cleanup
<1>2. job.proc \in Ops \cup {Nothing} /\ \A q \in Ops : LiveTree(q) => job.proc \in {Nothing, q}
  BY <1>1, JobIs, JobTyped DEF LifecycleInv
<1>3. "Blocked" \in States /\ "done" \in Free
  BY DEF States, Free
<1>4. QED
  BY <1>1, <1>2, <1>3, Persists DEF block_cleanup

\* A place where nothing is live.
LEMMA GoneAt ==
  ASSUME LifecycleInv, NEW place \in Gone, JobAt(place)
  PROVE  NoTree /\ job # Nothing /\ job.o \in NotRejected /\ Place(place, job.o, job.proc)
<1>1. place # "clear"
  BY DEF Gone
<1>2. QED
  BY <1>1, AtPlace DEF Place

LEMMA ExecuteLaunch == ASSUME LifecycleInv, execute_launch PROVE LifecycleInv'
<1>1. JobAt("starting") /\ persist_update("Starting", Nothing, "start")
  BY DEF execute_launch
<1>2. "starting" \in Gone /\ "Starting" \in States
  BY DEF Gone, States
<1>3. NoTree /\ job # Nothing /\ job.o \in NotRejected /\ Place("starting", job.o, job.proc)
  BY <1>1, <1>2, GoneAt
<1>4. rec[job.o].kind = "LaunchNew" /\ (owner = Nothing \/ owner.seq >= rec[job.o].seq)
  BY <1>3 DEF Place
<1>5. QED
  BY <1>1, <1>2, <1>3, <1>4, Persists DEF NoTree

\* The outcome is unknown, and where nothing is live, the process as well.
LEMMA Unknowns ==
  ASSUME LifecycleInv, job # Nothing, job.o \in NotRejected, unknown
  PROVE  LifecycleInv'
<1>1. "Unknown" \in States /\ "done" \in Free
  BY DEF States, Free
<1>2. QED
  BY <1>1, Persists DEF unknown

\* The generation of the operation is dispatched where nothing is live.
LEMMA Birth ==
  ASSUME LifecycleInv, job # Nothing, job.o \in NotRejected, Place("start", job.o, job.proc),
         for_operation(job.o, job.profile), NEW t \in Trees,
         t.proc # "none", t.kids = tree[job.o].kids,
         tree' = [tree EXCEPT ![job.o] = t], Then("await"), UNCHANGED <<rec, owner, lease>>
  PROVE  LifecycleInv'
<1>1. PICK o \in Ops : job.o = o
  BY JobIs
<1>2. /\ NoTree /\ rec[o].proc = Nothing /\ job.proc = Nothing
      /\ owner = Nothing \/ owner.seq >= rec[o].seq
  BY <1>1 DEF Place, Gone
<1>3. Creates(o) /\ is_active(rec[o]) /\ rec[o].state # "IntentRecorded" /\ o \in NotRejected
      /\ o \in Known
  BY <1>1, JobIs DEF for_operation, Creates, is_active
<1>4. /\ tree' \in [Ops -> Trees] /\ tree'[o] = t
      /\ \A q \in Ops \ {o} : tree'[q] = tree[q]
  BY <1>1 DEF LifecycleInv, TypeOK
<1>5. Known' = Known /\ NotRejected' = NotRejected /\ \A c : Creates(c)' = Creates(c)
  BY DEF Known, NotRejected, Creates
<1>6. Made' = Made \cup {o}
  BY <1>4 DEF Made
<1>7. \A q \in Ops : LiveTree(q)' => q = o
  BY <1>2, <1>4 DEF NoTree, LiveTree
<1>8. "await" \in Places
  BY DEF Places
<1>9. job' \in Jobs /\ job'.at = "await" /\ job'.o = o /\ job'.proc = Nothing
  BY <1>1, <1>2, <1>8, ThenJob
<1>10. TypeOK'
  BY <1>4, <1>9 DEF LifecycleInv, TypeOK
<1>11. Bounded'
  BY <1>5 DEF LifecycleInv, Bounded
<1>12. RowsTrue'
  <2>1. \A c \in Ops : tree'[c].kids # "none" => c \in Made'
    BY <1>1, <1>4, <1>6 DEF LifecycleInv, RowsTrue
  <2>2. \A c \in Made' : c \in Known' /\ Creates(c)' /\ rec'[c].state # "IntentRecorded"
    BY <1>3, <1>5, <1>6 DEF LifecycleInv, RowsTrue
  <2>3. QED
    BY <1>5, <2>1, <2>2 DEF LifecycleInv, RowsTrue
<1>13. JobCurrent'
  BY <1>1, <1>5, <1>9, JobIs DEF JobCurrent
<1>14. JobPlaced'
  BY <1>9 DEF JobPlaced, Place, Gone, Fresh, Named
<1>15. TreeHeld(o)'
  <2>1. \A c \in NotRejected : c \in Known /\ rec[c].seq \in Nat /\ rec[c].seq <= rec[o].seq
    BY <1>1, JobIs, RowTyped DEF LifecycleInv, NotRejected
  <2>2. rec[o].seq \in Nat
    BY <1>3, <2>1
  <2>3. \A c \in NotRejected : rec[c].seq >= rec[o].seq => c = o
    <3>1. \A c \in NotRejected : rec[c].seq >= rec[o].seq => rec[c].seq = rec[o].seq
      BY <2>1, <2>2
    <3>2. QED
      BY <1>3, <2>1, <3>1 DEF LifecycleInv, RowsTrue
  <2>4. \A c \in NotRejected : ~(rec[c].seq > rec[o].seq)
    BY <2>1, <2>2
  <2>5. QED
    BY <1>2, <1>3, <1>5, <1>9, <2>1, <2>3, <2>4 DEF TreeHeld
<1>16. TreesHeld'
  BY <1>7, <1>15 DEF TreesHeld
<1>17. QED
  BY <1>10, <1>11, <1>12, <1>13, <1>14, <1>16 DEF LifecycleInv

LEMMA StartsGeneration == ASSUME LifecycleInv, StartGeneration PROVE LifecycleInv'
<1>1. JobAt("start") /\ "start" \in Gone
  BY DEF StartGeneration, Gone
<1>2. NoTree /\ job # Nothing /\ job.o \in NotRejected /\ Place("start", job.o, job.proc)
  BY <1>1, GoneAt
<1>3. CASE unknown
  BY <1>2, <1>3, Unknowns
<1>4. CASE Then("start_refused") /\ UNCHANGED <<rec, owner, lease, tree>>
  <2>1. PICK o \in Ops, p \in Ops \cup {Nothing} : job.o = o /\ job.proc = p
    BY <1>2, JobTyped DEF LifecycleInv
  <2>2. "start_refused" \in Places /\ Place("start_refused", o, p)
    BY <1>2 DEF Places, Place, Gone, Fresh, Named
  <2>3. QED
    BY <1>2, <1>4, <2>1, <2>2, ThenGoes
<1>5. CASE /\ for_operation(job.o, job.profile) /\ Then("await")
           /\ tree' = [tree EXCEPT ![job.o].proc = IF @ = "none" THEN "requested" ELSE @]
           /\ UNCHANGED <<rec, owner, lease>>
  <2>1. PICK o \in Ops : job.o = o
    BY <1>2, JobIs
  <2>2. /\ tree \in [Ops -> Trees] /\ tree[o].kids \in {"none", "approved", "foreign"}
        /\ tree[o] = [proc |-> tree[o].proc, kids |-> tree[o].kids, good |-> tree[o].good]
        /\ tree[o].proc \in {"none", "requested", "running", "exited"}
        /\ tree[o].good \in BOOLEAN
    BY TreeTyped DEF LifecycleInv, TypeOK
  <2> DEFINE proc == IF tree[o].proc = "none" THEN "requested" ELSE tree[o].proc
             t == [tree[o] EXCEPT !.proc = proc]
  <2>3. proc \in {"requested", "running", "exited"}
    BY <2>2
  <2>4. tree' = [tree EXCEPT ![job.o] = t]
    BY <1>5, <2>1
  <2> HIDE DEF proc
  <2>5. t = [proc |-> proc, kids |-> tree[o].kids, good |-> tree[o].good]
    <3>1. PICK u : u = tree[o]
      OBVIOUS
    <3>2. u = [proc |-> u.proc, kids |-> u.kids, good |-> u.good]
      BY <2>2, <3>1
    <3>3. [u EXCEPT !.proc = proc] = [proc |-> proc, kids |-> u.kids, good |-> u.good]
      BY <3>2
    <3>4. QED
      BY <3>1, <3>3
  <2>6. t \in Trees /\ t.proc # "none" /\ t.kids = tree[job.o].kids
    BY <2>1, <2>2, <2>3, <2>5 DEF Trees
  <2> HIDE DEF t
  <2>7. QED
    BY <1>2, <1>5, <2>4, <2>6, Birth
<1>6. QED
  BY <1>3, <1>4, <1>5 DEF StartGeneration

\* The process of a handler that has just made its tree, or of none.
LEMMA CreatedMade ==
  ASSUME LifecycleInv, job # Nothing, Created(job.o)
  PROVE  job.o \in Made
BY JobIs DEF Created, Made

LEMMA ProcessFailure == ASSUME LifecycleInv, process_failure PROVE LifecycleInv'
<1>1. CASE JobAt("start_refused") /\ persist_update("Failed", Nothing, "clear")
  <2>1. "start_refused" \in Gone /\ "Failed" \in States /\ "clear" \in Free
    BY DEF Gone, States, Free
  <2>2. NoTree /\ job # Nothing /\ job.o \in NotRejected
    BY <1>1, <2>1, GoneAt
  <2>3. QED
    BY <1>1, <2>1, <2>2, Persists
<1>2. ASSUME JobAt("await"),
             NEW p \in {Nothing} \cup (IF Created(job.o) THEN {job.o} ELSE {}),
             persist_update("Unknown", p, "owner_process")
      PROVE  LifecycleInv'
  <2>1. job # Nothing /\ job.o \in NotRejected
    BY <1>2, AtPlace
  <2>2. p \in Ops \cup {Nothing} /\ \A q \in Ops : LiveTree(q) => p \in {Nothing, q}
    BY <1>2, <2>1, CreatedMade, OwnTree
  <2>3. "Unknown" \in States /\ "owner_process" \in Free
    BY DEF States, Free
  <2>4. QED
    BY <1>2, <2>1, <2>2, <2>3, Persists
<1>3. QED
  BY <1>1, <1>2 DEF process_failure

LEMMA FinishStart == ASSUME LifecycleInv, finish_start PROVE LifecycleInv'
<1>1. job # Nothing /\ job.o \in NotRejected /\ job.o \in Made
  BY AtPlace, CreatedMade DEF finish_start
<1>2. job.o \in Ops /\ job.o # Nothing /\ \A q \in Ops : LiveTree(q) => job.o = q
  BY <1>1, OwnTree
<1>3. CASE persist_update("Started", job.o, "own")
  <2>1. "Started" \in States /\ "own" \in Free
    BY DEF States, Free
  <2>2. QED
    BY <1>1, <1>2, <1>3, <2>1, Persists
<1>4. ASSUME NEW why \in {"reject_fault", "reject_refused"}, ThenWith(why, job.o),
             UNCHANGED <<rec, owner, lease, tree>>
      PROVE  LifecycleInv'
  <2>1. PICK o \in Ops : job.o = o
    BY <1>2
  <2>2. /\ job = [at |-> job.at, o |-> o, proc |-> job.proc, profile |-> job.profile]
        /\ job.profile \in Profiles \cup {Nothing}
    BY <1>1, <2>1, JobTyped DEF LifecycleInv
  <2>3. job' = [at |-> why, o |-> o, proc |-> o, profile |-> job.profile]
    BY <1>4, <2>1, <2>2 DEF ThenWith
  <2>4. why \in Places /\ Place(why, o, o)
    BY <1>1, <1>2, <2>1 DEF Places, Place, Gone, Fresh, Named
  <2>5. QED
    BY <1>1, <1>2, <1>4, <2>1, <2>2, <2>3, <2>4, GoesOn
<1>5. QED
  BY <1>3, <1>4 DEF finish_start

LEMMA FinishStartFailure == ASSUME LifecycleInv, finish_start_failure PROVE LifecycleInv'
<1>1. ASSUME NEW place \in {"reject_fault", "reject_refused"}, JobAt(place),
             NEW gone \in {"block_fault", "block_refused"},
             StopAndLook(job.proc, "cleanup_owner", "cleanup_owner", gone)
      PROVE  LifecycleInv'
  <2>1. job # Nothing /\ job.o \in NotRejected /\ Place(place, job.o, job.proc)
    BY <1>1, AtPlace
  <2>2. job.proc \in Made
    BY <2>1 DEF Place
  <2>3. QED
    BY <1>1, <2>1, <2>2, Looks
<1>2. QED
  BY <1>1 DEF finish_start_failure

\* Nothing the operation under way has made is there: a refusal is final.
LEMMA Refuses ==
  ASSUME LifecycleInv, job # Nothing, job.o \in NotRejected, job.o \notin Made,
         Then("block_refused"), UNCHANGED <<rec, owner, lease, tree>>
  PROVE  LifecycleInv'
<1>1. PICK o \in Ops, p \in Ops \cup {Nothing} : job.o = o /\ job.proc = p
  BY JobTyped DEF LifecycleInv
<1>2. ~LiveTree(o)
  BY <1>1, LiveMade DEF LifecycleInv
<1>3. "block_refused" \in Places /\ Place("block_refused", o, p)
  BY <1>2 DEF Places, Place, Gone, Fresh, Named
<1>4. QED
  BY <1>1, <1>3, ThenGoes

\* The row of the operation under way gets another state and process.
LEMMA NextRow ==
  ASSUME LifecycleInv, job # Nothing, NEW state \in States, NEW p \in Ops \cup {Nothing},
         rec' = [rec EXCEPT ![job.o].state = state, ![job.o].proc = p]
  PROVE  \E r \in OperationRows :
           /\ r.kind = rec[job.o].kind /\ r.seq = rec[job.o].seq
           /\ r.lease = rec[job.o].lease /\ r.state = state /\ r.proc = p
           /\ rec' = [rec EXCEPT ![job.o] = r]
<1>1. /\ job.o \in Ops /\ rec[job.o] \in OperationRows
      /\ rec \in [Ops -> OperationRows \cup {Nothing}]
  BY JobIs, RowTyped DEF LifecycleInv, TypeOK
<1> DEFINE r == [rec[job.o] EXCEPT !.state = state, !.proc = p]
<1>2. /\ r \in OperationRows /\ r.kind = rec[job.o].kind /\ r.seq = rec[job.o].seq
      /\ r.lease = rec[job.o].lease /\ r.state = state /\ r.proc = p
  BY <1>1 DEF OperationRows
<1>3. rec' = [rec EXCEPT ![job.o] = r]
  BY <1>1
<1> HIDE DEF r
<1>4. QED
  BY <1>2, <1>3

LEMMA ExecuteAttach == ASSUME LifecycleInv, execute_attach PROVE LifecycleInv'
<1>1. job # Nothing /\ job.o \in NotRejected /\ Place("attach", job.o, job.proc)
  BY AtPlace DEF execute_attach
<1>2. job.o \notin Made
  BY <1>1 DEF Place, Fresh
<1>3. PICK c : c = latest_authorized_excluding(job.o)
  OBVIOUS
<1>4. CASE c = Nothing \/ rec[c].proc # rec[job.o].target
  <2>1. Then("block_refused") /\ UNCHANGED <<rec, owner, lease, tree>>
    BY <1>3, <1>4 DEF execute_attach
  <2>2. QED
    BY <1>1, <1>2, <2>1, Refuses
<1>5. CASE ~(c = Nothing \/ rec[c].proc # rec[job.o].target)
  <2>1. PICK p : p = rec[job.o].target
    OBVIOUS
  <2>2. c \in Known /\ p \in Ops /\ \A q \in Ops : LiveTree(q) => p = q
    BY <1>1, <1>2, <1>3, <1>5, <2>1, PreviousHolds
  <2>3. PICK profile : profile = profile_for_operation(c)
    OBVIOUS
  <2>4. profile \in Profiles \cup {Nothing}
    BY <2>2, <2>3, ProfileTyped DEF LifecycleInv
  <2>5. CASE profile = Nothing
    BY <1>3, <1>5, <2>3, <2>5, GivesUp DEF execute_attach
  <2>6. CASE profile # Nothing
    <3>1. /\ rec' = [rec EXCEPT ![job.o].state = "Attached", ![job.o].proc = p]
          /\ job' = [job EXCEPT !.at = "attach_verify", !.proc = p, !.profile = profile]
          /\ UNCHANGED <<owner, lease, tree>>
      BY <1>3, <1>5, <2>1, <2>3, <2>6 DEF execute_attach
    <3>2. "Attached" \in States
      BY DEF States
    <3>3. job = [at |-> job.at, o |-> job.o, proc |-> job.proc, profile |-> job.profile]
      BY <1>1, JobTyped DEF LifecycleInv
    <3>4. job' = [at |-> "attach_verify", o |-> job.o, proc |-> p, profile |-> profile]
      BY <3>1, <3>3
    <3>5. PICK r \in OperationRows :
            /\ r.kind = rec[job.o].kind /\ r.seq = rec[job.o].seq
            /\ r.lease = rec[job.o].lease /\ r.state = "Attached" /\ r.proc = p
            /\ rec' = [rec EXCEPT ![job.o] = r]
      BY <1>1, <2>2, <3>1, <3>2, NextRow
    <3>6. QED
      BY <1>1, <2>2, <2>4, <3>1, <3>4, <3>5, Takes
  <2>7. QED
    BY <2>5, <2>6
<1>6. QED
  BY <1>4, <1>5

LEMMA AttachVerified == ASSUME LifecycleInv, attach_verified PROVE LifecycleInv'
<1>1. job # Nothing /\ job.o \in NotRejected
  BY AtPlace DEF attach_verified
<1>2. "own" \in Free /\ "cleanup_owner" \in Free
  BY DEF Free
<1>3. PICK at \in Free : Then(at) /\ UNCHANGED <<rec, owner, lease, tree>>
  BY <1>2 DEF attach_verified
<1>4. QED
  BY <1>1, <1>3, ThenFree

-----------------------------------------------------------------------------
(* Stops.                                                                   *)

\* The uncertainty is recorded and the process retained.
LEMMA Retains ==
  ASSUME LifecycleInv, job # Nothing, job.o \in NotRejected,
         NEW state \in {"Unknown", "Blocked"},
         NEW at \in {"done", "owner_process"}, persist_update(state, job.proc, at)
  PROVE  LifecycleInv'
<1>1. job.proc \in Ops \cup {Nothing} /\ \A q \in Ops : LiveTree(q) => job.proc \in {Nothing, q}
  BY JobIs, JobTyped DEF LifecycleInv
<1>2. /\ state \in States /\ at \in Free /\ at \notin {"start", "replacement_reserve"}
      /\ state \notin {"IntentRecorded", "Started", "Attached", "Starting", "Rejected",
                       "Stopped", "Failed"}
  BY DEF States, Free
<1>3. QED
  BY <1>1, <1>2, Persists

\* Where the process of the handler was seen to be gone with its descendants,
\* nothing is left.
LEMMA ConfirmedGone ==
  ASSUME LifecycleInv, job # Nothing, job.proc # Nothing,
         confirm_exited_without_descendants(job.proc)
  PROVE  NoTree
BY JobsProcess DEF confirm_exited_without_descendants, NoTree, LiveTree

LEMMA VerifiedMade ==
  ASSUME LifecycleInv, job # Nothing, job.proc # Nothing, tree[job.proc].proc = "running"
  PROVE  job.proc \in Made
BY JobsProcess DEF Made

\* A handler of a place that knows its process.
LEMMA NamedAt ==
  ASSUME LifecycleInv, NEW place \in Named, JobAt(place)
  PROVE  job # Nothing /\ job.o \in NotRejected /\ job.proc # Nothing /\ job.proc \in Ops
         /\ Place(place, job.o, job.proc)
<1>1. place # "clear"
  BY DEF Named
<1>2. job # Nothing /\ job.o \in NotRejected /\ Place(place, job.o, job.proc)
  BY <1>1, AtPlace
<1>3. job.proc # Nothing
  BY <1>2 DEF Place
<1>4. QED
  BY <1>2, <1>3, JobsProcess

\* The record of an end that was seen.
LEMMA RecordsEnd ==
  ASSUME LifecycleInv, job # Nothing, job.o \in NotRejected, NoTree,
         NEW state \in {"Stopped", "Failed"}, NEW p \in Ops \cup {Nothing},
         persist_update(state, p, "clear")
  PROVE  LifecycleInv'
<1>1. state \in States /\ "clear" \in Free /\ state \notin {"IntentRecorded", "Started",
        "Attached", "Starting", "Rejected"}
  BY DEF States, Free
<1>2. \A q \in Ops : ~LiveTree(q)
  BY DEF NoTree
<1>3. QED
  BY <1>1, <1>2, Persists

LEMMA StopsIntent ==
  ASSUME LifecycleInv, NEW place \in Fresh, NEW next \in {"stop_verify", "stopping"},
         StopIntent(place, next)
  PROVE  LifecycleInv'
<1>1. job # Nothing /\ job.o \in NotRejected /\ Place(place, job.o, job.proc)
  <2>1. place # "clear"
    BY DEF Fresh
  <2>2. QED
    BY <2>1, AtPlace DEF StopIntent
<1>2. job.o \notin Made
  BY <1>1 DEF Place
<1>3. PICK c : c = latest_authorized_excluding(job.o)
  OBVIOUS
<1>4. CASE c = Nothing
  <2>1. Then("block_refused") /\ UNCHANGED <<rec, owner, lease, tree>>
    BY <1>3, <1>4 DEF StopIntent
  <2>2. QED
    BY <1>1, <1>2, <2>1, Refuses
<1>5. CASE c # Nothing
  <2>1. PICK p : p = rec[c].proc
    OBVIOUS
  <2>2. c \in Known /\ p \in Ops /\ \A q \in Ops : LiveTree(q) => p = q
    BY <1>1, <1>2, <1>3, <1>5, <2>1, PreviousHolds
  <2>3. PICK profile : profile = profile_for_operation(c)
    OBVIOUS
  <2>4. profile \in Profiles \cup {Nothing}
    BY <2>2, <2>3, ProfileTyped DEF LifecycleInv
  <2>5. CASE profile = Nothing
    BY <1>3, <1>5, <2>3, <2>5, GivesUp DEF StopIntent
  <2>6. CASE profile # Nothing
    <3>1. /\ rec' = [rec EXCEPT ![job.o].state = "Stopping", ![job.o].proc = p]
          /\ job' = [job EXCEPT !.at = next, !.proc = p, !.profile = profile]
          /\ UNCHANGED <<owner, lease, tree>>
      BY <1>3, <1>5, <2>1, <2>3, <2>6 DEF StopIntent
    <3>2. "Stopping" \in States
      BY DEF States
    <3>3. job = [at |-> job.at, o |-> job.o, proc |-> job.proc, profile |-> job.profile]
      BY <1>1, JobTyped DEF LifecycleInv
    <3>4. job' = [at |-> next, o |-> job.o, proc |-> p, profile |-> profile]
      BY <3>1, <3>3
    <3>5. PICK r \in OperationRows :
            /\ r.kind = rec[job.o].kind /\ r.seq = rec[job.o].seq
            /\ r.lease = rec[job.o].lease /\ r.state = "Stopping" /\ r.proc = p
            /\ rec' = [rec EXCEPT ![job.o] = r]
      BY <1>1, <2>2, <3>1, <3>2, NextRow
    <3>6. QED
      BY <1>1, <2>2, <2>4, <3>1, <3>4, <3>5, Takes
  <2>7. QED
    BY <2>5, <2>6
<1>6. QED
  BY <1>4, <1>5

\* finish_stop, for a process that was seen running.
LEMMA FinishStop ==
  ASSUME LifecycleInv, job # Nothing, job.o \in NotRejected, job.proc # Nothing,
         tree[job.proc].proc = "running", finish_stop
  PROVE  LifecycleInv'
BY VerifiedMade, Looks DEF finish_stop

LEMMA StopVerifies == ASSUME LifecycleInv, StopVerified PROVE LifecycleInv'
<1>1. "stop_verify" \in Named /\ "cleanup_owner" \in Free
  BY DEF Named, Free
<1>2. job # Nothing /\ job.o \in NotRejected /\ job.proc # Nothing
  BY <1>1, NamedAt DEF StopVerified
<1>3. CASE Then("cleanup_owner") /\ UNCHANGED <<rec, owner, lease, tree>>
  BY <1>1, <1>2, <1>3, ThenFree
<1>4. CASE Verified(job.proc, job.profile) /\ finish_stop
  BY <1>2, <1>4, FinishStop DEF Verified
<1>5. QED
  BY <1>3, <1>4 DEF StopVerified

LEMMA StopRecorded == ASSUME LifecycleInv, stopped PROVE LifecycleInv'
<1>1. "stopped" \in Gone
  BY DEF Gone
<1>2. NoTree /\ job # Nothing /\ job.o \in NotRejected
  BY <1>1, GoneAt DEF stopped
<1>3. QED
  BY <1>2, RecordsEnd DEF stopped

LEMMA ReconcileStopping == ASSUME LifecycleInv, reconcile_stopping PROVE LifecycleInv'
<1>1. job # Nothing /\ job.o \in NotRejected /\ "cleanup_owner" \in Free
  BY AtPlace DEF reconcile_stopping, Free
<1>2. CASE job.proc = Nothing
  BY <1>1, <1>2, Unknowns DEF reconcile_stopping
<1>3. CASE job.proc # Nothing
  <2>1. CASE GiveUp
    BY <2>1, GivesUp
  <2>2. CASE persist_update("Unknown", job.proc, "done")
    BY <1>1, <2>2, Retains
  <2>3. CASE persist_update("Blocked", job.proc, "done")
    BY <1>1, <2>3, Retains
  <2>4. CASE /\ confirm_exited_without_descendants(job.proc)
             /\ persist_update("Stopped", Nothing, "clear")
    BY <1>1, <1>3, <2>4, ConfirmedGone, RecordsEnd
  <2>5. CASE Then("cleanup_owner") /\ UNCHANGED <<rec, owner, lease, tree>>
    BY <1>1, <2>5, ThenFree
  <2>6. CASE tree[job.proc].proc = "running" /\ finish_stop
    BY <1>1, <1>3, <2>6, FinishStop
  <2>7. QED
    BY <1>3, <2>1, <2>2, <2>3, <2>4, <2>5, <2>6 DEF reconcile_stopping, Verified
<1>4. QED
  BY <1>2, <1>3

-----------------------------------------------------------------------------
(* Restarts.                                                                *)

LEMMA ExecuteRestart == ASSUME LifecycleInv, execute_restart PROVE LifecycleInv'
<1>1. job # Nothing /\ job.o \in NotRejected /\ Place("restart", job.o, job.proc)
  BY AtPlace DEF execute_restart
<1>2. job.o \notin Made
  BY <1>1 DEF Place, Fresh
<1>3. PICK c : c = latest_authorized_excluding(job.o)
  OBVIOUS
<1>4. CASE c = Nothing
  <2>1. Then("block_refused") /\ UNCHANGED <<rec, owner, lease, tree>>
    BY <1>3, <1>4 DEF execute_restart
  <2>2. QED
    BY <1>1, <1>2, <2>1, Refuses
<1>5. CASE c # Nothing
  <2>1. PICK p : p = rec[c].proc
    OBVIOUS
  <2>2. c \in Known /\ p \in Ops /\ \A q \in Ops : LiveTree(q) => p = q
    BY <1>1, <1>2, <1>3, <1>5, <2>1, PreviousHolds
  <2>3. CASE profile_for_operation(c) = Nothing
    BY <1>3, <1>5, <2>3, GivesUp DEF execute_restart
  <2>4. CASE profile_for_operation(c) # Nothing
    <3>1. PICK at \in {"restart_verify", "block_refused"} :
          /\ rec' = [rec EXCEPT ![job.o].state = "Restarting", ![job.o].proc = p]
          /\ job' = [job EXCEPT !.proc = p, !.at = at]
          /\ UNCHANGED <<owner, lease, tree>>
      BY <1>3, <1>5, <2>1, <2>4 DEF execute_restart
    <3>2. "Restarting" \in States
      BY DEF States
    <3>3. /\ job = [at |-> job.at, o |-> job.o, proc |-> job.proc, profile |-> job.profile]
          /\ job.profile \in Profiles \cup {Nothing}
      BY <1>1, JobTyped DEF LifecycleInv
    <3>4. job' = [at |-> at, o |-> job.o, proc |-> p, profile |-> job.profile]
      BY <3>1, <3>3
    <3>5. PICK r \in OperationRows :
            /\ r.kind = rec[job.o].kind /\ r.seq = rec[job.o].seq
            /\ r.lease = rec[job.o].lease /\ r.state = "Restarting" /\ r.proc = p
            /\ rec' = [rec EXCEPT ![job.o] = r]
      BY <1>1, <2>2, <3>1, <3>2, NextRow
    <3>6. QED
      BY <1>1, <1>2, <2>2, <3>1, <3>3, <3>4, <3>5, Takes
  <2>5. QED
    BY <2>3, <2>4
<1>6. QED
  BY <1>4, <1>5

\* The epoch is rotated at most once, and within the bound.
LEMMA BeginRestart ==
  ASSUME LifecycleInv, job # Nothing, job.o \in NotRejected, NEW p \in Ops,
         \A q \in Ops : LiveTree(q) => p = q, NEW next \in Profiles \cup {Nothing},
         begin_restart(p, next)
  PROVE  LifecycleInv'
<1>1. CASE GiveUp
  BY <1>1, GivesUp
<1>2. CASE ~GiveUp
  <2>1. PICK epoch :
          /\ epoch = current_authority_epoch + IF rec[job.o].req = rec[job.o].auth THEN 1 ELSE 0
          /\ epoch <= MaxEpoch
          /\ rec' = [rec EXCEPT ![job.o].state = "Restarting", ![job.o].proc = p,
                                ![job.o].auth = epoch]
          /\ job' = [job EXCEPT !.at = "restart_reserve", !.proc = p, !.profile = next]
          /\ UNCHANGED <<owner, lease, tree>>
    BY <1>2 DEF begin_restart
  <2>2. epoch \in 1..MaxEpoch
    BY <2>1, EpochTyped, LifecycleConstants DEF LifecycleInv
  <2>3. /\ job.o \in Ops /\ rec[job.o] \in OperationRows
        /\ rec \in [Ops -> OperationRows \cup {Nothing}]
    BY JobIs, RowTyped DEF LifecycleInv, TypeOK
  <2> DEFINE r == [rec[job.o] EXCEPT !.state = "Restarting", !.proc = p, !.auth = epoch]
  <2>4. /\ r \in OperationRows /\ r.kind = rec[job.o].kind /\ r.seq = rec[job.o].seq
        /\ r.lease = rec[job.o].lease /\ r.state = "Restarting" /\ r.proc = p
    BY <2>2, <2>3 DEF OperationRows, States
  <2>5. rec' = [rec EXCEPT ![job.o] = r]
    BY <2>1, <2>3
  <2> HIDE DEF r
  <2>6. job = [at |-> job.at, o |-> job.o, proc |-> job.proc, profile |-> job.profile]
    BY JobTyped DEF LifecycleInv
  <2>7. job' = [at |-> "restart_reserve", o |-> job.o, proc |-> p, profile |-> next]
    BY <2>1, <2>6
  <2>8. QED
    BY <2>1, <2>4, <2>5, <2>7, Takes
<1>3. QED
  BY <1>1, <1>2

LEMMA RestartVerified == ASSUME LifecycleInv, restart_verified PROVE LifecycleInv'
<1>1. "restart_verify" \in Named /\ "cleanup_owner" \in Free
  BY DEF Named, Free
<1>2. job # Nothing /\ job.o \in NotRejected /\ job.proc # Nothing
  BY <1>1, NamedAt DEF restart_verified
<1>3. CASE Then("cleanup_owner") /\ UNCHANGED <<rec, owner, lease, tree>>
  BY <1>1, <1>2, <1>3, ThenFree
<1>4. CASE begin_restart(job.proc, rec[job.o].profile)
  <2>1. rec[job.o].profile \in Profiles \cup {Nothing}
    BY <1>2, JobIs, RowTyped DEF LifecycleInv
  <2>2. job.proc \in Ops /\ \A q \in Ops : LiveTree(q) => job.proc = q
    BY <1>2, JobsProcess
  <2>3. QED
    BY <1>2, <1>4, <2>1, <2>2, BeginRestart
<1>5. QED
  BY <1>3, <1>4 DEF restart_verified

LEMMA ReconcileRestartIntent ==
  ASSUME LifecycleInv, reconcile_restart_intent
  PROVE  LifecycleInv'
<1>1. job # Nothing /\ job.o \in NotRejected /\ Place("restart_again", job.o, job.proc)
  BY AtPlace DEF reconcile_restart_intent
<1>2. job.o \notin Made
  BY <1>1 DEF Place, Fresh
<1>3. PICK c : c = latest_authorized_excluding(job.o)
  OBVIOUS
<1>4. CASE Then("block_refused") /\ UNCHANGED <<rec, owner, lease, tree>>
  BY <1>1, <1>2, <1>4, Refuses
<1>5. CASE c # Nothing /\ begin_restart(rec[c].proc, rec[job.o].profile)
  <2>1. /\ rec[c].proc \in Ops /\ \A q \in Ops : LiveTree(q) => rec[c].proc = q
    BY <1>1, <1>2, <1>3, <1>5, PreviousHolds
  <2>2. rec[job.o].profile \in Profiles \cup {Nothing}
    BY <1>1, JobIs, RowTyped DEF LifecycleInv
  <2>3. QED
    BY <1>1, <1>5, <2>1, <2>2, BeginRestart
<1>6. QED
  BY <1>3, <1>4, <1>5 DEF reconcile_restart_intent

LEMMA FinishRestart == ASSUME LifecycleInv, finish_restart PROVE LifecycleInv'
<1>1. "replace" \in Named /\ {"block_fault", "cleanup_owner"} \subseteq Free
  BY DEF Named, Free
<1>2. job # Nothing /\ job.o \in NotRejected /\ job.proc # Nothing
  BY <1>1, NamedAt DEF finish_restart
<1>3. PICK o \in Ops, p \in Ops \cup {Nothing} : job.o = o /\ job.proc = p
  BY <1>2, JobTyped DEF LifecycleInv
<1>4. CASE Then("retained") /\ UNCHANGED <<rec, owner, lease, tree>>
  <2>1. "retained" \in Places /\ Place("retained", o, p)
    BY <1>2, <1>3 DEF Places, Place, Gone, Fresh, Named
  <2>2. QED
    BY <1>2, <1>3, <1>4, <2>1, ThenGoes
<1>5. ASSUME NEW why \in {"block_fault", "cleanup_owner"}, Then(why),
             UNCHANGED <<rec, owner, lease, tree>>
      PROVE  LifecycleInv'
  BY <1>1, <1>2, <1>5, ThenFree
<1>6. CASE /\ confirm_exited_without_descendants(job.proc)
           /\ Then("replaced") /\ UNCHANGED <<rec, owner, lease, tree>>
  <2>1. NoTree
    BY <1>2, <1>6, ConfirmedGone
  <2>2. "replaced" \in Places /\ Place("replaced", o, p)
    BY <2>1 DEF Places, Place, Gone, Fresh, Named
  <2>3. QED
    BY <1>2, <1>3, <1>6, <2>2, ThenGoes
<1>7. CASE /\ Verified(job.proc, job.profile)
           /\ StopAndLook(job.proc, "block_fault", "cleanup_owner", "replaced")
  <2>1. job.proc \in Made
    BY <1>2, <1>7, VerifiedMade DEF Verified
  <2>2. QED
    BY <1>2, <1>7, <2>1, Looks
<1>8. CASE ~matches_profile(job.proc, job.profile)
  BY <1>4, <1>8 DEF finish_restart
<1>9. CASE matches_profile(job.proc, job.profile)
  BY <1>5, <1>6, <1>7, <1>9 DEF finish_restart
<1>10. QED
  BY <1>8, <1>9

LEMMA Replaced == ASSUME LifecycleInv, replaced PROVE LifecycleInv'
<1>1. "replaced" \in Gone /\ "Restarting" \in States
  BY DEF Gone, States
<1>2. NoTree /\ job # Nothing /\ job.o \in NotRejected
  BY <1>1, GoneAt DEF replaced
<1>3. \A q \in Ops : ~LiveTree(q)
  BY <1>2 DEF NoTree
<1>4. persist_update("Restarting", Nothing, "replacement_reserve")
  BY DEF replaced
<1>5. QED
  BY <1>1, <1>2, <1>3, <1>4, Persists

\* The handler goes on with its process under another profile.
LEMMA GoesNamed ==
  ASSUME LifecycleInv, job # Nothing, job.o \in NotRejected, NEW p \in Ops,
         \A q \in Ops : LiveTree(q) => p = q, NEW profile \in Profiles \cup {Nothing},
         NEW at, at \in {"restart_reserve_again", "recovered", "verify", "retained"},
         at = "verify" => p = rec[job.o].proc,
         job' = [at |-> at, o |-> job.o, proc |-> p, profile |-> profile],
         UNCHANGED <<rec, owner, lease, tree>>
  PROVE  LifecycleInv'
<1>1. PICK o \in Ops : job.o = o
  BY JobIs
<1>4. p # Nothing
  BY LifecycleConstants
<1>5. at \in Places /\ Place(at, o, p)
  BY <1>1, <1>4 DEF Places, Place, Gone, Fresh, Named
<1>6. QED
  BY <1>1, <1>5, GoesOn

LEMMA ReconcileRestart == ASSUME LifecycleInv, reconcile_restart PROVE LifecycleInv'
<1>1. job # Nothing /\ job.o \in NotRejected
  BY AtPlace DEF reconcile_restart
<1>2. PICK profile : profile = profile_for_operation(job.o)
  OBVIOUS
<1>3. profile \in Profiles \cup {Nothing}
  BY <1>1, <1>2, JobIs, ProfileTyped DEF LifecycleInv
<1>4. CASE job.proc # Nothing
  <2>1. PICK p \in Ops : p = job.proc /\ \A q \in Ops : LiveTree(q) => p = q
    BY <1>1, <1>4, JobsProcess
  <2>2. prepare_restart_recovery(profile)
    BY <1>2, <1>4 DEF reconcile_restart
  <2>3. CASE begin_restart(p, profile)
    BY <1>1, <1>3, <2>1, <2>3, BeginRestart
  <2>4. CASE GiveUp
    BY <2>4, GivesUp
  <2>5. CASE /\ job' = [job EXCEPT !.at = "restart_reserve_again", !.profile = profile]
             /\ UNCHANGED <<rec, owner, lease, tree>>
    <3>1. job = [at |-> job.at, o |-> job.o, proc |-> p, profile |-> job.profile]
      BY <1>1, <2>1, JobTyped DEF LifecycleInv
    <3>2. job' = [at |-> "restart_reserve_again", o |-> job.o, proc |-> p, profile |-> profile]
      <4>1. PICK u : u = [job EXCEPT !.at = "restart_reserve_again"]
        OBVIOUS
      <4>2. u = [at |-> "restart_reserve_again", o |-> job.o, proc |-> p,
                 profile |-> job.profile]
        BY <3>1, <4>1
      <4>3. job' = [u EXCEPT !.profile = profile]
        BY <2>5, <4>1
      <4>4. QED
        BY <4>2, <4>3
    <3>3. QED
      BY <1>1, <1>3, <2>1, <2>5, <3>2, GoesNamed
  <2>6. QED
    BY <2>1, <2>2, <2>3, <2>4, <2>5 DEF prepare_restart_recovery
<1>5. CASE unknown
  BY <1>1, <1>5, Unknowns
<1>6. CASE /\ Created(job.o)
           /\ job' = [job EXCEPT !.at = "recovered", !.proc = job.o, !.profile = profile]
           /\ UNCHANGED <<rec, owner, lease, tree>>
  <2>1. job.o \in Ops /\ \A q \in Ops : LiveTree(q) => job.o = q
    BY <1>1, <1>6, CreatedMade, OwnTree
  <2>2. job = [at |-> job.at, o |-> job.o, proc |-> job.proc, profile |-> job.profile]
    BY <1>1, JobTyped DEF LifecycleInv
  <2>3. job' = [at |-> "recovered", o |-> job.o, proc |-> job.o, profile |-> profile]
    BY <1>6, <2>2
  <2>4. QED
    BY <1>1, <1>3, <1>6, <2>1, <2>3, GoesNamed
<1>7. QED
  BY <1>2, <1>4, <1>5, <1>6 DEF reconcile_restart

-----------------------------------------------------------------------------
(* Recovery and ownership.                                                  *)

LEMMA ReconcileLaunch == ASSUME LifecycleInv, reconcile_launch PROVE LifecycleInv'
<1>1. job # Nothing /\ job.o \in NotRejected /\ Place("launching", job.o, job.proc)
  BY AtPlace DEF reconcile_launch
<1>2. PICK profile : profile = profile_for_operation(job.o)
  OBVIOUS
<1>3. profile \in Profiles \cup {Nothing}
  BY <1>1, <1>2, JobIs, ProfileTyped DEF LifecycleInv
<1>4. job = [at |-> job.at, o |-> job.o, proc |-> job.proc, profile |-> job.profile]
  BY <1>1, JobTyped DEF LifecycleInv
<1>5. ASSUME NEW at \in {"verify", "retained"}, job.proc # Nothing,
             job' = [job EXCEPT !.at = at, !.proc = job.proc, !.profile = profile],
             UNCHANGED <<rec, owner, lease, tree>>
      PROVE  LifecycleInv'
  <2>1. job.proc = rec[job.o].proc
    BY <1>1 DEF Place
  <2>2. job.proc \in Ops /\ \A q \in Ops : LiveTree(q) => job.proc = q
    BY <1>1, <1>5, JobsProcess
  <2>3. job' = [at |-> at, o |-> job.o, proc |-> job.proc, profile |-> profile]
    BY <1>4, <1>5
  <2>4. QED
    BY <1>1, <1>3, <1>5, <2>1, <2>2, <2>3, GoesNamed
<1>6. CASE unknown
  BY <1>1, <1>6, Unknowns
<1>7. CASE /\ Created(job.o)
           /\ job' = [job EXCEPT !.at = "recovered", !.proc = job.o, !.profile = profile]
           /\ UNCHANGED <<rec, owner, lease, tree>>
  <2>1. job.o \in Ops /\ \A q \in Ops : LiveTree(q) => job.o = q
    BY <1>1, <1>7, CreatedMade, OwnTree
  <2>2. job' = [at |-> "recovered", o |-> job.o, proc |-> job.o, profile |-> profile]
    BY <1>4, <1>7
  <2>3. QED
    BY <1>1, <1>3, <1>7, <2>1, <2>2, GoesNamed
<1>8. QED
  BY <1>2, <1>5, <1>6, <1>7 DEF reconcile_launch

LEMMA FinishRecovered == ASSUME LifecycleInv, finish_recovered PROVE LifecycleInv'
<1>1. /\ "recovered" \in Named /\ "Started" \in States
      /\ "cleanup_owner" \in Free /\ "own" \in Free
  BY DEF Named, Free, States
<1>2. job # Nothing /\ job.o \in NotRejected /\ job.proc # Nothing
  BY <1>1, NamedAt DEF finish_recovered
<1>3. job.proc \in Ops /\ \A q \in Ops : LiveTree(q) => job.proc = q
  BY <1>2, JobsProcess
<1>4. CASE persist_update("Started", job.proc, "own")
  BY <1>1, <1>2, <1>3, <1>4, Persists
<1>5. CASE Then("cleanup_owner") /\ UNCHANGED <<rec, owner, lease, tree>>
  BY <1>1, <1>2, <1>5, ThenFree
<1>6. QED
  BY <1>4, <1>5 DEF finish_recovered

LEMMA VerifyRecord == ASSUME LifecycleInv, verify_record PROVE LifecycleInv'
<1>1. "verify" \in Named
  BY DEF Named
<1>2. /\ job # Nothing /\ job.o \in NotRejected /\ job.proc # Nothing
      /\ Place("verify", job.o, job.proc)
  BY <1>1, NamedAt DEF verify_record
<1>3. PICK p \in Ops : p = job.proc /\ \A q \in Ops : LiveTree(q) => p = q
  BY <1>2, JobsProcess
<1>4. rec[job.o].proc = p
  BY <1>2, <1>3 DEF Place
<1>5. PICK profile : profile = profile_for_operation(job.o)
  OBVIOUS
<1>6. profile \in Profiles \cup {Nothing}
  BY <1>2, <1>5, JobIs, ProfileTyped DEF LifecycleInv
<1>7. CASE GiveUp
  BY <1>7, GivesUp
<1>8. CASE /\ rec' = [rec EXCEPT ![job.o].state = Recovered(rec[job.o])]
           /\ job' = [job EXCEPT !.at = "own", !.profile = profile]
           /\ UNCHANGED <<owner, lease, tree>>
  <2>1. PICK state : state = Recovered(rec[job.o])
    OBVIOUS
  <2>2. job.o \in Ops /\ rec[job.o] \in OperationRows /\ rec[job.o].state \in States
        /\ rec \in [Ops -> OperationRows \cup {Nothing}]
    BY <1>2, JobIs, RowTyped DEF LifecycleInv, TypeOK
  <2>3. state \in {"Started", "Attached"} \/ state = rec[job.o].state
    BY <2>1 DEF Recovered
  <2>4. state \in States
    BY <2>2, <2>3 DEF States
  <2> DEFINE r == [rec[job.o] EXCEPT !.state = state]
  <2>5. /\ r \in OperationRows /\ r.kind = rec[job.o].kind /\ r.seq = rec[job.o].seq
        /\ r.lease = rec[job.o].lease /\ r.state = state /\ r.proc = p
    BY <1>4, <2>2, <2>4 DEF OperationRows
  <2>6. rec' = [rec EXCEPT ![job.o] = r]
    BY <1>8, <2>1, <2>2
  <2> HIDE DEF r
  <2>7. job' = [at |-> "own", o |-> job.o, proc |-> p, profile |-> profile]
    <3>1. job = [at |-> job.at, o |-> job.o, proc |-> p, profile |-> job.profile]
      BY <1>2, <1>3, JobTyped DEF LifecycleInv
    <3>2. PICK u : u = [job EXCEPT !.at = "own"]
      OBVIOUS
    <3>3. u = [at |-> "own", o |-> job.o, proc |-> p, profile |-> job.profile]
      BY <3>1, <3>2
    <3>4. job' = [u EXCEPT !.profile = profile]
      BY <1>8, <3>2
    <3>5. QED
      BY <3>3, <3>4
  <2>8. QED
    BY <1>2, <1>3, <1>6, <1>8, <2>3, <2>5, <2>6, <2>7, Takes
<1>9. CASE /\ confirm_exited_without_descendants(job.proc)
           /\ persist_update("Failed", job.proc, "clear")
  BY <1>2, <1>3, <1>9, ConfirmedGone, RecordsEnd
<1>10. CASE persist_update("Unknown", job.proc, "owner_process")
  BY <1>2, <1>10, Retains
<1>11. ASSUME NEW place \in {"done", "owner_process"},
              persist_update("Blocked", job.proc, place)
       PROVE  LifecycleInv'
  BY <1>2, <1>11, Retains
<1>12. QED
  BY <1>5, <1>7, <1>8, <1>9, <1>10, <1>11 DEF verify_record

LEMMA ReconcileRetainedCleanup ==
  ASSUME LifecycleInv, reconcile_retained_cleanup PROVE LifecycleInv'
<1>1. "retained" \in Named /\ "cleanup_owner" \in Free
  BY DEF Named, Free
<1>2. job # Nothing /\ job.o \in NotRejected /\ job.proc # Nothing
  BY <1>1, NamedAt DEF reconcile_retained_cleanup
<1>3. CASE persist_update("Unknown", job.proc, "done")
  BY <1>2, <1>3, Retains
<1>4. CASE persist_update("Blocked", job.proc, "owner_process")
  BY <1>2, <1>4, Retains
<1>5. CASE Then("cleanup_owner") /\ UNCHANGED <<rec, owner, lease, tree>>
  BY <1>1, <1>2, <1>5, ThenFree
<1>6. CASE /\ confirm_exited_without_descendants(job.proc)
           /\ Then("failed") /\ UNCHANGED <<rec, owner, lease, tree>>
  <2>1. PICK o \in Ops, p \in Ops \cup {Nothing} : job.o = o /\ job.proc = p
    BY <1>2, JobTyped DEF LifecycleInv
  <2>2. NoTree
    BY <1>2, <1>6, ConfirmedGone
  <2>3. "failed" \in Places /\ Place("failed", o, p)
    BY <2>2 DEF Places, Place, Gone, Fresh, Named
  <2>4. QED
    BY <1>2, <1>6, <2>1, <2>3, ThenGoes
<1>7. CASE /\ tree[job.proc].proc = "running"
           /\ StopAndLook(job.proc, "cleanup_owner", "cleanup_owner", "failed")
  BY <1>2, <1>7, VerifiedMade, Looks
<1>8. QED
  BY <1>3, <1>4, <1>5, <1>6, <1>7 DEF reconcile_retained_cleanup

LEMMA FinishFailedLaunchCleanup ==
  ASSUME LifecycleInv, finish_failed_launch_cleanup PROVE LifecycleInv'
<1>1. "failed" \in Gone
  BY DEF Gone
<1>2. NoTree /\ job # Nothing /\ job.o \in NotRejected
  BY <1>1, GoneAt DEF finish_failed_launch_cleanup
<1>3. QED
  BY <1>2, RecordsEnd DEF finish_failed_launch_cleanup

LEMMA ReserveOwnership == ASSUME LifecycleInv, reserve_ownership PROVE LifecycleInv'
<1>1. ASSUME NEW p \in Ops \cup {Nothing}, NEW profile \in Profiles \cup {Nothing},
             NEW row, row = Row(job.o, profile, p), job # Nothing, job.o \in NotRejected,
             NEW at \in {"starting", "replace", "start"}, UpdateOwner(row, at),
             at \in {"starting", "start"} => NoTree,
             at = "starting" => rec[job.o].kind = "LaunchNew",
             at = "start" => rec[job.o].proc = Nothing /\ job.proc = Nothing,
             at = "replace" => job.proc # Nothing
      PROVE  LifecycleInv'
  <2>1. /\ row \in OwnershipRows /\ row.op \in Known
        /\ row.seq = rec[job.o].seq /\ row.seq = rec[row.op].seq
        /\ \A q \in Ops : LiveTree(q) => row.seq >= rec[q].seq
    BY <1>1, OwnRow
  <2>2. QED
    BY <1>1, <2>1, Owns
<1>2. job # Nothing
  BY DEF reserve_ownership, JobAt
<1>3. rec[job.o].profile \in Profiles \cup {Nothing} /\ job.profile \in Profiles \cup {Nothing}
      /\ job.proc \in Ops \cup {Nothing}
  BY <1>2, JobIs, JobTyped, RowTyped DEF LifecycleInv
<1>4. CASE JobAt("reserve") /\ UpdateOwner(Row(job.o, rec[job.o].profile, Nothing), "starting")
  <2>1. "reserve" \in Gone
    BY DEF Gone
  <2>2. NoTree /\ job.o \in NotRejected /\ rec[job.o].kind = "LaunchNew"
    BY <1>4, <2>1, GoneAt DEF Place
  <2>3. PICK row : row = Row(job.o, rec[job.o].profile, Nothing)
    OBVIOUS
  <2>4. UpdateOwner(row, "starting")
    BY <1>4, <2>3
  <2>5. QED
    BY <1>1, <1>2, <1>3, <2>2, <2>3, <2>4
<1>5. ASSUME NEW place \in {"restart_reserve", "restart_reserve_again"}, JobAt(place),
             NEW profile \in Profiles \cup {Nothing},
             UpdateOwner(Row(job.o, profile, job.proc), "replace")
      PROVE  LifecycleInv'
  <2>1. place \in Named
    BY DEF Named
  <2>2. job.o \in NotRejected /\ job.proc # Nothing
    BY <1>5, <2>1, NamedAt
  <2>3. PICK row : row = Row(job.o, profile, job.proc)
    OBVIOUS
  <2>4. UpdateOwner(row, "replace")
    BY <1>5, <2>3
  <2>5. QED
    BY <1>1, <1>2, <1>3, <2>2, <2>3, <2>4
<1>6. CASE /\ JobAt("replacement_reserve")
           /\ UpdateOwner(Row(job.o, job.profile, Nothing), "start")
  <2>1. "replacement_reserve" \in Gone
    BY DEF Gone
  <2>2. NoTree /\ job.o \in NotRejected /\ rec[job.o].proc = Nothing /\ job.proc = Nothing
    BY <1>6, <2>1, GoneAt DEF Place
  <2>3. PICK row : row = Row(job.o, job.profile, Nothing)
    OBVIOUS
  <2>4. UpdateOwner(row, "start")
    BY <1>6, <2>3
  <2>5. QED
    BY <1>1, <1>2, <1>3, <2>2, <2>3, <2>4
<1>7. QED
  BY <1>3, <1>4, <1>5, <1>6 DEF reserve_ownership

LEMMA SetOwned == ASSUME LifecycleInv, set_owned PROVE LifecycleInv'
<1>1. job # Nothing /\ job.o \in NotRejected
  BY AtPlace DEF set_owned
<1>2. job.profile \in Profiles \cup {Nothing} /\ job.proc \in Ops \cup {Nothing}
  BY <1>1, JobTyped DEF LifecycleInv
<1>3. PICK row : row = Row(job.o, job.profile, job.proc)
  OBVIOUS
<1>4. /\ row \in OwnershipRows /\ row.op \in Known /\ row.seq = rec[row.op].seq
      /\ \A q \in Ops : LiveTree(q) => row.seq >= rec[q].seq
  BY <1>1, <1>2, <1>3, OwnRow
<1>5. UpdateOwner(row, "done")
  BY <1>3 DEF set_owned
<1>6. QED
  BY <1>1, <1>4, <1>5, Owns

LEMMA SetOwnerProcess ==
  ASSUME LifecycleInv, set_owner_process_for_operation PROVE LifecycleInv'
<1>1. PICK at \in {"done", "cleanup_record"} :
        UpdateOwnerProcess(at) /\ (JobAt("owner_process") \/ JobAt("cleanup_owner"))
  BY DEF set_owner_process_for_operation
<1>2. job # Nothing /\ job.o \in NotRejected
  BY <1>1, AtPlace
<1>3. QED
  BY <1>1, <1>2, OwnsProcess

LEMMA ClearOwned == ASSUME LifecycleInv, clear_owned_for PROVE LifecycleInv'
<1>1. job' = Nothing /\ UNCHANGED <<rec, lease, tree>> /\ owner' \in {Nothing, owner}
  BY DEF clear_owned_for, Then
<1>2. Shrinks /\ lease' \in Leases
  BY <1>1 DEF Shrinks, LifecycleInv, TypeOK, Made, LiveTree, RowsTrue
<1>3. OwnerNext
  BY <1>1 DEF OwnerNext, LifecycleInv, TypeOK, RowsTrue, TreesHeld, TreeHeld
<1>4. QED
  BY <1>1, <1>2, <1>3, Ends, SameRows

-----------------------------------------------------------------------------
(* The gateway's environment.                                               *)

\* A place asks no more when trees go.
LEMMA PlaceShrinks ==
  ASSUME UNCHANGED <<rec, owner, job>>, Shrinks, JobPlaced, job # Nothing => job.o \in Ops
  PROVE  JobPlaced'
<1>1. NoTree => NoTree'
  BY DEF Shrinks, NoTree
<1>2. Made' = Made
  BY DEF Shrinks
<1>3. \A o \in Ops : ~LiveTree(o) => ~LiveTree(o)'
  BY DEF Shrinks
<1>4. QED
  BY <1>1, <1>2, <1>3 DEF JobPlaced, Place

\* The trees shrink while the handler waits.
LEMMA TreeMoves ==
  ASSUME LifecycleInv, Shrinks, UNCHANGED <<rec, owner, lease, job>>
  PROVE  LifecycleInv'
<1>1. JobNext
  BY JobIs DEF JobNext, LifecycleInv, TypeOK
<1>2. OwnerNext /\ lease' \in Leases
  BY DEF OwnerNext, LifecycleInv, TypeOK, RowsTrue, TreesHeld, TreeHeld
<1>3. JobPlaced'
  BY JobIs, PlaceShrinks DEF LifecycleInv
<1>4. job' # Nothing => job.o \in NotRejected \/ job'.at = "clear"
  BY JobIs
<1>5. QED
  BY <1>1, <1>2, <1>3, <1>4, SameRows

LEMMA Appears ==
  ASSUME LifecycleInv, NEW o \in Ops, ProcessAppears(o)
  PROVE  LifecycleInv'
<1>1. PICK good \in BOOLEAN : tree' = [tree EXCEPT ![o].proc = "running", ![o].good = good]
  BY DEF ProcessAppears
<1>2. tree[o].proc = "requested" /\ UNCHANGED <<rec, owner, lease, job>>
  BY DEF ProcessAppears
<1>3. tree \in [Ops -> Trees] /\ tree[o] \in Trees /\ o \in Made /\ LiveTree(o)
  BY <1>2 DEF LifecycleInv, TypeOK, Made, LiveTree
<1> DEFINE t == [tree[o] EXCEPT !.proc = "running", !.good = good]
<1>4. t \in Trees /\ t.proc = "running"
  BY <1>3 DEF Trees
<1>5. tree' = [tree EXCEPT ![o] = t]
  BY <1>1, <1>3
<1> HIDE DEF t
<1>6. Shrinks
  BY <1>3, <1>4, <1>5, TreeLess
<1>7. QED
  BY <1>2, <1>6, TreeMoves

\* The descendants of a process change.
LEMMA KidsChange ==
  ASSUME LifecycleInv, NEW o \in Ops, NEW kids \in {"none", "approved", "foreign"},
         tree[o].proc = "running" \/ tree[o].kids # "none",
         tree' = [tree EXCEPT ![o].kids = kids], UNCHANGED <<rec, owner, lease, job>>
  PROVE  LifecycleInv'
<1>1. tree \in [Ops -> Trees] /\ tree[o] \in Trees /\ LiveTree(o) /\ o \in Made
      /\ tree[o].proc # "none"
  BY LiveMade DEF LifecycleInv, TypeOK, Made, LiveTree
<1> DEFINE t == [tree[o] EXCEPT !.kids = kids]
<1>2. t \in Trees /\ t.proc = tree[o].proc
  BY <1>1 DEF Trees
<1>3. tree' = [tree EXCEPT ![o] = t]
  BY <1>1
<1> HIDE DEF t
<1>4. Shrinks
  BY <1>1, <1>2, <1>3, TreeLess
<1>5. QED
  BY <1>4, TreeMoves

LEMMA Forks ==
  ASSUME LifecycleInv, NEW o \in Ops, ProcessForks(o)
  PROVE  LifecycleInv'
BY KidsChange DEF ProcessForks

LEMMA Exits ==
  ASSUME LifecycleInv, NEW o \in Ops, ProcessExits(o)
  PROVE  LifecycleInv'
<1>1. UNCHANGED <<rec, owner, lease, job>>
  BY DEF ProcessExits
<1>2. CASE tree[o].proc = "running" /\ tree' = Exited(o, tree[o].kids)
  <2>1. /\ o \in Made /\ LiveTree(o)
        /\ tree[o].kids \in {"none", "approved", "foreign"} /\ tree[o].good \in BOOLEAN
    BY <1>2, TreeTyped DEF Made, LifecycleInv, LiveTree
  <2> DEFINE t == [proc |-> "exited", kids |-> tree[o].kids, good |-> tree[o].good]
  <2>2. t \in Trees /\ t.proc = "exited"
    BY <2>1 DEF Trees
  <2>3. tree' = [tree EXCEPT ![o] = t]
    BY <1>2 DEF Exited
  <2> HIDE DEF t
  <2>4. Shrinks
    BY <2>1, <2>2, <2>3, TreeLess
  <2>5. QED
    BY <1>1, <2>4, TreeMoves
<1>3. CASE tree[o].kids # "none" /\ tree' = [tree EXCEPT ![o].kids = "none"]
  BY <1>1, <1>3, KidsChange
<1>4. QED
  BY <1>2, <1>3 DEF ProcessExits

\* The profile the recovered ownership would have.
LEMMA RecordProfileTyped ==
  ASSUME TypeOK, Bounded, NEW o \in Known
  PROVE  profile_id_for_record(o) \in Profiles \cup {Nothing}
<1> DEFINE S == {c \in NotRejected : rec[c].proc = rec[o].proc /\ Creates(c)}
<1>1. S \subseteq Known
  BY DEF NotRejected
<1>2. S # {} => Latest(S) \in Known
  BY <1>1, LatestIs
<1>3. S # {} => rec[Latest(S)].profile \in Profiles \cup {Nothing}
  BY <1>2, RowTyped
<1>4. rec[o].profile \in Profiles \cup {Nothing}
  BY RowTyped
<1>5. QED
  BY <1>3, <1>4 DEF profile_id_for_record

LEMMA GatewayRestart ==
  ASSUME LifecycleInv, NEW l \in Leases, Restart(l)
  PROVE  LifecycleInv'
<1>1. /\ job' = Nothing /\ lease' \in Leases /\ owner' = bootstrap_ownership
      /\ UNCHANGED <<rec, tree>>
  BY DEF Restart
<1>2. Shrinks
  BY <1>1 DEF Shrinks, LifecycleInv, TypeOK, Made, LiveTree, RowsTrue
<1>3. PICK latest : latest = latest_authoritative_record
  OBVIOUS
<1>4. CASE owner' \in {owner, Nothing}
  <2>1. OwnerNext
    BY <1>4 DEF OwnerNext, LifecycleInv, TypeOK, RowsTrue, TreesHeld, TreeHeld
  <2>2. QED
    BY <1>1, <1>2, <2>1, Ends, SameRows
<1>5. CASE /\ latest # Nothing
           /\ owner' = Row(latest, profile_id_for_record(latest), rec[latest].proc)
  <2>1. NotRejected # {} /\ NotRejected \subseteq Known
    BY <1>3, <1>5 DEF latest_authoritative_record, Latest, NotRejected
  <2>2. latest \in NotRejected /\ \A c \in NotRejected : rec[c].seq <= rec[latest].seq
    BY <1>3, <2>1, LatestIs DEF latest_authoritative_record, LifecycleInv
  <2>3. latest \in Known /\ latest \in Ops /\ rec[latest].seq \in Nat
        /\ rec[latest].proc \in Ops \cup {Nothing}
        /\ profile_id_for_record(latest) \in Profiles \cup {Nothing}
    BY <2>1, <2>2, RowTyped, RecordProfileTyped DEF LifecycleInv
  <2>4. /\ owner' \in OwnershipRows /\ owner'.op = latest /\ owner'.seq = rec[latest].seq
    BY <1>5, <2>3 DEF Row, OwnershipRows
  <2>5. \A q \in Ops : LiveTree(q) => q \in NotRejected /\ rec[q].seq \in Nat
    <3>1. \A q \in Ops : LiveTree(q) => q \in NotRejected
      BY DEF LifecycleInv, TreesHeld, TreeHeld
    <3>2. QED
      BY <2>1, <3>1, RowTyped DEF LifecycleInv
  <2>6. OwnerNext
    BY <2>2, <2>3, <2>4, <2>5 DEF OwnerNext
  <2>7. QED
    BY <1>1, <1>2, <2>6, Ends, SameRows
<1>6. QED
  BY <1>1, <1>3, <1>4, <1>5 DEF bootstrap_ownership

LEMMA StoreFailure == ASSUME LifecycleInv, StoreFails PROVE LifecycleInv'
BY GivesUp DEF StoreFails

-----------------------------------------------------------------------------
(* Submissions and replays.                                                 *)

\* The latest operation that is not rejected, while something is live: it is
\* active and not older than what is live.
LEMMA LatestHolds ==
  ASSUME LifecycleInv, NEW q \in Ops, LiveTree(q)
  PROVE  LET latest == latest_authoritative_record
         IN /\ latest # Nothing /\ latest \in Known /\ is_active(rec[latest])
            /\ rec[latest].seq >= rec[q].seq
<1>1. TreeHeld(q) /\ q \in NotRejected /\ NotRejected \subseteq Known
  BY DEF LifecycleInv, TreesHeld, TreeHeld, NotRejected
<1>2. PICK latest : latest = latest_authoritative_record
  OBVIOUS
<1>3. latest \in NotRejected /\ rec[q].seq <= rec[latest].seq
  BY <1>1, <1>2, LatestIs DEF latest_authoritative_record, LifecycleInv
<1>4. latest \in Known /\ latest \in Ops /\ rec[latest].seq \in Nat /\ rec[q].seq \in Nat
  BY <1>1, <1>3, RowTyped DEF LifecycleInv
<1>5. rec[latest].seq >= rec[q].seq
  BY <1>3, <1>4
<1>6. is_active(rec[latest])
  BY <1>1, <1>3, <1>5 DEF TreeHeld
<1>7. latest # Nothing
  BY <1>4, LifecycleConstants
<1>8. QED
  BY <1>2, <1>4, <1>5, <1>6, <1>7

\* A launch is not admitted while something is live.
LEMMA LaunchHeld ==
  ASSUME LifecycleInv, NEW q \in Ops, LiveTree(q)
  PROVE  ~reserve_action("LaunchNew", Nothing)
BY LatestHolds DEF reserve_action

\* The operation a new one refers to.
LEMMA NewestHolds ==
  ASSUME LifecycleInv, NEW c, c = latest_authorized_excluding(Nothing), c # Nothing
  PROVE  /\ c \in NotRejected /\ c \in Known /\ rec[c].lease = lease
         /\ \A q \in Ops : LiveTree(q) => rec[c].proc = q /\ rec[c].seq >= rec[q].seq
<1>1. CASE owner # Nothing
  <2>1. c = owner.op /\ Authorized(c)
    BY <1>1 DEF latest_authorized_excluding
  <2>2. c \in Known /\ owner.seq = rec[c].seq
    BY <1>1, <2>1 DEF LifecycleInv, RowsTrue
  <2>3. \A q \in Ops : LiveTree(q) => owner.seq >= rec[q].seq
    BY <1>1 DEF LifecycleInv, TreesHeld, TreeHeld
  <2>4. QED
    BY <2>1, <2>2, <2>3, AuthorizedHolds
<1>2. CASE owner = Nothing
  <2>1. PICK latest : latest = latest_authoritative_record
    OBVIOUS
  <2>2. c = latest /\ latest # Nothing /\ Authorized(latest)
    BY <1>2, <2>1 DEF latest_authorized_excluding
  <2>3. NotRejected # {} /\ NotRejected \subseteq Known
    BY <2>1, <2>2 DEF latest_authoritative_record, Latest, NotRejected
  <2>4. c \in NotRejected /\ c \in Known
    BY <2>1, <2>2, <2>3, LatestIs DEF latest_authoritative_record, LifecycleInv
  <2>5. \A q \in Ops : LiveTree(q) => rec[c].seq >= rec[q].seq
    BY <2>1, <2>2, LatestHolds
  <2>6. QED
    BY <2>2, <2>4, <2>5, AuthorizedHolds
<1>3. QED
  BY <1>1, <1>2

LEMMA Submits ==
  ASSUME LifecycleInv, NEW o \in Ops \ Known, NEW request \in Requests, Submit(o, request)
  PROVE  LifecycleInv'
<1> DEFINE kind == request.kind
           r == [kind |-> kind, profile |-> request.profile, target |-> request.target,
                 seq |-> issue_sequence, req |-> current_authority_epoch,
                 auth |-> current_authority_epoch, lease |-> lease,
                 state |-> "IntentRecorded", proc |-> Nothing]
<1>1. /\ job = Nothing /\ reserve_action(kind, request.target)
      /\ rec' = [rec EXCEPT ![o] = r] /\ UNCHANGED <<owner, lease, tree>>
      /\ job' = [at |-> First(kind), o |-> o, proc |-> Nothing, profile |-> request.profile]
  BY DEF Submit
<1>2. /\ kind \in LifecycleActions /\ request.profile \in Profiles \cup {Nothing}
      /\ request.target \in Ops \cup {Nothing}
  BY DEF Requests, LifecycleActions
<1>3. issue_sequence \in Nat /\ \A c \in Known : rec[c].seq < issue_sequence
  BY IssuedLast DEF LifecycleInv
<1>4. current_authority_epoch \in 1..MaxEpoch /\ lease \in Leases
  BY EpochTyped DEF LifecycleInv, TypeOK
<1>5. /\ r \in OperationRows /\ r.kind = kind /\ r.seq = issue_sequence /\ r.lease = lease
      /\ r.state = "IntentRecorded" /\ r.proc = Nothing
  BY <1>2, <1>3, <1>4 DEF OperationRows, States
<1> HIDE DEF r, kind
<1>6. /\ rec' \in [Ops -> OperationRows \cup {Nothing}]
      /\ rec'[o] = r /\ \A c \in Ops \ {o} : rec'[c] = rec[c]
  BY <1>1, <1>5 DEF LifecycleInv, TypeOK
<1>7. r # Nothing
  BY <1>5, NothingIsNoRow
<1>8. Known' = Known \cup {o} /\ \A c \in Known : rec'[c] = rec[c] /\ c # o
  BY <1>6, <1>7 DEF Known
<1>9. NotRejected' = NotRejected \cup {o} /\ NotRejected \subseteq Known
  BY <1>5, <1>6, <1>8 DEF NotRejected
<1>10. Made' = Made /\ (\A p : LiveTree(p)' = LiveTree(p)) /\ Made \subseteq Known
  BY <1>1 DEF Made, LiveTree, LifecycleInv, RowsTrue
<1>11. \A c \in Known : rec[c].seq \in Nat
  BY RowTyped DEF LifecycleInv
<1>12. First(kind) \in {"reserve", "attach", "stop", "restart"}
       /\ (First(kind) = "reserve" => kind = "LaunchNew")
  BY <1>2 DEF First, LifecycleActions
<1>13. job' \in Jobs /\ job'.at = First(kind) /\ job'.o = o /\ job'.proc = Nothing
  BY <1>1, <1>2, <1>12 DEF Jobs, Places
<1>14. kind = "LaunchNew" => NoTree
  BY <1>1, LaunchHeld DEF NoTree, reserve_action
<1>15. TypeOK'
  BY <1>1, <1>6, <1>13 DEF LifecycleInv, TypeOK
<1>16. Bounded'
  <2>1. \A c \in Known' : rec'[c].seq <= issue_sequence
    BY <1>3, <1>5, <1>6, <1>8, <1>11
  <2>2. QED
    BY <1>3, <2>1 DEF Bounded
<1>17. RowsTrue'
  <2>1. \A c, d \in Known' : rec'[c].seq = rec'[d].seq => c = d
    BY <1>3, <1>5, <1>6, <1>8, <1>11 DEF LifecycleInv, RowsTrue
  <2>2. owner' # Nothing => owner'.op \in Known' /\ owner'.seq = rec'[owner'.op].seq
    BY <1>1, <1>8 DEF LifecycleInv, RowsTrue
  <2>3. \A c \in Made' : c \in Known' /\ Creates(c)' /\ rec'[c].state # "IntentRecorded"
    <3>1. \A c \in Made : c \in Known /\ Creates(c) /\ rec[c].state # "IntentRecorded"
      BY DEF LifecycleInv, RowsTrue
    <3>2. QED
      BY <1>8, <1>10, <3>1 DEF Creates
  <2>4. \A c \in Known' : rec'[c].state \in {"Started", "Attached"} => rec'[c].proc # Nothing
    BY <1>5, <1>6, <1>8 DEF LifecycleInv, RowsTrue
  <2>5. \A c \in Known' : rec'[c].state = "Starting" => rec'[c].kind = "LaunchNew"
    BY <1>5, <1>6, <1>8 DEF LifecycleInv, RowsTrue
  <2>6. \A c \in Ops : tree'[c].kids # "none" => c \in Made'
    BY <1>1, <1>10 DEF LifecycleInv, RowsTrue
  <2>7. QED
    BY <2>1, <2>2, <2>3, <2>4, <2>5, <2>6 DEF RowsTrue
<1>18. JobCurrent'
  <2>1. \A c \in NotRejected' : rec'[c].seq <= rec'[o].seq
    BY <1>3, <1>5, <1>6, <1>8, <1>9, <1>11
  <2>2. QED
    BY <1>1, <1>5, <1>6, <1>8, <1>9, <1>13, <2>1 DEF JobCurrent
<1>19. JobPlaced'
  <2>1. o \notin Made'
    BY <1>10
  <2>2. kind = "LaunchNew" => NoTree'
    BY <1>10, <1>14 DEF NoTree
  <2>3. rec'[o].kind = kind
    BY <1>5, <1>6
  <2>4. QED
    BY <1>12, <1>13, <2>1, <2>2, <2>3 DEF JobPlaced, Place, Gone, Fresh, Named
<1>20. TreesHeld'
  <2>1. ASSUME NEW p \in Ops, LiveTree(p) PROVE TreeHeld(p)'
    <3>1. TreeHeld(p) /\ p \in NotRejected /\ p \in Known /\ kind # "LaunchNew"
      BY <1>9, <1>14, <2>1 DEF LifecycleInv, TreesHeld, TreeHeld, NoTree
    <3>2. p \in NotRejected'
      BY <1>9, <3>1
    <3>3. \A c \in NotRejected' : rec'[c].seq >= rec'[p].seq =>
            is_active(rec'[c]) /\ rec'[c].proc \in {Nothing, p}
      BY <1>5, <1>6, <1>8, <1>9, <3>1 DEF TreeHeld, is_active
    <3>4. ASSUME NEW d \in NotRejected', rec'[d].seq > rec'[p].seq
          PROVE  \E c \in NotRejected' :
                   /\ rec'[p].seq <= rec'[c].seq /\ rec'[c].seq < rec'[d].seq
                   /\ rec'[c].proc = p /\ rec'[c].lease = rec'[d].lease
      <4>1. CASE d # o
        <5>1. d \in NotRejected /\ rec[d].seq > rec[p].seq
          BY <1>8, <1>9, <3>1, <3>4, <4>1
        <5>2. PICK c \in NotRejected : /\ rec[p].seq <= rec[c].seq /\ rec[c].seq < rec[d].seq
                                       /\ rec[c].proc = p /\ rec[c].lease = rec[d].lease
          BY <3>1, <5>1 DEF TreeHeld
        <5>3. QED
          BY <1>8, <1>9, <3>1, <5>1, <5>2
      <4>2. CASE d = o
        <5>1. PICK c : c = latest_authorized_excluding(Nothing)
          OBVIOUS
        <5>2. c # Nothing
          BY <1>1, <3>1, <5>1 DEF reserve_action
        <5>3. /\ c \in NotRejected /\ c \in Known /\ rec[c].lease = lease /\ rec[c].proc = p
              /\ rec[c].seq >= rec[p].seq
          BY <2>1, <5>1, <5>2, NewestHolds
        <5>4. rec[p].seq <= rec[c].seq /\ rec[c].seq < issue_sequence
          BY <1>3, <1>11, <3>1, <5>3
        <5>5. QED
          BY <1>5, <1>6, <1>8, <1>9, <3>1, <4>2, <5>3, <5>4
      <4>3. QED
        BY <4>1, <4>2
    <3>5. \A c \in NotRejected' \cap Made' : rec'[c].seq <= rec'[p].seq
      BY <1>8, <1>9, <1>10, <3>1 DEF TreeHeld
    <3>6. owner' # Nothing => owner'.seq >= rec'[p].seq
      BY <1>1, <1>8, <3>1 DEF TreeHeld
    <3>7. job'.proc \in {Nothing, p}
      BY <1>13
    <3>8. QED
      BY <3>2, <3>3, <3>4, <3>5, <3>6, <3>7 DEF TreeHeld
  <2>2. \A p, q \in Ops : LiveTree(p) /\ LiveTree(q) => p = q
    BY DEF LifecycleInv, TreesHeld
  <2>3. QED
    BY <1>10, <2>1, <2>2 DEF TreesHeld
<1>21. QED
  BY <1>15, <1>16, <1>17, <1>18, <1>19, <1>20 DEF LifecycleInv

\* A handler takes up the latest operation, at a place whose demands are met.
LEMMA Begins ==
  ASSUME LifecycleInv, job = Nothing, NEW o \in Known, is_active(rec[o]), rec[o].lease = lease,
         operation_is_current(o), NEW at, at \in Places, Begin(o, at),
         Place(at, o, rec[o].proc)
  PROVE  LifecycleInv'
<1>1. /\ job' = [at |-> at, o |-> o, proc |-> rec[o].proc, profile |-> profile_for_operation(o)]
      /\ UNCHANGED <<rec, owner, lease, tree>>
  BY DEF Begin
<1>2. o \in Ops /\ o # Nothing /\ rec[o].proc \in Ops \cup {Nothing}
      /\ profile_for_operation(o) \in Profiles \cup {Nothing}
  BY RowTyped, ProfileTyped, LifecycleConstants DEF LifecycleInv
<1>3. job' \in Jobs /\ job'.at = at /\ job'.o = o /\ job'.proc = rec[o].proc
  BY <1>1, <1>2 DEF Jobs
<1>4. o \in NotRejected /\ NotRejected \subseteq Known
  BY DEF is_active, NotRejected
<1>5. \A c \in NotRejected : rec[c].seq <= rec[o].seq
  <2>1. Latest(NotRejected) \in NotRejected
        /\ \A c \in NotRejected : rec[c].seq <= rec[Latest(NotRejected)].seq
    BY <1>4, LatestIs DEF LifecycleInv
  <2>2. Latest(NotRejected) # Nothing
    BY <1>4, <2>1, LifecycleConstants DEF Known
  <2>3. Latest(NotRejected) = o
    BY <2>2 DEF operation_is_current, latest_authoritative_record
  <2>4. QED
    BY <2>1, <2>3
<1>6. Known' = Known /\ NotRejected' = NotRejected /\ Made' = Made
      /\ (\A p : LiveTree(p)' = LiveTree(p)) /\ \A c : Creates(c)' = Creates(c)
  BY <1>1 DEF Known, NotRejected, Made, LiveTree, Creates
<1>7. TypeOK'
  BY <1>1, <1>3 DEF LifecycleInv, TypeOK
<1>8. Bounded' /\ RowsTrue'
  BY <1>1, <1>6 DEF LifecycleInv, Bounded, RowsTrue
<1>9. JobCurrent'
  BY <1>1, <1>3, <1>4, <1>5, <1>6 DEF JobCurrent
<1>10. JobPlaced'
  <2>1. PICK p : p = rec[o].proc
    OBVIOUS
  <2>2. Place(at, o, p)'
    BY <1>1, <2>1, PlaceSame
  <2>3. QED
    BY <1>3, <2>1, <2>2 DEF JobPlaced
<1>11. TreesHeld'
  <2>1. ASSUME NEW p \in Ops, LiveTree(p) PROVE TreeHeld(p)'
    <3>1. TreeHeld(p) /\ p \in NotRejected /\ rec[p].seq <= rec[o].seq
      BY <1>5, <2>1 DEF LifecycleInv, TreesHeld, TreeHeld
    <3>2. rec[p].seq \in Nat /\ rec[o].seq \in Nat
      BY <1>4, <3>1, RowTyped DEF LifecycleInv
    <3>3. rec[o].proc \in {Nothing, p}
      BY <1>4, <3>1, <3>2 DEF TreeHeld
    <3>4. QED
      BY <1>1, <1>3, <1>6, <3>1, <3>3 DEF TreeHeld
  <2>2. QED
    BY <1>6, <2>1 DEF LifecycleInv, TreesHeld
<1>12. QED
  BY <1>7, <1>8, <1>9, <1>10, <1>11 DEF LifecycleInv

\* Where an active operation is taken up, what its row says meets the demands
\* of the place.
LEMMA Resumes ==
  ASSUME LifecycleInv, NEW o \in Known, NEW at, at = Resume(rec[o]), at # "done"
  PROVE  at \in Places /\ Place(at, o, rec[o].proc)
<1>1. /\ rec[o].state \in States /\ rec[o].kind \in LifecycleActions
  BY RowTyped DEF LifecycleInv
<1>2. /\ rec[o].state \in {"Started", "Attached"} => rec[o].proc # Nothing
      /\ rec[o].state = "Starting" => rec[o].kind = "LaunchNew"
      /\ o \in Made => Creates(o) /\ rec[o].state # "IntentRecorded"
  BY DEF LifecycleInv, RowsTrue
<1>3. at \in {"verify", "stopping", "restarting", "launching", "attach", "stop_again",
              "restart_again"}
  BY DEF Resume
<1>4. at = "verify" => rec[o].state \in {"Started", "Attached"}
  BY DEF Resume
<1>5. at = "attach" => rec[o].kind = "AttachExisting"
  BY DEF Resume
<1>6. at = "stop_again" => rec[o].kind = "Stop"
  BY DEF Resume
<1>7. at = "restart_again" => rec[o].kind = "Restart" /\ rec[o].state = "IntentRecorded"
  <2>1. PICK r : r = rec[o]
    OBVIOUS
  <2>2. at = "restart_again" =>
          /\ r.state \in {"IntentRecorded", "Starting"} /\ r.kind # "Stop"
          /\ r.kind # "LaunchNew" /\ r.kind # "AttachExisting"
    BY <2>1 DEF Resume
  <2>3. QED
    BY <1>1, <1>2, <2>1, <2>2 DEF LifecycleActions
<1>8. at \in Fresh => o \notin Made
  BY <1>2, <1>3, <1>5, <1>6, <1>7 DEF Fresh, Creates
<1>9. at \in Named => rec[o].proc # Nothing
  BY <1>2, <1>3, <1>4 DEF Named
<1>10. QED
  BY <1>3, <1>8, <1>9 DEF Places, Place, Gone

LEMMA Replays ==
  ASSUME ~SupersededReplays, LifecycleInv, NEW o \in Known,
         replay(o) \/ reconcile_operation(o)
  PROVE  LifecycleInv'
<1>1. PICK at : at = Resume(rec[o])
  OBVIOUS
<1>2. /\ job = Nothing /\ is_active(rec[o]) /\ rec[o].lease = lease /\ operation_is_current(o)
      /\ Begin(o, at)
  BY <1>1 DEF replay, reconcile_operation
<1>3. at \in Places /\ Place(at, o, rec[o].proc)
  BY <1>1, <1>2, Resumes DEF Begin
<1>4. QED
  BY <1>2, <1>3, Begins
-----------------------------------------------------------------------------
(* The theorems.                                                            *)

LEMMA LifecycleStarts == LifecycleInit => LifecycleInv
<1> SUFFICES ASSUME LifecycleInit PROVE LifecycleInv
  OBVIOUS
<1>1. Known = {} /\ NotRejected = {} /\ Made = {} /\ \A p \in Ops : ~LiveTree(p)
  BY DEF LifecycleInit, Known, NotRejected, Made, LiveTree
<1>2. TypeOK
  BY DEF LifecycleInit, TypeOK, Trees
<1>3. Bounded
  <2>1. \A o \in Known : rec[o].seq <= 0
    BY <1>1
  <2>2. QED
    BY <2>1 DEF Bounded
<1>4. RowsTrue
  BY <1>1 DEF LifecycleInit, RowsTrue
<1>5. JobCurrent /\ JobPlaced /\ TreesHeld
  BY <1>1 DEF LifecycleInit, JobCurrent, JobPlaced, TreesHeld
<1>6. QED
  BY <1>2, <1>3, <1>4, <1>5 DEF LifecycleInv

LEMMA LifecycleStutters ==
  ASSUME LifecycleInv, UNCHANGED lifecycle_vars
  PROVE  LifecycleInv'
<1>1. Shrinks
  BY DEF lifecycle_vars, Shrinks, LifecycleInv, TypeOK, Made, LiveTree, RowsTrue
<1>2. QED
  BY <1>1, TreeMoves DEF lifecycle_vars

LEMMA LifecycleSteps ==
  ASSUME ~SupersededReplays
  PROVE  LifecycleInv /\ [LifecycleNext]_lifecycle_vars => LifecycleInv'
<1> SUFFICES ASSUME LifecycleInv, [LifecycleNext]_lifecycle_vars PROVE LifecycleInv'
  OBVIOUS
<1>1. ASSUME NEW o \in Ops \ Known, NEW request \in Requests, Submit(o, request)
      PROVE  LifecycleInv'
  BY <1>1, Submits
<1>2. CASE reserve_ownership \/ set_owned \/ set_owner_process_for_operation \/ clear_owned_for
  BY <1>2, ReserveOwnership, SetOwned, SetOwnerProcess, ClearOwned
<1>3. CASE block_operation \/ block_cleanup
  BY <1>3, BlockOperation, BlockCleanup
<1>4. CASE \/ execute_launch \/ StartGeneration \/ process_failure
           \/ finish_start \/ finish_start_failure
  BY <1>4, ExecuteLaunch, StartsGeneration, ProcessFailure, FinishStart, FinishStartFailure
<1>5. CASE execute_attach \/ attach_verified
  BY <1>5, ExecuteAttach, AttachVerified
<1>6. CASE \/ execute_stop \/ reconcile_stop_intent \/ StopVerified
           \/ stopped \/ reconcile_stopping
  <2>1. "stop" \in Fresh /\ "stop_again" \in Fresh
    BY DEF Fresh
  <2>2. QED
    BY <1>6, <2>1, StopsIntent, StopVerifies, StopRecorded, ReconcileStopping
       DEF execute_stop, reconcile_stop_intent
<1>7. CASE \/ execute_restart \/ restart_verified \/ reconcile_restart_intent
           \/ finish_restart \/ replaced \/ reconcile_restart
  BY <1>7, ExecuteRestart, RestartVerified, ReconcileRestartIntent, FinishRestart, Replaced,
     ReconcileRestart
<1>8. CASE \/ reconcile_launch \/ finish_recovered \/ verify_record
           \/ reconcile_retained_cleanup \/ finish_failed_launch_cleanup
  BY <1>8, ReconcileLaunch, FinishRecovered, VerifyRecord, ReconcileRetainedCleanup,
     FinishFailedLaunchCleanup
<1>9. ASSUME NEW o \in Known, replay(o) \/ reconcile_operation(o)
      PROVE  LifecycleInv'
  BY <1>9, Replays
<1>10. CASE StoreFails
  BY <1>10, StoreFailure
<1>11. ASSUME NEW l \in Leases, Restart(l) PROVE LifecycleInv'
  BY <1>11, GatewayRestart
<1>12. ASSUME NEW o \in Ops, ProcessAppears(o) \/ ProcessForks(o) \/ ProcessExits(o)
       PROVE  LifecycleInv'
  BY <1>12, Appears, Forks, Exits
<1>13. CASE UNCHANGED lifecycle_vars
  BY <1>13, LifecycleStutters
<1>14. QED
  BY <1>1, <1>2, <1>3, <1>4, <1>5, <1>6, <1>7, <1>8, <1>9, <1>10, <1>11, <1>12, <1>13
     DEF LifecycleNext

\* The invariant, while superseded operations are not resubmitted.
THEOREM LifecycleInvariant ==
  ASSUME ~SupersededReplays
  PROVE  LifecycleSpec => []LifecycleInv
BY LifecycleStarts, LifecycleSteps, PTL DEF LifecycleSpec

\* At most one set has at most one member.
LEMMA OneAtMost ==
  ASSUME NEW S, \A p, q \in S : p = q
  PROVE  Cardinality(S) <= 1
<1>1. CASE S = {}
  BY <1>1, FS_EmptySet
<1>2. CASE S # {}
  <2>1. PICK p \in S : TRUE
    BY <1>2
  <2>2. S = {p}
    BY <2>1
  <2>3. Cardinality({p}) = 1
    BY FS_Singleton
  <2>4. QED
    BY <2>2, <2>3
<1>3. QED
  BY <1>1, <1>2

\* No sequence of launches, restarts, faults and crashes makes a second process
\* tree while the first can still be there (reserve_action, process_failure and
\* finish_restart together), as long as superseded operations are not
\* resubmitted.
THEOREM OneTreeOfInstanceTheorem ==
  ASSUME ~SupersededReplays
  PROVE  LifecycleSpec => []OneTree
<1>1. LifecycleInv => OneTree
  BY OneAtMost DEF LifecycleInv, TreesHeld, OneTree
<1>2. QED
  BY <1>1, LifecycleInvariant, PTL

\* Between two handlers a tree that can still be there keeps the instance.  With
\* superseded operations resubmitted this fails: nothing else can take the
\* instance from a live tree.
THEOREM LiveIsHeldTheorem ==
  ASSUME ~SupersededReplays
  PROVE  LifecycleSpec => []LiveIsHeld
<1>1. LifecycleInv => LiveIsHeld
  BY LaunchHeld DEF LiveIsHeld
<1>2. QED
  BY <1>1, LifecycleInvariant, PTL

-----------------------------------------------------------------------------
(* What a step does to the rows.                                            *)

\* Only the row of the operation under way changes, and the trees stay.
RowWritten ==
  /\ job # Nothing /\ job.o \in NotRejected /\ UNCHANGED tree
  /\ \A c \in Ops \ {job.o} : rec'[c] = rec[c]
  /\ rec'[job.o].seq = rec[job.o].seq

LEMMA PersistWrites ==
  ASSUME LifecycleInv, NEW place, place # "clear", JobAt(place),
         NEW state, NEW p, NEW at, persist_update(state, p, at)
  PROVE  RowWritten
<1>1. job # Nothing /\ job.o \in NotRejected /\ job.o \in Ops
  BY AtPlace, JobIs
<1>2. rec \in [Ops -> OperationRows \cup {Nothing}]
  BY DEF LifecycleInv, TypeOK
<1>3. rec' = [rec EXCEPT ![job.o].state = state, ![job.o].proc = p] /\ UNCHANGED tree
  BY DEF persist_update
<1>4. rec'[job.o] = [rec[job.o] EXCEPT !.state = state, !.proc = p]
      /\ \A c \in Ops \ {job.o} : rec'[c] = rec[c]
  BY <1>1, <1>2, <1>3
<1>5. rec[job.o] \in OperationRows
  BY <1>1, JobIs, RowTyped DEF LifecycleInv
<1>6. rec'[job.o].seq = rec[job.o].seq
  BY <1>4, <1>5 DEF OperationRows
<1>7. QED
  BY <1>1, <1>3, <1>4, <1>6 DEF RowWritten

LEMMA RestartWrites ==
  ASSUME LifecycleInv, job # Nothing, job.o \in NotRejected, NEW p, NEW next,
         begin_restart(p, next)
  PROVE  rec' = rec \/ RowWritten
<1>1. CASE GiveUp
  BY <1>1 DEF GiveUp
<1>2. CASE ~GiveUp
  <2>1. PICK epoch :
          /\ rec' = [rec EXCEPT ![job.o].state = "Restarting", ![job.o].proc = p,
                                ![job.o].auth = epoch]
          /\ UNCHANGED tree
    BY <1>2 DEF begin_restart
  <2>2. /\ job.o \in Ops /\ rec[job.o] \in OperationRows
        /\ rec \in [Ops -> OperationRows \cup {Nothing}]
    BY JobIs, RowTyped DEF LifecycleInv, TypeOK
  <2>3. /\ rec'[job.o] = [rec[job.o] EXCEPT !.state = "Restarting", !.proc = p, !.auth = epoch]
        /\ \A c \in Ops \ {job.o} : rec'[c] = rec[c]
    BY <2>1, <2>2
  <2>4. rec'[job.o].seq = rec[job.o].seq
    BY <2>2, <2>3 DEF OperationRows
  <2>5. QED
    BY <2>1, <2>3, <2>4 DEF RowWritten
<1>3. QED
  BY <1>1, <1>2

LEMMA EditWrites ==
  ASSUME LifecycleInv, NEW place, place # "clear", JobAt(place), NEW state, NEW p,
         rec' = [rec EXCEPT ![job.o].state = state, ![job.o].proc = p], UNCHANGED tree
  PROVE  RowWritten
<1>1. job # Nothing /\ job.o \in NotRejected /\ job.o \in Ops
  BY AtPlace, JobIs
<1>2. rec \in [Ops -> OperationRows \cup {Nothing}] /\ rec[job.o] \in OperationRows
  BY <1>1, JobIs, RowTyped DEF LifecycleInv, TypeOK
<1>3. rec'[job.o] = [rec[job.o] EXCEPT !.state = state, !.proc = p]
      /\ \A c \in Ops \ {job.o} : rec'[c] = rec[c]
  BY <1>1, <1>2
<1>4. rec'[job.o].seq = rec[job.o].seq
  BY <1>2, <1>3 DEF OperationRows
<1>5. QED
  BY <1>1, <1>3, <1>4 DEF RowWritten

\* The handlers write the row of their operation only.
LEMMA HandlerWrites ==
  ASSUME LifecycleInv,
         \/ block_operation \/ block_cleanup \/ execute_launch \/ StartGeneration
         \/ process_failure \/ finish_start \/ finish_start_failure \/ execute_attach
         \/ execute_stop \/ reconcile_stop_intent \/ StopVerified \/ stopped
         \/ reconcile_stopping \/ execute_restart \/ restart_verified
         \/ reconcile_restart_intent \/ finish_restart \/ replaced \/ reconcile_restart
         \/ reconcile_launch \/ finish_recovered \/ verify_record
         \/ reconcile_retained_cleanup \/ finish_failed_launch_cleanup
  PROVE  rec' = rec \/ RowWritten
<1>1. CASE block_operation \/ block_cleanup \/ execute_launch \/ replaced \/ stopped
           \/ finish_failed_launch_cleanup
  BY <1>1, PersistWrites DEF block_operation, block_cleanup, execute_launch, replaced, stopped,
     finish_failed_launch_cleanup
<1>2. CASE StartGeneration
  BY <1>2, PersistWrites DEF StartGeneration, unknown
<1>3. CASE process_failure \/ finish_start \/ finish_start_failure
  BY <1>3, PersistWrites DEF process_failure, finish_start, finish_start_failure, StopAndLook
<1>4. CASE execute_attach
  BY <1>4, EditWrites DEF execute_attach, GiveUp
<1>5. CASE execute_stop \/ reconcile_stop_intent
  BY <1>5, EditWrites DEF execute_stop, reconcile_stop_intent, StopIntent, GiveUp
<1>6. CASE StopVerified \/ finish_restart \/ reconcile_retained_cleanup
  BY <1>6, PersistWrites DEF StopVerified, finish_stop, finish_restart,
     reconcile_retained_cleanup, StopAndLook
<1>7. CASE reconcile_stopping
  BY <1>7, PersistWrites DEF reconcile_stopping, unknown, finish_stop, StopAndLook, GiveUp
<1>8. CASE execute_restart
  BY <1>8, EditWrites DEF execute_restart, GiveUp
<1>9. CASE restart_verified \/ reconcile_restart_intent
  BY <1>9, AtPlace, RestartWrites DEF restart_verified, reconcile_restart_intent
<1>10. CASE reconcile_restart
  BY <1>10, AtPlace, PersistWrites, RestartWrites DEF reconcile_restart,
     prepare_restart_recovery, unknown, GiveUp
<1>11. CASE reconcile_launch \/ finish_recovered
  BY <1>11, PersistWrites DEF reconcile_launch, unknown, finish_recovered
<1>12. CASE verify_record
  <2>1. JobAt("verify") /\ job # Nothing /\ job.o \in NotRejected
    BY <1>12, AtPlace DEF verify_record
  <2>2. CASE rec' = [rec EXCEPT ![job.o].state = Recovered(rec[job.o])] /\ UNCHANGED tree
    <3>1. PICK state : state = Recovered(rec[job.o])
      OBVIOUS
    <3>2. job.o \in Ops /\ rec[job.o] \in OperationRows
          /\ rec \in [Ops -> OperationRows \cup {Nothing}]
      BY <2>1, JobIs, RowTyped DEF LifecycleInv, TypeOK
    <3>3. /\ rec'[job.o] = [rec[job.o] EXCEPT !.state = state]
          /\ \A c \in Ops \ {job.o} : rec'[c] = rec[c]
      BY <2>2, <3>1, <3>2
    <3>4. rec'[job.o].seq = rec[job.o].seq
      BY <3>2, <3>3 DEF OperationRows
    <3>5. QED
      BY <2>1, <2>2, <3>3, <3>4 DEF RowWritten
  <2>3. QED
    BY <1>12, <2>1, <2>2, PersistWrites DEF verify_record, GiveUp
<1>13. QED
  BY <1>1, <1>2, <1>3, <1>4, <1>5, <1>6, <1>7, <1>8, <1>9, <1>10, <1>11, <1>12

\* A new row is an intent.
LEMMA SubmitWrites ==
  ASSUME LifecycleInv, NEW o \in Ops \ Known, NEW request \in Requests, Submit(o, request)
  PROVE  \A c \in Ops : rec'[c] = rec[c] \/ rec'[c].state = "IntentRecorded"
<1>1. rec \in [Ops -> OperationRows \cup {Nothing}]
  BY DEF LifecycleInv, TypeOK
<1>2. PICK r : r.state = "IntentRecorded" /\ rec' = [rec EXCEPT ![o] = r]
  BY DEF Submit
<1>3. QED
  BY <1>1, <1>2

LEMMA RowsWritten ==
  ASSUME LifecycleInv, [LifecycleNext]_lifecycle_vars
  PROVE  \/ \A c \in Ops : rec'[c] = rec[c] \/ rec'[c].state = "IntentRecorded"
         \/ RowWritten
<1>1. ASSUME NEW o \in Ops \ Known, NEW request \in Requests, Submit(o, request)
      PROVE  \A c \in Ops : rec'[c] = rec[c] \/ rec'[c].state = "IntentRecorded"
  BY <1>1, SubmitWrites
<1>2. CASE reserve_ownership \/ set_owned \/ set_owner_process_for_operation \/ clear_owned_for
  <2>1. rec' = rec
    BY <1>2 DEF reserve_ownership, set_owned, set_owner_process_for_operation, clear_owned_for,
       UpdateOwnerProcess, UpdateOwner, persist_ownership
  <2>2. QED
    BY <2>1
<1>3. CASE attach_verified \/ StoreFails \/ UNCHANGED lifecycle_vars
  BY <1>3 DEF attach_verified, StoreFails, GiveUp, lifecycle_vars
<1>4. ASSUME NEW o \in Known, replay(o) \/ reconcile_operation(o)
      PROVE  rec' = rec
  BY <1>4 DEF replay, reconcile_operation, Begin
<1>5. ASSUME NEW l \in Leases, Restart(l) PROVE rec' = rec
  BY <1>5 DEF Restart
<1>6. ASSUME NEW o \in Ops, ProcessAppears(o) \/ ProcessForks(o) \/ ProcessExits(o)
      PROVE  rec' = rec
  BY <1>6 DEF ProcessAppears, ProcessForks, ProcessExits
<1>7. QED
  BY <1>1, <1>2, <1>3, <1>4, <1>5, <1>6, HandlerWrites DEF LifecycleNext

\* A row that becomes Stopped tells the caller that the process tree is gone
\* (finish_stop, reconcile_stopping): the operation that records it is the
\* latest, and while something is live the latest is active.
THEOREM StoppedMeansGoneTheorem ==
  ASSUME ~SupersededReplays
  PROVE  LifecycleSpec => StoppedMeansGone
<1> DEFINE StoppedNow(o) ==
             /\ rec'[o] # Nothing /\ rec'[o].state = "Stopped"
             /\ (rec[o] # Nothing => rec[o].state # "Stopped")
<1>1. ASSUME LifecycleInv, LifecycleInv', [LifecycleNext]_lifecycle_vars,
             NEW o \in Ops, StoppedNow(o), NEW p \in Ops, LiveTree(p)
      PROVE  FALSE
  <2>1. RowWritten
    <3>1. rec'[o] # rec[o] /\ rec'[o].state # "IntentRecorded"
      BY <1>1
    <3>2. QED
      BY <1>1, <3>1, RowsWritten
  <2>2. o = job.o /\ job # Nothing /\ o \in NotRejected /\ UNCHANGED tree
    BY <1>1, <2>1 DEF RowWritten
  <2>3. p \in NotRejected /\ p \in Known /\ rec[p].seq <= rec[o].seq
    BY <1>1, <2>2, LiveBefore
  <2>4. rec'[o].seq = rec[o].seq /\ rec'[p].seq = rec[p].seq
    BY <2>1, <2>2 DEF RowWritten
  <2>5. LiveTree(p)'
    BY <1>1, <2>2 DEF LiveTree
  <2>6. o \in NotRejected'
    BY <1>1 DEF NotRejected, Known
  <2>7. rec[o].seq \in Nat /\ rec[p].seq \in Nat
    BY <1>1, <2>2, <2>3, RowTyped DEF LifecycleInv, NotRejected
  <2>8. TreeHeld(p)'
    BY <1>1, <2>5 DEF LifecycleInv, TreesHeld
  <2>9. rec'[o].seq >= rec'[p].seq
    BY <2>3, <2>4, <2>7
  <2>10. is_active(rec'[o])
    BY <2>6, <2>8, <2>9 DEF TreeHeld
  <2>11. QED
    BY <1>1, <2>10 DEF is_active
<1>2. LifecycleInv /\ LifecycleInv' /\ [LifecycleNext]_lifecycle_vars =>
        [\A o \in Ops : StoppedNow(o) => \A p \in Ops : ~LiveTree(p)]_lifecycle_vars
  BY <1>1
<1>3. QED
  BY <1>2, LifecycleInvariant, PTL DEF LifecycleSpec, StoppedMeansGone
=============================================================================
