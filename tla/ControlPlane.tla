---------------------------- MODULE ControlPlane ----------------------------
(***************************************************************************)
(* The lifecycle control plane: Gateway and its handlers allocate, status, *)
(* reconcile, renew, release, cleanup, forward, expire_due and shutdown.   *)
(*                                                                         *)
(* Every handler takes &mut self and awaits nothing, so each is one step.  *)
(* What interleaves with them is the environment: time passes, a process   *)
(* exits by itself, and each port call may fail.  A call that returns an   *)
(* error without changing anything is a stuttering step and has no action. *)
(***************************************************************************)
EXTENDS Integers, FiniteSets, Sequences

CONSTANTS
    Callers,        \* caller identities
    Sessions,       \* session identities
    Capacity,       \* GatewayConfig.capacity
    LeaseDuration,  \* GatewayConfig.lease_duration_millis
    MaxTick,        \* the largest Tick, u64::MAX in the code
    MaxId,          \* the largest identity counter, u64::MAX in the code
    MaxSends,       \* bound on the requests handed to the transport
    Absent,         \* no record in the instances map
    NoLease,        \* Option<Lease>::None
    NoProof         \* no proof was granted

NoProcess == 0          \* Option<ProcessHandle>::None
InstanceId == 1 .. (MaxId - 1)
LeaseId == 1 .. (MaxId - 1)
Ticks == 0 .. MaxTick
Epochs == {1, 2}        \* allocate issues epoch 1; 2 is an epoch never issued

TerminalState == {"Stopped", "Failed", "Expired"}
ForwardingState == {"Ready", "Busy"}

\* Created, Stopping and Unknown exist only inside a handler, or nowhere.
LifecycleState ==
    {"Starting", "Ready", "Degraded"} \cup ForwardingState \cup TerminalState

LeaseProof == [instance : InstanceId, caller : Callers, session : Sessions,
               lease : LeaseId, epoch : Epochs]
Lease == [instance : InstanceId, caller : Callers, session : Sessions,
          lease : LeaseId, epoch : Epochs, expires_at : Ticks]
InstanceRecord == [caller : Callers, session : Sessions, state : LifecycleState,
                   process : InstanceId \cup {NoProcess},
                   lease : Lease \cup {NoLease}]

ASSUME ConstantsAssumption ==
    /\ Capacity \in Nat \ {0}
    /\ LeaseDuration \in Nat \ {0}
    /\ MaxTick \in Nat
    /\ MaxId \in Nat \ {0}
    /\ MaxSends \in Nat

ASSUME SentinelsAssumption ==
    /\ Absent \notin InstanceRecord
    /\ NoLease \notin Lease
    /\ NoProof \notin LeaseProof

VARIABLES
    instances,          \* Gateway.instances, Absent where the map has no key
    next_instance_id,   \* Gateway.next_instance_id
    next_lease_id,      \* Gateway.next_lease_id
    is_admitting,       \* Gateway.is_admitting
    now,                \* what Clock::now returns
    proc,               \* the processes themselves, by handle
    granted,            \* history: the proof returned by allocate, by lease
    wire                \* history: the proofs of the requests given to the transport

vars == <<instances, next_instance_id, next_lease_id, is_admitting, now, proc,
          granted, wire>>

Init ==
    /\ instances = [i \in InstanceId |-> Absent]
    /\ next_instance_id = 1
    /\ next_lease_id = 1
    /\ is_admitting = TRUE
    /\ now = 0
    /\ proc = [i \in InstanceId |-> "none"]
    /\ granted = [l \in LeaseId |-> NoProof]
    /\ wire = <<>>

-----------------------------------------------------------------------------
(* Records and the fence.                                                  *)

\* (Mutant of Present: capacity counts only the records that are not terminal.)
PresentUnlessTerminal ==
    {i \in InstanceId : instances[i] # Absent /\ instances[i].state \notin TerminalState}

Present == {i \in InstanceId : instances[i] # Absent}
IsTerminal(r) == r.state \in TerminalState
AcceptsForwarding(r) == r.state \in ForwardingState

\* mark_ready, mark_starting, mark_busy, mark_degraded
Marked(r, s) == [r EXCEPT !.state = s]

\* mark_stopped, mark_failed, mark_expired: these drop the lease as well
Ended(r, s) == [r EXCEPT !.state = s, !.lease = NoLease]

\* Tick::saturating_add_millis on the current time
ExpiryFromNow ==
    IF now + LeaseDuration > MaxTick THEN MaxTick ELSE now + LeaseDuration

ProofOf(lease) ==
    [instance |-> lease.instance, caller |-> lease.caller,
     session |-> lease.session, lease |-> lease.lease, epoch |-> lease.epoch]

HasLease(i) == instances[i] # Absent /\ instances[i].lease # NoLease
LeaseExpired(i) == HasLease(i) /\ instances[i].lease.expires_at <= now

\* (Mutant of FenceOk: expiry is left to the sweep.)
FenceIgnoringExpiry(target, p) ==
    p.instance = target /\ HasLease(target) /\ ProofOf(instances[target].lease) = p

\* evaluate_fence accepts: the proof names the target, and the lease held for it
\* has not expired and has the identity and the epoch the proof claims.
FenceOk(target, p) ==
    /\ p.instance = target
    /\ HasLease(target)
    /\ ~ LeaseExpired(target)
    /\ instances[target].lease.caller = p.caller
    /\ instances[target].lease.session = p.session
    /\ instances[target].lease.lease = p.lease
    /\ instances[target].lease.epoch = p.epoch

\* evaluate_fence answers Expired, which it decides before it looks at the caller.
FenceExpired(target, p) == p.instance = target /\ LeaseExpired(target)

\* (Mutant of AfterStop: the handle is dropped even when the stop failed.)
AfterStopForgetting(i, ok, s) ==
    [Ended(instances[i], IF i \in ok THEN s ELSE "Failed") EXCEPT !.process = NoProcess]

\* Record i after a stop attempt that would leave it in state s: success clears the
\* handle, a fault keeps it in a Failed record, no handle means nothing to stop.
AfterStop(i, ok, s) ==
    IF instances[i].process = NoProcess THEN Ended(instances[i], s)
    ELSE IF i \in ok THEN [Ended(instances[i], s) EXCEPT !.process = NoProcess]
    ELSE Ended(instances[i], "Failed")

\* Stop the processes of the records in S; the port succeeds for those in ok.
StopAll(S, ok, s) ==
    /\ instances' = [i \in InstanceId |->
                        IF i \in S THEN AfterStop(i, ok, s)
                                   ELSE instances[i]]
    /\ proc' = [i \in InstanceId |->
                   IF \E j \in S \cap ok : instances[j].process = i
                   THEN "stopped" ELSE proc[i]]

ExpireInstance(i) ==
    /\ \E ok \in SUBSET {i} : StopAll({i}, ok, "Expired")
    /\ UNCHANGED <<next_instance_id, next_lease_id, is_admitting, now, granted, wire>>

\* validate_fence on an expired lease: the request fails and the instance expires.
ValidateFenceExpires(target, p) == FenceExpired(target, p) /\ ExpireInstance(target)

-----------------------------------------------------------------------------
(* The handlers.                                                           *)

\* The two counters move in step, so next_lease cannot fail after next_instance.
Allocate(c, s) ==
    LET i == next_instance_id
        lease == [instance |-> i, caller |-> c, session |-> s,
                  lease |-> next_lease_id, epoch |-> 1,
                  expires_at |-> ExpiryFromNow]
    IN  /\ is_admitting
        /\ Cardinality(Present) < Capacity
        /\ next_instance_id < MaxId /\ next_lease_id < MaxId
        /\ next_instance_id' = next_instance_id + 1
        /\ next_lease_id' = next_lease_id + 1
        /\ \/ /\ instances' = [instances EXCEPT ![i] =
                    [caller |-> c, session |-> s, state |-> "Starting",
                     process |-> i, lease |-> lease]]
              /\ proc' = [proc EXCEPT ![i] = "running"]
              /\ granted' = [granted EXCEPT ![next_lease_id] = ProofOf(lease)]
           \/ UNCHANGED <<instances, proc, granted>>    \* start failed
        /\ UNCHANGED <<is_admitting, now, wire>>

\* What inspect and probe can report: a fault and a degraded probe both degrade.
Observable(r) ==
    IF r.process = NoProcess THEN {"Failed"}
    ELSE {"Degraded"} \cup
         (IF proc[r.process] = "running" THEN {"Starting", "Ready"} ELSE {"Failed"})

Reconcile(i) ==
    /\ instances[i] # Absent
    /\ ~ IsTerminal(instances[i])
    /\ \/ LeaseExpired(i) /\ ExpireInstance(i)
       \/ /\ ~ LeaseExpired(i)
          /\ \E s \in Observable(instances[i]) :
                instances' = [instances EXCEPT ![i] =
                    IF s = "Failed" THEN Ended(@, s) ELSE Marked(@, s)]
          /\ UNCHANGED <<next_instance_id, next_lease_id, is_admitting, now,
                         proc, granted, wire>>

Renew(p) ==
    \/ ValidateFenceExpires(p.instance, p)
    \/ /\ FenceOk(p.instance, p)
       /\ instances' = [instances EXCEPT ![p.instance].lease.expires_at = ExpiryFromNow]
       /\ UNCHANGED <<next_instance_id, next_lease_id, is_admitting, now,
                      proc, granted, wire>>

Release(p) ==
    \/ ValidateFenceExpires(p.instance, p)
    \/ /\ FenceOk(p.instance, p)
       /\ ~ IsTerminal(instances[p.instance])   \* nor Stopping, which no call leaves
       /\ \E ok \in SUBSET {p.instance} : StopAll({p.instance}, ok, "Stopped")
       /\ UNCHANGED <<next_instance_id, next_lease_id, is_admitting, now, granted, wire>>

Cleanup(i, c, s, ok) ==
    /\ instances[i] # Absent
    /\ instances[i].caller = c /\ instances[i].session = s
    /\ IsTerminal(instances[i])
    /\ IF instances[i].process = NoProcess \/ i \in ok
       THEN instances' = [instances EXCEPT ![i] = Absent]
       ELSE instances' = [instances EXCEPT ![i] = Ended(@, "Failed")]
    /\ proc' = [h \in InstanceId |->
                   IF instances[i].process = h /\ i \in ok THEN "stopped" ELSE proc[h]]
    /\ UNCHANGED <<next_instance_id, next_lease_id, is_admitting, now, granted, wire>>

\* The outcome is Ready for a response within the limit, Degraded for one that is
\* too large and for a transport fault.  A record in a forwarding state without a process is
\* degraded and nothing is sent.
Forward(target, p) ==
    \/ ValidateFenceExpires(target, p)
    \/ /\ FenceOk(target, p)
       /\ AcceptsForwarding(instances[target])
       /\ Len(wire) < MaxSends
       /\ IF instances[target].process = NoProcess
          THEN /\ instances' = [instances EXCEPT ![target] = Marked(@, "Degraded")]
               /\ wire' = wire
          ELSE /\ \E outcome \in {"Ready", "Degraded"} :
                     instances' = [instances EXCEPT ![target] = Marked(@, outcome)]
               /\ wire' = Append(wire, p)
       /\ UNCHANGED <<next_instance_id, next_lease_id, is_admitting, now, proc, granted>>

ExpireDue(ok) ==
    /\ StopAll({i \in InstanceId : LeaseExpired(i)}, ok, "Expired")
    /\ UNCHANGED <<next_instance_id, next_lease_id, is_admitting, now, granted, wire>>

\* (Mutant of Shutdown: only the instances that accept forwarding are stopped.)
ShutdownReadyOnly(ok) ==
    /\ is_admitting' = FALSE
    /\ StopAll({i \in Present : AcceptsForwarding(instances[i])}, ok, "Stopped")
    /\ UNCHANGED <<next_instance_id, next_lease_id, now, granted, wire>>

\* Records that are terminal and hold no process are skipped.
Shutdown(ok) ==
    /\ is_admitting' = FALSE
    /\ StopAll({i \in Present : ~ IsTerminal(instances[i])
                                \/ instances[i].process # NoProcess}, ok, "Stopped")
    /\ UNCHANGED <<next_instance_id, next_lease_id, now, granted, wire>>

-----------------------------------------------------------------------------
(* The environment.                                                        *)

Tick ==
    /\ now < MaxTick
    /\ now' = now + 1
    /\ UNCHANGED <<instances, next_instance_id, next_lease_id, is_admitting, proc,
                   granted, wire>>

ProcessExit(h) ==
    /\ proc[h] = "running"
    /\ proc' = [proc EXCEPT ![h] = "exited"]
    /\ UNCHANGED <<instances, next_instance_id, next_lease_id, is_admitting, now,
                   granted, wire>>

Next ==
    \/ \E c \in Callers, s \in Sessions : Allocate(c, s)
    \/ \E i \in InstanceId : Reconcile(i)
    \/ \E p \in LeaseProof : Renew(p)
    \/ \E p \in LeaseProof : Release(p)
    \/ \E i \in InstanceId, c \in Callers, s \in Sessions :
          \E ok \in SUBSET {i} : Cleanup(i, c, s, ok)
    \/ \E t \in InstanceId, p \in LeaseProof : Forward(t, p)
    \/ \E ok \in SUBSET Present : ExpireDue(ok)
    \/ \E ok \in SUBSET Present : Shutdown(ok)
    \/ Tick
    \/ \E h \in InstanceId : ProcessExit(h)

Spec == Init /\ [][Next]_vars

-----------------------------------------------------------------------------
(* Properties.                                                             *)

TypeOK ==
    /\ instances \in [InstanceId -> InstanceRecord \cup {Absent}]
    /\ next_instance_id \in 1 .. MaxId
    /\ next_lease_id \in 1 .. MaxId
    /\ is_admitting \in BOOLEAN
    /\ now \in Ticks
    /\ proc \in [InstanceId -> {"none", "running", "exited", "stopped"}]
    /\ granted \in [LeaseId -> LeaseProof \cup {NoProof}]
    /\ wire \in Seq(LeaseProof)

\* Every running game process is accounted for: the map still holds the record
\* with its handle, and that record either has a lease or is Failed, the state in
\* which cleanup and shutdown will try the stop again.  It is what the failure
\* paths of allocate, release, cleanup, expire_instance and shutdown must keep.
NoOrphanProcess ==
    \A h \in InstanceId : proc[h] = "running" =>
        /\ instances[h] # Absent
        /\ instances[h].process = h
        /\ instances[h].lease # NoLease \/ instances[h].state = "Failed"

\* The capacity that allocate checks against the map bounds the processes too,
\* across failed stops, cleanups and expiries.
RunningWithinCapacity ==
    Cardinality({h \in InstanceId : proc[h] = "running"}) <= Capacity

\* After shutdown nothing can be forwarded any more: no record has a lease, and a
\* process still running is one whose stop failed and whose record says so.
ClosedMeansStopped ==
    ~ is_admitting => \A i \in Present :
        /\ instances[i].lease = NoLease
        /\ proc[i] = "running" => instances[i].state = "Failed"

\* A record that ended is never revived by a late reconcile, renewal or forward,
\* and never regains a lease or a process; it can only be settled or removed.
TerminalIsFinal ==
    [][\A i \in InstanceId :
          (instances[i] # Absent /\ IsTerminal(instances[i]) /\ instances'[i] # Absent) =>
              /\ IsTerminal(instances'[i])
              /\ instances'[i].lease = NoLease
              /\ instances'[i].process \in {instances[i].process, NoProcess}]_vars

\* What every step keeps, and what the safety properties above follow from: ids
\* not yet handed out are unused; a record keeps its own process handle, has a
\* lease exactly while it is not terminal and then a process too; and its lease is
\* the one allocate granted for it.
FreshIds ==
    /\ next_instance_id = next_lease_id
    /\ \A i \in InstanceId : i >= next_instance_id =>
          instances[i] = Absent /\ proc[i] = "none" /\ granted[i] = NoProof

RecordsConsistent ==
    \A i \in InstanceId : instances[i] # Absent =>
        /\ instances[i].process \in {i, NoProcess}
        /\ (instances[i].lease = NoLease) <=> IsTerminal(instances[i])
        /\ ~ IsTerminal(instances[i]) => instances[i].process = i

LeasesGranted ==
    \A i \in InstanceId : HasLease(i) =>
        /\ instances[i].lease.instance = i
        /\ instances[i].lease.lease < next_lease_id
        /\ granted[instances[i].lease.lease] = ProofOf(instances[i].lease)

IInv ==
    /\ TypeOK
    /\ FreshIds
    /\ RecordsConsistent
    /\ LeasesGranted
    /\ NoOrphanProcess
    /\ ClosedMeansStopped

\* The leases of the control plane as an abstract fence sees them.
Live(l) == \E i \in InstanceId :
              HasLease(i) /\ instances[i].lease.lease = l /\ ~ LeaseExpired(i)

Life == [l \in LeaseId |-> IF l >= next_lease_id THEN "free"
                           ELSE IF Live(l) THEN "live" ELSE "ended"]

Fence == INSTANCE LeaseFence WITH
            Lease <- LeaseId, Proof <- LeaseProof, NoProof <- NoProof,
            life <- Life, grant <- granted, served <- wire

\* The control plane implements the fence: no lease identity is granted twice, a
\* lease that lapsed or was released never becomes usable again (not by renew, and
\* not by a clock that saturates), and whatever forward hands to the transport
\* carries exactly the proof allocate returned for a lease that is live then.
ImplementsFence == Fence!Spec

=============================================================================
