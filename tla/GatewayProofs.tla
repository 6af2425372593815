--------------------------- MODULE GatewayProofs ---------------------------
(* Proofs about two parts of the gateway library: the lifecycle control     *)
(* plane, for every capacity, lease duration and width of the clock and of  *)
(* the identity counters, and the seeded-run ledger, for every set of       *)
(* operations, every capacity, any generations and any number of crashes.   *)
EXTENDS ControlPlane, SeededRun, FiniteSetTheorems, TLAPS

-----------------------------------------------------------------------------
(* The control plane.                                                       *)

USE ConstantsAssumption

\* Init establishes the invariant.
LEMMA InitInv == Init => IInv
  BY SentinelsAssumption
  DEF Init, IInv, TypeOK, FreshIds, RecordsConsistent, LeasesGranted,
      NoOrphanProcess, ClosedMeansStopped, HasLease, Present, InstanceId, LeaseId, Ticks

\* Ended and AfterStop yield terminal records without a lease that keep or lose
\* their own handle: what mark_stopped, mark_failed and mark_expired guarantee.
LEMMA AfterStopShape ==
  ASSUME NEW i, instances[i] \in InstanceRecord, NEW ok, NEW s \in TerminalState
  PROVE  /\ AfterStop(i, ok, s) \in InstanceRecord
         /\ AfterStop(i, ok, s).state \in TerminalState
         /\ AfterStop(i, ok, s).lease = NoLease
         /\ AfterStop(i, ok, s).process \in {instances[i].process, NoProcess}
         /\ (i \notin ok /\ instances[i].process # NoProcess) =>
                /\ AfterStop(i, ok, s).process = instances[i].process
                /\ AfterStop(i, ok, s).state = "Failed"
  BY DEF AfterStop, Ended, InstanceRecord, TerminalState, LifecycleState

\* Stopping any set of records keeps the invariant.  The admission flag may close
\* in the same step, but then no record outside the set may still hold a lease.
LEMMA StopAllInv ==
  ASSUME IInv,
         NEW S \in SUBSET Present, NEW ok, NEW s \in {"Stopped", "Expired"},
         StopAll(S, ok, s),
         is_admitting' \in BOOLEAN,
         \/ is_admitting' = is_admitting
         \/ \A i \in Present : i \notin S => /\ IsTerminal(instances[i])
                                            /\ instances[i].process = NoProcess,
         UNCHANGED <<next_instance_id, next_lease_id, now, granted, wire>>
  PROVE  IInv'
<1> USE DEF IInv
<1>z. \A i \in S : /\ i \in InstanceId
                   /\ instances[i] \in InstanceRecord
                   /\ instances'[i] = AfterStop(i, ok, s)
  BY DEF Present, TypeOK, StopAll
<1>b. \A i \in S : /\ instances'[i] \in InstanceRecord
                   /\ instances'[i].state \in TerminalState
                   /\ instances'[i].lease = NoLease
                   /\ instances'[i].process \in {instances[i].process, NoProcess}
  BY <1>z, AfterStopShape DEF TerminalState
<1>a. /\ instances' \in [InstanceId -> InstanceRecord \cup {Absent}]
      /\ \A i \in InstanceId \ S : instances'[i] = instances[i]
      /\ \A i \in InstanceId : (instances'[i] = Absent) <=> (instances[i] = Absent)
  <2>1. \A i \in InstanceId \ S : instances'[i] = instances[i]
    BY DEF StopAll
  <2>2. instances' = [i \in InstanceId |-> instances'[i]]
    BY DEF StopAll
  <2>3. \A i \in InstanceId : instances'[i] \in InstanceRecord \cup {Absent}
    BY <2>1, <1>b DEF TypeOK
  <2>4. \A i \in InstanceId : (instances'[i] = Absent) <=> (instances[i] = Absent)
    BY <2>1, <1>b, SentinelsAssumption DEF Present
  <2> QED
    BY <2>1, <2>2, <2>3, <2>4
<1>c. \A i \in InstanceId : proc'[i] = "running" =>
         /\ proc[i] = "running"
         /\ i \in S => instances'[i].state = "Failed" /\ instances'[i].process = i
  <2> SUFFICES ASSUME NEW i \in InstanceId, proc'[i] = "running"
               PROVE  /\ proc[i] = "running"
                      /\ i \in S => /\ instances'[i].state = "Failed"
                                    /\ instances'[i].process = i
    OBVIOUS
  <2>1. proc[i] = "running" /\ ~ \E j \in S \cap ok : instances[j].process = i
    BY DEF StopAll, TypeOK
  <2>2. instances[i] # Absent /\ instances[i].process = i /\ i # NoProcess
    BY <2>1 DEF NoOrphanProcess, InstanceId, NoProcess
  <2>3. CASE i \in S
    <3>1. i \notin ok
      BY <2>1, <2>2, <2>3
    <3> QED
      BY <3>1, <1>z, <2>1, <2>2, <2>3, AfterStopShape DEF TerminalState
  <2> QED
    BY <2>1, <2>3
<1>d. proc' \in [InstanceId -> {"none", "running", "exited", "stopped"}]
  BY DEF StopAll, TypeOK
<1>1. TypeOK'
  BY <1>a, <1>d DEF TypeOK
<1>2. FreshIds'
  <2>1. \A i \in InstanceId : i >= next_instance_id => proc'[i] = "none"
    <3> SUFFICES ASSUME NEW i \in InstanceId, i >= next_instance_id
                 PROVE  ~ \E j \in S \cap ok : instances[j].process = i
      BY DEF StopAll, FreshIds, TypeOK
    <3> SUFFICES ASSUME NEW j \in S \cap ok, instances[j].process = i PROVE FALSE
      OBVIOUS
    <3>1. j = i
      BY DEF RecordsConsistent, Present, InstanceId, NoProcess
    <3> QED
      BY <3>1 DEF FreshIds, Present
  <2> QED
    BY <2>1, <1>a DEF FreshIds
<1>3. RecordsConsistent'
  BY <1>a, <1>b DEF RecordsConsistent, IsTerminal, Present
<1>4. LeasesGranted'
  BY <1>a, <1>b DEF LeasesGranted, HasLease
<1>5. NoOrphanProcess'
  BY <1>a, <1>b, <1>c DEF NoOrphanProcess
<1>6. ClosedMeansStopped'
  <2> SUFFICES ASSUME ~ is_admitting', NEW i \in Present'
               PROVE  /\ instances'[i].lease = NoLease
                      /\ proc'[i] = "running" => instances'[i].state = "Failed"
    BY DEF ClosedMeansStopped
  <2>1. i \in Present /\ i \in InstanceId
    BY <1>a DEF Present
  <2>2. CASE i \in S
    BY <2>1, <2>2, <1>b, <1>c
  <2>3. CASE i \notin S /\ is_admitting' = is_admitting
    BY <2>1, <2>3, <1>a, <1>c DEF ClosedMeansStopped
  <2>4. CASE i \notin S /\ IsTerminal(instances[i]) /\ instances[i].process = NoProcess
    BY <2>1, <2>4, <1>a, <1>c DEF RecordsConsistent, NoOrphanProcess, Present, InstanceId, NoProcess
  <2> QED
    BY <2>1, <2>2, <2>3, <2>4
<1> QED
  BY <1>1, <1>2, <1>3, <1>4, <1>5, <1>6

\* Replacing a record that is not terminal by one with the same identity and handle
\* keeps the invariant, when the new one keeps the lease (perhaps with another
\* expiry) or drops it and is Failed.
LEMMA UpdateInv ==
  ASSUME IInv,
         NEW i \in InstanceId, instances[i] # Absent, ~ IsTerminal(instances[i]),
         NEW r \in InstanceRecord, r.process = instances[i].process,
         \/ r.lease = NoLease /\ r.state = "Failed"
         \/ /\ r.lease # NoLease /\ ~ IsTerminal(r)
            /\ ProofOf(r.lease) = ProofOf(instances[i].lease),
         instances' = [instances EXCEPT ![i] = r],
         wire' \in Seq(LeaseProof),
         UNCHANGED <<next_instance_id, next_lease_id, is_admitting, now, proc, granted>>
  PROVE  IInv'
<1> USE DEF IInv
<1>a. /\ instances' \in [InstanceId -> InstanceRecord \cup {Absent}]
      /\ instances'[i] = r
      /\ \A j \in InstanceId \ {i} : instances'[j] = instances[j]
      /\ \A j \in InstanceId : (instances'[j] = Absent) <=> (instances[j] = Absent)
  BY SentinelsAssumption DEF TypeOK
<1>b. instances[i].lease # NoLease /\ instances[i].lease \in Lease
  BY SentinelsAssumption DEF RecordsConsistent, TypeOK, InstanceRecord
<1>1. TypeOK'
  BY <1>a DEF TypeOK
<1>2. FreshIds'
  BY <1>a DEF FreshIds
<1>3. RecordsConsistent'
  BY <1>a, SentinelsAssumption DEF RecordsConsistent, IsTerminal, TerminalState
<1>4. LeasesGranted'
  <2>1. r.lease # NoLease => /\ r.lease.instance = instances[i].lease.instance
                             /\ r.lease.lease = instances[i].lease.lease
    BY DEF ProofOf
  <2> QED
    BY <1>a, <1>b, <2>1 DEF LeasesGranted, HasLease
<1>5. NoOrphanProcess'
  BY <1>a, <1>b DEF NoOrphanProcess
<1>6. ClosedMeansStopped'
  BY <1>a, <1>b DEF ClosedMeansStopped, Present
<1> QED
  BY <1>1, <1>2, <1>3, <1>4, <1>5, <1>6

\* A successful allocation: fresh ids, so nothing else can hold them.
LEMMA AllocateInv ==
  ASSUME IInv, NEW c \in Callers, NEW s \in Sessions, Allocate(c, s)
  PROVE  IInv'
<1> USE DEF IInv
<1> DEFINE i == next_instance_id
           lease == [instance |-> i, caller |-> c, session |-> s,
                     lease |-> next_lease_id, epoch |-> 1,
                     expires_at |-> ExpiryFromNow]
           rec == [caller |-> c, session |-> s, state |-> "Starting",
                   process |-> i, lease |-> lease]
<1>1. /\ i \in InstanceId /\ next_lease_id \in LeaseId /\ i = next_lease_id
      /\ is_admitting
      /\ next_instance_id' = i + 1 /\ next_lease_id' = i + 1
      /\ i + 1 \in 1 .. MaxId
      /\ UNCHANGED <<is_admitting, now, wire>>
  BY DEF Allocate, TypeOK, InstanceId, LeaseId, FreshIds
<1>2. lease \in Lease /\ rec \in InstanceRecord /\ ProofOf(lease) \in LeaseProof
  <2>1. ExpiryFromNow \in Ticks
    BY DEF ExpiryFromNow, Ticks, TypeOK
  <2> QED
    BY <1>1, <2>1 DEF Lease, InstanceRecord, LeaseProof, ProofOf, Epochs, LifecycleState
<1>3. CASE UNCHANGED <<instances, proc, granted>>
  <2>1. TypeOK' /\ FreshIds'
    BY <1>1, <1>3 DEF TypeOK, FreshIds, InstanceId, LeaseId
  <2>2. RecordsConsistent' /\ NoOrphanProcess' /\ ClosedMeansStopped'
    BY <1>1, <1>3 DEF RecordsConsistent, IsTerminal, NoOrphanProcess, ClosedMeansStopped, Present
  <2>3. LeasesGranted'
    <3>1. \A j \in InstanceId : HasLease(j) => instances[j].lease.lease \in LeaseId
      BY DEF TypeOK, HasLease, InstanceRecord, Lease
    <3> QED
      BY <3>1, <1>1, <1>3 DEF LeasesGranted, HasLease, ProofOf, LeaseId
  <2> QED
    BY <2>1, <2>2, <2>3
<1>4. CASE /\ instances' = [instances EXCEPT ![i] = rec]
           /\ proc' = [proc EXCEPT ![i] = "running"]
           /\ granted' = [granted EXCEPT ![next_lease_id] = ProofOf(lease)]
  <2> HIDE DEF rec, lease, i
  <2>0. /\ rec.process = i /\ rec.lease = lease /\ rec.state = "Starting"
        /\ lease.instance = i /\ lease.lease = next_lease_id
    BY DEF rec, lease
  <2>i. i = next_instance_id
    BY DEF i
  <2>a. /\ instances' \in [InstanceId -> InstanceRecord \cup {Absent}]
        /\ instances'[i] = rec
        /\ \A j \in InstanceId \ {i} : instances'[j] = instances[j]
        /\ proc' \in [InstanceId -> {"none", "running", "exited", "stopped"}]
        /\ proc'[i] = "running"
        /\ \A j \in InstanceId \ {i} : proc'[j] = proc[j]
        /\ granted' \in [LeaseId -> LeaseProof \cup {NoProof}]
        /\ granted'[i] = ProofOf(lease)
        /\ \A j \in LeaseId \ {i} : granted'[j] = granted[j]
    BY <1>1, <1>2, <1>4 DEF TypeOK
  <2>b. lease # NoLease
    BY <1>2, SentinelsAssumption
  <2>1. TypeOK'
    BY <1>1, <2>a DEF TypeOK
  <2>2. FreshIds'
    BY <1>1, <2>a, <2>i DEF FreshIds, InstanceId, LeaseId
  <2>3. RecordsConsistent'
    BY <2>a, <2>b, <2>0 DEF RecordsConsistent, IsTerminal, TerminalState
  <2>4. LeasesGranted'
    <3> SUFFICES ASSUME NEW j \in InstanceId, HasLease(j)'
                 PROVE  /\ instances'[j].lease.instance = j
                        /\ instances'[j].lease.lease < next_lease_id'
                        /\ granted'[instances'[j].lease.lease] = ProofOf(instances'[j].lease)
      BY DEF LeasesGranted, ProofOf
    <3>1. CASE j = i
      BY <3>1, <2>a, <2>0, <2>i, <1>1 DEF InstanceId
    <3>2. CASE j # i
      <4>1. instances'[j] = instances[j] /\ HasLease(j)
        BY <3>2, <2>a DEF HasLease
      <4>2. instances[j].lease.lease \in LeaseId
        BY <4>1 DEF TypeOK, HasLease, InstanceRecord, Lease
      <4> QED
        BY <4>1, <4>2, <2>a, <2>i, <1>1 DEF LeasesGranted, LeaseId
    <3> QED
      BY <3>1, <3>2
  <2>5. NoOrphanProcess'
    BY <2>a, <2>b, <2>0, <1>2, SentinelsAssumption DEF NoOrphanProcess
  <2>6. ClosedMeansStopped'
    BY <1>1 DEF ClosedMeansStopped
  <2> QED
    BY <2>1, <2>2, <2>3, <2>4, <2>5, <2>6
<1> QED
  BY <1>3, <1>4 DEF Allocate

\* Expiring one instance is the stop of a set with one record.
LEMMA ExpireInv ==
  ASSUME IInv, NEW i \in InstanceId, LeaseExpired(i), ExpireInstance(i)
  PROVE  IInv'
<1>1. {i} \in SUBSET Present
  BY DEF LeaseExpired, HasLease, Present
<1>2. PICK ok \in SUBSET {i} : StopAll({i}, ok, "Expired")
  BY DEF ExpireInstance
<1>3. UNCHANGED <<next_instance_id, next_lease_id, is_admitting, now, granted, wire>>
  BY DEF ExpireInstance
<1>4. is_admitting \in BOOLEAN
  BY DEF IInv, TypeOK
<1> QED
  BY <1>1, <1>2, <1>3, <1>4, StopAllInv

\* A record whose proof passes the fence is present, has a lease and is not terminal.
LEMMA FenceOkShape ==
  ASSUME IInv, NEW t \in InstanceId, NEW p \in LeaseProof, FenceOk(t, p)
  PROVE  /\ instances[t] # Absent /\ instances[t] \in InstanceRecord
         /\ instances[t].lease # NoLease /\ instances[t].lease \in Lease
         /\ ~ IsTerminal(instances[t])
         /\ instances[t].process = t
         /\ instances[t].lease.expires_at > now
         /\ ProofOf(instances[t].lease) = p
<1>1. /\ instances[t] # Absent /\ instances[t] \in InstanceRecord
      /\ instances[t].lease # NoLease /\ instances[t].lease \in Lease
  BY DEF FenceOk, HasLease, IInv, TypeOK, InstanceRecord
<1>2. ~ IsTerminal(instances[t]) /\ instances[t].process = t
  BY <1>1 DEF IInv, RecordsConsistent
<1>3. instances[t].lease.expires_at > now
  BY <1>1 DEF FenceOk, LeaseExpired, HasLease, Lease, IInv, TypeOK, Ticks
<1>4. ProofOf(instances[t].lease) = p
  BY <1>1 DEF FenceOk, ProofOf, LeaseProof, IInv, LeasesGranted, HasLease
<1> QED
  BY <1>1, <1>2, <1>3, <1>4

LEMMA ReconcileInv ==
  ASSUME IInv, NEW i \in InstanceId, Reconcile(i)
  PROVE  IInv'
<1>1. CASE LeaseExpired(i) /\ ExpireInstance(i)
  BY <1>1, ExpireInv
<1>2. CASE ~ LeaseExpired(i)
  <2>1. PICK s \in Observable(instances[i]) :
           instances' = [instances EXCEPT ![i] =
              IF s = "Failed" THEN Ended(@, s) ELSE Marked(@, s)]
    BY <1>2 DEF Reconcile
  <2> DEFINE r == IF s = "Failed" THEN Ended(instances[i], s) ELSE Marked(instances[i], s)
  <2>2. /\ instances[i] # Absent /\ ~ IsTerminal(instances[i])
        /\ instances[i] \in InstanceRecord /\ instances[i].lease # NoLease
        /\ UNCHANGED <<next_instance_id, next_lease_id, is_admitting, now, proc, granted, wire>>
    BY <1>2 DEF Reconcile, IInv, TypeOK, RecordsConsistent
  <2>3. s \in {"Starting", "Ready", "Degraded", "Failed"}
    BY DEF Observable
  <2>4. /\ r \in InstanceRecord
        /\ r.process = instances[i].process
        /\ \/ r.lease = NoLease /\ r.state = "Failed"
           \/ r.lease = instances[i].lease /\ ~ IsTerminal(r)
    BY <2>2, <2>3 DEF Ended, Marked, InstanceRecord, LifecycleState, TerminalState, IsTerminal
  <2>5. instances' = [instances EXCEPT ![i] = r] /\ wire' \in Seq(LeaseProof)
    BY <2>1, <2>2 DEF IInv, TypeOK
  <2> HIDE DEF r
  <2> QED
    BY <2>2, <2>4, <2>5, UpdateInv
<1> QED
  BY <1>1, <1>2 DEF Reconcile

LEMMA RenewInv ==
  ASSUME IInv, NEW p \in LeaseProof, Renew(p)
  PROVE  IInv'
<1> DEFINE t == p.instance
<1>0. t \in InstanceId
  BY DEF LeaseProof
<1>1. CASE ValidateFenceExpires(t, p)
  BY <1>0, <1>1, ExpireInv DEF ValidateFenceExpires, FenceExpired
<1>2. CASE FenceOk(t, p)
  <2> DEFINE r == [instances[t] EXCEPT !.lease.expires_at = ExpiryFromNow]
  <2>1. /\ instances' = [instances EXCEPT ![t].lease.expires_at = ExpiryFromNow]
        /\ UNCHANGED <<next_instance_id, next_lease_id, is_admitting, now, proc, granted, wire>>
    BY <1>2, FenceOkShape DEF Renew, ValidateFenceExpires, FenceExpired, FenceOk
  <2>2. /\ instances[t] # Absent /\ instances[t] \in InstanceRecord
        /\ instances[t].lease # NoLease /\ instances[t].lease \in Lease
        /\ ~ IsTerminal(instances[t])
    BY <1>0, <1>2, FenceOkShape
  <2>3. ExpiryFromNow \in Ticks
    BY DEF ExpiryFromNow, Ticks, IInv, TypeOK
  <2>4. instances' = [instances EXCEPT ![t] = r] /\ wire' \in Seq(LeaseProof)
    BY <2>1 DEF IInv, TypeOK
  <2>5. /\ r \in InstanceRecord
        /\ r.process = instances[t].process
        /\ r.lease \in Lease /\ ~ IsTerminal(r)
        /\ ProofOf(r.lease) = ProofOf(instances[t].lease)
    BY <2>2, <2>3 DEF InstanceRecord, Lease, IsTerminal, ProofOf
  <2>6. r.lease # NoLease
    BY <2>5, SentinelsAssumption
  <2> HIDE DEF r, t
  <2> QED
    BY <1>0, <2>1, <2>2, <2>4, <2>5, <2>6, UpdateInv
<1> QED
  BY <1>1, <1>2 DEF Renew

LEMMA ReleaseInv ==
  ASSUME IInv, NEW p \in LeaseProof, Release(p)
  PROVE  IInv'
<1> DEFINE t == p.instance
<1>0. t \in InstanceId
  BY DEF LeaseProof
<1>1. CASE ValidateFenceExpires(t, p)
  BY <1>0, <1>1, ExpireInv DEF ValidateFenceExpires, FenceExpired
<1>2. CASE /\ FenceOk(t, p)
           /\ \E ok \in SUBSET {t} : StopAll({t}, ok, "Stopped")
           /\ UNCHANGED <<next_instance_id, next_lease_id, is_admitting, now, granted, wire>>
  <2>1. {t} \in SUBSET Present /\ is_admitting \in BOOLEAN
    BY <1>0, <1>2, FenceOkShape DEF Present, IInv, TypeOK
  <2>2. PICK ok \in SUBSET {t} : StopAll({t}, ok, "Stopped")
    BY <1>2
  <2> HIDE DEF t
  <2> QED
    BY <1>2, <2>1, <2>2, StopAllInv
<1> QED
  BY <1>1, <1>2 DEF Release

LEMMA ForwardInv ==
  ASSUME IInv, NEW t \in InstanceId, NEW p \in LeaseProof, Forward(t, p)
  PROVE  IInv'
<1>1. CASE ValidateFenceExpires(t, p)
  BY <1>1, ExpireInv DEF ValidateFenceExpires, FenceExpired
<1>2. CASE FenceOk(t, p) /\ ~ ValidateFenceExpires(t, p)
  <2>1. PICK o \in {"Ready", "Degraded"} :
           instances' = [instances EXCEPT ![t] = Marked(@, o)]
    BY <1>2 DEF Forward
  <2> DEFINE r == Marked(instances[t], o)
  <2>2. /\ instances[t] # Absent /\ instances[t] \in InstanceRecord
        /\ instances[t].lease # NoLease /\ ~ IsTerminal(instances[t])
    BY <1>2, FenceOkShape
  <2>3. /\ wire' \in Seq(LeaseProof)
        /\ UNCHANGED <<next_instance_id, next_lease_id, is_admitting, now, proc, granted>>
    BY <1>2 DEF Forward, IInv, TypeOK
  <2>4. /\ r \in InstanceRecord
        /\ r.process = instances[t].process
        /\ r.lease = instances[t].lease /\ ~ IsTerminal(r)
    BY <2>2 DEF Marked, InstanceRecord, LifecycleState, TerminalState, IsTerminal
  <2>5. instances' = [instances EXCEPT ![t] = r]
    BY <2>1
  <2> HIDE DEF r
  <2> QED
    BY <2>2, <2>3, <2>4, <2>5, UpdateInv
<1> QED
  BY <1>1, <1>2 DEF Forward

\* Cleanup removes a record only when it has no process or the stop succeeded.
LEMMA CleanupInv ==
  ASSUME IInv, NEW i \in InstanceId, NEW c, NEW s, NEW ok \in SUBSET {i}, Cleanup(i, c, s, ok)
  PROVE  IInv'
<1> USE DEF IInv
<1>1. /\ instances[i] # Absent /\ instances[i] \in InstanceRecord
      /\ IsTerminal(instances[i]) /\ instances[i].lease = NoLease
      /\ instances[i].process \in {i, NoProcess}
      /\ UNCHANGED <<next_instance_id, next_lease_id, is_admitting, now, granted, wire>>
  BY DEF Cleanup, TypeOK, RecordsConsistent
<1>2. /\ proc' \in [InstanceId -> {"none", "running", "exited", "stopped"}]
      /\ \A h \in InstanceId \ {i} : proc'[h] = proc[h]
      /\ proc'[i] = "running" => proc[i] = "running" /\ i \notin ok
  BY <1>1 DEF Cleanup, TypeOK, NoOrphanProcess, InstanceId, NoProcess
<1>3. CASE /\ instances[i].process = NoProcess \/ i \in ok
           /\ instances' = [instances EXCEPT ![i] = Absent]
  <2>1. /\ instances' \in [InstanceId -> InstanceRecord \cup {Absent}]
        /\ instances'[i] = Absent
        /\ \A j \in InstanceId \ {i} : instances'[j] = instances[j]
    BY <1>3 DEF TypeOK
  <2>2. proc'[i] # "running"
    BY <1>2, <1>3 DEF NoOrphanProcess, InstanceId, NoProcess
  <2>3. TypeOK' /\ FreshIds'
    BY <1>1, <1>2, <2>1 DEF TypeOK, FreshIds
  <2>4. RecordsConsistent' /\ LeasesGranted'
    BY <1>1, <2>1 DEF RecordsConsistent, IsTerminal, LeasesGranted, HasLease
  <2>5. NoOrphanProcess' /\ ClosedMeansStopped'
    BY <1>1, <1>2, <2>1, <2>2 DEF NoOrphanProcess, ClosedMeansStopped, Present
  <2> QED
    BY <2>3, <2>4, <2>5
<1>4. CASE /\ instances[i].process # NoProcess
           /\ instances' = [instances EXCEPT ![i] = Ended(@, "Failed")]
  <2> DEFINE r == Ended(instances[i], "Failed")
  <2>0. /\ r \in InstanceRecord /\ r.state = "Failed" /\ r.lease = NoLease
        /\ r.process = instances[i].process
    BY <1>1 DEF Ended, InstanceRecord, LifecycleState, TerminalState
  <2>1. /\ instances' \in [InstanceId -> InstanceRecord \cup {Absent}]
        /\ instances'[i] = r
        /\ \A j \in InstanceId \ {i} : instances'[j] = instances[j]
    BY <1>4, <2>0 DEF TypeOK
  <2>2. instances'[i] # Absent
    BY <2>0, <2>1, SentinelsAssumption
  <2> HIDE DEF r
  <2>3. TypeOK' /\ FreshIds'
    BY <1>1, <1>2, <2>1 DEF TypeOK, FreshIds
  <2>4. RecordsConsistent' /\ LeasesGranted'
    BY <1>1, <2>0, <2>1 DEF RecordsConsistent, IsTerminal, TerminalState, LeasesGranted, HasLease
  <2>5. NoOrphanProcess' /\ ClosedMeansStopped'
    BY <1>1, <1>2, <2>0, <2>1, <2>2 DEF NoOrphanProcess, ClosedMeansStopped, Present
  <2> QED
    BY <2>3, <2>4, <2>5
<1> QED
  BY <1>3, <1>4 DEF Cleanup

\* The invariant is inductive: one step per action of Next.
LEMMA NextInv == IInv /\ [Next]_vars => IInv'
<1> SUFFICES ASSUME IInv, [Next]_vars PROVE IInv'
  OBVIOUS
<1>1. ASSUME NEW c \in Callers, NEW s \in Sessions, Allocate(c, s) PROVE IInv'
  BY <1>1, AllocateInv
<1>2. ASSUME NEW i \in InstanceId, Reconcile(i) PROVE IInv'
  BY <1>2, ReconcileInv
<1>3. ASSUME NEW p \in LeaseProof, Renew(p) PROVE IInv'
  BY <1>3, RenewInv
<1>4. ASSUME NEW p \in LeaseProof, Release(p) PROVE IInv'
  BY <1>4, ReleaseInv
<1>5. ASSUME NEW i \in InstanceId, NEW c \in Callers, NEW s \in Sessions,
             NEW ok \in SUBSET {i}, Cleanup(i, c, s, ok)
      PROVE IInv'
  BY <1>5, CleanupInv
<1>6. ASSUME NEW t \in InstanceId, NEW p \in LeaseProof, Forward(t, p) PROVE IInv'
  BY <1>6, ForwardInv
<1>7. ASSUME NEW ok \in SUBSET Present, ExpireDue(ok) PROVE IInv'
  <2> DEFINE S == {i \in InstanceId : LeaseExpired(i)}
  <2>1. S \in SUBSET Present /\ is_admitting \in BOOLEAN
    BY DEF LeaseExpired, HasLease, Present, IInv, TypeOK
  <2>2. /\ StopAll(S, ok, "Expired")
        /\ UNCHANGED <<next_instance_id, next_lease_id, is_admitting, now, granted, wire>>
    BY <1>7 DEF ExpireDue
  <2> HIDE DEF S
  <2> QED
    BY <2>1, <2>2, StopAllInv
<1>8. ASSUME NEW ok \in SUBSET Present, Shutdown(ok) PROVE IInv'
  <2> DEFINE S == {i \in Present : ~ IsTerminal(instances[i])
                                   \/ instances[i].process # NoProcess}
  <2>1. /\ S \in SUBSET Present
        /\ \A i \in Present : i \notin S => /\ IsTerminal(instances[i])
                                           /\ instances[i].process = NoProcess
    OBVIOUS
  <2>2. /\ StopAll(S, ok, "Stopped") /\ is_admitting' \in BOOLEAN
        /\ UNCHANGED <<next_instance_id, next_lease_id, now, granted, wire>>
    BY <1>8 DEF Shutdown
  <2> HIDE DEF S
  <2> QED
    BY <2>1, <2>2, StopAllInv
<1>9. CASE Tick
  BY <1>9 DEF Tick, IInv, TypeOK, Ticks, FreshIds, RecordsConsistent, IsTerminal,
              LeasesGranted, HasLease, ProofOf, NoOrphanProcess, ClosedMeansStopped, Present
<1>10. ASSUME NEW h \in InstanceId, ProcessExit(h) PROVE IInv'
  <2>1. /\ proc' \in [InstanceId -> {"none", "running", "exited", "stopped"}]
        /\ proc[h] = "running" /\ proc'[h] = "exited"
        /\ \A j \in InstanceId \ {h} : proc'[j] = proc[j]
        /\ UNCHANGED <<instances, next_instance_id, next_lease_id, is_admitting, now,
                       granted, wire>>
    BY <1>10 DEF ProcessExit, IInv, TypeOK
  <2> QED
    BY <2>1 DEF IInv, TypeOK, FreshIds, RecordsConsistent, IsTerminal,
                LeasesGranted, HasLease, ProofOf, NoOrphanProcess, ClosedMeansStopped, Present
<1>11. CASE UNCHANGED vars
  BY <1>11 DEF vars, IInv, TypeOK, FreshIds, RecordsConsistent, IsTerminal,
               LeasesGranted, HasLease, ProofOf, NoOrphanProcess, ClosedMeansStopped, Present
<1> QED
  BY <1>1, <1>2, <1>3, <1>4, <1>5, <1>6, <1>7, <1>8, <1>9, <1>10, <1>11 DEF Next

\* IInv holds in every reachable state of the control plane.
THEOREM InvariantHolds == Spec => []IInv
  BY InitInv, NextInv, PTL DEF Spec

\* The state of the control plane keeps its types: the counters stay within
\* their width and expiries within the clock's.
THEOREM TypeCorrect == Spec => []TypeOK
<1>1. IInv => TypeOK
  BY DEF IInv
<1> QED
  BY <1>1, InvariantHolds, PTL

\* No failure path of the lifecycle handlers loses a running process.
THEOREM ProcessesAccountedFor == Spec => []NoOrphanProcess
<1>1. IInv => NoOrphanProcess
  BY DEF IInv
<1> QED
  BY <1>1, InvariantHolds, PTL

\* After shutdown no instance can be forwarded to, whichever stops failed.
THEOREM ShutdownCloses == Spec => []ClosedMeansStopped
<1>1. IInv => ClosedMeansStopped
  BY DEF IInv
<1> QED
  BY <1>1, InvariantHolds, PTL

\* An ended record stays ended, whatever arrives late.
THEOREM EndedStaysEnded == Spec => TerminalIsFinal
<1> DEFINE Keeps == \A i \in InstanceId :
       (instances[i] # Absent /\ IsTerminal(instances[i]) /\ instances'[i] # Absent) =>
           /\ IsTerminal(instances'[i])
           /\ instances'[i].lease = NoLease
           /\ instances'[i].process \in {instances[i].process, NoProcess}
<1>1. IInv /\ [Next]_vars => [Keeps]_vars
  <2> SUFFICES ASSUME IInv, Next,
                      NEW i \in InstanceId,
                      instances[i] # Absent, IsTerminal(instances[i]), instances'[i] # Absent
               PROVE  /\ IsTerminal(instances'[i])
                      /\ instances'[i].lease = NoLease
                      /\ instances'[i].process \in {instances[i].process, NoProcess}
    OBVIOUS
  <2> DEFINE Goal == /\ IsTerminal(instances'[i])
                     /\ instances'[i].lease = NoLease
                     /\ instances'[i].process \in {instances[i].process, NoProcess}
  <2>0. instances[i] \in InstanceRecord /\ instances[i].lease = NoLease
    BY DEF IInv, TypeOK, RecordsConsistent
  <2>a. ASSUME NEW S, NEW ok, NEW s \in {"Stopped", "Expired"}, StopAll(S, ok, s)
        PROVE  Goal
    <3>1. instances'[i] = instances[i] \/ instances'[i] = AfterStop(i, ok, s)
      BY <2>a DEF StopAll
    <3> QED
      BY <3>1, <2>0, AfterStopShape DEF TerminalState, IsTerminal
  <2>b. ASSUME instances'[i] = instances[i] PROVE Goal
    BY <2>b, <2>0
  <2>1. ASSUME NEW c \in Callers, NEW s \in Sessions, Allocate(c, s) PROVE Goal
    <3>1. i # next_instance_id
      BY DEF IInv, FreshIds, InstanceId
    <3>2. instances'[i] = instances[i]
      BY <2>1, <3>1 DEF Allocate, IInv, TypeOK
    <3> QED
      BY <3>2, <2>b
  <2>2. ASSUME NEW j \in InstanceId, Reconcile(j) PROVE Goal
    <3>1. CASE ExpireInstance(j)
      BY <3>1, <2>a DEF ExpireInstance
    <3>2. CASE ~ ExpireInstance(j)
      BY <2>2, <2>b, <3>2 DEF Reconcile, IInv, TypeOK
    <3> QED
      BY <3>1, <3>2
  <2>v. ASSUME NEW t, NEW p, ValidateFenceExpires(t, p) PROVE Goal
    BY <2>v, <2>a DEF ValidateFenceExpires, ExpireInstance
  <2>3. ASSUME NEW p \in LeaseProof, Renew(p) PROVE Goal
    <3>1. CASE ValidateFenceExpires(p.instance, p)
      BY <3>1, <2>v
    <3>2. CASE ~ ValidateFenceExpires(p.instance, p)
      <4>1. FenceOk(p.instance, p) /\ p.instance \in InstanceId
        BY <2>3, <3>2 DEF Renew, LeaseProof
      <4>2. p.instance # i
        BY <4>1, FenceOkShape
      <4> QED
        BY <2>3, <2>b, <3>2, <4>2 DEF Renew, IInv, TypeOK
    <3> QED
      BY <3>1, <3>2
  <2>4. ASSUME NEW p \in LeaseProof, Release(p) PROVE Goal
    BY <2>4, <2>a, <2>v DEF Release
  <2>5. ASSUME NEW j \in InstanceId, NEW c \in Callers, NEW s \in Sessions,
               NEW ok \in SUBSET {j}, Cleanup(j, c, s, ok)
        PROVE Goal
    <3>1. CASE j = i
      <4>1. instances'[i] = Ended(instances[i], "Failed")
        BY <2>5, <3>1 DEF Cleanup, IInv, TypeOK
      <4> QED
        BY <4>1, <2>0 DEF Ended, InstanceRecord, IsTerminal, TerminalState
    <3>2. CASE j # i
      BY <2>5, <3>2, <2>b DEF Cleanup, IInv, TypeOK
    <3> QED
      BY <3>1, <3>2
  <2>6. ASSUME NEW t \in InstanceId, NEW p \in LeaseProof, Forward(t, p) PROVE Goal
    <3>1. CASE ValidateFenceExpires(t, p)
      BY <3>1, <2>v
    <3>2. CASE ~ ValidateFenceExpires(t, p)
      <4>1. t # i
        BY <2>6, <3>2, FenceOkShape DEF Forward
      <4> QED
        BY <2>6, <2>b, <3>2, <4>1 DEF Forward, IInv, TypeOK
    <3> QED
      BY <3>1, <3>2
  <2>7. ASSUME NEW ok \in SUBSET Present, ExpireDue(ok) \/ Shutdown(ok) PROVE Goal
    BY <2>7, <2>a DEF ExpireDue, Shutdown
  <2>8. ASSUME NEW h \in InstanceId, Tick \/ ProcessExit(h) PROVE Goal
    BY <2>8, <2>b DEF Tick, ProcessExit
  <2>9. CASE Tick
    BY <2>9, <2>b DEF Tick
  <2> HIDE DEF Goal
  <2>10. Goal
    BY <2>1, <2>2, <2>3, <2>4, <2>5, <2>6, <2>7, <2>8, <2>9 DEF Next
  <2> QED
    BY <2>10 DEF Goal
<1> QED
  BY <1>1, InvariantHolds, PTL DEF Spec, TerminalIsFinal

\* Only allocate adds a record, and one at a time.
LEMMA PresentGrows ==
  ASSUME IInv, [Next]_vars
  PROVE  \/ Present' \in SUBSET Present
         \/ Cardinality(Present) < Capacity /\ \E i \in InstanceId : Present' \in SUBSET (Present \cup {i})
<1> DEFINE Goal == Present' \in SUBSET Present
<1>a. ASSUME NEW S \in SUBSET Present, NEW ok, NEW s, StopAll(S, ok, s) PROVE Goal
  BY <1>a DEF StopAll, Present
<1>b. ASSUME NEW i \in Present, \A j \in InstanceId \ {i} : instances'[j] = instances[j] PROVE Goal
  BY <1>b DEF Present
<1>e. ASSUME NEW i \in InstanceId, LeaseExpired(i), ExpireInstance(i) PROVE Goal
  <2>1. {i} \in SUBSET Present
    BY <1>e DEF LeaseExpired, HasLease, Present
  <2> QED
    BY <2>1, <1>a, <1>e DEF ExpireInstance
<1>v. ASSUME NEW t \in InstanceId, NEW p, ValidateFenceExpires(t, p) PROVE Goal
  BY <1>v, <1>e DEF ValidateFenceExpires, FenceExpired
<1>1. ASSUME NEW c \in Callers, NEW s \in Sessions, Allocate(c, s)
      PROVE  /\ Cardinality(Present) < Capacity
             /\ \E i \in InstanceId : Present' \in SUBSET (Present \cup {i})
  <2>1. PICK i \in InstanceId : i = next_instance_id
    BY <1>1 DEF Allocate, IInv, TypeOK, InstanceId
  <2>2. Present' \in SUBSET (Present \cup {i})
    BY <1>1, <2>1 DEF Allocate, Present, IInv, TypeOK
  <2> QED
    BY <1>1, <2>2 DEF Allocate
<1>2. ASSUME NEW j \in InstanceId, Reconcile(j) PROVE Goal
  <2>1. CASE LeaseExpired(j) /\ ExpireInstance(j)
    BY <2>1, <1>e
  <2>2. CASE ~ (LeaseExpired(j) /\ ExpireInstance(j))
    BY <1>2, <1>b, <2>2 DEF Reconcile, IInv, TypeOK, Present
  <2> QED
    BY <2>1, <2>2
<1>3. ASSUME NEW p \in LeaseProof, Renew(p) \/ Release(p) PROVE Goal
  <2>0. p.instance \in InstanceId
    BY DEF LeaseProof
  <2>1. CASE ValidateFenceExpires(p.instance, p)
    BY <2>0, <2>1, <1>v
  <2>2. CASE ~ ValidateFenceExpires(p.instance, p)
    <3>1. FenceOk(p.instance, p)
      BY <1>3, <2>2 DEF Renew, Release
    <3>2. p.instance \in Present
      BY <2>0, <3>1, FenceOkShape DEF Present
    <3>3. CASE Renew(p)
      BY <2>2, <3>2, <3>3, <1>b DEF Renew, IInv, TypeOK
    <3>4. CASE Release(p)
      BY <2>2, <3>2, <3>4, <1>a DEF Release
    <3> QED
      BY <1>3, <3>3, <3>4
  <2> QED
    BY <2>1, <2>2
<1>5. ASSUME NEW j \in InstanceId, NEW c \in Callers, NEW s \in Sessions,
             NEW ok \in SUBSET {j}, Cleanup(j, c, s, ok)
      PROVE Goal
  BY <1>5, <1>b DEF Cleanup, Present, IInv, TypeOK
<1>6. ASSUME NEW t \in InstanceId, NEW p \in LeaseProof, Forward(t, p) PROVE Goal
  <2>1. CASE ValidateFenceExpires(t, p)
    BY <2>1, <1>v
  <2>2. CASE ~ ValidateFenceExpires(t, p)
    BY <1>6, <2>2, <1>b, FenceOkShape DEF Forward, Present, IInv, TypeOK
  <2> QED
    BY <2>1, <2>2
<1>7. ASSUME NEW ok \in SUBSET Present, ExpireDue(ok) \/ Shutdown(ok) PROVE Goal
  BY <1>7, <1>a DEF ExpireDue, Shutdown, LeaseExpired, HasLease, Present
<1>8. ASSUME UNCHANGED instances PROVE Goal
  BY <1>8 DEF Present
<1> HIDE DEF Goal
<1>9. Goal \/ \E c \in Callers, s \in Sessions : Allocate(c, s)
  BY <1>2, <1>3, <1>5, <1>6, <1>7, <1>8 DEF Next, Tick, ProcessExit, vars
<1> QED
  BY <1>1, <1>9 DEF Goal

\* The running processes never exceed the configured capacity, although records
\* and processes are removed at different times on the failure paths.
THEOREM CapacityBoundsProcesses == Spec => []RunningWithinCapacity
<1> DEFINE CInv == Cardinality(Present) <= Capacity
<1>0. IsFiniteSet(InstanceId)
  BY FS_Interval DEF InstanceId
<1>1. Init => CInv
  <2>1. Init => Present = {}
    BY DEF Init, Present
  <2> QED
    BY <2>1, FS_EmptySet
<1>2. IInv /\ CInv /\ [Next]_vars => CInv'
  <2> SUFFICES ASSUME IInv, CInv, [Next]_vars PROVE CInv'
    OBVIOUS
  <2>0. IsFiniteSet(Present) /\ Present \in SUBSET InstanceId /\ Cardinality(Present) \in Nat
    BY <1>0, FS_Subset, FS_CardinalityType DEF Present
  <2>1. CASE Present' \in SUBSET Present
    <3>1. Cardinality(Present') <= Cardinality(Present) /\ Cardinality(Present') \in Nat
      BY <2>0, <2>1, FS_Subset, FS_CardinalityType
    <3> QED
      BY <2>0, <3>1
  <2>2. CASE /\ Cardinality(Present) < Capacity
             /\ \E i \in InstanceId : Present' \in SUBSET (Present \cup {i})
    <3>1. PICK i \in InstanceId : Present' \in SUBSET (Present \cup {i})
      BY <2>2
    <3>2. /\ IsFiniteSet(Present \cup {i})
          /\ Cardinality(Present \cup {i}) \in {Cardinality(Present), Cardinality(Present) + 1}
      BY <2>0, FS_AddElement
    <3>3. /\ Cardinality(Present') <= Cardinality(Present \cup {i})
          /\ Cardinality(Present') \in Nat
      BY <3>1, <3>2, FS_Subset, FS_CardinalityType
    <3> QED
      BY <2>0, <2>2, <3>2, <3>3
  <2> QED
    BY <2>1, <2>2, PresentGrows
<1>3. IInv /\ CInv => RunningWithinCapacity
  <2> SUFFICES ASSUME IInv, CInv PROVE RunningWithinCapacity
    OBVIOUS
  <2> DEFINE R == {h \in InstanceId : proc[h] = "running"}
  <2>1. R \in SUBSET Present
    BY DEF IInv, NoOrphanProcess, Present
  <2>2. IsFiniteSet(Present) /\ Cardinality(Present) \in Nat
    BY <1>0, FS_Subset, FS_CardinalityType DEF Present
  <2>3. Cardinality(R) <= Cardinality(Present) /\ Cardinality(R) \in Nat
    BY <2>1, <2>2, FS_Subset, FS_CardinalityType
  <2> QED
    BY <2>2, <2>3 DEF RunningWithinCapacity
<1> HIDE DEF CInv
<1> QED
  BY <1>1, <1>2, <1>3, InvariantHolds, PTL DEF Spec

-----------------------------------------------------------------------------
(* The control plane implements LeaseFence.                                *)

\* A step that makes no lease live, grants nothing and sends nothing ends the
\* leases that stop being live, or is invisible to the fence.
LEMMA EndOrStutter ==
  ASSUME UNCHANGED <<next_lease_id, granted, wire>>,
         \A l \in LeaseId : Live(l)' => Live(l)
  PROVE  [Fence!Next]_(Fence!vars)
<1> DEFINE S == {l \in LeaseId : ~ (l >= next_lease_id) /\ Live(l) /\ ~ Live(l)'}
<1>1. CASE S = {}
  <2>1. Life' = Life
    BY <1>1 DEF Life
  <2> QED
    BY <2>1 DEF Fence!vars
<1>2. CASE S # {}
  <2>1. \A l \in S : Life[l] = "live"
    BY DEF Life
  <2>2. Life' = [l \in LeaseId |-> IF l \in S THEN "ended" ELSE Life[l]]
    BY DEF Life
  <2> HIDE DEF S
  <2>3. Fence!End(S)
    BY <1>2, <2>1, <2>2 DEF Fence!End
  <2>4. S \in SUBSET LeaseId
    BY DEF S
  <2> QED
    BY <2>3, <2>4 DEF Fence!Next
<1> QED
  BY <1>1, <1>2

\* Stopping records only ends leases.
LEMMA StopAllEnds ==
  ASSUME IInv,
         NEW S \in SUBSET Present, NEW ok, NEW s \in {"Stopped", "Expired"},
         StopAll(S, ok, s),
         UNCHANGED <<next_lease_id, now, granted, wire>>
  PROVE  [Fence!Next]_(Fence!vars)
<1>1. \A i \in S : instances'[i].lease = NoLease
  BY AfterStopShape DEF StopAll, IInv, TypeOK, Present, TerminalState
<1>2. \A i \in InstanceId \ S : instances'[i] = instances[i]
  BY DEF StopAll
<1>3. \A l \in LeaseId : Live(l)' => Live(l)
  BY <1>1, <1>2 DEF Live, HasLease, LeaseExpired
<1> QED
  BY <1>3, EndOrStutter

LEMMA ExpireEnds ==
  ASSUME IInv, NEW i \in InstanceId, LeaseExpired(i), ExpireInstance(i)
  PROVE  [Fence!Next]_(Fence!vars)
<1>1. {i} \in SUBSET Present
  BY DEF LeaseExpired, HasLease, Present
<1>2. PICK ok \in SUBSET {i} : StopAll({i}, ok, "Expired")
  BY DEF ExpireInstance
<1>3. UNCHANGED <<next_lease_id, now, granted, wire>>
  BY DEF ExpireInstance
<1> QED
  BY <1>1, <1>2, <1>3, StopAllEnds

\* When the next lease id is consumed, only its own life changes.
LEMMA LifeOfNext ==
  ASSUME NEW n \in LeaseId, next_lease_id = n, next_lease_id' = n + 1,
         \A l \in LeaseId \ {n} : Live(l)' <=> Live(l)
  PROVE  Life' = [Life EXCEPT ![n] = IF Live(n)' THEN "live" ELSE "ended"]
<1> DEFINE x == IF Live(n)' THEN "live" ELSE "ended"
<1>1. ~ (n >= n + 1) /\ \A l \in LeaseId \ {n} : (l >= n) <=> (l >= n + 1)
  BY DEF LeaseId
<1>2. Life' = [l \in LeaseId |-> IF l = n THEN x ELSE Life[l]]
  BY <1>1 DEF Life
<1>3. Life = [l \in LeaseId |-> Life[l]]
  BY DEF Life
<1> HIDE DEF x
<1>4. Life' = [Life EXCEPT ![n] = x]
  BY <1>2, <1>3
<1> QED
  BY <1>4 DEF x

\* Allocation issues the next lease, or burns its identity when the start fails.
LEMMA AllocateIssues ==
  ASSUME IInv, NEW c \in Callers, NEW s \in Sessions, Allocate(c, s)
  PROVE  [Fence!Next]_(Fence!vars)
<1>0. PICK n \in LeaseId : n = next_lease_id
  BY DEF Allocate, IInv, TypeOK, LeaseId
<1> DEFINE lease == [instance |-> next_instance_id, caller |-> c, session |-> s,
                     lease |-> next_lease_id, epoch |-> 1, expires_at |-> ExpiryFromNow]
           rec == [caller |-> c, session |-> s, state |-> "Starting",
                   process |-> next_instance_id, lease |-> lease]
<1>1. /\ n \in LeaseId /\ next_instance_id = n /\ n \in InstanceId
      /\ next_lease_id' = n + 1 /\ now' = now /\ wire' = wire
  BY <1>0 DEF Allocate, IInv, TypeOK, InstanceId, LeaseId, FreshIds
<1>2. instances[n] = Absent
  BY <1>1 DEF IInv, FreshIds, InstanceId
<1>3. \A i \in InstanceId : HasLease(i) => instances[i].lease.lease # n
  BY <1>0 DEF IInv, LeasesGranted, TypeOK, HasLease, InstanceRecord, Lease, LeaseId
<1>4. ~ Live(n) /\ Life[n] = "free"
  BY <1>0, <1>1, <1>3 DEF Live, Life, LeaseId
<1>5. CASE UNCHANGED <<instances, proc, granted>>
  <2>1. \A l \in LeaseId : Live(l)' <=> Live(l)
    BY <1>1, <1>5 DEF Live, HasLease, LeaseExpired
  <2>2. Life' = [Life EXCEPT ![n] = "ended"]
    BY <1>0, <1>1, <1>4, <2>1, LifeOfNext
  <2>3. Fence!Burn(n)
    BY <1>1, <1>4, <1>5, <2>2 DEF Fence!Burn
  <2> QED
    BY <1>1, <2>3 DEF Fence!Next
<1>6. CASE /\ instances' = [instances EXCEPT ![next_instance_id] = rec]
           /\ granted' = [granted EXCEPT ![next_lease_id] = ProofOf(lease)]
  <2>1. lease \in Lease /\ ProofOf(lease) \in LeaseProof
    <3>1. ExpiryFromNow \in Ticks
      BY DEF ExpiryFromNow, Ticks, IInv, TypeOK
    <3> QED
      BY <1>0, <1>1, <3>1 DEF Lease, LeaseProof, ProofOf, Epochs
  <2>2. rec.lease = lease /\ lease.lease = n
    BY <1>0
  <2> HIDE DEF rec, lease
  <2>3. /\ instances'[n] = rec
        /\ \A i \in InstanceId \ {n} : instances'[i] = instances[i]
    BY <1>1, <1>6 DEF IInv, TypeOK
  <2>4. \A l \in LeaseId \ {n} : Live(l)' <=> Live(l)
    BY <1>1, <1>2, <2>2, <2>3 DEF Live, HasLease, LeaseExpired
  <2>5. \E x \in {"live", "ended"} : Life' = [Life EXCEPT ![n] = x]
    <3>1. CASE Live(n)'
      <4>1. Life' = [Life EXCEPT ![n] = "live"]
        BY <1>0, <3>1, <1>1, <2>4, LifeOfNext
      <4> QED
        BY <4>1
    <3>2. CASE ~ Live(n)'
      <4>1. Life' = [Life EXCEPT ![n] = "ended"]
        BY <1>0, <3>2, <1>1, <2>4, LifeOfNext
      <4> QED
        BY <4>1
    <3> QED
      BY <3>1, <3>2
  <2>6. Fence!Issue(n)
    BY <1>0, <1>1, <1>4, <1>6, <2>1, <2>5 DEF Fence!Issue
  <2> QED
    BY <1>1, <2>6 DEF Fence!Next
<1> QED
  BY <1>5, <1>6 DEF Allocate

\* Forward serves the lease whose granted proof it was given.
LEMMA ForwardServes ==
  ASSUME IInv, NEW t \in InstanceId, NEW p \in LeaseProof, Forward(t, p)
  PROVE  [Fence!Next]_(Fence!vars)
<1>1. CASE ValidateFenceExpires(t, p)
  BY <1>1, ExpireEnds DEF ValidateFenceExpires, FenceExpired
<1>2. CASE FenceOk(t, p) /\ ~ ValidateFenceExpires(t, p)
  <2>1. /\ instances[t] # Absent /\ instances[t].lease # NoLease
        /\ instances[t] \in InstanceRecord
        /\ instances[t].process = t /\ ProofOf(instances[t].lease) = p
    BY <1>2, FenceOkShape
  <2>2. HasLease(t) /\ ~ LeaseExpired(t) /\ instances[t].lease.lease = p.lease
    BY <1>2 DEF FenceOk
  <2>3. /\ p.lease \in LeaseId /\ p.lease < next_lease_id
        /\ granted[p.lease] = p
    BY <2>1, <2>2 DEF IInv, LeasesGranted, LeaseProof
  <2>4. Life[p.lease] = "live"
    BY <2>2, <2>3 DEF Life, Live, LeaseId, IInv, TypeOK
  <2>5. PICK o \in {"Ready", "Degraded"} :
           /\ instances' = [instances EXCEPT ![t] = Marked(@, o)]
           /\ wire' = Append(wire, p)
           /\ UNCHANGED <<next_lease_id, now, granted>>
    BY <1>2, <2>1 DEF Forward, InstanceId, NoProcess
  <2>6. /\ instances'[t].lease = instances[t].lease /\ instances'[t] # Absent
        /\ \A i \in InstanceId \ {t} : instances'[i] = instances[i]
    <3>1. Marked(instances[t], o) \in InstanceRecord
      BY <2>1 DEF Marked, InstanceRecord, LifecycleState
    <3>2. Marked(instances[t], o).lease = instances[t].lease
      BY <2>1 DEF Marked, InstanceRecord
    <3> QED
      BY <2>5, <3>1, <3>2, SentinelsAssumption DEF IInv, TypeOK
  <2>7. \A l \in LeaseId : Live(l)' <=> Live(l)
    BY <2>1, <2>5, <2>6 DEF Live, HasLease, LeaseExpired
  <2>8. Life' = Life
    BY <2>5, <2>7 DEF Life
  <2>9. Fence!Serve(p.lease)
    BY <2>3, <2>4, <2>5, <2>8 DEF Fence!Serve
  <2> QED
    BY <2>3, <2>9 DEF Fence!Next
<1> QED
  BY <1>1, <1>2 DEF Forward

\* Reconciling a record drops its lease or leaves the lease alone.
LEMMA ReconcileEnds ==
  ASSUME IInv, NEW i \in InstanceId, Reconcile(i)
  PROVE  [Fence!Next]_(Fence!vars)
<1>1. CASE LeaseExpired(i) /\ ExpireInstance(i)
  BY <1>1, ExpireEnds
<1>2. CASE ~ LeaseExpired(i)
  <2>1. PICK s \in Observable(instances[i]) :
           instances' = [instances EXCEPT ![i] =
              IF s = "Failed" THEN Ended(@, s) ELSE Marked(@, s)]
    BY <1>2 DEF Reconcile
  <2>2. /\ instances[i] # Absent /\ instances[i] \in InstanceRecord
        /\ UNCHANGED <<next_lease_id, now, granted, wire>>
    BY <1>2 DEF Reconcile, IInv, TypeOK
  <2>3. /\ instances'[i].lease \in {NoLease, instances[i].lease}
        /\ \A j \in InstanceId \ {i} : instances'[j] = instances[j]
    <3>1. /\ Ended(instances[i], s).lease = NoLease
          /\ Marked(instances[i], s).lease = instances[i].lease
      BY <2>2 DEF Ended, Marked, InstanceRecord
    <3> QED
      BY <2>1, <3>1 DEF IInv, TypeOK
  <2>4. \A l \in LeaseId : Live(l)' => Live(l)
    BY <2>2, <2>3 DEF Live, HasLease, LeaseExpired
  <2> QED
    BY <2>2, <2>4, EndOrStutter
<1> QED
  BY <1>1, <1>2 DEF Reconcile

\* Renewal moves the expiry of a lease that is live, and of no other.
LEMMA RenewKeeps ==
  ASSUME IInv, NEW p \in LeaseProof, Renew(p)
  PROVE  [Fence!Next]_(Fence!vars)
<1>0. PICK t \in InstanceId : t = p.instance
  BY DEF LeaseProof
<1>1. CASE ValidateFenceExpires(t, p)
  BY <1>1, ExpireEnds DEF ValidateFenceExpires, FenceExpired
<1>2. CASE FenceOk(t, p) /\ ~ ValidateFenceExpires(t, p)
  <2>1. /\ instances' = [instances EXCEPT ![t].lease.expires_at = ExpiryFromNow]
        /\ UNCHANGED <<next_lease_id, now, granted, wire>>
    BY <1>0, <1>2 DEF Renew
  <2>2. /\ instances[t] # Absent /\ instances[t] \in InstanceRecord
        /\ instances[t].lease \in Lease
        /\ HasLease(t) /\ ~ LeaseExpired(t)
    BY <1>2, FenceOkShape DEF FenceOk
  <2>3. /\ instances'[t].lease.lease = instances[t].lease.lease
        /\ \A j \in InstanceId \ {t} : instances'[j] = instances[j]
    BY <2>1, <2>2 DEF IInv, TypeOK, InstanceRecord, Lease
  <2>4. \A l \in LeaseId : Live(l)' => Live(l)
    BY <2>1, <2>2, <2>3 DEF Live, HasLease, LeaseExpired
  <2> QED
    BY <2>1, <2>4, EndOrStutter
<1> QED
  BY <1>0, <1>1, <1>2 DEF Renew

LEMMA ReleaseEnds ==
  ASSUME IInv, NEW p \in LeaseProof, Release(p)
  PROVE  [Fence!Next]_(Fence!vars)
<1>0. PICK t \in InstanceId : t = p.instance
  BY DEF LeaseProof
<1>1. CASE ValidateFenceExpires(t, p)
  BY <1>1, ExpireEnds DEF ValidateFenceExpires, FenceExpired
<1>2. CASE /\ FenceOk(t, p)
           /\ \E ok \in SUBSET {t} : StopAll({t}, ok, "Stopped")
           /\ UNCHANGED <<next_instance_id, next_lease_id, is_admitting, now, granted, wire>>
  <2>1. {t} \in SUBSET Present
    BY <1>2, FenceOkShape DEF Present
  <2>2. PICK ok \in SUBSET {t} : StopAll({t}, ok, "Stopped")
    BY <1>2
  <2> QED
    BY <1>2, <2>1, <2>2, StopAllEnds
<1> QED
  BY <1>0, <1>1, <1>2 DEF Release

\* Cleanup touches a record that has no lease any more.
LEMMA CleanupStutters ==
  ASSUME IInv, NEW i \in InstanceId, NEW c, NEW s, NEW ok \in SUBSET {i}, Cleanup(i, c, s, ok)
  PROVE  [Fence!Next]_(Fence!vars)
<1>1. /\ instances[i] \in InstanceRecord
      /\ UNCHANGED <<next_lease_id, now, granted, wire>>
  BY DEF Cleanup, IInv, TypeOK
<1>2. Ended(instances[i], "Failed").lease = NoLease
  BY <1>1 DEF Ended, InstanceRecord
<1>3. /\ instances'[i] = Absent \/ instances'[i].lease = NoLease
      /\ \A j \in InstanceId \ {i} : instances'[j] = instances[j]
  BY <1>2 DEF Cleanup, IInv, TypeOK
<1>4. \A l \in LeaseId : Live(l)' => Live(l)
  BY <1>1, <1>3 DEF Live, HasLease, LeaseExpired
<1> QED
  BY <1>1, <1>4, EndOrStutter

\* Every step of the control plane is a step of the fence or leaves it alone.
LEMMA NextRefines == IInv /\ [Next]_vars => [Fence!Next]_(Fence!vars)
<1> SUFFICES ASSUME IInv, [Next]_vars PROVE [Fence!Next]_(Fence!vars)
  OBVIOUS
<1> DEFINE Goal == [Fence!Next]_(Fence!vars)
<1>1. ASSUME NEW c \in Callers, NEW s \in Sessions, Allocate(c, s) PROVE Goal
  BY <1>1, AllocateIssues
<1>2. ASSUME NEW i \in InstanceId, Reconcile(i) PROVE Goal
  BY <1>2, ReconcileEnds
<1>3. ASSUME NEW p \in LeaseProof, Renew(p) PROVE Goal
  BY <1>3, RenewKeeps
<1>4. ASSUME NEW p \in LeaseProof, Release(p) PROVE Goal
  BY <1>4, ReleaseEnds
<1>5. ASSUME NEW i \in InstanceId, NEW c \in Callers, NEW s \in Sessions,
             NEW ok \in SUBSET {i}, Cleanup(i, c, s, ok)
      PROVE Goal
  BY <1>5, CleanupStutters
<1>6. ASSUME NEW t \in InstanceId, NEW p \in LeaseProof, Forward(t, p) PROVE Goal
  BY <1>6, ForwardServes
<1>7. ASSUME NEW ok \in SUBSET Present, ExpireDue(ok) PROVE Goal
  <2> DEFINE S == {i \in InstanceId : LeaseExpired(i)}
  <2>1. S \in SUBSET Present
    BY DEF LeaseExpired, HasLease, Present
  <2>2. StopAll(S, ok, "Expired") /\ UNCHANGED <<next_lease_id, now, granted, wire>>
    BY <1>7 DEF ExpireDue
  <2> HIDE DEF S
  <2> QED
    BY <2>1, <2>2, StopAllEnds
<1>8. ASSUME NEW ok \in SUBSET Present, Shutdown(ok) PROVE Goal
  <2> DEFINE S == {i \in Present : ~ IsTerminal(instances[i])
                                   \/ instances[i].process # NoProcess}
  <2>1. S \in SUBSET Present
    OBVIOUS
  <2>2. StopAll(S, ok, "Stopped") /\ UNCHANGED <<next_lease_id, now, granted, wire>>
    BY <1>8 DEF Shutdown
  <2> HIDE DEF S
  <2> QED
    BY <2>1, <2>2, StopAllEnds
<1>9. CASE Tick
  <2>1. /\ UNCHANGED <<instances, next_lease_id, granted, wire>>
        /\ now \in Ticks /\ now' = now + 1
    BY <1>9 DEF Tick, IInv, TypeOK
  <2>2. \A i \in InstanceId : HasLease(i) => instances[i].lease.expires_at \in Ticks
    BY DEF HasLease, IInv, TypeOK, InstanceRecord, Lease
  <2>3. \A i \in InstanceId : LeaseExpired(i) => LeaseExpired(i)'
    BY <2>1, <2>2 DEF LeaseExpired, HasLease, Ticks
  <2>4. \A l \in LeaseId : Live(l)' => Live(l)
    BY <2>1, <2>3 DEF Live, HasLease
  <2> QED
    BY <2>1, <2>4, EndOrStutter
<1>10. ASSUME NEW h \in InstanceId, ProcessExit(h) PROVE Goal
  <2>1. \A l \in LeaseId : Live(l)' => Live(l)
    BY <1>10 DEF ProcessExit, Live, HasLease, LeaseExpired
  <2> QED
    BY <1>10, <2>1, EndOrStutter DEF ProcessExit
<1>11. CASE UNCHANGED vars
  <2>1. \A l \in LeaseId : Live(l)' => Live(l)
    BY <1>11 DEF vars, Live, HasLease, LeaseExpired
  <2> QED
    BY <1>11, <2>1, EndOrStutter DEF vars
<1> QED
  BY <1>1, <1>2, <1>3, <1>4, <1>5, <1>6, <1>7, <1>8, <1>9, <1>10, <1>11 DEF Next

\* The control plane implements the lease fence: evaluate_fence together with the
\* handlers never serves a lapsed, released or forged lease.
THEOREM RefinesFence == Spec => ImplementsFence
<1>1. Init => Fence!Init
  <2> SUFFICES ASSUME Init PROVE Fence!Init
    OBVIOUS
  <2>1. \A l \in LeaseId : l >= next_lease_id
    BY DEF Init, LeaseId
  <2>2. Life = [l \in LeaseId |-> "free"]
    BY <2>1 DEF Life
  <2> QED
    BY <2>2 DEF Init, Fence!Init
<1> QED
  BY <1>1, InvariantHolds, NextRefines, PTL DEF Spec, ImplementsFence, Fence!Spec

-----------------------------------------------------------------------------
(* The seeded-run ledger: the inductive invariant.                          *)

\* What an entry, in memory or in the journal, says about the world.
Sound(op, entry) ==
  /\ entry.status = "Settled" => effect[op] = "done"
  /\ entry.status = "Rejected" => writes[op] = 0 \/ effect[op] = "refused"
  /\ entry.status = "Absent" => writes[op] = 0

\* What restore_state demands of an entry, in a snapshot of generation g.
Restorable(entry, g) ==
  entry.status = "Settled" => entry.observed > entry.asked /\ entry.observed <= g

SnapshotSound(ops, g) ==
  /\ \A op \in Ops : Sound(op, ops[op]) /\ Restorable(ops[op], g)
  /\ Cardinality(KnownIn(ops)) <= operation_capacity

\* Memory is sound while the service is up, the journal always: a failed
\* store leaves either snapshot on disk.
LedgerSound ==
  /\ worker.at # "down" => SnapshotSound(operations, generation)
  /\ SnapshotSound(journal.operations, journal.generation)

\* An operation under way is in flight in memory and on disk, so that no
\* restart can take it for a new one; it is dispatched once.
WorkerConsistent ==
  /\ worker.at \in {"dispatch", "await"} =>
       /\ operations[worker.op].status = "InFlight"
       /\ journal.operations[worker.op].status = "InFlight"
  /\ worker.at = "dispatch" => writes[worker.op] = 0

\* The host knows only of what was written, and its receipts are true.
HostConsistent ==
  \A op \in Ops :
    LET receipt == host.receipts[op]
    IN /\ writes[op] \in {0, 1}
       /\ receipt.status # "Never" => writes[op] = 1
       /\ effect[op] = CASE receipt.status = "Settled" -> "done"
                         [] receipt.status \in {"Rejected", "Cancelled"} -> "refused"
                         [] OTHER -> "none"

\* The parts together are preserved by every step, crashes included.
SeededInv == SeededTypes /\ LedgerSound /\ WorkerConsistent /\ HostConsistent

\* restore_state never refuses a journal that the service left behind.
SidecarRestorable == RestoreAccepts(journal)

-----------------------------------------------------------------------------
(* Lemmas.                                                                  *)

\* The facts of the current state that the handlers start from.
LEMMA StateFacts ==
  ASSUME SeededInv
  PROVE  /\ operations \in [Ops -> Entry] /\ generation \in Generation
         /\ journal \in Persisted
         /\ answers \in [Ops -> SUBSET Definite]
         /\ \A op \in Ops : /\ operations[op].asked \in Generation
                            /\ host.receipts[op] \in Receipt
         /\ worker.at \notin {"dispatch", "await"} \/ worker.op \in Ops
  BY DEF SeededInv, SeededTypes, Entry, Idle, Down

\* The results the ledger makes are entries of the map.
LEMMA ResultFacts ==
  ASSUME NEW status \in Status \cup {"InFlight", "Absent"}, NEW asked \in Generation,
         NEW observed \in Generation
  PROVE  /\ Result(status, asked, observed) \in Entry
         /\ Result(status, asked, observed).status = status
         /\ Result(status, asked, observed).asked = asked
         /\ Result(status, asked, observed).observed = observed
  BY DEF Result, Entry

LEMMA ZeroIsGeneration == 0 \in Generation
  BY SeededConfig DEF Generation

\* Telling a status of an operation keeps the type of the answers.
LEMMA ToldType ==
  ASSUME answers \in [Ops -> SUBSET Definite], NEW op \in Ops, NEW status, Told(op, status)
  PROVE  answers' \in [Ops -> SUBSET Definite]
<1>1. answers[op] \cup ({status} \cap Definite) \in SUBSET Definite
  OBVIOUS
<1>2. QED
  BY <1>1 DEF Told

\* Replacing the entry of a retained operation, or of a new one while there is
\* room, by a sound one leaves a sound snapshot, also of a later generation.
LEMMA EntryReplaced ==
  ASSUME SeededInv, worker.at # "down", NEW op \in Ops, NEW entry \in Entry,
         NEW g \in Generation, generation <= g,
         Sound(op, entry), Restorable(entry, g),
         op \in Retained \/ Cardinality(Retained) < operation_capacity,
         NEW ops, ops = [operations EXCEPT ![op] = entry]
  PROVE  ops \in [Ops -> Entry] /\ SnapshotSound(ops, g)
<1>1. /\ operations \in [Ops -> Entry]
      /\ ops \in [Ops -> Entry]
      /\ ops[op] = entry
      /\ \A o \in Ops : o # op => ops[o] = operations[o]
  BY StateFacts
<1>2. SnapshotSound(operations, generation)
  BY DEF SeededInv, LedgerSound
<1>3. \A o \in Ops : Sound(o, ops[o])
  BY <1>1, <1>2 DEF SnapshotSound
<1>4. \A o \in Ops : Restorable(ops[o], g)
  <2> SUFFICES ASSUME NEW o \in Ops, o # op PROVE Restorable(ops[o], g)
    BY <1>1
  <2>1. Restorable(operations[o], generation) /\ operations[o].observed \in Generation
    BY <1>1, <1>2 DEF SnapshotSound, Entry
  <2>2. generation \in Generation /\ ops[o] = operations[o]
    BY <1>1, StateFacts
  <2>3. QED
    BY <2>1, <2>2 DEF Restorable, Generation
<1>5. IsFiniteSet(Retained) /\ Cardinality(Retained) <= operation_capacity
  BY <1>2, SeededConfig, FS_Subset DEF Retained, KnownIn, SnapshotSound
<1>6. KnownIn(ops) \subseteq Retained \cup {op}
  BY <1>1 DEF KnownIn, Retained
<1>7. /\ IsFiniteSet(Retained \cup {op})
      /\ Cardinality(Retained \cup {op}) <= operation_capacity
  <2>1. /\ IsFiniteSet(Retained \cup {op})
        /\ Cardinality(Retained \cup {op}) =
             IF op \in Retained THEN Cardinality(Retained) ELSE Cardinality(Retained) + 1
    BY <1>5, FS_AddElement
  <2>2. Cardinality(Retained) \in Nat /\ operation_capacity \in Nat
    BY <1>5, FS_CardinalityType, SeededConfig
  <2>3. QED
    BY <1>5, <2>1, <2>2
<1>8. Cardinality(KnownIn(ops)) <= operation_capacity
  <2>1. /\ IsFiniteSet(KnownIn(ops))
        /\ Cardinality(KnownIn(ops)) <= Cardinality(Retained \cup {op})
    BY <1>6, <1>7, FS_Subset
  <2>2. /\ Cardinality(KnownIn(ops)) \in Nat
        /\ Cardinality(Retained \cup {op}) \in Nat
        /\ operation_capacity \in Nat
    BY <1>7, <2>1, FS_CardinalityType, SeededConfig
  <2>3. QED
    BY <1>7, <2>1, <2>2
<1>9. QED
  BY <1>1, <1>3, <1>4, <1>8 DEF SnapshotSound

\* The shape every storing handler has: the journal becomes the snapshot of
\* ops and g or, if the store failed, stays; memory becomes sound entries.
LEMMA StoringStep ==
  ASSUME SeededInv, worker.at # "down",
         NEW ops \in [Ops -> Entry], NEW g \in Generation, SnapshotSound(ops, g),
         journal' \in {journal, persisted_state(ops, g)},
         operations' \in [Ops -> Entry], generation' \in Generation,
         SnapshotSound(operations', generation'),
         answers' \in [Ops -> SUBSET Definite],
         worker' \in {Idle} \cup [at : {"dispatch", "await"}, op : Ops],
         WorkerConsistent',
         UNCHANGED <<host, crashes, writes, effect>>
  PROVE  SeededInv'
<1>1. /\ persisted_state(ops, g).operations = ops
      /\ persisted_state(ops, g).generation = g
      /\ persisted_state(ops, g) \in Persisted
  BY DEF persisted_state, Persisted
<1>2. SeededTypes'
  BY <1>1 DEF SeededInv, SeededTypes
<1>3. SnapshotSound(journal'.operations, journal'.generation)
  BY <1>1 DEF SeededInv, LedgerSound
<1>4. LedgerSound'
  BY <1>3 DEF LedgerSound, SnapshotSound, Sound, Restorable, KnownIn
<1>5. HostConsistent'
  BY DEF SeededInv, HostConsistent
<1>6. QED
  BY <1>2, <1>4, <1>5 DEF SeededInv

\* Nothing is under way while the worker is idle.
LEMMA IdleIsConsistent ==
  ASSUME worker' = Idle PROVE WorkerConsistent'
  BY DEF Idle, WorkerConsistent

-----------------------------------------------------------------------------
(* Every step preserves the invariant.                                      *)

LEMMA SeededStarts == SeededInit => SeededInv
<1> SUFFICES ASSUME SeededInit PROVE SeededInv
  OBVIOUS
<1>1. /\ NoEntry \in Entry /\ NoEntry.status = "Absent"
      /\ Result("Never", 0, 0) \in Receipt /\ Result("Never", 0, 0).status = "Never"
  BY ZeroIsGeneration DEF NoEntry, Result, Entry, Receipt
<1>2. Empty \in [Ops -> Entry] /\ \A op \in Ops : Empty[op] = NoEntry
  BY <1>1 DEF Empty
<1>3. SeededTypes
  <2>1. journal \in Persisted
    BY <1>2, ZeroIsGeneration DEF SeededInit, Persisted, persisted_state
  <2>2. host \in [generation : Generation, receipts : [Ops -> Receipt]]
    BY <1>1 DEF SeededInit
  <2>3. QED
    BY <1>2, <2>1, <2>2, ZeroIsGeneration DEF SeededInit, SeededTypes
<1>4. SnapshotSound(Empty, 0)
  <2>1. KnownIn(Empty) = {}
    BY <1>1, <1>2 DEF KnownIn
  <2>2. Cardinality(KnownIn(Empty)) <= operation_capacity
    BY <2>1, FS_EmptySet, SeededConfig
  <2>3. QED
    BY <1>1, <1>2, <2>2 DEF SnapshotSound, Sound, Restorable, SeededInit
<1>5. LedgerSound /\ WorkerConsistent
  BY <1>4 DEF SeededInit, LedgerSound, WorkerConsistent, persisted_state, Idle
<1>6. HostConsistent
  BY <1>1 DEF SeededInit, HostConsistent
<1>7. QED
  BY <1>3, <1>5, <1>6 DEF SeededInv

\* A replay tells what is retained and changes nothing else.
LEMMA ReplayKeeps ==
  ASSUME SeededInv, NEW op \in Ops, NEW asked \in Generation, Replay(op, asked)
  PROVE  SeededInv'
<1>1. answers' \in [Ops -> SUBSET Definite]
  BY StateFacts, ToldType DEF Replay
<1>2. SeededTypes'
  BY <1>1 DEF SeededInv, SeededTypes, Replay, gateway
<1>3. LedgerSound' /\ WorkerConsistent' /\ HostConsistent'
  BY DEF SeededInv, LedgerSound, SnapshotSound, Sound, Restorable, KnownIn,
         WorkerConsistent, HostConsistent, Replay, gateway
<1>4. QED
  BY <1>2, <1>3 DEF SeededInv

\* What is rejected as stale was unknown, so nothing was written for it.
LEMMA SubmitStaleKeeps ==
  ASSUME SeededInv, NEW op \in Ops, NEW asked \in Generation, SubmitStale(op, asked)
  PROVE  SeededInv'
<1> DEFINE ops == [operations EXCEPT ![op] = Rejected(asked)]
<1>1. /\ worker.at = "idle" /\ worker' = worker /\ worker = Idle
      /\ generation' = generation /\ operations' = ops
  BY StateFacts DEF SubmitStale, Admissible, SeededInv, SeededTypes, Down
<1>2. writes[op] = 0
  BY <1>1 DEF SubmitStale, Admissible, Retained, KnownIn, SeededInv, LedgerSound,
         SnapshotSound, Sound
<1>3. Rejected(asked) \in Entry /\ Rejected(asked).status = "Rejected"
  BY ResultFacts, ZeroIsGeneration DEF Rejected, Status
<1>4. generation \in Generation /\ generation <= generation
  BY StateFacts DEF Generation
<1>5. ops \in [Ops -> Entry] /\ SnapshotSound(ops, generation)
  <2>1. Sound(op, Rejected(asked)) /\ Restorable(Rejected(asked), generation)
    BY <1>2, <1>3 DEF Sound, Restorable
  <2>2. Cardinality(Retained) < operation_capacity
    BY DEF SubmitStale, Admissible
  <2>3. QED
    BY <1>1, <1>3, <1>4, <2>1, <2>2, EntryReplaced
<1>6. answers' \in [Ops -> SUBSET Definite]
  BY StateFacts, ToldType DEF SubmitStale
<1>7. journal' \in {journal, persisted_state(ops, generation)}
  BY <1>1 DEF SubmitStale, Stored, StoreFails
<1>8. UNCHANGED <<host, crashes, writes, effect>>
  BY DEF SubmitStale
<1>9. WorkerConsistent'
  BY <1>1, IdleIsConsistent
<1>10. QED
  BY <1>1, <1>4, <1>5, <1>6, <1>7, <1>8, <1>9, StoringStep

\* The admitted operation is in flight on disk before the worker may dispatch
\* it, and a failed checkpoint leaves memory without it.
LEMMA SubmitAdmittedKeeps ==
  ASSUME SeededInv, NEW op \in Ops, NEW asked \in Generation, SubmitAdmitted(op, asked)
  PROVE  SeededInv'
<1> DEFINE entry == Result("InFlight", asked, 0)
           ops == [operations EXCEPT ![op] = entry]
<1>1. /\ worker.at = "idle" /\ worker = Idle /\ generation' = asked
      /\ UNCHANGED <<host, crashes, writes, effect, answers>>
  BY StateFacts DEF SubmitAdmitted, Admissible, SeededInv, SeededTypes, Down, history
<1>2. writes[op] = 0
  BY <1>1 DEF SubmitAdmitted, Admissible, Retained, KnownIn, SeededInv, LedgerSound,
         SnapshotSound, Sound
<1>3. entry \in Entry /\ entry.status = "InFlight"
  BY ResultFacts, ZeroIsGeneration
<1>4. generation <= asked
  BY StateFacts DEF SubmitAdmitted, Binding, Generation
<1>5. ops \in [Ops -> Entry] /\ SnapshotSound(ops, asked)
  <2>1. Sound(op, entry) /\ Restorable(entry, asked)
    BY <1>2, <1>3 DEF Sound, Restorable
  <2>2. Cardinality(Retained) < operation_capacity
    BY DEF SubmitAdmitted, Admissible
  <2>3. QED
    BY <1>1, <1>3, <1>4, <2>1, <2>2, EntryReplaced
<1>6. answers' \in [Ops -> SUBSET Definite]
  BY <1>1, StateFacts
<1>7. CASE /\ operations' = ops /\ Stored(ops, asked)
           /\ worker' = [at |-> "dispatch", op |-> op]
  <2>1. journal' = persisted_state(ops, asked) /\ journal'.operations = ops
    BY <1>7 DEF Stored, persisted_state
  <2>2. ops[op] = entry
    BY StateFacts
  <2>3. WorkerConsistent'
    BY <1>1, <1>2, <1>3, <1>7, <2>1, <2>2 DEF WorkerConsistent
  <2>4. QED
    BY <1>1, <1>5, <1>6, <1>7, <2>1, <2>3, StoringStep
<1>8. CASE UNCHANGED <<operations, worker>> /\ StoreFails(ops, asked)
  <2>1. SnapshotSound(operations, asked)
    <3>1. SnapshotSound(operations, generation)
      BY <1>1 DEF SeededInv, LedgerSound
    <3>2. \A o \in Ops : operations[o].observed \in Generation
      BY StateFacts DEF Entry
    <3>3. generation \in Generation
      BY StateFacts
    <3>4. QED
      BY <1>4, <3>1, <3>2, <3>3 DEF SnapshotSound, Restorable, Generation
  <2>2. WorkerConsistent'
    BY <1>1, <1>8, IdleIsConsistent
  <2>3. operations' \in [Ops -> Entry] /\ SnapshotSound(operations', generation')
    BY <1>1, <1>8, <2>1, StateFacts DEF SnapshotSound, Sound, Restorable, KnownIn
  <2>4. QED
    BY <1>1, <1>5, <1>6, <1>8, <2>2, <2>3, StoringStep DEF StoreFails
<1>9. QED
  BY <1>7, <1>8 DEF SubmitAdmitted

\* The request is written once, for an operation that is in flight on disk.
LEMMA DispatchKeeps ==
  ASSUME SeededInv, Dispatch PROVE SeededInv'
<1> DEFINE o == worker.op
           receipt == Result("Unread", operations[o].asked, 0)
<1>1. /\ worker.at = "dispatch" /\ o \in Ops /\ worker' = [worker EXCEPT !.at = "await"]
      /\ UNCHANGED <<operations, generation, journal, crashes, effect, answers>>
  BY StateFacts DEF Dispatch
<1>2. /\ writes[o] = 0 /\ operations[o].status = "InFlight"
      /\ journal.operations[o].status = "InFlight"
  BY <1>1 DEF SeededInv, WorkerConsistent
<1>3. /\ writes \in [Ops -> Nat] /\ writes' = [writes EXCEPT ![o] = @ + 1]
  BY DEF SeededInv, SeededTypes, Dispatch
<1>4. /\ writes' \in [Ops -> Nat] /\ writes'[o] = 1
      /\ \A p \in Ops : p # o => writes'[p] = writes[p]
  BY <1>1, <1>2, <1>3
<1>5. /\ worker' \in [at : {"dispatch", "await"}, op : Ops]
      /\ worker'.at = "await" /\ worker'.op = o
  BY <1>1 DEF SeededInv, SeededTypes, Idle, Down
<1>6. receipt \in Receipt /\ receipt.status = "Unread"
  BY <1>1, StateFacts, ZeroIsGeneration DEF Result, Receipt
<1>7. /\ host' \in [generation : Generation, receipts : [Ops -> Receipt]]
      /\ \A p \in Ops : p # o => host'.receipts[p] = host.receipts[p]
      /\ host'.receipts[o] \in {host.receipts[o], receipt}
  <2>1. host \in [generation : Generation, receipts : [Ops -> Receipt]]
    BY DEF SeededInv, SeededTypes
  <2>2. CASE UNCHANGED host
    BY <2>1, <2>2
  <2>3. CASE host' = [host EXCEPT !.receipts[o] = receipt]
    BY <1>1, <1>6, <2>1, <2>3
  <2>4. QED
    BY <2>2, <2>3 DEF Dispatch
<1>8. SeededTypes'
  BY <1>1, <1>4, <1>5, <1>7 DEF SeededInv, SeededTypes
<1>9. LedgerSound'
  <2>1. \A p \in Ops : \A e : Sound(p, e) /\ (p = o => e.status = "InFlight") => Sound(p, e)'
    BY <1>1, <1>4 DEF Sound
  <2>2. \A ops, g : SnapshotSound(ops, g) /\ ops[o].status = "InFlight" =>
          /\ \A p \in Ops : Sound(p, ops[p])' /\ Restorable(ops[p], g)
          /\ Cardinality(KnownIn(ops)) <= operation_capacity
    BY <2>1 DEF SnapshotSound
  <2>3. SnapshotSound(operations, generation)'
    BY <1>1, <1>2, <2>2 DEF SeededInv, LedgerSound, SnapshotSound, Restorable, KnownIn
  <2>4. SnapshotSound(journal.operations, journal.generation)'
    BY <1>1, <1>2, <2>2 DEF SeededInv, LedgerSound, SnapshotSound, Restorable, KnownIn
  <2>5. QED
    BY <2>3, <2>4 DEF LedgerSound
<1>10. WorkerConsistent'
  BY <1>1, <1>2, <1>5 DEF WorkerConsistent
<1>11. HostConsistent'
  <2> SUFFICES ASSUME NEW p \in Ops
               PROVE  /\ writes'[p] \in {0, 1}
                      /\ host'.receipts[p].status # "Never" => writes'[p] = 1
                      /\ effect'[p] = CASE host'.receipts[p].status = "Settled" -> "done"
                           [] host'.receipts[p].status \in {"Rejected", "Cancelled"} -> "refused"
                           [] OTHER -> "none"
    BY DEF HostConsistent
  <2>1. CASE p # o
    BY <1>1, <1>4, <1>7, <2>1 DEF SeededInv, HostConsistent
  <2>2. CASE p = o
    <3>1. host.receipts[o].status = "Never" /\ effect[o] = "none"
      BY <1>1, <1>2 DEF SeededInv, HostConsistent
    <3>2. QED
      BY <1>1, <1>4, <1>6, <1>7, <2>2, <3>1
  <2>3. QED
    BY <2>1, <2>2
<1>12. QED
  BY <1>8, <1>9, <1>10, <1>11 DEF SeededInv

\* A true result is retained, in memory and, if the store works, on disk.
LEMMA ConcludeKeeps ==
  ASSUME SeededInv, worker.at \in {"dispatch", "await"},
         NEW result \in Entry, result.status # "Absent", Sound(worker.op, result),
         result.status = "Settled" => result.observed > result.asked,
         Conclude(result)
  PROVE  SeededInv'
<1> DEFINE o == worker.op
           ops == [operations EXCEPT ![o] = result]
<1>1. /\ o \in Ops /\ worker' = Idle /\ operations' = ops
      /\ generation' = Advance(result)
      /\ UNCHANGED <<host, crashes, writes, effect>>
  BY StateFacts DEF Conclude
<1>2. /\ generation' \in Generation /\ generation <= generation'
      /\ Restorable(result, generation')
  BY <1>1, StateFacts DEF Advance, Restorable, Entry, Generation
<1>3. o \in Retained
  BY <1>1 DEF SeededInv, WorkerConsistent, Retained, KnownIn
<1>4. ops \in [Ops -> Entry] /\ SnapshotSound(ops, generation')
  BY <1>1, <1>2, <1>3, EntryReplaced
<1>5. answers' \in [Ops -> SUBSET Definite]
  BY <1>1, StateFacts, ToldType DEF Conclude
<1>6. journal' \in {journal, persisted_state(ops, generation')}
  BY <1>1 DEF Conclude, Stored, StoreFails
<1>7. WorkerConsistent'
  BY <1>1, IdleIsConsistent
<1>8. QED
  BY <1>1, <1>2, <1>4, <1>5, <1>6, <1>7, StoringStep

\* An operation without an answer ends unknown.
LEMMA ConcludeUnknownKeeps ==
  ASSUME SeededInv, worker.at \in {"dispatch", "await"},
         Conclude(Unknown(operations[worker.op].asked))
  PROVE  SeededInv'
<1>1. worker.op \in Ops /\ operations[worker.op].asked \in Generation
  BY StateFacts
<1>2. /\ Unknown(operations[worker.op].asked) \in Entry
      /\ Unknown(operations[worker.op].asked).status = "Unknown"
  BY <1>1, ResultFacts, ZeroIsGeneration DEF Unknown, Status
<1>3. Sound(worker.op, Unknown(operations[worker.op].asked))
  BY <1>2 DEF Sound
<1>4. QED
  BY <1>2, <1>3, ConcludeKeeps

\* What the ledger accepts of the host's record is an entry, and is true.
LEMMA RecordFacts ==
  ASSUME SeededInv, NEW op \in Ops, NEW asked \in Generation,
         Answerable(host.receipts[op], asked),
         NEW result, result = Result(host.receipts[op].status, asked, host.receipts[op].observed)
  PROVE  /\ result \in Entry /\ result.status # "Absent"
         /\ result.status = host.receipts[op].status
         /\ Sound(op, result)
         /\ result.status = "Settled" => result.observed > result.asked
<1>1. /\ host.receipts[op].status \in Status /\ host.receipts[op].observed \in Generation
      /\ host.receipts[op].status # "Absent"
  BY StateFacts DEF Answerable, Receipt, Status
<1>2. /\ result \in Entry /\ result.status = host.receipts[op].status
      /\ result.asked = asked /\ result.observed = host.receipts[op].observed
  BY <1>1, ResultFacts
<1>3. Sound(op, result)
  BY <1>1, <1>2 DEF SeededInv, HostConsistent, Sound
<1>4. QED
  BY <1>1, <1>2, <1>3 DEF Answerable

LEMMA ReplyArrivesKeeps ==
  ASSUME SeededInv, ReplyArrives PROVE SeededInv'
<1> DEFINE asked == operations[worker.op].asked
           receipt == host.receipts[worker.op]
           result == Result(receipt.status, asked, receipt.observed)
<1>1. /\ worker.at = "await" /\ worker.op \in Ops /\ asked \in Generation
      /\ Answerable(receipt, asked) /\ Conclude(result)
  BY StateFacts DEF ReplyArrives
<1>2. /\ result \in Entry /\ result.status # "Absent" /\ Sound(worker.op, result)
      /\ result.status = "Settled" => result.observed > result.asked
  BY <1>1, RecordFacts
<1>3. QED
  BY <1>1, <1>2, ConcludeKeeps

\* The answer is dropped and the entry stays in flight.
LEMMA ReplyMismatchedKeeps ==
  ASSUME SeededInv, ReplyMismatched PROVE SeededInv'
<1>1. worker' = Idle /\ worker.at # "down"
      /\ UNCHANGED <<operations, generation, journal, host, crashes, writes, effect, answers>>
  BY DEF ReplyMismatched, history
<1>2. SeededTypes' /\ HostConsistent'
  BY <1>1 DEF SeededInv, SeededTypes, HostConsistent
<1>3. LedgerSound'
  BY <1>1 DEF SeededInv, LedgerSound, SnapshotSound, Sound, Restorable, KnownIn
<1>4. QED
  BY <1>1, <1>2, <1>3, IdleIsConsistent DEF SeededInv

\* A result is replaced by the host's record or kept, then stored.
LEMMA ReconcileKeeps ==
  ASSUME SeededInv, NEW op \in Ops, reconcile(op) PROVE SeededInv'
<1> DEFINE asked == operations[op].asked
           receipt == host.receipts[op]
           result == Result(receipt.status, asked, receipt.observed)
<1>1. /\ worker.at = "idle" /\ worker = Idle /\ worker' = worker /\ op \in Retained
      /\ UNCHANGED <<host, crashes, writes, effect>>
  BY DEF reconcile, SeededInv, SeededTypes, Down
<1>2. /\ operations' \in [Ops -> Entry] /\ generation' \in Generation
      /\ SnapshotSound(operations', generation')
  <2>1. CASE /\ Answerable(receipt, asked)
             /\ operations' = [operations EXCEPT ![op] = result]
             /\ generation' = Advance(result)
    <3>1. asked \in Generation
      BY StateFacts
    <3>2. /\ result \in Entry /\ Sound(op, result)
          /\ result.status = "Settled" => result.observed > result.asked
      BY <2>1, <3>1, RecordFacts
    <3>3. /\ generation' \in Generation /\ generation <= generation'
          /\ Restorable(result, generation')
      BY <2>1, <3>2, StateFacts DEF Advance, Restorable, Entry, Generation
    <3>4. QED
      BY <1>1, <2>1, <3>2, <3>3, EntryReplaced
  <2>2. CASE UNCHANGED <<operations, generation>>
    <3>1. SnapshotSound(operations, generation)
      BY <1>1 DEF SeededInv, LedgerSound
    <3>2. QED
      BY <2>2, <3>1, StateFacts
  <2>3. QED
    BY <2>1, <2>2 DEF reconcile
<1>3. answers' \in [Ops -> SUBSET Definite]
  BY StateFacts, ToldType DEF reconcile
<1>4. journal' \in {journal, persisted_state(operations', generation')}
  BY DEF reconcile, Stored, StoreFails
<1>5. WorkerConsistent'
  BY <1>1, IdleIsConsistent
<1>6. SnapshotSound(operations, generation)'
  BY <1>1, <1>2 DEF SnapshotSound, Sound, Restorable, KnownIn
<1>7. QED
  BY <1>1, <1>2, <1>3, <1>4, <1>5, <1>6, StoringStep

\* Memory is lost, the journal is as sound as before.
LEMMA CrashKeeps ==
  ASSUME SeededInv, Crash PROVE SeededInv'
<1>1. /\ worker' = Down /\ worker'.at = "down" /\ operations' = Empty /\ generation' = 0
      /\ crashes' = crashes + 1 /\ UNCHANGED <<journal, host, writes, effect, answers>>
  BY DEF Crash, history, Down
<1>2. Empty \in [Ops -> Entry]
  BY ZeroIsGeneration DEF Empty, NoEntry, Result, Entry
<1>3. SeededTypes'
  BY <1>1, <1>2, ZeroIsGeneration DEF SeededInv, SeededTypes
<1>4. LedgerSound'
  BY <1>1 DEF SeededInv, LedgerSound, SnapshotSound, Sound, Restorable, KnownIn
<1>5. WorkerConsistent' /\ HostConsistent'
  BY <1>1 DEF SeededInv, WorkerConsistent, HostConsistent
<1>6. QED
  BY <1>3, <1>4, <1>5 DEF SeededInv

\* What comes back from the journal says no more than the journal did.
LEMMA RestartKeeps ==
  ASSUME SeededInv, Restart PROVE SeededInv'
<1>1. /\ worker' = Idle /\ generation' = journal.generation
      /\ operations' = [op \in Ops |-> RestoredEntry(journal.operations[op])]
      /\ UNCHANGED <<journal, host, crashes, writes, effect, answers>>
  BY DEF Restart, history
<1>2. journal.operations \in [Ops -> Entry] /\ journal.generation \in Generation
  BY StateFacts DEF Persisted
<1>3. \A op \in Ops :
        /\ operations'[op] \in Entry
        /\ \/ operations'[op] = journal.operations[op]
           \/ /\ operations'[op].status = "Unknown"
              /\ journal.operations[op].status # "Absent"
  <2> SUFFICES ASSUME NEW op \in Ops
               PROVE  /\ operations'[op] \in Entry
                      /\ \/ operations'[op] = journal.operations[op]
                         \/ /\ operations'[op].status = "Unknown"
                            /\ journal.operations[op].status # "Absent"
    OBVIOUS
  <2>1. operations'[op] = RestoredEntry(journal.operations[op])
    BY <1>1
  <2>2. journal.operations[op] \in Entry /\ journal.operations[op].asked \in Generation
    BY <1>2 DEF Entry
  <2>3. /\ Unknown(journal.operations[op].asked) \in Entry
        /\ Unknown(journal.operations[op].asked).status = "Unknown"
    BY <2>2, ResultFacts, ZeroIsGeneration DEF Unknown, Status
  <2>4. QED
    BY <2>1, <2>2, <2>3 DEF RestoredEntry
<1>4. SnapshotSound(journal.operations, journal.generation)
  BY DEF SeededInv, LedgerSound
<1>5. KnownIn(operations') = KnownIn(journal.operations)
  BY <1>3 DEF KnownIn
<1>6. \A op \in Ops : Sound(op, operations'[op]) /\ Restorable(operations'[op], generation')
  BY <1>1, <1>3, <1>4 DEF SnapshotSound, Sound, Restorable
<1>7. SnapshotSound(operations, generation)'
  BY <1>1, <1>4, <1>5, <1>6 DEF SnapshotSound, Sound, Restorable, KnownIn
<1>8. SnapshotSound(journal.operations, journal.generation)'
  BY <1>1, <1>4 DEF SnapshotSound, Sound, Restorable, KnownIn
<1>9. operations' \in [Ops -> Entry]
  BY <1>1, <1>3
<1>10. SeededTypes'
  BY <1>1, <1>2, <1>9 DEF SeededInv, SeededTypes
<1>11. HostConsistent'
  BY <1>1 DEF SeededInv, HostConsistent
<1>12. QED
  BY <1>1, <1>7, <1>8, <1>10, <1>11, IdleIsConsistent DEF SeededInv, LedgerSound

\* A step of the host changes one receipt of a written operation and, when it
\* decides, its effect; nothing settled or refused before is touched.
LEMMA HostKeeps ==
  ASSUME SeededInv, NEW op \in Ops, HostRefuses(op) \/ HostAccepts(op) \/ HostStarts(op)
  PROVE  SeededInv' /\ effect[op] = "none" /\ writes[op] = 1
<1>1. /\ UNCHANGED <<operations, generation, journal, worker, crashes, writes, answers>>
      /\ Unsettled(op)
  BY DEF HostRefuses, HostAccepts, HostStarts, gateway, history, Unsettled
<1>2. /\ host \in [generation : Generation, receipts : [Ops -> Receipt]]
      /\ effect \in [Ops -> {"none", "done", "refused"}]
  BY DEF SeededInv, SeededTypes
<1>3. effect[op] = "none" /\ writes[op] = 1
  BY <1>1 DEF SeededInv, HostConsistent, Unsettled
<1>4. /\ host' \in [generation : Generation, receipts : [Ops -> Receipt]]
      /\ \A p \in Ops : p # op => host'.receipts[p] = host.receipts[p]
      /\ effect' \in [Ops -> {"none", "done", "refused"}]
      /\ \A p \in Ops : p # op => effect'[p] = effect[p]
      /\ host'.receipts[op].status # "Never"
      /\ effect'[op] = CASE host'.receipts[op].status = "Settled" -> "done"
                         [] host'.receipts[op].status \in {"Rejected", "Cancelled"} -> "refused"
                         [] OTHER -> "none"
  <2>1. CASE HostRefuses(op)
    <3>1. PICK status \in {"Rejected", "Cancelled"} :
            host' = [host EXCEPT !.receipts[op].status = status]
      BY <2>1 DEF HostRefuses
    <3>2. effect' = [effect EXCEPT ![op] = "refused"]
      BY <2>1 DEF HostRefuses
    <3>3. /\ host'.receipts = [host.receipts EXCEPT ![op].status = status]
          /\ host' \in [generation : Generation, receipts : [Ops -> Receipt]]
      <4>1. host' = [host EXCEPT !.receipts = [host.receipts EXCEPT ![op].status = status]]
        BY <3>1
      <4>2. host'.receipts = [host.receipts EXCEPT ![op].status = status]
        BY <1>2, <4>1
      <4>3. [host.receipts EXCEPT ![op].status = status] \in [Ops -> Receipt]
        BY <1>2 DEF Receipt
      <4>4. QED
        BY <1>2, <4>1, <4>2, <4>3
    <3>4. host'.receipts[op].status = status
      BY <1>2, <3>3 DEF Receipt
    <3>5. QED
      BY <1>2, <3>2, <3>3, <3>4
  <2>2. CASE HostAccepts(op)
    <3>1. host' = [host EXCEPT !.receipts[op].status = "Accepted"] /\ effect' = effect
      BY <2>2 DEF HostAccepts, history
    <3>2. /\ host'.receipts = [host.receipts EXCEPT ![op].status = "Accepted"]
          /\ host' \in [generation : Generation, receipts : [Ops -> Receipt]]
      <4>1. host' = [host EXCEPT !.receipts = [host.receipts EXCEPT ![op].status = "Accepted"]]
        BY <3>1
      <4>2. host'.receipts = [host.receipts EXCEPT ![op].status = "Accepted"]
        BY <1>2, <4>1
      <4>3. [host.receipts EXCEPT ![op].status = "Accepted"] \in [Ops -> Receipt]
        BY <1>2 DEF Receipt
      <4>4. QED
        BY <1>2, <4>1, <4>2, <4>3
    <3>3. host'.receipts[op].status = "Accepted"
      BY <1>2, <3>2 DEF Receipt
    <3>4. QED
      BY <1>2, <1>3, <3>1, <3>2, <3>3
  <2>3. CASE HostStarts(op)
    <3>1. /\ host.generation + 1 \in Generation
          /\ host' = [host EXCEPT !.generation = @ + 1,
                        !.receipts[op].status = "Settled",
                        !.receipts[op].observed = host.generation + 1]
          /\ effect' = [effect EXCEPT ![op] = "done"]
      BY <1>2, <2>3, SeededConfig DEF HostStarts, Generation
    <3>2. /\ host'.receipts = [host.receipts EXCEPT ![op].status = "Settled",
                                 ![op].observed = host.generation + 1]
          /\ host'.generation = host.generation + 1
          /\ DOMAIN host' = {"generation", "receipts"}
      BY <1>2, <3>1
    <3>3. /\ host'.receipts \in [Ops -> Receipt]
          /\ host'.receipts[op].status = "Settled"
          /\ \A p \in Ops : p # op => host'.receipts[p] = host.receipts[p]
      BY <1>2, <3>1, <3>2 DEF Receipt
    <3>4. host' \in [generation : Generation, receipts : [Ops -> Receipt]]
      BY <1>2, <3>1, <3>3
    <3>5. QED
      BY <1>2, <3>1, <3>3, <3>4
  <2>4. QED
    BY <2>1, <2>2, <2>3
<1>5. SeededTypes'
  BY <1>1, <1>4 DEF SeededInv, SeededTypes
<1>6. HostConsistent'
  <2> SUFFICES ASSUME NEW p \in Ops
               PROVE  /\ writes'[p] \in {0, 1}
                      /\ host'.receipts[p].status # "Never" => writes'[p] = 1
                      /\ effect'[p] = CASE host'.receipts[p].status = "Settled" -> "done"
                           [] host'.receipts[p].status \in {"Rejected", "Cancelled"} -> "refused"
                           [] OTHER -> "none"
    BY DEF HostConsistent
  <2>1. CASE p # op
    BY <1>1, <1>4, <2>1 DEF SeededInv, HostConsistent
  <2>2. CASE p = op
    BY <1>1, <1>3, <1>4, <2>2
  <2>3. QED
    BY <2>1, <2>2
<1>7. LedgerSound'
  <2>1. \A p \in Ops : \A e : Sound(p, e) => Sound(p, e)'
    BY <1>1, <1>3, <1>4 DEF Sound
  <2>2. \A ops, g : SnapshotSound(ops, g) =>
          /\ \A p \in Ops : Sound(p, ops[p])' /\ Restorable(ops[p], g)
          /\ Cardinality(KnownIn(ops)) <= operation_capacity
    BY <2>1 DEF SnapshotSound
  <2>3. worker.at # "down" => SnapshotSound(operations, generation)'
    BY <1>1, <2>2 DEF SeededInv, LedgerSound, SnapshotSound, Restorable, KnownIn
  <2>4. SnapshotSound(journal.operations, journal.generation)'
    BY <1>1, <2>2 DEF SeededInv, LedgerSound, SnapshotSound, Restorable, KnownIn
  <2>5. QED
    BY <1>1, <2>3, <2>4 DEF LedgerSound
<1>8. WorkerConsistent'
  BY <1>1 DEF SeededInv, WorkerConsistent
<1>9. QED
  BY <1>3, <1>5, <1>6, <1>7, <1>8 DEF SeededInv

LEMMA StutterKeeps ==
  ASSUME SeededInv, UNCHANGED seeded_vars PROVE SeededInv'
  BY DEF SeededInv, SeededTypes, LedgerSound, SnapshotSound, Sound, Restorable, KnownIn,
         WorkerConsistent, HostConsistent, seeded_vars

LEMMA SeededSteps == SeededInv /\ [SeededNext]_seeded_vars => SeededInv'
<1> SUFFICES ASSUME SeededInv, [SeededNext]_seeded_vars PROVE SeededInv'
  OBVIOUS
<1>1. ASSUME NEW op \in Ops, NEW asked \in Generation, Replay(op, asked) PROVE SeededInv'
  BY <1>1, ReplayKeeps
<1>2. ASSUME NEW op \in Ops, NEW asked \in Generation, RefuseReuse(op, asked)
      PROVE  SeededInv'
  BY <1>2, StutterKeeps DEF RefuseReuse
<1>3. ASSUME NEW op \in Ops, NEW asked \in Generation, SubmitStale(op, asked)
      PROVE  SeededInv'
  BY <1>3, SubmitStaleKeeps
<1>4. ASSUME NEW op \in Ops, NEW asked \in Generation, SubmitAdmitted(op, asked)
      PROVE  SeededInv'
  BY <1>4, SubmitAdmittedKeeps
<1>5. CASE Dispatch
  BY <1>5, DispatchKeeps
<1>6. CASE DispatchFails
  BY <1>6, ConcludeUnknownKeeps DEF DispatchFails
<1>7. CASE ReplyArrives
  BY <1>7, ReplyArrivesKeeps
<1>8. CASE ReplyLost
  BY <1>8, ConcludeUnknownKeeps DEF ReplyLost
<1>9. CASE ReplyMismatched
  BY <1>9, ReplyMismatchedKeeps
<1>10. ASSUME NEW op \in Ops, reconcile(op) PROVE SeededInv'
  BY <1>10, ReconcileKeeps
<1>11. CASE Crash
  BY <1>11, CrashKeeps
<1>12. CASE Restart
  BY <1>12, RestartKeeps
<1>13. ASSUME NEW op \in Ops, HostRefuses(op) \/ HostAccepts(op) \/ HostStarts(op)
       PROVE  SeededInv'
  BY <1>13, HostKeeps
<1>14. CASE UNCHANGED seeded_vars
  BY <1>14, StutterKeeps
<1>15. QED
  BY <1>1, <1>2, <1>3, <1>4, <1>5, <1>6, <1>7, <1>8, <1>9, <1>10, <1>11, <1>12, <1>13,
     <1>14 DEF SeededNext

\* Memory, journal, worker and host stay in agreement, whatever fails.
THEOREM SeededInvariant == SeededSpec => []SeededInv
BY SeededStarts, SeededSteps, PTL DEF SeededSpec

\* A crash at any point leaves a journal that the next start accepts, whichever
\* of the two snapshots a failed store left.
THEOREM SidecarRestorableTheorem == SeededSpec => []SidecarRestorable
<1>1. SeededInv => SidecarRestorable
  BY DEF SeededInv, LedgerSound, SnapshotSound, Restorable, SidecarRestorable,
         RestoreAccepts, KnownIn
<1>2. QED
  BY <1>1, SeededInvariant, PTL

-----------------------------------------------------------------------------
(* What callers are told.                                                   *)

RejectionTrue ==
  \A op \in Ops :
    "Rejected" \in answers'[op] \ answers[op] => writes[op] = 0 \/ effect[op] = "refused"

\* Telling what a sound entry says is truthful and a step of the promise.
LEMMA TellStep ==
  ASSUME SeededInv, NEW op \in Ops, NEW entry, Sound(op, entry),
         Told(op, entry.status), UNCHANGED <<writes, effect>>
  PROVE  RejectionTrue /\ [Once!Next]_(Once!vars)
<1>1. /\ answers \in [Ops -> SUBSET Definite]
      /\ answers' = [answers EXCEPT ![op] = @ \cup ({entry.status} \cap Definite)]
  BY StateFacts DEF Told
<1>2. /\ answers'[op] = answers[op] \cup ({entry.status} \cap Definite)
      /\ \A o \in Ops : o # op => answers'[o] = answers[o]
  BY <1>1
<1>3. RejectionTrue
  BY <1>2 DEF RejectionTrue, Sound
<1> DEFINE settled == [o \in Ops |-> answers[o] \cap {"Settled"}]
           after == [o \in Ops |-> answers'[o] \cap {"Settled"}]
<1>4. CASE entry.status = "Settled"
  <2>1. after = [settled EXCEPT ![op] = @ \cup {"Settled"}]
    <3>1. \A o \in Ops : after[o] = [settled EXCEPT ![op] = @ \cup {"Settled"}][o]
      BY <1>2, <1>4 DEF Definite
    <3>2. QED
      BY <3>1
  <2>2. Once!Answer(op, "Settled")
    BY <1>4, <2>1 DEF Once!Answer, Once!Truthful, Sound
  <2>3. QED
    BY <1>3, <2>2 DEF Once!Next
<1>5. CASE entry.status # "Settled"
  <2>1. \A o \in Ops : after[o] = settled[o]
    BY <1>2, <1>5
  <2>2. after = settled
    BY <2>1
  <2>3. QED
    BY <1>3, <2>2 DEF Once!vars
<1>6. QED
  BY <1>4, <1>5

\* A step that tells nobody anything, writes nothing and decides nothing.
LEMMA QuietStep ==
  ASSUME UNCHANGED <<writes, effect, answers>>
  PROVE  RejectionTrue /\ [Once!Next]_(Once!vars)
  BY DEF RejectionTrue, Once!vars

\* The end of a dispatch, told or kept back.
LEMMA ConcludeStep ==
  ASSUME SeededInv, worker.at \in {"dispatch", "await"}, NEW result,
         Sound(worker.op, result), Conclude(result)
  PROVE  RejectionTrue /\ [Once!Next]_(Once!vars)
<1>1. worker.op \in Ops /\ UNCHANGED <<writes, effect>>
  BY StateFacts DEF Conclude
<1>2. Told(worker.op, result.status) \/ UNCHANGED answers
  BY DEF Conclude
<1>3. QED
  BY <1>1, <1>2, TellStep, QuietStep

LEMMA ConcludeUnknownStep ==
  ASSUME SeededInv, worker.at \in {"dispatch", "await"},
         Conclude(Unknown(operations[worker.op].asked))
  PROVE  RejectionTrue /\ [Once!Next]_(Once!vars)
<1>1. Sound(worker.op, Unknown(operations[worker.op].asked))
  BY DEF Sound, Unknown, Result
<1>2. QED
  BY <1>1, ConcludeStep

LEMMA ReplayStep ==
  ASSUME SeededInv, NEW op \in Ops, NEW asked \in Generation, Replay(op, asked)
  PROVE  RejectionTrue /\ [Once!Next]_(Once!vars)
<1>1. Sound(op, operations[op])
  BY DEF Replay, SeededInv, LedgerSound, SnapshotSound
<1>2. QED
  BY <1>1, TellStep DEF Replay

LEMMA SubmitStaleStep ==
  ASSUME SeededInv, NEW op \in Ops, NEW asked \in Generation, SubmitStale(op, asked)
  PROVE  RejectionTrue /\ [Once!Next]_(Once!vars)
<1>1. writes[op] = 0
  BY DEF SubmitStale, Admissible, Retained, KnownIn, SeededInv, LedgerSound,
         SnapshotSound, Sound
<1>2. Sound(op, Rejected(asked)) /\ Rejected(asked).status = "Rejected"
  BY <1>1 DEF Sound, Rejected, Result
<1>3. Told(op, "Rejected") \/ UNCHANGED answers
  BY DEF SubmitStale
<1>4. UNCHANGED <<writes, effect>>
  BY DEF SubmitStale
<1>5. QED
  BY <1>2, <1>3, <1>4, TellStep, QuietStep

\* After a reconciliation the caller gets what is then retained.
LEMMA ReconcileStep ==
  ASSUME SeededInv, SeededInv', NEW op \in Ops, reconcile(op)
  PROVE  RejectionTrue /\ [Once!Next]_(Once!vars)
<1>1. UNCHANGED <<worker, writes, effect>> /\ worker.at = "idle"
  BY DEF reconcile
<1>2. Sound(op, operations'[op])
  BY <1>1 DEF SeededInv, LedgerSound, SnapshotSound, Sound
<1>3. Told(op, operations'[op].status) \/ UNCHANGED answers
  BY DEF reconcile
<1>4. QED
  BY <1>1, <1>2, <1>3, TellStep, QuietStep

\* The write of a request.
LEMMA DispatchStep ==
  ASSUME SeededInv, Dispatch PROVE RejectionTrue /\ [Once!Next]_(Once!vars)
<1>1. worker.op \in Ops /\ writes[worker.op] = 0
  BY StateFacts DEF Dispatch, SeededInv, WorkerConsistent
<1>2. /\ writes \in [Ops -> Nat] /\ writes' = [writes EXCEPT ![worker.op] = @ + 1]
      /\ UNCHANGED <<effect, answers>>
  BY DEF Dispatch, SeededInv, SeededTypes
<1>3. writes' = [writes EXCEPT ![worker.op] = 1]
  BY <1>1, <1>2
<1>4. Once!Write(worker.op)
  BY <1>1, <1>2, <1>3 DEF Once!Write
<1>5. QED
  BY <1>1, <1>2, <1>4 DEF Once!Next, RejectionTrue

\* A decision of the host.
LEMMA HostStep ==
  ASSUME SeededInv, NEW op \in Ops, HostRefuses(op) \/ HostAccepts(op) \/ HostStarts(op)
  PROVE  RejectionTrue /\ [Once!Next]_(Once!vars)
<1>1. effect[op] = "none" /\ writes[op] = 1 /\ UNCHANGED <<writes, answers>>
  BY HostKeeps DEF HostRefuses, HostAccepts, HostStarts, history
<1>2. \/ UNCHANGED effect
      \/ \E e \in {"done", "refused"} : effect' = [effect EXCEPT ![op] = e]
  BY DEF HostRefuses, HostAccepts, HostStarts, history
<1>3. CASE UNCHANGED effect
  BY <1>1, <1>3, QuietStep
<1>4. ASSUME NEW e \in {"done", "refused"}, effect' = [effect EXCEPT ![op] = e]
      PROVE  RejectionTrue /\ [Once!Next]_(Once!vars)
  <2>1. Once!Decide(op, e)
    BY <1>1, <1>4 DEF Once!Decide
  <2>2. e \in Once!Effect \ {"none"}
    BY DEF Once!Effect
  <2>3. QED
    BY <1>1, <2>1, <2>2 DEF Once!Next, RejectionTrue
<1>5. QED
  BY <1>2, <1>3, <1>4

LEMMA PromiseStep ==
  SeededInv /\ SeededInv' /\ [SeededNext]_seeded_vars => RejectionTrue /\ [Once!Next]_(Once!vars)
<1> SUFFICES ASSUME SeededInv, SeededInv', [SeededNext]_seeded_vars
             PROVE  RejectionTrue /\ [Once!Next]_(Once!vars)
  OBVIOUS
<1> DEFINE Promised == RejectionTrue /\ [Once!Next]_(Once!vars)
<1>1. ASSUME NEW op \in Ops, NEW asked \in Generation, Replay(op, asked) PROVE Promised
  BY <1>1, ReplayStep
<1>2. ASSUME NEW op \in Ops, NEW asked \in Generation, RefuseReuse(op, asked) PROVE Promised
  BY <1>2, QuietStep DEF RefuseReuse, seeded_vars
<1>3. ASSUME NEW op \in Ops, NEW asked \in Generation, SubmitStale(op, asked) PROVE Promised
  BY <1>3, SubmitStaleStep
<1>4. ASSUME NEW op \in Ops, NEW asked \in Generation, SubmitAdmitted(op, asked)
      PROVE  Promised
  BY <1>4, QuietStep DEF SubmitAdmitted, history
<1>5. CASE Dispatch
  BY <1>5, DispatchStep
<1>6. CASE DispatchFails
  BY <1>6, ConcludeUnknownStep DEF DispatchFails
<1>7. CASE ReplyArrives
  <2> DEFINE asked == operations[worker.op].asked
             receipt == host.receipts[worker.op]
  <2>1. /\ worker.at = "await" /\ worker.op \in Ops /\ asked \in Generation
        /\ Answerable(receipt, asked)
        /\ Conclude(Result(receipt.status, asked, receipt.observed))
    BY <1>7, StateFacts DEF ReplyArrives
  <2>2. Sound(worker.op, Result(receipt.status, asked, receipt.observed))
    BY <2>1, RecordFacts
  <2>3. QED
    BY <2>1, <2>2, ConcludeStep
<1>8. CASE ReplyLost
  BY <1>8, ConcludeUnknownStep DEF ReplyLost
<1>9. CASE ReplyMismatched
  BY <1>9, QuietStep DEF ReplyMismatched, history
<1>10. ASSUME NEW op \in Ops, reconcile(op) PROVE Promised
  BY <1>10, ReconcileStep
<1>11. CASE Crash
  BY <1>11, QuietStep DEF Crash, history
<1>12. CASE Restart
  BY <1>12, QuietStep DEF Restart, history
<1>13. ASSUME NEW op \in Ops, HostRefuses(op) \/ HostAccepts(op) \/ HostStarts(op)
       PROVE  Promised
  BY <1>13, HostStep
<1>14. CASE UNCHANGED seeded_vars
  BY <1>14, QuietStep DEF seeded_vars
<1>15. QED
  BY <1>1, <1>2, <1>3, <1>4, <1>5, <1>6, <1>7, <1>8, <1>9, <1>10, <1>11, <1>12, <1>13,
     <1>14 DEF SeededNext

\* Whatever path a rejection is told along (submission, replay from memory,
\* reconciliation), the host was not sent the start, or refused it.
THEOREM RejectionTruthfulTheorem == SeededSpec => RejectionTruthful
<1>1. SeededInv /\ SeededInv' /\ [SeededNext]_seeded_vars =>
        [\A op \in Ops : "Rejected" \in answers'[op] \ answers[op] =>
           writes[op] = 0 \/ effect[op] = "refused"]_seeded_vars
  BY PromiseStep DEF RejectionTrue
<1>2. QED
  BY <1>1, SeededInvariant, PTL DEF SeededSpec, RejectionTruthful

\* The ledger with its sidecar writes a start at most once and says Settled
\* only of a run that was started, across crashes and failed stores.
THEOREM SeededRunRefinement == SeededSpec => ImplementsAtMostOnce
<1>1. SeededInit => Once!Init
  <2> SUFFICES ASSUME SeededInit PROVE Once!Init
    OBVIOUS
  <2>1. [op \in Ops |-> answers[op] \cap {"Settled"}] = [op \in Ops |-> {}]
    BY DEF SeededInit
  <2>2. QED
    BY <2>1 DEF SeededInit, Once!Init
<1>2. SeededInv /\ SeededInv' /\ [SeededNext]_seeded_vars => [Once!Next]_(Once!vars)
  BY PromiseStep
<1>3. QED
  BY <1>1, <1>2, SeededInvariant, PTL DEF SeededSpec, ImplementsAtMostOnce, Once!Spec
=============================================================================
