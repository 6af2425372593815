---------------------------- MODULE HostLease ----------------------------
(* The lease a gateway with a recovery store issues, and the host's consent *)
(* to it.  Three places hold a view of the same lease and none can be       *)
(* written together with another: the rows of the recovery store, the       *)
(* memory of the running service, and the host.                             *)
(*                                                                          *)
(* The service handles one request at a time, so a handler is atomic up to  *)
(* the frame it writes to the host and from the answer, or the failure, on. *)
(* In between the clocks move, the host may or may not act, and the process *)
(* may die.  A frame the service gave up on can still reach the host.       *)
(*                                                                          *)
(* A boot is its authority generation, a lease its epoch, and a grant the   *)
(* epoch with the expiry it promises: everything else in a grant is fixed   *)
(* by the epoch, so the grant digest is represented by that expiry.         *)

EXTENDS Integers, Sequences, FiniteSets

CONSTANTS
  Ttl,             \* the lease lifetime, in ticks
  Generations,     \* host install generations the host can answer with
  MaxBoot, MaxEpoch, MaxSeq, MaxMono, MaxSkew    \* bounds

ASSUME HostLeaseConfig ==
  /\ Ttl \in Nat \ {0}
  /\ Generations \subseteq Nat \ {0}
  /\ {MaxBoot, MaxEpoch, MaxSeq, MaxMono, MaxSkew} \subseteq Nat

VARIABLES
  authority,   \* the authority row: generation, and whether it is fenced
  leases,      \* the lease rows; the index of a row is its lease_epoch
  svc,         \* the memory of the running RuntimeService
  call,        \* the handler that waits for the host, and the answer
  wire,        \* the frames written to the host
  host,        \* external: what the host holds
  mono,        \* the monotonic clock (Instant)
  skew,        \* how far recovery_now_millis is ahead of it
  stopped,     \* history: an intentional stop took effect in this boot
  returned     \* history: the newest epoch whose lease a caller was given

vars == <<authority, leases, svc, call, wire, host, mono, skew, stopped, returned>>

HostStates == {"UNINSTALLED", "PENDING_HOST_INSTALL", "INSTALLED",
               "PENDING_HOST_RENEW", "PENDING_HOST_REVOKE", "HOST_REVOKED",
               "RESTART_INVALIDATED"}
Outstanding == {"PENDING_HOST_INSTALL", "INSTALLED", "PENDING_HOST_RENEW",
                "PENDING_HOST_REVOKE"}

\* Why a handler waits for the host: it decides what follows the answer.
Stops == {"revoke", "release", "shutdown"}
Purposes == Stops \cup {"fence", "allocate", "acquire", "renew", "cleanup",
                        "retry", "profiled"}

None == [epoch |-> 0, expires |-> 0]
NoReply == [gen |-> 0, fresh |-> FALSE]
Idle == [op |-> "idle", purpose |-> "fence", epoch |-> 0, expires |-> 0, seq |-> 0,
         deadline |-> 0, reply |-> NoReply]

now == mono + skew

\* The memory of a process that has just opened the store and started a boot.
Started(generation) ==
  [boot |-> generation, fence |-> FALSE, lease |-> None, grant |-> None,
   active |-> FALSE, revoked |-> FALSE, shutdown |-> FALSE,
   deadline |-> 0, deadlineLease |-> 0, cleanup |-> 0,
   profile |-> [boot |-> 0, released |-> 0]]

Init ==
  /\ authority = [generation |-> 1, state |-> "FENCE_REQUIRED"]
  /\ leases = <<>>
  /\ svc = Started(1)
  /\ call = Idle
  /\ wire = {}
  /\ host = [boot |-> 0, epoch |-> 0, expires |-> 0, seq |-> 0, held |-> FALSE]
  /\ mono = 0 /\ skew = 0
  /\ stopped = FALSE /\ returned = 0

-----------------------------------------------------------------------------
(* The lease rows of the recovery store.                                    *)

NewRow(generation) ==
  [boot |-> generation, expires |-> now + Ttl, seq |-> 0, status |-> "ACTIVE",
   host |-> "UNINSTALLED", digest |-> 0, gen |-> 0, pending |-> [seq |-> 0, expires |-> 0]]

\* (Mutant of Invalidated: an installed row survives a new boot.)
InvalidatedButInstalled(rows) ==
  [e \in DOMAIN rows |->
     [rows[e] EXCEPT
        !.status = IF @ = "ACTIVE" /\ rows[e].host # "INSTALLED" THEN "REVOKED" ELSE @,
        !.host = IF @ \in Outstanding \ {"INSTALLED"} THEN "RESTART_INVALIDATED" ELSE @]]

\* start_boot: no lease of an earlier boot stays active, nothing outstanding
\* with the host is ever resumed.
Invalidated(rows) ==
  [e \in DOMAIN rows |->
     [rows[e] EXCEPT
        !.status = IF @ = "ACTIVE" THEN "REVOKED" ELSE @,
        !.host = IF @ \in Outstanding THEN "RESTART_INVALIDATED" ELSE @]]

expire_leases(rows) ==
  [e \in DOMAIN rows |->
     IF rows[e].status = "ACTIVE" /\ rows[e].expires <= now
     THEN [rows[e] EXCEPT !.status = "EXPIRED"] ELSE rows[e]]

active_lease(rows) == {e \in DOMAIN rows : rows[e].status = "ACTIVE"}

\* The lease is active, unexpired, and of the boot that is ready now.
ensure_context(rows, e) ==
  /\ rows[e].status = "ACTIVE"
  /\ rows[e].expires > now
  /\ authority.state = "READY"
  /\ authority.generation = rows[e].boot

prepare_host_lease_install(rows, e, digest) ==
  [rows EXCEPT ![e] = [@ EXCEPT !.host = "PENDING_HOST_INSTALL", !.digest = digest]]

CanInstall(rows, e) ==
  /\ now < rows[e].expires
  /\ rows[e].status = "ACTIVE"
  /\ authority.state = "READY" /\ authority.generation = rows[e].boot

\* A renewal that is already pending is only prepared again with its sequence.
CanRenew(rows, e, seq) ==
  /\ ensure_context(rows, e)
  /\ \/ rows[e].host = "INSTALLED" /\ seq > rows[e].seq
        /\ now + Ttl > rows[e].expires
     \/ rows[e].host = "PENDING_HOST_RENEW" /\ seq = rows[e].pending.seq

\* The candidate is recorded, the expiry in force is left alone; the digest
\* becomes the one of the candidate's grant (set_host_lease_grant_digest).
prepare_host_lease_renew(rows, e, seq) ==
  LET candidate == IF rows[e].host = "PENDING_HOST_RENEW"
                   THEN rows[e].pending.expires ELSE now + Ttl
  IN [rows EXCEPT ![e] = [@ EXCEPT !.host = "PENDING_HOST_RENEW", !.digest = candidate,
                                   !.pending = [seq |-> seq, expires |-> candidate]]]

CanBeginRevoke(rows, e) ==
  \/ rows[e].host = "PENDING_HOST_REVOKE"
  \/ rows[e].host = "INSTALLED" /\ rows[e].status = "ACTIVE"

begin_host_lease_revoke(rows, e) ==
  [rows EXCEPT ![e] = [@ EXCEPT !.host = "PENDING_HOST_REVOKE", !.status = "REVOKED"]]

complete_host_lease_install(rows, e, gen) ==
  [rows EXCEPT ![e] = [@ EXCEPT !.host = "INSTALLED", !.gen = gen]]

complete_host_lease_renew(rows, e, seq, expires) ==
  [rows EXCEPT ![e] = [@ EXCEPT !.host = "INSTALLED", !.expires = expires, !.seq = seq,
                                !.pending = [seq |-> 0, expires |-> 0]]]

\* The generation of the acknowledgment is taken as it comes.
complete_host_lease_revoke(rows, e, gen) ==
  [rows EXCEPT ![e] = [@ EXCEPT !.host = "HOST_REVOKED", !.gen = gen]]

-----------------------------------------------------------------------------
(* The memory of the service.  s and rows are the memory and the lease rows *)
(* a handler works on; each handler commits the ones it ends with.          *)

DeadlinePassed(s) == s.deadline # 0 /\ mono >= s.deadline

\* check_recovery_deadline, the first thing most handlers do.
DeadlineChecked(s) ==
  IF DeadlinePassed(s)
  THEN [s EXCEPT !.lease = None, !.grant = None, !.deadline = 0, !.active = FALSE]
  ELSE s
DeadlineExpired(s, rows) == IF DeadlinePassed(s) THEN expire_leases(rows) ELSE rows

lease_deadline(expires) == mono + IF expires - now < Ttl THEN expires - now ELSE Ttl

active_host_grant_matches(s, rows) ==
  LET row == rows[s.lease.epoch]
  IN /\ s.fence
     /\ row.host = "INSTALLED" /\ row.gen # 0
     /\ row.digest = s.lease.expires
     /\ s.grant = s.lease

\* check_lease, once the deadline has been checked.
Admitted(s, rows) ==
  /\ s.active /\ ~s.revoked /\ ~s.shutdown
  /\ s.lease # None
  /\ ensure_context(rows, s.lease.epoch)
  /\ active_host_grant_matches(s, rows)

\* A mutation that arrived now would be let through.
Admits == Admitted(DeadlineChecked(svc), DeadlineExpired(svc, leases))

pending_host_revoke_matches(s, rows) ==
  s.lease # None /\ rows[s.lease.epoch].host = "PENDING_HOST_REVOKE"

stop_is_already_in_force(s) == s.revoked \/ s.shutdown \/ ~s.active

episode_admission_refused(s, epoch) ==
  s.profile.boot = s.boot /\ epoch <= s.profile.released

-----------------------------------------------------------------------------
(* The pieces handlers are made of.  Ends commits without waiting for the   *)
(* host, Sends with a frame written and the answer awaited.                 *)

FrameOf(boot, c) ==
  [op |-> c.op, boot |-> boot, epoch |-> c.epoch, expires |-> c.expires, seq |-> c.seq]

Ends(s, rows) == svc' = s /\ leases' = rows /\ call' = Idle /\ wire' = wire

Sends(s, rows, c) ==
  /\ svc' = s /\ leases' = rows /\ call' = c
  /\ wire' = wire \cup {FrameOf(s.boot, c)}

\* The store either refuses, or fails, and nothing has changed; or local
\* authority is gone durably before the frame is written.
revoke_host_lease(s, rows, why) ==
  LET e == s.lease.epoch
  IN \/ Ends(s, rows) /\ stopped' = stopped
     \/ /\ CanBeginRevoke(rows, e)
        /\ Sends([s EXCEPT !.active = FALSE, !.revoked = TRUE, !.deadline = 0],
                 begin_host_lease_revoke(rows, e),
                 [Idle EXCEPT !.op = "revoke", !.purpose = why, !.epoch = e,
                              !.expires = rows[e].expires])
        /\ stopped' = (stopped \/ why \in Stops)

\* (Mutant of Closed: the gate is left to the revoke that follows.)
ClosedByRevoke(s) ==
  [s EXCEPT !.cleanup = IF s.revoked \/ s.shutdown THEN @ ELSE s.lease.epoch]

\* Every local admission path is closed before the first fallible write; the
\* marker tells this from a stop.
Closed(s) ==
  [s EXCEPT !.cleanup = IF s.revoked \/ s.shutdown THEN @ ELSE s.lease.epoch,
            !.active = FALSE, !.revoked = TRUE, !.deadline = 0]

cleanup_unreturned_allocation(s, rows) ==
  IF s.lease = None THEN Ends(Closed(s), rows) /\ stopped' = stopped
  ELSE revoke_host_lease(Closed(s), rows, "cleanup")

\* Sent, or given up: a grant that has expired is retired, any other failure
\* leaves the attempt as it is for a retry with the same grant.
install_host_lease(s, rows, lease, why) ==
  LET e == lease.epoch
      same == s.deadlineLease = e
      retryable == rows[e].host = "UNINSTALLED" \/ s.grant = lease
      prepared == prepare_host_lease_install(rows, e, lease.expires)
  IN IF ~retryable THEN Ends(s, rows) /\ stopped' = stopped
     ELSE IF ~CanInstall(rows, e) THEN cleanup_unreturned_allocation(s, rows)
     ELSE IF same /\ (s.deadline = 0 \/ DeadlinePassed(s))
          THEN cleanup_unreturned_allocation(s, prepared)
     ELSE /\ Sends([s EXCEPT !.deadline = IF same THEN @ ELSE lease_deadline(lease.expires),
                             !.deadlineLease = e, !.grant = lease],
                   prepared,
                   [Idle EXCEPT !.op = "install", !.purpose = why, !.epoch = e,
                                !.expires = lease.expires])
          /\ stopped' = stopped

\* A pending installation is retried; otherwise a lease is acquired, unless
\* one is active.  (At most MaxEpoch leases are ever acquired.)
AcquireAndInstall(s, rows, why) ==
  LET pending == /\ s.lease # None /\ ~s.active
                 /\ rows[s.lease.epoch].host = "PENDING_HOST_INSTALL"
      expired == expire_leases(rows)
      acquired == Append(expired, NewRow(s.boot))
      lease == [epoch |-> Len(acquired), expires |-> now + Ttl]
      fresh == [s EXCEPT !.lease = lease, !.active = FALSE]
  IN IF pending THEN install_host_lease(s, rows, s.lease, why)
     ELSE IF active_lease(expired) # {} \/ Len(expired) = MaxEpoch
     THEN Ends(s, expired) /\ stopped' = stopped
     ELSE IF why = "allocate" /\ episode_admission_refused(s, lease.epoch)
     THEN /\ Ends([s EXCEPT !.active = FALSE, !.lease = None, !.deadline = 0,
                            !.deadlineLease = 0, !.grant = None, !.revoked = TRUE],
                  [acquired EXCEPT ![lease.epoch].status = "REVOKED"])
          /\ stopped' = stopped
     ELSE install_host_lease(fresh, acquired, lease, why)

\* What is left of allocate once a retained cleanup has been dealt with.
AllocateFrom(s, rows) ==
  IF s.revoked \/ ~s.fence THEN Ends(s, rows) /\ stopped' = stopped
  ELSE AcquireAndInstall(s, rows, "allocate")

-----------------------------------------------------------------------------
(* The handlers, up to the frame they write.                                *)

\* The worker takes a request only between two others, and none after shutdown.
Free == call = Idle /\ ~svc.shutdown

\* A new boot, by the bootstrap route or by a process that starts again.
NewBoot ==
  /\ authority.generation < MaxBoot
  /\ authority' = [generation |-> authority.generation + 1, state |-> "FENCE_REQUIRED"]
  /\ leases' = Invalidated(leases)
  /\ call' = Idle /\ stopped' = FALSE
  /\ UNCHANGED <<wire, host, mono, skew, returned>>

Bootstrap ==
  /\ Free
  /\ NewBoot
  /\ svc' = [svc EXCEPT !.boot = authority.generation + 1, !.fence = FALSE, !.lease = None,
                        !.cleanup = 0, !.deadline = 0, !.grant = None,
                        !.active = FALSE, !.revoked = FALSE]

\* The process may die between any two steps, and in particular while a
\* handler waits for the host.
Restart == NewBoot /\ svc' = Started(authority.generation + 1)

HostFence ==
  /\ Free
  /\ Sends(svc, leases, [Idle EXCEPT !.op = "fence"])
  /\ UNCHANGED <<authority, host, mono, skew, stopped, returned>>

retry_unreturned_allocation == svc.revoked /\ svc.lease # None /\ svc.cleanup = svc.lease.epoch

Allocate ==
  /\ Free
  /\ IF retry_unreturned_allocation THEN revoke_host_lease(svc, leases, "retry")
     ELSE AllocateFrom(svc, leases)
  /\ UNCHANGED <<authority, host, mono, skew, returned>>

Acquire ==
  /\ Free /\ ~svc.revoked /\ svc.fence
  /\ AcquireAndInstall(svc, leases, "acquire")
  /\ UNCHANGED <<authority, host, mono, skew, returned>>

Renew(seq) ==
  LET s == DeadlineChecked(svc)
      rows == DeadlineExpired(svc, leases)
      e == s.lease.epoch
      renewed == prepare_host_lease_renew(rows, e, seq)
  IN /\ Free /\ ~svc.revoked /\ svc.active
     /\ IF s.lease # None /\ CanRenew(rows, e, seq)
        THEN Sends(s, renewed,
                   [Idle EXCEPT !.op = "renew", !.purpose = "renew", !.epoch = e, !.seq = seq,
                                !.expires = renewed[e].pending.expires,
                                !.deadline = lease_deadline(renewed[e].pending.expires)])
        ELSE Ends(s, rows)
     /\ UNCHANGED <<authority, host, mono, skew, stopped, returned>>

\* (Mutant of Intentional: a stop does not claim a retained cleanup.)
StillCleanup(s) == s

\* An external stop is intentional: the cleanup marker no longer applies.
Intentional(s) == [s EXCEPT !.cleanup = 0]

Revoke ==
  LET s == DeadlineChecked(svc)
      rows == DeadlineExpired(svc, leases)
  IN /\ Free
     /\ IF s.lease # None THEN revoke_host_lease(Intentional(s), rows, "revoke")
        ELSE Ends(s, rows) /\ stopped' = stopped
     /\ UNCHANGED <<authority, host, mono, skew, returned>>

\* The caller's lease is in force, or its revocation is pending.
MayStop(s, rows) == pending_host_revoke_matches(s, rows) \/ Admitted(s, rows)

Release(profiled) ==
  LET s == DeadlineChecked(svc)
      rows == DeadlineExpired(svc, leases)
      why == IF profiled /\ ~stop_is_already_in_force(s) THEN "profiled" ELSE "release"
  IN /\ Free
     /\ IF MayStop(s, rows) THEN revoke_host_lease(Intentional(s), rows, why)
        ELSE Ends(s, rows) /\ stopped' = stopped
     /\ UNCHANGED <<authority, host, mono, skew, returned>>

\* The flag is set before the revoke that may fail.
Shutdown ==
  LET s == DeadlineChecked(svc)
      rows == DeadlineExpired(svc, leases)
  IN /\ Free
     /\ IF MayStop(s, rows)
        THEN revoke_host_lease([Intentional(s) EXCEPT !.shutdown = TRUE], rows, "shutdown")
        ELSE Ends(s, rows) /\ stopped' = stopped
     /\ UNCHANGED <<authority, host, mono, skew, returned>>

\* Any other request: it finds the deadline passed.
CheckLease ==
  /\ Free /\ DeadlinePassed(svc)
  /\ Ends(DeadlineChecked(svc), DeadlineExpired(svc, leases))
  /\ UNCHANGED <<authority, host, mono, skew, stopped, returned>>

-----------------------------------------------------------------------------
(* The handlers, from the answer or the failure on.                         *)

Answered == call.reply # NoReply

\* No answer, one that does not verify, or a store that cannot record it; a
\* host that answers an installation with 410 says that the grant is expired.
CallFails(gone) ==
  /\ call.op \in {"fence", "install", "renew", "revoke"}
  /\ IF call.op = "install" /\ gone THEN cleanup_unreturned_allocation(svc, leases)
     ELSE ~gone /\ Ends(svc, leases) /\ stopped' = stopped
  /\ UNCHANGED <<authority, host, mono, skew, returned>>

\* Only the boot that is still unfenced is made ready.
HostFenceEnds ==
  /\ call.op = "fence" /\ Answered
  /\ IF authority.state = "FENCE_REQUIRED"
     THEN /\ authority' = [authority EXCEPT !.state = "READY"]
          /\ Ends([svc EXCEPT !.fence = TRUE], leases)
     ELSE authority' = authority /\ Ends(svc, leases)
  /\ UNCHANGED <<host, mono, skew, stopped, returned>>

\* A late or stale acknowledgment retires the grant; a good one is recorded
\* before the lease is activated.
InstallEnds ==
  LET late == now >= call.expires \/ DeadlinePassed(svc)
  IN /\ call.op = "install" /\ Answered
     /\ IF late \/ ~call.reply.fresh
        THEN cleanup_unreturned_allocation(svc, leases)
        ELSE /\ leases' = complete_host_lease_install(leases, call.epoch, call.reply.gen)
             /\ call' = [call EXCEPT !.op = "activate"]
             /\ UNCHANGED <<svc, wire, stopped>>
     /\ UNCHANGED <<authority, host, mono, skew, returned>>

activate_recovery_lease(s, lease) ==
  IF now >= lease.expires \/ mono >= s.deadline
  THEN [s EXCEPT !.deadline = 0, !.active = FALSE]
  ELSE [s EXCEPT !.lease = lease, !.active = TRUE, !.revoked = FALSE]

\* The installed lease is activated and handed out.  An allocation is
\* validated once more, against a store that may fail (unreadable).
ActivateAndRespond(unreadable) ==
  LET s == activate_recovery_lease(svc, [epoch |-> call.epoch, expires |-> call.expires])
  IN /\ call.op = "activate"
     /\ IF ~s.active \/ (call.purpose = "allocate" /\ (unreadable \/ ~Admitted(s, leases)))
        THEN cleanup_unreturned_allocation(s, leases) /\ returned' = returned
        ELSE ~unreadable /\ Ends(s, leases) /\ returned' = call.epoch /\ stopped' = stopped
     /\ UNCHANGED <<authority, host, mono, skew>>

\* (Mutant of RenewAcked: an answer that did not come counts as agreement.)
RenewPresumed(row) ==
  /\ mono < call.deadline
  /\ row.host = "PENDING_HOST_RENEW" /\ row.status = "ACTIVE"

\* The acknowledgment is fresh, in time, and of the installed generation.
RenewAcked(row) ==
  /\ Answered /\ call.reply.fresh
  /\ mono < call.deadline
  /\ row.host = "PENDING_HOST_RENEW" /\ row.status = "ACTIVE"
  /\ row.gen = call.reply.gen

RenewEnds ==
  LET lease == [epoch |-> call.epoch, expires |-> call.expires]
      renewed == [svc EXCEPT !.grant = lease, !.deadline = call.deadline,
                             !.deadlineLease = call.epoch]
  IN /\ call.op = "renew" /\ RenewAcked(leases[call.epoch])
     /\ Ends(activate_recovery_lease(renewed, lease),
             complete_host_lease_renew(leases, call.epoch, call.seq, call.expires))
     /\ UNCHANGED <<authority, host, mono, skew, stopped, returned>>

RevokeAcked == Answered

\* Only a cleanup whose marker still names the lease reopens admission.
RevokeDone(s, e) ==
  [s EXCEPT !.cleanup = 0, !.lease = None, !.deadline = 0, !.deadlineLease = 0,
            !.grant = None, !.active = FALSE,
            !.revoked = ~(s.cleanup = e /\ ~s.shutdown)]

\* commit_completed_episode: a profiled release of a live episode reopens.
EpisodeDone(s, e, why) ==
  IF why = "profiled"
  THEN [s EXCEPT !.profile = [boot |-> s.boot, released |-> e], !.revoked = FALSE]
  ELSE s

RevokeEnds ==
  LET rows == complete_host_lease_revoke(leases, call.epoch, call.reply.gen)
      s == EpisodeDone(RevokeDone(svc, call.epoch), call.epoch, call.purpose)
  IN /\ call.op = "revoke" /\ RevokeAcked
     /\ IF call.purpose = "retry" THEN AllocateFrom(s, rows)
        ELSE Ends(s, rows) /\ stopped' = stopped
     /\ UNCHANGED <<authority, host, mono, skew, returned>>

-----------------------------------------------------------------------------
(* The host, modelled from what the gateway asks of it, and time.           *)

\* A boot and an epoch only ever supersede; a repeated request is a duplicate.
HostAccepts(f) ==
  \/ f.op = "fence" /\ f.boot >= host.boot
  \/ /\ f.boot = host.boot
     /\ \/ f.op = "install" /\ f.epoch > host.epoch
        \/ f.op = "install" /\ host.held /\ f.epoch = host.epoch /\ f.expires = host.expires
        \/ f.op = "renew" /\ host.held /\ f.epoch = host.epoch /\ f.seq >= host.seq
        \/ f.op = "revoke" /\ f.epoch = host.epoch

HostAfter(f) ==
  CASE f.op = "fence" -> [host EXCEPT !.boot = f.boot, !.held = @ /\ f.boot = host.boot]
    [] f.op = "install" -> [host EXCEPT !.epoch = f.epoch, !.expires = f.expires,
                                        !.seq = IF f.epoch = host.epoch THEN @ ELSE 0,
                                        !.held = TRUE]
    [] f.op = "renew" -> [host EXCEPT !.expires = f.expires, !.seq = f.seq]
    [] f.op = "revoke" -> [host EXCEPT !.held = FALSE]

\* A frame takes effect late, more than once, or never, and its answer reaches
\* the handler if that still waits for it.
HostActs(f, answered, gen, fresh) ==
  /\ HostAccepts(f)
  /\ host' = HostAfter(f)
  /\ call' = IF answered THEN [call EXCEPT !.reply = [gen |-> gen, fresh |-> fresh]] ELSE call
  /\ answered => /\ call.op \in {"fence", "install", "renew", "revoke"}
                 /\ f = FrameOf(svc.boot, call)
                 /\ ~Answered
  /\ UNCHANGED <<authority, leases, svc, wire, mono, skew, stopped, returned>>

Tick ==
  /\ mono < MaxMono
  /\ mono' = mono + 1
  /\ UNCHANGED <<authority, leases, svc, call, wire, host, skew, stopped, returned>>

\* The wall clock jumps ahead; recovery_now_millis never goes back.
WallStep ==
  /\ skew < MaxSkew
  /\ skew' = skew + 1
  /\ UNCHANGED <<authority, leases, svc, call, wire, host, mono, stopped, returned>>

Next ==
  \/ Bootstrap \/ Restart \/ HostFence \/ HostFenceEnds
  \/ Allocate \/ Acquire \/ InstallEnds
  \/ \E unreadable \in BOOLEAN : ActivateAndRespond(unreadable)
  \/ \E seq \in 1..MaxSeq : Renew(seq)
  \/ RenewEnds
  \/ Revoke \/ Shutdown \/ RevokeEnds
  \/ \E profiled \in BOOLEAN : Release(profiled)
  \/ \E gone \in BOOLEAN : CallFails(gone)
  \/ CheckLease
  \/ \E f \in wire, answered, fresh \in BOOLEAN, gen \in Generations :
       HostActs(f, answered, gen, fresh)
  \/ Tick \/ WallStep

Spec == Init /\ [][Next]_vars

-----------------------------------------------------------------------------
(* Properties.                                                              *)

Instants == 0..(MaxMono + MaxSkew + Ttl)
Rows == [boot : 1..MaxBoot, expires : Instants, seq : 0..MaxSeq,
         status : {"ACTIVE", "EXPIRED", "REVOKED"}, host : HostStates,
         digest : Instants, gen : Generations \cup {0},
         pending : [seq : 0..MaxSeq, expires : Instants]]

\* Every deadline and expiry stays within one lease lifetime of the clocks, and
\* the rows, the memory and the host hold what the code stores in them.
TypeOK ==
  /\ authority \in [generation : 1..MaxBoot, state : {"FENCE_REQUIRED", "READY"}]
  /\ leases \in Seq(Rows) /\ Len(leases) <= MaxEpoch
  /\ svc.boot = authority.generation
  /\ svc.lease.epoch \in 0..Len(leases) /\ svc.lease.expires \in Instants
  /\ svc.grant.epoch \in 0..Len(leases) /\ svc.grant.expires \in Instants
  /\ svc.deadline \in 0..(mono + Ttl) /\ call.deadline \in 0..(mono + Ttl)
  /\ svc.cleanup \in 0..Len(leases) /\ svc.deadlineLease \in 0..Len(leases)
  /\ svc.profile \in [boot : 0..MaxBoot, released : 0..MaxEpoch]
  /\ call.op \in {"idle", "fence", "install", "activate", "renew", "revoke"}
  /\ call.purpose \in Purposes
  /\ host.boot \in 0..MaxBoot /\ host.epoch \in 0..MaxEpoch
  /\ mono \in 0..MaxMono /\ skew \in 0..MaxSkew /\ returned \in 0..MaxEpoch

\* Whatever boots, crashes and retries do, at most one lease row is active; it
\* is the newest and belongs to the boot that is current.
OneLiveLease ==
  \A e \in active_lease(leases) : e = Len(leases) /\ leases[e].boot = authority.generation

\* While check_lease lets mutations through, the host holds that very lease,
\* under that boot, and for at least as long as the gateway relies on it: none
\* of the lost, late and repeated frames can put the two out of step.
HostHoldsWhatIsAdmitted ==
  Admits => /\ host.boot = svc.boot /\ host.held
            /\ host.epoch = svc.lease.epoch
            /\ host.expires >= svc.lease.expires

\* An operator's revoke, an unprofiled release and a shutdown are final for the
\* boot: no cleanup retry, lost acknowledgment or later release reopens it.
StopHolds == stopped => svc.revoked \/ svc.shutdown

\* Between two requests, mutations are admitted only under a lease that was
\* handed to a caller: an allocation that failed after the host had installed
\* it serves nobody, even when its revocation could not be recorded.
OnlyReturnedLeasesServe == call = Idle /\ Admits => returned = svc.lease.epoch

=============================================================================
