------------------------- MODULE ContinuationOwner -------------------------
(* Claims of a live lease for a continuation, and their adoption, on top of *)
(* the leases of HostLease.  A claim binds an operation to the exact owner: *)
(* boot, lease epoch and expiry (the rest of the owner tuple follows from   *)
(* these).  An adoption hands the authority of a claimed, still live lease  *)
(* to a caller; it writes nothing.                                          *)
(*                                                                          *)
(* A handler compares the caller's tuple with what the process holds, then  *)
(* with what the store holds, and an adoption with the process once more.   *)
(* In between the clocks move and the process may die; nothing else runs.   *)

EXTENDS HostLease

CONSTANTS
  Ops,           \* continuation operations
  MaxRetained,   \* MAX_RETAINED_CONTINUATION_CLAIMS
  NoOwner

ASSUME ContinuationConfig == MaxRetained \in Nat

VARIABLES
  claims,   \* the owner each operation has claimed
  asked     \* the handler under way: its next step, operation and owner

allvars == <<vars, claims, asked>>

NotAsked == [at |-> "idle", op |-> NoOwner, owner |-> NoOwner]

OwnerInit == Init /\ claims = [o \in Ops |-> NoOwner] /\ asked = NotAsked

-----------------------------------------------------------------------------
(* The current owner.                                                       *)

Owner(epoch, expires) == [boot |-> authority.generation, epoch |-> epoch, expires |-> expires]
snapshot(state, owner) == [state |-> state, owner |-> owner]

\* Of an active lease: whether it has expired, and whether the host has it.
LeaseState(row) ==
  CASE row.status = "REVOKED" -> "revoked"
    [] row.status = "EXPIRED" \/ row.expires <= now -> "expired"
    [] OTHER -> IF row.host = "INSTALLED" THEN "available" ELSE "unknown"

\* What the store says: the newest lease of the boot that is ready.  A row gets
\* its fence when its installation is prepared.
current_owner_snapshot(rows) ==
  LET mine == {e \in DOMAIN rows : rows[e].boot = authority.generation}
      e == CHOOSE x \in mine : \A y \in mine : x >= y
  IN IF authority.state # "READY" THEN snapshot("unknown", NoOwner)
     ELSE IF mine = {} THEN snapshot("absent", NoOwner)
     ELSE IF rows[e].host = "UNINSTALLED" THEN snapshot("unknown", NoOwner)
     ELSE snapshot(LeaseState(rows[e]), Owner(e, rows[e].expires))

\* (Mutant of MemoryIsLive: an installed grant is enough, though local
\* admission has been closed.)
MemoryIsInstalled(s, rows) == s.fence /\ s.lease # None /\ active_host_grant_matches(s, rows)

\* The process holds a live lease under the ready boot, and the grant of it
\* that the host acknowledged.
MemoryIsLive(s, rows) ==
  /\ s.active /\ ~s.revoked /\ ~s.shutdown
  /\ s.deadline # 0 /\ ~DeadlinePassed(s)
  /\ s.fence
  /\ s.lease # None /\ active_host_grant_matches(s, rows)

\* Available only when store and process agree on the very owner.
read_owner_snapshot(s, rows) ==
  LET stored == current_owner_snapshot(rows)
  IN IF stored.state = "available"
        /\ ~(MemoryIsLive(s, rows) /\ stored.owner = Owner(s.lease.epoch, s.lease.expires))
     THEN snapshot("unknown", stored.owner)
     ELSE stored

Checked == read_owner_snapshot(DeadlineChecked(svc), DeadlineExpired(svc, leases))

-----------------------------------------------------------------------------
(* The routes.  The read and the lookup change nothing but a passed         *)
(* deadline, which is CheckLease.                                           *)

OwnerFree == Free /\ asked = NotAsked

\* The deadline is checked, then the caller's owner is compared with the
\* current one; another owner, or one that is not available, is refused.
Ask(at, o) ==
  /\ OwnerFree
  /\ Ends(DeadlineChecked(svc), DeadlineExpired(svc, leases))
  /\ asked' = IF Checked.state = "available"
              THEN [at |-> at, op |-> o, owner |-> Checked.owner] ELSE NotAsked
  /\ UNCHANGED <<authority, host, mono, skew, stopped, returned, claims>>

claim_owner(o) == Ask("claim", o)
adopt(o) == Ask("adopt", o)

\* The owner is still the one the caller named, now for the store.
StillCurrent ==
  LET stored == current_owner_snapshot(leases)
  IN stored.state = "available" /\ stored.owner = asked.owner

Retained == {o \in Ops : claims[o] # NoOwner}

\* Operation and lease are both single use, and claims are kept for ever.
CanClaim(o) ==
  /\ \A p \in Retained : claims[p].epoch # asked.owner.epoch
  /\ Cardinality(Retained) < MaxRetained

\* An exact retry finds its claim; anything else that is recorded conflicts.
\* The store may fail: then nothing is recorded.
claim_continuation_owner ==
  /\ asked.at = "claim"
  /\ \/ /\ StillCurrent /\ asked.op \notin Retained /\ CanClaim(asked.op)
        /\ claims' = [claims EXCEPT ![asked.op] = asked.owner]
     \/ UNCHANGED claims
  /\ asked' = NotAsked
  /\ UNCHANGED vars

adopt_continuation_owner ==
  /\ asked.at = "adopt"
  /\ asked' = IF StillCurrent /\ claims[asked.op] = asked.owner
              THEN [asked EXCEPT !.at = "recheck"] ELSE NotAsked
  /\ UNCHANGED <<vars, claims>>

\* (Mutant of Rechecked: the answer relies on the checks made before.)
CheckedBefore == TRUE

\* A deadline that passed meanwhile must not return authority.
Rechecked == Checked.state = "available" /\ Checked.owner = asked.owner

\* The last check, and the answer with the authority.
AdoptReturns ==
  /\ asked.at = "recheck" /\ Rechecked
  /\ asked' = NotAsked
  /\ Ends(DeadlineChecked(svc), DeadlineExpired(svc, leases))
  /\ UNCHANGED <<authority, host, mono, skew, stopped, returned, claims>>

AdoptRefused ==
  /\ asked.at = "recheck" /\ ~Rechecked
  /\ asked' = NotAsked
  /\ Ends(DeadlineChecked(svc), DeadlineExpired(svc, leases))
  /\ UNCHANGED <<authority, host, mono, skew, stopped, returned, claims>>

-----------------------------------------------------------------------------
(* The lease machine underneath: all of it between two requests, and what   *)
(* does not wait for the service at any time.                               *)

LeaseStep == asked = NotAsked /\ Next /\ UNCHANGED <<claims, asked>>

Meanwhile ==
  /\ asked # NotAsked
  /\ \/ (Tick \/ WallStep) /\ UNCHANGED asked
     \/ Restart /\ asked' = NotAsked
  /\ UNCHANGED claims

OwnerNext ==
  \/ LeaseStep \/ Meanwhile
  \/ \E o \in Ops : claim_owner(o) \/ adopt(o)
  \/ claim_continuation_owner \/ adopt_continuation_owner
  \/ AdoptReturns \/ AdoptRefused

OwnerSpec == OwnerInit /\ [][OwnerNext]_allvars

-----------------------------------------------------------------------------
(* Properties.                                                              *)

\* Between two requests the owner reads as available exactly when a mutation
\* would be let through: read_owner_snapshot and check_lease look at the same
\* facts along different ways and never disagree.
OwnerAgreesWithAdmission ==
  call = Idle /\ asked = NotAsked /\ ~svc.shutdown => ((Checked.state = "available") <=> Admits)

\* Authority is handed out only by a claim of exactly this owner, and while the
\* host holds that lease, under this boot, for as long as it is promised.
AdoptedIsHeld ==
  [][AdoptReturns =>
       LET owner == asked.owner
       IN /\ claims[asked.op] = owner
          /\ owner.expires > now
          /\ host.held /\ host.boot = owner.boot /\ host.epoch = owner.epoch
          /\ host.expires >= owner.expires]_allvars
=============================================================================
