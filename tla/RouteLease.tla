---------------------------- MODULE RouteLease ----------------------------
(* The lease as the routes of the attached service see it, and the identity *)
(* that their evidence is bound to.  How leases are granted and ended is    *)
(* the subject of HostLease.                                                *)

EXTENDS Integers

CONSTANTS
  None,        \* nothing: Option::None, the empty slot
  MaxLeases    \* bound: recovery leases granted

ASSUME LeaseConfig == None \notin Int /\ MaxLeases \in Nat \ {0}

VARIABLES
  recovery,   \* whether a recovery store is configured
  lease,      \* None, the lease of the configuration (0), a recovery lease (n)
  granted,    \* the recovery leases granted so far
  due         \* its deadline has passed, and no check has noticed it yet

leaseVars == <<recovery, lease, granted, due>>

LeaseInit ==
  /\ recovery \in BOOLEAN
  /\ lease = None
  /\ granted = 0
  /\ due = FALSE

\* A check that notices the deadline ends the lease.
check_lease == lease # None /\ ~due

\* With no lease in force the identity is that of the configuration.
game_information_authority(l) == IF l = None THEN 0 ELSE l
Authority == game_information_authority(lease)

\* External, between requests: release, revocation or expiry; allocation.
\* With a fixed configuration the same lease comes back, with a recovery store
\* every lease is a new one.
LeaseChanges ==
  /\ IF lease # None THEN lease' = None /\ UNCHANGED granted
     ELSE IF recovery
          THEN /\ granted < MaxLeases
               /\ granted' = granted + 1
               /\ lease' = granted + 1
          ELSE lease' = 0 /\ UNCHANGED granted
  /\ due' = FALSE
  /\ UNCHANGED recovery

\* External: the deadline of a recovery lease passes during a request.
DeadlinePasses ==
  /\ recovery /\ lease # None /\ ~due
  /\ due' = TRUE
  /\ UNCHANGED <<recovery, lease, granted>>
=============================================================================
