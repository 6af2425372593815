-------------------------- MODULE AttachedRoutes --------------------------
(* The routes of the attached service that keep state of their own: co-op   *)
(* reports, co-op mutations, game information.  One worker serves them all, *)
(* one request at a time, under one lease; a restart forgets what they keep.*)

EXTENDS CoopNative, GameInformation

vars == <<leaseVars, coopVars, informationVars>>

Init == LeaseInit /\ ReportsInit /\ NativeInit /\ InformationInit

Coop ==
  /\ (call = None /\ CoopRequest) \/ CoopExchange
  /\ UNCHANGED <<leaseVars, informationVars>>

Information ==
  /\ (asked = None /\ InformationRequest) \/ InformationExchange
  /\ UNCHANGED coopVars

Lease ==
  /\ asked = None
  /\ LeaseChanges
  /\ InformationLeaseChanges
  /\ UNCHANGED coopVars

\* The process ends and starts again: all of it is in memory only.  The
\* recovery store is not, and its next lease is a new one.
Restart ==
  /\ CoopRestart
  /\ InformationRestart
  /\ lease' = None
  /\ due' = FALSE
  /\ UNCHANGED <<recovery, granted>>

Next == Coop \/ Information \/ Lease \/ Restart

Spec == Init /\ [][Next]_vars
=============================================================================
