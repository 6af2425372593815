-------------------------- MODULE GameInformation --------------------------
(* The game-information routes and the negotiated-capability snapshot of    *)
(* the attached service: what the mod has proved it can do, kept in memory  *)
(* and tagged with the lease it was proved under, never cleared when the    *)
(* lease changes; the cursors of the pages handed out; and the answers that *)
(* rest on them.  The worker serves one request at a time, and the deadline *)
(* of the lease may pass while it waits for the mod.                        *)
(*                                                                          *)
(* A query stands for its normalized form, without the cursor.  The content *)
(* manifest is relayed and nothing of it is kept: it is left out, as are    *)
(* the refusals that change nothing.                                        *)

EXTENDS RouteLease, FiniteSetsExt

CONSTANTS
  Kinds,                \* query kinds; one query of each
  Cursors,              \* cursors, by their order as strings
  Identities,           \* manifest and game profile a binding may be for
  Pinned,               \* those of the configured content manifest
  MAX_CURSOR_BINDINGS,
  LiveBootstrap         \* game_information_live_bootstrap_enabled

ASSUME InformationConfig ==
  /\ Cursors \subseteq Nat
  /\ Pinned \subseteq Identities
  /\ MAX_CURSOR_BINDINGS \in Nat \ {0}
  /\ LiveBootstrap \in BOOLEAN
  /\ None \notin Kinds \cup Identities

\* The requests being served, and the answers kept under the authority that
\* gave them.
Calls ==
  [route : {"capabilities", "discovery", "observe", "bootstrap"}]
  \cup [route : {"query"}, query : Kinds]
  \cup [route : {"negotiated", "snapshot"}, v2 : BOOLEAN]
Advertised == [authority : Nat, kinds : SUBSET Kinds]
Bindings == [authority : Nat, identity : Identities]
Pages == [authority : Nat, query : Kinds]

\* Nothing is no request, no answer and no cursor.
ASSUME InformationNothing ==
  None \notin Calls \cup Advertised \cup Bindings \cup Pages \cup Cursors

VARIABLES
  capabilities,    \* the kinds the mod advertised, and to which Authority
  cursor_bindings, \* per cursor the query it continues
  lookup_binding,  \* the identity last discovered, and by which Authority
  bootstrap,       \* the authority it is offered to, and whether it failed
  runtime_v3_baseline, \* the authority a state exchange succeeded for
  call,            \* the request being served
  handed,          \* history: what each cursor was last handed out for
  evidence,        \* history: what the mod proved since the lease began
  offered          \* history: the snapshot just answered

keptVars == <<capabilities, lookup_binding, bootstrap, runtime_v3_baseline>>
cursorVars == <<cursor_bindings, handed>>
informationVars == <<keptVars, cursorVars, call, evidence, offered>>

Unproved == [kinds |-> {}, identity |-> None, baseline |-> FALSE]

InformationInit ==
  /\ capabilities = None
  /\ cursor_bindings = [c \in Cursors |-> None]
  /\ lookup_binding = None
  /\ bootstrap = [supported |-> None, failed |-> FALSE]
  /\ runtime_v3_baseline = None
  /\ call = None
  /\ handed = [c \in Cursors |-> None]
  /\ evidence = Unproved
  /\ offered = None

\* A request is served under the lease it names; what was answered is read.
Serve(c) ==
  /\ call = None
  /\ check_lease
  /\ call' = c
  /\ offered' = None
  /\ UNCHANGED leaseVars

\* The exchange with the mod ends, and the request with it.
Served(route) ==
  /\ call # None
  /\ call.route = route
  /\ call' = None
  /\ UNCHANGED offered

-----------------------------------------------------------------------------
(* Capabilities: the former answer is dropped before the mod is asked.      *)

CapabilitiesCurrent ==
  capabilities # None /\ capabilities.authority = Authority

\* With a body the request is refused, the answer dropped all the same.
game_information_capabilities ==
  /\ Serve([route |-> "capabilities"]) \/ Serve(None)
  /\ capabilities' = None
  /\ evidence' = [evidence EXCEPT !.kinds = {}]
  /\ UNCHANGED <<lookup_binding, bootstrap, runtime_v3_baseline, cursorVars>>

\* A valid answer advertises at least one kind.
validate_capabilities == SUBSET Kinds \ {{}}

CapabilitiesAnswered ==
  /\ \/ Served("capabilities")
     \/ /\ call # None /\ call.route = "negotiated"
        /\ call' = [route |-> "snapshot", v2 |-> call.v2]
        /\ UNCHANGED offered
  /\ \E kinds \in validate_capabilities :
       /\ capabilities' = [authority |-> Authority, kinds |-> kinds]
       /\ evidence' = [evidence EXCEPT !.kinds = kinds]
  /\ UNCHANGED <<lookup_binding, bootstrap, runtime_v3_baseline, cursorVars,
                 leaseVars>>

-----------------------------------------------------------------------------
(* Queries and their cursors.                                               *)

cursor_is_compatible(query, cursor) ==
  cursor # None => cursor_bindings[cursor] \in {None, query}

admit(query) == query \in capabilities.kinds

game_information_request ==
  /\ \E query \in Kinds, cursor \in Cursors \cup {None} :
       /\ cursor_is_compatible(query, cursor)
       /\ CapabilitiesCurrent
       /\ admit(query)
       /\ Serve([route |-> "query", query |-> query])
  /\ UNCHANGED <<keptVars, cursorVars, evidence>>

\* (Mutant of remember_next_cursor: a cursor handed out again keeps its
\* former query.)
remember_first_query(query, cursor) ==
  cursor_bindings' = [cursor_bindings EXCEPT
                        ![cursor] = IF @ = None THEN query ELSE @]

\* When the registry is full its smallest cursor makes room, be it the same.
remember_next_cursor(query, cursor) ==
  LET bound == {c \in Cursors : cursor_bindings[c] # None}
      kept == IF Cardinality(bound) >= MAX_CURSOR_BINDINGS
              THEN bound \ {Min(bound)} ELSE bound
  IN cursor_bindings' =
       [c \in Cursors |-> IF c = cursor THEN query
                          ELSE IF c \in kept THEN cursor_bindings[c]
                          ELSE None]

\* A valid answer within the budget, with or without a next page.
QueryAnswered ==
  /\ Served("query")
  /\ CapabilitiesCurrent
  /\ \/ UNCHANGED cursorVars
     \/ \E cursor \in Cursors :
          /\ remember_next_cursor(call.query, cursor)
          /\ handed' = [handed EXCEPT ![cursor] =
               [authority |-> Authority, query |-> call.query]]
  /\ UNCHANGED <<keptVars, evidence, leaseVars>>

-----------------------------------------------------------------------------
(* The lookup binding.                                                      *)

BindingCurrent(l) ==
  /\ lookup_binding # None
  /\ lookup_binding.authority = game_information_authority(l)

\* A discovery supersedes the former binding even when its exchange fails.
LookupDiscovery ==
  /\ Serve([route |-> "discovery"])
  /\ lookup_binding' = None
  /\ evidence' = [evidence EXCEPT !.identity = None]
  /\ UNCHANGED <<capabilities, bootstrap, runtime_v3_baseline, cursorVars>>

\* A binding of another manifest than the configured one is not kept.
DiscoveryAnswered ==
  /\ Served("discovery")
  /\ \E identity \in Identities :
       IF identity \in Pinned
       THEN /\ lookup_binding' = [authority |-> Authority,
                                  identity |-> identity]
            /\ evidence' = [evidence EXCEPT !.identity = identity]
       ELSE UNCHANGED <<lookup_binding, evidence>>
  /\ UNCHANGED <<capabilities, bootstrap, runtime_v3_baseline, cursorVars,
                 leaseVars>>

\* An observation or a bootstrap needs a binding of this authority; one of
\* another authority is dropped, and the request refused.
BoundRequest ==
  /\ lookup_binding # None
  /\ \/ /\ BindingCurrent(lease)
        /\ \/ Serve([route |-> "observe"])
           \/ LiveBootstrap /\ Serve([route |-> "bootstrap"])
        /\ UNCHANGED lookup_binding
     \/ /\ ~BindingCurrent(lease)
        /\ Serve(None)
        /\ lookup_binding' = None
  /\ UNCHANGED <<capabilities, bootstrap, runtime_v3_baseline, cursorVars,
                 evidence>>

\* A valid observation of another identity ends the binding.
ObservationAnswered ==
  /\ Served("observe")
  /\ \E identity \in Identities :
       LET same == identity \in Pinned /\ identity = lookup_binding.identity
       IN /\ lookup_binding' = IF same THEN lookup_binding ELSE None
          /\ evidence' = IF same THEN evidence
                         ELSE [evidence EXCEPT !.identity = None]
  /\ UNCHANGED <<capabilities, bootstrap, runtime_v3_baseline, cursorVars,
                 leaseVars>>

-----------------------------------------------------------------------------
(* The live-observation bootstrap.                                          *)

\* The mod cannot be reached, does not answer in time, or is not understood.
BootstrapFailed ==
  /\ Served("bootstrap")
  /\ bootstrap' = [supported |-> Authority, failed |-> TRUE]
  /\ UNCHANGED <<capabilities, lookup_binding, runtime_v3_baseline,
                 cursorVars, evidence, leaseVars>>

\* After the exchange the lease is checked again; only then is the answer
\* read, and an answer that is not valid is a failure too.
BootstrapAnswered ==
  /\ Served("bootstrap")
  /\ IF due
     THEN /\ lease' = None
          /\ due' = FALSE
          /\ UNCHANGED <<recovery, granted, bootstrap>>
     ELSE /\ \E valid \in BOOLEAN :
               bootstrap' = [supported |-> Authority, failed |-> ~valid]
          /\ UNCHANGED leaseVars
  /\ UNCHANGED <<capabilities, lookup_binding, runtime_v3_baseline,
                 cursorVars, evidence>>

-----------------------------------------------------------------------------
(* The snapshot.                                                            *)

\* What failed under another authority may be offered again.
negotiated_capabilities ==
  /\ \E v2 \in BOOLEAN :
       Serve([route |-> IF CapabilitiesCurrent THEN "snapshot"
                        ELSE "negotiated",
              v2 |-> v2])
  /\ bootstrap' = IF bootstrap.supported = Authority THEN bootstrap
                  ELSE [supported |-> IF LiveBootstrap THEN Authority
                                      ELSE None,
                        failed |-> FALSE]
  /\ IF CapabilitiesCurrent THEN UNCHANGED <<capabilities, evidence>>
     ELSE /\ capabilities' = None
          /\ evidence' = [evidence EXCEPT !.kinds = {}]
  /\ UNCHANGED <<lookup_binding, runtime_v3_baseline, cursorVars>>

\* A state exchange is run unless one succeeded for this authority.  It
\* checks the lease, and the snapshot goes on when that check ends it.
refresh_runtime_v3_baseline ==
  IF runtime_v3_baseline = Authority
  THEN UNCHANGED <<runtime_v3_baseline, evidence, leaseVars>>
  ELSE \/ /\ ~due
          /\ runtime_v3_baseline' = Authority
          /\ evidence' = [evidence EXCEPT !.baseline = TRUE]
          /\ UNCHANGED leaseVars
       \/ /\ runtime_v3_baseline' = None
          /\ lease' = IF due THEN None ELSE lease
          /\ due' = FALSE
          /\ UNCHANGED <<recovery, granted, evidence>>

\* (Mutant of Offers: the binding is offered whoever discovered it.)
OffersWithoutFence(l, baseline, v2) ==
  LET bound == lookup_binding # None IN
  [authority |-> capabilities.authority, kinds |-> capabilities.kinds,
   baseline |-> baseline = game_information_authority(l),
   identity |-> IF bound THEN lookup_binding.identity ELSE None,
   bootstrap |-> /\ bound /\ v2
                 /\ bootstrap.supported = game_information_authority(l)
                 /\ ~bootstrap.failed]

\* What the snapshot offers under the lease l that the refresh left.
Offers(l, baseline, v2) ==
  LET bound == BindingCurrent(l) IN
  [authority |-> capabilities.authority,
   kinds |-> capabilities.kinds,
   baseline |-> baseline = game_information_authority(l),
   identity |-> IF bound THEN lookup_binding.identity ELSE None,
   bootstrap |-> /\ bound /\ v2
                 /\ bootstrap.supported = game_information_authority(l)
                 /\ ~bootstrap.failed]

SnapshotAnswered ==
  /\ call # None
  /\ call.route = "snapshot"
  /\ refresh_runtime_v3_baseline
  /\ offered' = Offers(lease', runtime_v3_baseline', call.v2)
  /\ call' = None
  /\ UNCHANGED <<capabilities, lookup_binding, bootstrap, cursorVars>>

-----------------------------------------------------------------------------
\* An exchange ends without a valid answer: no connection, a timeout, an
\* error of the mod, a frame too large or not understood, an answer over the
\* budget, or a caller that left.  A bootstrap is only cancelled this way.
Unanswered ==
  /\ \E route \in {"capabilities", "negotiated", "query", "discovery",
                   "observe", "bootstrap"} : Served(route)
  /\ UNCHANGED <<keptVars, cursorVars, evidence, leaseVars>>

InformationDeadline ==
  /\ call # None
  /\ DeadlinePasses
  /\ UNCHANGED informationVars

\* With a new lease nothing is proved yet; what is kept stays as it is.
InformationLeaseChanges ==
  /\ call = None
  /\ evidence' = IF lease' \in {None, 0} THEN evidence ELSE Unproved
  /\ offered' = None
  /\ UNCHANGED <<keptVars, cursorVars, call>>

\* A restart forgets everything.
InformationRestart ==
  /\ capabilities' = None
  /\ cursor_bindings' = [c \in Cursors |-> None]
  /\ lookup_binding' = None
  /\ bootstrap' = [supported |-> None, failed |-> FALSE]
  /\ runtime_v3_baseline' = None
  /\ call' = None
  /\ handed' = [c \in Cursors |-> None]
  /\ evidence' = Unproved
  /\ offered' = None

InformationRequest ==
  \/ game_information_capabilities \/ game_information_request
  \/ LookupDiscovery \/ BoundRequest \/ negotiated_capabilities

InformationExchange ==
  \/ CapabilitiesAnswered \/ QueryAnswered
  \/ DiscoveryAnswered \/ ObservationAnswered
  \/ BootstrapFailed \/ BootstrapAnswered
  \/ SnapshotAnswered \/ Unanswered \/ InformationDeadline

-----------------------------------------------------------------------------
\* A snapshot names one lease, and everything in it the mod has proved under
\* that lease: its kinds, the state exchange, an identity that no later
\* discovery or observation put in doubt; and a bootstrap is offered for such
\* an identity only.  Nothing proved under a former lease is offered, though
\* nothing is cleared when the lease changes, or ends while the snapshot is
\* made.
OffersAreProved ==
  offered # None =>
    /\ offered.authority = IF recovery THEN granted ELSE 0
    /\ offered.kinds = evidence.kinds
    /\ offered.baseline => evidence.baseline
    /\ offered.identity \in {None, evidence.identity}
    /\ offered.bootstrap => offered.identity # None

\* The registry stays within its bound, and a caller that continues the query
\* a cursor was last handed out for under the present lease is never told
\* that the cursor is stale, though the mod may hand out one cursor for
\* several queries and the registry keeps what former leases left.
CursorsContinue ==
  /\ Cardinality({c \in Cursors : cursor_bindings[c] # None})
       <= MAX_CURSOR_BINDINGS
  /\ \A c \in Cursors :
       handed[c] # None /\ handed[c].authority = Authority
         => cursor_is_compatible(handed[c].query, c)

\* The answers rest on what is current: OffersAreProved and CursorsContinue.
AnswersAreCurrent == OffersAreProved /\ CursorsContinue
=============================================================================
