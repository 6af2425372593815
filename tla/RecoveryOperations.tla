------------------------ MODULE RecoveryOperations ------------------------
(* The durable operations of a gateway with a recovery store: an intent is  *)
(* recorded, marked as dispatched, sent to the host, and its outcome is     *)
(* imported from the answer or, later, from a lookup or a reconciliation.   *)
(*                                                                          *)
(* The service handles one request at a time: a handler is atomic between   *)
(* its store transactions and its exchanges with the host.  At those points *)
(* the lease may end, the host may act and the process may die.  A frame    *)
(* the service gave up on can still reach the host.                         *)
(*                                                                          *)
(* A boot is its authority generation and, as a boot is fenced once, its    *)
(* host fence.  A lease is its epoch; HostLease models how it comes and     *)
(* goes.  An operation stands for its identifier and payload digest: a      *)
(* request with the identifier and another digest is refused (OperationCon- *)
(* flict) and changes nothing.                                              *)

EXTENDS Integers, Sequences, FiniteSets

CONSTANTS
  Ops,                  \* operation identifiers
  Incarnations,         \* instance incarnations a caller may bootstrap with
  UnresolvedCapacity,   \* RecoveryStoreConfig::unresolved_capacity
  RetainedCapacity,     \* RecoveryStoreConfig::retained_capacity
  None,
  MaxBoot, MaxEpoch, MaxGen     \* bounds

ASSUME RecoveryConfig ==
  /\ Ops # {} /\ IsFiniteSet(Ops) /\ Incarnations # {}
  /\ UnresolvedCapacity \in Nat \ {0} /\ RetainedCapacity \in Nat \ {0}
  /\ {MaxBoot, MaxEpoch, MaxGen} \subseteq Nat

VARIABLES
  authority,   \* the authority row: boot, incarnation, fenced (READY) or not
  lease,       \* the newest lease epoch, and whether it is in force
  rows,        \* the operation rows, with those moved to the archive
  tickets,     \* the admission tickets imported from the host
  catalog,     \* the service's memory of legal-action catalogs
  call,        \* the handler that is under way
  wire,        \* frames written to the host and not delivered
  host,        \* external: the host's fence, game generation and operations
  sent,        \* history: dispatch frames written for the retained operation
  spent        \* history: the catalogs used up by a dispatch since the game was
               \* last observed where they apply

vars == <<authority, lease, rows, tickets, catalog, call, wire, host, sent, spent>>

Unresolved == {"INTENT_RECORDED", "MAY_HAVE_BEEN_DISPATCHED", "ACCEPTED", "UNKNOWN"}
Terminal == {"SETTLED", "REJECTED", "RECONCILED"}
TicketStates == {"ISSUED", "ADMITTED", "EXECUTING", "EFFECT_WITNESS_RECORDED", "SETTLED",
                 "REJECTED", "UNKNOWN"}

OperationRows ==
  [boot : Nat, inc : Incarnations, epoch : Nat, exp : Nat,
   state : Unresolved \cup Terminal, wit : Nat, archived : BOOLEAN]
AdmissionTickets == [boot : Nat, epoch : Nat, state : TicketStates]
CatalogKeys == [epoch : Nat, gen : Nat]

\* Nothing is no operation, row, ticket or catalog.
ASSUME RecoveryNothing ==
  /\ None \notin Ops
  /\ None \notin OperationRows
  /\ None \notin AdmissionTickets
  /\ None \notin CatalogKeys

Idle == [kind |-> "idle", op |-> None, v3 |-> FALSE, reply |-> None]
EmptyCatalog == [current |-> None, observed |-> None, invalidated |-> None]

Init ==
  /\ \E i \in Incarnations : authority = [boot |-> 1, inc |-> i, ready |-> FALSE]
  /\ lease = [epoch |-> 0, live |-> FALSE]
  /\ rows = [o \in Ops |-> None]
  /\ tickets = [o \in Ops |-> None]
  /\ catalog = EmptyCatalog
  /\ call = Idle
  /\ wire = {}
  /\ host = [fence |-> 0, gen |-> 1,
             ops |-> [o \in Ops |-> [phase |-> "none", boot |-> 0, epoch |-> 0, exp |-> 0,
                                     wit |-> 0, ticket |-> None]]]
  /\ sent = [o \in Ops |-> 0]
  /\ spent = {}

-----------------------------------------------------------------------------
(* The recovery store.                                                      *)

\* The table of outcomes: nothing leaves a terminal state, an uncertain row
\* is closed by a witness only, an accepted one is never rejected.
valid_transition(from, to) ==
  \/ from = to
  \/ from = "INTENT_RECORDED" /\ to \in {"MAY_HAVE_BEEN_DISPATCHED", "REJECTED", "UNKNOWN"}
  \/ from = "MAY_HAVE_BEEN_DISPATCHED"
     /\ to \in {"ACCEPTED", "SETTLED", "REJECTED", "UNKNOWN", "RECONCILED"}
  \/ from = "ACCEPTED" /\ to \in {"SETTLED", "UNKNOWN", "RECONCILED"}
  \/ from = "UNKNOWN" /\ to = "RECONCILED"

\* The states of a ticket only move on; a settled, rejected or unknown one
\* is final, and a recorded effect is never rejected.
valid_ticket_transition(from, to) ==
  LET order == <<"ISSUED", "ADMITTED", "EXECUTING", "EFFECT_WITNESS_RECORDED">>
  IN \E i \in 1..4 :
       /\ order[i] = from
       /\ \/ \E j \in (i + 1)..4 : order[j] = to
          \/ to \in {"SETTLED", "UNKNOWN"}
          \/ to = "REJECTED" /\ i < 4

\* select_operation finds the archived record of an operation as well.
Recorded(o) == rows[o] # None
UnresolvedRows == {o \in Ops : Recorded(o) /\ rows[o].state \in Unresolved}
unresolved_count == Cardinality(UnresolvedRows)
retained_count == Cardinality({o \in Ops : Recorded(o)})

\* (Mutant of CanRecord: an uncertain row no longer blocks its incarnation.)
CanRecordBesideUnknown(o) ==
  /\ ~Recorded(o)
  /\ ~\E p \in UnresolvedRows : rows[p].inc = authority.inc /\ rows[p].state # "UNKNOWN"
  /\ unresolved_count < UnresolvedCapacity
  /\ retained_count < RetainedCapacity

\* record_intent: one unresolved operation for each incarnation, and the two
\* capacities.  A recorded operation answers DUPLICATE or OperationConflict.
CanRecord(o) ==
  /\ ~Recorded(o)
  /\ ~\E p \in UnresolvedRows : rows[p].inc = authority.inc
  /\ unresolved_count < UnresolvedCapacity
  /\ retained_count < RetainedCapacity

NewRow(g) ==
  [boot |-> authority.boot, inc |-> authority.inc, epoch |-> lease.epoch, exp |-> g,
   state |-> "INTENT_RECORDED", wit |-> 0, archived |-> FALSE]

record_intent(o, g) == [rows EXCEPT ![o] = NewRow(g)]

recovery_ready == authority.ready

\* ensure_context for the proof of the lease in force.
ensure_context == lease.live /\ recovery_ready

\* The operation was recorded under the boot and the lease of the proof.
operation_context_matches(o) ==
  rows[o].boot = authority.boot /\ rows[o].epoch = lease.epoch

\* (Mutant of MayMark: an uncertain operation is dispatched once more.)
MayMarkAgain(o) ==
  ensure_context /\ operation_context_matches(o)
  /\ rows[o].state \in {"INTENT_RECORDED", "UNKNOWN"}

MayMark(o) ==
  ensure_context /\ operation_context_matches(o) /\ rows[o].state = "INTENT_RECORDED"

mark_dispatched(o) == [rows EXCEPT ![o].state = "MAY_HAVE_BEEN_DISPATCHED"]

\* The fence of a witness is compared with the operation's ticket or, when
\* it has none, with the current fence; its generation with the expected one.
WitnessMatches(o, wit, fence) ==
  /\ wit > rows[o].exp
  /\ fence = IF tickets[o] # None THEN tickets[o].boot ELSE authority.boot

validate_witness_shape(state, wit) == state \in {"SETTLED", "RECONCILED"} => wit # 0

CanRecordOutcome(o, state, wit, fence) ==
  /\ ~rows[o].archived                            \* update_operation finds no row
  /\ validate_witness_shape(state, wit)
  /\ wit # 0 => WitnessMatches(o, wit, fence)
  /\ valid_transition(rows[o].state, state)

record_outcome(o, state, wit) == [rows EXCEPT ![o].state = state, ![o].wit = wit]

\* (Mutant of SameTicket: a ticket that is stored is final.)
SameTicketState(o, t) == tickets[o] = None \/ tickets[o] = t

\* A ticket is inserted once; later imports carry the same identity and may
\* only move its state on.
SameTicket(o, t) ==
  tickets[o] # None =>
    /\ tickets[o].boot = t.boot /\ tickets[o].epoch = t.epoch
    /\ tickets[o].state = t.state \/ valid_ticket_transition(tickets[o].state, t.state)

\* record_host_ticket: under the lease in force and the current fence.
CanRecordHostTicket(o, t) ==
  /\ t.boot = authority.boot /\ t.epoch = lease.epoch
  /\ ensure_context
  /\ rows[o].boot = t.boot /\ rows[o].epoch = t.epoch
  /\ \/ rows[o].state \in Unresolved
     \/ rows[o].state = t.state /\ t.state \in {"SETTLED", "REJECTED"}
  /\ SameTicket(o, t)

\* record_historical_host_ticket: any boot and lease, but the operation's own.
CanRecordHistoricalTicket(o, t) ==
  /\ rows[o].boot = t.boot /\ rows[o].epoch = t.epoch
  /\ SameTicket(o, t)

\* start_boot and rekey: nothing unresolved survives the rotation as known.
Rotated ==
  [o \in Ops |-> IF o \in UnresolvedRows THEN [rows[o] EXCEPT !.state = "UNKNOWN"]
                                         ELSE rows[o]]

-----------------------------------------------------------------------------
(* The catalog of legal actions.  A key is the lease epoch and the game     *)
(* generation; a state identifier is determined by the generation.          *)

Key(g) == [epoch |-> lease.epoch, gen |-> g]

\* Whether an observation is accepted, and what it leaves of the catalog.
Advances(key) ==
  catalog.observed # None =>
    (catalog.observed.epoch = key.epoch => key.gen >= catalog.observed.gen)

advance_observation(key) ==
  LET moved == catalog.observed # None
               /\ (catalog.observed.epoch # key.epoch \/ key.gen > catalog.observed.gen)
  IN [catalog EXCEPT !.current = IF moved THEN None ELSE @, !.observed = key]

observe(key) ==
  IF ~Advances(key) THEN catalog
  ELSE [advance_observation(key) EXCEPT !.invalidated = IF @ = key THEN None ELSE @]

CanCapture(key) == catalog.invalidated # key /\ Advances(key)

capture(key) == [advance_observation(key) EXCEPT !.current = key]

\* (Mutant of invalidate_current: the dispatch leaves the catalog in place.)
KeepCurrent == catalog

invalidate_current ==
  [catalog EXCEPT !.current = None,
                  !.invalidated = IF catalog.current # None THEN catalog.current
                                                            ELSE catalog.observed]

\* What the routes do with an observation, an answer with legal actions, and
\* the witness of a settlement; a catalog admits operations under its lease.
observe_recovery_catalog == observe(Key(host.gen))
capture_recovery_catalog(g) == capture(Key(g))
observe_recovery_witness(wit) == observe(Key(wit))
admission == catalog.current # None /\ catalog.current.epoch = lease.epoch

-----------------------------------------------------------------------------
(* The host (external), as the recovery-control exchanges show it.  It      *)
(* refuses frames of a boot older than its fence, keeps an operation before *)
(* it admits it, and admits it at the expected generation only.  The game   *)
(* moves by operations; a caller may expect a generation that has passed.   *)

Frame(kind, o) == [kind |-> kind, op |-> o, boot |-> rows[o].boot, epoch |-> rows[o].epoch,
                   exp |-> rows[o].exp]

HostReceivesIntent(f) ==
  /\ f \in wire /\ f.kind = "intent"
  /\ wire' = wire \ {f}
  /\ host' = IF f.boot = host.fence /\ host.ops[f.op].phase = "none"
             THEN [host EXCEPT !.ops[f.op] = [phase |-> "intent", boot |-> f.boot,
                     epoch |-> f.epoch, exp |-> f.exp, wit |-> 0, ticket |-> None]]
             ELSE host
  /\ UNCHANGED <<authority, lease, rows, tickets, catalog, call, sent, spent>>

HostTicket(f, state) == [boot |-> f.boot, epoch |-> f.epoch, state |-> state]

HostReceivesDispatch(f) ==
  /\ f \in wire /\ f.kind = "dispatch"
  /\ wire' = wire \ {f}
  /\ host' = IF f.boot = host.fence /\ host.ops[f.op].phase = "intent"
             THEN IF host.gen = f.exp
                  THEN [host EXCEPT !.ops[f.op].phase = "admitted",
                                    !.ops[f.op].ticket = HostTicket(f, "ADMITTED")]
                  ELSE [host EXCEPT !.ops[f.op].phase = "rejected"]
             ELSE host
  /\ UNCHANGED <<authority, lease, rows, tickets, catalog, call, sent, spent>>

\* The game thread executes an admitted operation or turns it down; the
\* effect's record follows, or is lost when the host dies in between.
HostMoves(o, from, to, gen, wit, state) ==
  /\ host.ops[o].phase \in from
  /\ host' = [host EXCEPT !.gen = gen, !.ops[o].phase = to, !.ops[o].wit = wit,
                          !.ops[o].ticket.state = state]
  /\ UNCHANGED <<authority, lease, rows, tickets, catalog, call, wire, sent, spent>>

HostExecutes(o) ==
  /\ host.gen < MaxGen
  /\ HostMoves(o, {"admitted"}, "executed", host.gen + 1, host.gen + 1, "EXECUTING")
HostSettles(o) ==
  HostMoves(o, {"executed"}, "settled", host.gen, host.ops[o].wit, "SETTLED")
HostRejects(o) == HostMoves(o, {"admitted"}, "rejected", host.gen, 0, "REJECTED")
HostLosesTrack(o) ==
  HostMoves(o, {"admitted", "executed"}, "lost", host.gen, host.ops[o].wit, "UNKNOWN")

\* What the host says of an operation: the state, the ticket, the witness.
\* Only a reconciliation re-observes the effect of an operation it lost.
HostRecord(o, reconciling) ==
  LET h == host.ops[o]
  IN [state |-> CASE h.phase = "intent" -> "INTENT_RECORDED"
                  [] h.phase \in {"admitted", "executed"} -> "ACCEPTED"
                  [] h.phase = "settled" -> "SETTLED"
                  [] h.phase = "rejected" -> "REJECTED"
                  [] h.phase = "lost" -> "UNKNOWN"
                  [] OTHER -> "NOT_FOUND",
      ticket |-> h.ticket,
      wit |-> IF h.phase = "settled" \/ (h.phase = "lost" /\ reconciling) THEN h.wit ELSE 0]

\* The answer is about the operation as it was recorded.
host_operation_identity_matches(o) ==
  host.ops[o].boot = rows[o].boot /\ host.ops[o].epoch = rows[o].epoch

-----------------------------------------------------------------------------
(* Boots and leases, as far as operations depend on them.                   *)

start_boot(inc) ==
  /\ authority.boot < MaxBoot
  /\ authority' = [boot |-> authority.boot + 1, inc |-> inc, ready |-> FALSE]
  /\ lease' = [lease EXCEPT !.live = FALSE]
  /\ rows' = Rotated

\* The bootstrap route: the catalog in memory is left alone.
Bootstrap(inc) ==
  /\ call = Idle
  /\ start_boot(inc)
  /\ UNCHANGED <<tickets, catalog, call, wire, host, sent, spent>>

\* The process dies, wherever it is, and a new one opens the store.
Restart(inc) ==
  /\ start_boot(inc)
  /\ catalog' = EmptyCatalog /\ call' = Idle /\ spent' = {}
  /\ UNCHANGED <<tickets, wire, host, sent>>

\* The host fences the boot; its answer may be lost.
HostFence ==
  /\ call = Idle /\ ~authority.ready
  /\ host' = [host EXCEPT !.fence = authority.boot]
  /\ authority' \in {authority, [authority EXCEPT !.ready = TRUE]}
  /\ UNCHANGED <<lease, rows, tickets, catalog, call, wire, sent, spent>>

\* A lease is granted and installed at the host; it ends by expiry or
\* revocation, also while a handler waits for the host.
GrantLease ==
  /\ call = Idle /\ authority.ready /\ ~lease.live /\ lease.epoch < MaxEpoch
  /\ lease' = [epoch |-> lease.epoch + 1, live |-> TRUE]
  /\ UNCHANGED <<authority, rows, tickets, catalog, call, wire, host, sent, spent>>

EndLease ==
  /\ lease.live
  /\ lease' = [lease EXCEPT !.live = FALSE]
  /\ UNCHANGED <<authority, rows, tickets, catalog, call, wire, host, sent, spent>>

-----------------------------------------------------------------------------
(* Intent and dispatch.                                                     *)

\* recovery_ops_intent: the caller names the generation it expects.
Intent(o, g) ==
  /\ call = Idle /\ ensure_context
  /\ g <= host.gen
  /\ CanRecord(o)
  /\ rows' = record_intent(o, g)
  /\ sent' = [sent EXCEPT ![o] = 0]
  /\ UNCHANGED <<authority, lease, tickets, catalog, call, wire, host, spent>>

forward_recovery_control(kind, o) == wire \cup {Frame(kind, o)}

\* forward_recovery_operation up to the host's answer to the intent frame.
\* The catalog is spent before the outcome is known.
ForwardIntent(o, v3) ==
  /\ MayMark(o)
  /\ rows' = mark_dispatched(o)
  /\ catalog' = invalidate_current
  /\ spent' = IF catalog.current = None THEN spent ELSE spent \cup {catalog.current}
  /\ wire' = forward_recovery_control("intent", o)
  /\ call' = [kind |-> "intent", op |-> o, v3 |-> v3, reply |-> None]
  /\ UNCHANGED <<authority, lease, tickets, host, sent>>

\* recovery_ops_dispatch, and recovery_v3_dispatch for an operation that is
\* recorded already.  In every other state of the row both only replay it.
Dispatch(o, v3) ==
  /\ call = Idle /\ Recorded(o) /\ ~rows[o].archived
  /\ ForwardIntent(o, v3)

\* recovery_v3_dispatch of a new operation: the catalog admits it, and the
\* intent is a transaction of its own.
V3Dispatch(o) ==
  /\ call = Idle /\ ensure_context
  /\ admission
  /\ CanRecord(o)
  /\ rows' = record_intent(o, catalog.current.gen)
  /\ sent' = [sent EXCEPT ![o] = 0]
  /\ call' = [kind |-> "mark", op |-> o, v3 |-> TRUE, reply |-> None]
  /\ UNCHANGED <<authority, lease, tickets, catalog, wire, host, spent>>

V3Marks ==
  /\ call.kind = "mark"
  /\ IF MayMark(call.op) THEN ForwardIntent(call.op, TRUE)
     ELSE /\ call' = Idle
          /\ UNCHANGED <<authority, lease, rows, tickets, catalog, wire, host, sent, spent>>

Delivered(kind) == \A f \in wire : ~(f.kind = kind /\ f.op = call.op)

\* The dispatch frame follows an intent the host has kept.
IntentAnswered ==
  /\ call.kind = "intent" /\ Delivered("intent")
  /\ host.ops[call.op].phase # "none"
  /\ host_operation_identity_matches(call.op)
  /\ wire' = forward_recovery_control("dispatch", call.op)
  /\ sent' = [sent EXCEPT ![call.op] = @ + 1]
  /\ call' = [call EXCEPT !.kind = "dispatch"]
  /\ UNCHANGED <<authority, lease, rows, tickets, catalog, host, spent>>

recovery_operation_unknown(o) ==
  IF CanRecordOutcome(o, "UNKNOWN", 0, 0) THEN record_outcome(o, "UNKNOWN", 0) ELSE rows

\* The exchange failed, was refused or could not be matched with the operation.
ForwardFails ==
  /\ call.kind \in {"intent", "dispatch"}
  /\ rows' = recovery_operation_unknown(call.op)
  /\ call' = Idle
  /\ UNCHANGED <<authority, lease, tickets, catalog, wire, host, sent, spent>>

\* apply_host_operation_response, first transaction: the ticket.  Refused, it
\* ends the handler and the row stays MAY_HAVE_BEEN_DISPATCHED.
DispatchAnswered ==
  /\ call.kind = "dispatch" /\ Delivered("dispatch")
  /\ LET r == HostRecord(call.op, FALSE)
     IN /\ r.state \notin {"NOT_FOUND", "INTENT_RECORDED"}
        /\ host_operation_identity_matches(call.op)
        /\ IF r.ticket = None \/ CanRecordHostTicket(call.op, r.ticket)
           THEN /\ tickets' = IF r.ticket = None THEN tickets
                              ELSE [tickets EXCEPT ![call.op] = r.ticket]
                /\ call' = [call EXCEPT !.kind = "outcome", !.reply = r]
           ELSE call' = Idle /\ UNCHANGED tickets
  /\ UNCHANGED <<authority, lease, rows, catalog, wire, host, sent, spent>>

\* A settlement needs a witness, and all but a rejection a ticket.
AnsweredState(r) ==
  IF \/ r.state = "REJECTED"
     \/ r.ticket # None /\ (r.state = "ACCEPTED" \/ (r.state = "SETTLED" /\ r.wit # 0))
  THEN r.state ELSE "UNKNOWN"

\* The second transaction: the outcome.  The witness of a settlement is an
\* observation of the game; a Runtime-v3 caller is answered from a fresh one.
OutcomeRecorded ==
  /\ call.kind = "outcome"
  /\ LET r == call.reply
         fence == IF r.ticket = None THEN 0 ELSE r.ticket.boot
         state == AnsweredState(r)
         stored == CanRecordOutcome(call.op, state, r.wit, fence)
     IN /\ rows' = IF stored THEN record_outcome(call.op, state, r.wit) ELSE rows
        /\ catalog' = IF stored /\ state = "SETTLED" THEN observe_recovery_witness(r.wit) ELSE catalog
        /\ call' = IF stored /\ call.v3 /\ state \in {"SETTLED", "REJECTED"}
                   THEN [call EXCEPT !.kind = "post"] ELSE Idle
  /\ UNCHANGED <<authority, lease, tickets, wire, host, sent, spent>>

\* The lease of the dispatch is still the one in force.
recovery_authority_current == ensure_context /\ operation_context_matches(call.op)

\* runtime_v3_post_recovery_state: the read fails, or observes the game.
PostStateRead ==
  /\ call.kind = "post"
  /\ \/ UNCHANGED <<catalog, spent>>
     \/ /\ recovery_authority_current
        /\ catalog' = observe_recovery_catalog
        /\ spent' = spent \ {Key(host.gen)}
  /\ call' = Idle
  /\ UNCHANGED <<authority, lease, rows, tickets, wire, host, sent>>

-----------------------------------------------------------------------------
(* Lookup and reconciliation.                                               *)

\* recovery_ops_lookup reads; recovery_ops_reconcile needs the current fence.
\* Neither needs a lease, and both ask the host about any recorded operation.
\* The exchange changes nothing at the host, so a request and what follows
\* its answer, up to the first transaction, are one step.
Asks(o, kind) ==
  /\ call = Idle /\ Recorded(o)
  /\ kind = "reconcile" => recovery_ready

\* The row becomes UNKNOWN whatever it was, unless it is terminal.
recovery_ops_unknown(o) ==
  IF CanRecordOutcome(o, "UNKNOWN", 0, 0) THEN record_outcome(o, "UNKNOWN", 0) ELSE rows

\* No answer that can be used.
AskFails(o, kind) ==
  /\ Asks(o, kind)
  /\ rows' = recovery_ops_unknown(o)
  /\ UNCHANGED <<authority, lease, tickets, catalog, call, wire, host, sent, spent>>

\* recovery_ops_not_found: the answer is passed on, nothing is stored.
NotFound(o, kind) ==
  /\ Asks(o, kind)
  /\ HostRecord(o, kind = "reconcile").state = "NOT_FOUND"
  /\ UNCHANGED vars

\* The ticket and the witness of the evidence belong to the operation.
parse_historical_host_ticket(o, t) == t.boot = rows[o].boot /\ t.epoch = rows[o].epoch
parse_historical_host_witness(o, wit) == wit > rows[o].exp

\* A witness comes with a ticket, a settlement with both, an acceptance with
\* no witness.
validate_host_operation(o, r) ==
  /\ host_operation_identity_matches(o)
  /\ r.ticket # None => parse_historical_host_ticket(o, r.ticket)
  /\ r.wit # 0 => r.ticket # None /\ parse_historical_host_witness(o, r.wit)
  /\ r.state = "SETTLED" => r.wit # 0
  /\ r.state = "ACCEPTED" => r.wit = 0

\* persist_host_evidence, first transaction.  A refused ticket ends it.
EvidenceArrives(o, kind) ==
  /\ Asks(o, kind)
  /\ LET r == HostRecord(o, kind = "reconcile")
     IN /\ r.state # "NOT_FOUND"
        /\ validate_host_operation(o, r)
        /\ r.ticket # None => CanRecordHistoricalTicket(o, r.ticket)
        /\ tickets' = IF r.ticket = None THEN tickets ELSE [tickets EXCEPT ![o] = r.ticket]
        /\ call' = [kind |-> kind, op |-> o, v3 |-> FALSE, reply |-> r]
  /\ UNCHANGED <<authority, lease, rows, catalog, wire, host, sent, spent>>

\* (Mutant of EvidenceState: what the host lost track of did not happen.)
EvidenceLostIsRejected(r, reconciling) ==
  IF reconciling /\ r.wit # 0 THEN "RECONCILED"
  ELSE IF r.state \in {"INTENT_RECORDED", "UNKNOWN"} THEN "REJECTED" ELSE r.state

\* The state the evidence stands for.  A host that only kept the intent, or
\* lost track, answers UNKNOWN.
EvidenceState(r, reconciling) ==
  IF reconciling /\ r.wit # 0 THEN "RECONCILED"
  ELSE IF r.state = "INTENT_RECORDED" THEN "UNKNOWN" ELSE r.state

\* An UNKNOWN row is closed by a reconciliation only.
PersistedState(o, r, reconciling) ==
  LET state == EvidenceState(r, reconciling)
  IN IF rows[o].state = "UNKNOWN" /\ state # "RECONCILED" THEN "UNKNOWN" ELSE state

\* The second transaction.  A terminal row keeps the state it has.
EvidencePersisted ==
  /\ call.kind \in {"lookup", "reconcile"}
  /\ LET r == call.reply
         state == PersistedState(call.op, r, call.kind = "reconcile")
         fence == IF r.ticket = None THEN 0 ELSE r.ticket.boot
     IN rows' = IF /\ rows[call.op].state \in Terminal => state = rows[call.op].state
                   /\ CanRecordOutcome(call.op, state, r.wit, fence)
                THEN record_outcome(call.op, state, r.wit) ELSE rows
  /\ call' = Idle
  /\ UNCHANGED <<authority, lease, tickets, catalog, wire, host, sent, spent>>

-----------------------------------------------------------------------------
(* Reads of the game through the Runtime-v3 route, and the archive.         *)

\* A state or reobserve answer shows the game as it is.
ObserveState ==
  /\ call = Idle /\ lease.live
  /\ catalog' = observe_recovery_catalog
  /\ spent' = spent \ {Key(host.gen)}
  /\ UNCHANGED <<authority, lease, rows, tickets, call, wire, host, sent>>

\* A legal-actions answer may have been prepared before the game moved.
CaptureLegalActions(g) ==
  /\ call = Idle /\ lease.live
  /\ g <= host.gen /\ CanCapture(Key(g))
  /\ catalog' = capture_recovery_catalog(g)
  /\ UNCHANGED <<authority, lease, rows, tickets, call, wire, host, sent, spent>>

\* archive_resolved_before: the record stays, and so does its ticket.
Archive(o) ==
  /\ call = Idle /\ Recorded(o) /\ ~rows[o].archived /\ rows[o].state \in Terminal
  /\ rows' = [rows EXCEPT ![o].archived = TRUE]
  /\ UNCHANGED <<authority, lease, tickets, catalog, call, wire, host, sent, spent>>

Next ==
  \/ \E inc \in Incarnations : Bootstrap(inc) \/ Restart(inc)
  \/ HostFence \/ GrantLease \/ EndLease
  \/ \E o \in Ops, g \in 1..MaxGen : Intent(o, g)
  \/ \E o \in Ops, v3 \in BOOLEAN : Dispatch(o, v3)
  \/ \E o \in Ops : V3Dispatch(o)
  \/ V3Marks \/ IntentAnswered \/ ForwardFails \/ DispatchAnswered \/ OutcomeRecorded
  \/ PostStateRead
  \/ \E o \in Ops, kind \in {"lookup", "reconcile"} :
       AskFails(o, kind) \/ NotFound(o, kind) \/ EvidenceArrives(o, kind)
  \/ EvidencePersisted
  \/ ObserveState
  \/ \E g \in 1..MaxGen : CaptureLegalActions(g)
  \/ \E o \in Ops : Archive(o)
  \/ \E f \in wire : HostReceivesIntent(f) \/ HostReceivesDispatch(f)
  \/ \E o \in Ops : HostExecutes(o) \/ HostSettles(o) \/ HostRejects(o) \/ HostLosesTrack(o)

Spec == Init /\ [][Next]_vars

-----------------------------------------------------------------------------
(* Properties.                                                              *)

\* The shape of the store, the memory and the host.
TypeOK ==
  /\ authority \in [boot : 1..MaxBoot, inc : Incarnations, ready : BOOLEAN]
  /\ lease \in [epoch : 0..MaxEpoch, live : BOOLEAN]
  /\ \A o \in Ops : rows[o] = None \/
       rows[o] \in [boot : 1..MaxBoot, inc : Incarnations, epoch : 1..MaxEpoch,
                    exp : 1..MaxGen, state : Unresolved \cup Terminal, wit : 0..MaxGen,
                    archived : BOOLEAN]
  /\ \A o \in Ops : tickets[o] = None \/
       tickets[o] \in [boot : 1..MaxBoot, epoch : 1..MaxEpoch, state : TicketStates]
  /\ call.kind = "idle" <=> call = Idle
  /\ \A o \in Ops : host.ops[o].phase \in
       {"none", "intent", "admitted", "executed", "settled", "rejected", "lost"}

\* No operation is sent to the host for execution twice, through either
\* route, by retries, lost answers, new leases or new boots.
DispatchedOnce == \A o \in Ops : sent[o] <= 1

\* An operation can still change the game: it is on its way to the host's
\* game thread, or waits there.
MayTakeEffect(o) ==
  \/ \E f \in wire : f.op = o /\ f.kind = "dispatch"
  \/ call.op = o /\ call.kind \in {"mark", "intent"}
  \/ host.ops[o].phase = "admitted"

\* Of the operations of one incarnation at most one can still take effect,
\* however uncertain the gateway is about the earlier ones.
OneInFlight ==
  \A o, p \in Ops : MayTakeEffect(o) /\ MayTakeEffect(p) /\ rows[o].inc = rows[p].inc => o = p

\* What the store says of a finished operation is what the host did: a settled
\* or reconciled one took effect, with the witness stored; a rejected one did
\* not and cannot any more.
OutcomeTruthful ==
  \A o \in Ops : Recorded(o) =>
    /\ rows[o].state \in {"SETTLED", "RECONCILED"} =>
         host.ops[o].wit # 0 /\ rows[o].wit = host.ops[o].wit
    /\ rows[o].state = "REJECTED" => host.ops[o].wit = 0 /\ ~MayTakeEffect(o)

\* However the import of an answer was cut short, the store still accepts the
\* evidence of an operation the host has settled: its ticket and its witness.
SettlementImportable ==
  \A o \in Ops :
    Recorded(o) /\ rows[o].state \in Unresolved /\ host.ops[o].phase = "settled" =>
      LET r == HostRecord(o, TRUE)
      IN /\ CanRecordHistoricalTicket(o, r.ticket)
         /\ valid_transition(rows[o].state, "RECONCILED")
         /\ r.wit > rows[o].exp

\* A catalog that a dispatch used up is not restored by a late legal-actions
\* answer: it admits operations again only after the game was observed there.
SpentIsNotRestored == catalog.current \notin spent
=============================================================================
