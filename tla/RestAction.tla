---------------------------- MODULE RestAction ----------------------------
(* The rest-action forwarder: a relay that remembers, in memory only, which *)
(* operations it has forwarded and which selections the mod has opened, so  *)
(* that it lets through only actions of a catalog the mod has published and *)
(* accepts only answers that fit one.  Both memories are bounded.           *)
(*                                                                          *)
(* A catalog is its generation, lease and number of choices made: which     *)
(* choice was made, and the identities of the choices, are left out.  A     *)
(* request is an operation's action and generation; the same operation with *)
(* another request is refused.  Requests are served one at a time; while    *)
(* one waits for its answer the mod goes on with what it has accepted.      *)

EXTENDS Integers, FiniteSets

CONSTANTS
  Operations,                 \* operation identifiers
  Sels,                       \* selection identifiers; the mod reuses them
  MAX_OPERATION_BINDINGS, MAX_SELECTOR_ADMISSIONS,
  Required,                   \* choices a selection needs
  Nothing,
  MaxGen, MaxLeases, MaxLag    \* bounds

ASSUME RestActionConfig ==
  /\ IsFiniteSet(Operations) /\ IsFiniteSet(Sels) /\ Nothing \notin Operations \cup Sels
  /\ {MAX_OPERATION_BINDINGS, MAX_SELECTOR_ADMISSIONS, Required} \subseteq Nat \ {0}
  /\ {MaxGen, MaxLeases, MaxLag} \subseteq Nat

VARIABLES
  operation_bindings, selector_admissions, selector_reservations,
  held_lease, \* the lease requests are admitted under
  dispatch,   \* the dispatch that waits for its answer
  game,       \* external: generation, open selection, choices made
  receipts,   \* external: what the mod answers for an operation
  closed,     \* history: the last catalog of a selection that was completed
  used        \* the operation identifiers the callers have used

memory == <<operation_bindings, selector_admissions, selector_reservations>>
rest_vars == <<memory, held_lease, dispatch, game, receipts, closed, used>>

\* What the forwarder keeps, and what it reads of requests and answers.
Kinds == {"smith", "heal", "select", "confirm", "cancel"}
RequestSet == [kind : Kinds, sel : Sels \cup {Nothing}, gen : Nat, lease : Nat]
Catalogs == [gen : Nat, lease : Nat, chosen : Nat]
Contexts == [sel : Sels, catalog : Catalogs]
Statuses == {"Pending", "Accepted", "Unknown", "Settled", "Rejected", "Cancelled"}
Bindings == [request : RequestSet, status : Statuses,
             context : Contexts \cup {Nothing}, completed : Contexts \cup {Nothing}]
Receipts == [request : RequestSet, status : {"Accepted", "Settled", "Rejected", "Cancelled"},
             kind : {"requested", "progressed", "completed", "option", "none"},
             sel : Sels \cup {Nothing}, after : Nat, chosen : Nat]

\* Nothing is told apart from every record.
ASSUME NothingIsNoEntry ==
  Nothing \notin RequestSet \cup Catalogs \cup Contexts \cup Bindings \cup Receipts

NoDispatch == [op |-> Nothing, request |-> Nothing]
Catalog(gen, l, chosen) == [gen |-> gen, lease |-> l, chosen |-> chosen]

RestInit ==
  /\ operation_bindings = [o \in Operations |-> Nothing]
  /\ selector_admissions = [s \in Sels |-> Nothing]
  /\ selector_reservations = {}
  /\ held_lease = 1 /\ dispatch = NoDispatch
  /\ game = [gen |-> 1, sel |-> Nothing, chosen |-> 0]
  /\ receipts = [o \in Operations |-> Nothing]
  /\ closed = [s \in Sels |-> Nothing] /\ used = {}

-----------------------------------------------------------------------------
(* Operation bindings.                                                      *)

is_terminal(status) == status \in {"Settled", "Rejected", "Cancelled"}

Bound == {o \in Operations : operation_bindings[o] # Nothing}
TerminalBound == {o \in Bound : is_terminal(operation_bindings[o].status)}
Admitted == {s \in Sels : selector_admissions[s] # Nothing}

NewBinding(r) ==
  [request |-> r, status |-> "Pending",
   context |-> IF r.sel = Nothing \/ selector_admissions[r.sel] = Nothing THEN Nothing
               ELSE [sel |-> r.sel, catalog |-> selector_admissions[r.sel]],
   completed |-> Nothing]

\* A binding is kept at the expense of one that is terminal: the first in the
\* order of the identifiers, so any.
retain_operation_binding(o, r) ==
  IF Cardinality(Bound) < MAX_OPERATION_BINDINGS
  THEN operation_bindings' = [operation_bindings EXCEPT ![o] = NewBinding(r)]
  ELSE \E t \in TerminalBound :
         operation_bindings' = [operation_bindings EXCEPT ![t] = Nothing, ![o] = NewBinding(r)]

\* (Mutant of CanReserve: only selections that are open count.)
CanReserveBesideOthers == Cardinality(Admitted) < MAX_SELECTOR_ADMISSIONS

\* Room for one more selection, those that may still be opened included.
CanReserve ==
  Cardinality(Admitted) + Cardinality(selector_reservations) < MAX_SELECTOR_ADMISSIONS

request_needs_selector_reservation(r) == r.kind = "smith"

\* An action of a selection is one of the catalog that is current.
action_admitted(r) ==
  \/ r.kind \in {"smith", "heal"}
  \/ /\ r.sel \in Admitted
     /\ selector_admissions[r.sel].lease = r.lease /\ selector_admissions[r.sel].gen = r.gen
     /\ r.kind = "select" => selector_admissions[r.sel].chosen < Required
     /\ r.kind = "confirm" => selector_admissions[r.sel].chosen = Required

-----------------------------------------------------------------------------
(* Requests.                                                                *)

\* The generations a caller may have seen last (bound: MaxLag).
Seen == {g \in 1..game.gen : game.gen - g <= MaxLag}

Requests ==
  [kind : {"smith", "heal"}, sel : {Nothing}, gen : Seen, lease : {held_lease}]
    \cup [kind : {"select", "confirm", "cancel"}, sel : Sels, gen : Seen, lease : {held_lease}]

\* validate_request of a dispatch: a replay of a bound operation goes through
\* as it is, a new operation is bound before it is forwarded.  A caller uses an
\* identifier for one operation.
Dispatch(o, r) ==
  /\ dispatch = NoDispatch
  /\ \/ o \in Bound /\ operation_bindings[o].request = r /\ UNCHANGED <<memory, used>>
     \/ /\ o \notin used /\ used' = used \cup {o} /\ action_admitted(r)
        /\ request_needs_selector_reservation(r) => CanReserve
        /\ retain_operation_binding(o, r)
        /\ selector_reservations' = selector_reservations
             \cup (IF request_needs_selector_reservation(r) THEN {o} ELSE {})
        /\ UNCHANGED selector_admissions
  /\ dispatch' = [op |-> o, request |-> r]
  /\ UNCHANGED <<held_lease, game, receipts, closed>>

-----------------------------------------------------------------------------
(* Answers.                                                                 *)

\* (Mutant of admissions: answers are held against the current catalogs only.)
CurrentAdmissions(o) == selector_admissions

\* The catalogs an answer is held against: the one the operation was admitted
\* with comes first, then the one its selection was completed with.
admissions(o) ==
  LET b == operation_bindings[o]
  IN [s \in Sels |-> IF b.context # Nothing /\ b.context.sel = s THEN b.context.catalog
                     ELSE IF b.completed # Nothing /\ b.completed.sel = s THEN b.completed.catalog
                     ELSE selector_admissions[s]]

selector_admission_generation_and_progress(a, v, reconciling) ==
  LET after == a.gen = v.after /\ a.chosen = v.chosen
      before == a.gen = v.request.gen /\ a.chosen + 1 = v.chosen
  IN IF v.kind = "requested" THEN after ELSE before \/ (reconciling /\ after)

\* A catalog that was already seen cannot be rewritten.
selector_valid(v, a, reconciling) ==
  IF a = Nothing THEN v.kind = "requested"
  ELSE /\ a.lease = v.request.lease
       /\ selector_admission_generation_and_progress(a, v, reconciling)
       /\ a.gen = v.after => a.chosen = v.chosen

completed_selection_valid(v, a) ==
  a # Nothing /\ a.lease = v.request.lease /\ a.gen = v.request.gen /\ a.chosen <= v.chosen

transition_generations(v) == v.request.gen < v.after

\* reconciliation_binding_valid, and what a dispatch compares with its request:
\* the answer is about the request that is bound, under the current lease.
BindingValid(o, v) ==
  /\ o \in Bound
  /\ v.request = operation_bindings[o].request /\ v.request.lease = held_lease

response_valid(o, v, reconciling) ==
  /\ BindingValid(o, v)
  /\ v.status = "Settled" =>
       /\ transition_generations(v)
       /\ v.kind \in {"requested", "progressed"} =>
            selector_valid(v, admissions(o)[v.sel], reconciling)
       /\ v.kind = "completed" => completed_selection_valid(v, admissions(o)[v.sel])

\* (Mutant of completed_selector_blocks: completions leave no mark.)
NothingBlocks(s, a) == FALSE

completed_selector_blocks(s, a) ==
  \E b \in {operation_bindings[o] : o \in Bound} :
    b.completed # Nothing /\ b.completed.sel = s /\ b.completed.catalog.lease = a.lease
      /\ a.gen <= b.completed.catalog.gen

should_advance(cur, a, reconciling) ==
  IF cur = Nothing THEN TRUE
  ELSE IF cur.lease = a.lease THEN a.gen > cur.gen ELSE ~reconciling

WithContext(o, s, catalog) ==
  IF operation_bindings[o].context # Nothing THEN operation_bindings
  ELSE [operation_bindings EXCEPT ![o] =
          [@ EXCEPT !.context = [sel |-> s, catalog |-> catalog]]]

WithStatus(bindings, o, status) == [bindings EXCEPT ![o] = [@ EXCEPT !.status = status]]

\* A selection was opened or has progressed.
RecordCatalog(o, v, reconciling) ==
  LET a == Catalog(v.after, v.request.lease, v.chosen)
      cur == selector_admissions[v.sel]
      room == Cardinality(Admitted) < MAX_SELECTOR_ADMISSIONS \/ v.sel \in Admitted
  IN IF completed_selector_blocks(v.sel, a)
     THEN /\ selector_reservations' = selector_reservations \ {o}
          /\ operation_bindings' = WithStatus(operation_bindings, o, v.status)
          /\ UNCHANGED selector_admissions
     ELSE IF room
     THEN /\ selector_reservations' = selector_reservations \ {o}
          /\ operation_bindings' =
               WithStatus(WithContext(o, v.sel, IF cur = Nothing THEN a ELSE cur), o, v.status)
          /\ selector_admissions' =
               IF should_advance(cur, a, reconciling)
               THEN [selector_admissions EXCEPT ![v.sel] = a] ELSE selector_admissions
     ELSE /\ operation_bindings' = WithStatus(operation_bindings, o, v.status)
          /\ UNCHANGED <<selector_admissions, selector_reservations>>

\* Bindings that get the mark of a completion: those of the selection, under
\* its lease, and the operation itself.
Related(o, p, s, catalog) ==
  LET b == operation_bindings[p]
      of(x) == x # Nothing /\ x.sel = s /\ x.catalog.lease = catalog.lease
  IN \/ p = o
     \/ /\ of(b.context) \/ of(b.completed) \/ (b.request.sel = s /\ b.request.lease = catalog.lease)
        /\ b.completed # Nothing => b.completed.catalog.lease = catalog.lease

\* A selection was completed: its slot is free, unless the answer is a late
\* one and the slot is another's.
RecordCompletion(o, v) ==
  LET cur == selector_admissions[v.sel]
      matches == /\ cur # Nothing /\ cur.lease = v.request.lease /\ cur.gen = v.request.gen
                 /\ operation_bindings[o].context = [sel |-> v.sel, catalog |-> cur]
      mark == [sel |-> v.sel, catalog |-> cur]
  IN /\ selector_reservations' = selector_reservations \ {o}
     /\ IF matches
        THEN /\ selector_admissions' = [selector_admissions EXCEPT ![v.sel] = Nothing]
             /\ operation_bindings' = WithStatus(
                  [p \in Operations |-> IF p \in Bound /\ Related(o, p, v.sel, cur)
                                        THEN [operation_bindings[p] EXCEPT !.completed = mark]
                                        ELSE operation_bindings[p]], o, v.status)
             /\ closed' = [closed EXCEPT ![v.sel] = cur]
        ELSE /\ operation_bindings' = WithStatus(operation_bindings, o, v.status)
             /\ UNCHANGED <<selector_admissions, closed>>

\* Any other answer: a final one gives the reservation back.
RecordOther(o, v) ==
  /\ operation_bindings' = WithStatus(operation_bindings, o, v.status)
  /\ selector_reservations' = IF is_terminal(v.status) THEN selector_reservations \ {o}
                              ELSE selector_reservations
  /\ UNCHANGED selector_admissions

\* An answer of the mod that is accepted.
validate_response(o, reconciling) ==
  LET v == receipts[o]
  IN /\ v # Nothing /\ response_valid(o, v, reconciling)
     /\ IF v.status = "Settled" /\ v.kind \in {"requested", "progressed"}
        THEN RecordCatalog(o, v, reconciling) /\ UNCHANGED closed
        ELSE IF v.status = "Settled" /\ v.kind = "completed" THEN RecordCompletion(o, v)
        ELSE RecordOther(o, v) /\ UNCHANGED closed

DispatchAnswered ==
  /\ dispatch # NoDispatch /\ validate_response(dispatch.op, FALSE)
  /\ dispatch' = NoDispatch
  /\ UNCHANGED <<held_lease, game, receipts, used>>

\* A reconciliation waits for its answer too, but nothing it depends on but the
\* receipt can change meanwhile.  One for an operation that is not bound is
\* forwarded as well, and its answer is refused.
ReconcileAnswered(o) ==
  /\ dispatch = NoDispatch /\ validate_response(o, TRUE)
  /\ UNCHANGED <<held_lease, dispatch, game, receipts, used>>

\* No answer to a dispatch, or one that is refused.
ResponseLost ==
  /\ dispatch # NoDispatch
  /\ dispatch' = NoDispatch
  /\ UNCHANGED <<memory, held_lease, game, receipts, closed, used>>

\* The mod answers that it does not know.
UnknownAnswer(o) ==
  /\ dispatch.op \in {Nothing, o}
  /\ o \in Bound /\ operation_bindings[o].request.lease = held_lease
  /\ operation_bindings' = WithStatus(operation_bindings, o, "Unknown")
  /\ dispatch' = NoDispatch
  /\ UNCHANGED <<selector_admissions, selector_reservations, held_lease, game, receipts,
                 closed, used>>

-----------------------------------------------------------------------------
(* The mod, modelled from the answers the forwarder accepts.  It carries an *)
(* operation out once and keeps its receipt.                                *)

Receipt(r, status, kind, s, chosen) ==
  [request |-> r, status |-> status, kind |-> kind, sel |-> s, after |-> game.gen + 1,
   chosen |-> chosen]

Moves(s, chosen) == game' = [gen |-> game.gen + 1, sel |-> s, chosen |-> chosen]

\* What an operation does at the generation it names.  A selection identifier
\* is used again only when the forwarder has no catalog under it.
ModApplies(o, r) ==
  \/ /\ r.kind = "smith" /\ game.sel = Nothing
     /\ \E s \in Sels :
          /\ s \notin Admitted
          /\ Moves(s, 0)
          /\ receipts' = [receipts EXCEPT ![o] = Receipt(r, "Settled", "requested", s, 0)]
  \/ /\ r.kind = "heal" /\ game.sel = Nothing
     /\ Moves(Nothing, 0)
     /\ receipts' = [receipts EXCEPT ![o] = Receipt(r, "Settled", "option", Nothing, 0)]
  \/ /\ r.kind = "select" /\ game.sel = r.sel /\ game.chosen < Required
     /\ Moves(r.sel, game.chosen + 1)
     /\ receipts' = [receipts EXCEPT ![o] =
                       Receipt(r, "Settled", "progressed", r.sel, game.chosen + 1)]
  \/ /\ r.kind \in {"select", "confirm"} /\ game.sel = r.sel
     /\ game.chosen + (IF r.kind = "select" THEN 1 ELSE 0) = Required
     /\ Moves(Nothing, 0)
     /\ receipts' = [receipts EXCEPT ![o] = Receipt(r, "Settled", "completed", r.sel, Required)]
  \/ /\ r.kind = "cancel" /\ game.sel = r.sel
     /\ Moves(Nothing, 0)
     /\ receipts' = [receipts EXCEPT ![o] = Receipt(r, "Cancelled", "none", Nothing, 0)]

\* The request arrives: it is carried out, or accepted to be carried out
\* later, or refused because the game has moved on.
ModReceives ==
  LET o == dispatch.op
      r == dispatch.request
  IN /\ dispatch # NoDispatch /\ receipts[o] = Nothing
     /\ \/ game.gen < MaxGen /\ game.gen = r.gen /\ ModApplies(o, r)
        \/ receipts' = [receipts EXCEPT ![o] = Receipt(r, "Accepted", "none", Nothing, 0)]
           /\ UNCHANGED game
        \/ /\ game.gen # r.gen
           /\ receipts' = [receipts EXCEPT ![o] = Receipt(r, "Rejected", "none", Nothing, 0)]
           /\ UNCHANGED game
     /\ UNCHANGED <<memory, held_lease, dispatch, closed, used>>

ModSettles(o) ==
  LET v == receipts[o]
      r == v.request
  IN /\ v # Nothing /\ v.status = "Accepted"
     /\ \/ game.gen < MaxGen /\ game.gen = r.gen /\ ModApplies(o, r)
        \/ /\ game.gen # r.gen
           /\ receipts' = [receipts EXCEPT ![o] = Receipt(r, "Rejected", "none", Nothing, 0)]
           /\ UNCHANGED game
     /\ UNCHANGED <<memory, held_lease, dispatch, closed, used>>

-----------------------------------------------------------------------------

NewLease ==
  /\ dispatch = NoDispatch /\ held_lease < MaxLeases
  /\ held_lease' = held_lease + 1
  /\ UNCHANGED <<memory, dispatch, game, receipts, closed, used>>

\* A restart forgets everything.
GatewayRestarts ==
  /\ held_lease < MaxLeases
  /\ operation_bindings' = [o \in Operations |-> Nothing]
  /\ selector_admissions' = [s \in Sels |-> Nothing]
  /\ selector_reservations' = {}
  /\ held_lease' = held_lease + 1 /\ dispatch' = NoDispatch
  /\ closed' = [s \in Sels |-> Nothing]
  /\ UNCHANGED <<game, receipts, used>>

RestNext ==
  \/ \E o \in Operations, r \in Requests : Dispatch(o, r)
  \/ \E o \in Operations : ReconcileAnswered(o) \/ UnknownAnswer(o) \/ ModSettles(o)
  \/ DispatchAnswered \/ ResponseLost \/ ModReceives
  \/ NewLease \/ GatewayRestarts

RestSpec == RestInit /\ [][RestNext]_rest_vars

-----------------------------------------------------------------------------
(* Properties.                                                              *)

\* A late reconciliation does not open a selection again that was completed:
\* what it admits is newer than the catalog of the completion, whichever of the
\* bindings that carry the mark were evicted.
CompletedStaysClosed ==
  [][dispatch = NoDispatch =>
       \A s \in Sels :
         /\ selector_admissions'[s] \notin {Nothing, selector_admissions[s]}
         /\ closed[s] # Nothing
         /\ closed[s].lease = selector_admissions'[s].lease
         => selector_admissions'[s].gen > closed[s].gen]_rest_vars

\* An answer that opens a selection always finds its slot: those in use and
\* those promised to operations under way never exceed the bound, and every
\* promise belongs to an operation that is remembered and not finished.
SlotsArePromised ==
  /\ Cardinality(Admitted) + Cardinality(selector_reservations) <= MAX_SELECTOR_ADMISSIONS
  /\ selector_reservations \subseteq Bound \ TerminalBound

\* A truthful answer is never taken for a malformed one: whatever was evicted,
\* replayed, reconciled or overtaken meanwhile, what the mod answers for an
\* operation of the current lease is accepted, by a reconciliation and by a
\* repeated dispatch.
TruthIsAccepted ==
  \A o \in Bound : /\ receipts[o] # Nothing
                  /\ receipts[o].request = operation_bindings[o].request
                  /\ operation_bindings[o].request.lease = held_lease
    => \A reconciling \in BOOLEAN : response_valid(o, receipts[o], reconciling)

=============================================================================
