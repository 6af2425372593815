--------------------- MODULE RecoveryOperationsProofs ---------------------
(* Proofs about the durable operations, for every set of operations and of  *)
(* incarnations, every capacity and every number of boots, leases and game  *)
(* generations.                                                             *)
EXTENDS RecoveryOperations, TLAPS

-----------------------------------------------------------------------------
(* The inductive invariant.                                                 *)

Phases == {"none", "intent", "admitted", "executed", "settled", "rejected", "lost"}
HostOps ==
  [phase : Phases, boot : Nat, epoch : Nat, exp : Nat, wit : Nat,
   ticket : AdmissionTickets \cup {None}]
Frames ==
  [kind : {"intent", "dispatch"}, op : Ops, boot : Nat, epoch : Nat, exp : Nat]
CallKinds ==
  {"idle", "mark", "intent", "dispatch", "outcome", "post", "lookup", "reconcile"}
Replies ==
  [state : {"INTENT_RECORDED", "ACCEPTED", "SETTLED", "REJECTED", "UNKNOWN"},
   ticket : AdmissionTickets \cup {None}, wit : Nat]

Typed ==
  /\ authority \in [boot : Nat, inc : Incarnations, ready : BOOLEAN]
  /\ lease \in [epoch : Nat, live : BOOLEAN]
  /\ rows \in [Ops -> OperationRows \cup {None}]
  /\ tickets \in [Ops -> AdmissionTickets \cup {None}]
  /\ catalog \in [current : CatalogKeys \cup {None}, observed : CatalogKeys \cup {None},
                  invalidated : CatalogKeys \cup {None}]
  /\ call \in [kind : CallKinds, op : Ops \cup {None}, v3 : BOOLEAN,
               reply : Replies \cup {None}]
  /\ wire \subseteq Frames
  /\ host \in [fence : Nat, gen : Nat, ops : [Ops -> HostOps]]
  /\ sent \in [Ops -> Nat]
  /\ spent \subseteq CatalogKeys

\* Nothing left the gateway for the operation.
Untouched(o) ==
  /\ sent[o] = 0 /\ host.ops[o].phase = "none" /\ tickets[o] = None
  /\ \A f \in wire : f.op # o

\* Frames carry what was recorded, and a dispatch frame is written once,
\* after the host kept the intent and before it sees the dispatch.
WireSound(o) ==
  /\ sent[o] \in {0, 1}
  /\ (Recorded(o) /\ rows[o].state # "INTENT_RECORDED") \/ Untouched(o)
  /\ \A f \in wire : f.op = o =>
       /\ f.boot = rows[o].boot /\ f.epoch = rows[o].epoch /\ f.exp = rows[o].exp
       /\ f.kind = "dispatch" => sent[o] = 1 /\ host.ops[o].phase = "intent"

\* The host has the operation as it was recorded, an effect only past the
\* expected generation, and the ticket of its phase.
HostSound(o) ==
  LET h == host.ops[o]
  IN /\ h.phase # "none" =>
          h.boot = rows[o].boot /\ h.epoch = rows[o].epoch /\ h.exp = rows[o].exp
     /\ h.phase \notin {"none", "intent"} => sent[o] = 1
     /\ h.phase \in {"none", "intent", "admitted", "rejected"} => h.wit = 0
     /\ h.phase \in {"executed", "settled"} => h.wit > h.exp
     /\ h.phase = "lost" => h.wit = 0 \/ h.wit > h.exp
     /\ h.phase = "admitted" => host.gen >= h.exp
     /\ h.wit <= host.gen
     /\ h.phase \in {"none", "intent"} => h.ticket = None
     /\ h.phase \in {"admitted", "executed", "settled"} => h.ticket # None
     /\ h.ticket # None =>
          /\ h.ticket.boot = rows[o].boot /\ h.ticket.epoch = rows[o].epoch
          /\ h.phase = "admitted" => h.ticket.state = "ADMITTED"
          /\ h.phase = "executed" => h.ticket.state = "EXECUTING"
          /\ h.phase = "settled" => h.ticket.state = "SETTLED"

\* A stored ticket is one the host has had.
TicketSound(o) ==
  tickets[o] # None =>
    /\ tickets[o].boot = rows[o].boot /\ tickets[o].epoch = rows[o].epoch
    /\ host.ops[o].phase \in {"admitted", "executed", "settled", "rejected", "lost"}
    /\ host.ops[o].phase = "admitted" => tickets[o].state = "ADMITTED"
    /\ host.ops[o].phase = "executed" => tickets[o].state \in {"ADMITTED", "EXECUTING"}
    /\ host.ops[o].phase = "settled" =>
         tickets[o].state \in {"ADMITTED", "EXECUTING", "SETTLED"}

\* A terminal row is what the host cannot take back.
StoreSound(o) ==
  Recorded(o) =>
    /\ rows[o].state \in {"SETTLED", "RECONCILED"} =>
         /\ host.ops[o].phase \in {"settled", "lost"}
         /\ host.ops[o].wit # 0 /\ rows[o].wit = host.ops[o].wit
    /\ rows[o].state = "REJECTED" => host.ops[o].phase = "rejected"

OpSound(o) == WireSound(o) /\ HostSound(o) /\ TicketSound(o) /\ StoreSound(o)

\* An incarnation has one unresolved operation.
OneUnresolved ==
  \A o, p \in Ops :
    /\ Recorded(o) /\ Recorded(p) /\ rows[o].inc = rows[p].inc
    /\ rows[o].state \in Unresolved /\ rows[p].state \in Unresolved
    => o = p

\* What a handler read of the host before its transaction still holds.
ReplySound(r, o) ==
  /\ r \in Replies
  /\ r.state = "REJECTED" => host.ops[o].phase = "rejected"
  /\ r.wit # 0 => host.ops[o].phase \in {"settled", "lost"} /\ r.wit = host.ops[o].wit

CallSound ==
  IF call.kind = "idle" THEN call.op = None
  ELSE /\ call.op \in Ops /\ Recorded(call.op)
       /\ call.kind = "mark" => rows[call.op].state = "INTENT_RECORDED"
       /\ call.kind = "intent" =>
            rows[call.op].state = "MAY_HAVE_BEEN_DISPATCHED" /\ sent[call.op] = 0
       /\ call.kind \in {"dispatch", "outcome"} =>
            rows[call.op].state = "MAY_HAVE_BEEN_DISPATCHED"
       /\ call.kind \in {"lookup", "reconcile"} =>
            rows[call.op].state # "INTENT_RECORDED"
       /\ call.kind \in {"outcome", "lookup", "reconcile"} =>
            ReplySound(call.reply, call.op)

\* The game was observed past a catalog that was used up, or is still where
\* the catalog was, which then is barred.
Beyond(k, key) == k.epoch > key.epoch \/ (k.epoch = key.epoch /\ k.gen > key.gen)
SpentSound(k) ==
  /\ k.gen <= host.gen
  /\ catalog.observed # None
  /\ \/ Beyond(catalog.observed, k)
     \/ catalog.observed = k /\ catalog.invalidated = k /\ catalog.current = None

CatalogSound ==
  /\ catalog.current # None => catalog.current = catalog.observed
  /\ catalog.observed # None =>
       catalog.observed.epoch <= lease.epoch /\ catalog.observed.gen <= host.gen
  /\ \A k \in spent : SpentSound(k)

\* The witness a handler is about to import is later than any catalog used up.
WitnessSound ==
  call.kind \in {"intent", "dispatch", "outcome"} /\ host.ops[call.op].wit # 0 =>
    \A k \in spent : k.gen < host.ops[call.op].wit

IInv ==
  /\ Typed
  /\ \A o \in Ops : OpSound(o)
  /\ OneUnresolved
  /\ CallSound
  /\ CatalogSound
  /\ WitnessSound

-----------------------------------------------------------------------------
(* What an update of one operation leaves of the others.                    *)

HostRecords == [fence : Nat, gen : Nat, ops : [Ops -> HostOps]]

\* HostMoves, taken apart.
MovedTo(n, h, o, gen, to, wit, state) ==
  /\ n \in HostRecords /\ n.gen = gen /\ n.fence = h.fence
  /\ \A p \in Ops : p # o => n.ops[p] = h.ops[p]
  /\ n.ops[o].phase = to /\ n.ops[o].wit = wit
  /\ n.ops[o].boot = h.ops[o].boot /\ n.ops[o].epoch = h.ops[o].epoch
  /\ n.ops[o].exp = h.ops[o].exp
  /\ n.ops[o].ticket \in AdmissionTickets
  /\ n.ops[o].ticket.boot = h.ops[o].ticket.boot
  /\ n.ops[o].ticket.epoch = h.ops[o].ticket.epoch
  /\ n.ops[o].ticket.state = state

LEMMA HostMovesFacts ==
  ASSUME NEW h \in HostRecords, NEW o \in Ops, NEW gen \in Nat,
         NEW to \in Phases, NEW wit \in Nat, NEW state \in TicketStates,
         h.ops[o].ticket \in AdmissionTickets, NEW n
  PROVE  n = [h EXCEPT !.gen = gen, !.ops[o].phase = to, !.ops[o].wit = wit,
                       !.ops[o].ticket.state = state]
         => MovedTo(n, h, o, gen, to, wit, state)
<1>1. PICK h1 : h1 = [h EXCEPT !.gen = gen]
  OBVIOUS
<1>2. PICK h2 : h2 = [h1 EXCEPT !.ops[o].phase = to]
  OBVIOUS
<1>3. PICK h3 : h3 = [h2 EXCEPT !.ops[o].wit = wit]
  OBVIOUS
<1>4. n = [h EXCEPT !.gen = gen, !.ops[o].phase = to, !.ops[o].wit = wit,
                    !.ops[o].ticket.state = state]
      => n = [h3 EXCEPT !.ops[o].ticket.state = state]
  BY <1>1, <1>2, <1>3, Zenon
<1>5. h1 \in HostRecords /\ h1.gen = gen /\ h1.fence = h.fence /\ h1.ops = h.ops
  BY <1>1 DEF HostRecords
<1>6. h.ops[o] \in HostOps
  BY DEF HostRecords
<1>7. PICK x \in HostOps : x = [h.ops[o] EXCEPT !.phase = to]
  BY <1>6 DEF HostOps
<1>8. /\ h2 \in HostRecords /\ h2.gen = gen /\ h2.fence = h.fence
      /\ h2.ops[o] = x
      /\ \A p \in Ops : p # o => h2.ops[p] = h.ops[p]
  <2>1. h2 = [h1 EXCEPT !.ops[o] = x]
    BY <1>2, <1>5, <1>7
  <2> QED
    BY <1>5, <2>1 DEF HostRecords
<1>9. PICK y \in HostOps : y = [x EXCEPT !.wit = wit]
  BY DEF HostOps
<1>10. /\ h3 \in HostRecords /\ h3.gen = gen /\ h3.fence = h.fence
       /\ h3.ops[o] = y
       /\ \A p \in Ops : p # o => h3.ops[p] = h.ops[p]
  <2>1. h3 = [h2 EXCEPT !.ops[o] = y]
    BY <1>3, <1>8, <1>9
  <2> QED
    BY <1>8, <2>1 DEF HostRecords
<1>11. PICK t : t = [h.ops[o].ticket EXCEPT !.state = state]
  OBVIOUS
<1>12. /\ t \in AdmissionTickets /\ t.boot = h.ops[o].ticket.boot
       /\ t.epoch = h.ops[o].ticket.epoch /\ t.state = state
  BY <1>11 DEF AdmissionTickets
<1>13. /\ y.phase = to /\ y.wit = wit /\ y.boot = h.ops[o].boot
       /\ y.epoch = h.ops[o].epoch /\ y.exp = h.ops[o].exp
       /\ y.ticket = h.ops[o].ticket
  BY <1>6, <1>7, <1>9 DEF HostOps
<1>14. PICK z \in HostOps : z = [y EXCEPT !.ticket = t]
  BY <1>12 DEF HostOps
<1>15. /\ z.phase = to /\ z.wit = wit /\ z.boot = h.ops[o].boot
       /\ z.epoch = h.ops[o].epoch /\ z.exp = h.ops[o].exp /\ z.ticket = t
  BY <1>13, <1>14 DEF HostOps
<1>16. ASSUME n = [h3 EXCEPT !.ops[o].ticket.state = state]
       PROVE  MovedTo(n, h, o, gen, to, wit, state)
  <2>1. n = [h3 EXCEPT !.ops[o].ticket = t]
    BY <1>10, <1>11, <1>13, <1>16
  <2>2. n = [h3 EXCEPT !.ops[o] = z]
    BY <1>10, <1>14, <2>1
  <2>3. h3 \in HostRecords
    BY <1>10
  <2>4. /\ n \in HostRecords /\ n.gen = h3.gen /\ n.fence = h3.fence
        /\ n.ops[o] = z
        /\ \A p \in Ops : p # o => n.ops[p] = h3.ops[p]
    BY <2>2, <2>3 DEF HostRecords
  <2> QED
    BY <1>10, <1>12, <1>15, <2>4 DEF MovedTo
<1> QED
  BY <1>4, <1>16, Zenon

\* A row whose outcome is stored keeps the rest.
StoredOutcome(n, r, o, state, wit) ==
  /\ n \in [Ops -> OperationRows \cup {None}]
  /\ \A p \in Ops : p # o => n[p] = r[p]
  /\ n[o] # None /\ n[o].state = state /\ n[o].wit = wit
  /\ n[o].boot = r[o].boot /\ n[o].epoch = r[o].epoch
  /\ n[o].exp = r[o].exp /\ n[o].inc = r[o].inc

LEMMA OutcomeFacts ==
  ASSUME NEW r \in [Ops -> OperationRows \cup {None}], NEW o \in Ops, r[o] # None,
         NEW state \in Unresolved \cup Terminal, NEW wit \in Nat, NEW n
  PROVE  n = [r EXCEPT ![o].state = state, ![o].wit = wit]
         => StoredOutcome(n, r, o, state, wit)
<1>1. PICK x : x = [r[o] EXCEPT !.state = state]
  OBVIOUS
<1>2. PICK m : m = [r EXCEPT ![o].state = state]
  OBVIOUS
<1>3. r[o] \in OperationRows
  OBVIOUS
<1>4. /\ x \in OperationRows /\ x.state = state /\ x.boot = r[o].boot
      /\ x.epoch = r[o].epoch /\ x.exp = r[o].exp /\ x.inc = r[o].inc
  BY <1>1, <1>3 DEF OperationRows
<1>5. /\ m \in [Ops -> OperationRows \cup {None}] /\ m[o] = x
      /\ \A p \in Ops : p # o => m[p] = r[p]
  BY <1>1, <1>2, <1>4
<1>6. PICK y : y = [x EXCEPT !.wit = wit]
  OBVIOUS
<1>7. /\ y \in OperationRows /\ y.state = state /\ y.boot = r[o].boot
      /\ y.epoch = r[o].epoch /\ y.exp = r[o].exp /\ y.inc = r[o].inc
      /\ y.wit = wit
  BY <1>4, <1>6 DEF OperationRows
<1>8. y # None
  BY <1>7, RecoveryNothing
<1>9. ASSUME n = [m EXCEPT ![o].wit = wit]
      PROVE  StoredOutcome(n, r, o, state, wit)
  <2>1. n = [m EXCEPT ![o] = y]
    BY <1>5, <1>6, <1>9
  <2> QED
    BY <1>5, <1>7, <1>8, <2>1 DEF StoredOutcome
<1>10. n = [r EXCEPT ![o].state = state, ![o].wit = wit]
       => n = [m EXCEPT ![o].wit = wit]
  BY <1>2, Zenon
<1> QED
  BY <1>9, <1>10, Zenon

LEMMA StateFacts ==
  ASSUME NEW r \in [Ops -> OperationRows \cup {None}], NEW o \in Ops, r[o] # None,
         NEW state \in Unresolved \cup Terminal, NEW n
  PROVE  n = [r EXCEPT ![o].state = state]
         => StoredOutcome(n, r, o, state, r[o].wit)
<1>1. PICK x : x = [r[o] EXCEPT !.state = state]
  OBVIOUS
<1>2. r[o] \in OperationRows
  OBVIOUS
<1>3. /\ x \in OperationRows /\ x.state = state /\ x.boot = r[o].boot
      /\ x.epoch = r[o].epoch /\ x.exp = r[o].exp /\ x.inc = r[o].inc
      /\ x.wit = r[o].wit
  BY <1>1, <1>2 DEF OperationRows
<1>4. x # None
  BY <1>3, RecoveryNothing
<1>5. ASSUME n = [r EXCEPT ![o].state = state]
      PROVE  StoredOutcome(n, r, o, state, r[o].wit)
  <2>1. n = [r EXCEPT ![o] = x]
    BY <1>1, <1>5
  <2> QED
    BY <1>3, <1>4, <2>1 DEF StoredOutcome
<1> QED
  BY <1>5

\* The host admits a dispatch, or refuses it.
PhaseAt(n, h, o, to, t) ==
  /\ n \in HostRecords /\ n.gen = h.gen /\ n.fence = h.fence
  /\ \A p \in Ops : p # o => n.ops[p] = h.ops[p]
  /\ n.ops[o].phase = to /\ n.ops[o].wit = h.ops[o].wit
  /\ n.ops[o].boot = h.ops[o].boot /\ n.ops[o].epoch = h.ops[o].epoch
  /\ n.ops[o].exp = h.ops[o].exp /\ n.ops[o].ticket = t

LEMMA HostAdmitsFacts ==
  ASSUME NEW h \in HostRecords, NEW o \in Ops, NEW t \in AdmissionTickets, NEW n
  PROVE  /\ n = [h EXCEPT !.ops[o].phase = "admitted", !.ops[o].ticket = t]
            => PhaseAt(n, h, o, "admitted", t)
         /\ n = [h EXCEPT !.ops[o].phase = "rejected"]
            => PhaseAt(n, h, o, "rejected", h.ops[o].ticket)
<1>1. h.ops[o] \in HostOps
  BY DEF HostRecords
<1>2. ASSUME NEW to \in {"admitted", "rejected"}, NEW m,
             m = [h EXCEPT !.ops[o].phase = to]
      PROVE  PhaseAt(m, h, o, to, h.ops[o].ticket)
  <2>1. PICK x \in HostOps : x = [h.ops[o] EXCEPT !.phase = to]
    BY <1>1 DEF HostOps, Phases
  <2>2. m = [h EXCEPT !.ops[o] = x]
    BY <1>2, <2>1
  <2>3. /\ x.phase = to /\ x.wit = h.ops[o].wit
        /\ x.boot = h.ops[o].boot /\ x.epoch = h.ops[o].epoch
        /\ x.exp = h.ops[o].exp /\ x.ticket = h.ops[o].ticket
    BY <1>1, <2>1 DEF HostOps
  <2> QED
    BY <2>2, <2>3 DEF HostRecords, PhaseAt
<1>3. PICK m : m = [h EXCEPT !.ops[o].phase = "admitted"]
  OBVIOUS
<1>4. /\ m \in HostRecords /\ m.gen = h.gen /\ m.fence = h.fence
      /\ \A p \in Ops : p # o => m.ops[p] = h.ops[p]
      /\ m.ops[o].phase = "admitted" /\ m.ops[o].wit = h.ops[o].wit
      /\ m.ops[o].boot = h.ops[o].boot /\ m.ops[o].epoch = h.ops[o].epoch
      /\ m.ops[o].exp = h.ops[o].exp
  BY <1>2, <1>3 DEF PhaseAt
<1>5. ASSUME n = [m EXCEPT !.ops[o].ticket = t]
      PROVE  PhaseAt(n, h, o, "admitted", t)
  <2>1. m.ops[o] \in HostOps
    BY <1>4 DEF HostRecords
  <2>2. PICK x \in HostOps : x = [m.ops[o] EXCEPT !.ticket = t]
    BY <2>1 DEF HostOps
  <2>3. n = [m EXCEPT !.ops[o] = x]
    BY <1>5, <2>2
  <2>4. /\ x.phase = "admitted" /\ x.wit = h.ops[o].wit
        /\ x.boot = h.ops[o].boot /\ x.epoch = h.ops[o].epoch
        /\ x.exp = h.ops[o].exp /\ x.ticket = t
    BY <1>4, <2>1, <2>2 DEF HostOps
  <2> QED
    BY <1>4, <2>3, <2>4 DEF HostRecords, PhaseAt
<1>6. n = [h EXCEPT !.ops[o].phase = "admitted", !.ops[o].ticket = t]
      => n = [m EXCEPT !.ops[o].ticket = t]
  BY <1>3, Zenon
<1> QED
  BY <1>2, <1>5, <1>6, Zenon

-----------------------------------------------------------------------------
(* What keeps the invariant of an operation.                                *)

\* The gateway moved the row on, and neither the host nor the wire.
LEMMA OpMoves ==
  ASSUME NEW p \in Ops, OpSound(p), Typed,
         Recorded(p)' <=> Recorded(p),
         rows'[p].boot = rows[p].boot, rows'[p].epoch = rows[p].epoch,
         rows'[p].exp = rows[p].exp,
         rows'[p].state = "INTENT_RECORDED" => rows[p].state = "INTENT_RECORDED",
         sent'[p] = sent[p], tickets'[p] = tickets[p],
         host'.ops[p] = host.ops[p], host'.gen \in Nat, host'.gen >= host.gen,
         \A f \in wire' : f.op = p => f \in wire,
         StoreSound(p)'
  PROVE  OpSound(p)'
<1>1. WireSound(p)'
  BY DEF OpSound, WireSound, Untouched
<1>2. HostSound(p)'
  <2>1. /\ host.gen \in Nat /\ host.ops[p].exp \in Nat
        /\ host.ops[p].wit \in Nat
    BY DEF Typed, HostOps
  <2> QED
    BY <2>1 DEF OpSound, HostSound
<1>3. TicketSound(p)'
  BY DEF OpSound, TicketSound
<1> QED
  BY <1>1, <1>2, <1>3 DEF OpSound

LEMMA OpKept ==
  ASSUME NEW p \in Ops, OpSound(p), Typed, rows'[p] = rows[p],
         sent'[p] = sent[p], tickets'[p] = tickets[p],
         host'.ops[p] = host.ops[p], host'.gen \in Nat, host'.gen >= host.gen,
         \A f \in wire' : f.op = p => f \in wire
  PROVE  OpSound(p)'
<1>1. StoreSound(p)' /\ (Recorded(p)' <=> Recorded(p))
  BY DEF OpSound, StoreSound, Recorded
<1> QED
  BY <1>1, OpMoves

\* Rows that did not change, or left the unresolved ones.
LEMMA UnresolvedKept ==
  ASSUME OneUnresolved,
         \A p \in Ops : rows'[p] # None /\ rows'[p].state \in Unresolved =>
           /\ rows[p] # None /\ rows[p].state \in Unresolved
           /\ rows'[p].inc = rows[p].inc
  PROVE  OneUnresolved'
  BY DEF OneUnresolved, Recorded

-----------------------------------------------------------------------------
(* What keeps the invariant of the catalog.                                 *)

CatalogRecords ==
  [current : CatalogKeys \cup {None}, observed : CatalogKeys \cup {None},
   invalidated : CatalogKeys \cup {None}]
Moved(key) ==
  /\ catalog.observed # None
  /\ catalog.observed.epoch # key.epoch \/ key.gen > catalog.observed.gen

LEMMA AdvanceFacts ==
  ASSUME catalog \in CatalogRecords, NEW key \in CatalogKeys, NEW n,
         n = advance_observation(key)
  PROVE  /\ n \in CatalogRecords /\ n.observed = key
         /\ n.current = IF Moved(key) THEN None ELSE catalog.current
         /\ n.invalidated = catalog.invalidated
<1>1. PICK c : c = IF Moved(key) THEN None ELSE catalog.current
  OBVIOUS
<1>2. c \in CatalogKeys \cup {None}
  BY <1>1 DEF CatalogRecords
<1>3. PICK m : m = [catalog EXCEPT !.current = c]
  OBVIOUS
<1>4. /\ m \in CatalogRecords /\ m.current = c
      /\ m.invalidated = catalog.invalidated
  BY <1>2, <1>3 DEF CatalogRecords
<1>5. n = [m EXCEPT !.observed = key]
  BY <1>1, <1>3, Zenon DEF advance_observation, Moved
<1>6. /\ n \in CatalogRecords /\ n.current = c /\ n.observed = key
      /\ n.invalidated = catalog.invalidated
  BY <1>4, <1>5 DEF CatalogRecords
<1> QED
  BY <1>1, <1>6

LEMMA ObserveFacts ==
  ASSUME catalog \in CatalogRecords, NEW key \in CatalogKeys, Advances(key)
  PROVE  /\ observe(key) \in CatalogRecords /\ observe(key).observed = key
         /\ observe(key).current = IF Moved(key) THEN None ELSE catalog.current
         /\ observe(key).invalidated =
              IF catalog.invalidated = key THEN None ELSE catalog.invalidated
<1>1. PICK n : n = advance_observation(key)
  OBVIOUS
<1>2. /\ n \in CatalogRecords /\ n.observed = key
      /\ n.current = IF Moved(key) THEN None ELSE catalog.current
      /\ n.invalidated = catalog.invalidated
  BY <1>1, AdvanceFacts
<1>3. PICK v \in CatalogKeys \cup {None} :
        v = IF catalog.invalidated = key THEN None ELSE catalog.invalidated
  BY DEF CatalogRecords
<1>4. observe(key) = [n EXCEPT !.invalidated = v]
  BY <1>1, <1>2, <1>3 DEF observe
<1> HIDE DEF observe
<1> QED
  BY <1>2, <1>3, <1>4 DEF CatalogRecords

LEMMA CaptureFacts ==
  ASSUME catalog \in CatalogRecords, NEW key \in CatalogKeys
  PROVE  /\ capture(key) \in CatalogRecords /\ capture(key).observed = key
         /\ capture(key).current = key
         /\ capture(key).invalidated = catalog.invalidated
<1>1. PICK n : n = advance_observation(key)
  OBVIOUS
<1>2. /\ n \in CatalogRecords /\ n.observed = key
      /\ n.invalidated = catalog.invalidated
  BY <1>1, AdvanceFacts
<1>3. capture(key) = [n EXCEPT !.current = key]
  BY <1>1 DEF capture
<1> QED
  BY <1>2, <1>3 DEF CatalogRecords

LEMMA InvalidateFacts ==
  ASSUME catalog \in CatalogRecords
  PROVE  /\ invalidate_current \in CatalogRecords
         /\ invalidate_current.current = None
         /\ invalidate_current.observed = catalog.observed
         /\ invalidate_current.invalidated =
              IF catalog.current # None THEN catalog.current ELSE catalog.observed
<1>1. PICK m : m = [catalog EXCEPT !.current = None]
  OBVIOUS
<1>2. m \in CatalogRecords /\ m.current = None /\ m.observed = catalog.observed
  BY <1>1 DEF CatalogRecords
<1>3. PICK v \in CatalogKeys \cup {None} :
        v = IF catalog.current # None THEN catalog.current ELSE catalog.observed
  BY DEF CatalogRecords
<1>4. invalidate_current = [m EXCEPT !.invalidated = v]
  BY <1>1, <1>3, Zenon DEF invalidate_current
<1> QED
  BY <1>2, <1>3, <1>4 DEF CatalogRecords

\* Time alone does not change what is spent.
LEMMA CatalogKept ==
  ASSUME IInv, UNCHANGED <<catalog, spent>>,
         lease'.epoch \in Nat, lease'.epoch >= lease.epoch,
         host'.gen \in Nat, host'.gen >= host.gen
  PROVE  CatalogSound'
<1>1. /\ catalog \in CatalogRecords /\ spent \subseteq CatalogKeys
      /\ lease.epoch \in Nat /\ host.gen \in Nat
  BY DEF IInv, Typed, CatalogRecords
<1>2. ASSUME catalog.observed # None
      PROVE  /\ catalog.observed.epoch <= lease'.epoch
             /\ catalog.observed.gen <= host'.gen
  <2>1. catalog.observed.epoch \in Nat /\ catalog.observed.gen \in Nat
    BY <1>1, <1>2 DEF CatalogRecords, CatalogKeys
  <2>2. catalog.observed.epoch <= lease.epoch /\ catalog.observed.gen <= host.gen
    BY <1>2 DEF IInv, CatalogSound
  <2> QED
    BY <1>1, <2>1, <2>2
<1>3. ASSUME NEW k \in spent PROVE SpentSound(k)'
  <2>1. SpentSound(k) /\ k.gen \in Nat
    BY <1>1 DEF IInv, CatalogSound, CatalogKeys
  <2>2. k.gen <= host'.gen
    BY <1>1, <2>1 DEF SpentSound
  <2> QED
    BY <2>1, <2>2 DEF SpentSound
<1> QED
  BY <1>2, <1>3 DEF IInv, CatalogSound

\* An observation clears the key it is made at, and only bars what is behind.
LEMMA ObserveSound ==
  ASSUME IInv, NEW g \in Nat, g <= host.gen, catalog' = observe(Key(g)),
         \/ spent' = spent \ {Key(g)}
         \/ spent' = spent /\ Key(g) \notin spent,
         UNCHANGED lease, host'.gen = host.gen
  PROVE  CatalogSound' /\ catalog' \in CatalogRecords
<1> DEFINE key == Key(g)
<1>1. /\ catalog \in CatalogRecords /\ spent \subseteq CatalogKeys
      /\ lease.epoch \in Nat /\ host.gen \in Nat
  BY DEF IInv, Typed, CatalogRecords
<1>2. key \in CatalogKeys /\ key.epoch = lease.epoch /\ key.gen = g /\ key # None
  BY <1>1, RecoveryNothing DEF Key, CatalogKeys
<1>3. spent' \subseteq spent /\ key \notin spent'
  OBVIOUS
<1> HIDE DEF key
<1>4. CASE ~Advances(key)
  <2>1. catalog' = catalog
    BY <1>4 DEF observe, key
  <2>2. \A k \in spent' : SpentSound(k)'
    <3>1. \A k \in spent' : SpentSound(k)
      BY <1>3 DEF IInv, CatalogSound
    <3> QED
      BY <2>1, <3>1 DEF SpentSound
  <2> QED
    BY <1>1, <2>1, <2>2 DEF IInv, CatalogSound
<1>5. CASE Advances(key)
  <2>1. /\ catalog' \in CatalogRecords /\ catalog'.observed = key
        /\ catalog'.current = IF Moved(key) THEN None ELSE catalog.current
        /\ catalog'.invalidated =
             IF catalog.invalidated = key THEN None ELSE catalog.invalidated
    BY <1>1, <1>2, <1>5, ObserveFacts DEF key
  <2>2. catalog'.current # None => catalog'.current = key
    <3>1. ASSUME catalog'.current # None PROVE catalog'.current = key
      <4>1. /\ ~Moved(key) /\ catalog.current = catalog.observed
            /\ catalog'.current = catalog.observed
            /\ catalog.observed # None /\ catalog.observed \in CatalogKeys
        BY <1>1, <2>1, <3>1 DEF IInv, CatalogSound, CatalogRecords
      <4>2. /\ catalog.observed.epoch = key.epoch
            /\ ~(key.gen > catalog.observed.gen)
            /\ key.gen >= catalog.observed.gen
        BY <1>5, <4>1 DEF Moved, Advances
      <4>3. catalog.observed.gen = key.gen
        BY <1>2, <4>1, <4>2 DEF CatalogKeys
      <4> QED
        BY <1>2, <4>1, <4>2, <4>3 DEF CatalogKeys
    <3> QED
      BY <3>1
  <2>3. ASSUME NEW k \in spent' PROVE SpentSound(k)'
    <3>1. /\ k \in CatalogKeys /\ SpentSound(k) /\ k # key
          /\ k.epoch \in Nat /\ k.gen \in Nat
      BY <1>1, <1>3 DEF IInv, CatalogSound, CatalogKeys
    <3>2. /\ catalog.observed \in CatalogKeys /\ catalog.observed # None
          /\ catalog.observed.epoch \in Nat /\ catalog.observed.gen \in Nat
          /\ catalog.observed.epoch <= lease.epoch
      BY <1>1, <3>1 DEF SpentSound, CatalogRecords, CatalogKeys, IInv, CatalogSound
    <3>3. catalog.observed = key \/ Beyond(key, catalog.observed)
      <4>1. CASE catalog.observed.epoch = key.epoch
        <5>1. key.gen >= catalog.observed.gen
          BY <1>5, <3>2, <4>1 DEF Advances
        <5>2. CASE key.gen = catalog.observed.gen
          BY <1>2, <3>2, <4>1, <5>2 DEF CatalogKeys
        <5>3. CASE key.gen # catalog.observed.gen
          BY <1>2, <3>2, <4>1, <5>1, <5>3 DEF Beyond
        <5> QED
          BY <5>2, <5>3
      <4>2. CASE catalog.observed.epoch # key.epoch
        BY <1>1, <1>2, <3>2, <4>2 DEF Beyond
      <4> QED
        BY <4>1, <4>2
    <3>4. Beyond(key, k)
      <4>1. catalog.observed = k \/ Beyond(catalog.observed, k)
        BY <3>1 DEF SpentSound
      <4> QED
        BY <1>1, <1>2, <3>1, <3>2, <3>3, <4>1 DEF Beyond
    <3> QED
      BY <1>2, <2>1, <3>1, <3>4 DEF SpentSound
  <2> QED
    BY <1>1, <1>2, <2>1, <2>2, <2>3 DEF CatalogSound
<1> QED
  BY <1>4, <1>5

\* A late legal-actions answer does not bring back a key that was used up.
LEMMA CaptureSound ==
  ASSUME IInv, NEW g \in Nat, g <= host.gen, CanCapture(Key(g)),
         catalog' = capture(Key(g)), UNCHANGED <<spent, lease, host>>
  PROVE  CatalogSound' /\ catalog' \in CatalogRecords
<1> DEFINE key == Key(g)
<1>1. /\ catalog \in CatalogRecords /\ spent \subseteq CatalogKeys
      /\ lease.epoch \in Nat /\ host.gen \in Nat
  BY DEF IInv, Typed, CatalogRecords
<1>2. key \in CatalogKeys /\ key.epoch = lease.epoch /\ key.gen = g /\ key # None
  BY <1>1, RecoveryNothing DEF Key, CatalogKeys
<1>3. catalog.invalidated # key /\ Advances(key)
  BY DEF CanCapture
<1>4. /\ catalog' \in CatalogRecords /\ catalog'.observed = key
      /\ catalog'.current = key
  BY <1>1, <1>2, CaptureFacts
<1> HIDE DEF key
<1>5. ASSUME NEW k \in spent PROVE SpentSound(k)'
  <2>1. /\ k \in CatalogKeys /\ SpentSound(k)
        /\ k.epoch \in Nat /\ k.gen \in Nat
    BY <1>1 DEF IInv, CatalogSound, CatalogKeys
  <2>2. /\ catalog.observed \in CatalogKeys /\ catalog.observed # None
        /\ catalog.observed.epoch \in Nat /\ catalog.observed.gen \in Nat
        /\ catalog.observed.epoch <= lease.epoch
    BY <1>1, <2>1 DEF SpentSound, CatalogRecords, CatalogKeys, IInv, CatalogSound
  <2>3. CASE Beyond(catalog.observed, k)
    <3>1. catalog.observed.epoch = key.epoch => key.gen >= catalog.observed.gen
      BY <1>3, <2>2 DEF Advances
    <3>2. Beyond(key, k)
      BY <1>1, <1>2, <2>1, <2>2, <2>3, <3>1 DEF Beyond
    <3> QED
      BY <1>2, <1>4, <2>1, <3>2 DEF SpentSound
  <2>4. CASE catalog.observed = k /\ catalog.invalidated = k
    <3>1. k # key
      BY <1>3, <2>4
    <3>2. k.epoch = key.epoch => key.gen >= k.gen
      BY <1>3, <2>2, <2>4 DEF Advances
    <3>3. k.epoch = key.epoch => key.gen # k.gen
      BY <1>2, <2>1, <3>1 DEF CatalogKeys
    <3>4. Beyond(key, k)
      BY <1>1, <1>2, <2>1, <2>2, <2>4, <3>2, <3>3 DEF Beyond
    <3> QED
      BY <1>2, <1>4, <2>1, <3>4 DEF SpentSound
  <2> QED
    BY <2>1, <2>3, <2>4 DEF SpentSound
<1> QED
  BY <1>1, <1>2, <1>4, <1>5 DEF CatalogSound

\* A dispatch bars the catalog it uses up.
LEMMA InvalidateSound ==
  ASSUME IInv, catalog' = invalidate_current,
         spent' = IF catalog.current = None THEN spent
                  ELSE spent \cup {catalog.current},
         UNCHANGED <<lease, host>>
  PROVE  /\ CatalogSound' /\ catalog' \in CatalogRecords
         /\ spent' \subseteq CatalogKeys
<1>1. catalog \in CatalogRecords /\ spent \subseteq CatalogKeys
  BY DEF IInv, Typed, CatalogRecords
<1>2. /\ catalog' \in CatalogRecords /\ catalog'.current = None
      /\ catalog'.observed = catalog.observed
      /\ catalog'.invalidated =
           IF catalog.current # None THEN catalog.current ELSE catalog.observed
  BY <1>1, InvalidateFacts
<1>3. spent' \subseteq CatalogKeys
  BY <1>1 DEF CatalogRecords
<1>4. ASSUME NEW k \in spent' PROVE SpentSound(k)'
  <2>1. CASE k \in spent
    <3>1. SpentSound(k)
      BY <2>1 DEF IInv, CatalogSound
    <3> QED
      BY <1>2, <3>1 DEF SpentSound
  <2>2. CASE catalog.current # None /\ k = catalog.current
    <3>1. catalog.observed = k /\ catalog.observed # None /\ k.gen <= host.gen
      BY <2>2 DEF IInv, CatalogSound
    <3> QED
      BY <1>2, <2>2, <3>1 DEF SpentSound
  <2> QED
    BY <2>1, <2>2
<1> QED
  BY <1>2, <1>3, <1>4 DEF IInv, CatalogSound

-----------------------------------------------------------------------------
(* Steps that leave the rows, the wire and the host's operations alone.     *)

LEMMA OpsQuiet ==
  ASSUME IInv, UNCHANGED <<rows, tickets, wire, sent>>,
         host'.ops = host.ops, host'.gen = host.gen
  PROVE  (\A o \in Ops : OpSound(o))' /\ OneUnresolved'
<1>1. host.gen \in Nat
  BY DEF IInv, Typed
<1>2. ASSUME NEW p \in Ops PROVE OpSound(p)'
  BY <1>1, OpKept DEF IInv
<1>3. OneUnresolved'
  BY UnresolvedKept DEF IInv
<1> QED
  BY <1>2, <1>3

\* The handler ends, or is not involved.
LEMMA CallQuiet ==
  ASSUME IInv, UNCHANGED <<rows, sent>>, host'.ops = host.ops,
         call' \in {call, Idle}, spent' \subseteq spent
  PROVE  /\ CallSound' /\ WitnessSound'
         /\ call' \in [kind : CallKinds, op : Ops \cup {None}, v3 : BOOLEAN,
                       reply : Replies \cup {None}]
<1>1. /\ Idle.kind = "idle" /\ Idle.op = None
      /\ Idle \in [kind : CallKinds, op : Ops \cup {None}, v3 : BOOLEAN,
                   reply : Replies \cup {None}]
  BY DEF Idle, CallKinds
<1>2. CASE call' = Idle
  BY <1>1, <1>2 DEF CallSound, WitnessSound
<1>3. CASE call' = call
  <2>1. CallSound'
    BY <1>3 DEF IInv, CallSound, ReplySound, Recorded
  <2>2. WitnessSound'
    BY <1>3 DEF IInv, WitnessSound
  <2> QED
    BY <1>3, <2>1, <2>2 DEF IInv, Typed
<1> QED
  BY <1>2, <1>3

LEMMA HostFenceInv ==
  ASSUME IInv, HostFence
  PROVE  IInv'
<1>1. UNCHANGED <<lease, rows, tickets, catalog, call, wire, sent, spent>>
  BY DEF HostFence
<1>2. /\ host.gen \in Nat /\ lease.epoch \in Nat /\ authority.boot \in Nat
      /\ host \in HostRecords
  BY DEF IInv, Typed, HostRecords
<1>3. host' \in HostRecords /\ host'.ops = host.ops /\ host'.gen = host.gen
  BY <1>2 DEF HostFence, HostRecords
<1>4. authority' \in [boot : Nat, inc : Incarnations, ready : BOOLEAN]
  BY DEF HostFence, IInv, Typed
<1>5. (\A o \in Ops : OpSound(o))' /\ OneUnresolved'
  BY <1>1, <1>3, OpsQuiet
<1>6. CallSound' /\ WitnessSound'
  BY <1>1, <1>3, CallQuiet
<1>7. CatalogSound'
  BY <1>1, <1>2, <1>3, CatalogKept
<1>8. Typed'
  BY <1>1, <1>3, <1>4 DEF IInv, Typed, HostRecords
<1> QED
  BY <1>5, <1>6, <1>7, <1>8 DEF IInv

LEMMA LeaseInv ==
  ASSUME IInv, GrantLease \/ EndLease
  PROVE  IInv'
<1>1. UNCHANGED <<authority, rows, tickets, catalog, call, wire, host, sent, spent>>
  BY DEF GrantLease, EndLease
<1>2. lease \in [epoch : Nat, live : BOOLEAN] /\ host.gen \in Nat
  BY DEF IInv, Typed
<1>3. lease' \in [epoch : Nat, live : BOOLEAN] /\ lease'.epoch >= lease.epoch
  <2>1. lease.epoch \in Nat
    BY <1>2
  <2>2. CASE GrantLease
    <3>1. lease' = [epoch |-> lease.epoch + 1, live |-> TRUE]
      BY <2>2 DEF GrantLease
    <3> QED
      BY <2>1, <3>1
  <2>3. CASE EndLease
    <3>1. lease' = [lease EXCEPT !.live = FALSE]
      BY <2>3 DEF EndLease
    <3>2. /\ lease' \in [epoch : Nat, live : BOOLEAN]
          /\ lease'.epoch = lease.epoch
      BY <1>2, <3>1
    <3> QED
      BY <2>1, <3>2
  <2> QED
    BY <2>2, <2>3
<1>4. (\A o \in Ops : OpSound(o))' /\ OneUnresolved'
  BY <1>1, OpsQuiet
<1>5. CallSound' /\ WitnessSound'
  BY <1>1, CallQuiet
<1>6. CatalogSound'
  BY <1>1, <1>2, <1>3, CatalogKept
<1>7. Typed'
  BY <1>1, <1>3 DEF IInv, Typed
<1> QED
  BY <1>4, <1>5, <1>6, <1>7 DEF IInv

LEMMA UnchangedInv ==
  ASSUME IInv, UNCHANGED vars
  PROVE  IInv'
<1>1. /\ UNCHANGED <<authority, lease, rows, tickets, catalog>>
      /\ UNCHANGED <<call, wire, host, sent, spent>>
  BY DEF vars
<1>2. lease.epoch \in Nat /\ host.gen \in Nat
  BY DEF IInv, Typed
<1>3. (\A o \in Ops : OpSound(o))' /\ OneUnresolved'
  BY <1>1, OpsQuiet
<1>4. CallSound' /\ WitnessSound'
  BY <1>1, CallQuiet
<1>5. CatalogSound'
  BY <1>1, <1>2, CatalogKept
<1>6. Typed'
  BY <1>1 DEF IInv, Typed
<1> QED
  BY <1>3, <1>4, <1>5, <1>6 DEF IInv

\* The game is read: by a state answer, or at the end of a Runtime-v3 dispatch.
LEMMA ReadInv ==
  ASSUME IInv, ObserveState \/ PostStateRead
  PROVE  IInv'
<1>1. /\ UNCHANGED <<authority, lease, rows, tickets, wire, host, sent>>
      /\ call' \in {call, Idle}
      /\ \/ UNCHANGED <<catalog, spent>>
         \/ /\ catalog' = observe(Key(host.gen))
            /\ spent' = spent \ {Key(host.gen)}
  BY DEF ObserveState, PostStateRead, observe_recovery_catalog
<1>2. /\ lease.epoch \in Nat /\ host.gen \in Nat /\ spent \subseteq CatalogKeys
      /\ catalog \in CatalogRecords
  BY DEF IInv, Typed, CatalogRecords
<1>3. (\A o \in Ops : OpSound(o))' /\ OneUnresolved'
  BY <1>1, OpsQuiet
<1>4. spent' \subseteq spent
  BY <1>1
<1>5. /\ CallSound' /\ WitnessSound'
      /\ call' \in [kind : CallKinds, op : Ops \cup {None}, v3 : BOOLEAN,
                    reply : Replies \cup {None}]
  BY <1>1, <1>4, CallQuiet
<1>6. CatalogSound' /\ catalog' \in CatalogRecords
  <2>1. CASE UNCHANGED <<catalog, spent>>
    BY <1>1, <1>2, <2>1, CatalogKept
  <2>2. CASE /\ catalog' = observe(Key(host.gen))
             /\ spent' = spent \ {Key(host.gen)}
    BY <1>1, <1>2, <2>2, ObserveSound
  <2> QED
    BY <1>1, <2>1, <2>2
<1>7. Typed'
  BY <1>1, <1>2, <1>4, <1>5, <1>6 DEF IInv, Typed, CatalogRecords
<1> QED
  BY <1>3, <1>5, <1>6, <1>7 DEF IInv

LEMMA CaptureInv ==
  ASSUME IInv, NEW g \in 1..MaxGen, CaptureLegalActions(g)
  PROVE  IInv'
<1>1. /\ UNCHANGED <<authority, lease, rows, tickets, call, wire, host, sent>>
      /\ UNCHANGED spent
      /\ catalog' = capture(Key(g)) /\ CanCapture(Key(g)) /\ g <= host.gen
      /\ g \in Nat
  BY RecoveryConfig DEF CaptureLegalActions, capture_recovery_catalog
<1>2. (\A o \in Ops : OpSound(o))' /\ OneUnresolved'
  BY <1>1, OpsQuiet
<1>3. CallSound' /\ WitnessSound'
  BY <1>1, CallQuiet
<1>4. CatalogSound' /\ catalog' \in CatalogRecords
  BY <1>1, CaptureSound
<1>5. Typed'
  BY <1>1, <1>4 DEF IInv, Typed, CatalogRecords
<1> QED
  BY <1>2, <1>3, <1>4, <1>5 DEF IInv

-----------------------------------------------------------------------------
(* Transactions of the store.                                               *)

StoredRows == [Ops -> OperationRows \cup {None}]
CallRecords ==
  [kind : CallKinds, op : Ops \cup {None}, v3 : BOOLEAN, reply : Replies \cup {None}]

\* The handler has ended.
LEMMA CallIdle ==
  ASSUME call' = Idle
  PROVE  CallSound' /\ WitnessSound' /\ call' \in CallRecords
<1>1. Idle.kind = "idle" /\ Idle.op = None /\ Idle \in CallRecords
  BY DEF Idle, CallKinds, CallRecords
<1> QED
  BY <1>1 DEF CallSound, WitnessSound

\* Rows move on, and what becomes terminal is so at the host.
LEMMA RowsMove ==
  ASSUME IInv, UNCHANGED <<tickets, wire, host, sent>>,
         \A p \in Ops :
           /\ Recorded(p)' <=> Recorded(p)
           /\ rows'[p].boot = rows[p].boot /\ rows'[p].epoch = rows[p].epoch
           /\ rows'[p].exp = rows[p].exp /\ rows'[p].inc = rows[p].inc
           /\ rows'[p].state = "INTENT_RECORDED" => rows[p].state = "INTENT_RECORDED"
           /\ rows'[p].state \in Unresolved => rows[p].state \in Unresolved
           /\ StoreSound(p)'
  PROVE  (\A p \in Ops : OpSound(p))' /\ OneUnresolved'
<1>1. host.gen \in Nat /\ Typed
  BY DEF IInv, Typed
<1>2. ASSUME NEW p \in Ops PROVE OpSound(p)'
  <2>1. OpSound(p)
    BY DEF IInv
  <2> QED
    BY <1>1, <2>1, OpMoves
<1>3. OneUnresolved'
  <2>1. \A p \in Ops : rows'[p] # None /\ rows'[p].state \in Unresolved =>
          /\ rows[p] # None /\ rows[p].state \in Unresolved
          /\ rows'[p].inc = rows[p].inc
    BY DEF Recorded
  <2> QED
    BY <2>1, UnresolvedKept DEF IInv
<1> QED
  BY <1>2, <1>3

\* The outcome of an operation, when it is what the host did.
LEMMA OutcomeStored ==
  ASSUME IInv, NEW o \in Ops, Recorded(o),
         NEW state \in Unresolved \cup Terminal, NEW wit \in Nat,
         valid_transition(rows[o].state, state),
         state \in {"SETTLED", "RECONCILED"} =>
           /\ host.ops[o].phase \in {"settled", "lost"}
           /\ wit # 0 /\ wit = host.ops[o].wit,
         state = "REJECTED" => host.ops[o].phase = "rejected",
         rows' = record_outcome(o, state, wit),
         UNCHANGED <<tickets, wire, host, sent>>
  PROVE  /\ (\A p \in Ops : OpSound(p))' /\ OneUnresolved' /\ rows' \in StoredRows
         /\ \A p \in Ops : Recorded(p)' <=> Recorded(p)
         /\ rows'[o].state = state
<1>1. rows \in StoredRows /\ rows[o] # None
  BY DEF IInv, Typed, StoredRows, Recorded
<1>2. StoredOutcome(rows', rows, o, state, wit)
  <2>1. rows' = [rows EXCEPT ![o].state = state, ![o].wit = wit]
        => StoredOutcome(rows', rows, o, state, wit)
    BY <1>1, OutcomeFacts, Zenon DEF StoredRows
  <2> QED
    BY <2>1, Zenon DEF record_outcome
<1>3. /\ rows' \in StoredRows
      /\ \A p \in Ops : p # o => rows'[p] = rows[p]
      /\ rows'[o] # None /\ rows'[o].state = state /\ rows'[o].wit = wit
      /\ rows'[o].boot = rows[o].boot /\ rows'[o].epoch = rows[o].epoch
      /\ rows'[o].exp = rows[o].exp /\ rows'[o].inc = rows[o].inc
  BY <1>2, Zenon DEF StoredRows, StoredOutcome
<1>4. /\ state = "INTENT_RECORDED" => rows[o].state = "INTENT_RECORDED"
      /\ state \in Unresolved => rows[o].state \in Unresolved
  BY DEF valid_transition, Unresolved
<1>5. \A p \in Ops : Recorded(p)' <=> Recorded(p)
  BY <1>1, <1>3 DEF Recorded
<1>6. ASSUME NEW p \in Ops PROVE StoreSound(p)'
  <2>1. CASE p = o
    BY <1>3, <2>1 DEF StoreSound
  <2>2. CASE p # o
    BY <1>3, <1>5, <2>2 DEF IInv, OpSound, StoreSound
  <2> QED
    BY <2>1, <2>2
<1>7. ASSUME NEW p \in Ops
      PROVE  /\ rows'[p].boot = rows[p].boot /\ rows'[p].epoch = rows[p].epoch
             /\ rows'[p].exp = rows[p].exp /\ rows'[p].inc = rows[p].inc
             /\ rows'[p].state = "INTENT_RECORDED" => rows[p].state = "INTENT_RECORDED"
             /\ rows'[p].state \in Unresolved => rows[p].state \in Unresolved
  BY <1>3, <1>4
<1>8. (\A p \in Ops : OpSound(p))' /\ OneUnresolved'
  BY <1>5, <1>6, <1>7, RowsMove
<1> QED
  BY <1>3, <1>5, <1>8

\* A row that cannot be matched becomes UNKNOWN, unless it is terminal.
LEMMA UnknownStored ==
  ASSUME IInv, NEW o \in Ops, Recorded(o),
         rows' = IF CanRecordOutcome(o, "UNKNOWN", 0, 0)
                 THEN record_outcome(o, "UNKNOWN", 0) ELSE rows,
         UNCHANGED <<tickets, wire, host, sent>>
  PROVE  /\ (\A p \in Ops : OpSound(p))' /\ OneUnresolved' /\ rows' \in StoredRows
<1>1. CASE CanRecordOutcome(o, "UNKNOWN", 0, 0)
  <2>1. /\ valid_transition(rows[o].state, "UNKNOWN")
        /\ rows' = record_outcome(o, "UNKNOWN", 0)
        /\ "UNKNOWN" \in Unresolved \cup Terminal
    BY <1>1 DEF CanRecordOutcome, Unresolved
  <2> QED
    BY <2>1, OutcomeStored
<1>2. CASE ~CanRecordOutcome(o, "UNKNOWN", 0, 0)
  <2>1. rows' = rows
    BY <1>2
  <2> QED
    BY <2>1, OpsQuiet DEF IInv, Typed, StoredRows
<1> QED
  BY <1>1, <1>2

LEMMA AskFailsInv ==
  ASSUME IInv, NEW o \in Ops, NEW kind \in {"lookup", "reconcile"}, AskFails(o, kind)
  PROVE  IInv'
<1>1. /\ UNCHANGED <<authority, lease, tickets, catalog, call, wire, host, sent, spent>>
      /\ Recorded(o) /\ call' = Idle
      /\ rows' = IF CanRecordOutcome(o, "UNKNOWN", 0, 0)
                 THEN record_outcome(o, "UNKNOWN", 0) ELSE rows
  BY DEF AskFails, Asks, recovery_ops_unknown
<1>2. (\A p \in Ops : OpSound(p))' /\ OneUnresolved' /\ rows' \in StoredRows
  BY <1>1, UnknownStored
<1>3. CallSound' /\ WitnessSound'
  BY <1>1, CallIdle
<1>4. CatalogSound'
  <2>1. lease.epoch \in Nat /\ host.gen \in Nat
    BY DEF IInv, Typed
  <2> QED
    BY <1>1, <2>1, CatalogKept
<1>5. Typed'
  BY <1>1, <1>2 DEF IInv, Typed, StoredRows
<1> QED
  BY <1>2, <1>3, <1>4, <1>5 DEF IInv

LEMMA ForwardFailsInv ==
  ASSUME IInv, ForwardFails
  PROVE  IInv'
<1>1. /\ UNCHANGED <<authority, lease, tickets, catalog, wire, host, sent, spent>>
      /\ call' = Idle
      /\ rows' = IF CanRecordOutcome(call.op, "UNKNOWN", 0, 0)
                 THEN record_outcome(call.op, "UNKNOWN", 0) ELSE rows
  BY DEF ForwardFails, recovery_operation_unknown
<1>2. call.op \in Ops /\ Recorded(call.op)
  BY DEF ForwardFails, IInv, CallSound
<1>3. (\A p \in Ops : OpSound(p))' /\ OneUnresolved' /\ rows' \in StoredRows
  BY <1>1, <1>2, UnknownStored
<1>4. CallSound' /\ WitnessSound' /\ call' \in CallRecords
  BY <1>1, CallIdle
<1>5. CatalogSound'
  <2>1. lease.epoch \in Nat /\ host.gen \in Nat
    BY DEF IInv, Typed
  <2> QED
    BY <1>1, <2>1, CatalogKept
<1>6. Typed'
  BY <1>1, <1>3, <1>4 DEF IInv, Typed, StoredRows, CallRecords
<1> QED
  BY <1>3, <1>4, <1>5, <1>6 DEF IInv

\* A boot begins: what is unresolved becomes UNKNOWN.
LEMMA StartBootFacts ==
  ASSUME IInv, NEW inc \in Incarnations, start_boot(inc),
         UNCHANGED <<tickets, wire, host, sent>>
  PROVE  /\ (\A p \in Ops : OpSound(p))' /\ OneUnresolved' /\ rows' \in StoredRows
         /\ authority' \in [boot : Nat, inc : Incarnations, ready : BOOLEAN]
         /\ lease' \in [epoch : Nat, live : BOOLEAN] /\ lease'.epoch = lease.epoch
<1>1. rows \in StoredRows
  BY DEF IInv, Typed, StoredRows
<1>2. ASSUME NEW p \in Ops
      PROVE  /\ rows'[p] \in OperationRows \cup {None}
             /\ Recorded(p)' <=> Recorded(p)
             /\ rows'[p].boot = rows[p].boot /\ rows'[p].epoch = rows[p].epoch
             /\ rows'[p].exp = rows[p].exp /\ rows'[p].inc = rows[p].inc
             /\ rows'[p].state = "INTENT_RECORDED" => rows[p].state = "INTENT_RECORDED"
             /\ rows'[p].state \in Unresolved => rows[p].state \in Unresolved
             /\ StoreSound(p)'
  <2>1. CASE p \in UnresolvedRows
    <3>1. rows[p] # None /\ rows[p] \in OperationRows /\ rows[p].state \in Unresolved
      BY <1>1, <2>1 DEF UnresolvedRows, Recorded, StoredRows
    <3>2. PICK x : x = [rows[p] EXCEPT !.state = "UNKNOWN"]
      OBVIOUS
    <3>3. rows'[p] = x
      BY <2>1, <3>2 DEF start_boot, Rotated
    <3>4. /\ x \in OperationRows /\ x.state = "UNKNOWN"
          /\ x.boot = rows[p].boot /\ x.epoch = rows[p].epoch
          /\ x.exp = rows[p].exp /\ x.inc = rows[p].inc
      BY <3>1, <3>2 DEF OperationRows, Unresolved
    <3>5. x # None
      BY <3>4, RecoveryNothing
    <3> QED
      BY <3>1, <3>3, <3>4, <3>5 DEF Recorded, StoreSound
  <2>2. CASE p \notin UnresolvedRows
    <3>1. rows'[p] = rows[p]
      BY <2>2 DEF start_boot, Rotated
    <3>2. StoreSound(p)
      BY DEF IInv, OpSound
    <3> QED
      BY <1>1, <3>1, <3>2 DEF Recorded, StoreSound, StoredRows
  <2> QED
    BY <2>1, <2>2
<1>3. (\A p \in Ops : OpSound(p))' /\ OneUnresolved'
  BY <1>2, RowsMove
<1>4. rows' \in StoredRows
  <2>1. rows' = [p \in Ops |-> rows'[p]]
    BY DEF start_boot, Rotated
  <2> QED
    BY <1>2, <2>1 DEF StoredRows
<1>5. authority' \in [boot : Nat, inc : Incarnations, ready : BOOLEAN]
  <2>1. authority.boot \in Nat
    BY DEF IInv, Typed
  <2>2. authority' = [boot |-> authority.boot + 1, inc |-> inc, ready |-> FALSE]
    BY DEF start_boot
  <2> QED
    BY <2>1, <2>2
<1>6. lease' \in [epoch : Nat, live : BOOLEAN] /\ lease'.epoch = lease.epoch
  <2>1. lease \in [epoch : Nat, live : BOOLEAN]
    BY DEF IInv, Typed
  <2>2. lease' = [lease EXCEPT !.live = FALSE]
    BY DEF start_boot
  <2> QED
    BY <2>1, <2>2
<1> QED
  BY <1>3, <1>4, <1>5, <1>6

LEMMA BootstrapInv ==
  ASSUME IInv, NEW inc \in Incarnations, Bootstrap(inc)
  PROVE  IInv'
<1>1. /\ start_boot(inc) /\ call' = Idle
      /\ UNCHANGED <<tickets, catalog, call, wire, host, sent, spent>>
  BY DEF Bootstrap
<1>2. /\ (\A p \in Ops : OpSound(p))' /\ OneUnresolved' /\ rows' \in StoredRows
      /\ authority' \in [boot : Nat, inc : Incarnations, ready : BOOLEAN]
      /\ lease' \in [epoch : Nat, live : BOOLEAN] /\ lease'.epoch = lease.epoch
  BY <1>1, StartBootFacts
<1>3. CallSound' /\ WitnessSound'
  BY <1>1, CallIdle
<1>4. CatalogSound'
  <2>1. lease.epoch \in Nat /\ host.gen \in Nat
    BY DEF IInv, Typed
  <2>2. /\ lease'.epoch \in Nat /\ lease'.epoch >= lease.epoch
        /\ host'.gen \in Nat /\ host'.gen >= host.gen
    BY <1>1, <1>2, <2>1
  <2> QED
    BY <1>1, <2>2, CatalogKept
<1>5. Typed'
  BY <1>1, <1>2 DEF IInv, Typed, StoredRows
<1> QED
  BY <1>2, <1>3, <1>4, <1>5 DEF IInv

LEMMA RestartInv ==
  ASSUME IInv, NEW inc \in Incarnations, Restart(inc)
  PROVE  IInv'
<1>1. /\ start_boot(inc) /\ call' = Idle /\ catalog' = EmptyCatalog /\ spent' = {}
      /\ UNCHANGED <<tickets, wire, host, sent>>
  BY DEF Restart
<1>2. /\ (\A p \in Ops : OpSound(p))' /\ OneUnresolved' /\ rows' \in StoredRows
      /\ authority' \in [boot : Nat, inc : Incarnations, ready : BOOLEAN]
      /\ lease' \in [epoch : Nat, live : BOOLEAN]
  BY <1>1, StartBootFacts
<1>3. CallSound' /\ WitnessSound' /\ call' \in CallRecords
  BY <1>1, CallIdle
<1>4. CatalogSound' /\ catalog' \in CatalogRecords
  BY <1>1 DEF CatalogSound, EmptyCatalog, CatalogRecords
<1>5. Typed'
  BY <1>1, <1>2, <1>3, <1>4
  DEF IInv, Typed, StoredRows, CallRecords, CatalogRecords
<1> QED
  BY <1>2, <1>3, <1>4, <1>5 DEF IInv

\* A resolved row goes to the archive and keeps its state.
LEMMA ArchiveInv ==
  ASSUME IInv, NEW o \in Ops, Archive(o)
  PROVE  IInv'
<1>1. /\ UNCHANGED <<authority, lease, tickets, catalog, call, wire, host, sent, spent>>
      /\ Recorded(o) /\ call' = Idle
      /\ rows' = [rows EXCEPT ![o].archived = TRUE]
  BY DEF Archive
<1>2. rows \in StoredRows /\ rows[o] \in OperationRows
  BY <1>1 DEF IInv, Typed, StoredRows, Recorded
<1>3. PICK x : x = [rows[o] EXCEPT !.archived = TRUE]
  OBVIOUS
<1>4. /\ x \in OperationRows /\ x.state = rows[o].state /\ x.wit = rows[o].wit
      /\ x.boot = rows[o].boot /\ x.epoch = rows[o].epoch
      /\ x.exp = rows[o].exp /\ x.inc = rows[o].inc
  BY <1>2, <1>3 DEF OperationRows
<1>5. x # None
  BY <1>4, RecoveryNothing
<1>6. /\ rows' \in StoredRows /\ rows'[o] = x
      /\ \A p \in Ops : p # o => rows'[p] = rows[p]
  BY <1>1, <1>2, <1>3, <1>4 DEF StoredRows
<1>7. ASSUME NEW p \in Ops
      PROVE  /\ Recorded(p)' <=> Recorded(p)
             /\ rows'[p].boot = rows[p].boot /\ rows'[p].epoch = rows[p].epoch
             /\ rows'[p].exp = rows[p].exp /\ rows'[p].inc = rows[p].inc
             /\ rows'[p].state = "INTENT_RECORDED" => rows[p].state = "INTENT_RECORDED"
             /\ rows'[p].state \in Unresolved => rows[p].state \in Unresolved
             /\ StoreSound(p)'
  <2>1. StoreSound(p)
    BY DEF IInv, OpSound
  <2> QED
    BY <1>1, <1>4, <1>5, <1>6, <2>1 DEF Recorded, StoreSound
<1>8. (\A p \in Ops : OpSound(p))' /\ OneUnresolved'
  BY <1>1, <1>7, RowsMove
<1>9. CallSound' /\ WitnessSound'
  BY <1>1, CallIdle
<1>10. CatalogSound'
  <2>1. lease.epoch \in Nat /\ host.gen \in Nat
    BY DEF IInv, Typed
  <2> QED
    BY <1>1, <2>1, CatalogKept
<1>11. Typed'
  BY <1>1, <1>6 DEF IInv, Typed, StoredRows
<1> QED
  BY <1>8, <1>9, <1>10, <1>11 DEF IInv

\* The answer's outcome is what the host did, and its witness lies past every
\* catalog that is used up.
LEMMA OutcomeRecordedInv ==
  ASSUME IInv, OutcomeRecorded
  PROVE  IInv'
<1> DEFINE r == call.reply
           fence == IF r.ticket = None THEN 0 ELSE r.ticket.boot
           state == AnsweredState(r)
           stored == CanRecordOutcome(call.op, state, r.wit, fence)
<1>1. /\ call.kind = "outcome"
      /\ UNCHANGED <<authority, lease, tickets, wire, host, sent, spent>>
      /\ rows' = IF stored THEN record_outcome(call.op, state, r.wit) ELSE rows
      /\ catalog' = IF stored /\ state = "SETTLED"
                    THEN observe_recovery_witness(r.wit) ELSE catalog
      /\ call' = IF stored /\ call.v3 /\ state \in {"SETTLED", "REJECTED"}
                 THEN [call EXCEPT !.kind = "post"] ELSE Idle
  BY DEF OutcomeRecorded
<1>2. /\ call.op \in Ops /\ Recorded(call.op) /\ ReplySound(r, call.op)
      /\ call \in CallRecords
  BY <1>1 DEF IInv, CallSound, Typed, CallRecords
<1>3. r \in Replies /\ r.wit \in Nat
  BY <1>2 DEF ReplySound, CallRecords, Replies
<1>4. /\ state \in Unresolved \cup Terminal
      /\ state \in {"SETTLED", "RECONCILED"} => r.wit # 0
      /\ state = "REJECTED" => r.state = "REJECTED"
  BY <1>3 DEF AnsweredState, Replies, Unresolved, Terminal
<1>5. /\ state \in {"SETTLED", "RECONCILED"} =>
           /\ host.ops[call.op].phase \in {"settled", "lost"}
           /\ r.wit # 0 /\ r.wit = host.ops[call.op].wit
      /\ state = "REJECTED" => host.ops[call.op].phase = "rejected"
  BY <1>2, <1>4 DEF ReplySound
<1>6. stored => valid_transition(rows[call.op].state, state)
  BY DEF CanRecordOutcome
<1> HIDE DEF r, fence, state, stored
<1>7. /\ (\A p \in Ops : OpSound(p))' /\ OneUnresolved' /\ rows' \in StoredRows
      /\ rows'[call.op] # None
  <2>1. CASE stored
    <3>1. rows' = record_outcome(call.op, state, r.wit)
      BY <1>1, <2>1
    <3>2. /\ (\A p \in Ops : OpSound(p))' /\ OneUnresolved' /\ rows' \in StoredRows
          /\ \A p \in Ops : Recorded(p)' <=> Recorded(p)
      BY <1>1, <1>2, <1>3, <1>4, <1>5, <1>6, <2>1, <3>1, OutcomeStored
    <3>3. rows'[call.op] # None
      BY <1>2, <3>2 DEF Recorded
    <3> QED
      BY <3>2, <3>3
  <2>2. CASE ~stored
    <3>1. rows' = rows
      BY <1>1, <2>2
    <3> QED
      BY <1>1, <1>2, <3>1, OpsQuiet DEF IInv, Typed, StoredRows, Recorded
  <2> QED
    BY <2>1, <2>2
<1>8. CatalogSound' /\ catalog' \in CatalogRecords
  <2>1. CASE stored /\ state = "SETTLED"
    <3>1. catalog' = observe(Key(r.wit))
      BY <1>1, <2>1 DEF observe_recovery_witness
    <3>2. r.wit # 0 /\ r.wit = host.ops[call.op].wit
      BY <1>5, <2>1
    <3>3. r.wit <= host.gen
      <4>1. HostSound(call.op)
        BY <1>2 DEF IInv, OpSound
      <4> QED
        BY <3>2, <4>1 DEF HostSound
    <3>4. Key(r.wit) \notin spent
      <4>1. ASSUME NEW k \in spent PROVE k.gen # r.wit
        <5>1. k.gen < host.ops[call.op].wit
          BY <1>1, <3>2 DEF IInv, WitnessSound
        <5>2. k.gen \in Nat
          BY DEF IInv, Typed, CatalogKeys
        <5> QED
          BY <1>3, <3>2, <5>1, <5>2
      <4>2. Key(r.wit).gen = r.wit
        BY DEF Key
      <4> QED
        BY <4>1, <4>2
    <3> QED
      BY <1>1, <1>3, <3>1, <3>3, <3>4, ObserveSound
  <2>2. CASE ~(stored /\ state = "SETTLED")
    <3>1. catalog' = catalog
      BY <1>1, <2>2
    <3>2. lease.epoch \in Nat /\ host.gen \in Nat /\ catalog \in CatalogRecords
      BY DEF IInv, Typed, CatalogRecords
    <3> QED
      BY <1>1, <3>1, <3>2, CatalogKept
  <2> QED
    BY <2>1, <2>2
<1>9. CallSound' /\ WitnessSound' /\ call' \in CallRecords
  <2>1. CASE call' = Idle
    BY <2>1, CallIdle
  <2>2. CASE call' = [call EXCEPT !.kind = "post"]
    <3>1. call' \in CallRecords /\ call'.kind = "post" /\ call'.op = call.op
      BY <1>2, <2>2 DEF CallRecords, CallKinds
    <3> QED
      BY <1>2, <1>7, <3>1 DEF CallSound, WitnessSound, Recorded
  <2> QED
    BY <1>1, <2>1, <2>2
<1>10. Typed'
  BY <1>1, <1>7, <1>8, <1>9
  DEF IInv, Typed, StoredRows, CallRecords, CatalogRecords
<1> QED
  BY <1>7, <1>8, <1>9, <1>10 DEF IInv

\* So is the outcome that a lookup or a reconciliation imports.
LEMMA EvidencePersistedInv ==
  ASSUME IInv, EvidencePersisted
  PROVE  IInv'
<1> DEFINE r == call.reply
           state == PersistedState(call.op, r, call.kind = "reconcile")
           fence == IF r.ticket = None THEN 0 ELSE r.ticket.boot
           stored == /\ rows[call.op].state \in Terminal => state = rows[call.op].state
                     /\ CanRecordOutcome(call.op, state, r.wit, fence)
<1>1. /\ call.kind \in {"lookup", "reconcile"} /\ call' = Idle
      /\ UNCHANGED <<authority, lease, tickets, catalog, wire, host, sent, spent>>
      /\ rows' = IF stored THEN record_outcome(call.op, state, r.wit) ELSE rows
  BY DEF EvidencePersisted
<1>2. /\ call.op \in Ops /\ Recorded(call.op) /\ ReplySound(r, call.op)
      /\ call \in CallRecords
  BY <1>1 DEF IInv, CallSound, Typed, CallRecords
<1>3. r \in Replies /\ r.wit \in Nat
  BY <1>2 DEF ReplySound, CallRecords, Replies
<1>4. /\ state \in Unresolved \cup Terminal
      /\ state = "REJECTED" => r.state = "REJECTED"
  <2>1. \A b \in BOOLEAN :
          /\ EvidenceState(r, b) \in Unresolved \cup Terminal
          /\ EvidenceState(r, b) = "REJECTED" => r.state = "REJECTED"
    BY <1>3 DEF EvidenceState, Replies, Unresolved, Terminal
  <2> QED
    BY <2>1 DEF PersistedState, Unresolved
<1>5. stored => /\ valid_transition(rows[call.op].state, state)
                /\ state \in {"SETTLED", "RECONCILED"} => r.wit # 0
  BY DEF CanRecordOutcome, validate_witness_shape
<1>6. stored =>
        /\ state \in {"SETTLED", "RECONCILED"} =>
             /\ host.ops[call.op].phase \in {"settled", "lost"}
             /\ r.wit # 0 /\ r.wit = host.ops[call.op].wit
        /\ state = "REJECTED" => host.ops[call.op].phase = "rejected"
  BY <1>2, <1>4, <1>5 DEF ReplySound
<1> HIDE DEF r, fence, state, stored
<1>7. (\A p \in Ops : OpSound(p))' /\ OneUnresolved' /\ rows' \in StoredRows
  <2>1. CASE stored
    <3>1. rows' = record_outcome(call.op, state, r.wit)
      BY <1>1, <2>1
    <3> QED
      BY <1>1, <1>2, <1>3, <1>4, <1>5, <1>6, <2>1, <3>1, OutcomeStored
  <2>2. CASE ~stored
    <3>1. rows' = rows
      BY <1>1, <2>2
    <3> QED
      BY <1>1, <3>1, OpsQuiet DEF IInv, Typed, StoredRows
  <2> QED
    BY <2>1, <2>2
<1>8. CallSound' /\ WitnessSound' /\ call' \in CallRecords
  BY <1>1, CallIdle
<1>9. CatalogSound'
  <2>1. lease.epoch \in Nat /\ host.gen \in Nat
    BY DEF IInv, Typed
  <2> QED
    BY <1>1, <2>1, CatalogKept
<1>10. Typed'
  BY <1>1, <1>7, <1>8 DEF IInv, Typed, StoredRows, CallRecords
<1> QED
  BY <1>7, <1>8, <1>9, <1>10 DEF IInv

-----------------------------------------------------------------------------
(* Intent and dispatch.                                                     *)

\* A new row is the only unresolved one of its incarnation, and nothing has
\* left the gateway for it.
LEMMA IntentStored ==
  ASSUME IInv, NEW o \in Ops, NEW g \in Nat, CanRecord(o),
         rows' = record_intent(o, g), sent' = [sent EXCEPT ![o] = 0],
         UNCHANGED <<tickets, wire, host>>
  PROVE  /\ (\A p \in Ops : OpSound(p))' /\ OneUnresolved' /\ rows' \in StoredRows
         /\ sent' \in [Ops -> Nat] /\ rows'[o] # None
         /\ rows'[o].state = "INTENT_RECORDED"
<1>1. /\ rows \in StoredRows /\ rows[o] = None /\ sent \in [Ops -> Nat]
      /\ host.gen \in Nat /\ Typed /\ OneUnresolved
  BY DEF IInv, Typed, StoredRows, CanRecord, Recorded
<1>2. NewRow(g) \in OperationRows
  <2>1. /\ authority.boot \in Nat /\ authority.inc \in Incarnations
        /\ lease.epoch \in Nat
    BY DEF IInv, Typed
  <2> QED
    BY <2>1 DEF NewRow, OperationRows, Unresolved
<1>3. /\ NewRow(g) # None /\ NewRow(g).state = "INTENT_RECORDED"
      /\ NewRow(g).inc = authority.inc
  BY <1>2, RecoveryNothing DEF NewRow
<1>4. /\ rows' \in StoredRows /\ rows'[o] = NewRow(g)
      /\ \A p \in Ops : p # o => rows'[p] = rows[p]
  BY <1>1, <1>2 DEF record_intent, StoredRows
<1>5. Untouched(o) /\ HostSound(o)
  BY <1>1 DEF IInv, OpSound, WireSound, Recorded
<1>6. /\ sent' \in [Ops -> Nat] /\ sent'[o] = 0
      /\ \A p \in Ops : p # o => sent'[p] = sent[p]
  BY <1>1
<1>7. ASSUME NEW p \in Ops PROVE OpSound(p)'
  <2>1. CASE p = o
    <3>1. WireSound(o)'
      BY <1>5, <1>6 DEF WireSound, Untouched
    <3>2. HostSound(o)'
      BY <1>5 DEF HostSound, Untouched
    <3>3. TicketSound(o)'
      BY <1>5 DEF TicketSound, Untouched
    <3>4. StoreSound(o)'
      BY <1>3, <1>4 DEF StoreSound
    <3> QED
      BY <2>1, <3>1, <3>2, <3>3, <3>4 DEF OpSound
  <2>2. CASE p # o
    <3>1. OpSound(p)
      BY DEF IInv
    <3>2. rows'[p] = rows[p] /\ sent'[p] = sent[p]
      BY <1>4, <1>6, <2>2
    <3>3. host'.gen \in Nat /\ host'.gen >= host.gen
      BY <1>1
    <3>4. \A f \in wire' : f.op = p => f \in wire
      OBVIOUS
    <3> QED
      BY <1>1, <3>1, <3>2, <3>3, <3>4, OpKept
  <2> QED
    BY <2>1, <2>2
<1>8. OneUnresolved'
  <2>1. \A p \in Ops : p # o /\ rows[p] # None /\ rows[p].state \in Unresolved
                       => rows[p].inc # authority.inc
    BY DEF CanRecord, UnresolvedRows, Recorded
  <2>2. SUFFICES ASSUME NEW p \in Ops, NEW q \in Ops,
                        rows'[p] # None, rows'[q] # None,
                        rows'[p].inc = rows'[q].inc,
                        rows'[p].state \in Unresolved, rows'[q].state \in Unresolved
                 PROVE  p = q
    BY DEF OneUnresolved, Recorded
  <2>3. CASE p = o \/ q = o
    BY <1>3, <1>4, <2>1, <2>2, <2>3
  <2>4. CASE p # o /\ q # o
    BY <1>1, <1>4, <2>2, <2>4 DEF OneUnresolved, Recorded
  <2> QED
    BY <2>3, <2>4
<1> QED
  BY <1>3, <1>4, <1>6, <1>7, <1>8

LEMMA IntentInv ==
  ASSUME IInv, NEW o \in Ops, NEW g \in 1..MaxGen, Intent(o, g)
  PROVE  IInv'
<1>1. /\ UNCHANGED <<authority, lease, tickets, catalog, call, wire, host, spent>>
      /\ CanRecord(o) /\ call' = Idle /\ rows' = record_intent(o, g)
      /\ sent' = [sent EXCEPT ![o] = 0] /\ g \in Nat
  BY RecoveryConfig DEF Intent
<1>2. /\ (\A p \in Ops : OpSound(p))' /\ OneUnresolved' /\ rows' \in StoredRows
      /\ sent' \in [Ops -> Nat]
  BY <1>1, IntentStored
<1>3. CallSound' /\ WitnessSound'
  BY <1>1, CallIdle
<1>4. CatalogSound'
  <2>1. lease.epoch \in Nat /\ host.gen \in Nat
    BY DEF IInv, Typed
  <2> QED
    BY <1>1, <2>1, CatalogKept
<1>5. Typed'
  BY <1>1, <1>2 DEF IInv, Typed, StoredRows
<1> QED
  BY <1>2, <1>3, <1>4, <1>5 DEF IInv

LEMMA V3DispatchInv ==
  ASSUME IInv, NEW o \in Ops, V3Dispatch(o)
  PROVE  IInv'
<1>1. /\ UNCHANGED <<authority, lease, tickets, catalog, wire, host, spent>>
      /\ CanRecord(o) /\ rows' = record_intent(o, catalog.current.gen)
      /\ sent' = [sent EXCEPT ![o] = 0] /\ catalog.current # None
      /\ call' = [kind |-> "mark", op |-> o, v3 |-> TRUE, reply |-> None]
  BY DEF V3Dispatch, admission
<1>2. catalog.current.gen \in Nat
  BY <1>1 DEF IInv, Typed, CatalogKeys
<1>3. /\ (\A p \in Ops : OpSound(p))' /\ OneUnresolved' /\ rows' \in StoredRows
      /\ sent' \in [Ops -> Nat] /\ rows'[o] # None
      /\ rows'[o].state = "INTENT_RECORDED"
  BY <1>1, <1>2, IntentStored
<1>4. call' \in CallRecords /\ call'.kind = "mark" /\ call'.op = o
  BY <1>1 DEF CallRecords, CallKinds
<1>5. CallSound' /\ WitnessSound'
  BY <1>3, <1>4 DEF CallSound, WitnessSound, Recorded
<1>6. CatalogSound'
  <2>1. lease.epoch \in Nat /\ host.gen \in Nat
    BY DEF IInv, Typed
  <2> QED
    BY <1>1, <2>1, CatalogKept
<1>7. Typed'
  BY <1>1, <1>3, <1>4 DEF IInv, Typed, StoredRows, CallRecords
<1> QED
  BY <1>3, <1>5, <1>6, <1>7 DEF IInv

\* The dispatch is marked before anything is sent, and spends the catalog.
LEMMA ForwardIntentInv ==
  ASSUME IInv, NEW o \in Ops, NEW v3 \in BOOLEAN, Recorded(o), ForwardIntent(o, v3)
  PROVE  IInv'
<1>1. /\ UNCHANGED <<authority, lease, tickets, host, sent>>
      /\ rows[o].state = "INTENT_RECORDED"
      /\ rows' = [rows EXCEPT ![o].state = "MAY_HAVE_BEEN_DISPATCHED"]
      /\ catalog' = invalidate_current
      /\ spent' = IF catalog.current = None THEN spent
                  ELSE spent \cup {catalog.current}
      /\ wire' = wire \cup {Frame("intent", o)}
      /\ call' = [kind |-> "intent", op |-> o, v3 |-> v3, reply |-> None]
  BY DEF ForwardIntent, MayMark, mark_dispatched, forward_recovery_control
<1>2. /\ rows \in StoredRows /\ rows[o] \in OperationRows
      /\ host.gen \in Nat /\ Typed /\ OneUnresolved
  BY DEF IInv, Typed, StoredRows, Recorded
<1>3. /\ rows' \in StoredRows
      /\ \A p \in Ops : p # o => rows'[p] = rows[p]
      /\ rows'[o] # None /\ rows'[o].state = "MAY_HAVE_BEEN_DISPATCHED"
      /\ rows'[o].boot = rows[o].boot /\ rows'[o].epoch = rows[o].epoch
      /\ rows'[o].exp = rows[o].exp /\ rows'[o].inc = rows[o].inc
  <2>1. /\ rows[o] # None /\ "MAY_HAVE_BEEN_DISPATCHED" \in Unresolved \cup Terminal
        /\ rows \in [Ops -> OperationRows \cup {None}]
    BY <1>2 DEF Recorded, Unresolved, StoredRows
  <2>2. rows' = [rows EXCEPT ![o].state = "MAY_HAVE_BEEN_DISPATCHED"]
        => StoredOutcome(rows', rows, o, "MAY_HAVE_BEEN_DISPATCHED", rows[o].wit)
    BY <2>1, StateFacts, Zenon
  <2> QED
    BY <1>1, <2>2, Zenon DEF StoredRows, StoredOutcome
<1>4. /\ Frame("intent", o) \in Frames /\ Frame("intent", o).op = o
      /\ Frame("intent", o).kind = "intent"
      /\ Frame("intent", o).boot = rows[o].boot
      /\ Frame("intent", o).epoch = rows[o].epoch
      /\ Frame("intent", o).exp = rows[o].exp
  BY <1>2 DEF Frame, Frames, OperationRows
<1>5. Untouched(o) /\ HostSound(o)
  BY <1>1 DEF IInv, OpSound, WireSound
<1>6. ASSUME NEW p \in Ops PROVE OpSound(p)'
  <2>1. CASE p = o
    <3>1. WireSound(o)'
      <4>1. \A f \in wire' : f.op = o => f = Frame("intent", o)
        BY <1>1, <1>5 DEF Untouched
      <4> QED
        BY <1>1, <1>3, <1>4, <1>5, <4>1 DEF WireSound, Untouched, Recorded
    <3>2. HostSound(o)'
      BY <1>1, <1>5 DEF HostSound, Untouched
    <3>3. TicketSound(o)'
      BY <1>1, <1>5 DEF TicketSound, Untouched
    <3>4. StoreSound(o)'
      BY <1>3 DEF StoreSound
    <3> QED
      BY <2>1, <3>1, <3>2, <3>3, <3>4 DEF OpSound
  <2>2. CASE p # o
    <3>1. OpSound(p)
      BY DEF IInv
    <3>2. /\ rows'[p] = rows[p] /\ sent'[p] = sent[p] /\ tickets'[p] = tickets[p]
          /\ host'.ops[p] = host.ops[p]
      BY <1>1, <1>3, <2>2
    <3>3. host'.gen \in Nat /\ host'.gen >= host.gen
      BY <1>1, <1>2
    <3>4. \A f \in wire' : f.op = p => f \in wire
      BY <1>1, <1>4, <2>2
    <3> QED
      BY <1>2, <3>1, <3>2, <3>3, <3>4, OpKept
  <2> QED
    BY <2>1, <2>2
<1>7. OneUnresolved'
  <2>1. \A p \in Ops : rows'[p] # None /\ rows'[p].state \in Unresolved =>
          /\ rows[p] # None /\ rows[p].state \in Unresolved
          /\ rows'[p].inc = rows[p].inc
    BY <1>1, <1>3 DEF Unresolved, Recorded
  <2> QED
    BY <1>2, <2>1, UnresolvedKept
<1>8. CatalogSound' /\ catalog' \in CatalogRecords /\ spent' \subseteq CatalogKeys
  BY <1>1, InvalidateSound
<1>9. call' \in CallRecords /\ call'.kind = "intent" /\ call'.op = o
  BY <1>1 DEF CallRecords, CallKinds
<1>10. CallSound'
  BY <1>1, <1>3, <1>5, <1>9 DEF CallSound, Recorded, Untouched
<1>11. WitnessSound'
  <2>1. host.ops[o].wit = 0
    BY <1>5 DEF HostSound, Untouched
  <2> QED
    BY <1>1, <1>9, <2>1 DEF WitnessSound
<1>12. wire' \subseteq Frames
  BY <1>1, <1>4 DEF IInv, Typed
<1>13. Typed'
  BY <1>1, <1>3, <1>8, <1>9, <1>12
  DEF IInv, Typed, StoredRows, CallRecords, CatalogRecords
<1> QED
  BY <1>6, <1>7, <1>8, <1>10, <1>11, <1>13 DEF IInv

\* The dispatch frame is written after the host kept the intent, once.
LEMMA IntentAnsweredInv ==
  ASSUME IInv, IntentAnswered
  PROVE  IInv'
<1>1. PICK o : o = call.op
  OBVIOUS
<1>2. /\ UNCHANGED <<authority, lease, rows, tickets, catalog, host, spent>>
      /\ call.kind = "intent" /\ host.ops[o].phase # "none"
      /\ wire' = wire \cup {Frame("dispatch", o)}
      /\ sent' = [sent EXCEPT ![o] = @ + 1]
      /\ call' = [call EXCEPT !.kind = "dispatch"]
  BY <1>1 DEF IntentAnswered, forward_recovery_control
<1>3. /\ o \in Ops /\ Recorded(o) /\ sent[o] = 0
      /\ rows[o].state = "MAY_HAVE_BEEN_DISPATCHED"
  BY <1>1, <1>2 DEF IInv, CallSound
<1>4. /\ rows \in StoredRows /\ rows[o] \in OperationRows /\ call \in CallRecords
      /\ host.gen \in Nat /\ Typed /\ sent \in [Ops -> Nat]
  BY <1>3 DEF IInv, Typed, StoredRows, CallRecords, Recorded
<1>5. /\ sent' \in [Ops -> Nat] /\ sent'[o] = 1
      /\ \A p \in Ops : p # o => sent'[p] = sent[p]
  BY <1>2, <1>3, <1>4
<1>6. /\ Frame("dispatch", o) \in Frames /\ Frame("dispatch", o).op = o
      /\ Frame("dispatch", o).boot = rows[o].boot
      /\ Frame("dispatch", o).epoch = rows[o].epoch
      /\ Frame("dispatch", o).exp = rows[o].exp
  BY <1>3, <1>4 DEF Frame, Frames, OperationRows
<1>7. OpSound(o)
  BY <1>3 DEF IInv
<1>8. host.ops[o].phase = "intent"
  BY <1>2, <1>3, <1>7 DEF OpSound, HostSound
<1>9. ASSUME NEW p \in Ops PROVE OpSound(p)'
  <2>1. CASE p = o
    <3>1. WireSound(o)'
      <4>1. \A f \in wire' : f.op = o => f \in wire \/ f = Frame("dispatch", o)
        BY <1>2
      <4> QED
        BY <1>2, <1>3, <1>5, <1>6, <1>7, <1>8, <4>1 DEF OpSound, WireSound, Recorded
    <3>2. HostSound(o)'
      BY <1>2, <1>5, <1>7 DEF OpSound, HostSound
    <3>3. TicketSound(o)'
      BY <1>2, <1>7 DEF OpSound, TicketSound
    <3>4. StoreSound(o)'
      BY <1>2, <1>7 DEF OpSound, StoreSound, Recorded
    <3> QED
      BY <2>1, <3>1, <3>2, <3>3, <3>4 DEF OpSound
  <2>2. CASE p # o
    <3>1. OpSound(p)
      BY DEF IInv
    <3>2. /\ rows'[p] = rows[p] /\ sent'[p] = sent[p] /\ tickets'[p] = tickets[p]
          /\ host'.ops[p] = host.ops[p]
      BY <1>2, <1>5, <2>2
    <3>3. host'.gen \in Nat /\ host'.gen >= host.gen
      BY <1>2, <1>4
    <3>4. \A f \in wire' : f.op = p => f \in wire
      BY <1>2, <1>6, <2>2
    <3> QED
      BY <1>4, <3>1, <3>2, <3>3, <3>4, OpKept
  <2> QED
    BY <2>1, <2>2
<1>10. OneUnresolved'
  BY <1>2, UnresolvedKept DEF IInv
<1>11. call' \in CallRecords /\ call'.kind = "dispatch" /\ call'.op = o
  BY <1>1, <1>2, <1>4 DEF CallRecords, CallKinds
<1>12. CallSound'
  BY <1>2, <1>3, <1>11 DEF CallSound, Recorded
<1>13. WitnessSound'
  BY <1>1, <1>2, <1>11 DEF WitnessSound, IInv
<1>14. CatalogSound'
  <2>1. lease.epoch \in Nat /\ host.gen \in Nat
    BY DEF IInv, Typed
  <2> QED
    BY <1>2, <2>1, CatalogKept
<1>15. wire' \subseteq Frames
  BY <1>2, <1>6 DEF IInv, Typed
<1>16. Typed'
  BY <1>2, <1>5, <1>11, <1>15 DEF IInv, Typed, CallRecords
<1> QED
  BY <1>9, <1>10, <1>12, <1>13, <1>14, <1>16 DEF IInv

-----------------------------------------------------------------------------
(* Tickets and evidence of the host.                                        *)

\* What the host's record says of the operation.
LEMMA HostRecordFacts ==
  ASSUME IInv, NEW o \in Ops, NEW b \in BOOLEAN
  PROVE  LET r == HostRecord(o, b)
         IN /\ r.ticket = host.ops[o].ticket
            /\ r.state = "NOT_FOUND" <=> host.ops[o].phase = "none"
            /\ r.state # "NOT_FOUND" => r \in Replies
            /\ r.state = "REJECTED" => host.ops[o].phase = "rejected"
            /\ r.wit # 0 => /\ host.ops[o].phase \in {"settled", "lost"}
                            /\ r.wit = host.ops[o].wit
<1>1. /\ host.ops[o].phase \in Phases /\ host.ops[o].wit \in Nat
      /\ host.ops[o].ticket \in AdmissionTickets \cup {None}
  BY DEF IInv, Typed, HostOps
<1> QED
  BY <1>1 DEF HostRecord, Replies, Phases

\* A ticket of the host is stored for a row that is dispatched.
LEMMA TicketStored ==
  ASSUME IInv, NEW o \in Ops,
         \/ UNCHANGED tickets
         \/ /\ host.ops[o].ticket # None
            /\ tickets' = [tickets EXCEPT ![o] = host.ops[o].ticket],
         UNCHANGED <<rows, wire, host, sent>>
  PROVE  /\ (\A p \in Ops : OpSound(p))' /\ OneUnresolved'
         /\ tickets' \in [Ops -> AdmissionTickets \cup {None}]
<1>1. CASE UNCHANGED tickets
  BY <1>1, OpsQuiet DEF IInv, Typed
<1>2. CASE /\ host.ops[o].ticket # None
           /\ tickets' = [tickets EXCEPT ![o] = host.ops[o].ticket]
  <2>1. /\ tickets \in [Ops -> AdmissionTickets \cup {None}] /\ Typed
        /\ host.ops[o].ticket \in AdmissionTickets /\ host.gen \in Nat
    BY <1>2 DEF IInv, Typed, HostOps
  <2>2. /\ tickets' \in [Ops -> AdmissionTickets \cup {None}]
        /\ tickets'[o] = host.ops[o].ticket
        /\ \A p \in Ops : p # o => tickets'[p] = tickets[p]
    BY <1>2, <2>1
  <2>3. ASSUME NEW p \in Ops PROVE OpSound(p)'
    <3>1. OpSound(p)
      BY DEF IInv
    <3>2. CASE p = o
      <4>1. host.ops[o].phase \in {"admitted", "executed", "settled", "rejected", "lost"}
        <5>1. host.ops[o].phase \in Phases
          BY DEF IInv, Typed, HostOps
        <5> QED
          BY <1>2, <3>1, <3>2, <5>1 DEF OpSound, HostSound, Phases
      <4>2. WireSound(o)'
        BY <3>1, <3>2, <4>1 DEF OpSound, WireSound, Untouched, Recorded
      <4>3. HostSound(o)'
        BY <3>1, <3>2 DEF OpSound, HostSound
      <4>4. TicketSound(o)'
        BY <1>2, <2>2, <3>1, <3>2, <4>1 DEF OpSound, HostSound, TicketSound
      <4>5. StoreSound(o)'
        BY <3>1, <3>2 DEF OpSound, StoreSound, Recorded
      <4> QED
        BY <3>2, <4>2, <4>3, <4>4, <4>5 DEF OpSound
    <3>3. CASE p # o
      <4>1. tickets'[p] = tickets[p]
        BY <2>2, <3>3
      <4>2. host'.gen \in Nat /\ host'.gen >= host.gen
        BY <2>1
      <4>3. \A f \in wire' : f.op = p => f \in wire
        OBVIOUS
      <4> QED
        BY <2>1, <3>1, <4>1, <4>2, <4>3, OpKept
    <3> QED
      BY <3>2, <3>3
  <2>4. OneUnresolved'
    BY UnresolvedKept DEF IInv
  <2> QED
    BY <2>2, <2>3, <2>4
<1> QED
  BY <1>1, <1>2

\* The answer of the host is kept with the handler, and its ticket stored.
LEMMA DispatchAnsweredInv ==
  ASSUME IInv, DispatchAnswered
  PROVE  IInv'
<1>1. PICK r : r = HostRecord(call.op, FALSE)
  OBVIOUS
<1>2. /\ UNCHANGED <<authority, lease, rows, catalog, wire, host, sent, spent>>
      /\ call.kind = "dispatch" /\ r.state # "NOT_FOUND"
  BY <1>1 DEF DispatchAnswered
<1>3. /\ call.op \in Ops /\ Recorded(call.op) /\ call \in CallRecords
      /\ rows[call.op].state = "MAY_HAVE_BEEN_DISPATCHED"
  BY <1>2 DEF IInv, CallSound, Typed, CallRecords
<1>4. /\ r.ticket = host.ops[call.op].ticket /\ r \in Replies
      /\ ReplySound(r, call.op)
  <2>1. /\ r.ticket = host.ops[call.op].ticket
        /\ r.state # "NOT_FOUND" => r \in Replies
        /\ r.state = "REJECTED" => host.ops[call.op].phase = "rejected"
        /\ r.wit # 0 => /\ host.ops[call.op].phase \in {"settled", "lost"}
                        /\ r.wit = host.ops[call.op].wit
    BY <1>1, <1>3, HostRecordFacts
  <2> QED
    BY <1>2, <2>1 DEF ReplySound
<1>5. \/ UNCHANGED tickets /\ call' = Idle
      \/ /\ \/ UNCHANGED tickets
            \/ /\ r.ticket # None
               /\ tickets' = [tickets EXCEPT ![call.op] = r.ticket]
         /\ call' = [call EXCEPT !.kind = "outcome", !.reply = r]
  BY <1>1, Zenon DEF DispatchAnswered
<1>6. \/ call' = Idle
      \/ /\ call' \in CallRecords /\ call'.kind = "outcome"
         /\ call'.op = call.op /\ call'.reply = r
  <2>1. PICK c : c = [call EXCEPT !.kind = "outcome"]
    OBVIOUS
  <2>2. c \in CallRecords /\ c.kind = "outcome" /\ c.op = call.op
    BY <1>3, <2>1 DEF CallRecords, CallKinds
  <2>3. call' = Idle \/ call' = [c EXCEPT !.reply = r]
    BY <1>5, <2>1, Zenon
  <2>4. ASSUME call' = [c EXCEPT !.reply = r]
        PROVE  /\ call' \in CallRecords /\ call'.kind = "outcome"
               /\ call'.op = call.op /\ call'.reply = r
    BY <1>4, <2>2, <2>4 DEF CallRecords
  <2> QED
    BY <2>3, <2>4, Zenon
<1>7. \/ UNCHANGED tickets
      \/ /\ host.ops[call.op].ticket # None
         /\ tickets' = [tickets EXCEPT ![call.op] = host.ops[call.op].ticket]
  BY <1>4, <1>5, Zenon
<1>8. /\ (\A p \in Ops : OpSound(p))' /\ OneUnresolved'
      /\ tickets' \in [Ops -> AdmissionTickets \cup {None}]
  BY <1>2, <1>3, <1>7, TicketStored
<1>9. CallSound' /\ WitnessSound' /\ call' \in CallRecords
  <2>1. CASE call' = Idle
    BY <2>1, CallIdle
  <2>2. CASE /\ call' \in CallRecords /\ call'.kind = "outcome"
             /\ call'.op = call.op /\ call'.reply = r
    <3>1. CallSound'
      BY <1>2, <1>3, <1>4, <2>2 DEF CallSound, Recorded, ReplySound
    <3>2. WitnessSound'
      BY <1>2, <2>2 DEF IInv, WitnessSound
    <3> QED
      BY <2>2, <3>1, <3>2
  <2> QED
    BY <1>6, <2>1, <2>2
<1>10. CatalogSound'
  <2>1. lease.epoch \in Nat /\ host.gen \in Nat
    BY DEF IInv, Typed
  <2> QED
    BY <1>2, <2>1, CatalogKept
<1>11. Typed'
  BY <1>2, <1>8, <1>9 DEF IInv, Typed, CallRecords
<1> QED
  BY <1>8, <1>9, <1>10, <1>11 DEF IInv

LEMMA EvidenceArrivesInv ==
  ASSUME IInv, NEW o \in Ops, NEW kind \in {"lookup", "reconcile"},
         EvidenceArrives(o, kind)
  PROVE  IInv'
<1>1. PICK r : r = HostRecord(o, kind = "reconcile")
  OBVIOUS
<1>2. /\ UNCHANGED <<authority, lease, rows, catalog, wire, host, sent, spent>>
      /\ Recorded(o) /\ r.state # "NOT_FOUND"
      /\ \/ UNCHANGED tickets
         \/ r.ticket # None /\ tickets' = [tickets EXCEPT ![o] = r.ticket]
      /\ call' = [kind |-> kind, op |-> o, v3 |-> FALSE, reply |-> r]
  BY <1>1 DEF EvidenceArrives, Asks
<1>3. /\ r.ticket = host.ops[o].ticket /\ host.ops[o].phase # "none"
      /\ ReplySound(r, o)
  <2>1. /\ r.ticket = host.ops[o].ticket
        /\ r.state = "NOT_FOUND" <=> host.ops[o].phase = "none"
        /\ r.state # "NOT_FOUND" => r \in Replies
        /\ r.state = "REJECTED" => host.ops[o].phase = "rejected"
        /\ r.wit # 0 => /\ host.ops[o].phase \in {"settled", "lost"}
                        /\ r.wit = host.ops[o].wit
    <3>1. (kind = "reconcile") \in BOOLEAN
      OBVIOUS
    <3> QED
      BY <1>1, <3>1, HostRecordFacts
  <2> QED
    BY <1>2, <2>1 DEF ReplySound
<1>4. rows[o].state # "INTENT_RECORDED"
  BY <1>3 DEF IInv, OpSound, WireSound, Untouched
<1>5. /\ call' \in CallRecords /\ call'.kind = kind /\ call'.op = o
      /\ call'.reply = r
  BY <1>2, <1>3 DEF CallRecords, CallKinds, ReplySound
<1>6. /\ (\A p \in Ops : OpSound(p))' /\ OneUnresolved'
      /\ tickets' \in [Ops -> AdmissionTickets \cup {None}]
  <2>1. \/ UNCHANGED tickets
        \/ /\ host.ops[o].ticket # None
           /\ tickets' = [tickets EXCEPT ![o] = host.ops[o].ticket]
    BY <1>2, <1>3
  <2> QED
    BY <1>2, <2>1, TicketStored
<1>7. CallSound'
  BY <1>2, <1>3, <1>4, <1>5 DEF CallSound, Recorded, ReplySound
<1>8. WitnessSound'
  BY <1>5 DEF WitnessSound
<1>9. CatalogSound'
  <2>1. lease.epoch \in Nat /\ host.gen \in Nat
    BY DEF IInv, Typed
  <2> QED
    BY <1>2, <2>1, CatalogKept
<1>10. Typed'
  BY <1>2, <1>5, <1>6 DEF IInv, Typed, CallRecords
<1> QED
  BY <1>6, <1>7, <1>8, <1>9, <1>10 DEF IInv

-----------------------------------------------------------------------------
(* Steps of the host.                                                       *)

\* The host moves an operation on that it has not finished.  No handler has
\* read an end of it, and an effect is later than every catalog used up.
LEMMA HostStep ==
  ASSUME IInv, NEW o \in Ops, ~Untouched(o),
         UNCHANGED <<authority, lease, rows, tickets, catalog, call, sent, spent>>,
         wire' \subseteq wire,
         host' \in HostRecords, host'.gen >= host.gen,
         \A p \in Ops : p # o => host'.ops[p] = host.ops[p],
         host.ops[o].phase \in {"none", "intent", "admitted", "executed"},
         host'.ops[o].wit = host.ops[o].wit \/ host'.ops[o].wit > host.gen,
         \A f \in wire' : f.op = o /\ f.kind = "dispatch" =>
                            host'.ops[o].phase = "intent",
         HostSound(o)', TicketSound(o)'
  PROVE  IInv'
<1>1. /\ Typed /\ OpSound(o) /\ host.gen \in Nat /\ lease.epoch \in Nat
      /\ spent \subseteq CatalogKeys
  BY DEF IInv, Typed
<1>2. host'.gen \in Nat /\ host'.ops[o].wit \in Nat
  BY DEF HostRecords, HostOps
<1>3. ASSUME NEW p \in Ops PROVE OpSound(p)'
  <2>1. CASE p = o
    <3>1. WireSound(o)'
      <4>1. Recorded(o) /\ rows[o].state # "INTENT_RECORDED"
        BY <1>1 DEF OpSound, WireSound
      <4>2. Recorded(o)' /\ rows'[o].state # "INTENT_RECORDED"
        BY <4>1 DEF Recorded
      <4> QED
        BY <1>1, <4>2 DEF OpSound, WireSound
    <3>2. StoreSound(o)'
      BY <1>1 DEF OpSound, StoreSound, Recorded
    <3> QED
      BY <2>1, <3>1, <3>2 DEF OpSound
  <2>2. CASE p # o
    <3>1. OpSound(p)
      BY DEF IInv
    <3>2. host'.ops[p] = host.ops[p]
      BY <2>2
    <3>3. /\ rows'[p] = rows[p] /\ sent'[p] = sent[p] /\ tickets'[p] = tickets[p]
          /\ \A f \in wire' : f.op = p => f \in wire
      OBVIOUS
    <3> QED
      BY <1>1, <1>2, <3>1, <3>2, <3>3, OpKept
  <2> QED
    BY <2>1, <2>2
<1>4. OneUnresolved'
  BY UnresolvedKept DEF IInv
<1>5. CallSound'
  <2>1. CASE call.kind = "idle"
    BY <2>1 DEF IInv, CallSound
  <2>2. CASE call.kind # "idle"
    <3>1. call.op \in Ops /\ Recorded(call.op) /\ CallSound
      BY <2>2 DEF IInv, CallSound
    <3>2. ASSUME ReplySound(call.reply, call.op)
          PROVE  ReplySound(call.reply, call.op)'
      <4>1. CASE call.op = o
        BY <3>2, <4>1 DEF ReplySound
      <4>2. CASE call.op # o
        <5>1. host'.ops[call.op] = host.ops[call.op]
          BY <3>1, <4>2
        <5> QED
          BY <3>2, <5>1 DEF ReplySound
      <4> QED
        BY <4>1, <4>2
    <3>3. Recorded(call.op)'
      BY <3>1 DEF Recorded
    <3> QED
      BY <2>2, <3>1, <3>2, <3>3 DEF CallSound
  <2> QED
    BY <2>1, <2>2
<1>6. WitnessSound'
  <2>1. SUFFICES ASSUME call.kind \in {"intent", "dispatch", "outcome"},
                        host'.ops[call.op].wit # 0, NEW k \in spent
                 PROVE  k.gen < host'.ops[call.op].wit
    BY DEF WitnessSound
  <2>2. call.op \in Ops /\ k.gen \in Nat
    BY <1>1, <2>1 DEF IInv, CallSound, CatalogKeys
  <2>3. CASE host'.ops[call.op].wit = host.ops[call.op].wit
    BY <2>1, <2>3 DEF IInv, WitnessSound
  <2>4. CASE call.op = o /\ host'.ops[o].wit > host.gen
    <3>1. k.gen <= host.gen
      BY DEF IInv, CatalogSound, SpentSound
    <3> QED
      BY <1>1, <1>2, <2>2, <2>4, <3>1
  <2> QED
    BY <2>2, <2>3, <2>4
<1>7. CatalogSound'
  BY <1>1, <1>2, CatalogKept
<1>8. Typed'
  BY <1>1 DEF Typed, HostRecords
<1> QED
  BY <1>3, <1>4, <1>5, <1>6, <1>7, <1>8 DEF IInv

\* The host refuses a frame.
LEMMA FrameDropped ==
  ASSUME IInv, wire' \subseteq wire, UNCHANGED host,
         UNCHANGED <<authority, lease, rows, tickets, catalog, call, sent, spent>>
  PROVE  IInv'
<1>1. host.gen \in Nat /\ lease.epoch \in Nat
  BY DEF IInv, Typed
<1>2. ASSUME NEW p \in Ops PROVE OpSound(p)'
  <2>1. OpSound(p) /\ Typed
    BY DEF IInv
  <2>2. /\ rows'[p] = rows[p] /\ sent'[p] = sent[p] /\ tickets'[p] = tickets[p]
        /\ host'.ops[p] = host.ops[p] /\ host'.gen \in Nat /\ host'.gen >= host.gen
        /\ \A m \in wire' : m.op = p => m \in wire
    BY <1>1
  <2> QED
    BY <2>1, <2>2, OpKept
<1>3. OneUnresolved'
  BY UnresolvedKept DEF IInv
<1>4. CallSound' /\ WitnessSound'
  BY CallQuiet
<1>5. CatalogSound'
  BY <1>1, CatalogKept
<1>6. Typed'
  BY DEF IInv, Typed
<1> QED
  BY <1>2, <1>3, <1>4, <1>5, <1>6 DEF IInv

LEMMA HostReceivesIntentInv ==
  ASSUME IInv, NEW f \in wire, HostReceivesIntent(f)
  PROVE  IInv'
<1>1. PICK o : o = f.op
  OBVIOUS
<1>2. /\ UNCHANGED <<authority, lease, rows, tickets, catalog, call, sent, spent>>
      /\ wire' = wire \ {f}
  BY DEF HostReceivesIntent
<1>3. /\ f \in Frames /\ o \in Ops /\ host \in HostRecords
      /\ host.gen \in Nat /\ lease.epoch \in Nat /\ ~Untouched(o) /\ OpSound(o)
  BY <1>1 DEF IInv, Typed, Frames, HostRecords, Untouched
<1>4. CASE host' = host
  BY <1>2, <1>4, FrameDropped
<1>5. CASE host' # host
  <2>1. PICK x : x = [phase |-> "intent", boot |-> f.boot, epoch |-> f.epoch,
                      exp |-> f.exp, wit |-> 0, ticket |-> None]
    OBVIOUS
  <2>2. host' = [host EXCEPT !.ops[o] = x] /\ host.ops[o].phase = "none"
    BY <1>1, <1>5, <2>1 DEF HostReceivesIntent
  <2>3. /\ x \in HostOps /\ x.phase = "intent" /\ x.boot = f.boot
        /\ x.epoch = f.epoch /\ x.exp = f.exp /\ x.wit = 0 /\ x.ticket = None
    BY <1>3, <2>1 DEF HostOps, Frames, Phases
  <2>4. /\ host' \in HostRecords /\ host'.gen = host.gen /\ host'.ops[o] = x
        /\ \A p \in Ops : p # o => host'.ops[p] = host.ops[p]
    BY <1>3, <2>2, <2>3 DEF HostRecords
  <2>5. /\ f.boot = rows[o].boot /\ f.epoch = rows[o].epoch /\ f.exp = rows[o].exp
    BY <1>1, <1>3 DEF OpSound, WireSound
  <2>6. host.ops[o].wit = 0 /\ tickets[o] = None
    BY <1>3, <2>2 DEF OpSound, HostSound, TicketSound
  <2>7. HostSound(o)'
    BY <1>2, <1>3, <2>3, <2>4, <2>5 DEF HostSound
  <2>8. TicketSound(o)'
    BY <1>2, <2>6 DEF TicketSound
  <2>9. /\ wire' \subseteq wire /\ host'.gen >= host.gen
        /\ \A m \in wire' : m.op = o /\ m.kind = "dispatch" =>
                              host'.ops[o].phase = "intent"
        /\ host'.ops[o].wit = host.ops[o].wit
    BY <1>2, <1>3, <2>3, <2>4, <2>6
  <2> QED
    BY <1>2, <1>3, <2>2, <2>4, <2>7, <2>8, <2>9, HostStep
<1> QED
  BY <1>4, <1>5

\* The dispatch is admitted at the expected generation, and leaves no other
\* dispatch frame of the operation.
LEMMA HostReceivesDispatchInv ==
  ASSUME IInv, NEW f \in wire, HostReceivesDispatch(f)
  PROVE  IInv'
<1>1. PICK o : o = f.op
  OBVIOUS
<1>2. /\ UNCHANGED <<authority, lease, rows, tickets, catalog, call, sent, spent>>
      /\ wire' = wire \ {f} /\ f.kind = "dispatch"
  BY DEF HostReceivesDispatch
<1>3. /\ f \in Frames /\ wire \subseteq Frames /\ o \in Ops /\ host \in HostRecords
      /\ host.gen \in Nat /\ ~Untouched(o) /\ OpSound(o)
  BY <1>1 DEF IInv, Typed, Frames, HostRecords, Untouched
<1>4. PICK t : t = HostTicket(f, "ADMITTED")
  OBVIOUS
<1>5. /\ t \in AdmissionTickets /\ t # None /\ t.boot = f.boot
      /\ t.epoch = f.epoch /\ t.state = "ADMITTED"
  <2>1. /\ t \in AdmissionTickets /\ t.boot = f.boot
        /\ t.epoch = f.epoch /\ t.state = "ADMITTED"
    BY <1>3, <1>4 DEF HostTicket, AdmissionTickets, Frames, TicketStates
  <2> QED
    BY <2>1, RecoveryNothing
<1>6. /\ f.boot = rows[o].boot /\ f.epoch = rows[o].epoch /\ f.exp = rows[o].exp
      /\ sent[o] = 1 /\ host.ops[o].phase = "intent"
  BY <1>1, <1>2, <1>3 DEF OpSound, WireSound
<1>7. /\ host.ops[o].wit = 0 /\ host.ops[o].ticket = None /\ tickets[o] = None
      /\ host.ops[o].boot = f.boot /\ host.ops[o].epoch = f.epoch
      /\ host.ops[o].exp = f.exp
  BY <1>3, <1>6 DEF OpSound, HostSound, TicketSound
<1>8. \A m \in wire' : ~(m.op = o /\ m.kind = "dispatch")
  <2>1. ASSUME NEW m \in wire, m.op = o, m.kind = "dispatch" PROVE m = f
    <3>1. /\ m.boot = rows[o].boot /\ m.epoch = rows[o].epoch
          /\ m.exp = rows[o].exp
      BY <1>3, <2>1 DEF OpSound, WireSound
    <3> QED
      BY <1>1, <1>2, <1>3, <1>6, <2>1, <3>1 DEF Frames
  <2> QED
    BY <1>2, <2>1
<1>9. \/ host' = host
      \/ /\ host.gen = f.exp
         /\ host' = [host EXCEPT !.ops[o].phase = "admitted", !.ops[o].ticket = t]
      \/ host' = [host EXCEPT !.ops[o].phase = "rejected"]
  BY <1>1, <1>4, Zenon DEF HostReceivesDispatch
<1>10. \/ host' = host
       \/ PhaseAt(host', host, o, "admitted", t) /\ host.gen = f.exp
       \/ PhaseAt(host', host, o, "rejected", host.ops[o].ticket)
  <2>1. host' = [host EXCEPT !.ops[o].phase = "admitted", !.ops[o].ticket = t]
        => PhaseAt(host', host, o, "admitted", t)
    BY <1>3, <1>5, HostAdmitsFacts, Zenon
  <2>2. host' = [host EXCEPT !.ops[o].phase = "rejected"]
        => PhaseAt(host', host, o, "rejected", host.ops[o].ticket)
    BY <1>3, <1>5, HostAdmitsFacts, Zenon
  <2> QED
    BY <1>9, <2>1, <2>2, Zenon
<1>11. CASE host' = host
  BY <1>2, <1>11, FrameDropped
<1>12. CASE host' # host
  <2>1. /\ host' \in HostRecords /\ host'.gen = host.gen
        /\ \A p \in Ops : p # o => host'.ops[p] = host.ops[p]
        /\ host'.ops[o].wit = 0
        /\ host'.ops[o].boot = rows[o].boot
        /\ host'.ops[o].epoch = rows[o].epoch
        /\ host'.ops[o].exp = rows[o].exp
    BY <1>6, <1>7, <1>10, <1>12 DEF PhaseAt
  <2>2. \/ /\ host'.ops[o].phase = "admitted" /\ host'.ops[o].ticket = t
           /\ host.gen = rows[o].exp
        \/ host'.ops[o].phase = "rejected" /\ host'.ops[o].ticket = None
    BY <1>6, <1>7, <1>10, <1>12 DEF PhaseAt
  <2>3. HostSound(o)'
    <3>1. CASE host'.ops[o].phase = "admitted"
      BY <1>2, <1>3, <1>5, <1>6, <2>1, <2>2, <3>1 DEF HostSound
    <3>2. CASE host'.ops[o].phase = "rejected"
      BY <1>2, <1>3, <1>6, <2>1, <2>2, <3>2 DEF HostSound
    <3> QED
      BY <2>2, <3>1, <3>2
  <2>4. TicketSound(o)'
    BY <1>2, <1>7 DEF TicketSound
  <2>5. /\ wire' \subseteq wire /\ host'.gen >= host.gen
        /\ \A m \in wire' : m.op = o /\ m.kind = "dispatch" =>
                              host'.ops[o].phase = "intent"
        /\ host'.ops[o].wit = host.ops[o].wit
        /\ host.ops[o].phase \in {"none", "intent", "admitted", "executed"}
    BY <1>2, <1>3, <1>6, <1>7, <1>8, <2>1
  <2> QED
    BY <1>2, <1>3, <2>1, <2>3, <2>4, <2>5, HostStep
<1> QED
  BY <1>11, <1>12

\* The game thread moves an operation that has its ticket.
LEMMA HostMovesInv ==
  ASSUME IInv, NEW o \in Ops, NEW from \in SUBSET {"admitted", "executed"},
         NEW to \in {"executed", "settled", "rejected", "lost"},
         NEW gen \in Nat, gen >= host.gen, NEW wit \in Nat, wit <= gen,
         NEW state \in TicketStates,
         host.ops[o].phase \in from,
         wit = host.ops[o].wit \/ wit > host.gen,
         to = "executed" => /\ wit > host.gen /\ from = {"admitted"}
                            /\ state = "EXECUTING",
         to = "settled" => from = {"executed"} /\ state = "SETTLED",
         to = "rejected" => wit = 0,
         to # "executed" => wit = host.ops[o].wit,
         HostMoves(o, from, to, gen, wit, state)
  PROVE  IInv'
<1>1. /\ UNCHANGED <<authority, lease, rows, tickets, catalog, call, wire, sent, spent>>
      /\ host' = [host EXCEPT !.gen = gen, !.ops[o].phase = to, !.ops[o].wit = wit,
                              !.ops[o].ticket.state = state]
  BY Zenon DEF HostMoves
<1>2. UNCHANGED <<authority, lease, rows, tickets, catalog, call, wire, sent, spent>>
  BY Zenon DEF HostMoves
<1>3. /\ host \in HostRecords /\ OpSound(o) /\ host.gen \in Nat
      /\ host.ops[o].phase \in {"admitted", "executed"}
      /\ host.ops[o].exp \in Nat /\ host.ops[o].wit \in Nat
  BY DEF IInv, Typed, HostRecords, HostOps
<1>4. /\ host.ops[o].ticket \in AdmissionTickets /\ host.ops[o].ticket # None
  BY <1>3 DEF OpSound, HostSound, HostRecords, HostOps
<1>5. MovedTo(host', host, o, gen, to, wit, state)
  <2>1. to \in Phases
    BY DEF Phases
  <2>2. host' = [host EXCEPT !.gen = gen, !.ops[o].phase = to, !.ops[o].wit = wit,
                             !.ops[o].ticket.state = state]
        => MovedTo(host', host, o, gen, to, wit, state)
    BY <1>3, <1>4, <2>1, HostMovesFacts, Zenon
  <2> QED
    BY <1>1, <2>2, Zenon
<1>6. /\ host' \in HostRecords /\ host'.gen = gen
      /\ \A p \in Ops : p # o => host'.ops[p] = host.ops[p]
      /\ host'.ops[o].phase = to /\ host'.ops[o].wit = wit
      /\ host'.ops[o].exp = host.ops[o].exp
      /\ host'.ops[o].ticket \in AdmissionTickets
      /\ host'.ops[o].ticket.state = state
  BY <1>5 DEF MovedTo
<1>7. /\ host'.ops[o].boot = rows[o].boot /\ host'.ops[o].epoch = rows[o].epoch
      /\ host'.ops[o].exp = rows[o].exp
      /\ host'.ops[o].ticket.boot = rows[o].boot
      /\ host'.ops[o].ticket.epoch = rows[o].epoch
  BY <1>3, <1>4, <1>5 DEF MovedTo, OpSound, HostSound
<1>8. host'.ops[o].ticket # None
  BY <1>6, RecoveryNothing
<1>9. /\ sent[o] = 1
      /\ host.ops[o].phase = "admitted" =>
           host.ops[o].wit = 0 /\ host.gen >= host.ops[o].exp
      /\ host.ops[o].phase = "executed" => host.ops[o].wit > host.ops[o].exp
  BY <1>3 DEF OpSound, HostSound
<1>10. /\ to \in {"executed", "settled"} => wit > host.ops[o].exp
       /\ to = "lost" => wit = 0 \/ wit > host.ops[o].exp
  BY <1>3, <1>9
<1>11. HostSound(o)'
  BY <1>2, <1>6, <1>7, <1>8, <1>9, <1>10 DEF HostSound
<1>12. TicketSound(o)'
  BY <1>2, <1>3, <1>6 DEF OpSound, TicketSound
<1>13. ~Untouched(o) /\ \A f \in wire : ~(f.op = o /\ f.kind = "dispatch")
  BY <1>3 DEF OpSound, WireSound, Untouched
<1>14. /\ wire' \subseteq wire /\ host'.gen >= host.gen
       /\ host.ops[o].phase \in {"none", "intent", "admitted", "executed"}
       /\ host'.ops[o].wit = host.ops[o].wit \/ host'.ops[o].wit > host.gen
       /\ \A f \in wire' : f.op = o /\ f.kind = "dispatch" =>
                             host'.ops[o].phase = "intent"
  BY <1>2, <1>3, <1>6, <1>13
<1> QED
  BY <1>2, <1>6, <1>11, <1>12, <1>13, <1>14, HostStep

LEMMA HostInv ==
  ASSUME IInv, NEW o \in Ops,
         \/ HostExecutes(o) \/ HostSettles(o) \/ HostRejects(o) \/ HostLosesTrack(o)
  PROVE  IInv'
<1>1. /\ host.gen \in Nat /\ host.ops[o].wit \in Nat /\ HostSound(o)
      /\ {"EXECUTING", "SETTLED", "REJECTED", "UNKNOWN"} \subseteq TicketStates
  BY DEF IInv, Typed, HostOps, OpSound, TicketStates
<1>2. host.ops[o].wit <= host.gen
  BY <1>1 DEF HostSound
<1>3. CASE HostExecutes(o)
  <2>1. /\ HostMoves(o, {"admitted"}, "executed", host.gen + 1, host.gen + 1, "EXECUTING")
        /\ host.ops[o].phase = "admitted"
    BY <1>3, Zenon DEF HostExecutes, HostMoves
  <2>2. PICK g \in Nat : g = host.gen + 1 /\ g > host.gen
    BY <1>1
  <2>3. /\ HostMoves(o, {"admitted"}, "executed", g, g, "EXECUTING")
        /\ host.ops[o].phase \in {"admitted"} /\ g >= host.gen /\ g <= g
        /\ {"admitted"} \in SUBSET {"admitted", "executed"}
    BY <1>1, <2>1, <2>2
  <2> QED
    BY <1>1, <2>2, <2>3, HostMovesInv
<1>4. CASE HostSettles(o)
  <2>1. /\ HostMoves(o, {"executed"}, "settled", host.gen, host.ops[o].wit, "SETTLED")
        /\ host.ops[o].phase \in {"executed"}
    BY <1>4, Zenon DEF HostSettles, HostMoves
  <2>2. host.gen >= host.gen /\ {"executed"} \in SUBSET {"admitted", "executed"}
    BY <1>1
  <2> QED
    BY <1>1, <1>2, <2>1, <2>2, HostMovesInv
<1>5. CASE HostRejects(o)
  <2>1. /\ HostMoves(o, {"admitted"}, "rejected", host.gen, 0, "REJECTED")
        /\ host.ops[o].phase \in {"admitted"}
    BY <1>5, Zenon DEF HostRejects, HostMoves
  <2>2. /\ host.gen >= host.gen /\ {"admitted"} \in SUBSET {"admitted", "executed"}
        /\ 0 <= host.gen /\ 0 \in Nat
    BY <1>1
  <2>3. host.ops[o].wit = 0
    BY <1>1, <2>1 DEF HostSound
  <2> QED
    BY <1>1, <2>1, <2>2, <2>3, HostMovesInv
<1>6. CASE HostLosesTrack(o)
  <2>1. /\ HostMoves(o, {"admitted", "executed"}, "lost", host.gen, host.ops[o].wit,
                     "UNKNOWN")
        /\ host.ops[o].phase \in {"admitted", "executed"}
    BY <1>6, Zenon DEF HostLosesTrack, HostMoves
  <2>2. /\ host.gen >= host.gen
        /\ {"admitted", "executed"} \in SUBSET {"admitted", "executed"}
    BY <1>1
  <2> QED
    BY <1>1, <1>2, <2>1, <2>2, HostMovesInv
<1> QED
  BY <1>3, <1>4, <1>5, <1>6

-----------------------------------------------------------------------------
(* The invariant holds.                                                     *)

LEMMA InitInv ==
  ASSUME Init
  PROVE  IInv
<1>1. /\ rows = [o \in Ops |-> None] /\ tickets = [o \in Ops |-> None]
      /\ catalog = EmptyCatalog /\ call = Idle /\ wire = {}
      /\ sent = [o \in Ops |-> 0] /\ spent = {}
      /\ lease = [epoch |-> 0, live |-> FALSE]
  BY DEF Init
<1>2. authority \in [boot : Nat, inc : Incarnations, ready : BOOLEAN]
  BY DEF Init
<1>3. /\ host \in HostRecords /\ host.gen = 1
      /\ \A o \in Ops : /\ host.ops[o].phase = "none" /\ host.ops[o].wit = 0
                        /\ host.ops[o].ticket = None
  <2>1. PICK h : h = [phase |-> "none", boot |-> 0, epoch |-> 0, exp |-> 0,
                      wit |-> 0, ticket |-> None]
    OBVIOUS
  <2>2. h \in HostOps /\ h.phase = "none" /\ h.wit = 0 /\ h.ticket = None
    BY <2>1 DEF HostOps, Phases
  <2>3. host = [fence |-> 0, gen |-> 1, ops |-> [o \in Ops |-> h]]
    BY <2>1 DEF Init
  <2> QED
    BY <2>2, <2>3 DEF HostRecords
<1>4. call \in CallRecords /\ call.kind = "idle" /\ call.op = None
  BY <1>1 DEF Idle, CallRecords, CallKinds
<1>5. catalog \in CatalogRecords /\ catalog.current = None /\ catalog.observed = None
  BY <1>1 DEF EmptyCatalog, CatalogRecords
<1>6. Typed
  BY <1>1, <1>2, <1>3, <1>4, <1>5 DEF Typed, HostRecords, CallRecords, CatalogRecords
<1>7. ASSUME NEW o \in Ops PROVE OpSound(o)
  <2>1. WireSound(o)
    BY <1>1, <1>3 DEF WireSound, Untouched
  <2>2. HostSound(o)
    BY <1>3 DEF HostSound
  <2>3. TicketSound(o) /\ StoreSound(o)
    BY <1>1 DEF TicketSound, StoreSound, Recorded
  <2> QED
    BY <2>1, <2>2, <2>3 DEF OpSound
<1>8. OneUnresolved
  BY <1>1 DEF OneUnresolved, Recorded
<1>9. CallSound /\ CatalogSound /\ WitnessSound
  BY <1>1, <1>4, <1>5 DEF CallSound, CatalogSound, WitnessSound
<1> QED
  BY <1>6, <1>7, <1>8, <1>9 DEF IInv

LEMMA StepInv ==
  ASSUME IInv, [Next]_vars
  PROVE  IInv'
<1>1. CASE \E inc \in Incarnations : Bootstrap(inc) \/ Restart(inc)
  BY <1>1, BootstrapInv, RestartInv
<1>2. CASE HostFence \/ GrantLease \/ EndLease
  BY <1>2, HostFenceInv, LeaseInv
<1>3. CASE \E o \in Ops, g \in 1..MaxGen : Intent(o, g)
  BY <1>3, IntentInv
<1>4. CASE \E o \in Ops, v3 \in BOOLEAN : Dispatch(o, v3)
  BY <1>4, ForwardIntentInv DEF Dispatch
<1>5. CASE \E o \in Ops : V3Dispatch(o)
  BY <1>5, V3DispatchInv
<1>6. CASE V3Marks
  <2>1. call.kind = "mark" /\ call.op \in Ops /\ Recorded(call.op)
    BY <1>6 DEF V3Marks, IInv, CallSound
  <2>2. CASE ForwardIntent(call.op, TRUE)
    BY <2>1, <2>2, ForwardIntentInv
  <2>3. CASE /\ call' = Idle
             /\ UNCHANGED <<authority, lease, rows, tickets, catalog, wire, host>>
             /\ UNCHANGED <<sent, spent>>
    <3>1. lease.epoch \in Nat /\ host.gen \in Nat
      BY DEF IInv, Typed
    <3>2. CallSound' /\ WitnessSound' /\ call' \in CallRecords
      BY <2>3, CallIdle
    <3>3. (\A p \in Ops : OpSound(p))' /\ OneUnresolved'
      BY <2>3, OpsQuiet
    <3>4. CatalogSound'
      BY <2>3, <3>1, CatalogKept
    <3>5. Typed'
      BY <2>3, <3>2 DEF IInv, Typed, CallRecords
    <3> QED
      BY <3>2, <3>3, <3>4, <3>5 DEF IInv
  <2> QED
    BY <1>6, <2>2, <2>3 DEF V3Marks
<1>7. CASE IntentAnswered \/ ForwardFails \/ DispatchAnswered \/ OutcomeRecorded
  BY <1>7, IntentAnsweredInv, ForwardFailsInv, DispatchAnsweredInv, OutcomeRecordedInv
<1>8. CASE PostStateRead \/ ObserveState
  BY <1>8, ReadInv
<1>9. CASE \E o \in Ops, kind \in {"lookup", "reconcile"} :
             AskFails(o, kind) \/ NotFound(o, kind) \/ EvidenceArrives(o, kind)
  <2>1. PICK o \in Ops, kind \in {"lookup", "reconcile"} :
          AskFails(o, kind) \/ NotFound(o, kind) \/ EvidenceArrives(o, kind)
    BY <1>9
  <2>2. NotFound(o, kind) => UNCHANGED vars
    BY DEF NotFound
  <2> QED
    BY <2>1, <2>2, AskFailsInv, EvidenceArrivesInv, UnchangedInv
<1>10. CASE EvidencePersisted
  BY <1>10, EvidencePersistedInv
<1>11. CASE \E g \in 1..MaxGen : CaptureLegalActions(g)
  BY <1>11, CaptureInv
<1>12. CASE \E o \in Ops : Archive(o)
  BY <1>12, ArchiveInv
<1>13. CASE \E f \in wire : HostReceivesIntent(f) \/ HostReceivesDispatch(f)
  BY <1>13, HostReceivesIntentInv, HostReceivesDispatchInv
<1>14. CASE \E o \in Ops : \/ HostExecutes(o) \/ HostSettles(o)
                           \/ HostRejects(o) \/ HostLosesTrack(o)
  BY <1>14, HostInv
<1>15. CASE UNCHANGED vars
  BY <1>15, UnchangedInv
<1> QED
  BY <1>1, <1>2, <1>3, <1>4, <1>5, <1>6, <1>7, <1>8, <1>9, <1>10, <1>11, <1>12,
     <1>13, <1>14, <1>15 DEF Next

LEMMA SpecInv == Spec => []IInv
<1>1. Init => IInv
  BY InitInv
<1>2. IInv /\ [Next]_vars => IInv'
  BY StepInv
<1> QED
  BY <1>1, <1>2, PTL DEF Spec

-----------------------------------------------------------------------------
(* What follows.                                                            *)

\* What can still take effect is unresolved in the store.
LEMMA InFlightUnresolved ==
  ASSUME IInv, NEW o \in Ops, MayTakeEffect(o)
  PROVE  Recorded(o) /\ rows[o].state \in Unresolved
<1>1. OpSound(o) /\ rows \in StoredRows
  BY DEF IInv, Typed, StoredRows
<1>2. CASE call.op = o /\ call.kind \in {"mark", "intent"}
  BY <1>2 DEF IInv, CallSound, Unresolved
<1>3. CASE \/ \E f \in wire : f.op = o /\ f.kind = "dispatch"
           \/ host.ops[o].phase = "admitted"
  <2>1. host.ops[o].phase \in {"intent", "admitted"}
    BY <1>1, <1>3 DEF OpSound, WireSound
  <2>2. Recorded(o)
    BY <1>1, <2>1 DEF OpSound, WireSound, Untouched
  <2>3. rows[o].state \notin Terminal
    BY <1>1, <2>1, <2>2 DEF OpSound, StoreSound, Terminal
  <2> QED
    BY <1>1, <2>2, <2>3 DEF StoredRows, OperationRows, Recorded
<1> QED
  BY <1>2, <1>3 DEF MayTakeEffect

\* No operation is sent to the host for execution twice: the frame is written
\* only by the handler that marked the row, and a row is marked once.
THEOREM DispatchedOnceTheorem == Spec => []DispatchedOnce
<1>1. IInv => DispatchedOnce
  BY DEF IInv, OpSound, WireSound, DispatchedOnce
<1> QED
  BY <1>1, SpecInv, PTL

\* At most one operation of an incarnation can still take effect, although
\* the frames of earlier boots and abandoned exchanges are still under way.
THEOREM OneInFlightTheorem == Spec => []OneInFlight
<1>1. IInv => OneInFlight
  <2>1. SUFFICES ASSUME IInv, NEW o \in Ops, NEW p \in Ops,
                        MayTakeEffect(o), MayTakeEffect(p), rows[o].inc = rows[p].inc
                 PROVE  o = p
    BY DEF OneInFlight
  <2>2. /\ Recorded(o) /\ rows[o].state \in Unresolved
        /\ Recorded(p) /\ rows[p].state \in Unresolved
    BY <2>1, InFlightUnresolved
  <2> QED
    BY <2>1, <2>2 DEF IInv, OneUnresolved
<1> QED
  BY <1>1, SpecInv, PTL

\* A finished row says what the host did, whichever answer it came from and
\* whatever the host did while the answer was on its way.
THEOREM OutcomeTheorem == Spec => []OutcomeTruthful
<1>1. IInv => OutcomeTruthful
  <2>1. SUFFICES ASSUME IInv, NEW o \in Ops, Recorded(o)
                 PROVE  /\ rows[o].state \in {"SETTLED", "RECONCILED"} =>
                             host.ops[o].wit # 0 /\ rows[o].wit = host.ops[o].wit
                        /\ rows[o].state = "REJECTED" =>
                             host.ops[o].wit = 0 /\ ~MayTakeEffect(o)
    BY DEF OutcomeTruthful
  <2>2. StoreSound(o) /\ HostSound(o)
    BY <2>1 DEF IInv, OpSound
  <2>3. rows[o].state = "REJECTED" => ~MayTakeEffect(o)
    BY <2>1, InFlightUnresolved DEF Unresolved
  <2> QED
    BY <2>1, <2>2, <2>3 DEF StoreSound, HostSound
<1> QED
  BY <1>1, SpecInv, PTL

\* The evidence of a settled operation can always be imported: its ticket is
\* the one stored or a later state of it, and its witness is past the row's.
THEOREM ImportableTheorem == Spec => []SettlementImportable
<1>1. IInv => SettlementImportable
  <2>1. SUFFICES ASSUME IInv, NEW o \in Ops, Recorded(o),
                        rows[o].state \in Unresolved, host.ops[o].phase = "settled"
                 PROVE  /\ CanRecordHistoricalTicket(o, HostRecord(o, TRUE).ticket)
                        /\ valid_transition(rows[o].state, "RECONCILED")
                        /\ HostRecord(o, TRUE).wit > rows[o].exp
    BY DEF SettlementImportable
  <2>2. WireSound(o) /\ HostSound(o) /\ TicketSound(o)
    BY <2>1 DEF IInv, OpSound
  <2>3. HostRecord(o, TRUE).ticket = host.ops[o].ticket
    BY DEF HostRecord
  <2>4. HostRecord(o, TRUE).wit = host.ops[o].wit
    BY <2>1 DEF HostRecord
  <2>5. valid_transition(rows[o].state, "RECONCILED")
    BY <2>1, <2>2 DEF WireSound, Untouched, valid_transition, Unresolved
  <2>6. host.ops[o].wit > rows[o].exp
    BY <2>1, <2>2 DEF HostSound
  <2>7. /\ rows[o].boot = host.ops[o].ticket.boot
        /\ rows[o].epoch = host.ops[o].ticket.epoch
        /\ host.ops[o].ticket.state = "SETTLED"
    BY <2>1, <2>2 DEF HostSound
  <2>8. ASSUME NEW from \in {"ADMITTED", "EXECUTING"}
        PROVE  valid_ticket_transition(from, "SETTLED")
    BY DEF valid_ticket_transition
  <2>9. SameTicket(o, host.ops[o].ticket)
    BY <2>1, <2>2, <2>7, <2>8 DEF TicketSound, SameTicket
  <2> QED
    BY <2>3, <2>4, <2>5, <2>6, <2>7, <2>9 DEF CanRecordHistoricalTicket
<1> QED
  BY <1>1, SpecInv, PTL

\* A late legal-actions answer does not restore a catalog that was used up.
THEOREM SpentTheorem == Spec => []SpentIsNotRestored
<1>1. IInv => SpentIsNotRestored
  <2>1. SUFFICES ASSUME IInv, catalog.current \in spent PROVE FALSE
    BY DEF SpentIsNotRestored
  <2>2. PICK k : k = catalog.current
    OBVIOUS
  <2>3. k \in CatalogKeys /\ SpentSound(k) /\ k.gen \in Nat /\ k.epoch \in Nat
    BY <2>1, <2>2 DEF IInv, Typed, CatalogSound, CatalogKeys
  <2>4. k # None
    BY <2>3, RecoveryNothing
  <2>5. catalog.observed = k
    BY <2>1, <2>2, <2>4 DEF IInv, CatalogSound
  <2>6. ~Beyond(k, k)
    BY <2>3 DEF Beyond
  <2> QED
    BY <2>2, <2>3, <2>4, <2>5, <2>6 DEF SpentSound
<1> QED
  BY <1>1, SpecInv, PTL
=============================================================================
