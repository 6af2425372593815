------------------------- MODULE RuntimeV2Ledger -------------------------
(* The Runtime-v2 operation ledger of the attached service, its journal,    *)
(* and the crashes and restarts of the service around them.  One worker     *)
(* thread owns the ledger, so handlers do not overlap; what interleaves     *)
(* with them is the host (which may act on a request long after the gateway *)
(* stopped waiting for it) and a crash of the service between two steps.    *)
(*                                                                          *)
(* An observation is a generation and whether an action is legal then       *)
(* (host ready, player's turn).  A request is an operation id and the       *)
(* generation it was made for: the rest of the request is one digest.       *)

EXTENDS Naturals, FiniteSets

CONSTANTS
  Ops,                  \* operation ids a caller may use under the lease
  operation_capacity,   \* RuntimeV2LedgerConfig::operation_capacity
  MaxGeneration,        \* bound: the host stops advancing here
  MaxCrashes            \* bound: crashes of the service considered

NoOp == "none"

ASSUME LedgerConfig ==
  /\ operation_capacity \in Nat \ {0}
  /\ MaxGeneration \in Nat
  /\ IsFiniteSet(Ops)
  /\ NoOp \notin Ops

VARIABLES
  operations,    \* RuntimeV2Ledger.operations, in memory
  observation,   \* RuntimeV2Ledger.binding.observation, in memory
  journal,       \* the journal file: the snapshot a restart would find
  worker,        \* where the worker thread is, and for which operation
  host,          \* external: the host's observation, and its receipts
  crashes,       \* crashes so far
  writes, effect, answers   \* history: what the environment has seen

gateway == <<operations, observation, journal, worker, crashes>>
history == <<writes, effect, answers>>
vars == <<operations, observation, journal, worker, host, crashes,
          writes, effect, answers>>

Generation == 0..MaxGeneration
Observation == [generation : Generation, phase : {"Playable", "Blocked"}]

Status == {"Accepted", "Settled", "Rejected", "Unknown", "Cancelled"}

\* An entry of the map: the generation of the request, the status of the
\* result (InFlight while there is none) and the generation of the result.
Entry ==
  [status : Status \cup {"InFlight", "Absent"}, asked : Generation,
   at : Generation]
Absent == [status |-> "Absent", asked |-> 0, at |-> 0]

Persisted == [operations : [Ops -> Entry], observation : Observation]

\* What the host keeps for an operation it was sent: it is still unread, was
\* refused without a parsable answer, or has a receipt.
Receipt ==
  [status : {"Never", "Unread", "Refused", "Accepted", "Settled", "Rejected"},
   asked : Generation, observation : Observation]

Initial == [generation |-> 0, phase |-> "Blocked"]
Empty == [op \in Ops |-> Absent]

\* What the journal holds of the ledger.  A service that finds no journal
\* file starts as from the empty snapshot.
persisted_state(ops, seen) == [operations |-> ops, observation |-> seen]

Idle == [at |-> "idle", op |-> NoOp]
Down == [at |-> "down", op |-> NoOp]

Init ==
  /\ operations = Empty
  /\ observation = Initial
  /\ journal = persisted_state(Empty, Initial)
  /\ worker = Idle
  /\ host = [observation |-> Initial,
             receipts |-> [op \in Ops |->
               [status |-> "Never", asked |-> 0, observation |-> Initial]]]
  /\ crashes = 0
  /\ writes = [op \in Ops |-> 0]
  /\ effect = [op \in Ops |-> "none"]
  /\ answers = [op \in Ops |-> {}]

-----------------------------------------------------------------------------
KnownIn(ops) == {op \in Ops : ops[op].status # "Absent"}
Retained == KnownIn(operations)

Result(status, asked, at) == [status |-> status, asked |-> asked, at |-> at]
Unknown(asked) == Result("Unknown", asked, asked)

\* The answers that claim something; the others are not kept.
Definite == {"Settled", "Rejected"}
Told(op, status) ==
  answers' = [answers EXCEPT ![op] = @ \cup ({status} \cap Definite)]

\* journal::store.  A failure before the rename leaves the old file; after
\* it (the directory could not be synced) either file may be found later.
Stored(ops, seen) == journal' = persisted_state(ops, seen)

StoreFails(ops, seen) == journal' \in {journal, persisted_state(ops, seen)}

-----------------------------------------------------------------------------
(* runtime_v2_action: the steps of submit_action_inner.                     *)

\* idempotency_canonical_json and request_digest, without the correlation:
\* the requests for one operation differ in the generation only.
SameRequest(op, generation) == generation = operations[op].asked

\* replay_or_conflict: an exact duplicate gets the retained result, from
\* memory; a different request under the same id is refused without effect.
Replay(op, generation) ==
  /\ worker.at = "idle"
  /\ op \in Retained
  /\ SameRequest(op, generation)
  /\ Told(op, operations[op].status)
  /\ UNCHANGED <<gateway, host, writes, effect>>

\* A new request made for another generation than the one observed, or while
\* no action is legal, is rejected and retained.
SubmitRejected(op, generation) ==
  /\ worker.at = "idle"
  /\ op \notin Retained
  /\ Cardinality(Retained) < operation_capacity
  /\ generation # observation.generation \/ observation.phase = "Blocked"
  /\ LET rejected == [operations EXCEPT ![op] =
                        Result("Rejected", generation, observation.generation)]
     IN \/ /\ operations' = rejected
           /\ Stored(rejected, observation)
           /\ Told(op, "Rejected")
        \/ /\ UNCHANGED <<operations, answers>>
           /\ StoreFails(rejected, observation)
  /\ UNCHANGED <<observation, worker, host, crashes, writes, effect>>

\* The operation is retained without a result and checkpointed; a failed
\* checkpoint removes it and nothing is dispatched.
SubmitAdmitted(op, generation) ==
  /\ worker.at = "idle"
  /\ op \notin Retained
  /\ Cardinality(Retained) < operation_capacity
  /\ generation = observation.generation
  /\ observation.phase = "Playable"
  /\ LET admitted == [operations EXCEPT ![op] =
                        Result("InFlight", generation, generation)]
     IN \/ /\ operations' = admitted
           /\ Stored(admitted, observation)
           /\ worker' = [at |-> "dispatch", op |-> op]
        \/ /\ UNCHANGED <<operations, worker>>
           /\ StoreFails(admitted, observation)
  /\ UNCHANGED <<observation, host, crashes, history>>

\* forward_runtime_v2 connects and writes the request.  Whether the host
\* will ever read it is not known to the gateway.
Dispatch ==
  /\ worker.at = "dispatch"
  /\ worker' = [worker EXCEPT !.at = "await"]
  /\ writes' = [writes EXCEPT ![worker.op] = @ + 1]
  /\ LET arrived == [host.receipts[worker.op] EXCEPT !.status = "Unread",
                       !.asked = operations[worker.op].asked]
     IN \/ UNCHANGED host
        \/ host' = [host EXCEPT !.receipts[worker.op] = arrived]
  /\ UNCHANGED <<operations, observation, journal, crashes, effect, answers>>

\* The result is retained and checkpointed before it is returned; a failed
\* checkpoint turns it into Unknown, in memory.
Conclude(result, seen) ==
  LET op == worker.op
      concluded == [operations EXCEPT ![op] = result]
  IN /\ \/ /\ operations' = concluded
           /\ Stored(concluded, seen)
           /\ Told(op, result.status)
        \/ /\ operations' = [operations EXCEPT ![op] = Unknown(@.asked)]
           /\ StoreFails(concluded, seen)
           /\ Told(op, "Unknown")
     /\ observation' = seen
     /\ worker' = Idle
     /\ UNCHANGED <<host, crashes, writes, effect>>

\* The connection could not be made: nothing was written.
DispatchFails ==
  /\ worker.at = "dispatch"
  /\ Conclude(Result("Rejected", operations[worker.op].asked,
                     observation.generation), observation)

\* accept_forwarded_response: what the ledger makes of the host's answer.
ForwardedResult(asked, receipt) ==
  LET seen == receipt.observation
  IN CASE receipt.status = "Accepted" /\ seen.generation = asked
            /\ seen = observation -> Result("Accepted", asked, asked)
       [] receipt.status = "Settled" /\ seen.generation > asked ->
            Result("Settled", asked, seen.generation)
       [] receipt.status = "Rejected"
            /\ seen.generation = observation.generation ->
            Result("Rejected", asked, seen.generation)
       [] receipt.status = "Refused" ->
            Result("Rejected", asked, observation.generation)
       [] OTHER -> Unknown(asked)

ReplyArrives ==
  /\ worker.at = "await"
  /\ LET op == worker.op
         receipt == host.receipts[op]
         result == ForwardedResult(operations[op].asked, receipt)
     IN /\ receipt.status \notin {"Never", "Unread"}
        /\ Conclude(result, IF result.status = "Settled"
                            THEN receipt.observation ELSE observation)

\* (Mutant of ReplyLost: a fault after the write is taken for one before.)
ReplyLostRejected ==
  /\ worker.at = "await"
  /\ Conclude(Result("Rejected", operations[worker.op].asked,
                     observation.generation), observation)

\* (Mutant of ReplyLost: the action is presumed to have advanced the game.)
ReplyLostPresumed ==
  /\ worker.at = "await"
  /\ Conclude(Unknown(operations[worker.op].asked),
              [observation EXCEPT !.generation = @ + 1])

\* Timeout, disconnect or a malformed answer after the write.
ReplyLost ==
  /\ worker.at = "await"
  /\ Conclude(Unknown(operations[worker.op].asked), observation)

-----------------------------------------------------------------------------
(* The other handlers.                                                      *)

\* cancel_before_dispatch: retained in memory only.  The attached service
\* does not route to it; an embedder of the ledger may call it.
Cancel(op, generation) ==
  /\ worker.at = "idle"
  /\ op \notin Retained
  /\ Cardinality(Retained) < operation_capacity
  /\ generation = observation.generation
  /\ operations' = [operations EXCEPT ![op] =
                      Result("Cancelled", generation, generation)]
  /\ Told(op, "Cancelled")
  /\ UNCHANGED <<observation, journal, worker, host, crashes, writes, effect>>

\* (Mutant of ReceiptAccepted: a receipt of another generation is believed.)
ReceiptAcceptedAlways(asked, receipt) ==
  receipt.status \in {"Accepted", "Settled", "Rejected"}

\* accept_receipt: which receipts replace an Accepted or Unknown result.
ReceiptAccepted(asked, receipt) ==
  \/ receipt.status = "Settled" /\ receipt.observation.generation > asked
  \/ /\ receipt.status \in {"Accepted", "Rejected"}
     /\ receipt.observation.generation = asked

\* reconcile_inner: a final result is repeated without asking the host.
Reconcilable(op) == operations[op].status \in {"Accepted", "Unknown"}

\* runtime_v2_reconcile: the result is replaced by the host's receipt if
\* there is an acceptable one (the lookup may also fail), then stored.  A
\* failed store is reported, and the result stays replaced in memory.
Reconcile(op) ==
  /\ worker.at = "idle"
  /\ op \in Retained
  /\ LET entry == operations[op]
         receipt == host.receipts[op]
         seen == receipt.observation
         settled == /\ receipt.status = "Settled"
                    /\ seen.generation > observation.generation
     IN \/ /\ Reconcilable(op)
           /\ ReceiptAccepted(entry.asked, receipt)
           /\ operations' = [operations EXCEPT ![op] =
                Result(receipt.status, entry.asked, seen.generation)]
           /\ observation' = IF settled THEN seen ELSE observation
        \/ UNCHANGED <<operations, observation>>
  /\ \/ Stored(operations', observation') /\ Told(op, operations'[op].status)
     \/ StoreFails(operations', observation') /\ UNCHANGED answers
  /\ UNCHANGED <<worker, host, crashes, writes, effect>>

\* accept_state_response: an older observation is refused.
StateAccepted(seen) == seen.generation >= observation.generation

\* runtime_v2_state: the host's observation is adopted and stored.
RefreshState ==
  /\ worker.at = "idle"
  /\ StateAccepted(host.observation)
  /\ observation' = host.observation
  /\ UNCHANGED operations
  /\ \/ Stored(operations, host.observation)
     \/ StoreFails(operations, host.observation)
  /\ UNCHANGED <<worker, host, crashes, history>>

-----------------------------------------------------------------------------
(* Crash and restart of the service.                                        *)

\* Memory is lost; the journal and the host are not.
Crash ==
  /\ worker.at # "down"
  /\ crashes < MaxCrashes
  /\ crashes' = crashes + 1
  /\ worker' = Down
  /\ operations' = Empty
  /\ observation' = Initial
  /\ UNCHANGED <<journal, host, history>>

\* restore_state, entry by entry: work without a final result is uncertain.
RestoredEntry(entry) ==
  IF entry.status \in {"InFlight", "Accepted"}
  THEN Unknown(entry.asked) ELSE entry

\* What restore_state demands of a journal before it adopts it.
EntryValid(entry, seen) ==
  /\ entry.status \in {"Accepted", "Settled", "Rejected", "Cancelled"} =>
       entry.at <= seen.generation
  /\ entry.status = "Settled" => entry.at > entry.asked
  /\ entry.status = "Accepted" => entry.at = entry.asked

RestoreAccepts(state) ==
  /\ Cardinality(KnownIn(state.operations)) <= operation_capacity
  /\ \A op \in Ops : EntryValid(state.operations[op], state.observation)

\* from_environment: the service does not start from a refused journal.
Restart ==
  /\ worker.at = "down"
  /\ RestoreAccepts(journal)
  /\ worker' = Idle
  /\ operations' = [op \in Ops |-> RestoredEntry(journal.operations[op])]
  /\ observation' = journal.observation
  /\ UNCHANGED <<journal, host, crashes, history>>

-----------------------------------------------------------------------------
(* The host: external, as the ledger relies on it.  It acts on a request    *)
(* only for the generation it is in, reports truthfully, and its            *)
(* generation grows with every action.                                      *)

Advanced(phase) ==
  [generation |-> host.observation.generation + 1, phase |-> phase]

HostRecords(op, status, seen) ==
  host' = [host EXCEPT !.observation = seen,
             !.receipts[op].status = status,
             !.receipts[op].observation = seen]

HostRefuses(op) ==
  /\ host.receipts[op].status \in {"Unread", "Accepted"}
  /\ \/ HostRecords(op, "Rejected", host.observation)
     \/ /\ host.receipts[op].status = "Unread"
        /\ HostRecords(op, "Refused", host.observation)
  /\ effect' = [effect EXCEPT ![op] = "refused"]
  /\ UNCHANGED <<gateway, writes, answers>>

HostAccepts(op) ==
  /\ host.receipts[op].status = "Unread"
  /\ host.receipts[op].asked = host.observation.generation
  /\ host.observation.phase = "Playable"
  /\ HostRecords(op, "Accepted", host.observation)
  /\ UNCHANGED <<gateway, history>>

HostActs(op) ==
  /\ \/ /\ host.receipts[op].status = "Unread"
        /\ host.receipts[op].asked = host.observation.generation
        /\ host.observation.phase = "Playable"
     \/ host.receipts[op].status = "Accepted"
  /\ host.observation.generation < MaxGeneration
  /\ \E phase \in {"Playable", "Blocked"} :
       HostRecords(op, "Settled", Advanced(phase))
  /\ effect' = [effect EXCEPT ![op] = "done"]
  /\ UNCHANGED <<gateway, writes, answers>>

HostMoves ==
  /\ \E phase \in {"Playable", "Blocked"} :
       \/ host' = [host EXCEPT !.observation.phase = phase]
       \/ /\ host.observation.generation < MaxGeneration
          /\ host' = [host EXCEPT !.observation = Advanced(phase)]
  /\ UNCHANGED <<gateway, history>>

-----------------------------------------------------------------------------
Next ==
  \/ \E op \in Ops, generation \in Generation :
       \/ Replay(op, generation)
       \/ SubmitRejected(op, generation)
       \/ SubmitAdmitted(op, generation)
       \/ Cancel(op, generation)
  \/ Dispatch
  \/ DispatchFails
  \/ ReplyArrives
  \/ ReplyLost
  \/ \E op \in Ops : Reconcile(op)
  \/ RefreshState
  \/ Crash
  \/ Restart
  \/ \E op \in Ops : HostRefuses(op) \/ HostAccepts(op) \/ HostActs(op)
  \/ HostMoves

Spec == Init /\ [][Next]_vars

-----------------------------------------------------------------------------
(* Properties.                                                              *)

\* Every variable keeps its shape: in particular generations stay in range
\* and the worker has an operation exactly while it is dispatching one.
TypeOK ==
  /\ operations \in [Ops -> Entry]
  /\ observation \in Observation
  /\ journal \in Persisted
  /\ worker \in {Idle, Down} \cup [at : {"dispatch", "await"}, op : Ops]
  /\ host \in [observation : Observation, receipts : [Ops -> Receipt]]
  /\ crashes \in Nat
  /\ writes \in [Ops -> Nat]
  /\ effect \in [Ops -> {"none", "done", "refused"}]
  /\ answers \in [Ops -> SUBSET Definite]

InJournal(op) == journal.operations[op].status # "Absent"

\* An operation that was ever written to the host is known to the journal,
\* and to the ledger whenever the service is up, whatever stores failed and
\* wherever it crashed: this is what keeps submit_action_inner from
\* dispatching it again.
WrittenIsRetained ==
  \A op \in Ops : writes[op] > 0 =>
    /\ InJournal(op)
    /\ worker.at # "down" => op \in Retained

\* restore_state never refuses a journal the service itself left behind, so
\* a crash at any point does not keep the service from starting again.
JournalRestorable == RestoreAccepts(journal)

\* The gateway never claims a newer observation than the host has reached,
\* in memory or in the journal: a stale one can be refreshed, a future one
\* would refuse every refresh (accept_state_response rejects a regression).
ObservationReachable ==
  /\ observation.generation <= host.observation.generation
  /\ journal.observation.generation <= host.observation.generation

\* The ledger with its journal implements the promise to its callers: at
\* most one write per operation id, and truthful answers.
Once == INSTANCE AtMostOnce
ImplementsAtMostOnce == Once!Spec

-----------------------------------------------------------------------------
(* The inductive invariant behind these properties.                         *)

\* What an entry for op, in memory or in the journal, says about the world.
Sound(op, entry) ==
  /\ entry.status = "Settled" => effect[op] = "done"
  /\ entry.status = "Rejected" => writes[op] = 0 \/ effect[op] = "refused"
  /\ entry.status \in {"Absent", "Cancelled"} => writes[op] = 0

\* A rejection a caller relies on that the host knows nothing of is retained
\* wherever a later submission is looked up.
RejectionKept(op, entry) ==
  "Rejected" \in answers[op] /\ writes[op] = 0 => entry.status = "Rejected"

EntriesSound(ops) ==
  \A op \in Ops : Sound(op, ops[op]) /\ RejectionKept(op, ops[op])

\* Such a rejection is in the journal before it is in any answer.
RejectedIsStored ==
  \A op \in Ops : operations[op].status = "Rejected" /\ writes[op] = 0 =>
    journal.operations[op].status = "Rejected"

LedgerSound ==
  /\ worker.at # "down" => EntriesSound(operations)
  /\ RejectedIsStored
  /\ EntriesSound(journal.operations)

WorkerConsistent ==
  /\ worker.at \in {"dispatch", "await"} =>
       /\ operations[worker.op].status = "InFlight"
       /\ operations[worker.op].asked = observation.generation
       /\ journal.operations[worker.op].status = "InFlight"
  /\ worker.at = "dispatch" => writes[worker.op] = 0
  /\ worker.at = "await" => writes[worker.op] = 1

HostConsistent ==
  \A op \in Ops :
    LET receipt == host.receipts[op]
    IN /\ writes[op] \in {0, 1}
       /\ receipt.status # "Never" => writes[op] = 1
       /\ effect[op] = CASE receipt.status = "Settled" -> "done"
                         [] receipt.status \in {"Rejected", "Refused"} -> "refused"
                         [] OTHER -> "none"
       /\ receipt.observation.generation <= host.observation.generation

\* What restore_state will ask of a snapshot holds of the ledger at any time
\* a snapshot may be taken.
SnapshotValid(ops, seen) ==
  \A op \in Ops :
    /\ EntryValid(ops[op], seen)
    /\ ops[op].status \in {"InFlight", "Accepted", "Unknown"} =>
         ops[op].asked <= seen.generation

SnapshotsValid ==
  /\ SnapshotValid(operations, observation)
  /\ SnapshotValid(journal.operations, journal.observation)

CapacityKept ==
  /\ Cardinality(KnownIn(operations)) <= operation_capacity
  /\ Cardinality(KnownIn(journal.operations)) <= operation_capacity

\* The six parts together are preserved by every step, crashes included.
IInv ==
  /\ TypeOK
  /\ LedgerSound
  /\ WorkerConsistent
  /\ HostConsistent
  /\ ObservationReachable
  /\ SnapshotsValid
=============================================================================
