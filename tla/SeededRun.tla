---------------------------- MODULE SeededRun ----------------------------
(* The seeded-run ledger of the attached service, its sidecar journal, and  *)
(* the crashes and restarts of the service around them.  It resembles the   *)
(* Runtime-v2 ledger and differs where it matters: the first caller sets    *)
(* the generation of the binding, a rejection stays in memory when its      *)
(* checkpoint fails, and an answer that does not match the request leaves   *)
(* the operation without a result.                                          *)
(*                                                                          *)
(* A request is an operation id and a generation: seed, mode and context    *)
(* are one digest.  The handlers run on one worker thread.                  *)

EXTENDS Naturals, FiniteSets

CONSTANTS
  Ops,                  \* operation ids a caller may use under the lease
  operation_capacity,   \* SeededRunLedgerConfig::operation_capacity
  HostMismatches,       \* does the host ever answer for another generation?
  MaxGeneration,        \* bound: the host starts no run after this one
  MaxCrashes            \* bound: crashes of the service considered

NoOp == "none"

ASSUME SeededConfig ==
  /\ operation_capacity \in Nat \ {0}
  /\ MaxGeneration \in Nat
  /\ HostMismatches \in BOOLEAN
  /\ IsFiniteSet(Ops)
  /\ NoOp \notin Ops

VARIABLES
  operations,    \* SeededRunLedger.operations, in memory
  generation,    \* SeededRunLedger.binding.generation, in memory
  journal,       \* the sidecar file: the snapshot a restart would find
  worker,        \* where the worker thread is, and for which operation
  host,          \* external: the host's generation, and its receipts
  crashes,       \* crashes so far
  writes, effect, answers   \* history: what the environment has seen

gateway == <<operations, generation, journal, worker, crashes>>
history == <<writes, effect, answers>>
seeded_vars == <<operations, generation, journal, worker, host, crashes,
                 writes, effect, answers>>

Generation == 0..MaxGeneration
Status == {"Accepted", "Settled", "Rejected", "Cancelled", "Unknown"}

\* An entry of the map: the status of the result (InFlight while there is
\* none), the generation of the request, and the generation of the result's
\* observation.  Only a settled result has an observation.
Entry ==
  [status : Status \cup {"InFlight", "Absent"}, asked : Generation,
   observed : Generation]
Result(status, asked, observed) ==
  [status |-> status, asked |-> asked, observed |-> observed]
NoEntry == Result("Absent", 0, 0)
Empty == [op \in Ops |-> NoEntry]
Unknown(asked) == Result("Unknown", asked, 0)
Rejected(asked) == Result("Rejected", asked, 0)

Persisted == [operations : [Ops -> Entry], generation : Generation]
persisted_state(ops, g) == [operations |-> ops, generation |-> g]

\* What the host keeps of a start it was sent.
Receipt ==
  [status : {"Never", "Unread", "Accepted", "Settled", "Rejected", "Cancelled"},
   asked : Generation, observed : Generation]

Idle == [at |-> "idle", op |-> NoOp]
Down == [at |-> "down", op |-> NoOp]

\* The gateway attaches to a host in any generation.
SeededInit ==
  /\ operations = Empty
  /\ generation = 0
  /\ journal = persisted_state(Empty, 0)
  /\ worker = Idle
  /\ \E g \in Generation :
       host = [generation |-> g,
               receipts |-> [op \in Ops |-> Result("Never", 0, 0)]]
  /\ crashes = 0
  /\ writes = [op \in Ops |-> 0]
  /\ effect = [op \in Ops |-> "none"]
  /\ answers = [op \in Ops |-> {}]

-----------------------------------------------------------------------------
KnownIn(ops) == {op \in Ops : ops[op].status # "Absent"}
Retained == KnownIn(operations)

\* The answers that claim something; the others are not kept.
Definite == {"Settled", "Rejected"}
Told(op, status) ==
  answers' = [answers EXCEPT ![op] = @ \cup ({status} \cap Definite)]

\* seeded_store.  A failure before the rename leaves the old file; after it
\* (the directory could not be synced) either file may be found later.
Stored(ops, g) == journal' = persisted_state(ops, g)
StoreFails(ops, g) == journal' \in {journal, persisted_state(ops, g)}

\* advance_generation: a settled result moves the binding forward.
Advance(result) ==
  IF result.status = "Settled" /\ result.observed > generation
  THEN result.observed ELSE generation

-----------------------------------------------------------------------------
(* seeded_run_start: the steps of submit_start_with_checkpoint.             *)

\* canonical_request, without the correlation: the requests for one operation
\* differ in the generation only.
SameRequest(op, asked) == operations[op].asked = asked

\* An exact duplicate gets the retained result, from memory.
Replay(op, asked) ==
  /\ worker.at = "idle"
  /\ op \in Retained
  /\ operations[op].status # "InFlight"
  /\ SameRequest(op, asked)
  /\ Told(op, operations[op].status)
  /\ UNCHANGED <<gateway, host, writes, effect>>

\* A duplicate of an operation without a result is refused as in progress,
\* another request under a retained id as a conflict.
RefuseReuse(op, asked) ==
  /\ worker.at = "idle"
  /\ op \in Retained
  /\ operations[op].status = "InFlight" \/ ~SameRequest(op, asked)
  /\ UNCHANGED seeded_vars

\* While nothing is retained the caller's generation sets the binding's,
\* forwards only.
Binding(asked) ==
  IF Retained = {} /\ asked >= generation THEN asked ELSE generation

Admissible(op) ==
  /\ worker.at = "idle"
  /\ op \notin Retained
  /\ Cardinality(Retained) < operation_capacity

\* A new start for another generation than the binding's is rejected and
\* retained; if the checkpoint fails the caller gets an error and the
\* rejection stays in memory.
SubmitStale(op, asked) ==
  /\ Admissible(op)
  /\ asked # Binding(asked)
  /\ operations' = [operations EXCEPT ![op] = Rejected(asked)]
  /\ \/ Stored(operations', generation) /\ Told(op, "Rejected")
     \/ StoreFails(operations', generation) /\ UNCHANGED answers
  /\ UNCHANGED <<generation, worker, host, crashes, writes, effect>>

\* The operation is retained without a result and checkpointed before the
\* dispatch.  A failed checkpoint removes it again, but the binding keeps
\* the generation it was given.
SubmitAdmitted(op, asked) ==
  /\ Admissible(op)
  /\ asked = Binding(asked)
  /\ generation' = asked
  /\ LET admitted == [operations EXCEPT ![op] = Result("InFlight", asked, 0)]
     IN \/ /\ operations' = admitted
           /\ Stored(admitted, asked)
           /\ worker' = [at |-> "dispatch", op |-> op]
        \/ /\ UNCHANGED <<operations, worker>>
           /\ StoreFails(admitted, asked)
  /\ UNCHANGED <<host, crashes, history>>

\* (Mutant of Dispatch: a write that failed half-way is tried again.)
DispatchRetrying ==
  /\ worker.at = "dispatch"
  /\ worker' \in {worker, [worker EXCEPT !.at = "await"]}
  /\ writes' = [writes EXCEPT ![worker.op] = @ + 1]
  /\ host' = [host EXCEPT !.receipts[worker.op] =
                Result("Unread", operations[worker.op].asked, 0)]
  /\ UNCHANGED <<operations, generation, journal, crashes, effect, answers>>

\* forward_seeded_run connects and writes; whether the host will ever read
\* the request is not known to the gateway.
Dispatch ==
  /\ worker.at = "dispatch"
  /\ worker' = [worker EXCEPT !.at = "await"]
  /\ writes' = [writes EXCEPT ![worker.op] = @ + 1]
  /\ \/ UNCHANGED host
     \/ host' = [host EXCEPT !.receipts[worker.op] =
                   Result("Unread", operations[worker.op].asked, 0)]
  /\ UNCHANGED <<operations, generation, journal, crashes, effect, answers>>

\* The result is retained, the binding advanced and both checkpointed.  If
\* that fails the caller gets an error; the result stays in memory.
Conclude(result) ==
  LET op == worker.op
  IN /\ operations' = [operations EXCEPT ![op] = result]
     /\ generation' = Advance(result)
     /\ \/ Stored(operations', generation') /\ Told(op, result.status)
        \/ StoreFails(operations', generation') /\ UNCHANGED answers
     /\ worker' = Idle
     /\ UNCHANGED <<host, crashes, writes, effect>>

\* UnavailableBeforeWrite: unknown, although nothing was written.
DispatchFails ==
  /\ worker.at = "dispatch"
  /\ Conclude(Unknown(operations[worker.op].asked))

\* What validate and accept_forwarded accept of the host's record.
Answerable(receipt, asked) ==
  /\ receipt.status \notin {"Never", "Unread"}
  /\ receipt.asked = asked
  /\ receipt.status = "Settled" => receipt.observed > asked

\* The answer that was read is the host's record, for the request made.
ReplyArrives ==
  /\ worker.at = "await"
  /\ LET receipt == host.receipts[worker.op]
         asked == operations[worker.op].asked
     IN /\ Answerable(receipt, asked)
        /\ Conclude(Result(receipt.status, asked, receipt.observed))

\* (Mutant of ReplyLost: a fault after the write is taken for a refusal.)
ReplyLostRejected ==
  /\ worker.at = "await"
  /\ Conclude(Rejected(operations[worker.op].asked))

\* Timeout, disconnect or an answer the forwarder cannot decode.
ReplyLost ==
  /\ worker.at = "await"
  /\ Conclude(Unknown(operations[worker.op].asked))

\* accept_forwarded refuses an answer whose generation or correlation is not
\* the request's (the forwarder does not look at these).  The error returns
\* from the handler: no result, no checkpoint, and the entry stays InFlight
\* for this life of the service.
ReplyMismatched ==
  /\ HostMismatches
  /\ worker.at = "await"
  /\ host.receipts[worker.op].status \notin {"Never", "Unread"}
  /\ worker' = Idle
  /\ UNCHANGED <<operations, generation, journal, host, crashes, history>>

-----------------------------------------------------------------------------
(* seeded_run_reconcile.                                                    *)

\* A final result is repeated without asking the host.
Reconcilable(op) == operations[op].status \in {"Accepted", "Unknown"}

\* The result is replaced by the host's record if there is an acceptable one
\* (the lookup may also fail), then stored.  A failed store is reported, and
\* the result stays replaced in memory.  An operation without a result is
\* refused as in progress.
reconcile(op) ==
  /\ worker.at = "idle"
  /\ op \in Retained
  /\ operations[op].status # "InFlight"
  /\ LET asked == operations[op].asked
         receipt == host.receipts[op]
         result == Result(receipt.status, asked, receipt.observed)
     IN \/ /\ Reconcilable(op)
           /\ Answerable(receipt, asked)
           /\ operations' = [operations EXCEPT ![op] = result]
           /\ generation' = Advance(result)
        \/ UNCHANGED <<operations, generation>>
  /\ \/ Stored(operations', generation') /\ Told(op, operations'[op].status)
     \/ StoreFails(operations', generation') /\ UNCHANGED answers
  /\ UNCHANGED <<worker, host, crashes, writes, effect>>

-----------------------------------------------------------------------------
(* Crash and restart of the service.                                        *)

Crash ==
  /\ worker.at # "down"
  /\ crashes < MaxCrashes
  /\ crashes' = crashes + 1
  /\ worker' = Down
  /\ operations' = Empty
  /\ generation' = 0
  /\ UNCHANGED <<journal, host, history>>

\* restore_state: what was in flight or accepted comes back as Unknown.
RestoredEntry(entry) ==
  IF entry.status \in {"InFlight", "Accepted"} THEN Unknown(entry.asked)
  ELSE entry

\* What restore_state demands of a journal.
RestoreAccepts(state) ==
  /\ Cardinality(KnownIn(state.operations)) <= operation_capacity
  /\ \A op \in KnownIn(state.operations) :
       LET entry == state.operations[op]
       IN entry.status = "Settled" =>
            /\ entry.observed > entry.asked
            /\ entry.observed <= state.generation

Restart ==
  /\ worker.at = "down"
  /\ RestoreAccepts(journal)
  /\ worker' = Idle
  /\ operations' = [op \in Ops |-> RestoredEntry(journal.operations[op])]
  /\ generation' = journal.generation
  /\ UNCHANGED <<journal, host, crashes, history>>

-----------------------------------------------------------------------------
(* The host: external, as the ledger relies on it.  It starts no run for a  *)
(* generation it has not reached, reports truthfully, and its generation    *)
(* grows with every run.                                                    *)

Unsettled(op) == host.receipts[op].status \in {"Unread", "Accepted"}

HostRefuses(op) ==
  /\ Unsettled(op)
  /\ \E status \in {"Rejected", "Cancelled"} :
       host' = [host EXCEPT !.receipts[op].status = status]
  /\ effect' = [effect EXCEPT ![op] = "refused"]
  /\ UNCHANGED <<gateway, writes, answers>>

HostAccepts(op) ==
  /\ host.receipts[op].status = "Unread"
  /\ host.receipts[op].asked <= host.generation
  /\ host' = [host EXCEPT !.receipts[op].status = "Accepted"]
  /\ UNCHANGED <<gateway, history>>

HostStarts(op) ==
  /\ Unsettled(op)
  /\ host.receipts[op].asked <= host.generation
  /\ host.generation < MaxGeneration
  /\ host' = [host EXCEPT !.generation = @ + 1,
                !.receipts[op].status = "Settled",
                !.receipts[op].observed = host.generation + 1]
  /\ effect' = [effect EXCEPT ![op] = "done"]
  /\ UNCHANGED <<gateway, writes, answers>>

-----------------------------------------------------------------------------
SeededNext ==
  \/ \E op \in Ops, asked \in Generation :
       \/ Replay(op, asked)
       \/ RefuseReuse(op, asked)
       \/ SubmitStale(op, asked)
       \/ SubmitAdmitted(op, asked)
  \/ Dispatch
  \/ DispatchFails
  \/ ReplyArrives
  \/ ReplyLost
  \/ ReplyMismatched
  \/ \E op \in Ops : reconcile(op)
  \/ Crash
  \/ Restart
  \/ \E op \in Ops : HostRefuses(op) \/ HostAccepts(op) \/ HostStarts(op)

SeededSpec == SeededInit /\ [][SeededNext]_seeded_vars

-----------------------------------------------------------------------------
(* Properties.                                                              *)

\* Every variable keeps its shape: in particular generations stay in range
\* and the worker has an operation exactly while it is dispatching one.
SeededTypes ==
  /\ operations \in [Ops -> Entry]
  /\ generation \in Generation
  /\ journal \in Persisted
  /\ worker \in {Idle, Down} \cup [at : {"dispatch", "await"}, op : Ops]
  /\ host \in [generation : Generation, receipts : [Ops -> Receipt]]
  /\ crashes \in Nat
  /\ writes \in [Ops -> Nat]
  /\ effect \in [Ops -> {"none", "done", "refused"}]
  /\ answers \in [Ops -> SUBSET Definite]

\* Whatever path a rejection is told along (submission, replay from memory,
\* reconciliation), the host was not sent the start, or refused it.
RejectionTruthful ==
  [][\A op \in Ops :
       "Rejected" \in answers'[op] \ answers[op] =>
         writes[op] = 0 \/ effect[op] = "refused"]_seeded_vars

\* The settled answers and the writes implement the ledgers' promise.  The
\* rejected ones are left out: a rejection whose checkpoint failed is replayed
\* from memory, and a restart forgets it and may accept the start anew.
Once == INSTANCE AtMostOnce
          WITH answers <- [op \in Ops |-> answers[op] \cap {"Settled"}]
ImplementsAtMostOnce == Once!Spec

=============================================================================
