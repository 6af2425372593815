---------------------- MODULE RuntimeV2LedgerProofs ----------------------
(* Proofs about the Runtime-v2 ledger, for every set of operations, every   *)
(* capacity and any number of crashes.                                      *)
EXTENDS RuntimeV2Ledger, FiniteSetTheorems, TLAPS

\* Initially nothing is retained, written or told.
LEMMA InitInv == Init => IInv
<1> SUFFICES ASSUME Init PROVE IInv
  OBVIOUS
<1> USE LedgerConfig
<1>1. Initial \in Observation /\ Absent \in Entry
  BY DEF Initial, Observation, Generation, Absent, Entry, Status
<1>2. TypeOK
  BY <1>1 DEF Init, TypeOK, Empty, Persisted, persisted_state, Idle, Receipt,
     Generation, Definite
<1>3. LedgerSound /\ WorkerConsistent
  BY DEF Init, LedgerSound, WorkerConsistent, RejectedIsStored, EntriesSound,
     Sound, RejectionKept, Empty, Absent, Idle, persisted_state
<1>4. HostConsistent /\ ObservationReachable
  BY DEF Init, HostConsistent, ObservationReachable, Initial, persisted_state
<1>5. SnapshotsValid
  BY DEF Init, SnapshotsValid, SnapshotValid, EntryValid, Empty, Absent,
     Initial, persisted_state
<1> QED
  BY <1>2, <1>3, <1>4, <1>5 DEF IInv

\* Telling a status of an operation adds at most that status to its answers.
LEMMA ToldFacts ==
  ASSUME TypeOK, NEW op \in Ops, NEW status, Told(op, status)
  PROVE  /\ answers' \in [Ops -> SUBSET Definite]
         /\ \A o \in Ops : o # op => answers'[o] = answers[o]
         /\ "Rejected" \in answers'[op] =>
              "Rejected" \in answers[op] \/ status = "Rejected"
         /\ answers[op] \subseteq answers'[op]
<1>1. answers \in [Ops -> SUBSET Definite]
  BY DEF TypeOK
<1>2. ({status} \cap Definite) \in SUBSET Definite
  OBVIOUS
<1>3. answers[op] \cup ({status} \cap Definite) \in SUBSET Definite
  BY <1>1, <1>2
<1> QED
  BY <1>1, <1>3 DEF Told

\* The results the ledger makes are entries of the map.
LEMMA ResultFacts ==
  ASSUME NEW status \in Status \cup {"InFlight"}, NEW asked \in Generation,
         NEW at \in Generation
  PROVE  /\ Result(status, asked, at) \in Entry
         /\ Result(status, asked, at).status = status
         /\ Result(status, asked, at).asked = asked
         /\ Result(status, asked, at).at = at
  BY DEF Result, Entry

\* A replay tells what is retained and changes nothing else.
LEMMA ReplayInv ==
  ASSUME IInv, NEW op \in Ops, NEW g \in Generation, Replay(op, g)
  PROVE  IInv'
<1> USE DEF Replay, gateway
<1>1. TypeOK'
  BY ToldFacts DEF IInv, TypeOK
<1>2. LedgerSound'
  <2>1. EntriesSound(operations) /\ EntriesSound(journal.operations)
    BY DEF IInv, LedgerSound
  <2>2. \A o \in Ops : "Rejected" \in answers'[o] =>
          "Rejected" \in answers[o] \/ operations[o].status = "Rejected"
    BY ToldFacts DEF IInv
  <2>3. EntriesSound(operations)'
    BY <2>1, <2>2 DEF EntriesSound, Sound, RejectionKept
  <2>4. EntriesSound(journal.operations)'
    BY <2>1, <2>2 DEF EntriesSound, Sound, RejectionKept, IInv, LedgerSound,
       RejectedIsStored
  <2> QED
    BY <2>3, <2>4 DEF LedgerSound, RejectedIsStored, IInv
<1>3. WorkerConsistent' /\ HostConsistent' /\ ObservationReachable'
  BY DEF IInv, WorkerConsistent, HostConsistent, ObservationReachable
<1>4. SnapshotsValid'
  BY DEF IInv, SnapshotsValid, SnapshotValid, EntryValid
<1> QED
  BY <1>1, <1>2, <1>3, <1>4 DEF IInv

\* The shape every storing handler has: memory becomes mem and seen, the
\* journal becomes the snapshot of ops and seen or, if the store failed,
\* stays.  What is left to show of a handler are facts about ops and mem.
LEMMA StoringStep ==
  ASSUME IInv, worker.at # "down",
         NEW ops \in [Ops -> Entry], NEW mem \in [Ops -> Entry],
         NEW seen \in Observation,
         operations' = mem, observation' = seen,
         journal' \in {journal, persisted_state(ops, seen)},
         UNCHANGED <<host, crashes, writes, effect>>,
         answers' \in [Ops -> SUBSET Definite],
         worker' \in {Idle, Down} \cup [at : {"dispatch", "await"}, op : Ops],
         WorkerConsistent',
         seen.generation <= host.observation.generation,
         SnapshotValid(ops, seen), SnapshotValid(mem, seen),
         \A o \in Ops : Sound(o, ops[o]) /\ Sound(o, mem[o]),
         \A o \in Ops : "Rejected" \in answers'[o] /\ writes[o] = 0 =>
           mem[o].status = "Rejected",
         \A o \in Ops : mem[o].status = "Rejected" /\ writes[o] = 0 =>
           /\ ops[o].status = "Rejected"
           /\ \/ operations[o].status = "Rejected"
              \/ journal' = persisted_state(ops, seen)
  PROVE  IInv'
<1> USE DEF IInv
<1>1. /\ persisted_state(ops, seen).operations = ops
      /\ persisted_state(ops, seen).observation = seen
      /\ persisted_state(ops, seen) \in Persisted
  BY DEF persisted_state, Persisted
<1>2. \/ journal' = journal
      \/ journal'.operations = ops /\ journal'.observation = seen
  BY <1>1
<1>3. TypeOK'
  BY <1>1 DEF TypeOK
<1>4. RejectedIsStored'
  BY <1>1, <1>2 DEF RejectedIsStored, LedgerSound
<1>5. EntriesSound(mem)'
  BY DEF EntriesSound, Sound, RejectionKept
<1>6. EntriesSound(journal.operations)'
  <2> SUFFICES ASSUME NEW o \in Ops
               PROVE  (Sound(o, journal.operations[o])
                       /\ RejectionKept(o, journal.operations[o]))'
    BY DEF EntriesSound
  <2>1. Sound(o, journal.operations[o])
    BY DEF LedgerSound, EntriesSound
  <2>2. Sound(o, journal.operations[o])'
    BY <2>1, <1>2 DEF Sound
  <2>3. RejectionKept(o, journal.operations[o])'
    BY <1>4 DEF RejectionKept, RejectedIsStored
  <2> QED
    BY <2>2, <2>3
<1>7. LedgerSound'
  BY <1>4, <1>5, <1>6 DEF LedgerSound
<1>8. HostConsistent'
  BY DEF HostConsistent
<1>9. ObservationReachable'
  BY <1>2 DEF ObservationReachable
<1>10. SnapshotsValid'
  BY <1>2 DEF SnapshotsValid, SnapshotValid, EntryValid
<1> QED
  BY <1>3, <1>7, <1>8, <1>9, <1>10

\* Replacing one entry by a sound and valid one keeps the rest as it was,
\* also under a newer observation.
LEMMA EntryReplaced ==
  ASSUME IInv, worker.at # "down", NEW op \in Ops, NEW entry \in Entry,
         NEW seen \in Observation,
         observation.generation <= seen.generation,
         Sound(op, entry), EntryValid(entry, seen),
         entry.status \in {"InFlight", "Accepted", "Unknown"} =>
           entry.asked <= seen.generation,
         NEW ops, ops = [operations EXCEPT ![op] = entry]
  PROVE  /\ ops \in [Ops -> Entry]
         /\ ops[op] = entry
         /\ \A o \in Ops : o # op => ops[o] = operations[o]
         /\ \A o \in Ops : Sound(o, ops[o])
         /\ SnapshotValid(ops, seen)
<1>1. /\ ops \in [Ops -> Entry]
      /\ ops[op] = entry
      /\ \A o \in Ops : o # op => ops[o] = operations[o]
  BY DEF IInv, TypeOK
<1>2. \A o \in Ops : Sound(o, ops[o])
  BY <1>1 DEF IInv, LedgerSound, EntriesSound
<1>3. SnapshotValid(ops, seen)
  <2>1. SnapshotValid(operations, observation)
    BY DEF IInv, SnapshotsValid
  <2>2. operations \in [Ops -> Entry] /\ observation \in Observation
    BY DEF IInv, TypeOK
  <2>3. \A o \in Ops : o # op => EntryValid(ops[o], seen)
    BY <1>1, <2>1, <2>2 DEF SnapshotValid, EntryValid, Entry, Observation,
       Generation
  <2>4. \A o \in Ops :
          o # op /\ ops[o].status \in {"InFlight", "Accepted", "Unknown"} =>
            ops[o].asked <= seen.generation
    BY <1>1, <2>1, <2>2 DEF SnapshotValid, Entry, Observation, Generation
  <2> QED
    BY <1>1, <2>3, <2>4 DEF SnapshotValid
<1> QED
  BY <1>1, <1>2, <1>3

\* The facts of the current state that the handlers start from.
LEMMA StateFacts ==
  ASSUME IInv
  PROVE  /\ operations \in [Ops -> Entry] /\ observation \in Observation
         /\ observation.generation \in Generation
         /\ observation.generation <= observation.generation
         /\ observation.generation <= host.observation.generation
         /\ answers \in [Ops -> SUBSET Definite]
         /\ SnapshotValid(operations, observation)
         /\ \A op \in Ops : operations[op].asked \in Generation
         /\ worker.at # "down" =>
              \A op \in Ops :
                /\ Sound(op, operations[op])
                /\ "Rejected" \in answers[op] /\ writes[op] = 0 =>
                     operations[op].status = "Rejected"
  BY LedgerConfig DEF IInv, TypeOK, Observation, Generation, ObservationReachable,
     SnapshotsValid, LedgerSound, EntriesSound, RejectionKept, Entry

\* A rejected request was not known before, so nothing was written for it.
LEMMA SubmitRejectedInv ==
  ASSUME IInv, NEW op \in Ops, NEW g \in Generation, SubmitRejected(op, g)
  PROVE  IInv'
<1> DEFINE entry == Result("Rejected", g, observation.generation)
           rejected == [operations EXCEPT ![op] = entry]
<1>1. /\ entry \in Entry
      /\ entry.status = "Rejected" /\ entry.at = observation.generation
  BY ResultFacts, StateFacts DEF Status
<1>2. /\ operations[op].status = "Absent"
      /\ worker.at = "idle"
      /\ UNCHANGED <<observation, worker, host, crashes, writes, effect>>
      /\ \/ /\ operations' = rejected
            /\ journal' = persisted_state(rejected, observation)
            /\ Told(op, "Rejected")
         \/ /\ operations' = operations /\ answers' = answers
            /\ journal' \in {journal, persisted_state(rejected, observation)}
  BY DEF SubmitRejected, Retained, KnownIn, Stored, StoreFails
<1>3. Sound(op, entry) /\ EntryValid(entry, observation)
  BY <1>1, <1>2, StateFacts DEF Sound, EntryValid
<1> HIDE DEF entry, rejected
<1>4. /\ rejected \in [Ops -> Entry]
      /\ rejected[op] = entry
      /\ \A o \in Ops : o # op => rejected[o] = operations[o]
      /\ \A o \in Ops : Sound(o, rejected[o])
      /\ SnapshotValid(rejected, observation)
  BY <1>1, <1>2, <1>3, EntryReplaced, StateFacts DEF rejected
<1>5. WorkerConsistent' /\ worker' = Idle
  BY <1>2 DEF WorkerConsistent, IInv, TypeOK, Idle, Down
<1>6. CASE /\ operations' = rejected
           /\ journal' = persisted_state(rejected, observation)
           /\ Told(op, "Rejected")
  <2>1. answers' \in [Ops -> SUBSET Definite]
    BY <1>6, ToldFacts DEF IInv
  <2>2. \A o \in Ops : "Rejected" \in answers'[o] /\ writes[o] = 0 =>
          rejected[o].status = "Rejected"
    BY <1>1, <1>2, <1>4, <1>6, ToldFacts, StateFacts DEF IInv
  <2> QED
    BY <1>2, <1>4, <1>5, <1>6, <2>1, <2>2, StateFacts, StoringStep
<1>7. CASE /\ operations' = operations /\ answers' = answers
           /\ journal' \in {journal, persisted_state(rejected, observation)}
  <2>1. \A o \in Ops : operations[o].status = "Rejected" =>
          rejected[o].status = "Rejected"
    BY <1>1, <1>4
  <2> QED
    BY <1>2, <1>4, <1>5, <1>7, <2>1, StateFacts, StoringStep
<1> QED
  BY <1>2, <1>6, <1>7

\* An admitted request was not known before, and is in the journal before
\* the worker goes on to dispatch it.
LEMMA SubmitAdmittedInv ==
  ASSUME IInv, NEW op \in Ops, NEW g \in Generation, SubmitAdmitted(op, g)
  PROVE  IInv'
<1> DEFINE entry == Result("InFlight", g, g)
           admitted == [operations EXCEPT ![op] = entry]
<1>1. /\ entry \in Entry
      /\ entry.status = "InFlight" /\ entry.asked = g
  BY ResultFacts DEF Status
<1>2. /\ operations[op].status = "Absent"
      /\ worker.at = "idle"
      /\ g = observation.generation
      /\ UNCHANGED <<observation, host, crashes, writes, effect, answers>>
      /\ \/ /\ operations' = admitted
            /\ journal' = persisted_state(admitted, observation)
            /\ worker' = [at |-> "dispatch", op |-> op]
         \/ /\ operations' = operations /\ worker' = worker
            /\ journal' \in {journal, persisted_state(admitted, observation)}
  BY DEF SubmitAdmitted, Retained, KnownIn, Stored, StoreFails, history
<1>3. Sound(op, entry) /\ EntryValid(entry, observation) /\ writes[op] = 0
  BY <1>1, <1>2, StateFacts DEF Sound, EntryValid
<1> HIDE DEF entry, admitted
<1>4. /\ admitted \in [Ops -> Entry]
      /\ admitted[op] = entry
      /\ \A o \in Ops : o # op => admitted[o] = operations[o]
      /\ \A o \in Ops : Sound(o, admitted[o])
      /\ SnapshotValid(admitted, observation)
  BY <1>1, <1>2, <1>3, EntryReplaced, StateFacts DEF admitted
<1>5. \A o \in Ops :
        /\ operations[o].status = "Rejected" => admitted[o].status = "Rejected"
        /\ admitted[o].status = "Rejected" => operations[o].status = "Rejected"
  BY <1>1, <1>2, <1>4
<1>6. CASE /\ operations' = admitted
           /\ journal' = persisted_state(admitted, observation)
           /\ worker' = [at |-> "dispatch", op |-> op]
  <2>1. journal'.operations = admitted
    BY <1>6 DEF persisted_state
  <2>2. worker'.at = "dispatch" /\ worker'.op = op
    BY <1>6
  <2>3. WorkerConsistent'
    BY <1>1, <1>2, <1>3, <1>4, <1>6, <2>1, <2>2 DEF WorkerConsistent
  <2>4. worker' \in [at : {"dispatch", "await"}, op : Ops]
    BY <1>6
  <2> QED
    BY <1>2, <1>4, <1>5, <1>6, <2>3, <2>4, StateFacts, StoringStep
<1>7. CASE /\ operations' = operations /\ worker' = worker
           /\ journal' \in {journal, persisted_state(admitted, observation)}
  <2>1. WorkerConsistent' /\ worker' = Idle
    BY <1>2, <1>7 DEF WorkerConsistent, IInv, TypeOK, Idle, Down
  <2> QED
    BY <1>2, <1>4, <1>5, <1>7, <2>1, StateFacts, StoringStep
<1> QED
  BY <1>2, <1>6, <1>7

\* While the worker is dispatching it has an operation, in flight both in
\* memory and in the journal.
LEMMA BusyFacts ==
  ASSUME IInv, worker.at \in {"dispatch", "await"}
  PROVE  /\ worker \in [at : {"dispatch", "await"}, op : Ops]
         /\ worker.op \in Ops
         /\ worker.at # "down"
         /\ operations[worker.op].status = "InFlight"
         /\ operations[worker.op].asked \in Generation
         /\ operations[worker.op].asked = observation.generation
         /\ operations[worker.op].asked <= observation.generation
<1>1. worker \in [at : {"dispatch", "await"}, op : Ops]
  BY DEF IInv, TypeOK, Idle, Down
<1> QED
  BY <1>1, StateFacts DEF IInv, WorkerConsistent, SnapshotValid

\* Writing the request: the entry is in flight wherever it is looked up, and
\* no caller was told that it is rejected.
LEMMA DispatchInv ==
  ASSUME IInv, Dispatch
  PROVE  IInv'
<1> DEFINE op == worker.op
<1> USE DEF IInv
<1>1. /\ worker.at = "dispatch"
      /\ op \in Ops
      /\ worker \in [at : {"dispatch", "await"}, op : Ops]
      /\ operations[op].status = "InFlight"
      /\ operations[op].asked = observation.generation
      /\ journal.operations[op].status = "InFlight"
      /\ writes[op] = 0
  BY BusyFacts DEF Dispatch, WorkerConsistent
<1>2. UNCHANGED <<operations, observation, journal, crashes, effect, answers>>
  BY DEF Dispatch
<1>3. worker' = [at |-> "await", op |-> op]
  BY <1>1 DEF Dispatch
<1>4. /\ writes' \in [Ops -> Nat]
      /\ writes'[op] = 1
      /\ \A o \in Ops : o # op => writes'[o] = writes[o]
  BY <1>1 DEF Dispatch, TypeOK
<1>5. /\ host' \in [observation : Observation, receipts : [Ops -> Receipt]]
      /\ host'.observation = host.observation
      /\ \A o \in Ops : o # op => host'.receipts[o] = host.receipts[o]
      /\ host'.receipts[op].observation = host.receipts[op].observation
      /\ \/ host'.receipts[op].status = host.receipts[op].status
         \/ host'.receipts[op].status = "Unread"
  <2>1. CASE host' = host
    BY <2>1 DEF TypeOK
  <2>2. CASE host' # host
    <3> DEFINE arrived == [host.receipts[op] EXCEPT !.status = "Unread",
                             !.asked = operations[op].asked]
    <3>1. host' = [host EXCEPT !.receipts[op] = arrived]
      BY <2>2 DEF Dispatch
    <3>2. host.receipts[op] \in Receipt
      BY <1>1 DEF TypeOK
    <3>3. operations[op].asked \in Generation
      BY <1>1, BusyFacts
    <3>4. /\ arrived \in Receipt /\ arrived.status = "Unread"
          /\ arrived.observation = host.receipts[op].observation
      BY <3>2, <3>3 DEF Receipt
    <3> HIDE DEF arrived
    <3> QED
      BY <3>1, <3>4, <1>1 DEF TypeOK
  <2> QED
    BY <2>1, <2>2
<1> HIDE DEF op
<1>6. TypeOK'
  BY <1>1, <1>2, <1>3, <1>4, <1>5 DEF TypeOK
<1>7. LedgerSound'
  <2>1. EntriesSound(operations) /\ EntriesSound(journal.operations)
    BY <1>1 DEF LedgerSound
  <2>2. /\ EntriesSound(operations)' /\ EntriesSound(journal.operations)'
        /\ RejectedIsStored'
    BY <2>1, <1>1, <1>2, <1>4 DEF EntriesSound, Sound, RejectionKept,
       RejectedIsStored, LedgerSound
  <2> QED
    BY <2>2 DEF LedgerSound
<1>8. WorkerConsistent'
  <2>1. worker'.at = "await" /\ worker'.op = op
    BY <1>3
  <2> QED
    BY <2>1, <1>1, <1>2, <1>4 DEF WorkerConsistent
<1>9. HostConsistent'
  BY <1>1, <1>2, <1>4, <1>5 DEF HostConsistent
<1>10. ObservationReachable' /\ SnapshotsValid'
  BY <1>2, <1>5 DEF ObservationReachable, SnapshotsValid, SnapshotValid, EntryValid
<1> QED
  BY <1>6, <1>7, <1>8, <1>9, <1>10

\* Recording a result of the operation in flight, stored or not.
LEMMA ConcludeInv ==
  ASSUME IInv, worker.at \in {"dispatch", "await"},
         NEW result \in Entry, NEW seen \in Observation,
         Conclude(result, seen),
         observation.generation <= seen.generation,
         seen.generation <= host.observation.generation,
         Sound(worker.op, result), EntryValid(result, seen),
         result.asked <= seen.generation,
         result.status \notin {"Absent", "Cancelled"}
  PROVE  IInv'
<1> DEFINE op == worker.op
           concluded == [operations EXCEPT ![op] = result]
           unsure == Unknown(operations[op].asked)
           uncertain == [operations EXCEPT ![op] = unsure]
<1>1. /\ \/ /\ operations' = concluded
            /\ journal' = persisted_state(concluded, seen)
            /\ Told(op, result.status)
         \/ /\ operations' = uncertain
            /\ journal' \in {journal, persisted_state(concluded, seen)}
            /\ Told(op, "Unknown")
      /\ observation' = seen
      /\ worker' = Idle
      /\ UNCHANGED <<host, crashes, writes, effect>>
  BY DEF Conclude, Stored, StoreFails
<1>2. op \in Ops /\ worker.at # "down"
      /\ operations[op].status = "InFlight"
  BY BusyFacts
<1>3. unsure \in Entry /\ unsure.status = "Unknown"
      /\ unsure.asked = operations[op].asked
  BY BusyFacts, ResultFacts DEF Unknown, Status
<1>4. Sound(op, unsure) /\ EntryValid(unsure, seen)
      /\ unsure.asked <= seen.generation
  BY <1>3, BusyFacts, StateFacts, LedgerConfig
  DEF Sound, EntryValid, Observation, Generation
<1>5. WorkerConsistent'
  BY <1>1 DEF WorkerConsistent, Idle
<1> HIDE DEF op, concluded, unsure, uncertain
<1>6. /\ concluded \in [Ops -> Entry]
      /\ concluded[op] = result
      /\ \A o \in Ops : o # op => concluded[o] = operations[o]
      /\ \A o \in Ops : Sound(o, concluded[o])
      /\ SnapshotValid(concluded, seen)
  BY <1>2, EntryReplaced DEF op, concluded
<1>7. /\ uncertain \in [Ops -> Entry]
      /\ uncertain[op] = unsure
      /\ \A o \in Ops : o # op => uncertain[o] = operations[o]
      /\ \A o \in Ops : Sound(o, uncertain[o])
      /\ SnapshotValid(uncertain, seen)
  BY <1>2, <1>3, <1>4, EntryReplaced DEF uncertain
<1>8. CASE /\ operations' = concluded
           /\ journal' = persisted_state(concluded, seen)
           /\ Told(op, result.status)
  <2>1. answers' \in [Ops -> SUBSET Definite]
    BY <1>2, <1>8, ToldFacts DEF IInv
  <2>2. \A o \in Ops : "Rejected" \in answers'[o] /\ writes[o] = 0 =>
          concluded[o].status = "Rejected"
    BY <1>2, <1>6, <1>8, ToldFacts, StateFacts DEF IInv
  <2> QED
    BY <1>1, <1>2, <1>5, <1>6, <1>8, <2>1, <2>2, StoringStep
<1>9. CASE /\ operations' = uncertain
           /\ journal' \in {journal, persisted_state(concluded, seen)}
           /\ Told(op, "Unknown")
  <2>1. answers' \in [Ops -> SUBSET Definite]
    BY <1>2, <1>9, ToldFacts DEF IInv
  <2>2. \A o \in Ops : "Rejected" \in answers'[o] /\ writes[o] = 0 =>
          uncertain[o].status = "Rejected"
    BY <1>2, <1>7, <1>9, ToldFacts, StateFacts DEF IInv
  <2>3. \A o \in Ops : uncertain[o].status = "Rejected" =>
          operations[o].status = "Rejected" /\ concluded[o].status = "Rejected"
    BY <1>3, <1>6, <1>7
  <2> QED
    BY <1>1, <1>2, <1>5, <1>6, <1>7, <1>9, <2>1, <2>2, <2>3, StoringStep
<1> QED
  BY <1>1, <1>8, <1>9

\* Nothing was written: the rejection is truthful.
LEMMA DispatchFailsInv ==
  ASSUME IInv, DispatchFails
  PROVE  IInv'
<1> DEFINE asked == operations[worker.op].asked
           result == Result("Rejected", asked, observation.generation)
<1>1. worker.at = "dispatch" /\ Conclude(result, observation)
  BY DEF DispatchFails
<1>2. /\ result \in Entry /\ result.status = "Rejected"
      /\ result.asked = asked /\ result.at = observation.generation
      /\ asked <= observation.generation
  BY <1>1, ResultFacts, StateFacts, BusyFacts DEF Status
<1>3. Sound(worker.op, result)
  BY <1>1, <1>2 DEF Sound, IInv, WorkerConsistent
<1>4. EntryValid(result, observation)
  BY <1>2, StateFacts DEF EntryValid
<1> HIDE DEF result, asked
<1> QED
  BY <1>1, <1>2, <1>3, <1>4, ConcludeInv, StateFacts

\* A lost answer claims nothing.
LEMMA ReplyLostInv ==
  ASSUME IInv, ReplyLost
  PROVE  IInv'
<1> DEFINE asked == operations[worker.op].asked
           result == Unknown(asked)
<1>1. worker.at = "await" /\ Conclude(result, observation)
  BY DEF ReplyLost
<1>2. /\ result \in Entry /\ result.status = "Unknown"
      /\ result.asked = asked /\ asked <= observation.generation
  BY <1>1, ResultFacts, BusyFacts DEF Unknown, Status
<1>3. Sound(worker.op, result) /\ EntryValid(result, observation)
  BY <1>2 DEF Sound, EntryValid
<1> HIDE DEF result, asked
<1> QED
  BY <1>1, <1>2, <1>3, ConcludeInv, StateFacts

\* What the ledger makes of an answer is no stronger than the answer.
LEMMA ForwardedResultFacts ==
  ASSUME NEW asked \in Generation, NEW receipt \in Receipt,
         observation \in Observation, asked <= observation.generation,
         NEW result, result = ForwardedResult(asked, receipt)
  PROVE  /\ result \in Entry
         /\ result.asked = asked
         /\ result.status \in {"Accepted", "Settled", "Rejected", "Unknown"}
         /\ result.status = "Settled" =>
              /\ receipt.status = "Settled"
              /\ result.at = receipt.observation.generation
              /\ result.at > asked
         /\ result.status = "Rejected" =>
              /\ receipt.status \in {"Rejected", "Refused"}
              /\ result.at = observation.generation
         /\ result.status = "Accepted" => result.at = asked
<1> DEFINE seen == receipt.observation
<1>1. /\ seen.generation \in Generation /\ observation.generation \in Generation
  BY DEF Receipt, Observation
<1>2. \/ result = Result("Accepted", asked, asked)
      \/ /\ result = Result("Settled", asked, seen.generation)
         /\ receipt.status = "Settled" /\ seen.generation > asked
      \/ /\ result = Result("Rejected", asked, observation.generation)
         /\ receipt.status \in {"Rejected", "Refused"}
      \/ result = Result("Unknown", asked, asked)
  BY DEF ForwardedResult, Unknown
<1> QED
  BY <1>1, <1>2, ResultFacts DEF Status

\* An answer is recorded as the host gave it, or as Unknown.
LEMMA ReplyArrivesInv ==
  ASSUME IInv, ReplyArrives
  PROVE  IInv'
<1> DEFINE op == worker.op
           asked == operations[op].asked
           receipt == host.receipts[op]
           result == ForwardedResult(asked, receipt)
           seen == IF result.status = "Settled"
                   THEN receipt.observation ELSE observation
<1>1. worker.at = "await" /\ Conclude(result, seen)
  BY DEF ReplyArrives
<1>2. /\ op \in Ops /\ asked \in Generation
      /\ asked <= observation.generation
      /\ writes[op] = 1
  BY <1>1, BusyFacts DEF IInv, WorkerConsistent
<1>3. /\ receipt \in Receipt /\ receipt.observation \in Observation
      /\ receipt.observation.generation <= host.observation.generation
      /\ receipt.status = "Settled" => effect[op] = "done"
      /\ receipt.status \in {"Rejected", "Refused"} => effect[op] = "refused"
  BY <1>2 DEF IInv, TypeOK, Receipt, HostConsistent
<1> HIDE DEF op, asked, receipt
<1>4. /\ result \in Entry
      /\ result.asked = asked
      /\ result.status \in {"Accepted", "Settled", "Rejected", "Unknown"}
      /\ result.status = "Settled" =>
           /\ receipt.status = "Settled"
           /\ result.at = receipt.observation.generation
           /\ result.at > asked
      /\ result.status = "Rejected" =>
           /\ receipt.status \in {"Rejected", "Refused"}
           /\ result.at = observation.generation
      /\ result.status = "Accepted" => result.at = asked
  BY <1>2, <1>3, StateFacts, ForwardedResultFacts
<1> HIDE DEF result
<1>5. /\ observation \in Observation /\ host.observation \in Observation
      /\ observation.generation \in Nat
      /\ receipt.observation.generation \in Nat /\ asked \in Nat
  BY <1>2, <1>3, LedgerConfig DEF IInv, TypeOK, Observation, Generation
\* The answer is for the generation in flight, so it can only be newer.
<1>6. result.status = "Settled" =>
        observation.generation <= receipt.observation.generation
  <2>1. asked = observation.generation
    BY <1>1, BusyFacts DEF asked, op
  <2> QED
    BY <2>1, <1>4, <1>5
<1>7. /\ seen \in Observation
      /\ observation.generation <= seen.generation
      /\ seen.generation <= host.observation.generation
      /\ asked <= seen.generation
  <2>1. CASE result.status = "Settled"
    BY <2>1, <1>2, <1>3, <1>4, <1>5, <1>6, StateFacts
  <2>2. CASE result.status # "Settled"
    BY <2>2, <1>2, <1>5, StateFacts
  <2> QED
    BY <2>1, <2>2
<1>8. Sound(op, result)
  BY <1>3, <1>4 DEF Sound
<1>9. EntryValid(result, seen)
  BY <1>2, <1>4, <1>5 DEF EntryValid
<1> HIDE DEF seen
<1> QED
  BY <1>1, <1>4, <1>7, <1>8, <1>9, ConcludeInv DEF op

\* A cancellation is only recorded for an operation that was never admitted.
LEMMA CancelInv ==
  ASSUME IInv, NEW op \in Ops, NEW g \in Generation, Cancel(op, g)
  PROVE  IInv'
<1> DEFINE entry == Result("Cancelled", g, g)
           cancelled == [operations EXCEPT ![op] = entry]
<1>1. /\ entry \in Entry /\ entry.status = "Cancelled" /\ entry.at = g
  BY ResultFacts DEF Status
<1>2. /\ operations[op].status = "Absent"
      /\ worker.at = "idle"
      /\ g = observation.generation
      /\ operations' = cancelled
      /\ Told(op, "Cancelled")
      /\ UNCHANGED <<observation, journal, worker, host, crashes, writes, effect>>
  BY DEF Cancel, Retained, KnownIn
<1>3. Sound(op, entry) /\ EntryValid(entry, observation)
  BY <1>1, <1>2, StateFacts DEF Sound, EntryValid
<1> HIDE DEF entry, cancelled
<1>4. /\ cancelled \in [Ops -> Entry]
      /\ cancelled[op] = entry
      /\ \A o \in Ops : o # op => cancelled[o] = operations[o]
      /\ \A o \in Ops : Sound(o, cancelled[o])
      /\ SnapshotValid(cancelled, observation)
  BY <1>1, <1>2, <1>3, EntryReplaced, StateFacts DEF cancelled
<1>5. WorkerConsistent' /\ worker' = Idle
  BY <1>2 DEF WorkerConsistent, IInv, TypeOK, Idle, Down
<1>6. answers' \in [Ops -> SUBSET Definite]
  BY <1>2, ToldFacts DEF IInv
<1>7. \A o \in Ops : "Rejected" \in answers'[o] /\ writes[o] = 0 =>
        cancelled[o].status = "Rejected"
  BY <1>2, <1>4, ToldFacts, StateFacts DEF IInv
<1>8. \A o \in Ops : cancelled[o].status = "Rejected" =>
        operations[o].status = "Rejected"
  BY <1>1, <1>4
<1> QED
  BY <1>2, <1>4, <1>5, <1>6, <1>7, <1>8, StateFacts, StoringStep

\* A receipt replaces only what was uncertain, by what the host did.
LEMMA ReconcileInv ==
  ASSUME IInv, NEW op \in Ops, Reconcile(op)
  PROVE  IInv'
<1> DEFINE entry == operations[op]
           receipt == host.receipts[op]
           result == Result(receipt.status, entry.asked,
                            receipt.observation.generation)
           newer == /\ receipt.status = "Settled"
                    /\ receipt.observation.generation > observation.generation
           replaced == [operations EXCEPT ![op] = result]
           seen == IF newer THEN receipt.observation ELSE observation
<1>1. /\ worker.at = "idle"
      /\ UNCHANGED <<worker, host, crashes, writes, effect>>
      /\ \/ /\ journal' = persisted_state(operations', observation')
            /\ Told(op, operations'[op].status)
         \/ /\ journal' \in {journal, persisted_state(operations', observation')}
            /\ answers' = answers
  BY DEF Reconcile, Stored, StoreFails
<1>2. \/ /\ entry.status \in {"Accepted", "Unknown"}
         /\ ReceiptAccepted(entry.asked, receipt)
         /\ operations' = replaced
         /\ observation' = seen
      \/ operations' = operations /\ observation' = observation
  BY DEF Reconcile, Reconcilable
<1>3. /\ receipt \in Receipt /\ receipt.observation \in Observation
      /\ receipt.observation.generation <= host.observation.generation
      /\ receipt.status = "Settled" => effect[op] = "done"
      /\ receipt.status = "Rejected" => effect[op] = "refused" /\ writes[op] = 1
  BY DEF IInv, TypeOK, Receipt, HostConsistent
<1>4. WorkerConsistent' /\ worker' = Idle
  BY <1>1 DEF WorkerConsistent, IInv, TypeOK, Idle, Down
<1>5. CASE operations' = operations /\ observation' = observation
  <2>1. \A o \in Ops : "Rejected" \in answers'[o] /\ writes[o] = 0 =>
          operations[o].status = "Rejected"
    BY <1>1, <1>5, ToldFacts, StateFacts DEF IInv
  <2>2. answers' \in [Ops -> SUBSET Definite]
    BY <1>1, ToldFacts, StateFacts DEF IInv
  <2> QED
    BY <1>1, <1>4, <1>5, <2>1, <2>2, StateFacts, StoringStep
<1>6. CASE /\ entry.status \in {"Accepted", "Unknown"}
           /\ ReceiptAccepted(entry.asked, receipt)
           /\ operations' = replaced
           /\ observation' = seen
  <2>1. /\ receipt.status \in {"Accepted", "Settled", "Rejected"}
        /\ entry.asked \in Generation /\ entry.asked <= observation.generation
        /\ receipt.observation.generation \in Generation
    BY <1>3, <1>6, StateFacts DEF ReceiptAccepted, SnapshotValid, Observation
  <2>2. /\ result \in Entry /\ result.status = receipt.status
        /\ result.asked = entry.asked
        /\ result.at = receipt.observation.generation
    BY <2>1, ResultFacts DEF Status
  <2>3. Sound(op, result)
    BY <1>3, <2>1, <2>2 DEF Sound
  <2>4. /\ seen \in Observation
        /\ observation.generation <= seen.generation
        /\ seen.generation <= host.observation.generation
        /\ result.at <= seen.generation
        /\ result.asked <= seen.generation
    <3>1. /\ observation.generation \in Nat /\ entry.asked \in Nat
          /\ receipt.observation.generation \in Nat
      BY <2>1, StateFacts, LedgerConfig DEF Generation
    <3>2. CASE newer
      BY <3>1, <3>2, <1>3, <2>1, <2>2
    <3>3. CASE ~newer
      BY <3>1, <3>3, <1>6, <2>1, <2>2, StateFacts DEF ReceiptAccepted
    <3> QED
      BY <3>2, <3>3
  <2>5. EntryValid(result, seen)
    BY <1>6, <2>1, <2>2, <2>4 DEF EntryValid, ReceiptAccepted
  <2> HIDE DEF result, seen, replaced, newer
  <2>6. /\ replaced \in [Ops -> Entry]
        /\ replaced[op] = result
        /\ \A o \in Ops : o # op => replaced[o] = operations[o]
        /\ \A o \in Ops : Sound(o, replaced[o])
        /\ SnapshotValid(replaced, seen)
    BY <1>1, <2>2, <2>3, <2>4, <2>5, EntryReplaced DEF replaced
  <2>7. answers' \in [Ops -> SUBSET Definite]
    BY <1>1, ToldFacts, StateFacts DEF IInv
  <2>8. \A o \in Ops : "Rejected" \in answers'[o] /\ writes[o] = 0 =>
          replaced[o].status = "Rejected"
    <3>1. \A o \in Ops : "Rejected" \in answers'[o] =>
            "Rejected" \in answers[o] \/ (o = op /\ result.status = "Rejected")
      BY <1>1, <1>6, <2>6, ToldFacts DEF IInv
    <3> QED
      BY <3>1, <1>1, <1>3, <1>6, <2>2, <2>6, StateFacts
  <2>9. \A o \in Ops : replaced[o].status = "Rejected" /\ writes[o] = 0 =>
          operations[o].status = "Rejected"
    BY <1>3, <2>2, <2>6
  <2> QED
    BY <1>1, <1>4, <1>6, <2>4, <2>6, <2>7, <2>8, <2>9, StoringStep
<1> QED
  BY <1>2, <1>5, <1>6

\* A refreshed observation is the host's, and no older than the one held.
LEMMA RefreshStateInv ==
  ASSUME IInv, RefreshState
  PROVE  IInv'
<1> DEFINE seen == host.observation
<1>1. /\ worker.at = "idle"
      /\ observation.generation <= seen.generation
      /\ observation' = seen /\ operations' = operations
      /\ journal' \in {journal, persisted_state(operations, seen)}
      /\ UNCHANGED <<worker, host, crashes, writes, effect, answers>>
  BY LedgerConfig DEF RefreshState, StateAccepted, Stored, StoreFails, history, IInv, TypeOK,
     Observation, Generation
<1>2. seen \in Observation /\ seen.generation <= host.observation.generation
  BY LedgerConfig DEF IInv, TypeOK, Observation, Generation
<1>3. WorkerConsistent' /\ worker' = Idle
  BY <1>1 DEF WorkerConsistent, IInv, TypeOK, Idle, Down
<1> HIDE DEF seen
<1>4. SnapshotValid(operations, seen)
  BY <1>1, <1>2, StateFacts, LedgerConfig
  DEF SnapshotValid, EntryValid, Entry, Observation, Generation
<1> QED
  BY <1>1, <1>2, <1>3, <1>4, StateFacts, StoringStep

\* A crash loses memory and leaves the journal sound.
LEMMA CrashInv ==
  ASSUME IInv, Crash
  PROVE  IInv'
<1> USE DEF IInv
<1>1. /\ worker' = Down /\ operations' = Empty /\ observation' = Initial
      /\ crashes' = crashes + 1
      /\ UNCHANGED <<journal, host, writes, effect, answers>>
  BY DEF Crash, history
<1>2. Initial \in Observation /\ Absent \in Entry /\ Empty \in [Ops -> Entry]
  BY LedgerConfig DEF Initial, Observation, Generation, Absent, Entry, Status, Empty
<1>3. TypeOK'
  BY <1>1, <1>2 DEF TypeOK
<1>4. LedgerSound' /\ WorkerConsistent'
  BY <1>1 DEF LedgerSound, EntriesSound, Sound, RejectionKept, RejectedIsStored,
     WorkerConsistent, Down, Empty, Absent
<1>5. HostConsistent'
  BY <1>1 DEF HostConsistent
<1>6. ObservationReachable'
  BY <1>1, LedgerConfig DEF ObservationReachable, TypeOK, Observation, Generation,
     Initial
<1>7. SnapshotsValid'
  BY <1>1 DEF SnapshotsValid, SnapshotValid, EntryValid, Empty, Absent, Initial
<1> QED
  BY <1>3, <1>4, <1>5, <1>6, <1>7

\* The restored ledger knows every operation the journal knows, and claims
\* no more about it.
LEMMA RestartInv ==
  ASSUME IInv, Restart
  PROVE  IInv'
<1> USE DEF IInv
<1>1. /\ worker' = Idle
      /\ operations' = [op \in Ops |-> RestoredEntry(journal.operations[op])]
      /\ observation' = journal.observation
      /\ UNCHANGED <<journal, host, crashes, writes, effect, answers>>
  BY DEF Restart, history
<1>2. /\ journal.operations \in [Ops -> Entry]
      /\ journal.observation \in Observation
  BY DEF TypeOK, Persisted
<1>3. ASSUME NEW op \in Ops
      PROVE  /\ operations'[op] \in Entry
             /\ \/ operations'[op] = journal.operations[op]
                \/ /\ journal.operations[op].status \in {"InFlight", "Accepted"}
                   /\ operations'[op].status = "Unknown"
                   /\ operations'[op].asked = journal.operations[op].asked
  <2>1. journal.operations[op] \in Entry
        /\ journal.operations[op].asked \in Generation
    BY <1>2 DEF Entry
  <2>2. /\ Unknown(journal.operations[op].asked) \in Entry
        /\ Unknown(journal.operations[op].asked).status = "Unknown"
        /\ Unknown(journal.operations[op].asked).asked
             = journal.operations[op].asked
    BY <2>1, ResultFacts DEF Unknown, Status
  <2> QED
    BY <1>1, <2>1, <2>2 DEF RestoredEntry
<1>4. operations' \in [Ops -> Entry]
  BY <1>1, <1>3
<1>5. TypeOK'
  BY <1>1, <1>2, <1>4 DEF TypeOK
<1>6. LedgerSound'
  <2>1. EntriesSound(journal.operations)
    BY DEF LedgerSound
  <2>2. /\ EntriesSound(journal.operations)' /\ EntriesSound(operations)'
        /\ RejectedIsStored'
    BY <2>1, <1>1, <1>3 DEF EntriesSound, Sound, RejectionKept, RejectedIsStored
  <2> QED
    BY <2>2 DEF LedgerSound
<1>7. WorkerConsistent'
  BY <1>1 DEF WorkerConsistent, Idle
<1>8. HostConsistent' /\ ObservationReachable'
  BY <1>1 DEF HostConsistent, ObservationReachable
<1>9. SnapshotsValid'
  BY <1>1, <1>3 DEF SnapshotsValid, SnapshotValid, EntryValid
<1> QED
  BY <1>5, <1>6, <1>7, <1>8, <1>9

\* Whatever the host does, the gateway's state is unaffected, and what it
\* did not do yet is nowhere recorded as done or refused.
LEMMA HostStep ==
  ASSUME IInv, UNCHANGED gateway, UNCHANGED <<writes, answers>>,
         effect' \in [Ops -> {"none", "done", "refused"}],
         \A op \in Ops : effect[op] # "none" => effect'[op] = effect[op],
         host' \in [observation : Observation, receipts : [Ops -> Receipt]],
         HostConsistent',
         host.observation.generation <= host'.observation.generation
  PROVE  IInv'
<1> USE DEF IInv
<1>1. UNCHANGED <<operations, observation, journal, worker, crashes>>
  BY DEF gateway
<1>2. TypeOK'
  BY <1>1 DEF TypeOK
<1>3. LedgerSound'
  BY <1>1 DEF LedgerSound, EntriesSound, Sound, RejectionKept, RejectedIsStored
<1>4. WorkerConsistent'
  BY <1>1 DEF WorkerConsistent
<1>5. ObservationReachable'
  BY <1>1, LedgerConfig DEF ObservationReachable, TypeOK, Persisted, Observation,
     Generation
<1>6. SnapshotsValid'
  BY <1>1 DEF SnapshotsValid, SnapshotValid, EntryValid
<1> QED
  BY <1>2, <1>3, <1>4, <1>5, <1>6

\* What recording a receipt does to the host's state.
LEMMA HostRecordsFacts ==
  ASSUME TypeOK, NEW op \in Ops, NEW seen \in Observation,
         NEW status \in {"Refused", "Accepted", "Settled", "Rejected"},
         HostRecords(op, status, seen)
  PROVE  /\ host' \in [observation : Observation, receipts : [Ops -> Receipt]]
         /\ host'.observation = seen
         /\ host'.receipts[op].status = status
         /\ host'.receipts[op].observation = seen
         /\ \A o \in Ops : o # op => host'.receipts[o] = host.receipts[o]
<1>1. /\ host \in [observation : Observation, receipts : [Ops -> Receipt]]
      /\ host.receipts[op] \in Receipt
  BY DEF TypeOK
<1> DEFINE new == [host.receipts[op] EXCEPT !.status = status, !.observation = seen]
<1>2. /\ new \in Receipt /\ new.status = status /\ new.observation = seen
  BY <1>1 DEF Receipt
<1>3. host' = [host EXCEPT !.observation = seen, !.receipts = [@ EXCEPT ![op] = new]]
  BY <1>1 DEF HostRecords, Receipt
<1> HIDE DEF new
<1> QED
  BY <1>1, <1>2, <1>3

LEMMA HostRefusesInv ==
  ASSUME IInv, NEW op \in Ops, HostRefuses(op)
  PROVE  IInv'
<1> USE DEF IInv
<1>1. /\ host.receipts[op].status \in {"Unread", "Accepted"}
      /\ effect' = [effect EXCEPT ![op] = "refused"]
      /\ UNCHANGED gateway /\ UNCHANGED <<writes, answers>>
  BY DEF HostRefuses
<1>2. host.observation \in Observation
      /\ host.observation.generation <= host.observation.generation
  BY LedgerConfig DEF TypeOK, Observation, Generation
<1>3. \E status \in {"Rejected", "Refused"} :
        HostRecords(op, status, host.observation)
  BY DEF HostRefuses
<1>4. PICK status \in {"Rejected", "Refused"} :
        HostRecords(op, status, host.observation)
  BY <1>3
<1>5. /\ host' \in [observation : Observation, receipts : [Ops -> Receipt]]
      /\ host'.observation = host.observation
      /\ host'.receipts[op].status = status
      /\ host'.receipts[op].observation = host.observation
      /\ \A o \in Ops : o # op => host'.receipts[o] = host.receipts[o]
  BY <1>2, <1>4, HostRecordsFacts
<1>6. /\ effect' \in [Ops -> {"none", "done", "refused"}]
      /\ effect'[op] = "refused"
      /\ \A o \in Ops : o # op => effect'[o] = effect[o]
      /\ effect[op] = "none" /\ writes[op] = 1
  BY <1>1 DEF TypeOK, HostConsistent
<1>7. HostConsistent'
  BY <1>1, <1>2, <1>5, <1>6 DEF HostConsistent
<1> QED
  BY <1>1, <1>2, <1>5, <1>6, <1>7, HostStep

LEMMA HostAcceptsInv ==
  ASSUME IInv, NEW op \in Ops, HostAccepts(op)
  PROVE  IInv'
<1> USE DEF IInv
<1>1. /\ host.receipts[op].status = "Unread"
      /\ HostRecords(op, "Accepted", host.observation)
      /\ UNCHANGED gateway /\ UNCHANGED <<writes, effect, answers>>
  BY DEF HostAccepts, history
<1>2. host.observation \in Observation
      /\ host.observation.generation <= host.observation.generation
  BY LedgerConfig DEF TypeOK, Observation, Generation
<1>3. /\ host' \in [observation : Observation, receipts : [Ops -> Receipt]]
      /\ host'.observation = host.observation
      /\ host'.receipts[op].status = "Accepted"
      /\ host'.receipts[op].observation = host.observation
      /\ \A o \in Ops : o # op => host'.receipts[o] = host.receipts[o]
  BY <1>1, <1>2, HostRecordsFacts
<1>4. HostConsistent'
  BY <1>1, <1>2, <1>3 DEF HostConsistent
<1>5. effect' \in [Ops -> {"none", "done", "refused"}]
  BY <1>1 DEF TypeOK
<1> QED
  BY <1>1, <1>2, <1>3, <1>4, <1>5, HostStep

\* The host's observation after it advanced by one.
LEMMA AdvancedFacts ==
  ASSUME TypeOK, NEW phase \in {"Playable", "Blocked"},
         host.observation.generation < MaxGeneration
  PROVE  /\ Advanced(phase) \in Observation
         /\ Advanced(phase).generation = host.observation.generation + 1
         /\ host.observation.generation \in Nat
  BY LedgerConfig DEF Advanced, TypeOK, Observation, Generation

LEMMA HostActsInv ==
  ASSUME IInv, NEW op \in Ops, HostActs(op)
  PROVE  IInv'
<1> USE DEF IInv
<1>1. /\ host.receipts[op].status \in {"Unread", "Accepted"}
      /\ host.observation.generation < MaxGeneration
      /\ effect' = [effect EXCEPT ![op] = "done"]
      /\ UNCHANGED gateway /\ UNCHANGED <<writes, answers>>
  BY DEF HostActs
<1>2. PICK phase \in {"Playable", "Blocked"} :
        HostRecords(op, "Settled", Advanced(phase))
  BY DEF HostActs
<1>3. PICK seen \in Observation :
        /\ seen = Advanced(phase)
        /\ seen.generation = host.observation.generation + 1
        /\ host.observation.generation \in Nat
  BY <1>1, AdvancedFacts
<1>4. /\ host' \in [observation : Observation, receipts : [Ops -> Receipt]]
      /\ host'.observation = seen
      /\ host'.receipts[op].status = "Settled"
      /\ host'.receipts[op].observation = seen
      /\ \A o \in Ops : o # op => host'.receipts[o] = host.receipts[o]
  BY <1>2, <1>3, HostRecordsFacts
<1>5. /\ effect' \in [Ops -> {"none", "done", "refused"}]
      /\ effect'[op] = "done"
      /\ \A o \in Ops : o # op => effect'[o] = effect[o]
      /\ effect[op] = "none" /\ writes[op] = 1
  BY <1>1 DEF TypeOK, HostConsistent
<1>6. \A o \in Ops : host.receipts[o].observation.generation \in Nat
  BY LedgerConfig DEF TypeOK, Receipt, Observation, Generation
<1>7. HostConsistent'
  <2> SUFFICES ASSUME NEW o \in Ops
               PROVE  /\ writes'[o] \in {0, 1}
                      /\ host'.receipts[o].status # "Never" => writes'[o] = 1
                      /\ effect'[o] =
                           CASE host'.receipts[o].status = "Settled" -> "done"
                             [] host'.receipts[o].status \in {"Rejected", "Refused"}
                                  -> "refused"
                             [] OTHER -> "none"
                      /\ host'.receipts[o].observation.generation
                           <= host'.observation.generation
    BY DEF HostConsistent
  <2>1. CASE o = op
    BY <2>1, <1>1, <1>3, <1>4, <1>5
  <2>2. CASE o # op
    BY <2>2, <1>1, <1>3, <1>4, <1>5, <1>6 DEF HostConsistent
  <2> QED
    BY <2>1, <2>2
<1> QED
  BY <1>1, <1>3, <1>4, <1>5, <1>7, HostStep

LEMMA HostMovesInv ==
  ASSUME IInv, HostMoves
  PROVE  IInv'
<1> USE DEF IInv
<1>1. UNCHANGED gateway /\ UNCHANGED <<writes, effect, answers>>
  BY DEF HostMoves, history
<1>2. \E seen \in Observation :
        /\ host' = [host EXCEPT !.observation = seen]
        /\ host.observation.generation <= seen.generation
        /\ host.observation.generation \in Nat /\ seen.generation \in Nat
  <2>1. PICK phase \in {"Playable", "Blocked"} :
          \/ host' = [host EXCEPT !.observation.phase = phase]
          \/ /\ host.observation.generation < MaxGeneration
             /\ host' = [host EXCEPT !.observation = Advanced(phase)]
    BY DEF HostMoves
  <2>2. CASE host' = [host EXCEPT !.observation.phase = phase]
    <3> DEFINE seen == [host.observation EXCEPT !.phase = phase]
    <3>1. /\ seen \in Observation
          /\ host.observation.generation <= seen.generation
          /\ host.observation.generation \in Nat /\ seen.generation \in Nat
      BY LedgerConfig DEF TypeOK, Observation, Generation
    <3>2. host' = [host EXCEPT !.observation = seen]
      BY <2>2
    <3> HIDE DEF seen
    <3> QED
      BY <3>1, <3>2
  <2>3. CASE /\ host.observation.generation < MaxGeneration
             /\ host' = [host EXCEPT !.observation = Advanced(phase)]
    <3> DEFINE seen == Advanced(phase)
    <3>1. /\ seen \in Observation
          /\ host.observation.generation <= seen.generation
          /\ host.observation.generation \in Nat /\ seen.generation \in Nat
      BY <2>3, AdvancedFacts
    <3>2. host' = [host EXCEPT !.observation = seen]
      BY <2>3
    <3> HIDE DEF seen
    <3> QED
      BY <3>1, <3>2
  <2> QED
    BY <2>1, <2>2, <2>3
<1>3. PICK seen \in Observation :
        /\ host' = [host EXCEPT !.observation = seen]
        /\ host.observation.generation <= seen.generation
        /\ host.observation.generation \in Nat /\ seen.generation \in Nat
  BY <1>2
<1>4. /\ host' \in [observation : Observation, receipts : [Ops -> Receipt]]
      /\ host'.observation = seen
      /\ host'.receipts = host.receipts
  BY <1>3 DEF TypeOK
<1>5. \A o \in Ops : host.receipts[o].observation.generation \in Nat
  BY LedgerConfig DEF TypeOK, Receipt, Observation, Generation
<1>6. HostConsistent'
  BY <1>1, <1>3, <1>4, <1>5 DEF HostConsistent
<1>7. effect' \in [Ops -> {"none", "done", "refused"}]
  BY <1>1 DEF TypeOK
<1> QED
  BY <1>1, <1>3, <1>4, <1>6, <1>7, HostStep

\* Every step preserves the invariant.
LEMMA NextInv ==
  ASSUME IInv, [Next]_vars
  PROVE  IInv'
<1>1. CASE UNCHANGED vars
  BY <1>1 DEF vars, IInv, TypeOK, LedgerSound, EntriesSound, Sound, RejectionKept,
     RejectedIsStored, WorkerConsistent, HostConsistent, ObservationReachable,
     SnapshotsValid, SnapshotValid, EntryValid
<1>2. CASE \E op \in Ops, g \in Generation :
             \/ Replay(op, g) \/ SubmitRejected(op, g)
             \/ SubmitAdmitted(op, g) \/ Cancel(op, g)
  BY <1>2, ReplayInv, SubmitRejectedInv, SubmitAdmittedInv, CancelInv
<1>3. CASE Dispatch \/ DispatchFails \/ ReplyArrives \/ ReplyLost
  BY <1>3, DispatchInv, DispatchFailsInv, ReplyArrivesInv, ReplyLostInv
<1>4. CASE (\E op \in Ops : Reconcile(op)) \/ RefreshState \/ Crash \/ Restart
  BY <1>4, ReconcileInv, RefreshStateInv, CrashInv, RestartInv
<1>5. CASE \/ \E op \in Ops : HostRefuses(op) \/ HostAccepts(op) \/ HostActs(op)
           \/ HostMoves
  BY <1>5, HostRefusesInv, HostAcceptsInv, HostActsInv, HostMovesInv
<1> QED
  BY <1>1, <1>2, <1>3, <1>4, <1>5 DEF Next

\* The invariant holds in every reachable state: the retained entries, in
\* memory and in the journal, are sound about what the host did.
THEOREM LedgerInvariant == Spec => []IInv
<1>1. IInv /\ [Next]_vars => IInv'
  BY NextInv
<1> QED
  BY InitInv, <1>1, PTL DEF Spec

\* Every variable keeps its shape, for any number of operations and crashes.
THEOREM LedgerTypeCorrect == Spec => []TypeOK
<1>1. IInv => TypeOK
  BY DEF IInv
<1> QED
  BY LedgerInvariant, <1>1, PTL

\* No crash, failed store or resubmission makes the gateway forget an
\* operation it wrote to the host.
THEOREM WrittenStaysRetained == Spec => []WrittenIsRetained
<1>1. IInv => WrittenIsRetained
  BY DEF IInv, WrittenIsRetained, LedgerSound, EntriesSound, Sound, InJournal,
     Retained, KnownIn, TypeOK
<1> QED
  BY LedgerInvariant, <1>1, PTL

\* The observation held, and the one a restart would find, are the host's
\* past or present.
THEOREM ObservationStaysReachable == Spec => []ObservationReachable
<1>1. IInv => ObservationReachable
  BY DEF IInv
<1> QED
  BY LedgerInvariant, <1>1, PTL

-----------------------------------------------------------------------------
(* The journal can always be restored.                                      *)

\* The operations known to a map after one more entry.
LEMMA KnownAfter ==
  ASSUME TypeOK, NEW op \in Ops, NEW entry \in Entry,
         entry.status # "Absent", op \notin Retained,
         Cardinality(Retained) < operation_capacity
  PROVE  Cardinality(KnownIn([operations EXCEPT ![op] = entry]))
           <= operation_capacity
<1>1. KnownIn([operations EXCEPT ![op] = entry]) = Retained \cup {op}
  BY DEF TypeOK, KnownIn, Retained
<1>2. IsFiniteSet(Retained)
  BY LedgerConfig, FS_Subset DEF Retained, KnownIn
<1>3. /\ Cardinality(Retained) \in Nat
      /\ Cardinality(Retained \cup {op}) = Cardinality(Retained) + 1
  BY <1>2, FS_CardinalityType, FS_AddElement
<1>4. operation_capacity \in Nat
  BY LedgerConfig
<1>5. PICK n \in Nat : n = Cardinality(Retained)
  BY <1>3
<1>6. n + 1 <= operation_capacity
  BY <1>4, <1>5
<1> QED
  BY <1>1, <1>3, <1>5, <1>6

\* Changing an entry into another one leaves the same operations known.
LEMMA KnownSame ==
  ASSUME TypeOK, NEW op \in Ops, NEW entry \in Entry,
         entry.status # "Absent", op \in Retained
  PROVE  KnownIn([operations EXCEPT ![op] = entry]) = KnownIn(operations)
  BY DEF TypeOK, KnownIn, Retained

\* Neither the map nor the journal ever exceeds the configured capacity.
LEMMA CapacityStep ==
  ASSUME IInv, CapacityKept, [Next]_vars
  PROVE  CapacityKept'
<1> DEFINE Small(ops) == Cardinality(KnownIn(ops)) <= operation_capacity
<1>1. Small(operations) /\ Small(journal.operations)
  BY DEF CapacityKept
<1>2. ASSUME NEW seen,
             journal' \in {journal, persisted_state(operations', seen)},
             Small(operations')
      PROVE  CapacityKept'
  <2>1. journal'.operations \in {journal.operations, operations'}
    BY <1>2 DEF persisted_state
  <2> QED
    BY <1>1, <1>2, <2>1 DEF CapacityKept
<1>3. ASSUME operations' = operations, journal' = journal
      PROVE  CapacityKept'
  BY <1>1, <1>3 DEF CapacityKept
<1>4. ASSUME NEW op \in Ops, NEW entry \in Entry, entry.status # "Absent",
             op \notin Retained, Cardinality(Retained) < operation_capacity,
             operations' \in {operations, [operations EXCEPT ![op] = entry]},
             \/ journal' = journal
             \/ journal'.operations = [operations EXCEPT ![op] = entry]
      PROVE  CapacityKept'
  <2>1. Small([operations EXCEPT ![op] = entry])
    BY <1>4, KnownAfter DEF IInv
  <2> QED
    BY <1>1, <1>4, <2>1 DEF CapacityKept
<1>5. ASSUME worker.at \in {"dispatch", "await"}, NEW result \in Entry, NEW seen,
             result.status # "Absent", Conclude(result, seen)
      PROVE  CapacityKept'
  <2> DEFINE op == worker.op
             unsure == Unknown(operations[op].asked)
  <2>1. /\ op \in Ops /\ op \in Retained
        /\ unsure \in Entry /\ unsure.status # "Absent"
    BY <1>5, BusyFacts, ResultFacts DEF Retained, KnownIn, Unknown, Status
  <2>2. /\ Small([operations EXCEPT ![op] = result])
        /\ Small([operations EXCEPT ![op] = unsure])
    BY <1>1, <1>5, <2>1, KnownSame DEF IInv
  <2>3. operations' \in {[operations EXCEPT ![op] = result],
                         [operations EXCEPT ![op] = unsure]}
    BY <1>5 DEF Conclude
  <2>4. journal'.operations \in {journal.operations,
                                 [operations EXCEPT ![op] = result]}
    BY <1>5 DEF Conclude, Stored, StoreFails, persisted_state
  <2> QED
    BY <1>1, <2>2, <2>3, <2>4 DEF CapacityKept
<1> HIDE DEF Small
<1>6. CASE UNCHANGED vars
  BY <1>3, <1>6 DEF vars
<1>7. ASSUME NEW op \in Ops, NEW g \in Generation,
             \/ Replay(op, g) \/ SubmitRejected(op, g)
             \/ SubmitAdmitted(op, g) \/ Cancel(op, g)
      PROVE  CapacityKept'
  <2>1. CASE Replay(op, g)
    BY <1>3, <2>1 DEF Replay, gateway
  <2>2. CASE SubmitRejected(op, g)
    <3>1. Result("Rejected", g, observation.generation) \in Entry
          /\ Result("Rejected", g, observation.generation).status = "Rejected"
      BY ResultFacts, StateFacts DEF Status
    <3>2. PICK entry \in Entry :
            /\ entry = Result("Rejected", g, observation.generation)
            /\ entry.status # "Absent"
      BY <3>1
    <3>3. /\ op \notin Retained /\ Cardinality(Retained) < operation_capacity
          /\ operations' \in {operations, [operations EXCEPT ![op] = entry]}
          /\ \/ journal' = journal
             \/ journal'.operations = [operations EXCEPT ![op] = entry]
      BY <2>2, <3>2 DEF SubmitRejected, Stored, StoreFails, persisted_state
    <3> QED
      BY <1>4, <3>2, <3>3
  <2>3. CASE SubmitAdmitted(op, g)
    <3>1. Result("InFlight", g, g) \in Entry
          /\ Result("InFlight", g, g).status = "InFlight"
      BY ResultFacts DEF Status
    <3>2. PICK entry \in Entry :
            entry = Result("InFlight", g, g) /\ entry.status # "Absent"
      BY <3>1
    <3>3. /\ op \notin Retained /\ Cardinality(Retained) < operation_capacity
          /\ operations' \in {operations, [operations EXCEPT ![op] = entry]}
          /\ \/ journal' = journal
             \/ journal'.operations = [operations EXCEPT ![op] = entry]
      BY <2>3, <3>2 DEF SubmitAdmitted, Stored, StoreFails, persisted_state
    <3> QED
      BY <1>4, <3>2, <3>3
  <2>4. CASE Cancel(op, g)
    <3>1. Result("Cancelled", g, g) \in Entry
          /\ Result("Cancelled", g, g).status = "Cancelled"
      BY ResultFacts DEF Status
    <3> QED
      BY <1>4, <2>4, <3>1 DEF Cancel
  <2> QED
    BY <1>7, <2>1, <2>2, <2>3, <2>4
<1>8. CASE Dispatch
  BY <1>3, <1>8 DEF Dispatch
<1>9. CASE DispatchFails
  <2>1. worker.at = "dispatch"
    BY <1>9 DEF DispatchFails
  <2>2. PICK result : /\ result = Result("Rejected", operations[worker.op].asked,
                                         observation.generation)
                      /\ Conclude(result, observation)
    BY <1>9 DEF DispatchFails
  <2>3. result \in Entry /\ result.status = "Rejected"
    BY <2>1, <2>2, ResultFacts, StateFacts, BusyFacts DEF Status
  <2> QED
    BY <1>5, <2>1, <2>2, <2>3
<1>10. CASE ReplyArrives
  <2>1. worker.at = "await"
    BY <1>10 DEF ReplyArrives
  <2>2. PICK result, seen :
          /\ result = ForwardedResult(operations[worker.op].asked,
                                      host.receipts[worker.op])
          /\ Conclude(result, seen)
    BY <1>10 DEF ReplyArrives
  <2>3. /\ worker.op \in Ops /\ host.receipts[worker.op] \in Receipt
        /\ operations[worker.op].asked \in Generation
        /\ operations[worker.op].asked <= observation.generation
    BY <2>1, BusyFacts DEF IInv, TypeOK
  <2>4. result \in Entry /\ result.status # "Absent"
    BY <2>2, <2>3, StateFacts, ForwardedResultFacts
  <2> QED
    BY <1>5, <2>1, <2>2, <2>4
<1>11. CASE ReplyLost
  <2>1. worker.at = "await"
    BY <1>11 DEF ReplyLost
  <2>2. PICK result : /\ result = Unknown(operations[worker.op].asked)
                      /\ Conclude(result, observation)
    BY <1>11 DEF ReplyLost
  <2>3. result \in Entry /\ result.status = "Unknown"
    BY <2>1, <2>2, ResultFacts, BusyFacts DEF Unknown, Status
  <2> QED
    BY <1>5, <2>1, <2>2, <2>3
<1>12. ASSUME NEW op \in Ops, Reconcile(op)
       PROVE  CapacityKept'
  <2>1. journal' \in {journal, persisted_state(operations', observation')}
    BY <1>12 DEF Reconcile, Stored, StoreFails
  <2>2. CASE operations' = operations
    BY <1>1, <1>2, <2>1, <2>2
  <2>3. CASE operations' # operations
    <3> DEFINE receipt == host.receipts[op]
               result == Result(receipt.status, operations[op].asked,
                                receipt.observation.generation)
    <3>1. /\ operations' = [operations EXCEPT ![op] = result]
          /\ receipt.status \in {"Accepted", "Settled", "Rejected"}
          /\ op \in Retained
      BY <1>12, <2>3 DEF Reconcile, ReceiptAccepted
    <3>2. /\ operations[op].asked \in Generation
          /\ receipt.observation.generation \in Generation
      BY StateFacts DEF IInv, TypeOK, Receipt, Observation
    <3>3. result \in Entry /\ result.status # "Absent"
      BY <3>1, <3>2, ResultFacts DEF Status
    <3> HIDE DEF result, receipt
    <3>4. Small(operations')
      BY <1>1, <3>1, <3>3, KnownSame DEF IInv, Small
    <3> QED
      BY <1>2, <2>1, <3>4
  <2> QED
    BY <2>2, <2>3
<1>13. CASE RefreshState
  <2>1. /\ operations' = operations
        /\ journal' \in {journal, persisted_state(operations', host.observation)}
    BY <1>13 DEF RefreshState, Stored, StoreFails
  <2> QED
    BY <1>1, <1>2, <2>1
<1>14. CASE Crash
  <2>1. operations' = Empty /\ journal' = journal
    BY <1>14 DEF Crash
  <2>2. KnownIn(Empty) = {}
    BY DEF KnownIn, Empty, Absent
  <2> QED
    BY <1>1, <2>1, <2>2, FS_EmptySet, LedgerConfig DEF CapacityKept, Small
<1>15. CASE Restart
  <2>1. /\ operations' = [op \in Ops |-> RestoredEntry(journal.operations[op])]
        /\ journal' = journal
    BY <1>15 DEF Restart
  <2>2. KnownIn(operations') = KnownIn(journal.operations)
    BY <2>1 DEF KnownIn, RestoredEntry, Unknown, Result
  <2> QED
    BY <1>1, <2>1, <2>2 DEF CapacityKept, Small
<1>16. CASE \/ \E op \in Ops : HostRefuses(op) \/ HostAccepts(op) \/ HostActs(op)
            \/ HostMoves
  BY <1>3, <1>16 DEF HostRefuses, HostAccepts, HostActs, HostMoves, gateway
<1> QED
  BY <1>6, <1>7, <1>8, <1>9, <1>10, <1>11, <1>12, <1>13, <1>14, <1>15, <1>16
  DEF Next

\* restore_state accepts whatever journal the service left behind: crashes
\* and failed stores never keep it from starting again.
THEOREM JournalStaysRestorable == Spec => []JournalRestorable
<1>1. Init => CapacityKept
  <2>1. KnownIn(Empty) = {}
    BY DEF KnownIn, Empty, Absent
  <2> QED
    BY <2>1, FS_EmptySet, LedgerConfig DEF Init, CapacityKept, persisted_state
<1>2. IInv /\ CapacityKept /\ [Next]_vars => CapacityKept'
  BY CapacityStep
<1>3. IInv /\ CapacityKept => JournalRestorable
  BY DEF IInv, CapacityKept, JournalRestorable, RestoreAccepts, SnapshotsValid,
     SnapshotValid
<1> QED
  BY <1>1, <1>2, <1>3, LedgerInvariant, PTL DEF Spec

-----------------------------------------------------------------------------
(* Refinement of the promise to the callers.                                *)

\* Telling a truthful status is an answer of the abstract specification, or
\* nothing at all if the status claims nothing.
LEMMA TellStep ==
  ASSUME TypeOK, NEW op \in Ops, NEW status, Told(op, status),
         UNCHANGED <<writes, effect>>,
         status = "Settled" => effect[op] = "done",
         status = "Rejected" => writes[op] = 0 \/ effect[op] = "refused"
  PROVE  [Once!Next]_(Once!vars)
<1>1. CASE status \in Definite
  <2>1. {status} \cap Definite = {status}
    BY <1>1
  <2>2. Once!Answer(op, status)
    BY <2>1 DEF Told, Once!Answer, Once!Truthful
  <2> QED
    BY <1>1, <2>2 DEF Once!Next, Definite
<1>2. CASE status \notin Definite
  <2>1. {status} \cap Definite = {}
    BY <1>2
  <2>2. answers' = answers
    BY <2>1 DEF Told, TypeOK
  <2> QED
    BY <2>2 DEF Once!vars
<1> QED
  BY <1>1, <1>2

\* Recording the result of the operation in flight is an answer.
LEMMA ConcludeStep ==
  ASSUME IInv, worker.at \in {"dispatch", "await"}, NEW result, NEW seen,
         Conclude(result, seen), Sound(worker.op, result)
  PROVE  [Once!Next]_(Once!vars)
<1>1. worker.op \in Ops
  BY BusyFacts
<1>2. \E status \in {result.status, "Unknown"} : Told(worker.op, status)
  BY DEF Conclude
<1>3. UNCHANGED <<writes, effect>>
  BY DEF Conclude
<1> QED
  BY <1>1, <1>2, <1>3, TellStep DEF IInv, Sound

\* Every step of the ledger is a step of the abstract specification.
LEMMA OnceStep ==
  ASSUME IInv, IInv', [Next]_vars
  PROVE  [Once!Next]_(Once!vars)
<1>1. ASSUME writes' = writes, effect' = effect, answers' = answers
      PROVE  [Once!Next]_(Once!vars)
  BY <1>1 DEF Once!vars
<1>2. CASE UNCHANGED vars
  BY <1>1, <1>2 DEF vars
<1>3. ASSUME NEW op \in Ops, NEW g \in Generation,
             \/ Replay(op, g) \/ SubmitRejected(op, g)
             \/ SubmitAdmitted(op, g) \/ Cancel(op, g)
      PROVE  [Once!Next]_(Once!vars)
  <2>1. CASE Replay(op, g)
    BY <2>1, TellStep, StateFacts DEF Replay, IInv, Sound
  <2>2. CASE SubmitRejected(op, g)
    <3>1. writes[op] = 0
      BY <2>2, StateFacts DEF SubmitRejected, Retained, KnownIn, Sound
    <3> QED
      BY <1>1, <2>2, <3>1, TellStep DEF SubmitRejected, IInv
  <2>3. CASE SubmitAdmitted(op, g)
    BY <1>1, <2>3 DEF SubmitAdmitted, history
  <2>4. CASE Cancel(op, g)
    BY <2>4, TellStep DEF Cancel, IInv
  <2> QED
    BY <1>3, <2>1, <2>2, <2>3, <2>4
<1>4. CASE Dispatch
  <2> DEFINE op == worker.op
  <2>1. /\ worker.at = "dispatch" /\ op \in Ops /\ writes[op] = 0
        /\ operations[op].status = "InFlight"
    BY <1>4, BusyFacts DEF Dispatch, IInv, WorkerConsistent
  <2>2. "Rejected" \notin answers[op]
    BY <2>1, StateFacts
  <2>3. Once!Write(op)
    BY <1>4, <2>1, <2>2 DEF Dispatch, Once!Write, IInv, TypeOK
  <2> QED
    BY <2>1, <2>3 DEF Once!Next
<1>5. CASE DispatchFails
  <2>1. worker.at = "dispatch" /\ writes[worker.op] = 0
    BY <1>5 DEF DispatchFails, IInv, WorkerConsistent
  <2>2. Sound(worker.op, Result("Rejected", operations[worker.op].asked,
                                observation.generation))
    BY <2>1 DEF Sound, Result
  <2> QED
    BY <1>5, <2>1, <2>2, ConcludeStep DEF DispatchFails
<1>6. CASE ReplyArrives
  <2> DEFINE op == worker.op
             receipt == host.receipts[op]
             result == ForwardedResult(operations[op].asked, receipt)
  <2>1. /\ worker.at = "await"
        /\ \E seen : Conclude(result, seen)
    BY <1>6 DEF ReplyArrives
  <2>2. /\ op \in Ops /\ receipt \in Receipt
        /\ operations[op].asked \in Generation
        /\ operations[op].asked <= observation.generation
        /\ receipt.status = "Settled" => effect[op] = "done"
        /\ receipt.status \in {"Rejected", "Refused"} => effect[op] = "refused"
    BY <2>1, BusyFacts DEF IInv, TypeOK, HostConsistent
  <2> HIDE DEF op, receipt
  <2>3. Sound(op, result)
    BY <2>2, StateFacts, ForwardedResultFacts DEF Sound
  <2> HIDE DEF result
  <2> QED
    BY <2>1, <2>3, ConcludeStep DEF op
<1>7. CASE ReplyLost
  <2>1. Sound(worker.op, Unknown(operations[worker.op].asked))
    BY DEF Sound, Unknown, Result
  <2> QED
    BY <1>7, <2>1, ConcludeStep DEF ReplyLost
<1>8. ASSUME NEW op \in Ops, Reconcile(op)
      PROVE  [Once!Next]_(Once!vars)
  <2>1. /\ UNCHANGED <<writes, effect>> /\ worker'.at # "down"
        /\ Told(op, operations'[op].status) \/ answers' = answers
    BY <1>8 DEF Reconcile
  <2>2. Sound(op, operations[op])'
    BY <2>1 DEF IInv, LedgerSound, EntriesSound
  <2>3. PICK status : status = operations'[op].status
    OBVIOUS
  <2>4. /\ status = "Settled" => effect[op] = "done"
        /\ status = "Rejected" => writes[op] = 0 \/ effect[op] = "refused"
    BY <2>1, <2>2, <2>3 DEF Sound
  <2> QED
    BY <1>1, <2>1, <2>3, <2>4, TellStep DEF IInv
<1>9. CASE RefreshState \/ Crash \/ Restart \/ HostMoves
  BY <1>1, <1>9 DEF RefreshState, Crash, Restart, HostMoves, history
<1>10. ASSUME NEW op \in Ops, HostRefuses(op) \/ HostAccepts(op) \/ HostActs(op)
       PROVE  [Once!Next]_(Once!vars)
  <2>1. CASE HostAccepts(op)
    BY <1>1, <2>1 DEF HostAccepts, history
  <2>2. CASE HostRefuses(op) \/ HostActs(op)
    <3>1. /\ host.receipts[op].status \in {"Unread", "Accepted"}
          /\ UNCHANGED <<writes, answers>>
          /\ \E e \in {"done", "refused"} : effect' = [effect EXCEPT ![op] = e]
      BY <2>2 DEF HostRefuses, HostActs
    <3>2. writes[op] = 1 /\ effect[op] = "none"
      BY <3>1 DEF IInv, HostConsistent
    <3>3. \E e \in {"done", "refused"} : Once!Decide(op, e)
      BY <3>1, <3>2 DEF Once!Decide
    <3> QED
      BY <3>3 DEF Once!Next, Once!Effect
  <2> QED
    BY <1>10, <2>1, <2>2
<1> QED
  BY <1>2, <1>3, <1>4, <1>5, <1>6, <1>7, <1>8, <1>9, <1>10 DEF Next

\* The ledger and its journal implement the promise: at most one write of an
\* operation across any number of crashes, and no untruthful answer.
THEOREM RefinesAtMostOnce == Spec => ImplementsAtMostOnce
<1>1. Init => Once!Init
  BY DEF Init, Once!Init
<1>2. IInv /\ IInv' /\ [Next]_vars => [Once!Next]_(Once!vars)
  BY OnceStep
<1> QED
  BY <1>1, <1>2, LedgerInvariant, PTL DEF Spec, ImplementsAtMostOnce, Once!Spec
=============================================================================
