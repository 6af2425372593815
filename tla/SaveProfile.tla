---------------------------- MODULE SaveProfile ----------------------------
(* Save profiles: the selection ledger over its durable journal, and the    *)
(* provisioning of disposable user-data directories over a second journal.  *)
(* A creation goes through both: its directory is allocated, then the       *)
(* operation is recorded and forwarded to the mod.                          *)
(*                                                                          *)
(* A handler is atomic between its store transactions, its file operations  *)
(* and its exchange with the mod; the process may die at those points.  A   *)
(* store writes before memory changes, so the records in memory are those   *)
(* of the journals; what memory keeps beside them is the selected profile,  *)
(* the pending selection and the next identity.                             *)
(*                                                                          *)
(* A request context stands for its lease: instance, caller and session are *)
(* fixed.  An operation identifier is bound to one request: another request *)
(* with it is refused, and the same one is answered from its record, which  *)
(* changes nothing.  Blocked and cancelled answers of the mod are Rejected. *)
(* A mutation refused because a run is active (admit_mutation) changes      *)
(* nothing either: a request below is one that was admitted.                *)

EXTENDS Integers, FiniteSets

CONSTANTS
  Ops,          \* operation identifiers
  Profiles,     \* the mod's save profiles
  capacity,     \* of the ledger, the provisioner and the root
  Foreign,      \* identities whose directory name is already taken
  None,
  MaxLease      \* bound on lease changes

ASSUME SaveProfileConfig ==
  /\ IsFiniteSet(Ops) /\ Profiles # {} /\ None \notin Profiles \cup Ops
  /\ capacity \in Nat \ {0} /\ MaxLease \in Nat \ {0}

VARIABLES
  lease,       \* the lease a request is admitted under
  rows,        \* operation journal: request, status, insertion sequence
  allocs,      \* allocation journal: identity, lease, status
  selected, pending_selection, next_identity,      \* memory
  dirs,        \* the allocation directory of an identity
  call,        \* the step of the handler under way, and its operation
  slot,        \* external: the profile the mod has selected
  writes, effect,    \* how often the mod was sent an operation, what it did
  answers      \* history: the definite statuses callers were given

ledger == <<rows, selected, pending_selection, answers>>
provisioner == <<allocs, next_identity, dirs>>
mod == <<slot, writes, effect>>
vars == <<lease, ledger, provisioner, call, mod>>

Identities == 1..capacity

\* (Mutant of Open: an unknown outcome counts as the end of its operation.)
OnlyAccepted == {"Accepted"}

\* Statuses of an operation that may still take effect, and the final ones.
Open == {"Accepted", "Unknown"}
Final == {"Settled", "Rejected"}

\* What the journals keep of an operation, and of an allocation.
Rows == [kind : {"read", "select", "create"}, profile : Profiles \cup {None},
         lease : Nat, status : Open \cup Final, seq : Nat]
Allocs == [id : Identities, lease : Nat,
           status : {"Pending", "Created", "Unknown", "Blocked", "Rejected"}]

\* Nothing is told apart from every record.
ASSUME NothingIsNoRecord == None \notin Rows \cup Allocs

Init ==
  /\ lease = 1
  /\ rows = [o \in Ops |-> None]
  /\ allocs = [o \in Ops |-> None]
  /\ selected = None /\ pending_selection = None /\ next_identity = 1
  /\ dirs = [i \in Identities |-> IF i \in Foreign THEN "foreign" ELSE "absent"]
  /\ call = [at |-> "idle", op |-> None]
  /\ slot = None
  /\ writes = [o \in Ops |-> 0]
  /\ effect = [o \in Ops |-> "none"]
  /\ answers = [o \in Ops |-> {}]

Idle == call.at = "idle"
At(at, o) == call' = [at |-> at, op |-> o]
Done == At("idle", None)

-----------------------------------------------------------------------------
(* The ledger.                                                              *)

Recorded == {o \in Ops : rows[o] # None}
Selections(status) == {o \in Recorded : rows[o].kind = "select" /\ rows[o].status \in status}

\* (Mutant of Newest: the journal is read in the order of insertion.)
Oldest(S) == CHOOSE o \in S : \A p \in S : rows[o].seq <= rows[p].seq

\* The journal is read newest first.
Newest(S) == CHOOSE o \in S : \A p \in S : rows[o].seq >= rows[p].seq

\* SaveProfileLedger::new: the first settled selection, the first open one.
restored_selected ==
  LET S == Selections({"Settled"}) IN IF S = {} THEN None ELSE rows[Newest(S)].profile
restored_pending ==
  LET S == Selections(Open) IN IF S = {} THEN None ELSE Newest(S)

authorize(r) == r.lease = lease

\* (Mutant of CanSubmit: a record without a result is sent once more.)
CanSubmitAgain(o) ==
  /\ o \in Recorded => rows[o].status = "Accepted"
  /\ Cardinality(Recorded) < capacity

CanSubmit(o) == o \notin Recorded /\ Cardinality(Recorded) < capacity

\* One selection at a time, and none of the profile that is selected.
CanSelect(p) == pending_selection = None /\ selected # p

\* The intent is stored before anything is forwarded.
insert(o, kind, p) ==
  rows' = [rows EXCEPT ![o] = [kind |-> kind, profile |-> p, lease |-> lease,
                               status |-> "Accepted", seq |-> Cardinality(Recorded) + 1]]

ClosesSelection(status) == status \notin Open

\* validate_update of the journal: a settled or rejected row is not rewritten.
validate_update(o, status) == rows[o].status \in Open \/ rows[o].status = status

update(o, status) ==
  /\ validate_update(o, status)
  /\ rows' = [rows EXCEPT ![o] = [@ EXCEPT !.status = status]]

\* persist_result: journal first, then memory.  The write may fail; then
\* the caller gets an error and nothing changes.
persist_result(o, status) ==
  \/ /\ update(o, status)
     /\ IF rows[o].kind = "select"
        THEN /\ selected' = IF status = "Settled" THEN rows[o].profile ELSE selected
             /\ pending_selection' = IF ClosesSelection(status) THEN None
                                                                ELSE pending_selection
        ELSE UNCHANGED <<selected, pending_selection>>
     /\ answers' = [answers EXCEPT ![o] = @ \cup ({status} \cap Final)]
  \/ UNCHANGED ledger

-----------------------------------------------------------------------------
(* Requests.                                                                *)

\* List and current are recorded and forwarded like a mutation.
Read(o) ==
  /\ Idle /\ CanSubmit(o)
  /\ insert(o, "read", None)
  /\ At("forward", o)
  /\ UNCHANGED <<lease, selected, pending_selection, answers, provisioner, mod>>

Select(o, p) ==
  /\ Idle /\ CanSubmit(o) /\ CanSelect(p)
  /\ insert(o, "select", p)
  /\ pending_selection' = o
  /\ At("forward", o)
  /\ UNCHANGED <<lease, selected, answers, provisioner, mod>>

\* The end of a creation: the operation is recorded unless it was before.
SubmitCreation ==
  /\ call.at = "submit"
  /\ IF CanSubmit(call.op)
     THEN insert(call.op, "create", None) /\ At("forward", call.op)
     ELSE UNCHANGED rows /\ Done
  /\ UNCHANGED <<lease, selected, pending_selection, answers, provisioner, mod>>

\* The request is written to the connection.
exchange(o) == writes' = [writes EXCEPT ![o] = @ + 1] /\ UNCHANGED <<slot, effect>>

\* The result for a failure before a byte was written.
rejected_result == "Rejected"

\* The result for a failure after that.
unknown_result == "Unknown"

\* The exchange starts, or fails before a byte was written.
Forward ==
  /\ call.at = "forward"
  /\ \/ exchange(call.op) /\ At("answer", call.op) /\ UNCHANGED ledger
     \/ /\ persist_result(call.op, rejected_result)
        /\ Done
        /\ UNCHANGED mod
  /\ UNCHANGED <<lease, provisioner>>

\* The status the mod answers with.  An operation it was sent and has neither
\* carried out nor refused is accepted, or still on its way.
ModStatus(o) ==
  CASE effect[o] = "done" -> "Settled" [] effect[o] = "refused" -> "Rejected"
    [] OTHER -> "Accepted"

Answered ==
  /\ call.at = "answer"
  /\ persist_result(call.op, ModStatus(call.op))
  /\ Done
  /\ UNCHANGED <<lease, provisioner, mod>>

\* A timeout, a disconnect, a malformed or an invalid answer, or the answer
\* that the mod does not know.
AnswerLost ==
  /\ call.at = "answer"
  /\ persist_result(call.op, unknown_result)
  /\ Done
  /\ UNCHANGED <<lease, provisioner, mod>>

\* The mod has a receipt of what it was sent.
lookup(o) == writes[o] > 0

\* Lookup of a recorded operation under its own lease.  A receipt the mod
\* does not have, or that cannot be read, leaves the record as it is; one of
\* another operation makes it Unknown.
Reconcile(o) ==
  /\ Idle /\ o \in Recorded /\ authorize(rows[o]) /\ rows[o].status \in Open
  /\ lookup(o)
  /\ \E status \in {ModStatus(o), unknown_result} : persist_result(o, status)
  /\ UNCHANGED <<lease, provisioner, call, mod>>

CallerDisconnected(o) ==
  /\ Idle /\ o \in Recorded /\ authorize(rows[o]) /\ rows[o].status \in Open
  /\ persist_result(o, unknown_result)
  /\ UNCHANGED <<lease, provisioner, call, mod>>

-----------------------------------------------------------------------------
(* The provisioner.                                                         *)

Allocated == {o \in Ops : allocs[o] # None}

\* UserDataProvisioner::new: above every identity that was ever recorded.
restored_identity ==
  LET ids == {allocs[o].id : o \in Allocated}
  IN IF ids = {} THEN 1 ELSE 1 + CHOOSE i \in ids : \A j \in ids : i >= j

insert_allocation(o) ==
  allocs' = [allocs EXCEPT ![o] = [id |-> next_identity, lease |-> lease,
                                   status |-> "Pending"]]

\* validate_update of the allocations: a blocked one is not rewritten.
update_allocation(o, status) ==
  /\ allocs[o].status = "Blocked" => status = "Blocked"
  /\ allocs' = [allocs EXCEPT ![o] = [@ EXCEPT !.status = status]]

\* create_disposable of a new operation.  The identity is used up in memory
\* also when the launch binding is refused or the record is not stored.
Reserve(o) ==
  /\ Idle
  /\ o \notin Allocated /\ Cardinality(Allocated) < capacity /\ next_identity <= capacity
  /\ next_identity' = next_identity + 1
  /\ \/ insert_allocation(o) /\ At("inspect", o)
     \/ UNCHANGED <<allocs, call>>
  /\ UNCHANGED <<lease, ledger, dirs, mod>>

\* finish: the outcome is stored, or the write fails; a created allocation
\* goes on to the ledger.
finish(o, status) ==
  \/ /\ update_allocation(o, status)
     /\ IF status = "Created" THEN At("submit", o) ELSE Done
  \/ UNCHANGED allocs /\ Done

Directory(o) == dirs[allocs[o].id]

\* create_reserved up to the creation of the directory.  Whatever is there
\* already is refused, a failing port rejects.
CreateReserved ==
  /\ call.at = "inspect"
  /\ \/ /\ Directory(call.op) = "absent"
        /\ dirs' = [dirs EXCEPT ![allocs[call.op].id] = "partial"]
        /\ At("provenance", call.op)
        /\ UNCHANGED allocs
     \/ /\ Directory(call.op) # "absent" /\ finish(call.op, "Blocked")
        /\ UNCHANGED dirs
     \/ finish(call.op, "Rejected") /\ UNCHANGED dirs
  /\ UNCHANGED <<lease, ledger, next_identity, mod>>

\* The provenance file is written and synced, or fails after an effect.
create_new ==
  /\ call.at = "provenance"
  /\ \/ /\ dirs' = [dirs EXCEPT ![allocs[call.op].id] = call.op]
        /\ finish(call.op, "Created")
     \/ /\ dirs' \in {dirs, [dirs EXCEPT ![allocs[call.op].id] = call.op]}
        /\ finish(call.op, "Unknown")
  /\ UNCHANGED <<lease, ledger, next_identity, mod>>

\* The provenance file is the one of this operation and identity.
read_owned(o) == Directory(o) = o

\* (Mutant of inspect: an allocation that was created is taken at its word.)
inspect_unless_created(o) ==
  IF allocs[o].status = "Created" \/ read_owned(o) THEN "Created"
  ELSE IF Directory(o) = "absent" THEN "Unknown" ELSE "Blocked"

\* What reconciliation makes of the directory.
inspect(o) ==
  IF read_owned(o) THEN "Created"
  ELSE IF Directory(o) = "absent" THEN "Unknown" ELSE "Blocked"

\* Reconciliation of an allocation under its own lease: by a retried
\* creation, or by a lookup when the ledger does not know the operation.
\* A blocked one stays so; a port that does not answer makes it Unknown.
ReconcileAllocation(o, retry) ==
  /\ Idle /\ o \in Allocated /\ authorize(allocs[o])
  /\ retry \/ o \notin Recorded
  /\ allocs[o].status # "Blocked"
  /\ \E status \in {inspect(o), "Unknown"} :
       \/ /\ update_allocation(o, status)
          /\ IF retry /\ status = "Created" THEN At("submit", o) ELSE UNCHANGED call
       \/ UNCHANGED <<allocs, call>>
  /\ UNCHANGED <<lease, ledger, next_identity, dirs, mod>>

-----------------------------------------------------------------------------
(* Restarts, leases, and the surroundings.                                  *)

\* The process dies, wherever it is; a new one reads both journals.  With a
\* recovery store its first lease is a new one.
Restart ==
  /\ lease' \in {lease, lease + 1} /\ lease' <= MaxLease
  /\ selected' = restored_selected /\ pending_selection' = restored_pending
  /\ next_identity' = restored_identity
  /\ Done
  /\ UNCHANGED <<rows, answers, allocs, dirs, mod>>

\* set_authority with the lease that was admitted.
set_authority ==
  /\ Idle /\ lease < MaxLease
  /\ lease' = lease + 1
  /\ UNCHANGED <<ledger, provisioner, call, mod>>

\* The mod carries an operation out, once for each time it was sent, or
\* refuses it.
ModDecides(o) ==
  /\ writes[o] > 0 /\ effect[o] = "none"
  /\ \/ /\ effect' = [effect EXCEPT ![o] = "done"]
        /\ slot' = IF rows[o].kind = "select" THEN rows[o].profile ELSE slot
     \/ effect' = [effect EXCEPT ![o] = "refused"] /\ UNCHANGED slot
  /\ UNCHANGED <<lease, ledger, provisioner, call, writes>>

\* A directory is removed by the operator while no request is under way.
DirectoryLost(i) ==
  /\ Idle /\ dirs[i] \in Ops
  /\ dirs' = [dirs EXCEPT ![i] = "absent"]
  /\ UNCHANGED <<lease, ledger, allocs, next_identity, call, mod>>

Next ==
  \/ \E o \in Ops : Read(o) \/ Reconcile(o) \/ CallerDisconnected(o) \/ Reserve(o)
  \/ \E o \in Ops, p \in Profiles : Select(o, p)
  \/ \E o \in Ops, retry \in BOOLEAN : ReconcileAllocation(o, retry)
  \/ SubmitCreation \/ Forward \/ Answered \/ AnswerLost
  \/ CreateReserved \/ create_new
  \/ Restart \/ set_authority
  \/ \E o \in Ops : ModDecides(o)
  \/ \E i \in Identities : DirectoryLost(i)

Spec == Init /\ [][Next]_vars

-----------------------------------------------------------------------------
(* Properties.                                                              *)

\* At any point between two requests a restart finds in the journal the
\* selection and the pending selection that the running ledger has, after any
\* sequence of selections, lost answers, failed writes and reconciliations.
RestartAgrees ==
  Idle => selected = restored_selected /\ pending_selection = restored_pending

\* When no selection is pending, the profile the ledger takes for selected is
\* the one the mod has: nothing that may still take effect was given up.
SelectedIsCurrent == pending_selection = None => selected = slot

\* A creation enters the ledger, and so reaches the mod, only while its
\* directory is there with the provenance of this very operation.
CreationBacked ==
  [][\A o \in Ops : rows[o] = None /\ rows'[o] # None /\ rows'[o].kind = "create"
       => Directory(o) = o]_vars

\* The ledger implements the promise of an at-most-once operation ledger: no
\* operation is sent twice and no answer claims more than what happened.
Once == INSTANCE AtMostOnce
ImplementsAtMostOnce == Once!Spec
=============================================================================
