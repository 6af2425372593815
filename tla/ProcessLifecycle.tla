------------------------- MODULE ProcessLifecycle -------------------------
(* The process lifecycle supervisor of one instance: its operation rows,    *)
(* its ownership row, the handler that is running, and the process trees    *)
(* its launches have made.  Rows are written to the store before they are   *)
(* changed in memory, so one variable stands for both.                      *)
(*                                                                          *)
(* Every step makes one write to the store or one effectful call to the     *)
(* process port, together with the reads that lead to it; between two steps *)
(* the gateway may die, and processes come up, fork and exit.  A generation *)
(* is created at most once per operation, so a process is named by the      *)
(* operation that started it.                                               *)

EXTENDS Integers, FiniteSets, FiniteSetsExt

CONSTANTS
  MaxOp,               \* bound: operation ids are 1..MaxOp
  Profiles,            \* approved launch profiles
  Leases,              \* lease proofs the service may be configured with
  SupersededReplays,   \* do callers resubmit operations that were superseded?
  MaxEpoch,            \* bound on the authority epoch
  Nothing

Ops == 1..MaxOp

ASSUME LifecycleConstants ==
  /\ MaxOp \in Nat \ {0} /\ MaxEpoch \in Nat \ {0}
  /\ SupersededReplays \in BOOLEAN
  /\ Nothing \notin Ops \cup Profiles

VARIABLES
  rec,      \* the operation rows, Nothing where there is none
  owner,    \* the ownership row, or Nothing
  lease,    \* the lease proof bound in this boot
  job,      \* the handler that is running: its next step; or Nothing
  tree      \* external: the process tree of each generation

lifecycle_vars == <<rec, owner, lease, job, tree>>

\* LifecycleAction.
LifecycleActions == {"LaunchNew", "AttachExisting", "Stop", "Restart"}

\* What the rows, the handler and the trees are.
States == {"IntentRecorded", "Starting", "Started", "Attached", "Stopping", "Restarting",
           "Stopped", "Failed", "Rejected", "Blocked", "Unknown"}
OperationRows ==
  [kind : LifecycleActions, profile : Profiles \cup {Nothing}, target : Ops \cup {Nothing},
   seq : Nat, req : 1..MaxEpoch, auth : 1..MaxEpoch, lease : Leases, state : States,
   proc : Ops \cup {Nothing}]
OwnershipRows ==
  [op : Ops, seq : Nat, profile : Profiles \cup {Nothing}, proc : Ops \cup {Nothing}]
Places ==
  {"reserve", "starting", "start", "start_refused", "await", "reject_fault", "reject_refused",
   "own", "owner_process", "cleanup_owner", "cleanup_record", "clear", "block_fault",
   "block_refused", "attach", "attach_verify", "stop", "stop_again", "stop_verify", "stopping",
   "stopped", "restart", "restart_again", "restart_verify", "restart_reserve",
   "restart_reserve_again", "replace", "replaced", "replacement_reserve", "restarting",
   "launching", "recovered", "verify", "retained", "failed"}
Jobs == [at : Places, o : Ops, proc : Ops \cup {Nothing}, profile : Profiles \cup {Nothing}]
Trees == [proc : {"none", "requested", "running", "exited"},
          kids : {"none", "approved", "foreign"}, good : BOOLEAN]

\* Nothing is told apart from every row and every handler.
ASSUME NothingIsNoRow == Nothing \notin OperationRows \cup OwnershipRows \cup Jobs

TypeOK ==
  /\ rec \in [Ops -> OperationRows \cup {Nothing}]
  /\ owner \in OwnershipRows \cup {Nothing} /\ lease \in Leases
  /\ job \in Jobs \cup {Nothing}
  /\ tree \in [Ops -> Trees]

\* The tree of a generation exists, or may still come into being.
LiveTree(o) == tree[o].proc \in {"requested", "running"} \/ tree[o].kids # "none"

LifecycleInit ==
  /\ rec = [o \in Ops |-> Nothing] /\ owner = Nothing /\ job = Nothing
  /\ lease \in Leases
  /\ tree = [o \in Ops |-> [proc |-> "none", kids |-> "none", good |-> TRUE]]

-----------------------------------------------------------------------------
(* Rows and their order.  Sequences are issued by the gateway and differ.   *)

is_active(r) == r.state \notin {"Stopped", "Failed", "Rejected"}
Known == {o \in Ops : rec[o] # Nothing}
Latest(S) == IF S = {} THEN Nothing ELSE CHOOSE o \in S : \A p \in S : rec[p].seq <= rec[o].seq

latest_record == Latest(Known)
NotRejected == {o \in Known : rec[o].state # "Rejected"}
latest_authoritative_record == Latest(NotRejected)
operation_is_current(o) == latest_authoritative_record \in {Nothing, o}
operation_can_update_owner(o) == owner = Nothing \/ rec[o].seq >= owner.seq

issue_sequence == Max({0} \cup {rec[o].seq : o \in Known}) + 1
current_authority_epoch == Max({1} \cup {rec[o].auth : o \in Known})

\* An active operation of this lease that names a process.
Authorized(o) == rec[o].proc # Nothing /\ is_active(rec[o]) /\ rec[o].lease = lease

latest_authorized_excluding(excluded) ==
  IF owner # Nothing
  THEN IF owner.op # excluded /\ Authorized(owner.op) THEN owner.op ELSE Nothing
  ELSE LET latest == latest_authoritative_record
       IN IF latest = Nothing THEN Nothing
          ELSE IF latest # excluded THEN IF Authorized(latest) THEN latest ELSE Nothing
          ELSE Latest({o \in Known \ {excluded} : Authorized(o)})

Creates(o) == rec[o].kind \in {"LaunchNew", "Restart"}

\* The profile of the owner; without one, of the operation, or of the newest id
\* among the active operations that created a process.
profile_for_operation(o) ==
  LET creators == {c \in Known : rec[c].proc # Nothing /\ is_active(rec[c]) /\ Creates(c)}
  IN IF owner # Nothing THEN owner.profile
     ELSE IF Creates(o) THEN rec[o].profile
     ELSE IF creators = {} THEN Nothing ELSE rec[Max(creators)].profile

profile_id_for_record(o) ==
  LET creators == {c \in NotRejected : rec[c].proc = rec[o].proc /\ Creates(c)}
  IN IF Creates(o) THEN rec[o].profile
     ELSE IF rec[o].proc = Nothing \/ creators = {} THEN Nothing
     ELSE rec[Latest(creators)].profile

\* A key exists for a record that can still create its process.
for_operation(o, profile) ==
  /\ profile = rec[o].profile
  /\ CASE rec[o].kind = "LaunchNew" -> rec[o].state \in {"Starting", "Unknown"}
       [] rec[o].kind = "Restart" -> /\ rec[o].state \in {"Restarting", "Unknown"}
                                     /\ rec[o].req # rec[o].auth
       [] OTHER -> FALSE

-----------------------------------------------------------------------------
(* What the process port can report.  A fault or a drifted identity can be  *)
(* reported at any time; good news only when it is true.                    *)

matches_profile(p, profile) == tree[p].good /\ rec[p].profile = profile

Verified(p, profile) ==
  /\ matches_profile(p, profile)
  /\ tree[p].proc = "running" /\ tree[p].kids # "foreign"

confirm_exited_without_descendants(p) == tree[p].proc = "exited" /\ tree[p].kids = "none"

Created(o) == tree[o].proc \in {"running", "exited"}

-----------------------------------------------------------------------------
(* The pieces of a handler.                                                 *)

Then(place) == job' = IF place = "done" THEN Nothing ELSE [job EXCEPT !.at = place]
ThenWith(place, p) == job' = [job EXCEPT !.at = place, !.proc = p]

\* persist_update, then the next step.
persist_update(state, p, place) ==
  /\ rec' = [rec EXCEPT ![job.o].state = state, ![job.o].proc = p]
  /\ IF place = "done" THEN Then(place) ELSE ThenWith(place, p)
  /\ UNCHANGED <<owner, lease, tree>>

unknown == persist_update("Unknown", Nothing, "done")

\* The store takes the row of an active operation only, and lets no launch and
\* no older operation replace the row of another.
ownership_update_allowed(row) ==
  /\ is_active(rec[row.op])
  /\ \/ owner = Nothing \/ owner.op = row.op
     \/ rec[row.op].kind # "LaunchNew" /\ owner.seq < row.seq

persist_ownership(row, place) ==
  /\ IF ownership_update_allowed(row) THEN owner' = row /\ Then(place)
     ELSE owner' = owner /\ job' = Nothing
  /\ UNCHANGED <<rec, lease, tree>>

Row(o, profile, p) == [op |-> o, seq |-> rec[o].seq, profile |-> profile, proc |-> p]

\* An operation older than the owner leaves the row alone.
UpdateOwner(row, place) ==
  IF operation_can_update_owner(job.o) THEN persist_ownership(row, place)
  ELSE Then(place) /\ UNCHANGED <<rec, owner, lease, tree>>

\* A process that has exited, and what is left of its descendants.
Exited(p, kids) ==
  [tree EXCEPT ![p] = [proc |-> "exited", kids |-> kids, good |-> tree[p].good]]

\* stop and the look at the descendants that follows it.
StopAndLook(p, faulted, survived, gone) ==
  /\ \/ Then(faulted)
        /\ \/ UNCHANGED tree
           \/ \E kids \in {"none", tree[p].kids} : tree' = Exited(p, kids)
     \/ tree[p].kids # "none" /\ Then(survived) /\ tree' = Exited(p, tree[p].kids)
     \/ Then(gone) /\ tree' = Exited(p, "none")
  /\ UNCHANGED <<rec, owner, lease>>

JobAt(place) == job # Nothing /\ job.at = place

\* The handler returns an error and has changed nothing in this step.
GiveUp == job' = Nothing /\ UNCHANGED <<rec, owner, lease, tree>>

-----------------------------------------------------------------------------
(* Submission of a new operation.                                           *)

Runnable == {"Started", "Attached", "Blocked"}

\* reserve_action, for the target of an attachment.
reserve_action(kind, target) ==
  LET previous == latest_authorized_excluding(Nothing)
      latest == latest_authoritative_record
  IN IF kind = "LaunchNew"
     THEN owner = Nothing /\ (latest # Nothing => ~is_active(rec[latest]))
     ELSE /\ previous # Nothing
          /\ IF kind = "AttachExisting"
             THEN rec[previous].proc = target /\ rec[previous].state \in {"Started", "Attached"}
             ELSE rec[previous].state \in Runnable

can_insert_operation(kind) ==
  LET latest == latest_authoritative_record
  IN /\ latest # Nothing =>
          rec[latest].state \notin {"IntentRecorded", "Starting", "Stopping", "Restarting"}
     /\ kind = "LaunchNew" => owner = Nothing /\ (latest # Nothing => ~is_active(rec[latest]))

First(kind) == CASE kind = "LaunchNew" -> "reserve"
                 [] kind = "AttachExisting" -> "attach"
                 [] kind = "Stop" -> "stop"
                 [] kind = "Restart" -> "restart"

Requests ==
  [kind : {"LaunchNew", "Restart"}, profile : Profiles, target : {Nothing}]
    \cup [kind : {"AttachExisting"}, profile : {Nothing}, target : Ops]
    \cup {[kind |-> "Stop", profile |-> Nothing, target |-> Nothing]}

\* apply_request up to the intent; a refused request changes nothing.
Submit(o, request) ==
  /\ job = Nothing
  /\ reserve_action(request.kind, request.target) /\ can_insert_operation(request.kind)
  /\ rec' = [rec EXCEPT ![o] =
       [kind |-> request.kind, profile |-> request.profile, target |-> request.target,
        seq |-> issue_sequence, req |-> current_authority_epoch,
        auth |-> current_authority_epoch, lease |-> lease,
        state |-> "IntentRecorded", proc |-> Nothing]]
  /\ job' = [at |-> First(request.kind), o |-> o, proc |-> Nothing, profile |-> request.profile]
  /\ UNCHANGED <<owner, lease, tree>>

-----------------------------------------------------------------------------
(* Ownership steps.                                                         *)

reserve_ownership ==
  \/ JobAt("reserve") /\ UpdateOwner(Row(job.o, rec[job.o].profile, Nothing), "starting")
  \/ /\ JobAt("restart_reserve")
     /\ UpdateOwner(Row(job.o, rec[job.o].profile, job.proc), "replace")
  \/ /\ JobAt("restart_reserve_again")
     /\ UpdateOwner(Row(job.o, job.profile, job.proc), "replace")
  \/ /\ JobAt("replacement_reserve")
     /\ UpdateOwner(Row(job.o, job.profile, Nothing), "start")

set_owned == JobAt("own") /\ UpdateOwner(Row(job.o, job.profile, job.proc), "done")

\* Only the process of the row changes, and only if there is a row.
UpdateOwnerProcess(next) ==
  IF owner = Nothing THEN Then(next) /\ UNCHANGED <<rec, owner, lease, tree>>
  ELSE UpdateOwner([owner EXCEPT !.proc = job.proc], next)

set_owner_process_for_operation ==
  \/ JobAt("owner_process") /\ UpdateOwnerProcess("done")
  \/ JobAt("cleanup_owner") /\ UpdateOwnerProcess("cleanup_record")

clear_owned_for ==
  /\ JobAt("clear")
  /\ owner' = IF operation_can_update_owner(job.o) THEN Nothing ELSE owner
  /\ Then("done")
  /\ UNCHANGED <<rec, lease, tree>>

-----------------------------------------------------------------------------
(* Failures.                                                                *)

\* A refusal rejects the operation and gives up its ownership, a fault of the
\* process port blocks it.
block_operation ==
  \/ JobAt("block_fault") /\ persist_update("Blocked", job.proc, "done")
  \/ /\ JobAt("block_refused")
     /\ persist_update("Rejected", job.proc,
                       IF owner # Nothing /\ owner.op = job.o THEN "clear" ELSE "done")

\* The second half of block_cleanup.
block_cleanup == JobAt("cleanup_record") /\ persist_update("Blocked", job.proc, "done")

-----------------------------------------------------------------------------
(* Launch.                                                                  *)

execute_launch == JobAt("starting") /\ persist_update("Starting", Nothing, "start")

\* Without a key the outcome is unknown.  With one the adapter refuses, and has
\* no effect, or dispatches a generation it has not dispatched before.
StartGeneration ==
  /\ JobAt("start")
  /\ IF ~for_operation(job.o, job.profile) THEN unknown
     ELSE /\ \/ Then("start_refused") /\ UNCHANGED tree
             \/ /\ Then("await")
                /\ tree' = [tree EXCEPT ![job.o].proc = IF @ = "none" THEN "requested" ELSE @]
          /\ UNCHANGED <<rec, owner, lease>>

\* A refusal is final; any other fault may hide a process, so what the adapter
\* can recover of it is retained.
process_failure ==
  \/ JobAt("start_refused") /\ persist_update("Failed", Nothing, "clear")
  \/ /\ JobAt("await")
     /\ \E p \in {Nothing} \cup (IF Created(job.o) THEN {job.o} ELSE {}) :
          persist_update("Unknown", p, "owner_process")

\* The launch is verified before it is recorded as started; one that is not
\* what was approved is stopped.
finish_start ==
  /\ JobAt("await") /\ Created(job.o)
  /\ \/ Verified(job.o, job.profile) /\ persist_update("Started", job.o, "own")
     \/ \E why \in {"reject_fault", "reject_refused"} :
          ThenWith(why, job.o) /\ UNCHANGED <<rec, owner, lease, tree>>

finish_start_failure ==
  \/ /\ JobAt("reject_fault")
     /\ StopAndLook(job.proc, "cleanup_owner", "cleanup_owner", "block_fault")
  \/ /\ JobAt("reject_refused")
     /\ StopAndLook(job.proc, "cleanup_owner", "cleanup_owner", "block_refused")

-----------------------------------------------------------------------------
(* Attach.                                                                  *)

\* The identity must be the one the gateway retains.
execute_attach ==
  LET previous == latest_authorized_excluding(job.o)
      profile == profile_for_operation(previous)
  IN /\ JobAt("attach")
     /\ IF previous = Nothing \/ rec[previous].proc # rec[job.o].target
        THEN Then("block_refused") /\ UNCHANGED <<rec, owner, lease, tree>>
        ELSE IF profile = Nothing THEN GiveUp
        ELSE /\ rec' = [rec EXCEPT ![job.o].state = "Attached",
                                ![job.o].proc = rec[job.o].target]
             /\ job' = [job EXCEPT !.at = "attach_verify", !.proc = rec[job.o].target,
                                   !.profile = profile]
             /\ UNCHANGED <<owner, lease, tree>>

\* The second persist_update of the same row is left out.
attach_verified ==
  /\ JobAt("attach_verify")
  /\ \/ Verified(job.proc, job.profile) /\ Then("own")
     \/ Then("cleanup_owner")
  /\ UNCHANGED <<rec, owner, lease, tree>>

-----------------------------------------------------------------------------
(* Stop.                                                                    *)

\* execute_stop, and reconcile_stop_intent after a crash.
StopIntent(place, next) ==
  LET previous == latest_authorized_excluding(job.o)
  IN /\ JobAt(place)
     /\ IF previous = Nothing
        THEN Then("block_refused") /\ UNCHANGED <<rec, owner, lease, tree>>
        ELSE IF profile_for_operation(previous) = Nothing THEN GiveUp
        ELSE /\ rec' = [rec EXCEPT ![job.o].state = "Stopping",
                                ![job.o].proc = rec[previous].proc]
             /\ job' = [job EXCEPT !.at = next, !.proc = rec[previous].proc,
                                   !.profile = profile_for_operation(previous)]
             /\ UNCHANGED <<owner, lease, tree>>

execute_stop == StopIntent("stop", "stop_verify")
reconcile_stop_intent == StopIntent("stop_again", "stopping")

\* (Mutant of finish_stop: descendants that outlive the stop are overlooked.)
FinishStopUnchecked ==
  /\ tree' = Exited(job.proc, tree[job.proc].kids) /\ Then("stopped")
  /\ UNCHANGED <<rec, owner, lease>>

finish_stop == StopAndLook(job.proc, "block_fault", "cleanup_owner", "stopped")

StopVerified ==
  /\ JobAt("stop_verify")
  /\ \/ Then("cleanup_owner") /\ UNCHANGED <<rec, owner, lease, tree>>
     \/ Verified(job.proc, job.profile) /\ finish_stop

stopped == JobAt("stopped") /\ persist_update("Stopped", Nothing, "clear")

\* Whether the process has exited decides; what cannot be seen stays unknown.
reconcile_stopping ==
  LET profile == profile_for_operation(job.o)
  IN /\ JobAt("stopping")
     /\ IF job.proc = Nothing THEN unknown
        ELSE IF profile = Nothing THEN GiveUp
        ELSE \/ persist_update("Unknown", job.proc, "done")
             \/ persist_update("Blocked", job.proc, "done")
             \/ /\ matches_profile(job.proc, profile)
                /\ confirm_exited_without_descendants(job.proc)
                /\ persist_update("Stopped", Nothing, "clear")
             \/ /\ matches_profile(job.proc, profile) /\ tree[job.proc].proc = "running"
                /\ Then("cleanup_owner") /\ UNCHANGED <<rec, owner, lease, tree>>
             \/ Verified(job.proc, profile) /\ finish_stop

-----------------------------------------------------------------------------
(* Restart.                                                                 *)

\* The intent is recorded before the profiles are compared.
execute_restart ==
  LET previous == latest_authorized_excluding(job.o)
  IN /\ JobAt("restart")
     /\ IF previous = Nothing
        THEN Then("block_refused") /\ UNCHANGED <<rec, owner, lease, tree>>
        ELSE IF profile_for_operation(previous) = Nothing THEN GiveUp
        ELSE /\ rec' = [rec EXCEPT ![job.o].state = "Restarting",
                                ![job.o].proc = rec[previous].proc]
             /\ job' = [job EXCEPT !.proc = rec[previous].proc,
                          !.at = IF profile_for_operation(previous) = rec[job.o].profile
                                 THEN "restart_verify" ELSE "block_refused"]
             /\ UNCHANGED <<owner, lease, tree>>

\* The authority epoch is rotated once; requests of the old one are stale.
begin_restart(p, next) ==
  LET rotate == rec[job.o].req = rec[job.o].auth
      epoch == current_authority_epoch + IF rotate THEN 1 ELSE 0
  IN IF rec[job.o].auth # current_authority_epoch
     THEN GiveUp
     ELSE /\ epoch <= MaxEpoch
          /\ rec' = [rec EXCEPT ![job.o].state = "Restarting", ![job.o].proc = p,
                                ![job.o].auth = epoch]
          /\ job' = [job EXCEPT !.at = "restart_reserve", !.proc = p, !.profile = next]
          /\ UNCHANGED <<owner, lease, tree>>

restart_verified ==
  /\ JobAt("restart_verify")
  /\ \/ Verified(job.proc, rec[job.o].profile) /\ begin_restart(job.proc, rec[job.o].profile)
     \/ Then("cleanup_owner") /\ UNCHANGED <<rec, owner, lease, tree>>

reconcile_restart_intent ==
  LET previous == latest_authorized_excluding(job.o)
      profile == rec[job.o].profile
  IN /\ JobAt("restart_again")
     /\ IF \/ previous = Nothing
           \/ profile_for_operation(previous) # profile
           \/ ~matches_profile(rec[previous].proc, profile)
        THEN Then("block_refused") /\ UNCHANGED <<rec, owner, lease, tree>>
        ELSE begin_restart(rec[previous].proc, profile)

\* (Mutant of finish_restart: descendants that outlive the stop are overlooked.)
FinishRestartUnchecked ==
  /\ JobAt("replace") /\ Verified(job.proc, job.profile)
  /\ tree' = Exited(job.proc, tree[job.proc].kids) /\ Then("replaced")
  /\ UNCHANGED <<rec, owner, lease>>

\* finish_restart up to the stop of the process that is replaced.
finish_restart ==
  /\ JobAt("replace")
  /\ IF ~matches_profile(job.proc, job.profile)
     THEN Then("retained") /\ UNCHANGED <<rec, owner, lease, tree>>
     ELSE \/ /\ \E why \in {"block_fault", "cleanup_owner"} : Then(why)
             /\ UNCHANGED <<rec, owner, lease, tree>>
          \/ /\ confirm_exited_without_descendants(job.proc)
             /\ Then("replaced") /\ UNCHANGED <<rec, owner, lease, tree>>
          \/ /\ Verified(job.proc, job.profile)
             /\ StopAndLook(job.proc, "block_fault", "cleanup_owner", "replaced")

replaced == JobAt("replaced") /\ persist_update("Restarting", Nothing, "replacement_reserve")

\* The epoch is rotated unless that was done, and the reservation made again.
prepare_restart_recovery(profile) ==
  LET r == rec[job.o]
  IN IF r.req = r.auth THEN begin_restart(job.proc, profile)
     ELSE IF r.auth # current_authority_epoch THEN GiveUp
     ELSE /\ job' = [job EXCEPT !.at = "restart_reserve_again", !.profile = profile]
          /\ UNCHANGED <<rec, owner, lease, tree>>

\* Without a process only the exact replacement is looked up; nothing is
\* started again.
reconcile_restart ==
  LET profile == profile_for_operation(job.o)
      r == rec[job.o]
  IN /\ JobAt("restarting")
     /\ IF job.proc # Nothing THEN prepare_restart_recovery(profile)
        ELSE \/ unknown
             \/ /\ r.auth = current_authority_epoch /\ r.req # r.auth
                /\ for_operation(job.o, profile) /\ Created(job.o)
                /\ job' = [job EXCEPT !.at = "recovered", !.proc = job.o, !.profile = profile]
                /\ UNCHANGED <<rec, owner, lease, tree>>

-----------------------------------------------------------------------------
(* Recovery of what an earlier boot, or an earlier attempt, left behind.    *)

reconcile_launch ==
  LET profile == profile_for_operation(job.o)
      found(place, p) == /\ job' = [job EXCEPT !.at = place, !.proc = p, !.profile = profile]
                         /\ UNCHANGED <<rec, owner, lease, tree>>
  IN /\ JobAt("launching")
     /\ IF job.proc # Nothing
        THEN found(IF matches_profile(job.proc, profile) THEN "verify" ELSE "retained",
                   job.proc)
        ELSE \/ unknown
             \/ /\ for_operation(job.o, profile) /\ Created(job.o)
                /\ found("recovered", job.o)

\* A recovered process is never stopped here, whatever it turns out to be.
finish_recovered ==
  /\ JobAt("recovered")
  /\ \/ Verified(job.proc, job.profile) /\ persist_update("Started", job.proc, "own")
     \/ Then("cleanup_owner") /\ UNCHANGED <<rec, owner, lease, tree>>

Recovered(r) ==
  IF r.state # "Unknown" THEN r.state
  ELSE IF r.kind = "AttachExisting" THEN "Attached" ELSE "Started"

\* A fault is no proof that the process is gone: only an exit without
\* descendants that was seen releases the instance.
verify_record ==
  LET profile == profile_for_operation(job.o)
  IN /\ JobAt("verify")
     /\ IF profile = Nothing THEN GiveUp
        ELSE \/ /\ Verified(job.proc, profile)
                /\ rec' = [rec EXCEPT ![job.o].state = Recovered(rec[job.o])]
                /\ job' = [job EXCEPT !.at = "own", !.profile = profile]
                /\ UNCHANGED <<owner, lease, tree>>
             \/ /\ confirm_exited_without_descendants(job.proc)
                /\ persist_update("Failed", job.proc, "clear")
             \/ persist_update("Unknown", job.proc, "owner_process")
             \/ \E place \in {"done", "owner_process"} :
                  persist_update("Blocked", job.proc, place)

\* A retained process outside its profile: it is stopped only when its
\* descendants are within.
reconcile_retained_cleanup ==
  /\ JobAt("retained")
  /\ \/ persist_update("Unknown", job.proc, "done")
     \/ persist_update("Blocked", job.proc, "owner_process")
     \/ Then("cleanup_owner") /\ UNCHANGED <<rec, owner, lease, tree>>
     \/ /\ confirm_exited_without_descendants(job.proc)
        /\ Then("failed") /\ UNCHANGED <<rec, owner, lease, tree>>
     \/ /\ tree[job.proc].proc = "running" /\ tree[job.proc].kids # "foreign"
        /\ StopAndLook(job.proc, "cleanup_owner", "cleanup_owner", "failed")

finish_failed_launch_cleanup == JobAt("failed") /\ persist_update("Failed", Nothing, "clear")

-----------------------------------------------------------------------------
(* Replay of a retained operation, and reconciliation.                      *)

\* reconcile_record: where an active operation is taken up again.
Resume(r) ==
  CASE r.state \in {"Started", "Attached"} -> "verify"
    [] r.state = "Stopping" -> "stopping"
    [] r.state = "Restarting" \/ (r.kind = "Restart" /\ r.state \in {"Unknown", "Blocked"}) ->
         "restarting"
    [] r.kind = "LaunchNew" /\ r.state \in {"IntentRecorded", "Starting", "Unknown"} ->
         "launching"
    [] r.kind = "AttachExisting" /\ r.state \in {"IntentRecorded", "Starting", "Unknown"} ->
         "attach"
    [] r.kind = "Stop" /\ r.state \in {"IntentRecorded", "Starting"} -> "stop_again"
    [] r.kind = "Restart" /\ r.state \in {"IntentRecorded", "Starting"} -> "restart_again"
    [] r.kind = "LaunchNew" /\ r.state = "Blocked" /\ r.proc # Nothing -> "launching"
    [] r.kind = "Stop" /\ r.state \in {"Unknown", "Blocked"} /\ r.proc # Nothing -> "stopping"
    [] OTHER -> "done"

Begin(o, place) ==
  /\ place # "done"
  /\ job' = [at |-> place, o |-> o, proc |-> rec[o].proc, profile |-> profile_for_operation(o)]
  /\ UNCHANGED <<rec, owner, lease, tree>>

\* The same request again, under the epoch that is current.
replay(o) ==
  /\ job = Nothing /\ is_active(rec[o])
  /\ rec[o].lease = lease /\ rec[o].req = current_authority_epoch
  /\ IF operation_is_current(o) THEN Begin(o, Resume(rec[o]))
     ELSE /\ SupersededReplays /\ rec[o].state \notin {"Started", "Attached"}
          /\ Begin(o, "block_refused")

reconcile_operation(o) ==
  /\ job = Nothing /\ is_active(rec[o])
  /\ rec[o].lease = lease /\ rec[o].auth = current_authority_epoch
  /\ IF operation_is_current(o) THEN Begin(o, Resume(rec[o]))
     ELSE SupersededReplays /\ Begin(o, "block_refused")

-----------------------------------------------------------------------------
(* Crash and restart of the gateway, and its environment.                   *)

\* The steps whose write can fail: the handler returns the error.
Effects == {"start", "await", "reject_fault", "reject_refused", "attach_verify", "replace",
            "retained", "recovered", "stop_verify"}
StoreFails ==
  /\ job # Nothing /\ job.at \notin Effects
  /\ GiveUp

\* An owner older than a confirmed end is dropped; a missing one is rebuilt
\* from the latest record that is still active.
bootstrap_ownership ==
  LET stale == /\ owner # Nothing
               /\ rec[latest_record].state \in {"Stopped", "Failed"}
               /\ rec[latest_record].seq >= owner.seq
      latest == latest_authoritative_record
  IN IF owner # Nothing /\ ~stale THEN owner
     ELSE IF latest = Nothing THEN Nothing
     ELSE IF is_active(rec[latest]) /\ profile_id_for_record(latest) # Nothing
     THEN Row(latest, profile_id_for_record(latest), rec[latest].proc) ELSE Nothing

Restart(l) ==
  /\ job' = Nothing /\ lease' = l
  /\ owner' = bootstrap_ownership
  /\ UNCHANGED <<rec, tree>>

\* A requested process comes up, perhaps not as approved; processes fork and
\* exit, and descendants can outlive them.
ProcessAppears(o) ==
  /\ tree[o].proc = "requested"
  /\ \E good \in BOOLEAN : tree' = [tree EXCEPT ![o].proc = "running", ![o].good = good]
  /\ UNCHANGED <<rec, owner, lease, job>>

ProcessForks(o) ==
  /\ tree[o].proc = "running" /\ tree[o].kids = "none"
  /\ \E kids \in {"approved", "foreign"} : tree' = [tree EXCEPT ![o].kids = kids]
  /\ UNCHANGED <<rec, owner, lease, job>>

ProcessExits(o) ==
  /\ \/ tree[o].proc = "running" /\ tree' = Exited(o, tree[o].kids)
     \/ tree[o].kids # "none" /\ tree' = [tree EXCEPT ![o].kids = "none"]
  /\ UNCHANGED <<rec, owner, lease, job>>

LifecycleNext ==
  \/ \E o \in Ops \ Known, request \in Requests : Submit(o, request)
  \/ reserve_ownership \/ set_owned \/ set_owner_process_for_operation \/ clear_owned_for
  \/ block_operation \/ block_cleanup
  \/ execute_launch \/ StartGeneration \/ process_failure
  \/ finish_start \/ finish_start_failure
  \/ execute_attach \/ attach_verified
  \/ execute_stop \/ reconcile_stop_intent \/ StopVerified \/ stopped \/ reconcile_stopping
  \/ execute_restart \/ restart_verified \/ reconcile_restart_intent
  \/ finish_restart \/ replaced \/ reconcile_restart
  \/ reconcile_launch \/ finish_recovered \/ verify_record
  \/ reconcile_retained_cleanup \/ finish_failed_launch_cleanup
  \/ \E o \in Known : replay(o) \/ reconcile_operation(o)
  \/ StoreFails
  \/ \E l \in Leases : Restart(l)
  \/ \E o \in Ops : ProcessAppears(o) \/ ProcessForks(o) \/ ProcessExits(o)

LifecycleSpec == LifecycleInit /\ [][LifecycleNext]_lifecycle_vars

-----------------------------------------------------------------------------
(* Properties.                                                              *)

\* No sequence of launches, restarts, faults and crashes makes a second process
\* tree while the first can still be there (reserve_action, process_failure and
\* finish_restart together).
OneTree == Cardinality({o \in Ops : LiveTree(o)}) <= 1

\* Between two handlers a tree that can still be there keeps the instance: no
\* launch would be admitted (block_cleanup, process_failure: cleanup that failed
\* or an identity that is uncertain blocks a replacement).
LiveIsHeld ==
  job = Nothing /\ (\E o \in Ops : LiveTree(o)) =>
    ~(reserve_action("LaunchNew", Nothing) /\ can_insert_operation("LaunchNew"))

\* A row that becomes Stopped tells the caller that the process tree is gone
\* (finish_stop, reconcile_stopping).
StoppedMeansGone ==
  [][\A o \in Ops : /\ rec'[o] # Nothing /\ rec'[o].state = "Stopped"
                    /\ (rec[o] # Nothing => rec[o].state # "Stopped")
       => \A p \in Ops : ~LiveTree(p)]_lifecycle_vars

=============================================================================
