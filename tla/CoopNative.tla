---------------------------- MODULE CoopNative ----------------------------
(* The co-op native routes of the attached service: one mutation at a time, *)
(* kept as coop_native_pending from before it is forwarded until the mod    *)
(* gives a final outcome, and reconciled by the recover route.  The record  *)
(* is in memory only.  The worker serves one request at a time, so nothing  *)
(* else is served during an exchange with the mod; the mod may take a frame *)
(* after the exchange was given up.                                         *)
(*                                                                          *)
(* The observation and legal-catalog routes read and keep nothing, and are  *)
(* left out.  A digest stands for the generation of the state it is taken of, and an   *)
(* authority for its identifier and epoch.                                  *)

EXTENDS CoopReports

CONSTANTS
  Ops,               \* operation identifiers
  Mutations,         \* the mutating routes in use
  MaxLate,           \* bound: frames given up and still on their way
  MaxHostGeneration, \* bound: generations of the host
  MaxAuthority,      \* bound: authorities of the host
  MaxBoots           \* bound: starts of the gateway

ASSUME NativeConfig ==
  /\ MaxHostGeneration \in Nat /\ MaxAuthority \in Nat \ {0}
  /\ MaxBoots \in Nat \ {0} /\ MaxLate \in Nat
  /\ Mutations \subseteq {"local_action", "shared_vote", "rejoin"}

Frames == [route : Mutations \cup {"recover"}, op : Ops, expected : Nat]
PendingRecords == [route : Mutations, op : Ops, authority : Nat \cup {None}]
Exchanges == [frame : Frames, taken : BOOLEAN]

\* Nothing is no operation, no exchange and no status.
ASSUME NativeNothing ==
  /\ None \notin PendingRecords
  /\ None \notin Exchanges
  /\ None \notin {"accepted", "settled", "rejected", "refused"}

VARIABLES
  pending,   \* coop_native_pending: route, operation, authority once known
  asked,     \* the exchange under way: its frame, and whether it was taken
  answer,    \* the mod's answer to it
  late,      \* external: frames whose exchange was given up, not yet taken
  host,      \* external: the host's generation, authority and receipts
  boots,
  former,    \* history: operations forwarded before the last restart
  told       \* history: what callers were told of an operation since then

nativeVars == <<pending, asked, answer, late, host, boots, former, told>>
coopVars == <<reportsVars, nativeVars>>

Routes == Mutations \cup {"recover"}
Unresolved == {"accepted", "unknown"}
Final == {"settled", "rejected"}

Untold == [acked |-> None, final |-> None, authority |-> None]
NoReceipt == [status |-> None, before |-> 0, after |-> None, authority |-> 0]

NativeInit ==
  /\ pending = None
  /\ asked = None
  /\ answer = None
  /\ late = {}
  /\ host = [generation |-> 0, authority |-> 1,
             receipts |-> [o \in Ops |-> NoReceipt]]
  /\ boots = 1
  /\ former = {}
  /\ told = [o \in Ops |-> Untold]

-----------------------------------------------------------------------------
(* The request.                                                             *)

\* The binding holds the lease of the configuration, and is not renewed.
validate_coop_native_binding == lease = 0

\* A mutation needs the slot free, a recovery the operation in it.
admit_coop_native_operation(frame) ==
  CASE frame.route \in Mutations ->
         /\ pending = None
         /\ pending' = [route |-> frame.route, op |-> frame.op,
                        authority |-> None]
    [] frame.route = "recover" ->
         /\ pending # None
         /\ pending.op = frame.op
         /\ UNCHANGED pending

coop_native_request ==
  /\ asked = None
  /\ check_lease
  /\ validate_coop_native_binding
  /\ \E route \in Routes, o \in Ops, expected \in 0..MaxHostGeneration :
       LET frame == [route |-> route, op |-> o, expected |-> expected] IN
       /\ route = "recover" => expected = 0
       /\ admit_coop_native_operation(frame)
       /\ asked' = [frame |-> frame, taken |-> FALSE]
  /\ UNCHANGED <<reportsVars, answer, late, host, boots, former, told>>

\* forward_mod_with_limit fails: no connection, or no answer in time.  The
\* frame is lost or still on its way.
Unavailable ==
  /\ asked # None
  /\ \/ UNCHANGED late
     \/ /\ ~asked.taken
        /\ Cardinality(late) < MaxLate
        /\ late' = late \cup {asked.frame}
  /\ asked' = None
  /\ answer' = None
  /\ UNCHANGED <<reportsVars, pending, host, boots, former, told>>

-----------------------------------------------------------------------------
(* The mod, as the contract the gateway validates describes it.             *)

Receipt(status, before, after, authority) ==
  [status |-> status, before |-> before, after |-> after,
   authority |-> authority]

\* What a mutation may do to its receipt; a known operation keeps its own.
\* None: refused without a receipt.
Decisions(frame) ==
  IF host.receipts[frame.op] # NoReceipt THEN {host.receipts[frame.op]}
  ELSE {NoReceipt,
        Receipt("rejected", host.generation, None, host.authority)}
       \cup (IF frame.expected = host.generation
             THEN {Receipt("accepted", frame.expected, None, host.authority)}
             ELSE {})
       \cup (IF /\ frame.expected = host.generation
                /\ frame.route # "rejoin"
                /\ host.generation < MaxHostGeneration
             THEN {Receipt("settled", frame.expected, host.generation + 1,
                           host.authority)}
             ELSE {})

\* What a reconciliation may do: an operation the mod never saw is refused,
\* or closed for good as rejected.
Reconciled(frame) ==
  IF host.receipts[frame.op] # NoReceipt THEN {host.receipts[frame.op]}
  ELSE {NoReceipt,
        Receipt("rejected", host.generation, None, host.authority)}

Taken(frame, receipt) ==
  host' = [host EXCEPT
    !.receipts[frame.op] = receipt,
    !.generation = IF receipt.status = "settled" /\ receipt.after > @
                   THEN receipt.after ELSE @]

Outcomes(frame) ==
  IF frame.route = "recover" THEN Reconciled(frame) ELSE Decisions(frame)

\* The observation that goes with a receipt: the one kept with it or the
\* present one.
Views(receipt) ==
  {[generation |-> host.generation, authority |-> host.authority],
   [generation |-> IF receipt.after # None THEN receipt.after
                   ELSE receipt.before,
    authority |-> receipt.authority]}

\* The receipt of a rejoin under way is accepted, with its own generation as
\* the fence after it, or unknown, with none.
Fences(frame, receipt, status) ==
  IF frame.route = "rejoin" /\ status \in Unresolved
  THEN {receipt.before, None} ELSE {receipt.after}

Envelope(frame, receipt, status, after, view, local) ==
  [what |-> "envelope", http |-> IF status = "rejected" THEN 409 ELSE 200,
   op |-> frame.op, status |-> status, before |-> receipt.before,
   after |-> after,
   authority |-> receipt.authority,
   recovery |-> IF frame.route = "rejoin" /\ status \in Unresolved
                THEN "rejoin" ELSE "reconcile",
   view |-> view, local |-> local]

Error(code) == [what |-> "error", http |-> code]
Malformed == [what |-> "malformed"]

\* A receipt is answered as an envelope; without one the mod refuses with 400
\* or 409; 503 and malformed answers may come whatever was done.
Answers(frame, receipt) ==
  {Error(503), Malformed} \cup
  IF receipt = NoReceipt THEN {Error(400), Error(409)}
  ELSE UNION {
    {Envelope(frame, receipt, status, after, view, local) :
       after \in Fences(frame, receipt, status),
       view \in Views(receipt), local \in BOOLEAN} :
    status \in IF receipt.status = "accepted"
               THEN IF frame.route \in {"rejoin", "recover"}
                    THEN {"unknown"} ELSE Unresolved
               ELSE {receipt.status}}

ModAnswers ==
  /\ asked # None
  /\ ~asked.taken
  /\ \E receipt \in Outcomes(asked.frame) :
       /\ Taken(asked.frame, receipt)
       /\ answer' \in Answers(asked.frame, receipt)
  /\ asked' = [asked EXCEPT !.taken = TRUE]
  /\ UNCHANGED <<reportsVars, pending, late, boots, former, told>>

ModTakesLate ==
  /\ \E frame \in late :
       /\ \E receipt \in Outcomes(frame) : Taken(frame, receipt)
       /\ late' = late \ {frame}
  /\ UNCHANGED <<reportsVars, pending, asked, answer, boots, former, told>>

\* An accepted operation is settled or rejected later, maybe by another
\* authority than the one that accepted it.
ModSettles ==
  /\ \E o \in Ops :
       /\ host.receipts[o].status = "accepted"
       /\ \/ /\ host.generation < MaxHostGeneration
             /\ host' = [host EXCEPT
                  !.generation = @ + 1,
                  !.receipts[o] = Receipt("settled", @.before,
                                          host.generation + 1,
                                          host.authority)]
          \/ host' = [host EXCEPT
               !.receipts[o] = Receipt("rejected", @.before, None,
                                       host.authority)]
  /\ UNCHANGED <<reportsVars, pending, asked, answer, late, boots, former,
                 told>>

AuthorityMoves ==
  /\ host.authority < MaxAuthority
  /\ host' = [host EXCEPT !.authority = @ + 1]
  /\ UNCHANGED <<reportsVars, pending, asked, answer, late, boots, former,
                 told>>

-----------------------------------------------------------------------------
(* The answer.                                                              *)

\* The digest, the authority and the checkpoint of receipt and observation.
receipt_observation_relations(a) ==
  /\ a.authority = a.view.authority
  /\ a.view.generation = IF a.after # None THEN a.after ELSE a.before

\* The effect advances the host from the generation the caller expected.
settled_effect_relations(frame, a) ==
  /\ a.before = frame.expected
  /\ a.after = a.view.generation
  /\ a.after > a.before

effect_response_relations(frame, a) ==
  /\ a.op = frame.op
  /\ receipt_observation_relations(a)
  /\ CASE a.status = "settled" -> settled_effect_relations(frame, a)
       [] a.status \in Unresolved ->
            /\ a.before = frame.expected
            /\ a.before = a.view.generation
            /\ a.after = None
       [] a.status = "rejected" ->
            /\ a.before = a.view.generation
            /\ a.after = None

\* Only the accepted receipt of a rejoin has a generation after it.
recovery_response_relations(frame, a) ==
  /\ a.op = frame.op
  /\ receipt_observation_relations(a)
  /\ CASE a.status = "unknown" ->
            /\ (frame.route = "rejoin") <=> (a.recovery = "rejoin")
            /\ a.before = a.view.generation
            /\ a.after # None =>
                 /\ a.recovery = "rejoin"
                 /\ a.before = frame.expected
                 /\ a.after = a.view.generation
       [] a.status \in Final ->
            /\ a.recovery = "reconcile"
            /\ a.status = "settled" => a.after = a.view.generation
       [] OTHER -> FALSE

\* 409 means rejected, and only that.
response_relations(frame, a) ==
  /\ (a.http = 409) <=> (a.status = "rejected")
  /\ IF frame.route \in {"rejoin", "recover"}
     THEN recovery_response_relations(frame, a)
     ELSE effect_response_relations(frame, a)

\* An envelope of the schema that satisfies the relations of its route.
validate_response(frame, a) ==
  a.what = "envelope" /\ response_relations(frame, a)

\* The answer is given as the configured peer sees the game.
validate_coop_native_return_local_peer(a) == a.local

\* The operation is the pending one, and the route too unless it recovers it.
ReturnIsBound(frame) ==
  /\ pending # None
  /\ pending.op = frame.op
  /\ frame.route # "recover" => pending.route = frame.route

\* (Mutant of AuthorityHolds: whoever answers may settle the operation.)
AuthorityIgnored(a) == TRUE

\* The authority that acknowledged the operation is the one that answers.
AuthorityHolds(a) ==
  pending.authority # None => pending.authority = a.view.authority

record_coop_native_return(frame, a) ==
  /\ ReturnIsBound(frame)
  /\ AuthorityHolds(a)
  /\ pending' = IF a.status \in Final THEN None
                ELSE [pending EXCEPT !.authority = a.view.authority]
  /\ told' = [told EXCEPT ![frame.op] =
       IF a.status \in Final
       THEN [@ EXCEPT !.final = a.status, !.authority = a.view.authority]
       ELSE [@ EXCEPT !.acked = a.view.authority]]

\* (Mutant of clear_rejected_coop_native_pending: whatever was refused, a
\* recovery too, frees the slot.)
clear_on_refusal(frame, a) ==
  LET ours == pending # None /\ pending.op = frame.op IN
  /\ pending' = IF ours THEN None ELSE pending
  /\ told' = IF ours THEN [told EXCEPT ![frame.op].final = "refused"]
             ELSE told

\* 400 and 409 of the route that was admitted; 503 decides nothing.
clear_rejected_coop_native_pending(frame, a) ==
  LET ours == /\ a.http \in {400, 409}
              /\ pending # None
              /\ pending.route = frame.route
              /\ pending.op = frame.op
  IN /\ pending' = IF ours THEN None ELSE pending
     /\ told' = IF ours THEN [told EXCEPT ![frame.op].final = "refused"]
                ELSE told

\* An answer that is not valid, of another local peer, or not of the pending
\* operation and its authority is not passed on and changes nothing.
Answered ==
  /\ answer # None
  /\ LET frame == asked.frame IN
     \/ /\ validate_response(frame, answer)
        /\ validate_coop_native_return_local_peer(answer)
        /\ record_coop_native_return(frame, answer)
     \/ /\ validate_response(frame, answer)
        /\ ~(/\ validate_coop_native_return_local_peer(answer)
             /\ ReturnIsBound(frame)
             /\ AuthorityHolds(answer))
        /\ UNCHANGED <<pending, told>>
     \/ /\ ~validate_response(frame, answer)
        /\ answer.what = "error"
        /\ clear_rejected_coop_native_pending(frame, answer)
     \/ /\ ~validate_response(frame, answer)
        /\ answer.what # "error"
        /\ UNCHANGED <<pending, told>>
  /\ asked' = None
  /\ answer' = None
  /\ UNCHANGED <<reportsVars, late, host, boots, former>>

-----------------------------------------------------------------------------
\* The process ends and starts again: both ledgers are in memory only.
CoopRestart ==
  /\ boots < MaxBoots
  /\ boots' = boots + 1
  /\ peers' = [p \in Peers |-> Silent]
  /\ generation' = 0
  /\ pending' = None
  /\ former' = former \cup
       {f.op : f \in late \cup (IF asked # None THEN {asked.frame} ELSE {})}
       \cup {o \in Ops : host.receipts[o] # NoReceipt \/ told[o] # Untold}
       \cup (IF pending # None THEN {pending.op} ELSE {})
  /\ late' = late \cup (IF asked # None /\ ~asked.taken
                        THEN {asked.frame} ELSE {})
  /\ told' = [o \in Ops |-> Untold]
  /\ asked' = None
  /\ answer' = None
  /\ UNCHANGED host

\* The reports are served between exchanges; time passes at any moment.
CoopRequest ==
  \/ coop_native_request
  \/ asked = None /\ coop_peer_report /\ UNCHANGED nativeVars

CoopExchange ==
  \/ Unavailable \/ Answered
  \/ ModAnswers \/ ModTakesLate \/ ModSettles \/ AuthorityMoves
  \/ Tick /\ UNCHANGED nativeVars

-----------------------------------------------------------------------------
Forwarded(o) ==
  \/ \E f \in late : f.op = o /\ f.route \in Mutations
  \/ /\ asked # None /\ ~asked.taken
     /\ asked.frame.op = o /\ asked.frame.route \in Mutations

\* An operation that may still take effect, or has and its caller was not
\* told, keeps the slot: no answer to it or to its recovery, no timeout and
\* no frame taken late lets another mutation in before it.
PendingUntilResolved ==
  \A o \in Ops \ former :
    (\/ host.receipts[o].status = "accepted"
     \/ host.receipts[o] = NoReceipt /\ Forwarded(o)
     \/ host.receipts[o].status = "settled" /\ told[o].final # "settled")
    => pending # None /\ pending.op = o

\* What one authority of the host acknowledged, no other settles towards the
\* caller, though the host's authority moves between the two answers.
AuthorityFenced ==
  \A o \in Ops :
    told[o].acked # None /\ told[o].final \in Final =>
      told[o].authority = told[o].acked
=============================================================================
