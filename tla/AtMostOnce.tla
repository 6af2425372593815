---------------------------- MODULE AtMostOnce ----------------------------
(* What a gateway ledger promises to the callers that submit operations    *)
(* through it: an operation reaches the host at most once, however often    *)
(* it is submitted and whatever crashes in between, and no answer claims    *)
(* more than what happened.  The operation ledgers implement this module.   *)

CONSTANT Ops

VARIABLES
  writes,    \* how often an operation was written to the host
  effect,    \* what the host did with it
  answers    \* the definite statuses a caller was ever given for it

vars == <<writes, effect, answers>>

Effect == {"none", "done", "refused"}

Init ==
  /\ writes = [op \in Ops |-> 0]
  /\ effect = [op \in Ops |-> "none"]
  /\ answers = [op \in Ops |-> {}]

\* An operation a caller was told is rejected is never written afterwards.
Write(op) ==
  /\ writes[op] = 0
  /\ "Rejected" \notin answers[op]
  /\ writes' = [writes EXCEPT ![op] = 1]
  /\ UNCHANGED <<effect, answers>>

Decide(op, e) ==
  /\ writes[op] = 1
  /\ effect[op] = "none"
  /\ effect' = [effect EXCEPT ![op] = e]
  /\ UNCHANGED <<writes, answers>>

\* Settled is said of an effect that happened, Rejected of one that neither
\* happened nor can happen; the statuses that claim neither are not kept.
Truthful(op, s) ==
  /\ s = "Settled" => effect[op] = "done"
  /\ s = "Rejected" => writes[op] = 0 \/ effect[op] = "refused"

Answer(op, s) ==
  /\ Truthful(op, s)
  /\ answers' = [answers EXCEPT ![op] = @ \cup {s}]
  /\ UNCHANGED <<writes, effect>>

Next ==
  \E op \in Ops :
    \/ Write(op)
    \/ \E e \in Effect \ {"none"} : Decide(op, e)
    \/ \E s \in {"Settled", "Rejected"} : Answer(op, s)

Spec == Init /\ [][Next]_vars
=============================================================================
