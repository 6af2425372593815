---------------------------- MODULE RouteProofs ----------------------------
(* Proofs about two routes that remember the operations they forward.  The  *)
(* first part is about the save-profile ledger and the user-data            *)
(* provisioner, for every set of operations, profiles and foreign           *)
(* directories, and every capacity and number of leases.  The second is     *)
(* about the rest-action forwarder, for every set of operations and         *)
(* selections and every bound on its memories.                              *)
EXTENDS SaveProfile, RestAction, FiniteSetTheorems, TLAPS

-----------------------------------------------------------------------------
(* The inductive invariant.                                                 *)

CallKinds == {"read", "select", "create"}
Steps == {"idle", "forward", "answer", "inspect", "provenance", "submit"}

LedgerTyped ==
  /\ rows \in [Ops -> Rows \cup {None}]
  /\ selected \in Profiles \cup {None} /\ pending_selection \in Ops \cup {None}
  /\ slot \in Profiles \cup {None}
  /\ writes \in [Ops -> Nat]
  /\ effect \in [Ops -> {"none", "done", "refused"}]
  /\ answers \in [Ops -> SUBSET Final]

ProvisionerTyped ==
  /\ allocs \in [Ops -> Allocs \cup {None}]
  /\ next_identity \in Nat \ {0}
  /\ dirs \in [Identities -> Ops \cup {"foreign", "absent", "partial"}]

CallTyped == lease \in Nat /\ call \in [at : Steps, op : Ops \cup {None}]

\* The journal is in the order of insertion.
Ordered ==
  /\ \A o \in Recorded : rows[o].seq >= 1 /\ rows[o].seq <= Cardinality(Recorded)
  /\ \A o, p \in Recorded : rows[o].seq = rows[p].seq => o = p

\* Exactly the pending selection is open, and it is newer than what is settled.
PendingIsOpen == \A o \in Ops : o \in Selections(Open) <=> pending_selection = o
OpenIsNewer ==
  \A o \in Selections(Open), p \in Selections({"Settled"}) : rows[o].seq > rows[p].seq

\* The selected profile is the one of the newest settled selection.
SelectedIsNewest ==
  LET S == Selections({"Settled"})
  IN /\ S = {} => selected = None
     /\ S # {} => \E o \in S : /\ selected = rows[o].profile
                               /\ \A p \in S : rows[o].seq >= rows[p].seq

\* What the mod was sent is recorded, and sent once.
SentIsRecorded ==
  \A o \in Ops : /\ writes[o] \in {0, 1} /\ (writes[o] = 1 => o \in Recorded)
                 /\ effect[o] # "none" => writes[o] = 1

\* A final status is true, and it is the only one a caller was given.
FinalIsTrue ==
  \A o \in Recorded :
    /\ rows[o].status = "Settled" => effect[o] = "done"
    /\ rows[o].status = "Rejected" => writes[o] = 0 \/ effect[o] = "refused"
AnswersAreRows ==
  \A o \in Ops : \A s \in answers[o] : o \in Recorded /\ rows[o].status = s

\* The mod has the selected profile, or the one of the pending selection if it
\* has carried that out.
SlotFollows ==
  /\ pending_selection = None => slot = selected
  /\ \A o \in Selections(Open) :
       slot = IF effect[o] = "done" THEN rows[o].profile ELSE selected

LedgerInv ==
  /\ LedgerTyped /\ Ordered /\ PendingIsOpen /\ OpenIsNewer /\ SelectedIsNewest
  /\ SentIsRecorded /\ FinalIsTrue /\ AnswersAreRows /\ SlotFollows

\* The identities handed out are below the next one, and the largest that was
\* recorded exists; no two allocations share one.
IdentitiesFresh ==
  /\ \A o \in Allocated : allocs[o].id < next_identity
  /\ Allocated # {} =>
       \E o \in Allocated : \A p \in Allocated : allocs[o].id >= allocs[p].id
  /\ \A o, p \in Allocated : allocs[o].id = allocs[p].id => o = p

\* What the handler under way relies on.
CallSound ==
  /\ call.at # "idle" => call.op \in Ops
  /\ call.at \in {"forward", "answer"} =>
       call.op \in Recorded /\ rows[call.op].status = "Accepted"
  /\ call.at = "forward" => writes[call.op] = 0
  /\ call.at \in {"inspect", "provenance", "submit"} => call.op \in Allocated
  /\ call.at = "submit" => Directory(call.op) = call.op

IInv ==
  LedgerInv /\ ProvisionerTyped /\ IdentitiesFresh /\ CallTyped /\ CallSound

-----------------------------------------------------------------------------
(* The journal of operations.                                               *)

\* A record is there, and nothing is not.
LEMMA RowTyped ==
  ASSUME LedgerTyped, NEW o \in Recorded
  PROVE  /\ o \in Ops /\ rows[o] \in Rows /\ rows[o].kind \in CallKinds
         /\ rows[o].profile \in Profiles \cup {None} /\ rows[o].lease \in Nat
         /\ rows[o].status \in Open \cup Final /\ rows[o].seq \in Nat
<1>1. o \in Ops /\ rows[o] \in Rows
  BY DEF LedgerTyped, Recorded
<1>2. QED
  BY <1>1 DEF Rows, CallKinds

\* The recorded operations are finitely many.
LEMMA RecordedFinite ==
  IsFiniteSet(Recorded) /\ Cardinality(Recorded) \in Nat
<1>1. IsFiniteSet(Recorded)
  BY SaveProfileConfig, FS_Subset DEF Recorded
<1>2. QED
  BY <1>1, FS_CardinalityType

\* What an insertion makes of the journal.
LEMMA InsertEffect ==
  ASSUME LedgerTyped, CallTyped, NEW o \in Ops, NEW kind \in CallKinds,
         NEW p \in Profiles \cup {None}, o \notin Recorded, insert(o, kind, p)
  PROVE  /\ rows' \in [Ops -> Rows \cup {None}]
         /\ Recorded' = Recorded \cup {o}
         /\ Cardinality(Recorded') = Cardinality(Recorded) + 1
         /\ \A q \in Ops : q # o => rows'[q] = rows[q]
         /\ rows'[o].kind = kind /\ rows'[o].profile = p
         /\ rows'[o].status = "Accepted"
         /\ rows'[o].seq = Cardinality(Recorded) + 1
<1> DEFINE r == [kind |-> kind, profile |-> p, lease |-> lease,
                 status |-> "Accepted", seq |-> Cardinality(Recorded) + 1]
<1>1. Cardinality(Recorded) \in Nat /\ IsFiniteSet(Recorded)
  BY RecordedFinite
<1>2. r \in Rows
  BY <1>1 DEF Rows, CallKinds, CallTyped, Open
<1>3. r # None
  BY <1>2, NothingIsNoRecord
<1>4. /\ r.kind = kind /\ r.profile = p /\ r.status = "Accepted"
      /\ r.seq = Cardinality(Recorded) + 1
  OBVIOUS
<1>5. rows' = [rows EXCEPT ![o] = r]
  BY DEF insert
<1> HIDE DEF r
<1>6. /\ rows' \in [Ops -> Rows \cup {None}] /\ rows'[o] = r
      /\ \A q \in Ops : q # o => rows'[q] = rows[q]
  BY <1>2, <1>5 DEF LedgerTyped
<1>7. Recorded' = Recorded \cup {o}
  BY <1>3, <1>6 DEF Recorded
<1>8. Cardinality(Recorded \cup {o}) = Cardinality(Recorded) + 1
  BY <1>1, FS_AddElement
<1>9. QED
  BY <1>4, <1>6, <1>7, <1>8

\* What an update of a status makes of the journal.
LEMMA UpdateEffect ==
  ASSUME LedgerTyped, NEW o \in Recorded, NEW status \in Open \cup Final,
         update(o, status)
  PROVE  /\ rows' \in [Ops -> Rows \cup {None}]
         /\ Recorded' = Recorded
         /\ \A q \in Ops : q # o => rows'[q] = rows[q]
         /\ rows'[o].kind = rows[o].kind /\ rows'[o].profile = rows[o].profile
         /\ rows'[o].status = status /\ rows'[o].seq = rows[o].seq
<1>1. PICK r \in Rows : r = rows[o]
  BY RowTyped
<1>2. PICK n : n = [r EXCEPT !.status = status]
  OBVIOUS
<1>3. n \in Rows /\ n.kind = r.kind /\ n.profile = r.profile /\ n.status = status
        /\ n.seq = r.seq
  BY <1>1, <1>2 DEF Rows
<1>4. n # None
  BY <1>3, NothingIsNoRecord
<1>5. o \in Ops /\ rows' = [rows EXCEPT ![o] = n]
  BY <1>1, <1>2 DEF update, LedgerTyped, Recorded
<1>6. /\ rows' \in [Ops -> Rows \cup {None}] /\ rows'[o] = n
      /\ \A q \in Ops : q # o => rows'[q] = rows[q]
  BY <1>3, <1>5 DEF LedgerTyped
<1>7. Recorded' = Recorded
  BY <1>4, <1>5, <1>6 DEF Recorded
<1>8. QED
  BY <1>1, <1>3, <1>6, <1>7

\* An insertion keeps the ledger sound: the new row is the newest, nothing was
\* sent for it yet, and a selection is inserted only when none is open.
LEMMA InsertSound ==
  ASSUME LedgerInv, CallTyped, NEW o \in Ops, NEW kind \in CallKinds,
         NEW p \in Profiles \cup {None}, o \notin Recorded, insert(o, kind, p),
         kind = "select" => pending_selection = None,
         pending_selection' = IF kind = "select" THEN o ELSE pending_selection,
         UNCHANGED <<selected, answers, mod>>
  PROVE  LedgerInv' /\ writes'[o] = 0 /\ rows'[o].status = "Accepted" /\ o \in Recorded'
<1> USE DEF LedgerInv
<1>1. /\ rows' \in [Ops -> Rows \cup {None}]
      /\ Recorded' = Recorded \cup {o}
      /\ Cardinality(Recorded') = Cardinality(Recorded) + 1
      /\ \A q \in Ops : q # o => rows'[q] = rows[q]
      /\ rows'[o].kind = kind /\ rows'[o].profile = p
      /\ rows'[o].status = "Accepted"
      /\ rows'[o].seq = Cardinality(Recorded) + 1
  BY InsertEffect
<1>2. /\ selected' = selected /\ answers' = answers
      /\ slot' = slot /\ writes' = writes /\ effect' = effect
  BY DEF mod
<1>3. Cardinality(Recorded) \in Nat
  BY RecordedFinite
<1>4. \A q \in Recorded : q \in Ops /\ q # o /\ rows'[q] = rows[q] /\ rows[q].seq \in Nat
  BY <1>1, RowTyped
<1>5. LedgerTyped'
  BY <1>1, <1>2 DEF LedgerTyped
<1>6. Ordered'
  <2>1. \A q \in Recorded : rows[q].seq >= 1 /\ rows[q].seq <= Cardinality(Recorded)
    BY DEF Ordered
  <2>2. \A q \in Recorded' : rows'[q].seq >= 1 /\ rows'[q].seq <= Cardinality(Recorded)'
    BY <1>1, <1>3, <1>4, <2>1
  <2>3. ASSUME NEW q \in Recorded', NEW x \in Recorded', rows'[q].seq = rows'[x].seq
        PROVE  q = x
    <3>1. CASE q = o /\ x = o
      BY <3>1
    <3>2. CASE q \in Recorded /\ x = o
      BY <1>1, <1>3, <1>4, <2>1, <2>3, <3>2
    <3>3. CASE q = o /\ x \in Recorded
      BY <1>1, <1>3, <1>4, <2>1, <2>3, <3>3
    <3>4. CASE q \in Recorded /\ x \in Recorded
      BY <1>4, <2>3, <3>4 DEF Ordered
    <3>5. QED
      BY <1>1, <3>1, <3>2, <3>3, <3>4
  <2>4. QED
    BY <2>2, <2>3 DEF Ordered
<1>7. Selections(Open)' = Selections(Open) \cup (IF kind = "select" THEN {o} ELSE {})
  BY <1>1, <1>4 DEF Selections, Open
<1>8. Selections({"Settled"})' = Selections({"Settled"})
  BY <1>1, <1>4 DEF Selections
<1>9. PendingIsOpen'
  <2>1. o \notin Selections(Open)
    BY DEF Selections
  <2>2. CASE kind = "select"
    <3>1. Selections(Open) = {}
      BY <2>2, SaveProfileConfig DEF PendingIsOpen, Selections, Recorded
    <3>2. QED
      BY <1>7, <2>2, <3>1 DEF PendingIsOpen
  <2>3. CASE kind # "select"
    BY <1>7, <2>3 DEF PendingIsOpen
  <2>4. QED
    BY <2>2, <2>3
<1>10. OpenIsNewer'
  <2>1. ASSUME NEW q \in Selections(Open)', NEW x \in Selections({"Settled"})'
        PROVE  rows'[q].seq > rows'[x].seq
    <3>1. x \in Recorded /\ x \in Selections({"Settled"})
      BY <1>8 DEF Selections
    <3>2. CASE q = o
      <4>1. rows[x].seq \in Nat /\ rows[x].seq <= Cardinality(Recorded)
        BY <1>4, <3>1 DEF Ordered
      <4>2. QED
        BY <1>1, <1>3, <1>4, <3>1, <3>2, <4>1
    <3>3. CASE q \in Selections(Open)
      <4>1. q \in Recorded /\ rows[q].seq > rows[x].seq
        BY <3>1, <3>3 DEF OpenIsNewer, Selections
      <4>2. QED
        BY <1>4, <3>1, <4>1
    <3>4. QED
      BY <1>7, <3>2, <3>3
  <2>2. QED
    BY <2>1 DEF OpenIsNewer
<1>11. SelectedIsNewest'
  <2>1. \A q \in Selections({"Settled"}) : rows'[q] = rows[q]
    BY <1>4 DEF Selections
  <2>2. QED
    BY <1>2, <1>8, <2>1 DEF SelectedIsNewest
<1>12. writes[o] = 0 /\ effect[o] = "none" /\ answers[o] = {}
  BY DEF SentIsRecorded, AnswersAreRows, LedgerTyped
<1>13. SentIsRecorded' /\ FinalIsTrue' /\ AnswersAreRows'
  BY <1>1, <1>2, <1>4, <1>12 DEF SentIsRecorded, FinalIsTrue, AnswersAreRows
<1>14. SlotFollows'
  <2>1. \A q \in Selections(Open) : rows'[q] = rows[q]
    BY <1>4 DEF Selections
  <2>2. CASE kind = "select"
    <3>1. slot = selected /\ Selections(Open) = {}
      BY <2>2, SaveProfileConfig DEF SlotFollows, PendingIsOpen, Selections, Recorded
    <3>2. o # None
      BY SaveProfileConfig
    <3>3. QED
      BY <1>1, <1>2, <1>7, <1>12, <2>2, <3>1, <3>2 DEF SlotFollows
  <2>3. CASE kind # "select"
    BY <1>2, <1>7, <2>1, <2>3 DEF SlotFollows
  <2>4. QED
    BY <2>2, <2>3
<1>15. QED
  BY <1>1, <1>2, <1>5, <1>6, <1>9, <1>10, <1>11, <1>12, <1>13, <1>14

\* What may be stored for an open operation: nothing that is not so.
CanSay(o, status) ==
  /\ o \in Recorded /\ rows[o].status \in Open
  /\ status \in Open \cup Final
  /\ status = "Settled" => effect[o] = "done"
  /\ status = "Rejected" => writes[o] = 0 \/ effect[o] = "refused"

\* Storing a true result keeps the ledger sound, also when the write fails: an
\* open selection is the pending one, so it becomes the newest settled one,
\* with the profile the mod has, or leaves the mod's profile as it was.
LEMMA PersistSound ==
  ASSUME LedgerInv, NEW o, NEW status, CanSay(o, status),
         persist_result(o, status), UNCHANGED mod
  PROVE  LedgerInv'
<1> USE DEF LedgerInv
<1>1. /\ slot' = slot /\ writes' = writes /\ effect' = effect
  BY DEF mod
<1>2. CASE UNCHANGED ledger
  BY <1>1, <1>2 DEF ledger, LedgerTyped, Ordered, PendingIsOpen, OpenIsNewer,
     SelectedIsNewest, SentIsRecorded, FinalIsTrue, AnswersAreRows, SlotFollows,
     Recorded, Selections
<1>3. CASE ~UNCHANGED ledger
  <2>1. /\ update(o, status)
        /\ IF rows[o].kind = "select"
           THEN /\ selected' = IF status = "Settled" THEN rows[o].profile ELSE selected
                /\ pending_selection' = IF ClosesSelection(status) THEN None
                                                                   ELSE pending_selection
           ELSE selected' = selected /\ pending_selection' = pending_selection
        /\ answers' = [answers EXCEPT ![o] = @ \cup ({status} \cap Final)]
    BY <1>3 DEF persist_result
  <2>2. /\ o \in Recorded /\ o \in Ops /\ status \in Open \cup Final
        /\ rows[o].status \in Open
    BY DEF CanSay, Recorded
  <2>3. /\ rows' \in [Ops -> Rows \cup {None}]
        /\ Recorded' = Recorded
        /\ \A q \in Ops : q # o => rows'[q] = rows[q]
        /\ rows'[o].kind = rows[o].kind /\ rows'[o].profile = rows[o].profile
        /\ rows'[o].status = status /\ rows'[o].seq = rows[o].seq
    BY <2>1, <2>2, UpdateEffect
  <2>4. \A q \in Recorded : q \in Ops /\ rows[q].seq \in Nat /\ rows'[q].seq = rows[q].seq
          /\ rows'[q].profile = rows[q].profile /\ rows'[q].kind = rows[q].kind
    BY <2>3, RowTyped
  <2>5. rows[o].profile \in Profiles \cup {None}
    BY <2>2, RowTyped
  <2>6. LedgerTyped'
    <3>1. selected' \in Profiles \cup {None} /\ pending_selection' \in Ops \cup {None}
      BY <2>1, <2>5 DEF LedgerTyped
    <3>2. answers' \in [Ops -> SUBSET Final]
      BY <2>1 DEF LedgerTyped
    <3>3. QED
      BY <1>1, <2>3, <3>1, <3>2 DEF LedgerTyped
  <2>7. Ordered'
    BY <2>3, <2>4 DEF Ordered
  <2>8. SentIsRecorded'
    BY <1>1, <2>3 DEF SentIsRecorded
  <2>9. FinalIsTrue'
    BY <1>1, <2>2, <2>3, <2>4 DEF FinalIsTrue, CanSay
  <2>10. AnswersAreRows'
    <3>1. answers[o] = {}
      BY <2>2 DEF AnswersAreRows, LedgerTyped, Open, Final
    <3>2. /\ answers'[o] \subseteq {status}
          /\ \A q \in Ops : q # o => answers'[q] = answers[q]
      BY <2>1, <2>2, <3>1 DEF LedgerTyped
    <3>3. QED
      BY <2>2, <2>3, <3>2 DEF AnswersAreRows
  <2>11. CASE rows[o].kind # "select"
    <3>1. o \notin Selections(Open) /\ o \notin Selections({"Settled"})
      BY <2>11 DEF Selections
    <3>2. Selections(Open)' = Selections(Open)
          /\ Selections({"Settled"})' = Selections({"Settled"})
      BY <2>2, <2>3, <2>4, <2>11 DEF Selections, Open
    <3>3. \A q \in Selections(Open) \cup Selections({"Settled"}) : rows'[q] = rows[q]
      BY <2>3, <2>4, <3>1 DEF Selections
    <3>4. PendingIsOpen' /\ OpenIsNewer' /\ SelectedIsNewest' /\ SlotFollows'
      BY <1>1, <2>1, <2>11, <3>2, <3>3
         DEF PendingIsOpen, OpenIsNewer, SelectedIsNewest, SlotFollows
    <3>5. QED
      BY <2>6, <2>7, <2>8, <2>9, <2>10, <3>4
  <2>12. CASE rows[o].kind = "select" /\ status \in Open
    <3>1. o \in Selections(Open) /\ status \notin {"Settled"} /\ status \notin Final
      BY <2>2, <2>12 DEF Selections, Open, Final
    <3>2. Selections(Open)' = Selections(Open)
          /\ Selections({"Settled"})' = Selections({"Settled"})
      BY <2>2, <2>3, <2>4, <2>12, <3>1 DEF Selections, Open
    <3>3. selected' = selected /\ pending_selection' = pending_selection
      BY <2>1, <2>12, <3>1 DEF ClosesSelection
    <3>4. \A q \in Selections(Open) \cup Selections({"Settled"}) :
            rows'[q].seq = rows[q].seq /\ rows'[q].profile = rows[q].profile
      BY <2>4 DEF Selections
    <3>5. PendingIsOpen' /\ OpenIsNewer' /\ SelectedIsNewest' /\ SlotFollows'
      BY <1>1, <3>2, <3>3, <3>4
         DEF PendingIsOpen, OpenIsNewer, SelectedIsNewest, SlotFollows
    <3>6. QED
      BY <2>6, <2>7, <2>8, <2>9, <2>10, <3>5
  <2>13. CASE rows[o].kind = "select" /\ status \in Final
    <3>1. o \in Selections(Open) /\ status \notin Open
      BY <2>2, <2>13 DEF Selections, Open, Final
    <3>2. pending_selection = o /\ Selections(Open) = {o}
      BY <2>2, <3>1 DEF PendingIsOpen, Selections, Recorded
    <3>3. pending_selection' = None
      BY <2>1, <2>13, <3>1 DEF ClosesSelection
    <3>4. Selections(Open)' = {}
      <4>1. ASSUME NEW q \in Recorded, rows'[q].kind = "select", rows'[q].status \in Open
            PROVE  FALSE
        <5>1. q # o /\ q \in Ops /\ rows'[q] = rows[q]
          BY <2>3, <2>4, <3>1, <4>1
        <5>2. q \in Selections(Open)
          BY <4>1, <5>1 DEF Selections
        <5>3. QED
          BY <3>2, <5>1, <5>2
      <4>2. QED
        BY <2>3, <4>1 DEF Selections, Open
    <3>5. PendingIsOpen' /\ OpenIsNewer'
      BY <3>3, <3>4, SaveProfileConfig DEF PendingIsOpen, OpenIsNewer
    <3>6. slot = IF effect[o] = "done" THEN rows[o].profile ELSE selected
      BY <3>1 DEF SlotFollows
    <3>7. CASE status = "Settled"
      <4>1. selected' = rows[o].profile /\ effect[o] = "done"
        BY <2>1, <2>13, <3>7 DEF CanSay
      <4>2. SlotFollows'
        BY <1>1, <3>4, <3>6, <4>1 DEF SlotFollows
      <4>3. Selections({"Settled"})' = Selections({"Settled"}) \cup {o}
        BY <2>2, <2>3, <2>4, <2>13, <3>7 DEF Selections
      <4>4. \A q \in Selections({"Settled"}) :
              q \in Recorded /\ rows[q].seq < rows[o].seq /\ rows[q].seq \in Nat
        BY <2>4, <3>1 DEF OpenIsNewer, Selections
      <4>5. \A q \in Selections({"Settled"})' : rows'[o].seq >= rows'[q].seq
        BY <2>2, <2>4, <4>3, <4>4
      <4>6. SelectedIsNewest'
        BY <2>2, <2>4, <4>1, <4>3, <4>5 DEF SelectedIsNewest
      <4>7. QED
        BY <2>6, <2>7, <2>8, <2>9, <2>10, <3>5, <4>2, <4>6
    <3>8. CASE status = "Rejected"
      <4>1. selected' = selected /\ effect[o] # "done"
        BY <2>1, <2>2, <2>13, <3>8 DEF CanSay, SentIsRecorded
      <4>2. SlotFollows'
        BY <1>1, <3>4, <3>6, <4>1 DEF SlotFollows
      <4>3. Selections({"Settled"})' = Selections({"Settled"})
        BY <2>2, <2>3, <2>4, <2>13, <3>8 DEF Selections, Open
      <4>4. \A q \in Selections({"Settled"}) :
              rows'[q].seq = rows[q].seq /\ rows'[q].profile = rows[q].profile
        BY <2>4 DEF Selections
      <4>5. SelectedIsNewest'
        BY <4>1, <4>3, <4>4 DEF SelectedIsNewest
      <4>6. QED
        BY <2>6, <2>7, <2>8, <2>9, <2>10, <3>5, <4>2, <4>5
    <3>9. QED
      BY <2>13, <3>7, <3>8 DEF Final
  <2>14. QED
    BY <2>2, <2>11, <2>12, <2>13
<1>4. QED
  BY <1>2, <1>3

-----------------------------------------------------------------------------
(* The ledger's parts are kept by what does not touch them.                 *)

LEMMA LedgerUnchanged ==
  ASSUME LedgerInv, UNCHANGED <<ledger, mod>>
  PROVE  LedgerInv'
BY DEF LedgerInv, ledger, mod, LedgerTyped, Ordered, PendingIsOpen, OpenIsNewer,
   SelectedIsNewest, SentIsRecorded, FinalIsTrue, AnswersAreRows, SlotFollows,
   Recorded, Selections

LEMMA ProvisionerUnchanged ==
  ASSUME ProvisionerTyped, IdentitiesFresh, UNCHANGED provisioner
  PROVE  ProvisionerTyped' /\ IdentitiesFresh'
BY DEF ProvisionerTyped, IdentitiesFresh, provisioner, Allocated

\* Between two requests there is nothing to rely on.
LEMMA CallDone ==
  ASSUME CallTyped, Done, lease' \in Nat
  PROVE  CallTyped' /\ CallSound'
<1>1. call' = [at |-> "idle", op |-> None]
  BY DEF Done, At
<1>2. call'.at = "idle" /\ call' \in [at : Steps, op : Ops \cup {None}]
  BY <1>1 DEF Steps
<1>3. QED
  BY <1>2 DEF CallTyped, CallSound

\* At the idle step, what the handlers rely on is nothing.
LEMMA CallIdle ==
  ASSUME CallTyped, Idle, UNCHANGED call, lease' \in Nat
  PROVE  CallTyped' /\ CallSound'
BY DEF CallTyped, CallSound, Idle

\* A row was recorded and goes on to be forwarded.
LEMMA CallForward ==
  ASSUME CallTyped, NEW o \in Ops, At("forward", o), UNCHANGED lease,
         o \in Recorded', rows'[o].status = "Accepted", writes'[o] = 0
  PROVE  CallTyped' /\ CallSound'
<1>1. call' = [at |-> "forward", op |-> o]
  BY DEF At
<1>2. call'.at = "forward" /\ call'.op = o /\ call' \in [at : Steps, op : Ops \cup {None}]
  BY <1>1 DEF Steps
<1>3. QED
  BY <1>2 DEF CallTyped, CallSound

-----------------------------------------------------------------------------
(* The requests.                                                            *)

LEMMA ReadKeeps ==
  ASSUME IInv, NEW o \in Ops, Read(o)
  PROVE  IInv'
<1>1. "read" \in CallKinds /\ None \in Profiles \cup {None}
  BY DEF CallKinds
<1>2. /\ o \notin Recorded /\ insert(o, "read", None) /\ At("forward", o)
      /\ pending_selection' = pending_selection /\ lease' = lease
      /\ UNCHANGED <<selected, answers, mod>> /\ UNCHANGED provisioner
  BY DEF Read, CanSubmit
<1>3. LedgerInv' /\ writes'[o] = 0 /\ rows'[o].status = "Accepted" /\ o \in Recorded'
  BY <1>1, <1>2, InsertSound DEF IInv
<1>4. CallTyped' /\ CallSound'
  BY <1>2, <1>3, CallForward DEF IInv
<1>5. QED
  BY <1>2, <1>3, <1>4, ProvisionerUnchanged DEF IInv

LEMMA SelectKeeps ==
  ASSUME IInv, NEW o \in Ops, NEW p \in Profiles, Select(o, p)
  PROVE  IInv'
<1>1. "select" \in CallKinds /\ p \in Profiles \cup {None}
  BY DEF CallKinds
<1>2. /\ o \notin Recorded /\ insert(o, "select", p) /\ At("forward", o)
      /\ pending_selection = None /\ pending_selection' = o /\ lease' = lease
      /\ UNCHANGED <<selected, answers, mod>> /\ UNCHANGED provisioner
  BY DEF Select, CanSubmit, CanSelect
<1>3. LedgerInv' /\ writes'[o] = 0 /\ rows'[o].status = "Accepted" /\ o \in Recorded'
  BY <1>1, <1>2, InsertSound DEF IInv
<1>4. CallTyped' /\ CallSound'
  BY <1>2, <1>3, CallForward DEF IInv
<1>5. QED
  BY <1>2, <1>3, <1>4, ProvisionerUnchanged DEF IInv

LEMMA SubmitCreationKeeps ==
  ASSUME IInv, SubmitCreation
  PROVE  IInv'
<1>1. /\ call.op \in Ops /\ lease' = lease /\ lease' \in Nat
      /\ pending_selection' = pending_selection
      /\ UNCHANGED <<selected, answers, mod>> /\ UNCHANGED provisioner
  BY DEF SubmitCreation, IInv, CallSound, CallTyped
<1>2. CASE CanSubmit(call.op)
  <2>1. PICK o \in Ops : o = call.op
    BY <1>1
  <2>2. "create" \in CallKinds /\ None \in Profiles \cup {None}
    BY DEF CallKinds
  <2>3. o \notin Recorded /\ insert(o, "create", None) /\ At("forward", o)
    BY <1>2, <2>1 DEF SubmitCreation, CanSubmit
  <2>4. LedgerInv' /\ writes'[o] = 0 /\ rows'[o].status = "Accepted" /\ o \in Recorded'
    BY <1>1, <2>2, <2>3, InsertSound DEF IInv
  <2>5. CallTyped' /\ CallSound'
    BY <1>1, <2>3, <2>4, CallForward DEF IInv
  <2>6. QED
    BY <1>1, <2>4, <2>5, ProvisionerUnchanged DEF IInv
<1>3. CASE ~CanSubmit(call.op)
  <2>1. UNCHANGED <<ledger, mod>> /\ Done
    BY <1>1, <1>3 DEF SubmitCreation, ledger
  <2>2. CallTyped' /\ CallSound'
    BY <1>1, <2>1, CallDone DEF IInv
  <2>3. QED
    BY <1>1, <2>1, <2>2, LedgerUnchanged, ProvisionerUnchanged DEF IInv
<1>4. QED
  BY <1>2, <1>3

\* The exchange is the first for its operation, whose row is open: whatever
\* else is known of it stays so.
LEMMA ExchangeSound ==
  ASSUME LedgerInv, NEW o \in Recorded, rows[o].status \in Open, writes[o] = 0,
         exchange(o), UNCHANGED ledger
  PROVE  LedgerInv'
<1> USE DEF LedgerInv
<1>1. /\ rows' = rows /\ selected' = selected /\ pending_selection' = pending_selection
      /\ answers' = answers /\ slot' = slot /\ effect' = effect
  BY DEF ledger, exchange
<1>2. o \in Ops /\ writes' = [writes EXCEPT ![o] = 1]
  BY DEF exchange, Recorded, LedgerTyped
<1>3. /\ writes' \in [Ops -> Nat] /\ writes'[o] = 1
      /\ \A q \in Ops : q # o => writes'[q] = writes[q]
  BY <1>2 DEF LedgerTyped
<1>4. Recorded' = Recorded /\ Selections(Open)' = Selections(Open)
      /\ Selections({"Settled"})' = Selections({"Settled"})
  BY <1>1 DEF Recorded, Selections, Open
<1>5. LedgerTyped' /\ Ordered' /\ PendingIsOpen' /\ OpenIsNewer' /\ SelectedIsNewest'
      /\ AnswersAreRows' /\ SlotFollows'
  BY <1>1, <1>3, <1>4 DEF LedgerTyped, Ordered, PendingIsOpen, OpenIsNewer,
     SelectedIsNewest, AnswersAreRows, SlotFollows
<1>6. SentIsRecorded'
  BY <1>1, <1>3, <1>4 DEF SentIsRecorded
<1>7. FinalIsTrue'
  <2>1. ASSUME NEW q \in Recorded
        PROVE  /\ rows[q].status = "Settled" => effect[q] = "done"
               /\ rows[q].status = "Rejected" => writes'[q] = 0 \/ effect[q] = "refused"
    <3>1. CASE q = o
      BY <3>1 DEF Open
    <3>2. CASE q # o
      BY <1>3, <3>2 DEF FinalIsTrue, Recorded
    <3>3. QED
      BY <3>1, <3>2
  <2>2. QED
    BY <1>1, <1>4, <2>1 DEF FinalIsTrue
<1>8. QED
  BY <1>5, <1>6, <1>7

LEMMA ForwardKeeps ==
  ASSUME IInv, Forward
  PROVE  IInv'
<1>1. PICK o \in Ops : o = call.op
  BY DEF Forward, IInv, CallSound
<1>2. /\ o \in Recorded /\ rows[o].status = "Accepted" /\ writes[o] = 0
      /\ lease' = lease /\ lease' \in Nat /\ UNCHANGED provisioner
  BY <1>1 DEF Forward, IInv, CallSound, CallTyped
<1>3. CASE exchange(o) /\ At("answer", o) /\ UNCHANGED ledger
  <2>1. LedgerInv'
    BY <1>2, <1>3, ExchangeSound DEF IInv, Open
  <2>2. rows' = rows
    BY <1>3 DEF ledger
  <2>3. call' = [at |-> "answer", op |-> o]
    BY <1>3 DEF At
  <2>4. call'.at = "answer" /\ call'.op = o /\ call' \in [at : Steps, op : Ops \cup {None}]
    BY <2>3 DEF Steps
  <2>5. CallTyped' /\ CallSound'
    BY <1>2, <2>2, <2>4 DEF CallTyped, CallSound, Recorded
  <2>6. QED
    BY <1>2, <2>1, <2>5, ProvisionerUnchanged DEF IInv
<1>4. CASE persist_result(o, rejected_result) /\ Done /\ UNCHANGED mod
  <2>1. CanSay(o, rejected_result)
    BY <1>2 DEF CanSay, rejected_result, Open, Final
  <2>2. LedgerInv'
    BY <1>4, <2>1, PersistSound DEF IInv
  <2>3. CallTyped' /\ CallSound'
    BY <1>2, <1>4, CallDone DEF IInv
  <2>4. QED
    BY <1>2, <2>2, <2>3, ProvisionerUnchanged DEF IInv
<1>5. QED
  BY <1>1, <1>3, <1>4 DEF Forward

\* What the mod answers is true, and that nothing is known is always so.
LEMMA AnswerIsTrue ==
  ASSUME LedgerInv, NEW o \in Recorded, rows[o].status \in Open
  PROVE  CanSay(o, ModStatus(o)) /\ CanSay(o, unknown_result)
<1>1. o \in Ops /\ effect[o] \in {"none", "done", "refused"}
  BY DEF Recorded, LedgerInv, LedgerTyped
<1>2. CASE effect[o] = "none"
  BY <1>2 DEF CanSay, ModStatus, unknown_result, Open, Final
<1>3. CASE effect[o] = "done"
  BY <1>3 DEF CanSay, ModStatus, unknown_result, Open, Final
<1>4. CASE effect[o] = "refused"
  BY <1>4 DEF CanSay, ModStatus, unknown_result, Open, Final
<1>5. QED
  BY <1>1, <1>2, <1>3, <1>4

LEMMA AnswerKeeps ==
  ASSUME IInv, Answered \/ AnswerLost
  PROVE  IInv'
<1>1. PICK o \in Ops : o = call.op
  BY DEF Answered, AnswerLost, IInv, CallSound
<1>2. /\ o \in Recorded /\ rows[o].status \in Open
      /\ lease' = lease /\ lease' \in Nat /\ UNCHANGED provisioner /\ Done
      /\ UNCHANGED mod
  BY <1>1 DEF Answered, AnswerLost, IInv, CallSound, CallTyped, Open
<1>3. PICK status : CanSay(o, status) /\ persist_result(o, status)
  BY <1>1, <1>2, AnswerIsTrue DEF Answered, AnswerLost, IInv
<1>4. LedgerInv'
  BY <1>2, <1>3, PersistSound DEF IInv
<1>5. CallTyped' /\ CallSound'
  BY <1>2, CallDone DEF IInv
<1>6. QED
  BY <1>2, <1>4, <1>5, ProvisionerUnchanged DEF IInv

LEMMA LookupKeeps ==
  ASSUME IInv, NEW o \in Ops, Reconcile(o) \/ CallerDisconnected(o)
  PROVE  IInv'
<1>1. /\ o \in Recorded /\ rows[o].status \in Open
      /\ lease' = lease /\ lease' \in Nat /\ UNCHANGED provisioner /\ UNCHANGED mod
      /\ Idle /\ UNCHANGED call
  BY DEF Reconcile, CallerDisconnected, IInv, CallTyped
<1>2. PICK status : CanSay(o, status) /\ persist_result(o, status)
  BY <1>1, AnswerIsTrue DEF Reconcile, CallerDisconnected, IInv
<1>3. LedgerInv'
  BY <1>1, <1>2, PersistSound DEF IInv
<1>4. CallTyped' /\ CallSound'
  BY <1>1, CallIdle DEF IInv
<1>5. QED
  BY <1>1, <1>3, <1>4, ProvisionerUnchanged DEF IInv

-----------------------------------------------------------------------------
(* The provisioner.                                                         *)

\* A new allocation has an identity no other has: it is above all of them.
LEMMA ReserveSound ==
  ASSUME ProvisionerTyped, IdentitiesFresh, CallTyped, NEW o \in Ops,
         o \notin Allocated, next_identity <= capacity,
         next_identity' = next_identity + 1, insert_allocation(o), UNCHANGED dirs
  PROVE  ProvisionerTyped' /\ IdentitiesFresh' /\ o \in Allocated'
<1> DEFINE a == [id |-> next_identity, lease |-> lease, status |-> "Pending"]
<1>1. next_identity \in Nat \ {0} /\ next_identity' \in Nat \ {0} /\ capacity \in Nat
  BY SaveProfileConfig DEF ProvisionerTyped
<1>2. next_identity \in Identities
  BY <1>1 DEF Identities
<1>3. a \in Allocs /\ a.id = next_identity
  BY <1>2 DEF Allocs, CallTyped
<1>4. a # None
  BY <1>3, NothingIsNoRecord
<1>5. allocs' = [allocs EXCEPT ![o] = a]
  BY DEF insert_allocation
<1> HIDE DEF a
<1>6. /\ allocs' \in [Ops -> Allocs \cup {None}] /\ allocs'[o] = a
      /\ \A q \in Ops : q # o => allocs'[q] = allocs[q]
  BY <1>3, <1>5 DEF ProvisionerTyped
<1>7. Allocated' = Allocated \cup {o}
  BY <1>4, <1>6 DEF Allocated
<1>8. \A q \in Allocated : q \in Ops /\ q # o /\ allocs[q].id \in Nat
                             /\ allocs'[q] = allocs[q] /\ allocs[q].id < next_identity
  <2>1. ASSUME NEW q \in Allocated
        PROVE  q \in Ops /\ allocs[q] \in Allocs
    BY DEF Allocated, ProvisionerTyped
  <2>2. ASSUME NEW q \in Allocated
        PROVE  allocs[q].id \in Nat
    BY <1>1, <2>1 DEF Allocs, Identities
  <2>3. QED
    BY <1>6, <2>1, <2>2 DEF IdentitiesFresh
<1>9. \A q \in Allocated' : allocs'[q].id < next_identity'
  BY <1>1, <1>3, <1>6, <1>7, <1>8
<1>10. \A q \in Allocated' : allocs'[o].id >= allocs'[q].id
  BY <1>1, <1>3, <1>6, <1>7, <1>8
<1>11. ASSUME NEW q \in Allocated', NEW x \in Allocated', allocs'[q].id = allocs'[x].id
       PROVE  q = x
  <2>1. CASE q = o /\ x = o
    BY <2>1
  <2>2. CASE q = o /\ x \in Allocated
    BY <1>1, <1>3, <1>6, <1>8, <1>11, <2>2
  <2>3. CASE q \in Allocated /\ x = o
    BY <1>1, <1>3, <1>6, <1>8, <1>11, <2>3
  <2>4. CASE q \in Allocated /\ x \in Allocated
    BY <1>8, <1>11, <2>4 DEF IdentitiesFresh
  <2>5. QED
    BY <1>7, <2>1, <2>2, <2>3, <2>4
<1>12. IdentitiesFresh'
  BY <1>7, <1>9, <1>10, <1>11 DEF IdentitiesFresh
<1>13. QED
  BY <1>1, <1>6, <1>7, <1>12 DEF ProvisionerTyped

\* A new status leaves the identity of an allocation.
LEMMA UpdateAllocationSound ==
  ASSUME ProvisionerTyped, IdentitiesFresh, NEW o \in Allocated,
         NEW status \in {"Created", "Unknown", "Blocked", "Rejected"},
         update_allocation(o, status), UNCHANGED next_identity,
         dirs' \in [Identities -> Ops \cup {"foreign", "absent", "partial"}]
  PROVE  /\ ProvisionerTyped' /\ IdentitiesFresh' /\ Allocated' = Allocated
         /\ allocs'[o].id = allocs[o].id
<1>1. o \in Ops /\ allocs[o] \in Allocs
  BY DEF Allocated, ProvisionerTyped
<1>2. PICK a \in Allocs : a = allocs[o]
  BY <1>1
<1>3. PICK n : n = [a EXCEPT !.status = status]
  OBVIOUS
<1>4. n \in Allocs /\ n.id = a.id
  BY <1>3 DEF Allocs
<1>5. n # None
  BY <1>4, NothingIsNoRecord
<1>6. allocs' = [allocs EXCEPT ![o] = n]
  BY <1>1, <1>2, <1>3 DEF update_allocation, ProvisionerTyped
<1>7. /\ allocs' \in [Ops -> Allocs \cup {None}] /\ allocs'[o] = n
      /\ \A q \in Ops : q # o => allocs'[q] = allocs[q]
  BY <1>1, <1>4, <1>6 DEF ProvisionerTyped
<1>8. Allocated' = Allocated
  BY <1>1, <1>5, <1>7 DEF Allocated
<1>9. \A q \in Allocated : allocs'[q].id = allocs[q].id
  BY <1>2, <1>4, <1>7 DEF Allocated
<1>10. IdentitiesFresh'
  BY <1>8, <1>9 DEF IdentitiesFresh
<1>11. QED
  BY <1>7, <1>8, <1>9, <1>10 DEF ProvisionerTyped

\* The identity of an allocation names a directory.
LEMMA IdentityTyped ==
  ASSUME ProvisionerTyped, NEW o \in Allocated
  PROVE  o \in Ops /\ allocs[o].id \in Identities
<1>1. o \in Ops /\ allocs[o] \in Allocs
  BY DEF Allocated, ProvisionerTyped
<1>2. QED
  BY <1>1 DEF Allocs

\* A step of the provisioner that does not go on to the ledger.
LEMMA CallProvisioning ==
  ASSUME CallTyped, UNCHANGED lease, NEW o \in Ops, NEW at \in {"inspect", "provenance"},
         At(at, o), o \in Allocated'
  PROVE  CallTyped' /\ CallSound'
<1>1. call' = [at |-> at, op |-> o]
  BY DEF At
<1>2. call'.at = at /\ call'.op = o /\ call' \in [at : Steps, op : Ops \cup {None}]
  BY <1>1 DEF Steps
<1>3. QED
  BY <1>2 DEF CallTyped, CallSound

LEMMA CallSubmit ==
  ASSUME CallTyped, UNCHANGED lease, NEW o \in Ops, At("submit", o), o \in Allocated',
         dirs'[allocs'[o].id] = o
  PROVE  CallTyped' /\ CallSound'
<1>1. call' = [at |-> "submit", op |-> o]
  BY DEF At
<1>2. call'.at = "submit" /\ call'.op = o /\ call' \in [at : Steps, op : Ops \cup {None}]
  BY <1>1 DEF Steps
<1>3. QED
  BY <1>2 DEF CallTyped, CallSound, Directory

LEMMA ReserveKeeps ==
  ASSUME IInv, NEW o \in Ops, Reserve(o)
  PROVE  IInv'
<1>1. /\ o \notin Allocated /\ next_identity <= capacity
      /\ next_identity' = next_identity + 1 /\ Idle
      /\ lease' = lease /\ lease' \in Nat /\ UNCHANGED <<ledger, mod>> /\ dirs' = dirs
  BY DEF Reserve, IInv, CallTyped
<1>2. LedgerInv'
  BY <1>1, LedgerUnchanged DEF IInv
<1>3. CASE insert_allocation(o) /\ At("inspect", o)
  <2>1. ProvisionerTyped' /\ IdentitiesFresh' /\ o \in Allocated'
    BY <1>1, <1>3, ReserveSound DEF IInv
  <2>2. CallTyped' /\ CallSound'
    BY <1>1, <1>3, <2>1, CallProvisioning DEF IInv
  <2>3. QED
    BY <1>2, <2>1, <2>2 DEF IInv
<1>4. CASE UNCHANGED <<allocs, call>>
  <2>1. next_identity \in Nat \ {0} /\ next_identity' \in Nat \ {0}
    BY <1>1 DEF IInv, ProvisionerTyped
  <2>2. ProvisionerTyped'
    BY <1>1, <1>4, <2>1 DEF IInv, ProvisionerTyped
  <2>3. \A q \in Allocated : allocs[q].id \in Nat /\ allocs[q].id < next_identity
    BY IdentityTyped DEF IInv, IdentitiesFresh, Identities
  <2>4. \A q \in Allocated : allocs[q].id < next_identity'
    BY <1>1, <2>1, <2>3
  <2>5. IdentitiesFresh'
    BY <1>4, <2>4 DEF IInv, IdentitiesFresh, Allocated
  <2>6. CallTyped' /\ CallSound'
    BY <1>1, <1>4, CallIdle DEF IInv
  <2>7. QED
    BY <1>2, <2>2, <2>5, <2>6 DEF IInv
<1>5. QED
  BY <1>3, <1>4 DEF Reserve

\* The outcome of a creation: only a created allocation, whose directory has
\* its provenance, goes on to the ledger.
LEMMA FinishSound ==
  ASSUME IInv, NEW o \in Allocated,
         NEW status \in {"Created", "Unknown", "Blocked", "Rejected"},
         finish(o, status), UNCHANGED <<lease, next_identity>>,
         dirs' \in [Identities -> Ops \cup {"foreign", "absent", "partial"}],
         status = "Created" => dirs'[allocs[o].id] = o
  PROVE  ProvisionerTyped' /\ IdentitiesFresh' /\ CallTyped' /\ CallSound'
<1>1. o \in Ops /\ lease' \in Nat /\ lease' = lease
  BY IdentityTyped DEF IInv, CallTyped
<1>2. CASE update_allocation(o, status) /\ (IF status = "Created" THEN At("submit", o) ELSE Done)
  <2>1. /\ ProvisionerTyped' /\ IdentitiesFresh' /\ Allocated' = Allocated
        /\ allocs'[o].id = allocs[o].id
    BY <1>2, UpdateAllocationSound DEF IInv
  <2>2. CASE status = "Created"
    <3>1. At("submit", o) /\ dirs'[allocs'[o].id] = o /\ o \in Allocated'
      BY <1>2, <2>1, <2>2
    <3>2. QED
      BY <1>1, <2>1, <3>1, CallSubmit DEF IInv
  <2>3. CASE status # "Created"
    BY <1>1, <1>2, <2>1, <2>3, CallDone DEF IInv
  <2>4. QED
    BY <2>2, <2>3
<1>3. CASE UNCHANGED allocs /\ Done
  <2>1. ProvisionerTyped' /\ IdentitiesFresh'
    BY <1>3 DEF IInv, ProvisionerTyped, IdentitiesFresh, Allocated
  <2>2. QED
    BY <1>1, <1>3, <2>1, CallDone DEF IInv
<1>4. QED
  BY <1>2, <1>3 DEF finish

LEMMA CreateReservedKeeps ==
  ASSUME IInv, CreateReserved
  PROVE  IInv'
<1>1. PICK o : o = call.op
  OBVIOUS
<1>2. /\ o \in Allocated /\ o \in Ops /\ allocs[o].id \in Identities
      /\ lease' = lease /\ UNCHANGED <<ledger, mod>> /\ next_identity' = next_identity
  BY <1>1, IdentityTyped DEF CreateReserved, IInv, CallSound
<1>3. LedgerInv'
  BY <1>2, LedgerUnchanged DEF IInv
<1>4. dirs \in [Identities -> Ops \cup {"foreign", "absent", "partial"}]
  BY DEF IInv, ProvisionerTyped
<1>5. CASE /\ dirs' = [dirs EXCEPT ![allocs[o].id] = "partial"]
           /\ At("provenance", o) /\ UNCHANGED allocs
  <2>1. dirs' \in [Identities -> Ops \cup {"foreign", "absent", "partial"}]
    BY <1>2, <1>4, <1>5
  <2>2. ProvisionerTyped' /\ IdentitiesFresh' /\ Allocated' = Allocated
    BY <1>2, <1>5, <2>1 DEF IInv, ProvisionerTyped, IdentitiesFresh, Allocated
  <2>3. CallTyped' /\ CallSound'
    BY <1>2, <1>5, <2>2, CallProvisioning DEF IInv
  <2>4. QED
    BY <1>3, <2>2, <2>3 DEF IInv
<1>6. CASE \E status \in {"Blocked", "Rejected"} : finish(o, status) /\ UNCHANGED dirs
  <2>1. PICK status \in {"Blocked", "Rejected"} : finish(o, status) /\ UNCHANGED dirs
    BY <1>6
  <2>2. ProvisionerTyped' /\ IdentitiesFresh' /\ CallTyped' /\ CallSound'
    BY <1>2, <1>4, <2>1, FinishSound
  <2>3. QED
    BY <1>3, <2>2 DEF IInv
<1>7. QED
  BY <1>1, <1>5, <1>6 DEF CreateReserved

LEMMA CreateNewKeeps ==
  ASSUME IInv, create_new
  PROVE  IInv'
<1>1. PICK o : o = call.op
  OBVIOUS
<1>2. /\ o \in Allocated /\ o \in Ops /\ allocs[o].id \in Identities
      /\ lease' = lease /\ UNCHANGED <<ledger, mod>> /\ next_identity' = next_identity
  BY <1>1, IdentityTyped DEF create_new, IInv, CallSound
<1>3. LedgerInv'
  BY <1>2, LedgerUnchanged DEF IInv
<1>4. PICK d : d = [dirs EXCEPT ![allocs[o].id] = o]
  OBVIOUS
<1>5. /\ dirs \in [Identities -> Ops \cup {"foreign", "absent", "partial"}]
      /\ d \in [Identities -> Ops \cup {"foreign", "absent", "partial"}]
      /\ d[allocs[o].id] = o
  BY <1>2, <1>4 DEF IInv, ProvisionerTyped
<1>6. \/ dirs' = d /\ finish(o, "Created")
      \/ dirs' \in {dirs, d} /\ finish(o, "Unknown")
  BY <1>1, <1>4 DEF create_new
<1>7. PICK status \in {"Created", "Unknown"} :
        /\ finish(o, status) /\ dirs' \in {dirs, d} /\ (status = "Created" => dirs' = d)
  BY <1>6
<1>8. /\ dirs' \in [Identities -> Ops \cup {"foreign", "absent", "partial"}]
      /\ status = "Created" => dirs'[allocs[o].id] = o
  BY <1>5, <1>7
<1>9. ProvisionerTyped' /\ IdentitiesFresh' /\ CallTyped' /\ CallSound'
  BY <1>2, <1>7, <1>8, FinishSound
<1>10. QED
  BY <1>3, <1>9 DEF IInv

LEMMA ReconcileAllocationKeeps ==
  ASSUME IInv, NEW o \in Ops, NEW retry \in BOOLEAN, ReconcileAllocation(o, retry)
  PROVE  IInv'
<1>1. /\ o \in Allocated /\ Idle /\ dirs' = dirs /\ UNCHANGED <<ledger, mod>>
      /\ lease' = lease /\ lease' \in Nat /\ next_identity' = next_identity
  BY DEF ReconcileAllocation, IInv, CallTyped
<1>2. LedgerInv'
  BY <1>1, LedgerUnchanged DEF IInv
<1>3. PICK status \in {inspect(o), "Unknown"} :
        \/ /\ update_allocation(o, status)
           /\ IF retry /\ status = "Created" THEN At("submit", o) ELSE UNCHANGED call
        \/ UNCHANGED <<allocs, call>>
  BY DEF ReconcileAllocation
<1>4. /\ status \in {"Created", "Unknown", "Blocked", "Rejected"}
      /\ status = "Created" => dirs[allocs[o].id] = o
  BY <1>3 DEF inspect, read_owned, Directory
<1>5. CASE update_allocation(o, status) /\
           (IF retry /\ status = "Created" THEN At("submit", o) ELSE UNCHANGED call)
  <2>1. dirs' \in [Identities -> Ops \cup {"foreign", "absent", "partial"}]
    BY <1>1 DEF IInv, ProvisionerTyped
  <2>2. /\ ProvisionerTyped' /\ IdentitiesFresh' /\ Allocated' = Allocated
        /\ allocs'[o].id = allocs[o].id
    BY <1>1, <1>4, <1>5, <2>1, UpdateAllocationSound DEF IInv
  <2>3. CASE retry /\ status = "Created"
    <3>1. At("submit", o) /\ dirs'[allocs'[o].id] = o /\ o \in Allocated'
      BY <1>1, <1>4, <1>5, <2>2, <2>3
    <3>2. CallTyped' /\ CallSound'
      BY <1>1, <3>1, CallSubmit DEF IInv
    <3>3. QED
      BY <1>2, <2>2, <3>2 DEF IInv
  <2>4. CASE ~(retry /\ status = "Created")
    <3>1. CallTyped' /\ CallSound'
      BY <1>1, <1>5, <2>4, CallIdle DEF IInv
    <3>2. QED
      BY <1>2, <2>2, <3>1 DEF IInv
  <2>5. QED
    BY <2>3, <2>4
<1>6. CASE UNCHANGED <<allocs, call>>
  <2>1. UNCHANGED provisioner
    BY <1>1, <1>6 DEF provisioner
  <2>2. CallTyped' /\ CallSound'
    BY <1>1, <1>6, CallIdle DEF IInv
  <2>3. QED
    BY <1>2, <2>1, <2>2, ProvisionerUnchanged DEF IInv
<1>7. QED
  BY <1>3, <1>5, <1>6

-----------------------------------------------------------------------------
(* Restarts and the surroundings.                                           *)

\* A restart finds in the journal what the ledger has in memory: the newest
\* settled selection is unique, and the pending selection is the only open one.
LEMMA RestoredAgrees ==
  ASSUME LedgerInv
  PROVE  selected = restored_selected /\ pending_selection = restored_pending
<1> USE DEF LedgerInv
<1>1. selected = restored_selected
  <2> DEFINE S == Selections({"Settled"})
  <2>1. CASE S = {}
    BY <2>1 DEF restored_selected, SelectedIsNewest
  <2>2. CASE S # {}
    <3>1. PICK o \in S : selected = rows[o].profile /\ \A p \in S : rows[o].seq >= rows[p].seq
      BY <2>2 DEF SelectedIsNewest
    <3> DEFINE n == Newest(S)
    <3>2. n = CHOOSE x \in S : \A p \in S : rows[x].seq >= rows[p].seq
      BY Zenon DEF Newest
    <3>3. n \in S /\ \A p \in S : rows[n].seq >= rows[p].seq
      BY <3>1, <3>2, Zenon
    <3>4. restored_selected = rows[n].profile
      BY <2>2, Zenon DEF restored_selected
    <3> HIDE DEF n
    <3>5. n \in Recorded /\ o \in Recorded
      BY <3>1, <3>3 DEF Selections
    <3>6. rows[n].seq \in Nat /\ rows[o].seq \in Nat
      BY <3>5, RowTyped
    <3>7. rows[n].seq = rows[o].seq
      BY <3>1, <3>3, <3>6
    <3>8. n = o
      BY <3>5, <3>7 DEF Ordered
    <3>9. QED
      BY <3>1, <3>4, <3>8
  <2>3. QED
    BY <2>1, <2>2
<1>2. pending_selection = restored_pending
  <2> DEFINE S == Selections(Open)
  <2>1. CASE S = {}
    BY <2>1 DEF restored_pending, PendingIsOpen, LedgerTyped
  <2>2. CASE S # {}
    <3>1. PICK o \in S : o \in Ops /\ o = pending_selection
      BY <2>2 DEF PendingIsOpen, Selections, Recorded
    <3>2. S = {o}
      BY <3>1 DEF PendingIsOpen, Selections, Recorded
    <3>3. rows[o].seq \in Nat
      BY <3>1, RowTyped DEF Selections
    <3>4. \A p \in S : rows[o].seq >= rows[p].seq
      BY <3>2, <3>3
    <3> DEFINE n == Newest(S)
    <3>5. n = CHOOSE x \in S : \A p \in S : rows[x].seq >= rows[p].seq
      BY Zenon DEF Newest
    <3>6. n \in S
      BY <3>1, <3>4, <3>5, Zenon
    <3>7. restored_pending = n
      BY <2>2, Zenon DEF restored_pending
    <3> HIDE DEF n
    <3>8. QED
      BY <3>1, <3>2, <3>6, <3>7
  <2>3. QED
    BY <2>1, <2>2
<1>3. QED
  BY <1>1, <1>2

\* The identity a restart begins with is above every one that was recorded,
\* also when the last ones before it were used up without a record.
LEMMA RestoredIdentity ==
  ASSUME ProvisionerTyped, IdentitiesFresh
  PROVE  /\ restored_identity \in Nat \ {0}
         /\ \A o \in Allocated : allocs[o].id < restored_identity
<1> DEFINE ids == {allocs[o].id : o \in Allocated}
<1>1. \A o \in Allocated : allocs[o].id \in Nat \ {0} /\ allocs[o].id \in ids
  BY IdentityTyped DEF Identities
<1>2. CASE ids = {}
  <2>1. restored_identity = 1
    BY <1>2, Zenon DEF restored_identity
  <2>2. Allocated = {}
    BY <1>1, <1>2, Zenon
  <2>3. QED
    BY <2>1, <2>2
<1>3. CASE ids # {}
  <2>1. PICK o \in Allocated : \A p \in Allocated : allocs[o].id >= allocs[p].id
    BY <1>3 DEF IdentitiesFresh
  <2>2. allocs[o].id \in ids /\ \A j \in ids : allocs[o].id >= j
    BY <2>1
  <2> DEFINE m == CHOOSE i \in ids : \A j \in ids : i >= j
  <2>3. m \in ids /\ \A j \in ids : m >= j
    BY <2>2, Zenon
  <2>4. restored_identity = 1 + m
    BY <1>3, Zenon DEF restored_identity
  <2> HIDE DEF m
  <2>5. m \in Nat \ {0}
    BY <1>1, <2>3
  <2>6. \A p \in Allocated : m >= allocs[p].id
    BY <1>1, <2>3
  <2>7. QED
    BY <1>1, <2>4, <2>5, <2>6
<1>4. QED
  BY <1>2, <1>3

LEMMA RestartKeeps ==
  ASSUME IInv, Restart
  PROVE  IInv'
<1>1. /\ lease \in Nat /\ lease' \in {lease, lease + 1} /\ Done
      /\ selected' = restored_selected /\ pending_selection' = restored_pending
      /\ next_identity' = restored_identity
      /\ UNCHANGED <<rows, answers, allocs, dirs, mod>>
  BY DEF Restart, IInv, CallTyped
<1>2. UNCHANGED <<ledger, mod>>
  BY <1>1, RestoredAgrees DEF IInv, ledger
<1>3. LedgerInv'
  BY <1>2, LedgerUnchanged DEF IInv
<1>4. /\ next_identity' \in Nat \ {0}
      /\ \A o \in Allocated : allocs[o].id < next_identity'
  BY <1>1, RestoredIdentity DEF IInv
<1>5. ProvisionerTyped' /\ IdentitiesFresh'
  BY <1>1, <1>4 DEF IInv, ProvisionerTyped, IdentitiesFresh, Allocated
<1>6. lease' \in Nat
  BY <1>1
<1>7. CallTyped' /\ CallSound'
  BY <1>1, <1>6, CallDone DEF IInv
<1>8. QED
  BY <1>3, <1>5, <1>7 DEF IInv

LEMMA SetAuthorityKeeps ==
  ASSUME IInv, set_authority
  PROVE  IInv'
<1>1. /\ UNCHANGED <<ledger, mod>> /\ UNCHANGED provisioner /\ Idle /\ UNCHANGED call
      /\ lease' = lease + 1 /\ lease \in Nat
  BY DEF set_authority, IInv, CallTyped
<1>2. lease' \in Nat
  BY <1>1
<1>3. CallTyped' /\ CallSound'
  BY <1>1, <1>2, CallIdle DEF IInv
<1>4. QED
  BY <1>1, <1>3, LedgerUnchanged, ProvisionerUnchanged DEF IInv

\* What the mod does with an operation is about the pending selection, or
\* about no selection: one that is final was decided, or never sent.
LEMMA DecisionSound ==
  ASSUME LedgerInv, NEW o \in Ops, NEW e \in {"done", "refused"},
         writes[o] > 0, effect[o] = "none", effect' = [effect EXCEPT ![o] = e],
         slot' = IF e = "done" /\ rows[o].kind = "select" THEN rows[o].profile ELSE slot,
         UNCHANGED <<ledger, writes>>
  PROVE  LedgerInv'
<1> USE DEF LedgerInv
<1>1. /\ rows' = rows /\ selected' = selected /\ pending_selection' = pending_selection
      /\ answers' = answers /\ writes' = writes
  BY DEF ledger
<1>2. writes[o] = 1 /\ o \in Recorded
  BY DEF SentIsRecorded, LedgerTyped
<1>3. rows[o].status \in Open
  BY <1>2, RowTyped DEF FinalIsTrue, Final
<1>4. /\ effect' \in [Ops -> {"none", "done", "refused"}] /\ effect'[o] = e
      /\ \A q \in Ops : q # o => effect'[q] = effect[q]
  BY DEF LedgerTyped
<1>5. rows[o].profile \in Profiles \cup {None}
  BY <1>2, RowTyped
<1>6. Recorded' = Recorded /\ Selections(Open)' = Selections(Open)
      /\ Selections({"Settled"})' = Selections({"Settled"})
  BY <1>1 DEF Recorded, Selections, Open
<1>7. LedgerTyped' /\ Ordered' /\ PendingIsOpen' /\ OpenIsNewer' /\ SelectedIsNewest'
      /\ AnswersAreRows'
  BY <1>1, <1>4, <1>5, <1>6 DEF LedgerTyped, Ordered, PendingIsOpen, OpenIsNewer,
     SelectedIsNewest, AnswersAreRows
<1>8. SentIsRecorded'
  BY <1>1, <1>2, <1>4, <1>6 DEF SentIsRecorded
<1>9. FinalIsTrue'
  <2>1. ASSUME NEW q \in Recorded
        PROVE  /\ rows[q].status = "Settled" => effect'[q] = "done"
               /\ rows[q].status = "Rejected" => writes[q] = 0 \/ effect'[q] = "refused"
    <3>1. CASE q = o
      BY <1>3, <3>1 DEF Open
    <3>2. CASE q # o
      BY <1>4, <3>2 DEF FinalIsTrue, Recorded
    <3>3. QED
      BY <3>1, <3>2
  <2>2. QED
    BY <1>1, <1>6, <2>1 DEF FinalIsTrue
<1>10. SlotFollows'
  <2>1. CASE rows[o].kind = "select"
    <3>1. o \in Selections(Open)
      BY <1>2, <1>3, <2>1 DEF Selections
    <3>2. pending_selection = o /\ Selections(Open) = {o} /\ o # None
      BY <3>1, SaveProfileConfig DEF PendingIsOpen, Selections, Recorded
    <3>3. slot = selected
      BY <3>1 DEF SlotFollows
    <3>4. QED
      BY <1>1, <1>4, <1>6, <2>1, <3>2, <3>3 DEF SlotFollows
  <2>2. CASE rows[o].kind # "select"
    <3>1. \A q \in Selections(Open) : q # o /\ q \in Ops
      BY <2>2 DEF Selections, Recorded
    <3>2. QED
      BY <1>1, <1>4, <1>6, <2>2, <3>1 DEF SlotFollows
  <2>3. QED
    BY <2>1, <2>2
<1>11. QED
  BY <1>7, <1>8, <1>9, <1>10

LEMMA ModDecidesKeeps ==
  ASSUME IInv, NEW o \in Ops, ModDecides(o)
  PROVE  IInv'
<1>1. /\ writes[o] > 0 /\ effect[o] = "none"
      /\ UNCHANGED <<ledger, writes>> /\ UNCHANGED <<provisioner, lease, call>>
  BY DEF ModDecides
<1>2. PICK e \in {"done", "refused"} :
        /\ effect' = [effect EXCEPT ![o] = e]
        /\ slot' = IF e = "done" /\ rows[o].kind = "select" THEN rows[o].profile ELSE slot
  BY DEF ModDecides
<1>3. LedgerInv'
  BY <1>1, <1>2, DecisionSound DEF IInv
<1>4. CallTyped' /\ CallSound'
  BY <1>1 DEF IInv, CallTyped, CallSound, ledger, provisioner, Recorded, Allocated, Directory
<1>5. QED
  BY <1>1, <1>3, <1>4, ProvisionerUnchanged DEF IInv

LEMMA DirectoryLostKeeps ==
  ASSUME IInv, NEW i \in Identities, DirectoryLost(i)
  PROVE  IInv'
<1>1. /\ UNCHANGED <<ledger, mod>> /\ Idle /\ UNCHANGED call /\ lease' = lease
      /\ lease' \in Nat /\ allocs' = allocs /\ next_identity' = next_identity
      /\ dirs' = [dirs EXCEPT ![i] = "absent"]
  BY DEF DirectoryLost, IInv, CallTyped
<1>2. ProvisionerTyped' /\ IdentitiesFresh'
  BY <1>1 DEF IInv, ProvisionerTyped, IdentitiesFresh, Allocated
<1>3. CallTyped' /\ CallSound'
  BY <1>1, CallIdle DEF IInv
<1>4. QED
  BY <1>1, <1>2, <1>3, LedgerUnchanged DEF IInv

-----------------------------------------------------------------------------
(* The theorems.                                                            *)

LEMMA InitInv == Init => IInv
<1> SUFFICES ASSUME Init PROVE IInv
  OBVIOUS
<1>1. Recorded = {} /\ Allocated = {}
  BY DEF Init, Recorded, Allocated
<1>2. \A S : Selections(S) = {}
  BY <1>1 DEF Selections
<1>3. LedgerTyped
  BY DEF Init, LedgerTyped
<1>4. Ordered /\ OpenIsNewer /\ SelectedIsNewest /\ FinalIsTrue
  BY <1>1, <1>2 DEF Init, Ordered, OpenIsNewer, SelectedIsNewest, FinalIsTrue
<1>5. PendingIsOpen /\ SentIsRecorded /\ AnswersAreRows /\ SlotFollows
  BY <1>1, <1>2, SaveProfileConfig
     DEF Init, PendingIsOpen, SentIsRecorded, AnswersAreRows, SlotFollows
<1>6. ProvisionerTyped
  BY DEF Init, ProvisionerTyped
<1>7. IdentitiesFresh
  BY <1>1 DEF IdentitiesFresh
<1>8. CallTyped /\ CallSound
  BY DEF Init, CallTyped, CallSound, Steps
<1>9. QED
  BY <1>3, <1>4, <1>5, <1>6, <1>7, <1>8 DEF IInv, LedgerInv

LEMMA NextInv == IInv /\ [Next]_vars => IInv'
<1> SUFFICES ASSUME IInv, [Next]_vars PROVE IInv'
  OBVIOUS
<1>1. CASE Next
  BY <1>1, ReadKeeps, LookupKeeps, ReserveKeeps, SelectKeeps, ReconcileAllocationKeeps,
     SubmitCreationKeeps, ForwardKeeps, AnswerKeeps, CreateReservedKeeps, CreateNewKeeps,
     RestartKeeps, SetAuthorityKeeps, ModDecidesKeeps, DirectoryLostKeeps DEF Next
<1>2. CASE UNCHANGED vars
  <2>1. UNCHANGED <<ledger, mod>> /\ UNCHANGED provisioner
        /\ lease' = lease /\ call' = call
    BY <1>2 DEF vars
  <2>2. CallTyped' /\ CallSound'
    BY <2>1 DEF IInv, CallTyped, CallSound, ledger, mod, provisioner, Recorded, Allocated,
       Directory
  <2>3. QED
    BY <2>1, <2>2, LedgerUnchanged, ProvisionerUnchanged DEF IInv
<1>3. QED
  BY <1>1, <1>2

\* The invariant holds in every reachable state.
THEOREM SaveProfileInvariant == Spec => []IInv
BY InitInv, NextInv, PTL DEF Spec

\* A restart between two requests finds the selection and the pending selection
\* of the running ledger in the journal.
THEOREM RestartAgreesTheorem == Spec => []RestartAgrees
<1>1. IInv => RestartAgrees
  BY RestoredAgrees DEF IInv, RestartAgrees
<1>2. QED
  BY <1>1, SaveProfileInvariant, PTL

\* With no selection pending, the ledger's profile is the one the mod has.
THEOREM SelectedIsCurrentTheorem == Spec => []SelectedIsCurrent
<1>1. IInv => SelectedIsCurrent
  BY DEF IInv, LedgerInv, SlotFollows, SelectedIsCurrent
<1>2. QED
  BY <1>1, SaveProfileInvariant, PTL

\* No two allocations ever have the same directory, whatever identities were
\* used up without a record and however often the provisioner was restarted.
OneDirectoryEach ==
  \A o, p \in Allocated : allocs[o].id = allocs[p].id => o = p

\* Allocations of different operations have different directories.
THEOREM OneDirectoryTheorem == Spec => []OneDirectoryEach
<1>1. IInv => OneDirectoryEach
  BY DEF IInv, IdentitiesFresh, OneDirectoryEach
<1>2. QED
  BY <1>1, SaveProfileInvariant, PTL

\* Only rows that were there are updated: an operation enters the journal by an
\* insertion.
LEMMA PersistInsertsNothing ==
  ASSUME LedgerInv, NEW o, NEW status, CanSay(o, status), persist_result(o, status),
         NEW q \in Ops, rows[q] = None
  PROVE  rows'[q] = None
<1>1. CASE UNCHANGED ledger
  BY <1>1 DEF ledger
<1>2. CASE update(o, status)
  <2>1. o \in Recorded /\ status \in Open \cup Final /\ q # o
    BY DEF CanSay, Recorded
  <2>2. rows'[q] = rows[q]
    BY <1>2, <2>1, UpdateEffect DEF LedgerInv
  <2>3. QED
    BY <2>2
<1>3. QED
  BY <1>1, <1>2 DEF persist_result

\* An inserted row says of what kind it is.
LEMMA InsertedKind ==
  ASSUME IInv, NEW o \in Ops, NEW kind \in CallKinds, NEW p \in Profiles \cup {None},
         o \notin Recorded, insert(o, kind, p), NEW q \in Ops, rows[q] = None,
         rows'[q] # None
  PROVE  q = o /\ rows'[q].kind = kind
<1>1. /\ \A x \in Ops : x # o => rows'[x] = rows[x]
      /\ rows'[o].kind = kind
  BY InsertEffect DEF IInv, LedgerInv
<1>2. QED
  BY <1>1

\* A creation enters the ledger only while its directory is there with the
\* provenance of this operation: the last thing done before SubmitCreation was
\* to write or to read it, and no crash or removal is between the two.
LEMMA CreationBackedStep ==
  ASSUME IInv, [Next]_vars, NEW o \in Ops, rows[o] = None, rows'[o] # None,
         rows'[o].kind = "create"
  PROVE  Directory(o) = o
<1>1. ASSUME NEW q \in Ops, Read(q)
      PROVE  FALSE
  <2>1. "read" \in CallKinds /\ None \in Profiles \cup {None}
    BY DEF CallKinds
  <2>2. q \notin Recorded /\ insert(q, "read", None)
    BY <1>1 DEF Read, CanSubmit
  <2>3. QED
    BY <2>1, <2>2, InsertedKind
<1>2. ASSUME NEW q \in Ops, NEW p \in Profiles, Select(q, p)
      PROVE  FALSE
  <2>1. "select" \in CallKinds /\ p \in Profiles \cup {None}
    BY DEF CallKinds
  <2>2. q \notin Recorded /\ insert(q, "select", p)
    BY <1>2 DEF Select, CanSubmit
  <2>3. QED
    BY <2>1, <2>2, InsertedKind
<1>3. CASE SubmitCreation
  <2>1. call.at = "submit" /\ call.op \in Ops /\ Directory(call.op) = call.op
    BY <1>3 DEF SubmitCreation, IInv, CallSound
  <2>2. CASE CanSubmit(call.op)
    <3>1. PICK q \in Ops : q = call.op
      BY <2>1
    <3>2. "create" \in CallKinds /\ None \in Profiles \cup {None}
      BY DEF CallKinds
    <3>3. q \notin Recorded /\ insert(q, "create", None)
      BY <1>3, <2>2, <3>1 DEF SubmitCreation, CanSubmit
    <3>4. o = q
      BY <3>2, <3>3, InsertedKind
    <3>5. QED
      BY <2>1, <3>1, <3>4
  <2>3. CASE ~CanSubmit(call.op)
    BY <1>3, <2>3 DEF SubmitCreation
  <2>4. QED
    BY <2>2, <2>3
<1>4. CASE Forward
  <2>1. PICK q : q = call.op
    OBVIOUS
  <2>2. q \in Recorded /\ rows[q].status = "Accepted" /\ writes[q] = 0
    BY <1>4, <2>1 DEF Forward, IInv, CallSound
  <2>3. CanSay(q, rejected_result)
    BY <2>2 DEF CanSay, rejected_result, Open, Final
  <2>4. UNCHANGED ledger \/ persist_result(q, rejected_result)
    BY <1>4, <2>1 DEF Forward
  <2>5. QED
    BY <2>3, <2>4, PersistInsertsNothing DEF IInv, ledger
<1>5. CASE Answered \/ AnswerLost
  <2>1. PICK q : q = call.op
    OBVIOUS
  <2>2. q \in Recorded /\ rows[q].status \in Open
    BY <1>5, <2>1 DEF Answered, AnswerLost, IInv, CallSound, Open
  <2>3. PICK status : CanSay(q, status) /\ persist_result(q, status)
    BY <1>5, <2>1, <2>2, AnswerIsTrue DEF Answered, AnswerLost, IInv
  <2>4. QED
    BY <2>3, PersistInsertsNothing DEF IInv
<1>6. ASSUME NEW q \in Ops, Reconcile(q) \/ CallerDisconnected(q)
      PROVE  FALSE
  <2>1. q \in Recorded /\ rows[q].status \in Open
    BY <1>6 DEF Reconcile, CallerDisconnected
  <2>2. PICK status : CanSay(q, status) /\ persist_result(q, status)
    BY <1>6, <2>1, AnswerIsTrue DEF Reconcile, CallerDisconnected, IInv
  <2>3. QED
    BY <2>2, PersistInsertsNothing DEF IInv
<1>7. CASE UNCHANGED rows
  BY <1>7
<1>8. ASSUME NEW q \in Ops,
             \/ Reserve(q) \/ ModDecides(q)
             \/ \E retry \in BOOLEAN : ReconcileAllocation(q, retry)
      PROVE  UNCHANGED rows
  BY <1>8 DEF Reserve, ModDecides, ReconcileAllocation, ledger
<1>9. ASSUME \/ CreateReserved \/ create_new \/ Restart \/ set_authority
             \/ \E i \in Identities : DirectoryLost(i)
      PROVE  UNCHANGED rows
  BY <1>9 DEF CreateReserved, create_new, Restart, set_authority, DirectoryLost, ledger
<1>10. CASE UNCHANGED vars
  BY <1>10 DEF vars, ledger
<1>11. QED
  BY <1>1, <1>2, <1>3, <1>4, <1>5, <1>6, <1>7, <1>8, <1>9, <1>10 DEF Next

\* A recorded creation has its directory, with the provenance of its operation.
THEOREM CreationBackedTheorem == Spec => CreationBacked
<1>1. IInv /\ [Next]_vars =>
        [\A o \in Ops : rows[o] = None /\ rows'[o] # None /\ rows'[o].kind = "create"
           => Directory(o) = o]_vars
  BY CreationBackedStep
<1>2. QED
  BY <1>1, SaveProfileInvariant, PTL DEF Spec, CreationBacked

-----------------------------------------------------------------------------
(* The refinement: the exchange with the mod is the abstract write, a       *)
(* stored final status the abstract answer, the mod's decision its own.     *)

\* A stored result that is final is an answer the promise allows; any other
\* leaves the answers as they were.
LEMMA PersistRefines ==
  ASSUME LedgerInv, NEW o, NEW status, CanSay(o, status),
         persist_result(o, status), UNCHANGED mod
  PROVE  [Once!Next]_(Once!vars)
<1>1. o \in Ops /\ writes' = writes /\ effect' = effect
  BY DEF CanSay, Recorded, mod
<1>2. CASE answers' = answers
  BY <1>1, <1>2 DEF Once!vars
<1>3. CASE answers' # answers
  <2>1. answers' = [answers EXCEPT ![o] = @ \cup ({status} \cap Final)]
    BY <1>3 DEF persist_result, ledger
  <2>2. CASE status \in Final
    <3>1. answers' = [answers EXCEPT ![o] = @ \cup {status}] /\ status \in {"Settled", "Rejected"}
      <4>1. {status} \cap Final = {status}
        BY <2>2
      <4>2. QED
        BY <2>1, <2>2, <4>1 DEF Final
    <3>2. Once!Answer(o, status)
      BY <1>1, <3>1 DEF Once!Answer, Once!Truthful, CanSay
    <3>3. QED
      BY <1>1, <3>1, <3>2 DEF Once!Next
  <2>3. CASE status \notin Final
    <3>1. answers[o] \cup ({status} \cap Final) = answers[o]
      BY <2>3
    <3>2. answers' = answers
      BY <1>1, <2>1, <3>1 DEF LedgerInv, LedgerTyped
    <3>3. QED
      BY <1>3, <3>2
  <2>4. QED
    BY <2>2, <2>3
<1>4. QED
  BY <1>2, <1>3

\* The exchange is the first write of its operation, and none was refused.
LEMMA ForwardRefines ==
  ASSUME IInv, Forward
  PROVE  [Once!Next]_(Once!vars)
<1>1. PICK o \in Ops : o = call.op
  BY DEF Forward, IInv, CallSound
<1>2. o \in Recorded /\ rows[o].status = "Accepted" /\ writes[o] = 0
  BY <1>1 DEF Forward, IInv, CallSound
<1>3. CASE exchange(o) /\ UNCHANGED ledger
  <2>1. "Rejected" \notin answers[o]
    BY <1>2 DEF IInv, LedgerInv, AnswersAreRows
  <2>2. writes' = [writes EXCEPT ![o] = 1]
    BY <1>2, <1>3 DEF exchange, IInv, LedgerInv, LedgerTyped
  <2>3. Once!Write(o)
    BY <1>2, <1>3, <2>1, <2>2 DEF Once!Write, exchange, ledger
  <2>4. QED
    BY <2>3 DEF Once!Next
<1>4. CASE persist_result(o, rejected_result) /\ UNCHANGED mod
  <2>1. CanSay(o, rejected_result)
    BY <1>2 DEF CanSay, rejected_result, Open, Final
  <2>2. QED
    BY <1>4, <2>1, PersistRefines DEF IInv
<1>5. QED
  BY <1>1, <1>3, <1>4 DEF Forward

LEMMA AnswerRefines ==
  ASSUME IInv, Answered \/ AnswerLost
  PROVE  [Once!Next]_(Once!vars)
<1>1. PICK o : o = call.op
  OBVIOUS
<1>2. o \in Recorded /\ rows[o].status \in Open /\ UNCHANGED mod
  BY <1>1 DEF Answered, AnswerLost, IInv, CallSound, Open
<1>3. PICK status : CanSay(o, status) /\ persist_result(o, status)
  BY <1>1, <1>2, AnswerIsTrue DEF Answered, AnswerLost, IInv
<1>4. QED
  BY <1>2, <1>3, PersistRefines DEF IInv

LEMMA LookupRefines ==
  ASSUME IInv, NEW o \in Ops, Reconcile(o) \/ CallerDisconnected(o)
  PROVE  [Once!Next]_(Once!vars)
<1>1. o \in Recorded /\ rows[o].status \in Open /\ UNCHANGED mod
  BY DEF Reconcile, CallerDisconnected
<1>2. PICK status : CanSay(o, status) /\ persist_result(o, status)
  BY <1>1, AnswerIsTrue DEF Reconcile, CallerDisconnected, IInv
<1>3. QED
  BY <1>1, <1>2, PersistRefines DEF IInv

LEMMA ModDecidesRefines ==
  ASSUME IInv, NEW o \in Ops, ModDecides(o)
  PROVE  [Once!Next]_(Once!vars)
<1>1. writes[o] = 1 /\ effect[o] = "none" /\ writes' = writes /\ answers' = answers
  BY DEF ModDecides, IInv, LedgerInv, SentIsRecorded, ledger
<1>2. PICK e \in {"done", "refused"} : effect' = [effect EXCEPT ![o] = e]
  BY DEF ModDecides
<1>3. Once!Decide(o, e) /\ e \in Once!Effect \ {"none"}
  BY <1>1, <1>2 DEF Once!Decide, Once!Effect
<1>4. QED
  BY <1>3 DEF Once!Next

LEMMA StepRefines ==
  ASSUME IInv, [Next]_vars
  PROVE  [Once!Next]_(Once!vars)
<1>1. ASSUME UNCHANGED <<writes, effect, answers>>
      PROVE  [Once!Next]_(Once!vars)
  BY <1>1 DEF Once!vars
<1>2. ASSUME NEW o \in Ops,
             \/ Read(o) \/ Reserve(o)
             \/ \E p \in Profiles : Select(o, p)
             \/ \E retry \in BOOLEAN : ReconcileAllocation(o, retry)
      PROVE  UNCHANGED <<writes, effect, answers>>
  BY <1>2 DEF Read, Reserve, Select, ReconcileAllocation, ledger, mod
<1>3. ASSUME \/ SubmitCreation \/ CreateReserved \/ create_new \/ Restart \/ set_authority
             \/ \E i \in Identities : DirectoryLost(i)
      PROVE  UNCHANGED <<writes, effect, answers>>
  BY <1>3 DEF SubmitCreation, CreateReserved, create_new, Restart, set_authority,
     DirectoryLost, ledger, mod
<1>4. CASE UNCHANGED vars
  BY <1>1, <1>4 DEF vars, ledger, mod
<1>5. QED
  BY <1>1, <1>2, <1>3, <1>4, ForwardRefines, AnswerRefines, LookupRefines,
     ModDecidesRefines DEF Next

\* The ledger implements the at-most-once promise.
THEOREM SaveProfileRefinement == Spec => ImplementsAtMostOnce
<1>1. Init => Once!Init
  BY DEF Init, Once!Init
<1>2. IInv /\ [Next]_vars => [Once!Next]_(Once!vars)
  BY StepRefines
<1>3. QED
  BY <1>1, <1>2, SaveProfileInvariant, PTL DEF Spec, Once!Spec, ImplementsAtMostOnce

-----------------------------------------------------------------------------
(* The rest-action forwarder.                                               *)

RestTyped ==
  /\ operation_bindings \in [Operations -> Bindings \cup {Nothing}]
  /\ selector_admissions \in [Sels -> Catalogs \cup {Nothing}]
  /\ selector_reservations \subseteq Bound
  /\ held_lease \in Nat /\ used \subseteq Operations
  /\ game \in [gen : Nat, sel : Sels \cup {Nothing}, chosen : Nat]
  /\ receipts \in [Operations -> Receipts \cup {Nothing}]
  /\ closed \in [Sels -> Catalogs \cup {Nothing}]

\* The dispatch under way is bound; an identifier is used for one operation.
CallBound ==
  /\ dispatch = NoDispatch \/ /\ dispatch.op \in Bound
                              /\ dispatch.request = operation_bindings[dispatch.op].request
  /\ Bound \subseteq used
  /\ \A p \in Operations : receipts[p] # Nothing => p \in used

Known == {p \in Operations : receipts[p] # Nothing}
Settled(kind) ==
  {p \in Known : receipts[p].status = "Settled" /\ receipts[p].kind = kind}
SettledAny == {p \in Known : receipts[p].status = "Settled"}

\* A request names a generation and a lease that were, and a selection if it is
\* an action of one.
Past(r) == /\ r.gen <= game.gen /\ r.lease <= held_lease
           /\ r.kind \in {"select", "confirm", "cancel"} => r.sel \in Sels

\* What the mod answers is what it did, one step of the game for each.
ReceiptTrue(v) ==
  /\ Past(v.request)
  /\ v.status = "Cancelled" => v.request.kind = "cancel"
  /\ v.status = "Settled" => v.after = v.request.gen + 1 /\ v.after <= game.gen
  /\ v.status = "Settled" =>
       \/ v.kind = "requested" /\ v.request.kind = "smith" /\ v.sel \in Sels /\ v.chosen = 0
       \/ v.kind = "option" /\ v.request.kind = "heal"
       \/ /\ v.kind = "progressed" /\ v.request.kind = "select"
          /\ v.sel \in Sels /\ v.sel = v.request.sel
       \/ /\ v.kind = "completed" /\ v.request.kind \in {"select", "confirm"}
          /\ v.sel \in Sels /\ v.sel = v.request.sel /\ v.chosen = Required
  /\ v.status = "Settled" /\ v.kind \in {"requested", "progressed"} /\ v.after = game.gen =>
       game.sel = v.sel /\ game.chosen = v.chosen
ReceiptsTrue ==
  /\ \A p \in Known : ReceiptTrue(receipts[p])
  /\ \A p, q \in SettledAny : receipts[p].request.gen = receipts[q].request.gen => p = q

\* A catalog under s is one of the game's past, or what the game shows now.
CatalogTrue(s, c) ==
  /\ c.gen <= game.gen /\ c.lease <= held_lease
  /\ c.gen = game.gen => game.sel = s /\ game.chosen = c.chosen

\* A mark of a completion that is as new as the catalog.
Covers(mark, s, c) ==
  mark # Nothing /\ mark.sel = s /\ mark.catalog.lease = c.lease /\ mark.catalog.gen >= c.gen

\* What a binding says of its operation p.
BindingTrue(p, b) ==
  /\ Past(b.request)
  /\ p \in Known => receipts[p].request = b.request
  /\ b.request.kind \in {"smith", "heal"} => b.request.sel = Nothing
  /\ b.request.kind = "heal" => b.context = Nothing
  /\ b.request.kind \in {"select", "confirm", "cancel"} =>
       /\ b.context # Nothing
       /\ b.context.sel = b.request.sel /\ b.context.catalog.gen = b.request.gen
  /\ b.context # Nothing => /\ b.context.catalog.lease = b.request.lease
                            /\ CatalogTrue(b.context.sel, b.context.catalog)
  /\ b.completed # Nothing => /\ b.context # Nothing /\ b.completed.sel = b.context.sel
                              /\ b.completed.catalog.lease = b.context.catalog.lease
                              /\ b.completed.catalog.gen < game.gen

\* The context of a binding is the catalog its answer is about.
ContextFits(p, b) ==
  /\ b.request.kind = "smith" /\ b.context # Nothing =>
       /\ p \in Settled("requested") /\ receipts[p].sel = b.context.sel
       /\ receipts[p].after = b.context.catalog.gen /\ b.context.catalog.chosen = 0
  /\ p \in Settled("progressed") => b.context.catalog.chosen + 1 = receipts[p].chosen
  /\ p \in Settled("completed") => b.context.catalog.chosen <= receipts[p].chosen

\* Under the current lease a selection that was seen is admitted, or marked.
SeenOrMarked(b) ==
  b.context # Nothing /\ b.context.catalog.lease = held_lease =>
    LET s == b.context.sel
    IN \/ /\ selector_admissions[s] # Nothing /\ selector_admissions[s].lease = held_lease
          /\ selector_admissions[s].gen >= b.context.catalog.gen
       \/ Covers(b.completed, s, b.context.catalog)

\* A request for a selection whose answer has not been accepted, and which the
\* mod has not refused.
Awaiting(p) ==
  /\ p \in Bound /\ operation_bindings[p].request.kind = "smith"
  /\ operation_bindings[p].request.lease = held_lease /\ operation_bindings[p].context = Nothing
  /\ ~(p \in Known /\ receipts[p].status = "Rejected")

\* The mod has opened the selection of p, and the forwarder has not seen it.
Unseen(p) == Awaiting(p) /\ p \in SettledAny

BindingsTrue ==
  \A p \in Bound : /\ BindingTrue(p, operation_bindings[p])
                   /\ ContextFits(p, operation_bindings[p])
                   /\ SeenOrMarked(operation_bindings[p])

AwaitingReserved == \A p \in Operations : Awaiting(p) => p \in selector_reservations

\* Nobody can act on a selection that the forwarder has not seen: the game
\* stands still.
UnseenStands ==
  \A p \in Operations : Unseen(p) =>
    /\ receipts[p].after = game.gen /\ receipts[p].sel \notin Admitted
    /\ \A q \in Bound : ~(/\ operation_bindings[q].request.sel = receipts[p].sel
                          /\ operation_bindings[q].request.gen = game.gen)
    /\ \A q \in Known : receipts[q].status = "Accepted" =>
         ~(/\ receipts[q].request.sel = receipts[p].sel
           /\ receipts[q].request.gen = game.gen)

AdmissionsTrue ==
  \A s \in Admitted : CatalogTrue(s, selector_admissions[s])

\* What is admitted is newer than every mark and the last completion; a marked
\* generation ended in a completion.
MarksOlder ==
  /\ \A p \in Bound : operation_bindings[p].completed # Nothing =>
       LET m == operation_bindings[p].completed
       IN /\ m.sel \in Admitted /\ selector_admissions[m.sel].lease = m.catalog.lease =>
               selector_admissions[m.sel].gen > m.catalog.gen
          /\ \A q \in Settled("progressed") : m.catalog.gen # receipts[q].request.gen
  /\ \A s \in Sels : closed[s] # Nothing =>
       /\ closed[s].gen < game.gen
       /\ s \in Admitted /\ selector_admissions[s].lease = closed[s].lease =>
            selector_admissions[s].gen > closed[s].gen

Promised ==
  /\ Cardinality(Admitted) + Cardinality(selector_reservations)
       <= MAX_SELECTOR_ADMISSIONS
  /\ \A p \in selector_reservations : /\ operation_bindings[p].request.kind = "smith"
                                      /\ ~is_terminal(operation_bindings[p].status)

RestInv ==
  /\ RestTyped /\ CallBound /\ ReceiptsTrue /\ BindingsTrue /\ AwaitingReserved
  /\ UnseenStands /\ AdmissionsTrue /\ MarksOlder /\ Promised

-----------------------------------------------------------------------------
(* What is remembered.                                                      *)

\* What a binding holds.
LEMMA BindingTyped ==
  ASSUME RestTyped, NEW p \in Bound
  PROVE  /\ p \in Operations /\ operation_bindings[p] \in Bindings
         /\ operation_bindings[p].request \in RequestSet
         /\ operation_bindings[p].request.kind \in Kinds
         /\ operation_bindings[p].request.sel \in Sels \cup {Nothing}
         /\ operation_bindings[p].request.gen \in Nat
         /\ operation_bindings[p].request.lease \in Nat
         /\ operation_bindings[p].status \in Statuses
         /\ operation_bindings[p].context \in Contexts \cup {Nothing}
         /\ operation_bindings[p].completed \in Contexts \cup {Nothing}
<1>1. p \in Operations /\ operation_bindings[p] \in Bindings
  BY DEF RestTyped, Bound
<1>2. /\ operation_bindings[p].request \in RequestSet
      /\ operation_bindings[p].status \in Statuses
      /\ operation_bindings[p].context \in Contexts \cup {Nothing}
      /\ operation_bindings[p].completed \in Contexts \cup {Nothing}
  BY <1>1 DEF Bindings
<1>3. QED
  BY <1>1, <1>2 DEF RequestSet

\* A selection and its catalog.
LEMMA ContextTyped ==
  ASSUME NEW c \in Contexts \cup {Nothing}, c # Nothing
  PROVE  /\ c.sel \in Sels /\ c.catalog \in Catalogs /\ c.catalog.gen \in Nat
         /\ c.catalog.lease \in Nat /\ c.catalog.chosen \in Nat
<1>1. c.sel \in Sels /\ c.catalog \in Catalogs
  BY DEF Contexts
<1>2. QED
  BY <1>1 DEF Catalogs

\* What the mod answers.
LEMMA ReceiptTyped ==
  ASSUME RestTyped, NEW p \in Known
  PROVE  /\ p \in Operations /\ receipts[p] \in Receipts
         /\ receipts[p].request \in RequestSet
         /\ receipts[p].request.kind \in Kinds
         /\ receipts[p].request.sel \in Sels \cup {Nothing}
         /\ receipts[p].request.gen \in Nat /\ receipts[p].request.lease \in Nat
         /\ receipts[p].status \in {"Accepted", "Settled", "Rejected", "Cancelled"}
         /\ receipts[p].kind \in {"requested", "progressed", "completed", "option", "none"}
         /\ receipts[p].sel \in Sels \cup {Nothing}
         /\ receipts[p].after \in Nat /\ receipts[p].chosen \in Nat
<1>1. p \in Operations /\ receipts[p] \in Receipts
  BY DEF RestTyped, Known
<1>2. receipts[p].request \in RequestSet
  BY <1>1 DEF Receipts
<1>3. QED
  BY <1>1, <1>2 DEF Receipts, RequestSet

\* The catalogs that are current.
LEMMA AdmissionTyped ==
  ASSUME RestTyped, NEW s \in Admitted
  PROVE  /\ s \in Sels /\ selector_admissions[s] \in Catalogs
         /\ selector_admissions[s].gen \in Nat /\ selector_admissions[s].lease \in Nat
         /\ selector_admissions[s].chosen \in Nat
BY DEF RestTyped, Admitted, Catalogs

\* The game and the lease.
LEMMA GameTyped ==
  ASSUME RestTyped
  PROVE  /\ game.gen \in Nat /\ game.sel \in Sels \cup {Nothing} /\ game.chosen \in Nat
         /\ held_lease \in Nat
BY DEF RestTyped

\* The bindings, admissions and reservations are finitely many.
LEMMA MemoryFinite ==
  ASSUME RestTyped
  PROVE  /\ IsFiniteSet(Bound) /\ Cardinality(Bound) \in Nat
         /\ IsFiniteSet(Admitted) /\ Cardinality(Admitted) \in Nat
         /\ IsFiniteSet(selector_reservations) /\ Cardinality(selector_reservations) \in Nat
         /\ MAX_SELECTOR_ADMISSIONS \in Nat
<1>1. /\ IsFiniteSet(Operations) /\ IsFiniteSet(Sels) /\ MAX_SELECTOR_ADMISSIONS \in Nat
  BY RestActionConfig
<1>2. Bound \subseteq Operations /\ Admitted \subseteq Sels
  BY DEF Bound, Admitted
<1>3. selector_reservations \subseteq Operations
  BY <1>2 DEF RestTyped
<1>4. IsFiniteSet(Bound) /\ IsFiniteSet(Admitted) /\ IsFiniteSet(selector_reservations)
  BY <1>1, <1>2, <1>3, FS_Subset
<1>5. QED
  BY <1>1, <1>4, FS_CardinalityType

\* What a change of a status makes of bindings.
LEMMA WithStatusEffect ==
  ASSUME NEW f \in [Operations -> Bindings \cup {Nothing}], NEW o \in Operations,
         f[o] \in Bindings, NEW st \in Statuses,
         NEW g, g = WithStatus(f, o, st)
  PROVE  /\ g \in [Operations -> Bindings \cup {Nothing}] /\ g[o] \in Bindings
         /\ g[o].request = f[o].request /\ g[o].context = f[o].context
         /\ g[o].completed = f[o].completed /\ g[o].status = st
         /\ \A p \in Operations : p # o => g[p] = f[p]
<1>1. PICK n : n = [f[o] EXCEPT !.status = st]
  OBVIOUS
<1>2. /\ n \in Bindings /\ n.request = f[o].request
      /\ n.context = f[o].context /\ n.completed = f[o].completed /\ n.status = st
  BY <1>1 DEF Bindings
<1>3. g = [f EXCEPT ![o] = n]
  BY <1>1, Zenon DEF WithStatus
<1>4. QED
  BY <1>2, <1>3

LEMMA StatusEffect ==
  ASSUME RestTyped, NEW o \in Bound, NEW st \in Statuses,
         operation_bindings' = WithStatus(operation_bindings, o, st)
  PROVE  /\ operation_bindings' \in [Operations -> Bindings \cup {Nothing}]
         /\ Bound' = Bound
         /\ \A p \in Bound :
              /\ operation_bindings'[p].request = operation_bindings[p].request
              /\ operation_bindings'[p].context = operation_bindings[p].context
              /\ operation_bindings'[p].completed = operation_bindings[p].completed
              /\ p # o => operation_bindings'[p] = operation_bindings[p]
         /\ operation_bindings'[o].status = st
<1>1. /\ o \in Operations /\ operation_bindings[o] \in Bindings
      /\ operation_bindings \in [Operations -> Bindings \cup {Nothing}]
  BY BindingTyped DEF RestTyped
<1>2. /\ operation_bindings' \in [Operations -> Bindings \cup {Nothing}]
      /\ operation_bindings'[o] \in Bindings
      /\ operation_bindings'[o].request = operation_bindings[o].request
      /\ operation_bindings'[o].context = operation_bindings[o].context
      /\ operation_bindings'[o].completed = operation_bindings[o].completed
      /\ operation_bindings'[o].status = st
      /\ \A p \in Operations : p # o => operation_bindings'[p] = operation_bindings[p]
  BY <1>1, WithStatusEffect
<1>3. operation_bindings'[o] # Nothing
  BY <1>2, NothingIsNoEntry
<1>4. Bound' = Bound
  BY <1>2, <1>3 DEF Bound
<1>5. QED
  BY <1>2, <1>4 DEF Bound

\* Fewer reservations are no more than were promised.
LEMMA FewerPromised ==
  ASSUME RestTyped, Promised, NEW A, NEW R,
         A \subseteq Admitted, R \subseteq selector_reservations
  PROVE  Cardinality(A) + Cardinality(R) <= MAX_SELECTOR_ADMISSIONS
<1>1. /\ IsFiniteSet(Admitted) /\ IsFiniteSet(selector_reservations)
      /\ Cardinality(Admitted) \in Nat /\ Cardinality(selector_reservations) \in Nat
      /\ MAX_SELECTOR_ADMISSIONS \in Nat
  BY MemoryFinite
<1>2. IsFiniteSet(A) /\ Cardinality(A) <= Cardinality(Admitted)
  BY <1>1, FS_Subset
<1>3. IsFiniteSet(R) /\ Cardinality(R) <= Cardinality(selector_reservations)
  BY <1>1, FS_Subset
<1>4. Cardinality(A) \in Nat /\ Cardinality(R) \in Nat
  BY <1>2, <1>3, FS_CardinalityType
<1>5. Cardinality(Admitted) + Cardinality(selector_reservations)
        <= MAX_SELECTOR_ADMISSIONS
  BY DEF Promised
<1>6. QED
  BY <1>1, <1>2, <1>3, <1>4, <1>5

\* A change of a status, with or without the operation's reservation.
LEMMA StatusSound ==
  ASSUME RestInv, NEW o \in Bound, NEW st \in Statuses,
         operation_bindings' = WithStatus(operation_bindings, o, st),
         \/ selector_reservations' = selector_reservations /\ ~is_terminal(st)
         \/ selector_reservations' = selector_reservations \ {o} /\ ~Awaiting(o),
         dispatch' = dispatch \/ dispatch' = NoDispatch,
         UNCHANGED <<selector_admissions, held_lease, game, receipts, closed, used>>
  PROVE  RestInv'
<1> USE DEF RestInv
<1>1. /\ operation_bindings' \in [Operations -> Bindings \cup {Nothing}]
      /\ Bound' = Bound
      /\ operation_bindings'[o].status = st
  BY StatusEffect
<1>2. \A p \in Bound :
        /\ operation_bindings'[p].request = operation_bindings[p].request
        /\ operation_bindings'[p].context = operation_bindings[p].context
        /\ operation_bindings'[p].completed = operation_bindings[p].completed
        /\ p # o => operation_bindings'[p] = operation_bindings[p]
  BY StatusEffect
<1>3. /\ selector_admissions' = selector_admissions /\ held_lease' = held_lease /\ game' = game
      /\ receipts' = receipts /\ closed' = closed /\ used' = used
      /\ Known' = Known
  BY DEF Known
<1>4. Admitted' = Admitted
  BY DEF Admitted
<1>5. selector_reservations' \subseteq selector_reservations
  OBVIOUS
<1>6. RestTyped'
  BY <1>1, <1>3, <1>5 DEF RestTyped
<1>7. CallBound'
  BY <1>1, <1>2, <1>3 DEF CallBound
<1>8. ReceiptsTrue'
  BY <1>3 DEF ReceiptsTrue, ReceiptTrue, Past, SettledAny
<1>9. \A p \in Bound : BindingTrue(p, operation_bindings[p])'
  BY <1>2, <1>3 DEF BindingsTrue, BindingTrue, Past, CatalogTrue
<1>10. \A p \in Bound : ContextFits(p, operation_bindings[p])'
  BY <1>2, <1>3 DEF BindingsTrue, ContextFits, Settled
<1>11. \A p \in Bound : SeenOrMarked(operation_bindings[p])'
  BY <1>2, <1>3 DEF BindingsTrue, SeenOrMarked, Covers
<1>12. BindingsTrue'
  BY <1>1, <1>9, <1>10, <1>11 DEF BindingsTrue
<1>13. \A p \in Operations : Awaiting(p)' <=> Awaiting(p)
  BY <1>1, <1>2, <1>3 DEF Awaiting
<1>14. AwaitingReserved'
  BY <1>13 DEF AwaitingReserved
<1>15. UnseenStands'
  BY <1>1, <1>2, <1>3, <1>4, <1>13 DEF UnseenStands, Unseen, SettledAny
<1>16. AdmissionsTrue'
  BY <1>3, <1>4 DEF AdmissionsTrue, CatalogTrue
<1>17. MarksOlder'
  BY <1>1, <1>2, <1>3, <1>4 DEF MarksOlder, Settled
<1>18. \A p \in selector_reservations' :
         /\ operation_bindings'[p].request.kind = "smith"
         /\ ~is_terminal(operation_bindings'[p].status)
  BY <1>1, <1>2, <1>5 DEF Promised, RestTyped
<1>19. Cardinality(Admitted) + Cardinality(selector_reservations')
         <= MAX_SELECTOR_ADMISSIONS
  BY <1>5, FewerPromised
<1>20. Promised'
  BY <1>4, <1>18, <1>19 DEF Promised
<1>21. QED
  BY <1>6, <1>7, <1>8, <1>12, <1>14, <1>15, <1>16, <1>17, <1>20

\* A step of the call alone.
LEMMA CallSteps ==
  ASSUME RestInv, UNCHANGED memory,
         UNCHANGED <<held_lease, game, receipts, closed, used>>,
         CallBound'
  PROVE  RestInv'
<1> USE DEF RestInv, memory
<1>1. /\ operation_bindings' = operation_bindings
      /\ selector_admissions' = selector_admissions
      /\ selector_reservations' = selector_reservations
      /\ held_lease' = held_lease /\ game' = game
      /\ receipts' = receipts /\ closed' = closed /\ used' = used
  OBVIOUS
<1>2. Known' = Known /\ Bound' = Bound /\ Admitted' = Admitted
  BY <1>1 DEF Known, Bound, Admitted
<1>3. RestTyped'
  BY <1>1, <1>2 DEF RestTyped
<1>4. ReceiptsTrue'
  BY <1>1, <1>2 DEF ReceiptsTrue, ReceiptTrue, Past, SettledAny
<1>5. BindingsTrue'
  BY <1>1, <1>2 DEF BindingsTrue, BindingTrue, Past, CatalogTrue, ContextFits, Settled,
                    SeenOrMarked, Covers
<1>6. AwaitingReserved' /\ UnseenStands'
  BY <1>1, <1>2 DEF AwaitingReserved, Awaiting, UnseenStands, Unseen, SettledAny
<1>7. AdmissionsTrue' /\ MarksOlder' /\ Promised'
  BY <1>1, <1>2 DEF AdmissionsTrue, CatalogTrue, MarksOlder, Settled, Promised
<1>8. QED
  BY <1>3, <1>4, <1>5, <1>6, <1>7

\* ResponseLost
LEMMA ResponseLostKeeps ==
  ASSUME RestInv, ResponseLost
  PROVE  RestInv'
<1>1. /\ UNCHANGED memory /\ UNCHANGED <<held_lease, game, receipts, closed, used>>
      /\ dispatch' = NoDispatch
  BY DEF ResponseLost
<1>2. CallBound'
  BY <1>1 DEF RestInv, CallBound, memory, Bound, NoDispatch
<1>3. QED
  BY <1>1, <1>2, CallSteps

\* UnknownAnswer
LEMMA UnknownAnswerKeeps ==
  ASSUME RestInv, NEW o \in Operations, UnknownAnswer(o)
  PROVE  RestInv'
<1>1. o \in Bound /\ "Unknown" \in Statuses /\ ~is_terminal("Unknown")
  BY DEF UnknownAnswer, Statuses, is_terminal
<1>2. QED
  BY <1>1, StatusSound DEF UnknownAnswer

\* NewLease: what was current under the lease is not any more.
LEMMA NewLeaseKeeps ==
  ASSUME RestInv, NewLease
  PROVE  RestInv'
<1> USE DEF RestInv
<1>1. /\ operation_bindings' = operation_bindings
      /\ selector_admissions' = selector_admissions
      /\ selector_reservations' = selector_reservations
      /\ held_lease' = held_lease + 1 /\ game' = game /\ dispatch' = dispatch
      /\ receipts' = receipts /\ closed' = closed /\ used' = used
  BY DEF NewLease, memory
<1>2. Known' = Known /\ Bound' = Bound /\ Admitted' = Admitted
  BY <1>1 DEF Known, Bound, Admitted
<1>3. held_lease \in Nat
  BY GameTyped
<1>4. RestTyped'
  BY <1>1, <1>2, <1>3 DEF RestTyped
<1>5. CallBound'
  BY <1>1, <1>2 DEF CallBound
<1>6. \A p \in Known : receipts[p].request.lease \in Nat
  BY ReceiptTyped
<1>7. ReceiptsTrue'
  BY <1>1, <1>2, <1>3, <1>6 DEF ReceiptsTrue, ReceiptTrue, Past, SettledAny
<1>8. \A p \in Bound :
        /\ operation_bindings[p].request.lease \in Nat
        /\ operation_bindings[p].context \in Contexts \cup {Nothing}
  BY BindingTyped
<1>9. \A p \in Bound : operation_bindings[p].context # Nothing =>
        operation_bindings[p].context.catalog.lease \in Nat
  BY <1>8, ContextTyped
<1>10. \A p \in Bound : BindingTrue(p, operation_bindings[p])'
  BY <1>1, <1>2, <1>3, <1>8, <1>9 DEF BindingsTrue, BindingTrue, Past, CatalogTrue
<1>11. \A p \in Bound : ContextFits(p, operation_bindings[p])'
  BY <1>1, <1>2 DEF BindingsTrue, ContextFits, Settled
<1>12. \A p \in Bound : SeenOrMarked(operation_bindings[p])'
  BY <1>1, <1>3, <1>9 DEF BindingsTrue, BindingTrue, CatalogTrue, SeenOrMarked
<1>13. BindingsTrue'
  BY <1>2, <1>10, <1>11, <1>12 DEF BindingsTrue
<1>14. \A p \in Operations : ~Awaiting(p)'
  BY <1>1, <1>2, <1>3, <1>8 DEF Awaiting, BindingsTrue, BindingTrue, Past
<1>15. AwaitingReserved' /\ UnseenStands'
  BY <1>14 DEF AwaitingReserved, UnseenStands, Unseen
<1>16. \A s \in Admitted : selector_admissions[s].lease \in Nat
  BY AdmissionTyped
<1>17. AdmissionsTrue'
  BY <1>1, <1>2, <1>3, <1>16 DEF AdmissionsTrue, CatalogTrue
<1>18. MarksOlder' /\ Promised'
  BY <1>1, <1>2 DEF MarksOlder, Settled, Promised
<1>19. QED
  BY <1>4, <1>5, <1>7, <1>13, <1>15, <1>17, <1>18

\* Nothing is remembered.
Forgotten ==
  /\ operation_bindings = [o \in Operations |-> Nothing]
  /\ selector_admissions = [s \in Sels |-> Nothing]
  /\ selector_reservations = {} /\ dispatch = NoDispatch /\ closed = [s \in Sels |-> Nothing]

RestOfGame ==
  /\ held_lease \in Nat /\ used \subseteq Operations
  /\ game \in [gen : Nat, sel : Sels \cup {Nothing}, chosen : Nat]
  /\ receipts \in [Operations -> Receipts \cup {Nothing}]
  /\ \A p \in Operations : receipts[p] # Nothing => p \in used

LEMMA ForgottenSound ==
  Forgotten /\ RestOfGame /\ ReceiptsTrue => RestInv
<1> SUFFICES ASSUME Forgotten, RestOfGame, ReceiptsTrue PROVE RestInv
  OBVIOUS
<1> USE DEF RestOfGame
<1>1. Bound = {} /\ Admitted = {} /\ selector_reservations = {}
  BY DEF Forgotten, Bound, Admitted
<1>2. RestTyped
  BY <1>1 DEF RestTyped, Forgotten
<1>3. CallBound
  BY <1>1 DEF CallBound, Forgotten
<1>4. BindingsTrue /\ AwaitingReserved /\ UnseenStands /\ AdmissionsTrue
  BY <1>1, Zenon DEF BindingsTrue, AwaitingReserved, UnseenStands, AdmissionsTrue, Unseen,
                     Awaiting
<1>5. \A s \in Sels : closed[s] = Nothing
  BY DEF Forgotten
<1>6. MarksOlder
  BY <1>1, <1>5, Zenon DEF MarksOlder
<1>7. Cardinality({}) = 0 /\ MAX_SELECTOR_ADMISSIONS \in Nat
  BY <1>2, MemoryFinite, FS_EmptySet
<1>8. Cardinality(Admitted) + Cardinality(selector_reservations)
        <= MAX_SELECTOR_ADMISSIONS
  BY <1>1, <1>7
<1>9. Promised
  BY <1>1, <1>8, Zenon DEF Promised
<1>10. QED
  BY <1>2, <1>3, <1>4, <1>6, <1>9, ReceiptsTrue DEF RestInv

\* Restart
LEMMA RestartForgets ==
  ASSUME RestInv, GatewayRestarts
  PROVE  RestInv'
<1>1. /\ held_lease' = held_lease + 1 /\ game' = game /\ receipts' = receipts /\ used' = used
      /\ Forgotten'
  BY DEF GatewayRestarts, Forgotten
<1>2. held_lease \in Nat
  BY GameTyped DEF RestInv
<1>3. RestOfGame'
  BY <1>1, <1>2 DEF RestInv, RestTyped, CallBound, RestOfGame
<1>4. Known' = Known
  BY <1>1 DEF Known
<1>5. \A p \in Known : receipts[p].request.lease \in Nat
  BY ReceiptTyped DEF RestInv
<1>6. ReceiptsTrue'
  BY <1>1, <1>2, <1>4, <1>5 DEF RestInv, ReceiptsTrue, ReceiptTrue, Past, SettledAny
<1>7. QED
  BY <1>1, <1>3, <1>6, ForgottenSound, PTL

\* Init
LEMMA InitRest == ASSUME RestInit PROVE RestInv
<1>1. Forgotten
  BY DEF RestInit, Forgotten
<1>2. \A p \in Operations : receipts[p] = Nothing
  BY DEF RestInit
<1>3. Known = {} /\ SettledAny = {}
  BY <1>2 DEF Known, SettledAny
<1>4. ReceiptsTrue
  BY <1>3, Zenon DEF ReceiptsTrue
<1>5. RestOfGame
  BY <1>2 DEF RestInit, RestOfGame
<1>6. QED
  BY <1>1, <1>2, <1>4, <1>5, ForgottenSound

-----------------------------------------------------------------------------
(* Requests.                                                                *)

\* What a request names, and what it is bound with.
LEMMA RequestTyped ==
  ASSUME RestTyped, NEW r \in Requests
  PROVE  /\ r \in RequestSet /\ r.kind \in Kinds /\ r.sel \in Sels \cup {Nothing}
         /\ r.gen \in Nat /\ r.gen <= game.gen /\ r.lease = held_lease
         /\ r.kind \in {"smith", "heal"} => r.sel = Nothing
         /\ r.kind \in {"select", "confirm", "cancel"} => r.sel \in Sels
<1>1. game.gen \in Nat /\ held_lease \in Nat
  BY GameTyped
<1>2. \A g \in Seen : g \in Nat /\ g <= game.gen
  BY <1>1 DEF Seen
<1>3. QED
  BY <1>1, <1>2 DEF Requests, RequestSet, Kinds

LEMMA NewBindingTyped ==
  ASSUME RestTyped, NEW r \in Requests
  PROVE  /\ NewBinding(r) \in Bindings
         /\ NewBinding(r).request = r /\ NewBinding(r).status = "Pending"
         /\ NewBinding(r).completed = Nothing
         /\ r.sel = Nothing => NewBinding(r).context = Nothing
         /\ r.sel \notin Admitted => NewBinding(r).context = Nothing
         /\ r.sel \in Admitted =>
              /\ NewBinding(r).context # Nothing
              /\ NewBinding(r).context.sel = r.sel
              /\ NewBinding(r).context.catalog = selector_admissions[r.sel]
<1> DEFINE c == IF r.sel = Nothing \/ selector_admissions[r.sel] = Nothing THEN Nothing
                ELSE [sel |-> r.sel, catalog |-> selector_admissions[r.sel]]
<1>1. r \in RequestSet /\ r.sel \in Sels \cup {Nothing}
  BY RequestTyped
<1>2. Nothing \notin Sels /\ Nothing \notin Contexts
  BY RestActionConfig, NothingIsNoEntry
<1>3. r.sel \notin Admitted => c = Nothing
  BY <1>1, <1>2 DEF Admitted
<1>4. ASSUME r.sel \in Admitted
      PROVE  /\ c \in Contexts /\ c.sel = r.sel
             /\ c.catalog = selector_admissions[r.sel]
  <2>1. /\ r.sel \in Sels /\ selector_admissions[r.sel] # Nothing
        /\ selector_admissions[r.sel] \in Catalogs
    BY <1>4, AdmissionTyped DEF Admitted
  <2>2. c = [sel |-> r.sel, catalog |-> selector_admissions[r.sel]]
    BY <1>2, <2>1
  <2>3. QED
    BY <2>1, <2>2 DEF Contexts
<1>5. NewBinding(r) = [request |-> r, status |-> "Pending", context |-> c,
                       completed |-> Nothing]
  BY Zenon DEF NewBinding
<1>6. c \in Contexts \cup {Nothing}
  BY <1>3, <1>4
<1> HIDE DEF c
<1>7. /\ NewBinding(r) \in Bindings
      /\ NewBinding(r).request = r /\ NewBinding(r).status = "Pending"
      /\ NewBinding(r).completed = Nothing /\ NewBinding(r).context = c
  BY <1>1, <1>5, <1>6 DEF Bindings, Statuses
<1>8. r.sel = Nothing => r.sel \notin Admitted
  BY <1>2 DEF Admitted
<1>9. QED
  BY <1>2, <1>3, <1>4, <1>7, <1>8

\* A new binding takes the place of none, or of one that was terminal.
LEMMA RetainEffect ==
  ASSUME RestTyped, NEW o \in Operations, o \notin Bound, NEW r \in Requests,
         retain_operation_binding(o, r)
  PROVE  /\ operation_bindings' \in [Operations -> Bindings \cup {Nothing}]
         /\ operation_bindings'[o] = NewBinding(r)
         /\ \E T \in SUBSET TerminalBound :
              /\ Bound' = (Bound \ T) \cup {o}
              /\ \A p \in Bound \ T : operation_bindings'[p] = operation_bindings[p]
<1> DEFINE n == NewBinding(r)
<1>1. n \in Bindings
  BY NewBindingTyped
<1>2. n # Nothing
  BY <1>1, NothingIsNoEntry
<1>3. CASE operation_bindings' = [operation_bindings EXCEPT ![o] = n]
  <2> HIDE DEF n
  <2>1. /\ operation_bindings' \in [Operations -> Bindings \cup {Nothing}]
        /\ operation_bindings'[o] = n
        /\ \A p \in Operations : p # o => operation_bindings'[p] = operation_bindings[p]
    BY <1>1, <1>3 DEF RestTyped
  <2>2. Bound' = (Bound \ {}) \cup {o}
    BY <1>2, <2>1 DEF Bound
  <2>3. \A p \in Bound \ {} : operation_bindings'[p] = operation_bindings[p]
    BY <2>1 DEF Bound
  <2>4. {} \in SUBSET TerminalBound
    OBVIOUS
  <2>5. QED
    BY <2>1, <2>2, <2>3, <2>4 DEF n
<1>4. CASE \E t \in TerminalBound :
             operation_bindings' = [operation_bindings EXCEPT ![t] = Nothing, ![o] = n]
  <2> HIDE DEF n
  <2>1. PICK t \in TerminalBound :
          operation_bindings' = [operation_bindings EXCEPT ![t] = Nothing, ![o] = n]
    BY <1>4
  <2>2. t \in Operations /\ t \in Bound /\ t # o
    BY DEF TerminalBound, Bound
  <2>3. PICK f : f = [operation_bindings EXCEPT ![t] = Nothing]
    OBVIOUS
  <2>4. operation_bindings' = [f EXCEPT ![o] = n]
    BY <2>1, <2>3, Zenon
  <2>5. /\ f \in [Operations -> Bindings \cup {Nothing}] /\ f[t] = Nothing
        /\ \A p \in Operations : p # t => f[p] = operation_bindings[p]
    BY <2>2, <2>3 DEF RestTyped
  <2>6. /\ operation_bindings' \in [Operations -> Bindings \cup {Nothing}]
        /\ operation_bindings'[o] = n
        /\ \A p \in Operations : p # o => operation_bindings'[p] = f[p]
    BY <1>1, <2>4, <2>5
  <2>7. Bound' = (Bound \ {t}) \cup {o}
    BY <1>2, <2>2, <2>5, <2>6 DEF Bound
  <2>8. \A p \in Bound \ {t} : operation_bindings'[p] = operation_bindings[p]
    BY <2>5, <2>6 DEF Bound
  <2>9. {t} \in SUBSET TerminalBound
    OBVIOUS
  <2>10. QED
    BY <2>6, <2>7, <2>8, <2>9 DEF n
<1>5. QED
  BY <1>3, <1>4 DEF retain_operation_binding

\* A new operation: what it is bound with is current.
LEMMA DispatchNewKeeps ==
  ASSUME RestInv, NEW o \in Operations, NEW r \in Requests,
         o \notin used, used' = used \cup {o}, action_admitted(r),
         request_needs_selector_reservation(r) => CanReserve,
         retain_operation_binding(o, r),
         selector_reservations' = selector_reservations
           \cup (IF request_needs_selector_reservation(r) THEN {o} ELSE {}),
         dispatch' = [op |-> o, request |-> r],
         UNCHANGED <<selector_admissions, held_lease, game, receipts, closed>>
  PROVE  RestInv'
<1> USE DEF RestInv
<1> DEFINE n == NewBinding(r)
<1>1. /\ o \notin Bound /\ o \notin Known
  BY DEF CallBound, Known
<1>2. /\ operation_bindings' \in [Operations -> Bindings \cup {Nothing}]
      /\ operation_bindings'[o] = n
  BY <1>1, RetainEffect
<1>3. PICK T \in SUBSET TerminalBound :
        /\ Bound' = (Bound \ T) \cup {o}
        /\ \A p \in Bound \ T : operation_bindings'[p] = operation_bindings[p]
  BY <1>1, RetainEffect
<1>4. /\ r.kind \in Kinds /\ r.gen \in Nat /\ r.gen <= game.gen /\ r.lease = held_lease
      /\ r.kind \in {"smith", "heal"} => r.sel = Nothing
      /\ r.kind \in {"select", "confirm", "cancel"} => r.sel \in Sels
  BY RequestTyped
<1>5. /\ n.request = r /\ n.status = "Pending" /\ n.completed = Nothing
      /\ r.sel = Nothing => n.context = Nothing
      /\ r.sel \notin Admitted => n.context = Nothing
      /\ r.sel \in Admitted => /\ n.context # Nothing /\ n.context.sel = r.sel
                               /\ n.context.catalog = selector_admissions[r.sel]
  BY NewBindingTyped
<1> HIDE DEF n
<1>6. /\ selector_admissions' = selector_admissions /\ held_lease' = held_lease /\ game' = game
      /\ receipts' = receipts /\ closed' = closed
  OBVIOUS
<1>7. Known' = Known /\ Admitted' = Admitted
  BY <1>6 DEF Known, Admitted
<1>8. /\ selector_reservations \subseteq Bound \ T
      /\ selector_reservations' \subseteq Bound'
  BY <1>3 DEF Promised, RestTyped, TerminalBound
<1>9. RestTyped'
  BY <1>2, <1>6, <1>8 DEF RestTyped
<1>10. CallBound'
  <2>1. dispatch'.op = o /\ dispatch'.request = r
    OBVIOUS
  <2>2. \A p \in Operations : receipts'[p] # Nothing => p \in used'
    BY <1>6 DEF CallBound
  <2>3. Bound' \subseteq used'
    BY <1>3 DEF CallBound
  <2>4. QED
    BY <1>2, <1>3, <1>5, <2>1, <2>2, <2>3 DEF CallBound
<1>11. ReceiptsTrue'
  BY <1>6, <1>7 DEF ReceiptsTrue, ReceiptTrue, Past, SettledAny
<1>12. BindingsTrue'
  <2>1. /\ r.kind \in {"select", "confirm", "cancel"} =>
             /\ r.sel \in Admitted /\ selector_admissions[r.sel].gen = r.gen
             /\ selector_admissions[r.sel].lease = r.lease
        /\ r.sel \in Admitted => CatalogTrue(r.sel, selector_admissions[r.sel])
    BY <1>4 DEF action_admitted, AdmissionsTrue
  <2>2. r.sel \in Admitted => r.kind \in {"select", "confirm", "cancel"}
    BY <1>4, RestActionConfig DEF Kinds, Admitted
  <2>3. BindingTrue(o, n)
    BY <1>1, <1>4, <1>5, <2>1, <2>2, GameTyped DEF BindingTrue, Past
  <2>4. ContextFits(o, n)
    BY <1>1, <1>4, <1>5 DEF ContextFits, Settled
  <2>5. n.context # Nothing => selector_admissions[n.context.sel].gen \in Nat
    BY <1>5, AdmissionTyped
  <2>6. SeenOrMarked(n)
    BY <1>5, <2>5 DEF SeenOrMarked, Admitted
  <2>7. \A p \in Bound' : /\ BindingTrue(p, operation_bindings'[p])
                          /\ ContextFits(p, operation_bindings'[p])
                          /\ SeenOrMarked(operation_bindings'[p])
    BY <1>2, <1>3, <2>3, <2>4, <2>6 DEF BindingsTrue
  <2>8. \A p \in Bound' : BindingTrue(p, operation_bindings[p])'
    BY <1>6, <1>7, <2>7 DEF BindingTrue, Past, CatalogTrue
  <2>9. \A p \in Bound' : ContextFits(p, operation_bindings[p])'
    BY <1>6, <1>7, <2>7 DEF ContextFits, Settled
  <2>10. \A p \in Bound' : SeenOrMarked(operation_bindings[p])'
    BY <1>6, <2>7 DEF SeenOrMarked, Covers
  <2>11. QED
    BY <2>8, <2>9, <2>10 DEF BindingsTrue
<1>13. \A p \in Operations : Awaiting(p)' =>
         \/ p = o /\ r.kind = "smith"
         \/ p # o /\ p \in Bound \ T /\ Awaiting(p)
  BY <1>2, <1>3, <1>5, <1>6, <1>7 DEF Awaiting
<1>14. AwaitingReserved'
  BY <1>13 DEF AwaitingReserved, request_needs_selector_reservation
<1>15. UnseenStands'
  <2>1. \A p \in Operations : Unseen(p)' => Unseen(p)
    BY <1>1, <1>6, <1>7, <1>13 DEF Unseen, SettledAny
  <2>2. ASSUME NEW p \in Operations, Unseen(p)
        PROVE  ~(r.sel = receipts[p].sel /\ r.gen = game.gen)
    <3>1. receipts[p].sel \notin Admitted
      BY <2>2 DEF UnseenStands
    <3>2. receipts[p].request.kind = "smith"
      BY <2>2 DEF Unseen, Awaiting, SettledAny, BindingsTrue, BindingTrue
    <3>3. receipts[p].sel \in Sels
      BY <2>2, <3>2 DEF Unseen, SettledAny, ReceiptsTrue, ReceiptTrue
    <3>4. QED
      BY <1>4, <3>1, <3>3, RestActionConfig DEF action_admitted
  <2>3. QED
    BY <1>2, <1>3, <1>5, <1>6, <1>7, <2>1, <2>2 DEF UnseenStands
<1>16. AdmissionsTrue'
  BY <1>6, <1>7 DEF AdmissionsTrue, CatalogTrue
<1>17. MarksOlder'
  BY <1>2, <1>3, <1>5, <1>6, <1>7 DEF MarksOlder, Settled
<1>18. Promised'
  <2>1. /\ IsFiniteSet(selector_reservations)
        /\ Cardinality(Admitted) \in Nat /\ Cardinality(selector_reservations) \in Nat
        /\ MAX_SELECTOR_ADMISSIONS \in Nat
    BY MemoryFinite
  <2>2. o \notin selector_reservations
    BY <1>1, <1>8
  <2>3. Cardinality(selector_reservations \cup {o}) = Cardinality(selector_reservations) + 1
    BY <2>1, <2>2, FS_AddElement
  <2>4. CanReserve =>
          Cardinality(Admitted) + Cardinality(selector_reservations)
            < MAX_SELECTOR_ADMISSIONS
    BY  DEF CanReserve
  <2>5. Cardinality(Admitted) + Cardinality(selector_reservations')
          <= MAX_SELECTOR_ADMISSIONS
    <3>1. CASE request_needs_selector_reservation(r)
      <4>1. selector_reservations' = selector_reservations \cup {o}
        BY <3>1
      <4>2. QED
        BY <2>1, <2>3, <2>4, <3>1, <4>1
    <3>2. CASE ~request_needs_selector_reservation(r)
      <4>1. selector_reservations' = selector_reservations
        BY <3>2
      <4>2. QED
        BY <4>1 DEF Promised
    <3>3. QED
      BY <3>1, <3>2
  <2>6. \A p \in selector_reservations' :
          /\ operation_bindings'[p].request.kind = "smith"
          /\ ~is_terminal(operation_bindings'[p].status)
    BY <1>2, <1>3, <1>5, <1>8
       DEF Promised, request_needs_selector_reservation, is_terminal
  <2>7. QED
    BY <1>7, <2>5, <2>6 DEF Promised
<1>19. QED
  BY <1>9, <1>10, <1>11, <1>12, <1>14, <1>15, <1>16, <1>17, <1>18

\* Dispatch
LEMMA DispatchKeeps ==
  ASSUME RestInv, NEW o \in Operations, NEW r \in Requests, Dispatch(o, r)
  PROVE  RestInv'
<1>1. CASE /\ o \in Bound /\ operation_bindings[o].request = r
           /\ UNCHANGED <<memory, used>>
  <2>1. UNCHANGED memory /\ UNCHANGED <<held_lease, game, receipts, closed, used>>
    BY <1>1 DEF Dispatch
  <2>2. dispatch'.op = o /\ dispatch'.request = r
    BY DEF Dispatch
  <2>3. CallBound'
    BY <1>1, <2>1, <2>2 DEF RestInv, CallBound, memory, Bound
  <2>4. QED
    BY <2>1, <2>3, CallSteps
<1>2. CASE ~(/\ o \in Bound /\ operation_bindings[o].request = r
             /\ UNCHANGED <<memory, used>>)
  BY <1>2, DispatchNewKeeps DEF Dispatch
<1>3. QED
  BY <1>1, <1>2

-----------------------------------------------------------------------------
(* The mod.                                                                 *)

\* An operation the mod has not finished, and its request.
ModTakes(o, r) ==
  /\ o \in used /\ r \in RequestSet /\ Past(r)
  /\ o \in Bound => operation_bindings[o].request = r
  /\ o \in Known => receipts[o].status = "Accepted" /\ receipts[o].request = r
  /\ o \in Bound \cup Known

LEMMA ReceivedTaken ==
  ASSUME RestInv, dispatch # NoDispatch, receipts[dispatch.op] = Nothing
  PROVE  ModTakes(dispatch.op, dispatch.request) /\ dispatch.op \in Bound
<1>1. /\ dispatch.op \in Bound /\ dispatch.request = operation_bindings[dispatch.op].request
      /\ Bound \subseteq used
  BY DEF RestInv, CallBound
<1>2. dispatch.request \in RequestSet
  BY <1>1, BindingTyped DEF RestInv
<1>3. Past(dispatch.request)
  BY <1>1 DEF RestInv, BindingsTrue, BindingTrue
<1>4. QED
  BY <1>1, <1>2, <1>3 DEF ModTakes, Known

LEMMA AcceptedTaken ==
  ASSUME RestInv, NEW o \in Operations, receipts[o] # Nothing,
         receipts[o].status = "Accepted"
  PROVE  ModTakes(o, receipts[o].request)
<1>1. o \in Known /\ o \in used
  BY DEF Known, RestInv, CallBound
<1>2. receipts[o].request \in RequestSet
  BY <1>1, ReceiptTyped DEF RestInv
<1>3. Past(receipts[o].request)
  BY <1>1 DEF RestInv, ReceiptsTrue, ReceiptTrue
<1>4. o \in Bound => operation_bindings[o].request = receipts[o].request
  BY <1>1 DEF RestInv, BindingsTrue, BindingTrue
<1>5. QED
  BY <1>1, <1>2, <1>3, <1>4 DEF ModTakes

\* A receipt that is written.
LEMMA ReceiptEffect ==
  ASSUME RestTyped, NEW o \in Operations, NEW v \in Receipts,
         receipts' = [receipts EXCEPT ![o] = v]
  PROVE  /\ receipts' \in [Operations -> Receipts \cup {Nothing}] /\ receipts'[o] = v
         /\ \A p \in Operations : p # o => receipts'[p] = receipts[p]
         /\ Known' = Known \cup {o}
<1>1. v # Nothing
  BY NothingIsNoEntry
<1>2. /\ receipts' \in [Operations -> Receipts \cup {Nothing}] /\ receipts'[o] = v
      /\ \A p \in Operations : p # o => receipts'[p] = receipts[p]
  BY DEF RestTyped
<1>3. QED
  BY <1>1, <1>2 DEF Known

\* An answer without a step of the game: the operation is accepted or refused.
LEMMA AnswerSound ==
  ASSUME RestInv, NEW o \in Operations, NEW v \in Receipts, ModTakes(o, v.request),
         v.status \in {"Accepted", "Rejected"}, v.status = "Accepted" => o \in Bound,
         receipts' = [receipts EXCEPT ![o] = v],
         UNCHANGED game, UNCHANGED memory, UNCHANGED <<held_lease, dispatch, closed, used>>
  PROVE  RestInv'
<1> USE DEF RestInv, memory
<1>1. /\ receipts' \in [Operations -> Receipts \cup {Nothing}] /\ receipts'[o] = v
      /\ \A p \in Operations : p # o => receipts'[p] = receipts[p]
      /\ Known' = Known \cup {o}
  BY ReceiptEffect
<1>2. /\ operation_bindings' = operation_bindings
      /\ selector_admissions' = selector_admissions
      /\ selector_reservations' = selector_reservations
      /\ held_lease' = held_lease /\ game' = game /\ dispatch' = dispatch
      /\ closed' = closed /\ used' = used
  OBVIOUS
<1>3. Bound' = Bound /\ Admitted' = Admitted
  BY <1>2 DEF Bound, Admitted
<1>4. /\ o \in used /\ Past(v.request)
      /\ o \in Bound => operation_bindings[o].request = v.request
      /\ o \in Known => receipts[o].status = "Accepted"
  BY DEF ModTakes
<1>5. SettledAny' = SettledAny /\ \A kind : Settled(kind)' = Settled(kind)
  BY <1>1, <1>4 DEF SettledAny, Settled, Known
<1>6. RestTyped'
  BY <1>1, <1>2, <1>3 DEF RestTyped
<1>7. CallBound'
  BY <1>1, <1>2, <1>3, <1>4 DEF CallBound
<1>8. ReceiptsTrue'
  <2>1. ReceiptTrue(v)
    BY <1>4 DEF ReceiptTrue
  <2>2. \A p \in Known' : ReceiptTrue(receipts'[p])
    BY <1>1, <2>1 DEF ReceiptsTrue, Known
  <2>3. \A p \in Known' : ReceiptTrue(receipts[p])'
    BY <1>2, <2>2 DEF ReceiptTrue, Past
  <2>4. \A p \in SettledAny : receipts'[p] = receipts[p]
    BY <1>1, <1>4 DEF SettledAny, Known
  <2>5. QED
    BY <1>5, <2>3, <2>4 DEF ReceiptsTrue
<1>9. \A p \in Bound : BindingTrue(p, operation_bindings[p])'
  BY <1>1, <1>2, <1>4 DEF BindingsTrue, BindingTrue, Past, CatalogTrue, Known
<1>10. \A p \in Bound : p \in SettledAny => receipts'[p] = receipts[p]
  BY <1>1, <1>4 DEF SettledAny, Known
<1>11. \A kind : Settled(kind) \subseteq SettledAny
  BY DEF Settled, SettledAny
<1>12. \A p \in Bound : ContextFits(p, operation_bindings[p])'
  BY <1>2, <1>5, <1>10, <1>11 DEF BindingsTrue, ContextFits
<1>13. \A p \in Bound : SeenOrMarked(operation_bindings[p])'
  BY <1>2 DEF BindingsTrue, SeenOrMarked, Covers
<1>14. BindingsTrue'
  BY <1>3, <1>9, <1>12, <1>13 DEF BindingsTrue
<1>15. \A p \in Operations : Awaiting(p)' => Awaiting(p)
  BY <1>1, <1>2, <1>3, <1>4 DEF Awaiting
<1>16. AwaitingReserved'
  BY <1>2, <1>15 DEF AwaitingReserved
<1>17. UnseenStands'
  <2>1. ASSUME NEW p \in Operations, Unseen(p)'
        PROVE  /\ Unseen(p) /\ receipts'[p] = receipts[p]
               /\ receipts[p].after = game.gen /\ receipts[p].sel \notin Admitted
    BY <1>1, <1>4, <1>5, <1>15, <2>1 DEF Unseen, UnseenStands, SettledAny, Known
  <2>2. ASSUME NEW p \in Operations, Unseen(p)', NEW q \in Known', receipts'[q].status = "Accepted"
        PROVE  ~(/\ receipts'[q].request.sel = receipts[p].sel
                 /\ receipts'[q].request.gen = game.gen)
    BY <1>1, <1>4, <2>1, <2>2 DEF UnseenStands, Known
  <2>3. QED
    BY <1>2, <1>3, <2>1, <2>2 DEF UnseenStands
<1>18. AdmissionsTrue' /\ Promised'
  BY <1>2, <1>3 DEF AdmissionsTrue, CatalogTrue, Promised
<1>19. MarksOlder'
  BY <1>2, <1>3, <1>5, <1>10, <1>1, <1>4 DEF MarksOlder, Settled, Known
<1>20. QED
  BY <1>6, <1>7, <1>8, <1>14, <1>16, <1>17, <1>18, <1>19

\* Nobody acts on a selection that the forwarder has not seen.
LEMMA UnseenUntouched ==
  ASSUME RestInv, NEW o, NEW r, ModTakes(o, r), NEW p \in Operations, Unseen(p)
  PROVE  /\ game.sel = receipts[p].sel /\ receipts[p].sel \in Sels
         /\ receipts[p].sel \notin Admitted
         /\ ~(r.sel = receipts[p].sel /\ r.gen = game.gen)
<1> USE DEF RestInv
<1>1. /\ receipts[p].after = game.gen /\ receipts[p].sel \notin Admitted
      /\ \A q \in Bound : ~(/\ operation_bindings[q].request.sel = receipts[p].sel
                            /\ operation_bindings[q].request.gen = game.gen)
      /\ \A q \in Known : receipts[q].status = "Accepted" =>
           ~(/\ receipts[q].request.sel = receipts[p].sel
             /\ receipts[q].request.gen = game.gen)
  BY DEF UnseenStands
<1>2. p \in SettledAny /\ receipts[p].request.kind = "smith"
  BY DEF Unseen, Awaiting, SettledAny, BindingsTrue, BindingTrue
<1>3. receipts[p].kind = "requested" /\ receipts[p].sel \in Sels
  BY <1>2 DEF SettledAny, ReceiptsTrue, ReceiptTrue
<1>4. game.sel = receipts[p].sel
  BY <1>1, <1>2, <1>3 DEF SettledAny, ReceiptsTrue, ReceiptTrue
<1>5. QED
  BY <1>1, <1>3, <1>4 DEF ModTakes

\* A step of the game, with the receipt that says what it did.
LEMMA MoveSound ==
  ASSUME RestInv, NEW o \in Operations, NEW v \in Receipts, ModTakes(o, v.request),
         v.status \in {"Settled", "Cancelled"}, v.request.gen = game.gen,
         v.after = game.gen + 1, ReceiptTrue(v)',
         game' \in [gen : Nat, sel : Sels \cup {Nothing}, chosen : Nat],
         game'.gen = game.gen + 1,
         \A p \in Operations : ~Unseen(p),
         v.status = "Settled" /\ v.kind = "requested" => v.sel \notin Admitted,
         v.status = "Settled" /\ v.kind = "progressed" =>
           game.sel = v.sel /\ v.chosen = game.chosen + 1,
         v.status = "Settled" /\ v.kind = "completed" =>
           game.sel = v.sel /\ game.chosen <= v.chosen,
         receipts' = [receipts EXCEPT ![o] = v],
         UNCHANGED memory, UNCHANGED <<held_lease, dispatch, closed, used>>
  PROVE  RestInv'
<1> USE DEF RestInv, memory
<1>1. /\ receipts' \in [Operations -> Receipts \cup {Nothing}] /\ receipts'[o] = v
      /\ \A p \in Operations : p # o => receipts'[p] = receipts[p]
      /\ Known' = Known \cup {o}
  BY ReceiptEffect
<1>2. /\ operation_bindings' = operation_bindings
      /\ selector_admissions' = selector_admissions
      /\ selector_reservations' = selector_reservations
      /\ held_lease' = held_lease /\ dispatch' = dispatch /\ closed' = closed /\ used' = used
  OBVIOUS
<1>3. Bound' = Bound /\ Admitted' = Admitted
  BY <1>2 DEF Bound, Admitted
<1>4. /\ o \in used /\ Past(v.request)
      /\ o \in Bound => operation_bindings[o].request = v.request
      /\ o \in Known => receipts[o].status = "Accepted"
  BY DEF ModTakes
<1>5. /\ SettledAny' = SettledAny \cup (IF v.status = "Settled" THEN {o} ELSE {})
      /\ o \notin SettledAny
  BY <1>1, <1>4 DEF SettledAny, Known
<1>6. \A p \in SettledAny : receipts'[p] = receipts[p]
  BY <1>1, <1>5 DEF SettledAny, Known
<1>7. \A kind : /\ Settled(kind)' \subseteq SettledAny'
                /\ \A p \in SettledAny : p \in Settled(kind)' <=> p \in Settled(kind)
                /\ o \in Settled(kind)' => v.status = "Settled" /\ v.kind = kind
                /\ o \notin Settled(kind)
  BY <1>1, <1>5, <1>6 DEF SettledAny, Settled
<1>8. game.gen \in Nat /\ held_lease \in Nat
  BY GameTyped
<1>9. RestTyped'
  BY <1>1, <1>2, <1>3 DEF RestTyped
<1>10. CallBound'
  BY <1>1, <1>2, <1>3, <1>4 DEF CallBound
<1>11. \A p \in SettledAny : /\ receipts[p].request.gen \in Nat
                             /\ receipts[p].after = receipts[p].request.gen + 1
                             /\ receipts[p].request.gen < game.gen
  <2>1. \A p \in SettledAny : /\ receipts[p].request.gen \in Nat
                              /\ receipts[p].after = receipts[p].request.gen + 1
                              /\ receipts[p].after <= game.gen
    BY ReceiptTyped DEF SettledAny, ReceiptsTrue, ReceiptTrue
  <2>2. QED
    BY <1>8, <2>1
<1>12. \A p \in Known : /\ receipts[p].request.gen \in Nat
                        /\ receipts[p].request.gen <= game.gen
  BY ReceiptTyped DEF ReceiptsTrue, ReceiptTrue, Past
<1>13. \A p \in Bound : /\ operation_bindings[p].request.gen \in Nat
                        /\ operation_bindings[p].request.gen <= game.gen
  BY BindingTyped DEF BindingsTrue, BindingTrue, Past
<1>14. ReceiptsTrue'
  <2>1. ASSUME NEW p \in Known, p # o
        PROVE  ReceiptTrue(receipts[p])'
    <3>1. receipts'[p] = receipts[p] /\ ReceiptTrue(receipts[p])
      BY <1>1, <2>1 DEF Known, ReceiptsTrue
    <3>2. receipts[p].after \in Nat
      BY ReceiptTyped
    <3>3. Past(receipts[p].request)'
      BY <1>2, <1>8, <1>12, <3>1 DEF ReceiptTrue, Past
    <3>4. receipts[p].status = "Settled" =>
            receipts[p].after <= game'.gen /\ receipts[p].after # game'.gen
      BY <1>8, <3>1, <3>2 DEF ReceiptTrue
    <3>5. QED
      BY <3>1, <3>3, <3>4 DEF ReceiptTrue
  <2>2. ReceiptTrue(receipts[o])'
    BY <1>1 DEF ReceiptTrue
  <2>3. \A p \in Known' : ReceiptTrue(receipts[p])'
    BY <1>1, <2>1, <2>2
  <2>4. \A p, q \in SettledAny' : receipts'[p].request.gen = receipts'[q].request.gen => p = q
    BY <1>1, <1>5, <1>6, <1>8, <1>11 DEF ReceiptsTrue
  <2>5. QED
    BY <2>3, <2>4 DEF ReceiptsTrue
<1>15. \A s : \A c \in Catalogs : CatalogTrue(s, c) => CatalogTrue(s, c)' /\ c.gen < game'.gen
  <2>1. \A c \in Catalogs : c.gen \in Nat
    BY DEF Catalogs
  <2>2. QED
    BY <1>2, <1>8, <2>1 DEF CatalogTrue
<1>16. \A p \in Bound : BindingTrue(p, operation_bindings[p])'
  <2> TAKE p \in Bound
  <2>1. BindingTrue(p, operation_bindings[p])
    BY DEF BindingsTrue
  <2>2. /\ operation_bindings[p].context \in Contexts \cup {Nothing}
        /\ operation_bindings[p].completed \in Contexts \cup {Nothing}
    BY BindingTyped
  <2>3. Past(operation_bindings[p].request)'
    BY <1>2, <1>8, <1>13, <2>1 DEF BindingTrue, Past
  <2>4. p \in Known' => receipts'[p].request = operation_bindings[p].request
    BY <1>1, <1>4, <2>1 DEF BindingTrue, Known
  <2>5. operation_bindings[p].context # Nothing =>
          CatalogTrue(operation_bindings[p].context.sel, operation_bindings[p].context.catalog)'
    BY <1>15, <2>1, <2>2, ContextTyped DEF BindingTrue
  <2>6. operation_bindings[p].completed # Nothing =>
          operation_bindings[p].completed.catalog.gen < game'.gen
    BY <1>8, <2>1, <2>2, ContextTyped DEF BindingTrue
  <2>7. QED
    BY <1>2, <2>1, <2>3, <2>4, <2>5, <2>6 DEF BindingTrue
<1>17. \A p \in Bound : ContextFits(p, operation_bindings[p])'
  <2>1. ASSUME NEW p \in Bound, p # o
        PROVE  ContextFits(p, operation_bindings[p])'
    <3>1. ContextFits(p, operation_bindings[p]) /\ p \in Operations
      BY DEF BindingsTrue, Bound
    <3>2. receipts'[p] = receipts[p]
      BY <1>1, <2>1, <3>1
    <3>3. \A kind : p \in Settled(kind)' <=> p \in Settled(kind)
      BY <1>1, <2>1, <3>2 DEF Settled
    <3>4. QED
      BY <1>2, <3>1, <3>2, <3>3 DEF ContextFits
  <2>2. ASSUME o \in Bound
        PROVE  ContextFits(o, operation_bindings[o])'
    <3> DEFINE b == operation_bindings[o]
    <3>1. /\ b.request = v.request /\ BindingTrue(o, b) /\ ContextFits(o, b)
          /\ b.context \in Contexts \cup {Nothing}
      BY <1>4, <2>2, BindingTyped DEF BindingsTrue
    <3>2. ~(b.request.kind = "smith" /\ b.context # Nothing)
      BY <1>7, <3>1 DEF ContextFits
    <3>3. ASSUME v.status = "Settled", v.kind \in {"progressed", "completed"}
          PROVE  /\ b.context # Nothing /\ b.context.catalog.gen = game.gen
                 /\ b.context.catalog.chosen = game.chosen
      <4>1. v.request.kind \in {"select", "confirm", "cancel"}
        BY <3>3 DEF ReceiptTrue
      <4>2. b.context # Nothing /\ b.context.catalog.gen = game.gen
        BY <3>1, <4>1 DEF BindingTrue
      <4>3. CatalogTrue(b.context.sel, b.context.catalog)
        BY <3>1, <4>2 DEF BindingTrue
      <4>4. QED
        BY <4>2, <4>3 DEF CatalogTrue
    <3>4. /\ o \in Settled("progressed")' => b.context.catalog.chosen + 1 = v.chosen
          /\ o \in Settled("completed")' => b.context.catalog.chosen <= v.chosen
      BY <1>7, <3>3
    <3>5. QED
      BY <1>1, <1>2, <3>2, <3>4 DEF ContextFits
  <2>3. QED
    BY <2>1, <2>2
<1>18. \A p \in Bound : SeenOrMarked(operation_bindings[p])'
  BY <1>2 DEF BindingsTrue, SeenOrMarked, Covers
<1>19. BindingsTrue'
  BY <1>3, <1>16, <1>17, <1>18 DEF BindingsTrue
<1>20. \A p \in Operations : Awaiting(p)' => Awaiting(p)
  BY <1>1, <1>2, <1>3, <1>4 DEF Awaiting
<1>21. AwaitingReserved'
  BY <1>2, <1>20 DEF AwaitingReserved
<1>22. UnseenStands'
  <2>1. ASSUME NEW p \in Operations, Unseen(p)'
        PROVE  /\ p = o /\ v.status = "Settled" /\ v.sel \notin Admitted
    <3>1. Awaiting(p) /\ p \in SettledAny'
      BY <1>20, <2>1 DEF Unseen
    <3>2. p = o /\ v.status = "Settled"
      BY <1>5, <3>1 DEF Unseen
    <3>3. v.request.kind = "smith"
      BY <1>4, <3>1, <3>2 DEF Awaiting
    <3>4. v.kind = "requested"
      BY <3>2, <3>3 DEF ReceiptTrue
    <3>5. QED
      BY <3>2, <3>4
  <2>2. \A q \in Bound : operation_bindings[q].request.gen # game'.gen
    BY <1>8, <1>13
  <2>3. \A q \in Known' : receipts'[q].request.gen # game'.gen
    BY <1>1, <1>8, <1>12 DEF Known
  <2>4. QED
    BY <1>1, <1>2, <1>3, <2>1, <2>2, <2>3 DEF UnseenStands
<1>23. AdmissionsTrue'
  BY <1>2, <1>3, <1>15, AdmissionTyped DEF AdmissionsTrue
<1>24. MarksOlder'
  <2>1. ASSUME NEW p \in Bound, operation_bindings[p].completed # Nothing,
               NEW q \in Settled("progressed")'
        PROVE  operation_bindings[p].completed.catalog.gen # receipts'[q].request.gen
    <3>1. CASE q = o
      <4>1. operation_bindings[p].completed.catalog.gen \in Nat
        BY <2>1, BindingTyped, ContextTyped
      <4>2. operation_bindings[p].completed.catalog.gen < game.gen
        BY <2>1 DEF BindingsTrue, BindingTrue
      <4>3. QED
        BY <1>1, <1>8, <3>1, <4>1, <4>2
    <3>2. CASE q # o
      <4>1. q \in Settled("progressed") /\ receipts'[q] = receipts[q]
        BY <1>1, <2>1, <3>2 DEF Settled, Known
      <4>2. QED
        BY <2>1, <4>1 DEF MarksOlder
    <3>3. QED
      BY <3>1, <3>2
  <2>2. \A s \in Sels : closed[s] # Nothing => closed[s].gen < game'.gen
    <3>1. \A s \in Sels : closed[s] # Nothing => closed[s].gen \in Nat
      BY DEF RestTyped, Catalogs
    <3>2. QED
      BY <1>8, <3>1 DEF MarksOlder
  <2>3. QED
    BY <1>2, <1>3, <2>1, <2>2 DEF MarksOlder
<1>25. Promised'
  BY <1>2, <1>3 DEF Promised
<1>26. QED
  BY <1>9, <1>10, <1>14, <1>19, <1>21, <1>22, <1>23, <1>24, <1>25

\* The receipt of a step is about the request, and dated after it.
LEMMA ReceiptFields ==
  ASSUME RestTyped, NEW r, NEW st, NEW kind, NEW s, NEW chosen, NEW v,
         v = Receipt(r, st, kind, s, chosen),
         r \in RequestSet, st \in {"Accepted", "Settled", "Rejected", "Cancelled"},
         kind \in {"requested", "progressed", "completed", "option", "none"},
         s \in Sels \cup {Nothing}, chosen \in Nat
  PROVE  /\ v \in Receipts /\ v.request = r /\ v.status = st /\ v.kind = kind
         /\ v.sel = s /\ v.after = game.gen + 1 /\ v.chosen = chosen
<1>1. game.gen + 1 \in Nat
  BY GameTyped
<1>2. QED
  BY <1>1 DEF Receipt, Receipts

\* ModApplies
LEMMA ModAppliesKeeps ==
  ASSUME RestInv, NEW o \in Operations, NEW r, ModTakes(o, r),
         game.gen = r.gen, ModApplies(o, r),
         UNCHANGED memory, UNCHANGED <<held_lease, dispatch, closed, used>>
  PROVE  RestInv'
<1>1. /\ game.gen \in Nat /\ game.sel \in Sels \cup {Nothing} /\ game.chosen \in Nat
      /\ held_lease \in Nat /\ Required \in Nat /\ Nothing \notin Sels
  <2>1. {MAX_OPERATION_BINDINGS, MAX_SELECTOR_ADMISSIONS, Required} \subseteq Nat \ {0}
        /\ Nothing \notin Sels
    BY Zenon, RestActionConfig
  <2>2. QED
    BY <2>1, GameTyped DEF RestInv
<1>2. /\ r \in RequestSet /\ r.sel \in Sels \cup {Nothing} /\ r.gen \in Nat
      /\ r.lease <= held_lease
      /\ r.kind \in {"select", "confirm", "cancel"} => r.sel \in Sels
  BY DEF ModTakes, Past, RequestSet
<1>3. RestTyped
  BY DEF RestInv
<1>4. held_lease' = held_lease
  OBVIOUS
<1>5. \A p \in Operations : Unseen(p) => game.sel # Nothing /\ game.sel # r.sel
  BY <1>1, UnseenUntouched
<1>6. CASE /\ r.kind = "smith" /\ game.sel = Nothing
           /\ \E s \in Sels :
                /\ s \notin Admitted
                /\ Moves(s, 0)
                /\ receipts' = [receipts EXCEPT ![o] =
                                  Receipt(r, "Settled", "requested", s, 0)]
  <2>1. PICK s \in Sels :
                /\ s \notin Admitted
                /\ Moves(s, 0)
                /\ receipts' = [receipts EXCEPT ![o] =
                                  Receipt(r, "Settled", "requested", s, 0)]
    BY <1>6
  <2>2. PICK v : v = Receipt(r, "Settled", "requested", s, 0)
    OBVIOUS
  <2>3. /\ v \in Receipts /\ v.request = r /\ v.status = "Settled"
        /\ v.kind = "requested" /\ v.sel = s /\ v.after = game.gen + 1 /\ v.chosen = 0
    BY <1>2, <1>3, <2>2, ReceiptFields
  <2>4. /\ game' \in [gen : Nat, sel : Sels \cup {Nothing}, chosen : Nat]
        /\ game'.gen = game.gen + 1 /\ game'.sel = s /\ game'.chosen = 0
    BY <1>1, <2>1 DEF Moves
  <2>5. ReceiptTrue(v)'
    BY <1>1, <1>2, <1>4, <1>6, <2>3, <2>4 DEF ReceiptTrue, Past
  <2>6. receipts' = [receipts EXCEPT ![o] = v]
    BY <2>1, <2>2
  <2>7. QED
    BY <1>5, <1>6, <2>1, <2>3, <2>4, <2>5, <2>6, MoveSound
<1>7. CASE /\ r.kind = "heal" /\ game.sel = Nothing
           /\ Moves(Nothing, 0)
           /\ receipts' = [receipts EXCEPT ![o] =
                             Receipt(r, "Settled", "option", Nothing, 0)]
  <2>1. PICK v : v = Receipt(r, "Settled", "option", Nothing, 0)
    OBVIOUS
  <2>2. /\ v \in Receipts /\ v.request = r /\ v.status = "Settled"
        /\ v.kind = "option" /\ v.after = game.gen + 1
    BY <1>2, <1>3, <2>1, ReceiptFields
  <2>3. /\ game' \in [gen : Nat, sel : Sels \cup {Nothing}, chosen : Nat]
        /\ game'.gen = game.gen + 1
    BY <1>1, <1>7 DEF Moves
  <2>4. ReceiptTrue(v)'
    BY <1>1, <1>2, <1>4, <1>7, <2>2, <2>3 DEF ReceiptTrue, Past
  <2>5. receipts' = [receipts EXCEPT ![o] = v]
    BY <1>7, <2>1
  <2>6. QED
    BY <1>5, <1>7, <2>2, <2>3, <2>4, <2>5, MoveSound
<1>8. CASE /\ r.kind = "select" /\ game.sel = r.sel /\ game.chosen < Required
           /\ Moves(r.sel, game.chosen + 1)
           /\ receipts' = [receipts EXCEPT ![o] =
                Receipt(r, "Settled", "progressed", r.sel, game.chosen + 1)]
  <2>1. PICK v : v = Receipt(r, "Settled", "progressed", r.sel, game.chosen + 1)
    OBVIOUS
  <2>2. /\ v \in Receipts /\ v.request = r /\ v.status = "Settled"
        /\ v.kind = "progressed" /\ v.sel = r.sel /\ v.after = game.gen + 1
        /\ v.chosen = game.chosen + 1
    <3>1. game.chosen + 1 \in Nat
      BY <1>1
    <3>2. QED
      BY <1>2, <1>3, <2>1, <3>1, ReceiptFields
  <2>3. /\ game' \in [gen : Nat, sel : Sels \cup {Nothing}, chosen : Nat]
        /\ game'.gen = game.gen + 1 /\ game'.sel = r.sel /\ game'.chosen = game.chosen + 1
    BY <1>1, <1>2, <1>8 DEF Moves
  <2>4. ReceiptTrue(v)'
    BY <1>1, <1>2, <1>4, <1>8, <2>2, <2>3 DEF ReceiptTrue, Past
  <2>5. receipts' = [receipts EXCEPT ![o] = v]
    BY <1>8, <2>1
  <2>6. QED
    BY <1>5, <1>8, <2>2, <2>3, <2>4, <2>5, MoveSound
<1>9. CASE /\ r.kind \in {"select", "confirm"} /\ game.sel = r.sel
           /\ game.chosen + (IF r.kind = "select" THEN 1 ELSE 0) = Required
           /\ Moves(Nothing, 0)
           /\ receipts' = [receipts EXCEPT ![o] =
                Receipt(r, "Settled", "completed", r.sel, Required)]
  <2>1. PICK v : v = Receipt(r, "Settled", "completed", r.sel, Required)
    OBVIOUS
  <2>2. /\ v \in Receipts /\ v.request = r /\ v.status = "Settled"
        /\ v.kind = "completed" /\ v.sel = r.sel /\ v.after = game.gen + 1
        /\ v.chosen = Required
    BY <1>1, <1>2, <1>3, <2>1, ReceiptFields
  <2>3. /\ game' \in [gen : Nat, sel : Sels \cup {Nothing}, chosen : Nat]
        /\ game'.gen = game.gen + 1
    BY <1>1, <1>9 DEF Moves
  <2>4. ReceiptTrue(v)'
    BY <1>1, <1>2, <1>4, <1>9, <2>2, <2>3 DEF ReceiptTrue, Past
  <2>5. receipts' = [receipts EXCEPT ![o] = v]
    BY <1>9, <2>1
  <2>6. game.chosen <= v.chosen
    BY <1>1, <1>9, <2>2
  <2>7. QED
    BY <1>5, <1>9, <2>2, <2>3, <2>4, <2>5, <2>6, MoveSound
<1>10. CASE /\ r.kind = "cancel" /\ game.sel = r.sel
            /\ Moves(Nothing, 0)
            /\ receipts' = [receipts EXCEPT ![o] =
                              Receipt(r, "Cancelled", "none", Nothing, 0)]
  <2>1. PICK v : v = Receipt(r, "Cancelled", "none", Nothing, 0)
    OBVIOUS
  <2>2. /\ v \in Receipts /\ v.request = r /\ v.status = "Cancelled"
        /\ v.after = game.gen + 1
    BY <1>2, <1>3, <2>1, ReceiptFields
  <2>3. /\ game' \in [gen : Nat, sel : Sels \cup {Nothing}, chosen : Nat]
        /\ game'.gen = game.gen + 1
    BY <1>1, <1>10 DEF Moves
  <2>4. ReceiptTrue(v)'
    BY <1>1, <1>2, <1>4, <1>10, <2>2, <2>3 DEF ReceiptTrue, Past
  <2>5. receipts' = [receipts EXCEPT ![o] = v]
    BY <1>10, <2>1
  <2>6. QED
    BY <1>5, <1>10, <2>2, <2>3, <2>4, <2>5, MoveSound
<1>11. QED
  BY <1>6, <1>7, <1>8, <1>9, <1>10 DEF ModApplies

\* ModReceives
LEMMA ModReceivesKeeps ==
  ASSUME RestInv, ModReceives
  PROVE  RestInv'
<1> DEFINE o == dispatch.op
           r == dispatch.request
<1>1. /\ ModTakes(o, r) /\ o \in Bound
      /\ UNCHANGED memory /\ UNCHANGED <<held_lease, dispatch, closed, used>>
  BY ReceivedTaken DEF ModReceives
<1>2. o \in Operations /\ r \in RequestSet
  BY <1>1 DEF Bound, ModTakes
<1>3. CASE game.gen = r.gen /\ ModApplies(o, r)
  BY <1>1, <1>2, <1>3, ModAppliesKeeps
<1>4. ASSUME NEW st \in {"Accepted", "Rejected"}, UNCHANGED game,
             receipts' = [receipts EXCEPT ![o] = Receipt(r, st, "none", Nothing, 0)]
      PROVE  RestInv'
  <2>1. PICK v : v = Receipt(r, st, "none", Nothing, 0)
    OBVIOUS
  <2>2. v \in Receipts /\ v.request = r /\ v.status = st
    BY <1>2, <2>1, ReceiptFields DEF RestInv
  <2>3. receipts' = [receipts EXCEPT ![o] = v]
    BY <1>4, <2>1
  <2>4. QED
    BY <1>1, <1>2, <1>4, <2>2, <2>3, AnswerSound
<1>5. QED
  BY <1>3, <1>4 DEF ModReceives

\* ModSettles
LEMMA ModSettlesKeeps ==
  ASSUME RestInv, NEW o \in Operations, ModSettles(o)
  PROVE  RestInv'
<1> DEFINE r == receipts[o].request
<1>1. /\ ModTakes(o, r)
      /\ UNCHANGED memory /\ UNCHANGED <<held_lease, dispatch, closed, used>>
  BY AcceptedTaken DEF ModSettles
<1>2. r \in RequestSet
  BY <1>1 DEF ModTakes
<1>3. CASE game.gen = r.gen /\ ModApplies(o, r)
  BY <1>1, <1>3, ModAppliesKeeps
<1>4. ASSUME UNCHANGED game,
             receipts' = [receipts EXCEPT ![o] =
                            Receipt(r, "Rejected", "none", Nothing, 0)]
      PROVE  RestInv'
  <2>1. PICK v : v = Receipt(r, "Rejected", "none", Nothing, 0)
    OBVIOUS
  <2>2. v \in Receipts /\ v.request = r /\ v.status = "Rejected"
    BY <1>2, <2>1, ReceiptFields DEF RestInv
  <2>3. receipts' = [receipts EXCEPT ![o] = v]
    BY <1>4, <2>1
  <2>4. QED
    BY <1>1, <1>4, <2>2, <2>3, AnswerSound
<1>5. QED
  BY <1>3, <1>4 DEF ModSettles

-----------------------------------------------------------------------------
(* Answers.                                                                 *)

\* An answer that is held against a binding is about its request.
LEMMA AnswerAbout ==
  ASSUME RestInv, NEW o, receipts[o] # Nothing,
         BindingValid(o, receipts[o])
  PROVE  /\ o \in Operations /\ o \in Bound /\ o \in Known
         /\ receipts[o].request = operation_bindings[o].request
         /\ receipts[o].request.lease = held_lease
         /\ receipts[o].status \in Statuses
         /\ ReceiptTrue(receipts[o])
         /\ BindingTrue(o, operation_bindings[o]) /\ ContextFits(o, operation_bindings[o])
         /\ SeenOrMarked(operation_bindings[o])
<1> USE DEF RestInv
<1>1. o \in Operations /\ o \in Bound /\ o \in Known
  BY DEF BindingValid, Bound, Known
<1>2. receipts[o].status \in Statuses
  BY <1>1, ReceiptTyped DEF Statuses
<1>3. QED
  BY <1>1, <1>2 DEF BindingValid, ReceiptsTrue, BindingsTrue

\* RecordOther
LEMMA RecordOtherKeeps ==
  ASSUME RestInv, NEW o, receipts[o] # Nothing, BindingValid(o, receipts[o]),
         ~(receipts[o].status = "Settled"
             /\ receipts[o].kind \in {"requested", "progressed", "completed"}),
         RecordOther(o, receipts[o]),
         dispatch' = dispatch \/ dispatch' = NoDispatch,
         UNCHANGED <<held_lease, game, receipts, closed, used>>
  PROVE  RestInv'
<1> DEFINE v == receipts[o]
<1>1. /\ o \in Operations /\ o \in Bound /\ o \in Known
      /\ v.request = operation_bindings[o].request /\ v.status \in Statuses
      /\ ReceiptTrue(v)
  BY AnswerAbout
<1>2. is_terminal(v.status) => ~Awaiting(o)
  BY <1>1 DEF is_terminal, Awaiting, ReceiptTrue
<1>3. /\ operation_bindings' = WithStatus(operation_bindings, o, v.status)
      /\ selector_reservations' = IF is_terminal(v.status)
                                  THEN selector_reservations \ {o}
                                  ELSE selector_reservations
      /\ UNCHANGED selector_admissions
  BY DEF RecordOther
<1> HIDE DEF v
<1>4. CASE is_terminal(v.status)
  BY <1>1, <1>2, <1>3, <1>4, StatusSound
<1>5. CASE ~is_terminal(v.status)
  BY <1>1, <1>3, <1>5, StatusSound
<1>6. QED
  BY <1>4, <1>5

\* What a completion makes of the bindings: the mark is on those of the
\* selection under its lease, and they are the ones whose context says so.
LEMMA CompletionEffect ==
  ASSUME RestInv, NEW o \in Bound, NEW s \in Admitted,
         operation_bindings[o].context = [sel |-> s, catalog |-> selector_admissions[s]],
         NEW st \in Statuses,
         operation_bindings' = WithStatus(
           [p \in Operations |->
              IF p \in Bound /\ Related(o, p, s, selector_admissions[s])
              THEN [operation_bindings[p] EXCEPT
                      !.completed = [sel |-> s, catalog |-> selector_admissions[s]]]
              ELSE operation_bindings[p]], o, st)
  PROVE  /\ operation_bindings' \in [Operations -> Bindings \cup {Nothing}]
         /\ Bound' = Bound
         /\ \A p \in Bound :
              /\ operation_bindings'[p].request = operation_bindings[p].request
              /\ operation_bindings'[p].context = operation_bindings[p].context
              /\ p # o => operation_bindings'[p].status = operation_bindings[p].status
              /\ operation_bindings'[p].completed =
                   IF /\ operation_bindings[p].context # Nothing
                      /\ operation_bindings[p].context.sel = s
                      /\ operation_bindings[p].context.catalog.lease
                           = selector_admissions[s].lease
                   THEN [sel |-> s, catalog |-> selector_admissions[s]]
                   ELSE operation_bindings[p].completed
<1> USE DEF RestInv
<1> DEFINE cur == selector_admissions[s]
           mark == [sel |-> s, catalog |-> cur]
           of(x) == x # Nothing /\ x.sel = s /\ x.catalog.lease = cur.lease
           f == [p \in Operations |-> IF p \in Bound /\ Related(o, p, s, cur)
                                      THEN [operation_bindings[p] EXCEPT !.completed = mark]
                                      ELSE operation_bindings[p]]
<1>1. s \in Sels /\ cur \in Catalogs /\ o \in Operations /\ s # Nothing
  BY AdmissionTyped, BindingTyped, RestActionConfig
<1>2. mark \in Contexts /\ mark.sel = s /\ mark.catalog = cur
  BY <1>1 DEF Contexts
<1>3. mark # Nothing
  BY <1>2, NothingIsNoEntry
<1>4. \A p \in Bound : Related(o, p, s, cur) <=> of(operation_bindings[p].context)
  <2> TAKE p \in Bound
  <2> DEFINE b == operation_bindings[p]
  <2>1. of(operation_bindings[o].context)
    BY <1>2, <1>3
  <2>2. BindingTrue(p, b)
    BY DEF BindingsTrue
  <2>3. b.request.kind \in Kinds
    BY BindingTyped
  <2> HIDE DEF b, cur
  <2>4. of(b.completed) => of(b.context)
    BY <2>2 DEF BindingTrue
  <2>5. b.request.sel = s /\ b.request.lease = cur.lease => of(b.context)
    BY <1>1, <2>2, <2>3 DEF BindingTrue, Kinds
  <2>6. of(b.context) => (b.completed # Nothing => b.completed.catalog.lease = cur.lease)
    BY <2>2 DEF BindingTrue
  <2>7. QED
    BY <2>1, <2>4, <2>5, <2>6 DEF Related, b
<1> HIDE DEF cur, mark
<1>5. \A p \in Bound :
        [operation_bindings[p] EXCEPT !.completed = mark] \in Bindings
  BY <1>2, BindingTyped DEF Bindings
<1>6. f \in [Operations -> Bindings \cup {Nothing}]
  BY <1>5 DEF RestTyped
<1>7. \A p \in Bound :
        /\ f[p].request = operation_bindings[p].request
        /\ f[p].context = operation_bindings[p].context
        /\ f[p].status = operation_bindings[p].status
        /\ f[p].completed = IF of(operation_bindings[p].context) THEN mark
                            ELSE operation_bindings[p].completed
        /\ f[p] \in Bindings
  <2> TAKE p \in Bound
  <2>1. p \in Operations /\ operation_bindings[p] \in Bindings
    BY BindingTyped
  <2>2. PICK n : n = [operation_bindings[p] EXCEPT !.completed = mark]
    OBVIOUS
  <2>3. /\ n \in Bindings /\ n.completed = mark
        /\ n.request = operation_bindings[p].request
        /\ n.context = operation_bindings[p].context
        /\ n.status = operation_bindings[p].status
    BY <1>5, <2>1, <2>2 DEF Bindings
  <2>4. f[p] = IF of(operation_bindings[p].context) THEN n ELSE operation_bindings[p]
    BY <1>4, <2>1, <2>2
  <2> HIDE DEF f, of
  <2>5. QED
    BY <2>1, <2>3, <2>4
<1>8. \A p \in Operations : p \notin Bound => f[p] = Nothing
  BY DEF Bound
<1>9. operation_bindings' = WithStatus(f, o, st)
  BY DEF cur, mark
<1> HIDE DEF f
<1>10. /\ operation_bindings' \in [Operations -> Bindings \cup {Nothing}]
       /\ operation_bindings'[o] \in Bindings
       /\ operation_bindings'[o].request = f[o].request
       /\ operation_bindings'[o].context = f[o].context
       /\ operation_bindings'[o].completed = f[o].completed
       /\ \A p \in Operations : p # o => operation_bindings'[p] = f[p]
  <2>1. f[o] \in Bindings
    BY <1>7
  <2>2. PICK g : g = operation_bindings'
    OBVIOUS
  <2>3. g = WithStatus(f, o, st)
    BY <1>9, <2>2
  <2>4. /\ g \in [Operations -> Bindings \cup {Nothing}] /\ g[o] \in Bindings
        /\ g[o].request = f[o].request /\ g[o].context = f[o].context
        /\ g[o].completed = f[o].completed /\ g[o].status = st
        /\ \A p \in Operations : p # o => g[p] = f[p]
    BY <1>1, <1>6, <2>1, <2>3, WithStatusEffect
  <2>5. QED
    BY <2>2, <2>4
<1>11. Nothing \notin Bindings
  BY NothingIsNoEntry
<1>12. Bound' = Bound
  BY <1>7, <1>8, <1>10, <1>11 DEF Bound
<1>13. \A p \in Bound :
         /\ operation_bindings'[p].request = operation_bindings[p].request
         /\ operation_bindings'[p].context = operation_bindings[p].context
         /\ p # o => operation_bindings'[p].status = operation_bindings[p].status
         /\ operation_bindings'[p].completed =
              IF of(operation_bindings[p].context) THEN mark
              ELSE operation_bindings[p].completed
  BY <1>7, <1>10 DEF Bound
<1>14. QED
  BY <1>10, <1>12, <1>13 DEF cur, mark

\* A completion frees the slot and leaves its mark.
LEMMA CompletionSound ==
  ASSUME RestInv, NEW o \in Bound, NEW s \in Admitted,
         o \in Settled("completed"),
         operation_bindings[o].context = [sel |-> s, catalog |-> selector_admissions[s]],
         selector_admissions[s].lease = held_lease,
         selector_admissions[s].gen = receipts[o].request.gen,
         NEW st \in Statuses,
         operation_bindings' = WithStatus(
           [p \in Operations |->
              IF p \in Bound /\ Related(o, p, s, selector_admissions[s])
              THEN [operation_bindings[p] EXCEPT
                      !.completed = [sel |-> s, catalog |-> selector_admissions[s]]]
              ELSE operation_bindings[p]], o, st),
         selector_admissions' = [selector_admissions EXCEPT ![s] = Nothing],
         selector_reservations' = selector_reservations \ {o},
         closed' = [closed EXCEPT ![s] = selector_admissions[s]],
         dispatch' = dispatch \/ dispatch' = NoDispatch,
         UNCHANGED <<held_lease, game, receipts, used>>
  PROVE  RestInv'
<1> USE DEF RestInv
<1> DEFINE cur == selector_admissions[s]
           mark == [sel |-> s, catalog |-> cur]
           Marked(p) == /\ operation_bindings[p].context # Nothing
                        /\ operation_bindings[p].context.sel = s
                        /\ operation_bindings[p].context.catalog.lease = held_lease
<1>1. /\ operation_bindings' \in [Operations -> Bindings \cup {Nothing}]
      /\ Bound' = Bound
  BY CompletionEffect
<1>2. \A p \in Bound :
        /\ operation_bindings'[p].request = operation_bindings[p].request
        /\ operation_bindings'[p].context = operation_bindings[p].context
        /\ p # o => operation_bindings'[p].status = operation_bindings[p].status
        /\ operation_bindings'[p].completed =
             IF Marked(p) THEN mark ELSE operation_bindings[p].completed
  <2>1. \A p \in Bound :
        /\ operation_bindings'[p].request = operation_bindings[p].request
        /\ operation_bindings'[p].context = operation_bindings[p].context
        /\ p # o => operation_bindings'[p].status = operation_bindings[p].status
        /\ operation_bindings'[p].completed =
             IF /\ operation_bindings[p].context # Nothing
                /\ operation_bindings[p].context.sel = s
                /\ operation_bindings[p].context.catalog.lease
                     = selector_admissions[s].lease
             THEN [sel |-> s, catalog |-> selector_admissions[s]]
             ELSE operation_bindings[p].completed
    BY CompletionEffect
  <2>2. QED
    BY <2>1
<1>3. /\ s \in Sels /\ cur \in Catalogs /\ cur.gen \in Nat /\ cur.lease = held_lease
      /\ o \in Operations /\ game.gen \in Nat
  BY AdmissionTyped, BindingTyped, GameTyped
<1>4. mark \in Contexts /\ mark.sel = s /\ mark.catalog = cur
  BY <1>3 DEF Contexts
<1>5. mark # Nothing
  BY <1>4, NothingIsNoEntry
<1>6. /\ o \in Known /\ receipts[o].status = "Settled" /\ receipts[o].kind = "completed"
      /\ ReceiptTrue(receipts[o]) /\ receipts[o].request.gen \in Nat
      /\ receipts[o].request = operation_bindings[o].request
  BY ReceiptTyped DEF Settled, ReceiptsTrue, BindingsTrue, BindingTrue
<1>7. cur.gen < game.gen
  BY <1>3, <1>6 DEF ReceiptTrue
<1> HIDE DEF mark
<1>8. /\ selector_admissions' \in [Sels -> Catalogs \cup {Nothing}]
      /\ selector_admissions'[s] = Nothing
      /\ \A t \in Sels : t # s => selector_admissions'[t] = selector_admissions[t]
      /\ closed' \in [Sels -> Catalogs \cup {Nothing}] /\ closed'[s] = cur
      /\ \A t \in Sels : t # s => closed'[t] = closed[t]
  BY <1>3 DEF RestTyped
<1> HIDE DEF cur
<1>9. Admitted' = Admitted \ {s}
  BY <1>8 DEF Admitted
<1>10. /\ held_lease' = held_lease /\ game' = game /\ receipts' = receipts /\ used' = used
       /\ Known' = Known /\ SettledAny' = SettledAny
       /\ \A kind : Settled(kind)' = Settled(kind)
  BY DEF Known, SettledAny, Settled
<1>11. RestTyped'
  BY <1>1, <1>8, <1>10 DEF RestTyped
<1>12. CallBound'
  BY <1>1, <1>2, <1>10 DEF CallBound
<1>13. ReceiptsTrue'
  BY <1>10 DEF ReceiptsTrue, ReceiptTrue, Past
<1>14. ASSUME NEW p \in Bound
       PROVE  BindingTrue(p, operation_bindings[p])'
  <2> DEFINE b == operation_bindings[p]
             c == operation_bindings'[p]
  <2>1. BindingTrue(p, b)
    BY DEF BindingsTrue
  <2>2. c.request = b.request /\ c.context = b.context
    BY <1>2
  <2>3. c.completed # Nothing =>
          /\ c.context # Nothing /\ c.completed.sel = c.context.sel
          /\ c.completed.catalog.lease = c.context.catalog.lease
          /\ c.completed.catalog.gen < game.gen
    <3>1. CASE Marked(p)
      BY <1>2, <1>3, <1>4, <1>7, <2>2, <3>1
    <3>2. CASE ~Marked(p)
      BY <1>2, <2>1, <2>2, <3>2 DEF BindingTrue
    <3>3. QED
      BY <3>1, <3>2
  <2> HIDE DEF b, c
  <2>4. BindingTrue(p, c)
    BY <2>1, <2>2, <2>3 DEF BindingTrue
  <2>5. QED
    BY <1>10, <2>4 DEF BindingTrue, Past, CatalogTrue, c
<1>15. \A p \in Bound : ContextFits(p, operation_bindings[p])'
  BY <1>2, <1>10 DEF BindingsTrue, ContextFits
<1>16. ASSUME NEW p \in Bound
       PROVE  SeenOrMarked(operation_bindings[p])'
  <2> DEFINE b == operation_bindings[p]
  <2>1. SeenOrMarked(b)
    BY DEF BindingsTrue
  <2>2. CASE ~Marked(p)
    <3>1. operation_bindings'[p].context = b.context
          /\ operation_bindings'[p].completed = b.completed
      BY <1>2, <2>2
    <3>2. b.context # Nothing => b.context.sel \in Sels
      BY BindingTyped, ContextTyped
    <3>3. b.context # Nothing /\ b.context.catalog.lease = held_lease => b.context.sel # s
      BY <2>2
    <3> HIDE DEF b, Marked
    <3>4. QED
      BY <1>8, <1>10, <2>1, <3>1, <3>2, <3>3 DEF SeenOrMarked, Covers
  <2>3. CASE Marked(p)
    <3>1. operation_bindings'[p].context = b.context
          /\ operation_bindings'[p].completed = mark
      BY <1>2, <2>3
    <3>2. b.context # Nothing /\ b.context.sel = s /\ b.context.catalog.lease = held_lease
          /\ b.context.catalog.gen \in Nat
      BY <2>3, BindingTyped, ContextTyped
    <3>3. b.completed # Nothing => b.completed.catalog.gen \in Nat
      BY BindingTyped, ContextTyped
    <3>4. b.completed # Nothing /\ b.completed.sel = s /\ b.completed.catalog.lease = held_lease
            => cur.gen > b.completed.catalog.gen
      BY <1>3 DEF MarksOlder, cur
    <3>5. cur.gen >= b.context.catalog.gen
      <4>1. CASE Covers(b.completed, s, b.context.catalog)
        <5>1. /\ b.completed # Nothing /\ b.completed.sel = s
              /\ b.completed.catalog.lease = held_lease
              /\ b.completed.catalog.gen >= b.context.catalog.gen
          BY <3>2, <4>1 DEF Covers
        <5>2. QED
          BY <1>3, <3>2, <3>3, <3>4, <5>1
      <4>2. CASE ~Covers(b.completed, s, b.context.catalog)
        BY <2>1, <3>2, <4>2 DEF SeenOrMarked, cur
      <4>3. QED
        BY <4>1, <4>2
    <3> HIDE DEF b, Marked
    <3>6. Covers(mark, s, b.context.catalog)
      BY <1>3, <1>4, <1>5, <3>2, <3>5 DEF Covers
    <3>7. QED
      BY <1>10, <3>1, <3>2, <3>6 DEF SeenOrMarked, Covers
  <2>4. QED
    BY <2>2, <2>3
<1>17. BindingsTrue'
  BY <1>1, <1>14, <1>15, <1>16 DEF BindingsTrue
<1>18. \A p \in Operations : Awaiting(p)' <=> Awaiting(p)
  BY <1>1, <1>2, <1>10 DEF Awaiting
<1>19. ~Awaiting(o)
  BY <1>6 DEF Awaiting, ReceiptTrue
<1>20. AwaitingReserved'
  BY <1>18, <1>19 DEF AwaitingReserved
<1>21. UnseenStands'
  BY <1>1, <1>2, <1>9, <1>10, <1>18 DEF UnseenStands, Unseen
<1>22. AdmissionsTrue'
  BY <1>8, <1>9, <1>10 DEF AdmissionsTrue, CatalogTrue, Admitted
<1>23. MarksOlder'
  <2>1. ASSUME NEW p \in Bound, operation_bindings'[p].completed # Nothing
        PROVE  LET m == operation_bindings'[p].completed
               IN /\ m.sel \in Admitted' /\ selector_admissions'[m.sel].lease
                                              = m.catalog.lease =>
                       selector_admissions'[m.sel].gen > m.catalog.gen
                  /\ \A q \in Settled("progressed") : m.catalog.gen # receipts[q].request.gen
    <3>1. CASE Marked(p)
      <4>1. operation_bindings'[p].completed = mark
        BY <1>2, <3>1
      <4>2. \A q \in Settled("progressed") : cur.gen # receipts[q].request.gen
        BY <1>6 DEF Settled, SettledAny, ReceiptsTrue, cur
      <4>3. QED
        BY <1>4, <1>9, <4>1, <4>2
    <3>2. CASE ~Marked(p)
      <4>1. operation_bindings'[p].completed = operation_bindings[p].completed
        BY <1>2, <3>2
      <4>2. PICK m : m = operation_bindings[p].completed
        OBVIOUS
      <4>3. m # Nothing /\ m.sel \in Sels
        BY <2>1, <4>1, <4>2, BindingTyped, ContextTyped
      <4>4. /\ m.sel \in Admitted /\ selector_admissions[m.sel].lease
                                        = m.catalog.lease =>
                 selector_admissions[m.sel].gen > m.catalog.gen
            /\ \A q \in Settled("progressed") : m.catalog.gen # receipts[q].request.gen
        BY <4>2, <4>3 DEF MarksOlder
      <4>5. m.sel \in Admitted' => selector_admissions'[m.sel] = selector_admissions[m.sel]
        BY <1>8, <1>9, <4>3
      <4>6. QED
        BY <1>9, <4>1, <4>2, <4>4, <4>5
    <3>3. QED
      BY <3>1, <3>2
  <2>2. ASSUME NEW t \in Sels, closed'[t] # Nothing
        PROVE  /\ closed'[t].gen < game.gen
               /\ t \in Admitted' /\ selector_admissions'[t].lease = closed'[t].lease =>
                    selector_admissions'[t].gen > closed'[t].gen
    BY <1>7, <1>8, <1>9, <2>2 DEF MarksOlder
  <2>3. QED
    BY <1>1, <1>10, <2>1, <2>2 DEF MarksOlder
<1>24. Promised'
  <2>1. Cardinality(Admitted') + Cardinality(selector_reservations')
          <= MAX_SELECTOR_ADMISSIONS
    BY <1>9, FewerPromised
  <2>2. \A p \in selector_reservations' :
          /\ operation_bindings'[p].request.kind = "smith"
          /\ ~is_terminal(operation_bindings'[p].status)
    BY <1>2 DEF Promised, RestTyped, is_terminal
  <2>3. QED
    BY <2>1, <2>2 DEF Promised
<1>25. QED
  BY <1>11, <1>12, <1>13, <1>17, <1>20, <1>21, <1>22, <1>23, <1>24

\* RecordCompletion
LEMMA RecordCompletionKeeps ==
  ASSUME RestInv, NEW o, receipts[o] # Nothing, BindingValid(o, receipts[o]),
         receipts[o].status = "Settled", receipts[o].kind = "completed",
         RecordCompletion(o, receipts[o]),
         dispatch' = dispatch \/ dispatch' = NoDispatch,
         UNCHANGED <<held_lease, game, receipts, used>>
  PROVE  RestInv'
<1> DEFINE v == receipts[o]
           s == v.sel
           cur == selector_admissions[s]
           matches == /\ cur # Nothing /\ cur.lease = v.request.lease /\ cur.gen = v.request.gen
                      /\ operation_bindings[o].context = [sel |-> s, catalog |-> cur]
<1>1. /\ o \in Operations /\ o \in Bound /\ o \in Known
      /\ v.request = operation_bindings[o].request /\ v.status \in Statuses
      /\ v.request.lease = held_lease /\ ReceiptTrue(v)
  BY AnswerAbout
<1>2. s \in Sels /\ v.request.kind # "smith"
  BY <1>1 DEF ReceiptTrue
<1>3. ~Awaiting(o)
  BY <1>1, <1>2 DEF Awaiting
<1>4. selector_reservations' = selector_reservations \ {o}
  BY DEF RecordCompletion
<1>5. CASE matches
  <2>1. s \in Admitted
    BY <1>2, <1>5 DEF Admitted
  <2>2. o \in Settled("completed")
    BY <1>1 DEF Settled
  <2>3. /\ selector_admissions' = [selector_admissions EXCEPT ![s] = Nothing]
        /\ operation_bindings' = WithStatus(
             [p \in Operations |-> IF p \in Bound /\ Related(o, p, s, cur)
                                   THEN [operation_bindings[p] EXCEPT
                                    !.completed = [sel |-> s, catalog |-> cur]]
                                   ELSE operation_bindings[p]], o, v.status)
        /\ closed' = [closed EXCEPT ![s] = cur]
    BY <1>5, Zenon DEF RecordCompletion
  <2>4. cur.lease = held_lease /\ cur.gen = v.request.gen
        /\ operation_bindings[o].context = [sel |-> s, catalog |-> cur]
    BY <1>1, <1>5
  <2>5. /\ UNCHANGED <<held_lease, game, receipts, used>>
        /\ dispatch' = dispatch \/ dispatch' = NoDispatch
    OBVIOUS
  <2> HIDE DEF s
  <2>6. QED
    BY <1>1, <1>4, <2>1, <2>2, <2>3, <2>4, <2>5, CompletionSound
<1>6. CASE ~matches
  <2>1. /\ operation_bindings' = WithStatus(operation_bindings, o, v.status)
        /\ UNCHANGED <<selector_admissions, closed>>
    BY <1>6, Zenon DEF RecordCompletion
  <2>2. QED
    BY <1>1, <1>3, <1>4, <2>1, StatusSound
<1>7. QED
  BY <1>5, <1>6

\* A context is given once.
LEMMA ContextEffect ==
  ASSUME RestTyped, NEW o \in Bound, NEW s \in Sels,
         NEW a \in Catalogs, NEW f, f = WithContext(o, s, a)
  PROVE  /\ operation_bindings[o].context # Nothing => f = operation_bindings
         /\ operation_bindings[o].context = Nothing =>
              /\ f \in [Operations -> Bindings \cup {Nothing}] /\ f[o] \in Bindings
              /\ f[o].request = operation_bindings[o].request
              /\ f[o].context = [sel |-> s, catalog |-> a]
              /\ f[o].completed = operation_bindings[o].completed
              /\ \A p \in Operations : p # o => f[p] = operation_bindings[p]
<1>1. /\ o \in Operations /\ operation_bindings[o] \in Bindings
      /\ operation_bindings \in [Operations -> Bindings \cup {Nothing}]
  BY BindingTyped DEF RestTyped
<1>2. PICK c : c = [sel |-> s, catalog |-> a]
  OBVIOUS
<1>3. PICK n : n = [operation_bindings[o] EXCEPT !.context = c]
  OBVIOUS
<1>4. operation_bindings[o].context = Nothing => f = [operation_bindings EXCEPT ![o] = n]
  BY <1>2, <1>3, Zenon DEF WithContext
<1>5. operation_bindings[o].context # Nothing => f = operation_bindings
  BY Zenon DEF WithContext
<1>6. c \in Contexts
  BY <1>2 DEF Contexts
<1>7. /\ n \in Bindings /\ n.request = operation_bindings[o].request
      /\ n.context = c /\ n.completed = operation_bindings[o].completed
  BY <1>1, <1>3, <1>6 DEF Bindings
<1>8. operation_bindings[o].context = Nothing =>
        /\ f \in [Operations -> Bindings \cup {Nothing}] /\ f[o] = n
        /\ \A p \in Operations : p # o => f[p] = operation_bindings[p]
  BY <1>1, <1>4, <1>7
<1>9. QED
  BY <1>2, <1>5, <1>7, <1>8

\* A catalog that is newer than the current one of its selection.
LEMMA AdvanceSound ==
  ASSUME RestInv, NEW o \in Bound, NEW st \in Statuses,
         NEW s \in Admitted, NEW a \in Catalogs,
         ~Awaiting(o), a.lease = held_lease, selector_admissions[s].lease = held_lease,
         a.gen > selector_admissions[s].gen, CatalogTrue(s, a),
         operation_bindings' = WithStatus(operation_bindings, o, st),
         selector_admissions' = [selector_admissions EXCEPT ![s] = a],
         selector_reservations' = selector_reservations \ {o},
         dispatch' = dispatch \/ dispatch' = NoDispatch,
         UNCHANGED <<held_lease, game, receipts, closed, used>>
  PROVE  RestInv'
<1> USE DEF RestInv
<1>1. /\ operation_bindings' \in [Operations -> Bindings \cup {Nothing}]
      /\ Bound' = Bound
  BY StatusEffect
<1>2. \A p \in Bound :
        /\ operation_bindings'[p].request = operation_bindings[p].request
        /\ operation_bindings'[p].context = operation_bindings[p].context
        /\ operation_bindings'[p].completed = operation_bindings[p].completed
        /\ p # o => operation_bindings'[p] = operation_bindings[p]
  BY StatusEffect
<1>3. /\ s \in Sels /\ selector_admissions[s].gen \in Nat /\ a.gen \in Nat
      /\ selector_admissions[s] # Nothing /\ a # Nothing
  BY AdmissionTyped, NothingIsNoEntry DEF Admitted, Catalogs
<1>4. /\ selector_admissions' \in [Sels -> Catalogs \cup {Nothing}]
      /\ selector_admissions'[s] = a
      /\ \A t \in Sels : t # s => selector_admissions'[t] = selector_admissions[t]
  BY <1>3 DEF RestTyped
<1>5. Admitted' = Admitted
  BY <1>3, <1>4 DEF Admitted
<1>6. /\ held_lease' = held_lease /\ game' = game /\ receipts' = receipts /\ closed' = closed
      /\ used' = used /\ Known' = Known
  BY DEF Known
<1>7. RestTyped'
  BY <1>1, <1>4, <1>6 DEF RestTyped
<1>8. CallBound'
  BY <1>1, <1>2, <1>6 DEF CallBound
<1>9. ReceiptsTrue'
  BY <1>6 DEF ReceiptsTrue, ReceiptTrue, Past, SettledAny
<1>10. \A p \in Bound : BindingTrue(p, operation_bindings[p])'
  BY <1>2, <1>6 DEF BindingsTrue, BindingTrue, Past, CatalogTrue
<1>11. \A p \in Bound : ContextFits(p, operation_bindings[p])'
  BY <1>2, <1>6 DEF BindingsTrue, ContextFits, Settled
<1>12. ASSUME NEW p \in Bound
       PROVE  SeenOrMarked(operation_bindings[p])'
  <2> DEFINE b == operation_bindings[p]
  <2>1. SeenOrMarked(b)
    BY DEF BindingsTrue
  <2>2. operation_bindings'[p].context = b.context
        /\ operation_bindings'[p].completed = b.completed
    BY <1>2
  <2>3. b.context # Nothing => b.context.sel \in Sels /\ b.context.catalog.gen \in Nat
    BY BindingTyped, ContextTyped
  <2> HIDE DEF b
  <2>4. QED
    BY <1>3, <1>4, <1>6, <2>1, <2>2, <2>3 DEF SeenOrMarked, Covers
<1>13. BindingsTrue'
  BY <1>1, <1>10, <1>11, <1>12 DEF BindingsTrue
<1>14. \A p \in Operations : Awaiting(p)' <=> Awaiting(p)
  BY <1>1, <1>2, <1>6 DEF Awaiting
<1>15. AwaitingReserved'
  BY <1>14 DEF AwaitingReserved
<1>16. UnseenStands'
  BY <1>1, <1>2, <1>5, <1>6, <1>14 DEF UnseenStands, Unseen, SettledAny
<1>17. AdmissionsTrue'
  BY <1>4, <1>5, <1>6 DEF AdmissionsTrue, CatalogTrue, Admitted
<1>18. MarksOlder'
  <2>1. ASSUME NEW p \in Bound, operation_bindings[p].completed # Nothing
        PROVE  LET m == operation_bindings[p].completed
               IN /\ m.sel \in Admitted /\ selector_admissions'[m.sel].lease
                                             = m.catalog.lease =>
                       selector_admissions'[m.sel].gen > m.catalog.gen
                  /\ \A q \in Settled("progressed") : m.catalog.gen # receipts[q].request.gen
    <3>1. PICK m : m = operation_bindings[p].completed
      OBVIOUS
    <3>2. m.sel \in Sels /\ m.catalog.gen \in Nat
      BY <2>1, <3>1, BindingTyped, ContextTyped
    <3>3. /\ m.sel \in Admitted /\ selector_admissions[m.sel].lease = m.catalog.lease =>
               selector_admissions[m.sel].gen > m.catalog.gen
          /\ \A q \in Settled("progressed") : m.catalog.gen # receipts[q].request.gen
      BY <2>1, <3>1 DEF MarksOlder
    <3>4. m.sel \in Admitted /\ selector_admissions'[m.sel].lease = m.catalog.lease =>
            selector_admissions'[m.sel].gen > m.catalog.gen
      <4>1. CASE m.sel = s
        BY <1>3, <1>4, <3>2, <3>3, <4>1
      <4>2. CASE m.sel # s
        BY <1>4, <3>2, <3>3, <4>2
      <4>3. QED
        BY <4>1, <4>2
    <3>5. QED
      BY <3>1, <3>3, <3>4
  <2>2. ASSUME NEW t \in Sels, closed[t] # Nothing
        PROVE  /\ closed[t].gen < game.gen
               /\ t \in Admitted /\ selector_admissions'[t].lease = closed[t].lease =>
                    selector_admissions'[t].gen > closed[t].gen
    <3>1. /\ closed[t].gen < game.gen /\ closed[t].gen \in Nat
          /\ t \in Admitted /\ selector_admissions[t].lease = closed[t].lease =>
               selector_admissions[t].gen > closed[t].gen
      BY <2>2 DEF MarksOlder, RestTyped, Catalogs
    <3>2. QED
      BY <1>3, <1>4, <3>1
  <2>3. QED
    BY <1>1, <1>2, <1>5, <1>6, <2>1, <2>2 DEF MarksOlder, Settled
<1>19. Promised'
  <2>1. Cardinality(Admitted) + Cardinality(selector_reservations')
          <= MAX_SELECTOR_ADMISSIONS
    BY FewerPromised
  <2>2. \A p \in selector_reservations' :
          /\ operation_bindings'[p].request.kind = "smith"
          /\ ~is_terminal(operation_bindings'[p].status)
    BY <1>2 DEF Promised, RestTyped
  <2>3. QED
    BY <1>5, <2>1, <2>2 DEF Promised
<1>20. QED
  BY <1>7, <1>8, <1>9, <1>13, <1>15, <1>16, <1>17, <1>18, <1>19

\* The first answer about a selection opens it, in the slot that was promised.
LEMMA OpenSound ==
  ASSUME RestInv, NEW o \in Bound, NEW st \in Statuses,
         NEW s \in Sels, s \notin Admitted, NEW a \in Catalogs,
         Unseen(o), receipts[o].sel = s, receipts[o].kind = "requested",
         a.lease = held_lease, a.gen = game.gen, a.chosen = 0, CatalogTrue(s, a), NEW f,
         f = WithContext(o, s, a), operation_bindings' = WithStatus(f, o, st),
         selector_admissions' = [selector_admissions EXCEPT ![s] = a],
         selector_reservations' = selector_reservations \ {o},
         dispatch' = dispatch \/ dispatch' = NoDispatch,
         UNCHANGED <<held_lease, game, receipts, closed, used>>
  PROVE  RestInv'
<1> USE DEF RestInv
<1> DEFINE c == [sel |-> s, catalog |-> a]
<1>1. /\ o \in Operations /\ Awaiting(o) /\ operation_bindings[o].context = Nothing
      /\ o \in SettledAny /\ receipts[o].after = game.gen
      /\ operation_bindings[o].request.kind = "smith"
      /\ operation_bindings[o].request.lease = held_lease
      /\ BindingTrue(o, operation_bindings[o])
  BY DEF Unseen, Awaiting, UnseenStands, BindingsTrue, Bound
<1>2. operation_bindings[o].completed = Nothing
  BY <1>1 DEF BindingTrue
<1>3. c \in Contexts /\ c.sel = s /\ c.catalog = a
  BY DEF Contexts
<1>4. c # Nothing /\ a # Nothing
  BY <1>3, NothingIsNoEntry
<1>5. /\ f \in [Operations -> Bindings \cup {Nothing}] /\ f[o] \in Bindings
      /\ f[o].request = operation_bindings[o].request
      /\ f[o].context = c
      /\ f[o].completed = operation_bindings[o].completed
      /\ \A p \in Operations : p # o => f[p] = operation_bindings[p]
  BY <1>1, ContextEffect
<1> HIDE DEF c
<1>6. PICK g : g = operation_bindings'
  OBVIOUS
<1>7. /\ g \in [Operations -> Bindings \cup {Nothing}] /\ g[o] \in Bindings
      /\ g[o].request = operation_bindings[o].request
      /\ g[o].context = c /\ g[o].completed = Nothing
      /\ \A p \in Operations : p # o => g[p] = operation_bindings[p]
  <2>1. g = WithStatus(f, o, st)
    BY <1>6
  <2>2. /\ g \in [Operations -> Bindings \cup {Nothing}] /\ g[o] \in Bindings
        /\ g[o].request = f[o].request /\ g[o].context = f[o].context
        /\ g[o].completed = f[o].completed
        /\ \A p \in Operations : p # o => g[p] = f[p]
    BY <1>1, <1>5, <2>1, WithStatusEffect
  <2>3. QED
    BY <1>2, <1>5, <2>2
<1>8. g[o] # Nothing
  BY <1>7, NothingIsNoEntry
<1>9. Bound' = Bound
  BY <1>6, <1>7, <1>8 DEF Bound
<1>10. \A p \in Bound : p # o => operation_bindings'[p] = operation_bindings[p]
  BY <1>6, <1>7 DEF Bound
<1>11. /\ operation_bindings'[o].request = operation_bindings[o].request
       /\ operation_bindings'[o].context = c /\ operation_bindings'[o].completed = Nothing
  BY <1>6, <1>7
<1>12. /\ game.gen \in Nat /\ held_lease \in Nat /\ a.gen \in Nat /\ a.lease \in Nat
  BY GameTyped DEF Catalogs
<1>13. /\ selector_admissions' \in [Sels -> Catalogs \cup {Nothing}]
       /\ selector_admissions'[s] = a
       /\ \A t \in Sels : t # s => selector_admissions'[t] = selector_admissions[t]
  BY DEF RestTyped
<1>14. Admitted' = Admitted \cup {s}
  BY <1>4, <1>13 DEF Admitted
<1>15. /\ held_lease' = held_lease /\ game' = game /\ receipts' = receipts /\ closed' = closed
       /\ used' = used /\ Known' = Known /\ SettledAny' = SettledAny
       /\ \A kind : Settled(kind)' = Settled(kind)
  BY DEF Known, Settled, SettledAny
<1>16. RestTyped'
  BY <1>6, <1>7, <1>9, <1>13, <1>15 DEF RestTyped
<1>17. CallBound'
  BY <1>9, <1>10, <1>11, <1>15 DEF CallBound
<1>18. ReceiptsTrue'
  BY <1>15 DEF ReceiptsTrue, ReceiptTrue, Past
<1>19. \A p \in Bound : BindingTrue(p, operation_bindings[p])'
  <2>1. \A p \in Bound : BindingTrue(p, operation_bindings'[p])
    <3>1. BindingTrue(o, operation_bindings'[o])
      BY <1>1, <1>3, <1>11 DEF BindingTrue
    <3>2. QED
      BY <1>10, <3>1 DEF BindingsTrue
  <2>2. QED
    BY <1>15, <2>1 DEF BindingTrue, Past, CatalogTrue
<1>20. \A p \in Bound : ContextFits(p, operation_bindings[p])'
  <2>1. ContextFits(o, operation_bindings'[o])
    BY <1>1, <1>3, <1>11 DEF ContextFits, Settled, SettledAny
  <2>2. \A p \in Bound : ContextFits(p, operation_bindings'[p])
    BY <1>10, <2>1 DEF BindingsTrue
  <2>3. QED
    BY <1>15, <2>2 DEF ContextFits
<1>21. ASSUME NEW p \in Bound
       PROVE  SeenOrMarked(operation_bindings[p])'
  <2>1. CASE p = o
    BY <1>3, <1>4, <1>11, <1>12, <1>13, <1>15, <2>1 DEF SeenOrMarked
  <2>2. CASE p # o
    <3> DEFINE b == operation_bindings[p]
    <3>1. SeenOrMarked(b) /\ operation_bindings'[p] = b
      BY <1>10, <2>2 DEF BindingsTrue
    <3>2. b.context # Nothing => b.context.sel \in Sels
      BY BindingTyped, ContextTyped
    <3>3. selector_admissions[s] = Nothing
      BY DEF Admitted
    <3> HIDE DEF b
    <3>4. QED
      BY <1>13, <1>15, <3>1, <3>2, <3>3 DEF SeenOrMarked, Covers
  <2>3. QED
    BY <2>1, <2>2
<1>22. BindingsTrue'
  BY <1>9, <1>19, <1>20, <1>21 DEF BindingsTrue
<1>23. \A p \in Operations : Awaiting(p)' => p # o /\ Awaiting(p)
  BY <1>4, <1>9, <1>10, <1>11, <1>15 DEF Awaiting
<1>24. AwaitingReserved'
  BY <1>23 DEF AwaitingReserved
<1>25. \A p \in Operations : ~Unseen(p)'
  <2>1. ASSUME NEW p \in Operations, Unseen(p)'
        PROVE  FALSE
    <3>1. Unseen(p) /\ p # o
      BY <1>15, <1>23, <2>1 DEF Unseen
    <3>2. p \in SettledAny /\ receipts[p].after = game.gen
      BY <3>1 DEF Unseen, UnseenStands
    <3>3. receipts[p].request.gen \in Nat /\ receipts[o].request.gen \in Nat
      BY <1>1, <3>2, ReceiptTyped DEF SettledAny
    <3>4. /\ receipts[p].after = receipts[p].request.gen + 1
          /\ receipts[o].after = receipts[o].request.gen + 1
      BY <1>1, <3>2 DEF SettledAny, ReceiptsTrue, ReceiptTrue
    <3>5. receipts[p].request.gen = receipts[o].request.gen
      BY <1>1, <3>2, <3>3, <3>4
    <3>6. QED
      BY <1>1, <3>1, <3>2, <3>5 DEF ReceiptsTrue
  <2>2. QED
    BY <2>1
<1>26. UnseenStands'
  BY <1>25 DEF UnseenStands
<1>27. AdmissionsTrue'
  BY <1>13, <1>14, <1>15 DEF AdmissionsTrue, CatalogTrue, Admitted
<1>28. MarksOlder'
  <2>1. ASSUME NEW p \in Bound, operation_bindings'[p].completed # Nothing
        PROVE  LET m == operation_bindings'[p].completed
               IN /\ m.sel \in Admitted' /\ selector_admissions'[m.sel].lease
                                              = m.catalog.lease =>
                       selector_admissions'[m.sel].gen > m.catalog.gen
                  /\ \A q \in Settled("progressed") : m.catalog.gen # receipts[q].request.gen
    <3>1. PICK m : m = operation_bindings[p].completed
      OBVIOUS
    <3>2. p # o /\ operation_bindings'[p].completed = m /\ m # Nothing
      BY <1>10, <1>11, <2>1, <3>1
    <3>3. m.sel \in Sels /\ m.catalog.gen \in Nat
      BY <3>1, <3>2, BindingTyped, ContextTyped
    <3>4. m.catalog.gen < game.gen
      BY <3>1, <3>2 DEF BindingsTrue, BindingTrue
    <3>5. /\ m.sel \in Admitted /\ selector_admissions[m.sel].lease = m.catalog.lease =>
               selector_admissions[m.sel].gen > m.catalog.gen
          /\ \A q \in Settled("progressed") : m.catalog.gen # receipts[q].request.gen
      BY <3>1, <3>2 DEF MarksOlder
    <3>6. m.sel \in Admitted' /\ selector_admissions'[m.sel].lease = m.catalog.lease =>
            selector_admissions'[m.sel].gen > m.catalog.gen
      <4>1. CASE m.sel = s
        BY <1>12, <1>13, <3>3, <3>4, <4>1
      <4>2. CASE m.sel # s
        BY <1>13, <1>14, <3>3, <3>5, <4>2
      <4>3. QED
        BY <4>1, <4>2
    <3>7. QED
      BY <3>2, <3>5, <3>6
  <2>2. ASSUME NEW t \in Sels, closed[t] # Nothing
        PROVE  /\ closed[t].gen < game.gen
               /\ t \in Admitted' /\ selector_admissions'[t].lease = closed[t].lease =>
                    selector_admissions'[t].gen > closed[t].gen
    <3>1. /\ closed[t].gen < game.gen /\ closed[t].gen \in Nat
          /\ t \in Admitted /\ selector_admissions[t].lease = closed[t].lease =>
               selector_admissions[t].gen > closed[t].gen
      BY <2>2 DEF MarksOlder, RestTyped, Catalogs
    <3>2. QED
      BY <1>12, <1>13, <1>14, <3>1
  <2>3. QED
    BY <1>9, <1>15, <2>1, <2>2 DEF MarksOlder
<1>29. Promised'
  <2>1. /\ IsFiniteSet(Admitted) /\ IsFiniteSet(selector_reservations)
        /\ Cardinality(Admitted) \in Nat /\ Cardinality(selector_reservations) \in Nat
        /\ MAX_SELECTOR_ADMISSIONS \in Nat
    BY MemoryFinite
  <2>2. o \in selector_reservations
    BY <1>1 DEF AwaitingReserved
  <2>3. Cardinality(Admitted \cup {s}) = Cardinality(Admitted) + 1
    BY <2>1, FS_AddElement
  <2>4. Cardinality(selector_reservations \ {o}) = Cardinality(selector_reservations) - 1
    BY <2>1, <2>2, FS_RemoveElement
  <2>5. Cardinality(Admitted) + Cardinality(selector_reservations)
          <= MAX_SELECTOR_ADMISSIONS
    BY DEF Promised
  <2>6. Cardinality(Admitted \cup {s}) + Cardinality(selector_reservations \ {o})
          <= MAX_SELECTOR_ADMISSIONS
    BY <2>1, <2>3, <2>4, <2>5
  <2>7. \A p \in selector_reservations' :
          /\ operation_bindings'[p].request.kind = "smith"
          /\ ~is_terminal(operation_bindings'[p].status)
    BY <1>10 DEF Promised, RestTyped
  <2>8. QED
    BY <1>14, <2>6, <2>7 DEF Promised
<1>30. QED
  BY <1>16, <1>17, <1>18, <1>22, <1>24, <1>26, <1>27, <1>28, <1>29

\* What the answer about a selection finds: its operation is the one that
\* opens it, or its selection is current, or marked as new as the answer.
LEMMA CatalogCases ==
  ASSUME RestInv, NEW o, receipts[o] # Nothing, BindingValid(o, receipts[o]),
         receipts[o].status = "Settled", receipts[o].kind \in {"requested", "progressed"}
  PROVE  LET v == receipts[o]
             a == Catalog(v.after, v.request.lease, v.chosen)
         IN /\ a \in Catalogs /\ a.gen = v.after /\ a.lease = held_lease
            /\ a.chosen = v.chosen /\ v.sel \in Sels /\ CatalogTrue(v.sel, a)
            /\ Awaiting(o) =>
                 /\ Unseen(o) /\ v.kind = "requested" /\ v.chosen = 0 /\ v.after = game.gen
                 /\ v.sel \notin Admitted
                 /\ ~completed_selector_blocks(v.sel, a)
            /\ ~Awaiting(o) =>
                 /\ operation_bindings[o].context # Nothing
                 /\ \/ /\ v.sel \in Admitted
                       /\ selector_admissions[v.sel].lease = held_lease
                    \/ completed_selector_blocks(v.sel, a)
<1> USE DEF RestInv
<1> DEFINE v == receipts[o]
           b == operation_bindings[o]
           a == Catalog(v.after, v.request.lease, v.chosen)
<1>1. /\ o \in Operations /\ o \in Bound /\ o \in Known
      /\ v.request = b.request /\ v.request.lease = held_lease /\ ReceiptTrue(v)
      /\ BindingTrue(o, b) /\ ContextFits(o, b) /\ SeenOrMarked(b)
  BY AnswerAbout
<1>2. /\ v.after \in Nat /\ v.chosen \in Nat /\ v.request.gen \in Nat /\ held_lease \in Nat
      /\ game.gen \in Nat
  BY <1>1, ReceiptTyped, GameTyped
<1>3. /\ a \in Catalogs /\ a.gen = v.after /\ a.lease = held_lease /\ a.chosen = v.chosen
  BY <1>1, <1>2 DEF Catalog, Catalogs
<1> HIDE DEF a
<1>4. /\ v.sel \in Sels /\ v.after = v.request.gen + 1 /\ v.after <= game.gen
      /\ v.kind = "requested" => v.request.kind = "smith" /\ v.chosen = 0
      /\ v.kind = "progressed" => v.request.kind = "select" /\ v.sel = v.request.sel
  BY <1>1 DEF ReceiptTrue
<1>5. CatalogTrue(v.sel, a)
  BY <1>1, <1>2, <1>3, <1>4 DEF ReceiptTrue, CatalogTrue
<1>6. o \in SettledAny /\ o \in Settled(v.kind)
  BY <1>1 DEF SettledAny, Settled
<1>7. ASSUME Awaiting(o)
      PROVE  /\ Unseen(o) /\ v.kind = "requested" /\ v.chosen = 0 /\ v.after = game.gen
             /\ v.sel \notin Admitted
             /\ ~completed_selector_blocks(v.sel, a)
  <2>1. Unseen(o) /\ v.kind = "requested" /\ v.chosen = 0
    BY <1>1, <1>4, <1>6, <1>7 DEF Unseen, Awaiting
  <2>2. v.after = game.gen /\ v.sel \notin Admitted
    BY <1>1, <2>1 DEF UnseenStands
  <2>3. \A p \in Bound : operation_bindings[p].completed # Nothing =>
          /\ operation_bindings[p].completed.catalog.gen \in Nat
          /\ operation_bindings[p].completed.catalog.gen < game.gen
    BY BindingTyped, ContextTyped DEF BindingsTrue, BindingTrue
  <2>4. ~completed_selector_blocks(v.sel, a)
    BY <1>2, <1>3, <2>2, <2>3 DEF completed_selector_blocks, Bound
  <2>5. QED
    BY <2>1, <2>2, <2>4
<1>8. ASSUME ~Awaiting(o)
      PROVE  /\ b.context # Nothing
             /\ \/ v.sel \in Admitted /\ selector_admissions[v.sel].lease = held_lease
                \/ completed_selector_blocks(v.sel, a)
  <2>1. b.context # Nothing
    BY <1>1, <1>4, <1>8 DEF Awaiting, BindingTrue
  <2>2. b.context.catalog.gen \in Nat /\ b.context.catalog.lease = held_lease
    BY <1>1, <2>1, BindingTyped, ContextTyped DEF BindingTrue
  <2>3. b.context.sel = v.sel
    BY <1>1, <1>4, <1>6, <2>1 DEF BindingTrue, ContextFits, Settled
  <2>4. CASE Covers(b.completed, b.context.sel, b.context.catalog)
    <3>1. /\ b.completed # Nothing /\ b.completed.sel = v.sel
          /\ b.completed.catalog.lease = held_lease
          /\ b.completed.catalog.gen >= b.context.catalog.gen
          /\ b.completed.catalog.gen \in Nat
      BY <1>1, <2>2, <2>3, <2>4, BindingTyped, ContextTyped DEF Covers
    <3>2. a.gen <= b.completed.catalog.gen
      <4>1. CASE v.kind = "requested"
        <5>1. v.after = b.context.catalog.gen
          BY <1>1, <1>4, <2>1, <4>1 DEF ContextFits
        <5>2. QED
          BY <1>3, <3>1, <5>1
      <4>2. CASE v.kind = "progressed"
        <5>1. b.context.catalog.gen = v.request.gen
          BY <1>1, <1>4, <4>2 DEF BindingTrue
        <5>2. b.completed.catalog.gen # v.request.gen
          BY <1>1, <1>6, <3>1, <4>2 DEF MarksOlder
        <5>3. QED
          BY <1>2, <1>3, <1>4, <3>1, <5>1, <5>2
      <4>3. QED
        BY <4>1, <4>2
    <3>3. QED
      BY <1>1, <1>3, <2>1, <3>1, <3>2 DEF completed_selector_blocks, Bound
  <2>5. CASE ~Covers(b.completed, b.context.sel, b.context.catalog)
    BY <1>1, <1>4, <2>1, <2>2, <2>3, <2>5 DEF SeenOrMarked, Admitted
  <2>6. QED
    BY <2>4, <2>5
<1>9. QED
  BY <1>3, <1>4, <1>5, <1>7, <1>8 DEF a

\* RecordCatalog: there always is room.
LEMMA RecordCatalogKeeps ==
  ASSUME RestInv, NEW o, receipts[o] # Nothing, BindingValid(o, receipts[o]),
         receipts[o].status = "Settled", receipts[o].kind \in {"requested", "progressed"},
         NEW reconciling \in BOOLEAN, RecordCatalog(o, receipts[o], reconciling),
         dispatch' = dispatch \/ dispatch' = NoDispatch,
         UNCHANGED <<held_lease, game, receipts, closed, used>>
  PROVE  RestInv'
<1> DEFINE v == receipts[o]
           s == v.sel
           a == Catalog(v.after, v.request.lease, v.chosen)
           cur == selector_admissions[s]
           room == Cardinality(Admitted) < MAX_SELECTOR_ADMISSIONS \/ s \in Admitted
           blocked == completed_selector_blocks(s, a)
<1>1. o \in Operations /\ o \in Bound /\ v.status \in Statuses
  BY AnswerAbout
<1>2. /\ a \in Catalogs /\ a.gen = v.after /\ a.lease = held_lease
      /\ a.chosen = v.chosen /\ s \in Sels /\ CatalogTrue(s, a)
      /\ Awaiting(o) => /\ Unseen(o) /\ v.kind = "requested" /\ v.chosen = 0
                        /\ v.after = game.gen /\ s \notin Admitted /\ ~blocked
      /\ ~Awaiting(o) => /\ operation_bindings[o].context # Nothing
                         /\ (s \in Admitted /\ cur.lease = held_lease) \/ blocked
  BY CatalogCases
<1>3. /\ UNCHANGED <<held_lease, game, receipts, closed, used>>
      /\ dispatch' = dispatch \/ dispatch' = NoDispatch
  OBVIOUS
<1>4. CASE blocked
  <2>1. /\ selector_reservations' = selector_reservations \ {o}
        /\ operation_bindings' = WithStatus(operation_bindings, o, v.status)
        /\ UNCHANGED selector_admissions
    BY <1>4, Zenon DEF RecordCatalog
  <2>2. ~Awaiting(o)
    BY <1>2, <1>4
  <2>3. QED
    BY <1>1, <2>1, <2>2, StatusSound
<1>5. CASE ~blocked
  <2>1. room
    <3>1. CASE Awaiting(o)
      <4>1. o \in selector_reservations
        BY <1>1, <3>1 DEF RestInv, AwaitingReserved
      <4>2. /\ Cardinality(Admitted) \in Nat /\ Cardinality(selector_reservations) \in Nat
            /\ IsFiniteSet(selector_reservations) /\ MAX_SELECTOR_ADMISSIONS \in Nat
        BY MemoryFinite DEF RestInv
      <4>3. Cardinality(selector_reservations) # 0
        BY <4>1, <4>2, FS_EmptySet
      <4>4. QED
        BY <4>2, <4>3 DEF RestInv, Promised
    <3>2. CASE ~Awaiting(o)
      BY <1>2, <1>5, <3>2
    <3>3. QED
      BY <3>1, <3>2
  <2>2. Cardinality(Admitted) < MAX_SELECTOR_ADMISSIONS \/ s \in Admitted
    BY <2>1
  <2>3. /\ selector_reservations' = selector_reservations \ {o}
        /\ operation_bindings' = WithStatus(
             WithContext(o, s, IF cur = Nothing THEN a ELSE cur), o, v.status)
        /\ selector_admissions' =
             IF should_advance(cur, a, reconciling)
             THEN [selector_admissions EXCEPT ![s] = a] ELSE selector_admissions
    BY <1>5, <2>2, Zenon DEF RecordCatalog
  <2>4. CASE Awaiting(o)
    <3>1. s \notin Admitted /\ cur = Nothing
      BY <1>2, <2>4 DEF Admitted
    <3>2. selector_admissions' = [selector_admissions EXCEPT ![s] = a]
      BY <2>3, <3>1 DEF should_advance
    <3>3. PICK f : f = WithContext(o, s, a)
      OBVIOUS
    <3>4. operation_bindings' = WithStatus(f, o, v.status)
      BY <2>3, <3>1, <3>3
    <3>5. /\ o \in Bound /\ v.status \in Statuses /\ s \in Sels
          /\ s \notin Admitted /\ a \in Catalogs /\ Unseen(o)
          /\ receipts[o].sel = s /\ receipts[o].kind = "requested"
          /\ a.lease = held_lease /\ a.gen = game.gen /\ a.chosen = 0 /\ CatalogTrue(s, a)
      BY <1>1, <1>2, <2>4, <3>1
    <3>6. selector_reservations' = selector_reservations \ {o}
      BY <2>3
    <3> HIDE DEF a, s, v, cur, room, blocked
    <3>7. QED
      BY <1>3, <3>2, <3>3, <3>4, <3>5, <3>6, OpenSound
  <2>5. CASE ~Awaiting(o)
    <3>1. s \in Admitted /\ cur.lease = held_lease /\ operation_bindings[o].context # Nothing
      BY <1>2, <1>5, <2>5
    <3>2. cur # Nothing
      BY <3>1 DEF Admitted
    <3>3. operation_bindings' = WithStatus(operation_bindings, o, v.status)
      BY <2>3, <3>1, Zenon DEF WithContext
    <3>4. CASE should_advance(cur, a, reconciling)
      <4>1. a.gen > cur.gen
        BY <1>2, <3>1, <3>2, <3>4 DEF should_advance
      <4>2. selector_admissions' = [selector_admissions EXCEPT ![s] = a]
        BY <2>3, <3>4
      <4> HIDE DEF a, room, blocked, s
      <4>3. QED
        BY <1>1, <1>2, <1>3, <2>3, <2>5, <3>1, <3>3, <4>1, <4>2, AdvanceSound
    <3>5. CASE ~should_advance(cur, a, reconciling)
      <4>1. selector_admissions' = selector_admissions
        BY <2>3, <3>5
      <4>2. QED
        BY <1>1, <1>3, <2>3, <2>5, <3>3, <4>1, StatusSound
    <3>6. QED
      BY <3>4, <3>5
  <2>6. QED
    BY <2>4, <2>5
<1>6. QED
  BY <1>4, <1>5

\* validate_response
LEMMA ValidateKeeps ==
  ASSUME RestInv, NEW o, NEW reconciling \in BOOLEAN,
         validate_response(o, reconciling),
         dispatch' = dispatch \/ dispatch' = NoDispatch,
         UNCHANGED <<held_lease, game, receipts, used>>
  PROVE  RestInv'
<1>1. receipts[o] # Nothing /\ BindingValid(o, receipts[o])
  BY DEF validate_response, response_valid
<1>2. CASE /\ receipts[o].status = "Settled"
           /\ receipts[o].kind \in {"requested", "progressed"}
  BY <1>1, <1>2, RecordCatalogKeeps DEF validate_response
<1>3. CASE receipts[o].status = "Settled" /\ receipts[o].kind = "completed"
  BY <1>1, <1>3, RecordCompletionKeeps DEF validate_response
<1>4. CASE ~(receipts[o].status = "Settled"
               /\ receipts[o].kind \in {"requested", "progressed", "completed"})
  BY <1>1, <1>4, RecordOtherKeeps DEF validate_response
<1>5. QED
  BY <1>2, <1>3, <1>4

\* Every step keeps the invariant.
LEMMA NextRest == ASSUME RestInv, [RestNext]_rest_vars PROVE RestInv'
<1>1. ASSUME NEW o \in Operations, NEW r \in Requests, Dispatch(o, r) PROVE RestInv'
  BY <1>1, DispatchKeeps
<1>2. ASSUME NEW o \in Operations, ReconcileAnswered(o) PROVE RestInv'
  BY <1>2, ValidateKeeps DEF ReconcileAnswered
<1>3. ASSUME NEW o \in Operations, UnknownAnswer(o) PROVE RestInv'
  BY <1>3, UnknownAnswerKeeps
<1>4. ASSUME NEW o \in Operations, ModSettles(o) PROVE RestInv'
  BY <1>4, ModSettlesKeeps
<1>5. CASE DispatchAnswered
  BY <1>5, ValidateKeeps DEF DispatchAnswered
<1>6. CASE ResponseLost
  BY <1>6, ResponseLostKeeps
<1>7. CASE ModReceives
  BY <1>7, ModReceivesKeeps
<1>8. CASE NewLease
  BY <1>8, NewLeaseKeeps
<1>9. CASE GatewayRestarts
  BY <1>9, RestartForgets
<1>10. CASE UNCHANGED rest_vars
  <2>1. UNCHANGED memory /\ UNCHANGED <<held_lease, game, receipts, closed, used>>
        /\ dispatch' = dispatch
    BY <1>10 DEF rest_vars
  <2>2. CallBound'
    BY <2>1 DEF RestInv, CallBound, memory, Bound
  <2>3. QED
    BY <2>1, <2>2, CallSteps
<1>11. QED
  BY <1>1, <1>2, <1>3, <1>4, <1>5, <1>6, <1>7, <1>8, <1>9, <1>10 DEF RestNext

\* The inductive invariant holds throughout.
THEOREM RestInvariant == RestSpec => []RestInv
<1>1. RestInit => RestInv
  BY InitRest
<1>2. RestInv /\ [RestNext]_rest_vars => RestInv'
  BY NextRest
<1>3. QED
  BY <1>1, <1>2, PTL DEF RestSpec

\* SlotsArePromised: an answer that opens a selection always finds its slot.
THEOREM SlotsArePromisedTheorem == RestSpec => []SlotsArePromised
<1>1. ASSUME RestInv PROVE SlotsArePromised
  <2>1. Cardinality(Admitted) + Cardinality(selector_reservations)
          <= MAX_SELECTOR_ADMISSIONS
    BY <1>1 DEF RestInv, Promised
  <2>2. selector_reservations \subseteq Bound \ TerminalBound
    BY <1>1 DEF RestInv, RestTyped, Promised, TerminalBound
  <2>3. QED
    BY <2>1, <2>2 DEF SlotsArePromised
<1>2. QED
  BY <1>1, RestInvariant, PTL

\* TruthIsAccepted: what the mod answers for an operation is never refused.
THEOREM TruthIsAcceptedTheorem == RestSpec => []TruthIsAccepted
<1>1. ASSUME RestInv, NEW o \in Bound, receipts[o] # Nothing,
             receipts[o].request = operation_bindings[o].request,
             operation_bindings[o].request.lease = held_lease, NEW reconciling \in BOOLEAN
      PROVE  response_valid(o, receipts[o], reconciling)
  <2> DEFINE v == receipts[o]
             b == operation_bindings[o]
  <2>1. BindingValid(o, v)
    BY <1>1 DEF BindingValid
  <2>2. /\ o \in Operations /\ o \in Known /\ v.request = b.request /\ v.request.lease = held_lease
        /\ ReceiptTrue(v) /\ BindingTrue(o, b) /\ ContextFits(o, b)
    BY <1>1, <2>1, AnswerAbout
  <2>3. /\ v.after \in Nat /\ v.chosen \in Nat /\ v.request.gen \in Nat
    BY <1>1, <2>2, ReceiptTyped DEF RestInv
  <2>4. ASSUME v.status = "Settled"
        PROVE  transition_generations(v)
    BY <2>2, <2>3, <2>4 DEF ReceiptTrue, transition_generations
  <2>5. ASSUME v.status = "Settled", v.kind \in {"requested", "progressed", "completed"}
        PROVE  /\ v.sel \in Sels
               /\ b.context # Nothing /\ b.context.sel = v.sel =>
                    admissions(o)[v.sel] = b.context.catalog
               /\ b.context = Nothing =>
                    admissions(o)[v.sel] = selector_admissions[v.sel]
    <3>1. v.sel \in Sels
      BY <2>2, <2>5 DEF ReceiptTrue
    <3>2. b.context = Nothing => b.completed = Nothing
      BY <2>2 DEF BindingTrue
    <3>3. admissions(o)[v.sel] =
            IF b.context # Nothing /\ b.context.sel = v.sel THEN b.context.catalog
            ELSE IF b.completed # Nothing /\ b.completed.sel = v.sel THEN b.completed.catalog
            ELSE selector_admissions[v.sel]
      BY <3>1 DEF admissions
    <3>4. QED
      BY <3>1, <3>2, <3>3
  <2>6. ASSUME v.status = "Settled", v.kind \in {"requested", "progressed"}
        PROVE  selector_valid(v, admissions(o)[v.sel], reconciling)
    <3>1. CASE Awaiting(o)
      <4>1. b.context = Nothing /\ v.kind = "requested"
            /\ v.sel \notin Admitted /\ v.sel \in Sels
        BY <1>1, <2>1, <2>6, <3>1, CatalogCases DEF Awaiting
      <4>2. admissions(o)[v.sel] = Nothing
        BY <2>5, <2>6, <4>1 DEF Admitted
      <4>3. QED
        BY <4>1, <4>2 DEF selector_valid
    <3>2. CASE ~Awaiting(o)
      <4>1. b.context # Nothing
        BY <1>1, <2>1, <2>6, <3>2, CatalogCases
      <4>2. /\ b.context.catalog.lease = v.request.lease
            /\ v.kind = "requested" => /\ v.sel = b.context.sel /\ v.chosen = 0
                                       /\ v.after = b.context.catalog.gen
                                       /\ b.context.catalog.chosen = 0
            /\ v.kind = "progressed" => /\ v.sel = b.context.sel
                                        /\ b.context.catalog.gen = v.request.gen
                                        /\ b.context.catalog.chosen + 1 = v.chosen
                                        /\ v.after = v.request.gen + 1
        BY <2>2, <2>6, <4>1 DEF BindingTrue, ContextFits, ReceiptTrue, Settled
      <4>3. admissions(o)[v.sel] = b.context.catalog
        BY <2>5, <2>6, <4>1, <4>2
      <4>4. b.context.catalog # Nothing
        BY <1>1, <4>1, BindingTyped, ContextTyped, NothingIsNoEntry DEF RestInv
      <4>5. selector_valid(v, b.context.catalog, reconciling)
        BY <2>3, <2>6, <4>2, <4>4
           DEF selector_valid, selector_admission_generation_and_progress
      <4>6. QED
        BY <4>3, <4>5
    <3>3. QED
      BY <3>1, <3>2
  <2>7. ASSUME v.status = "Settled", v.kind = "completed"
        PROVE  completed_selection_valid(v, admissions(o)[v.sel])
    <3>1. /\ b.context # Nothing /\ b.context.sel = v.sel
          /\ b.context.catalog.lease = v.request.lease
          /\ b.context.catalog.gen = v.request.gen
          /\ b.context.catalog.chosen <= v.chosen
      BY <2>2, <2>7 DEF BindingTrue, ContextFits, ReceiptTrue, Settled
    <3>2. admissions(o)[v.sel] = b.context.catalog
      BY <2>5, <2>7, <3>1
    <3>3. b.context.catalog # Nothing
      BY <1>1, <3>1, BindingTyped, ContextTyped, NothingIsNoEntry DEF RestInv
    <3>4. QED
      BY <3>1, <3>2, <3>3 DEF completed_selection_valid
  <2>8. QED
    BY <2>1, <2>4, <2>6, <2>7 DEF response_valid
<1>2. RestInv => TruthIsAccepted
  BY <1>1 DEF TruthIsAccepted
<1>3. QED
  BY <1>2, RestInvariant, PTL

\* CompletedStaysClosed: what a reconciliation admits is newer than the catalog
\* of the last completion.
LEMMA ClosedStep ==
  ASSUME RestInv, RestInv', [RestNext]_rest_vars, dispatch = NoDispatch,
         NEW s \in Sels, selector_admissions'[s] \notin {Nothing, selector_admissions[s]},
         closed[s] # Nothing, closed[s].lease = selector_admissions'[s].lease
  PROVE  selector_admissions'[s].gen > closed[s].gen
<1>1. s \in Admitted'
  BY DEF Admitted
<1>2. closed'[s] = closed[s] => selector_admissions'[s].gen > closed[s].gen
  BY <1>1 DEF RestInv, MarksOlder
<1>3. CASE closed' = closed
  BY <1>2, <1>3
<1>4. CASE GatewayRestarts
  BY <1>4 DEF GatewayRestarts
<1>5. ASSUME NEW o \in Operations, ReconcileAnswered(o), closed' # closed
      PROVE  closed'[s] = closed[s]
  <2> DEFINE t == receipts[o].sel
             cur == selector_admissions[t]
  <2>1. RecordCompletion(o, receipts[o])
    BY <1>5 DEF ReconcileAnswered, validate_response
  <2>2. /\ selector_admissions' = [selector_admissions EXCEPT ![t] = Nothing]
        /\ closed' = [closed EXCEPT ![t] = cur]
    BY <1>5, <2>1, Zenon DEF RecordCompletion
  <2> HIDE DEF t, cur
  <2>3. s # t
    BY <2>2 DEF RestInv, RestTyped
  <2>4. QED
    BY <2>2, <2>3 DEF RestInv, RestTyped
<1>6. QED
  BY <1>2, <1>3, <1>4, <1>5
     DEF RestNext, Dispatch, UnknownAnswer, ModSettles, DispatchAnswered,
         ResponseLost, ModReceives, NewLease, rest_vars

THEOREM CompletedStaysClosedTheorem == RestSpec => CompletedStaysClosed
<1>1. RestInv /\ RestInv' /\ [RestNext]_rest_vars =>
        [dispatch = NoDispatch =>
           \A s \in Sels :
             /\ selector_admissions'[s] \notin {Nothing, selector_admissions[s]}
             /\ closed[s] # Nothing
             /\ closed[s].lease = selector_admissions'[s].lease
             => selector_admissions'[s].gen > closed[s].gen]_rest_vars
  BY ClosedStep
<1>2. QED
  BY <1>1, RestInvariant, PTL DEF RestSpec, CompletedStaysClosed
=============================================================================
