----------------------- MODULE AttachedRoutesProofs -----------------------
(* Proofs about the routes of the attached service that keep state, for     *)
(* every roster, every set of operations, cursors, kinds and identities,    *)
(* and any number of leases and restarts.                                   *)
(*                                                                          *)
(* The three routes share the worker and the lease only, and each has an    *)
(* inductive invariant of its own: ReportsInv, NativeInv, InformationInv.   *)
EXTENDS AttachedRoutes, FiniteSetTheorems, WellFoundedInduction, TLAPS

-----------------------------------------------------------------------------
(* The inductive invariants.                                                *)

PeerRecords == [generation : Nat \cup {None}, age : Nat \cup {None}]

\* A peer with a time has reported, and the ledger stands at what peers that
\* are all fresh and agree have reported.
ReportsInv ==
  /\ peers \in [Peers -> PeerRecords]
  /\ generation \in Nat
  /\ \A p \in Peers : peers[p].age # None => peers[p].generation # None
  /\ generation > 0 =>
       \A p \in Peers : /\ peers[p].generation # None
                        /\ peers[p].generation >= generation
  /\ (\A p \in Peers : /\ fresh(p, peers)
                      /\ peers[p].generation = peers[FirstPeer].generation)
     => peers[FirstPeer].generation = generation

ReceiptRecords ==
  [status : {None, "accepted", "settled", "rejected"}, before : Nat,
   after : Nat \cup {None}, authority : Nat]
ReceiptSound(r) ==
  /\ r.status = None => r = NoReceipt
  /\ r.status = "settled" => r.after \in Nat
ToldRecords ==
  [acked : Nat \cup {None}, final : {None, "settled", "rejected", "refused"},
   authority : Nat \cup {None}]

NativeTypeOK ==
  /\ pending \in PendingRecords \cup {None}
  /\ asked \in Exchanges \cup {None}
  /\ late \subseteq Frames
  /\ host \in [generation : Nat, authority : Nat,
               receipts : [Ops -> ReceiptRecords]]
  /\ \A o \in Ops : ReceiptSound(host.receipts[o])
  /\ told \in [Ops -> ToldRecords]

\* What an operation's caller was told, against its receipt and its slot.
ToldSound(o) ==
  /\ told[o].acked # None => host.receipts[o].status # None
  /\ told[o].acked # None /\ told[o].final \notin Final =>
       /\ pending # None
       /\ pending.op = o
       /\ pending.authority = told[o].acked
  /\ told[o].final \in Final =>
       /\ host.receipts[o].status = told[o].final
       /\ host.receipts[o].authority = told[o].authority
  /\ told[o].final \in Final /\ told[o].acked # None =>
       told[o].authority = told[o].acked

MutationsOf(o, frames) ==
  {f \in frames : f.op = o /\ f.route \in Mutations}

\* The frame of a mutation the mod has not seen is the only one of it.
OnlyForward ==
  asked # None /\ ~asked.taken =>
    LET o == asked.frame.op IN
    /\ asked.frame.route \in Mutations
    /\ o \notin former
    /\ host.receipts[o].status = None
    => MutationsOf(o, late) = {}

\* An answer 400 or 409 was given by a mod that had no receipt and, if it is
\* the mutation that was refused, no other frame of it is on its way.
RefusalSound(o) ==
  /\ told[o].acked = None
  /\ asked.frame.route \in Mutations /\ o \notin former =>
       /\ host.receipts[o].status \notin {"accepted", "settled"}
       /\ MutationsOf(o, late) = {}

\* An envelope was made from a receipt, and a final one stays as it was.
EnvelopeSound(o) ==
  /\ answer.what = "envelope"
  /\ answer.status \in Unresolved \cup Final
  /\ answer.view.authority \in Nat
  /\ host.receipts[o].status # None
  /\ answer.status \in Unresolved => told[o].final \notin Final
  /\ answer.status \in Final =>
       /\ host.receipts[o].status = answer.status
       /\ host.receipts[o].authority = answer.authority

AnswerSound ==
  answer # None =>
    /\ asked # None
    /\ asked.taken
    /\ LET o == asked.frame.op IN
       \/ answer \in {Error(503), Malformed}
       \/ answer \in {Error(400), Error(409)} /\ RefusalSound(o)
       \/ EnvelopeSound(o)

NativeInv ==
  /\ NativeTypeOK
  /\ \A o \in Ops : ToldSound(o)
  /\ PendingUntilResolved
  /\ OnlyForward
  /\ AnswerSound

\* The authority of the lease in force, or of the last one.
Current == IF recovery THEN granted ELSE 0

InformationTypeOK ==
  /\ recovery \in BOOLEAN
  /\ lease \in Nat \cup {None}
  /\ granted \in Nat
  /\ due \in BOOLEAN
  /\ capabilities \in Advertised \cup {None}
  /\ lookup_binding \in Bindings \cup {None}
  /\ bootstrap \in [supported : Nat \cup {None}, failed : BOOLEAN]
  /\ runtime_v3_baseline \in Nat \cup {None}
  /\ call \in Calls \cup {None}
  /\ evidence \in [kinds : SUBSET Kinds, identity : Identities \cup {None},
                   baseline : BOOLEAN]
  /\ cursor_bindings \in [Cursors -> Kinds \cup {None}]
  /\ handed \in [Cursors -> Pages \cup {None}]

\* A lease in force is the last one granted, and a request has one.
LeaseSound ==
  /\ lease # None => lease = Current
  /\ recovery /\ lease # None => granted > 0
  /\ due => recovery
  /\ call # None => lease # None

\* What is kept is of this authority or an earlier one; what is kept of this
\* authority is what the mod proved since the lease began.
KeptSound ==
  /\ capabilities # None =>
       /\ capabilities.authority <= Current
       /\ recovery => capabilities.authority > 0
       /\ capabilities.authority = Current =>
            capabilities.kinds = evidence.kinds
  /\ lookup_binding # None =>
       /\ lookup_binding.authority <= Current
       /\ recovery => lookup_binding.authority > 0
       /\ lookup_binding.authority = Current =>
            lookup_binding.identity = evidence.identity
  /\ runtime_v3_baseline # None =>
       /\ runtime_v3_baseline <= Current
       /\ recovery => runtime_v3_baseline > 0
       /\ runtime_v3_baseline = Current => evidence.baseline
  /\ bootstrap.supported # None =>
       /\ bootstrap.supported <= Current
       /\ recovery => bootstrap.supported > 0

\* A snapshot is made from capabilities of this lease; once answered it is
\* read before anything else happens.
SnapshotSound ==
  /\ call # None => (call.route = "snapshot" => CapabilitiesCurrent)
  /\ offered # None => call = None

Bound == {c \in Cursors : cursor_bindings[c] # None}

CursorsSound ==
  /\ IsFiniteSet(Bound)
  /\ Cardinality(Bound) <= MAX_CURSOR_BINDINGS
  /\ \A c \in Cursors : cursor_bindings[c] # None =>
       handed[c] # None /\ cursor_bindings[c] = handed[c].query

InformationInv ==
  /\ InformationTypeOK
  /\ LeaseSound
  /\ KeptSound
  /\ SnapshotSound
  /\ OffersAreProved
  /\ CursorsSound

-----------------------------------------------------------------------------
(* Which step touches which route.                                          *)

\* Every step is one of the reports, one of the native routes, one of the
\* information routes, a change of the lease, a restart, or none.
LEMMA Steps ==
  ASSUME [Next]_vars
  PROVE  \/ coop_peer_report /\ UNCHANGED <<nativeVars, leaseVars, informationVars>>
         \/ Tick /\ UNCHANGED <<nativeVars, leaseVars, informationVars>>
         \/ /\ coop_native_request \/ Unavailable \/ Answered \/ ModAnswers
               \/ ModTakesLate \/ ModSettles \/ AuthorityMoves
            /\ UNCHANGED <<leaseVars, informationVars>>
         \/ Information
         \/ Lease
         \/ Restart
         \/ UNCHANGED vars
  BY DEF Next, Coop, CoopRequest, CoopExchange

\* The native routes leave the reports alone.
LEMMA NativeLeavesReports ==
  ASSUME coop_native_request \/ Unavailable \/ Answered \/ ModAnswers
         \/ ModTakesLate \/ ModSettles \/ AuthorityMoves
  PROVE  UNCHANGED reportsVars
  BY DEF coop_native_request, Unavailable, Answered, ModAnswers,
     ModTakesLate, ModSettles, AuthorityMoves

-----------------------------------------------------------------------------
(* The peer reports.                                                        *)

\* A report keeps the invariant: the reporting peer is not below the ledger,
\* and the ledger moves only to what all peers reported.
LEMMA ReportInv ==
  ASSUME ReportsInv, coop_peer_report
  PROVE  ReportsInv'
<1> USE LeaseConfig, RosterConfig
<1>1. PICK p \in Peers, reported \in 0..(MAX_GENERATION + 1),
           connected \in BOOLEAN : report(p, reported, connected)
  BY DEF coop_peer_report
<1>2. reported \in Nat
  BY <1>1
<1> DEFINE new == [generation |-> reported,
                   age |-> IF connected THEN 0 ELSE None]
<1>3. new \in PeerRecords /\ new.generation = reported
  BY <1>2 DEF PeerRecords
<1> HIDE DEF new
<1>4. /\ peers' = [peers EXCEPT ![p] = new]
      /\ reported >= generation
  BY <1>1 DEF report, new
<1>5. peers' \in [Peers -> PeerRecords]
  BY <1>3, <1>4 DEF ReportsInv
<1>6. /\ peers'[p] = new
      /\ \A q \in Peers : q # p => peers'[q] = peers[q]
  BY <1>4 DEF ReportsInv
<1> DEFINE g == peers'[FirstPeer].generation
           Agreed == /\ g # None
                     /\ g >= generation
                     /\ \A q \in Peers : /\ fresh(q, peers')
                                         /\ peers'[q].generation = g
<1>7. generation' = IF Agreed THEN g ELSE generation
  BY <1>1 DEF report, advance
<1>8. g \in Nat \cup {None}
  BY <1>5 DEF PeerRecords
<1>9. generation' \in Nat
  BY <1>7, <1>8 DEF ReportsInv
<1>10. \A q \in Peers : peers'[q].age # None => peers'[q].generation # None
  BY <1>2, <1>3, <1>6 DEF ReportsInv
<1>11. generation' > 0 => \A q \in Peers :
         peers'[q].generation # None /\ peers'[q].generation >= generation'
  <2>1. CASE Agreed
    BY <2>1, <1>7, <1>8
  <2>2. CASE ~Agreed
    BY <2>2, <1>2, <1>3, <1>4, <1>6, <1>7 DEF ReportsInv
  <2> QED
    BY <2>1, <2>2
<1>12. (\A q \in Peers : fresh(q, peers') /\ peers'[q].generation = g)
       => g = generation'
  <2> SUFFICES ASSUME \A q \in Peers : /\ fresh(q, peers')
                                       /\ peers'[q].generation = g
               PROVE  g = generation'
    OBVIOUS
  <2>1. g = reported
    BY <1>3, <1>6
  <2>2. Agreed
    <3>1. g # None /\ g >= generation
      BY <2>1, <1>2, <1>4
    <3> QED
      BY <3>1
  <2> QED
    BY <2>2, <1>7
<1>13. (\A q \in Peers : fresh(q, peers) /\ peers[q].generation
                                           = peers[FirstPeer].generation)'
       => (\A q \in Peers : fresh(q, peers') /\ peers'[q].generation = g)
  BY DEF fresh
<1> QED
  BY <1>5, <1>9, <1>10, <1>11, <1>12, <1>13 DEF ReportsInv

\* As time passes peers grow old and say nothing new.
LEMMA TickInv ==
  ASSUME ReportsInv, Tick
  PROVE  ReportsInv'
<1> USE LeaseConfig, RosterConfig
<1> DEFINE aged(p) == IF fresh(p, peers)
                      THEN [peers[p] EXCEPT !.age = @ + 1] ELSE peers[p]
<1>1. \A p \in Peers :
        /\ aged(p) \in PeerRecords
        /\ aged(p).generation = peers[p].generation
        /\ aged(p).age # None => peers[p].age # None
        /\ aged(p).age # None /\ aged(p).age < REPORT_LIFETIME =>
             peers[p].age < REPORT_LIFETIME
  <2> SUFFICES ASSUME NEW p \in Peers
               PROVE  /\ aged(p) \in PeerRecords
                      /\ aged(p).generation = peers[p].generation
                      /\ aged(p).age # None => peers[p].age # None
                      /\ aged(p).age # None /\ aged(p).age < REPORT_LIFETIME =>
                           peers[p].age < REPORT_LIFETIME
    OBVIOUS
  <2>1. peers[p] \in PeerRecords
    BY DEF ReportsInv
  <2>2. CASE fresh(p, peers)
    <3>1. peers[p].age \in Nat
      BY <2>1, <2>2 DEF fresh, PeerRecords
    <3>2. aged(p).age = peers[p].age + 1
      BY <2>1, <2>2 DEF PeerRecords
    <3> QED
      BY <2>1, <2>2, <3>1, <3>2 DEF PeerRecords, fresh
  <2>3. CASE ~fresh(p, peers)
    BY <2>1, <2>3
  <2> QED
    BY <2>2, <2>3
<1>2. peers' = [p \in Peers |-> aged(p)] /\ generation' = generation
  BY DEF Tick
<1> HIDE DEF aged
<1>3. \A p \in Peers : peers'[p] = aged(p)
  BY <1>2
<1>4. \A p \in Peers : fresh(p, peers)' => fresh(p, peers)
  BY <1>1, <1>3 DEF fresh
<1>5. peers' \in [Peers -> PeerRecords]
  BY <1>1, <1>2
<1> QED
  BY <1>1, <1>2, <1>3, <1>4, <1>5 DEF ReportsInv

\* The peer reports keep their invariant.
LEMMA ReportsInvariant == Spec => []ReportsInv
<1> USE LeaseConfig, RosterConfig
<1>1. Silent \in PeerRecords /\ Silent.generation = None /\ Silent.age = None
  BY DEF Silent, PeerRecords
<1>2. ASSUME peers = [p \in Peers |-> Silent], generation = 0
      PROVE  ReportsInv
  BY <1>1, <1>2 DEF ReportsInv, fresh
<1>3. Init => ReportsInv
  BY <1>2 DEF Init, ReportsInit
<1>4. ReportsInv /\ [Next]_vars => ReportsInv'
  <2> SUFFICES ASSUME ReportsInv, [Next]_vars PROVE ReportsInv'
    OBVIOUS
  <2>1. ASSUME UNCHANGED reportsVars PROVE ReportsInv'
    BY <2>1 DEF reportsVars, ReportsInv, fresh
  <2>2. CASE Restart
    <3>1. peers' = [p \in Peers |-> Silent] /\ generation' = 0
      BY <2>2 DEF Restart, CoopRestart
    <3> QED
      BY <1>1, <3>1 DEF ReportsInv, fresh
  <2>3. CASE Information \/ Lease \/ UNCHANGED vars
    BY <2>1, <2>3 DEF Information, Lease, vars, coopVars
  <2> QED
    BY <2>1, <2>2, <2>3, Steps, ReportInv, TickInv, NativeLeavesReports
<1> QED
  BY <1>3, <1>4, PTL DEF Spec

\* Whatever the peers report, in any order, connected or not, as time passes
\* and over restarts, the generation the ledger answers is common: no peer is
\* below it, and peers that all agree and are fresh are synchronized.
THEOREM AgreementTheorem == Spec => []AgreementIsCommon
<1>1. ReportsInv => AgreementIsCommon
  BY RosterConfig DEF ReportsInv, AgreementIsCommon, snapshot
<1> QED
  BY <1>1, ReportsInvariant, PTL

-----------------------------------------------------------------------------
(* Game information and the negotiated capabilities.                        *)

\* The information invariant without the registry of cursors.
WitnessInv ==
  InformationTypeOK /\ LeaseSound /\ KeptSound /\ SnapshotSound
  /\ OffersAreProved

\* While a request is served its lease is the current one.
LEMMA ServedUnderLease ==
  ASSUME WitnessInv, lease # None
  PROVE  /\ Authority = Current
         /\ Current \in Nat
         /\ recovery => Current > 0
  BY LeaseConfig DEF WitnessInv, LeaseSound, InformationTypeOK, Authority,
     game_information_authority, Current

\* A request that is served ends what was answered before.
LEMMA ServeFacts ==
  ASSUME NEW c, Serve(c)
  PROVE  /\ call = None /\ lease # None
         /\ call' = c /\ offered' = None
         /\ UNCHANGED <<recovery, lease, granted, due>>
         /\ Current' = Current /\ Authority' = Authority
  BY DEF Serve, check_lease, leaseVars, Current, Authority,
     game_information_authority

\* An exchange that ends leaves nothing answered.
LEMMA ServedFacts ==
  ASSUME WitnessInv, NEW route, Served(route)
  PROVE  /\ call # None /\ lease # None /\ call.route = route
         /\ call' = None /\ offered' = None
  BY DEF Served, WitnessInv, SnapshotSound, LeaseSound

\* Capabilities are asked for: the former answer is dropped.
LEMMA CapabilitiesAskedInv ==
  ASSUME WitnessInv, game_information_capabilities
  PROVE  WitnessInv'
<1> USE LeaseConfig, InformationConfig, InformationNothing
<1>1. PICK c \in {[route |-> "capabilities"], None} : Serve(c)
  BY DEF game_information_capabilities
<1>2. /\ call = None /\ lease # None
      /\ call' = c /\ offered' = None
      /\ UNCHANGED <<recovery, lease, granted, due>>
      /\ Current' = Current /\ Authority' = Authority
  BY <1>1, ServeFacts
<1>3. /\ capabilities' = None
      /\ evidence' = [evidence EXCEPT !.kinds = {}]
      /\ UNCHANGED <<lookup_binding, bootstrap, runtime_v3_baseline, cursorVars>>
  BY DEF game_information_capabilities
<1>4. c \in Calls \cup {None} /\ (c # None => c.route = "capabilities")
  BY DEF Calls
<1>5. InformationTypeOK'
  BY <1>2, <1>3, <1>4 DEF WitnessInv, InformationTypeOK, cursorVars
<1>6. LeaseSound' /\ SnapshotSound' /\ OffersAreProved'
  BY <1>2, <1>4 DEF WitnessInv, LeaseSound, SnapshotSound, OffersAreProved
<1>7. KeptSound'
  BY <1>2, <1>3 DEF WitnessInv, KeptSound, InformationTypeOK
<1> QED
  BY <1>5, <1>6, <1>7 DEF WitnessInv

\* They are answered, or the snapshot's own question is.
LEMMA CapabilitiesAnsweredInv ==
  ASSUME WitnessInv, CapabilitiesAnswered
  PROVE  WitnessInv'
<1> USE LeaseConfig, InformationConfig, InformationNothing
<1>1. /\ call # None /\ lease # None /\ offered' = None
      /\ call' \in {None, [route |-> "snapshot", v2 |-> call.v2]}
      /\ call' # None => call.route = "negotiated"
  BY ServedFacts DEF CapabilitiesAnswered, WitnessInv, SnapshotSound,
     LeaseSound
<1>2. PICK kinds \in SUBSET Kinds :
        /\ capabilities' = [authority |-> Authority, kinds |-> kinds]
        /\ evidence' = [evidence EXCEPT !.kinds = kinds]
  BY DEF CapabilitiesAnswered, validate_capabilities
<1>3. /\ UNCHANGED <<lookup_binding, bootstrap, runtime_v3_baseline,
                     recovery, lease, granted, due, cursorVars>>
      /\ Current' = Current /\ Authority' = Authority
  BY DEF CapabilitiesAnswered, leaseVars, Current, Authority,
     game_information_authority
<1>4. Authority = Current /\ Current \in Nat /\ (recovery => Current > 0)
  BY <1>1, ServedUnderLease
<1>5. call' \in Calls \cup {None}
  BY <1>1 DEF Calls, WitnessInv, InformationTypeOK
<1>6. /\ capabilities' \in Advertised
      /\ capabilities'.authority = Current
      /\ capabilities'.kinds = kinds
  BY <1>2, <1>4 DEF Advertised
<1>7. /\ evidence'.kinds = kinds /\ evidence'.identity = evidence.identity
      /\ evidence'.baseline = evidence.baseline
  BY <1>2 DEF WitnessInv, InformationTypeOK
<1>8. InformationTypeOK'
  BY <1>2, <1>3, <1>5, <1>6 DEF WitnessInv, InformationTypeOK, cursorVars
<1>9. LeaseSound' /\ OffersAreProved'
  BY <1>1, <1>3 DEF WitnessInv, LeaseSound, OffersAreProved
<1>10. SnapshotSound'
  BY <1>1, <1>3, <1>4, <1>6 DEF SnapshotSound, CapabilitiesCurrent
<1>11. KeptSound'
  BY <1>3, <1>4, <1>6, <1>7 DEF WitnessInv, KeptSound
<1> QED
  BY <1>8, <1>9, <1>10, <1>11 DEF WitnessInv
\* A request that changes nothing that is kept.
LEMMA ServeInv ==
  ASSUME WitnessInv, NEW c \in Calls \cup {None}, Serve(c),
         UNCHANGED <<keptVars, cursorVars, evidence>>,
         c # None => c.route # "snapshot"
  PROVE  WitnessInv'
<1>1. /\ call' = c /\ offered' = None /\ lease # None
      /\ UNCHANGED <<recovery, lease, granted, due>>
      /\ Current' = Current /\ Authority' = Authority
  BY ServeFacts
<1>2. InformationTypeOK'
  BY <1>1 DEF WitnessInv, InformationTypeOK, keptVars, cursorVars
<1>3. LeaseSound' /\ SnapshotSound' /\ OffersAreProved'
  BY <1>1 DEF WitnessInv, LeaseSound, SnapshotSound, OffersAreProved
<1>4. KeptSound'
  BY <1>1 DEF WitnessInv, KeptSound, keptVars
<1> QED
  BY <1>2, <1>3, <1>4 DEF WitnessInv

\* A query goes to the mod.
LEMMA QueryAskedInv ==
  ASSUME WitnessInv, game_information_request
  PROVE  WitnessInv'
<1>1. PICK query \in Kinds : Serve([route |-> "query", query |-> query])
  BY DEF game_information_request
<1>2. /\ [route |-> "query", query |-> query] \in Calls
      /\ [route |-> "query", query |-> query].route # "snapshot"
  BY DEF Calls
<1> QED
  BY <1>1, <1>2, ServeInv DEF game_information_request

\* An exchange that ends and changes nothing that is kept but cursors.
LEMMA ServedInv ==
  ASSUME WitnessInv, NEW route, Served(route),
         UNCHANGED <<keptVars, evidence, leaseVars>>,
         cursor_bindings' \in [Cursors -> Kinds \cup {None}],
         handed' \in [Cursors -> Pages \cup {None}]
  PROVE  WitnessInv'
<1>1. /\ call' = None /\ offered' = None
      /\ UNCHANGED <<recovery, lease, granted, due>>
      /\ Current' = Current
  BY ServedFacts DEF leaseVars, Current
<1>2. InformationTypeOK'
  BY <1>1 DEF WitnessInv, InformationTypeOK, keptVars
<1>3. LeaseSound' /\ SnapshotSound' /\ OffersAreProved'
  BY <1>1 DEF WitnessInv, LeaseSound, SnapshotSound, OffersAreProved
<1>4. KeptSound'
  BY <1>1 DEF WitnessInv, KeptSound, keptVars
<1> QED
  BY <1>2, <1>3, <1>4 DEF WitnessInv

\* A discovery supersedes the former binding.
LEMMA DiscoveryAskedInv ==
  ASSUME WitnessInv, LookupDiscovery
  PROVE  WitnessInv'
<1> USE LeaseConfig, InformationConfig, InformationNothing
<1>1. /\ call' = [route |-> "discovery"] /\ offered' = None /\ lease # None
      /\ UNCHANGED <<recovery, lease, granted, due>>
      /\ Current' = Current /\ Authority' = Authority
  BY ServeFacts DEF LookupDiscovery
<1>2. /\ lookup_binding' = None
      /\ evidence' = [evidence EXCEPT !.identity = None]
      /\ UNCHANGED <<capabilities, bootstrap, runtime_v3_baseline, cursorVars>>
  BY DEF LookupDiscovery
<1>3. call' \in Calls /\ call'.route # "snapshot"
  BY <1>1 DEF Calls
<1>4. InformationTypeOK'
  BY <1>1, <1>2, <1>3 DEF WitnessInv, InformationTypeOK, cursorVars
<1>5. LeaseSound' /\ SnapshotSound' /\ OffersAreProved'
  BY <1>1, <1>3 DEF WitnessInv, LeaseSound, SnapshotSound, OffersAreProved
<1>6. KeptSound'
  BY <1>1, <1>2 DEF WitnessInv, KeptSound, InformationTypeOK
<1> QED
  BY <1>4, <1>5, <1>6 DEF WitnessInv

\* An identity of the configured manifest is bound to this authority.
LEMMA DiscoveryAnsweredInv ==
  ASSUME WitnessInv, DiscoveryAnswered
  PROVE  WitnessInv'
<1> USE LeaseConfig, InformationConfig, InformationNothing
<1>1. /\ call' = None /\ offered' = None /\ lease # None
      /\ UNCHANGED <<recovery, lease, granted, due>>
      /\ Current' = Current
  BY ServedFacts DEF DiscoveryAnswered, leaseVars, Current
<1>2. Authority = Current /\ Current \in Nat /\ (recovery => Current > 0)
  BY <1>1, ServedUnderLease
<1>3. UNCHANGED <<capabilities, bootstrap, runtime_v3_baseline, cursorVars>>
  BY DEF DiscoveryAnswered
<1>4. LeaseSound' /\ SnapshotSound' /\ OffersAreProved'
  BY <1>1 DEF WitnessInv, LeaseSound, SnapshotSound, OffersAreProved
<1>5. PICK identity \in Identities :
        \/ /\ lookup_binding' = [authority |-> Authority,
                                 identity |-> identity]
           /\ evidence' = [evidence EXCEPT !.identity = identity]
        \/ UNCHANGED <<lookup_binding, evidence>>
  BY DEF DiscoveryAnswered
<1>6. CASE UNCHANGED <<lookup_binding, evidence>>
  <2>1. InformationTypeOK' /\ KeptSound'
    BY <1>1, <1>3, <1>6 DEF WitnessInv, InformationTypeOK, KeptSound,
       cursorVars
  <2> QED
    BY <1>4, <2>1 DEF WitnessInv
<1>7. CASE /\ lookup_binding' = [authority |-> Authority,
                                 identity |-> identity]
           /\ evidence' = [evidence EXCEPT !.identity = identity]
  <2>1. /\ lookup_binding' \in Bindings
        /\ lookup_binding'.authority = Current
        /\ lookup_binding'.identity = identity
    BY <1>2, <1>7 DEF Bindings
  <2>2. /\ evidence'.kinds = evidence.kinds
        /\ evidence'.identity = identity
        /\ evidence'.baseline = evidence.baseline
    BY <1>7 DEF WitnessInv, InformationTypeOK
  <2>3. InformationTypeOK'
    BY <1>1, <1>3, <1>7, <2>1 DEF WitnessInv, InformationTypeOK, cursorVars
  <2>4. KeptSound'
    BY <1>1, <1>2, <1>3, <2>1, <2>2 DEF WitnessInv, KeptSound
  <2> QED
    BY <1>4, <2>3, <2>4 DEF WitnessInv
<1> QED
  BY <1>5, <1>6, <1>7

\* An observation or a bootstrap under a binding, or a binding dropped.
LEMMA BoundRequestInv ==
  ASSUME WitnessInv, BoundRequest
  PROVE  WitnessInv'
<1> USE LeaseConfig, InformationConfig, InformationNothing
<1>1. PICK c \in {None, [route |-> "observe"], [route |-> "bootstrap"]} :
        Serve(c)
  BY DEF BoundRequest
<1>2. c \in Calls \cup {None} /\ (c # None => c.route # "snapshot")
  BY DEF Calls
<1>3. /\ call' = c /\ offered' = None /\ lease # None
      /\ UNCHANGED <<recovery, lease, granted, due>>
      /\ Current' = Current /\ Authority' = Authority
  BY <1>1, ServeFacts
<1>4. /\ lookup_binding' \in {lookup_binding, None}
      /\ UNCHANGED <<capabilities, bootstrap, runtime_v3_baseline, cursorVars,
                     evidence>>
  BY DEF BoundRequest
<1>5. InformationTypeOK'
  BY <1>2, <1>3, <1>4 DEF WitnessInv, InformationTypeOK, cursorVars
<1>6. LeaseSound' /\ SnapshotSound' /\ OffersAreProved'
  BY <1>2, <1>3 DEF WitnessInv, LeaseSound, SnapshotSound, OffersAreProved
<1>7. KeptSound'
  BY <1>3, <1>4 DEF WitnessInv, KeptSound
<1> QED
  BY <1>5, <1>6, <1>7 DEF WitnessInv

\* An observation of another identity ends the binding.
LEMMA ObservationAnsweredInv ==
  ASSUME WitnessInv, ObservationAnswered
  PROVE  WitnessInv'
<1> USE LeaseConfig, InformationConfig, InformationNothing
<1>1. /\ call' = None /\ offered' = None /\ lease # None
      /\ UNCHANGED <<recovery, lease, granted, due>>
      /\ Current' = Current
  BY ServedFacts DEF ObservationAnswered, leaseVars, Current
<1>2. UNCHANGED <<capabilities, bootstrap, runtime_v3_baseline, cursorVars>>
  BY DEF ObservationAnswered
<1>3. \/ UNCHANGED <<lookup_binding, evidence>>
      \/ /\ lookup_binding' = None
         /\ evidence' = [evidence EXCEPT !.identity = None]
  BY DEF ObservationAnswered
<1>4. InformationTypeOK'
  BY <1>1, <1>2, <1>3 DEF WitnessInv, InformationTypeOK, cursorVars
<1>5. LeaseSound' /\ SnapshotSound' /\ OffersAreProved'
  BY <1>1 DEF WitnessInv, LeaseSound, SnapshotSound, OffersAreProved
<1>6. KeptSound'
  BY <1>1, <1>2, <1>3 DEF WitnessInv, KeptSound, InformationTypeOK
<1> QED
  BY <1>4, <1>5, <1>6 DEF WitnessInv
\* The outcome of a bootstrap is kept under this authority.
LEMMA BootstrapOutcomeInv ==
  ASSUME WitnessInv, Served("bootstrap"), NEW failed \in BOOLEAN,
         bootstrap' = [supported |-> Authority, failed |-> failed],
         UNCHANGED <<capabilities, lookup_binding, runtime_v3_baseline,
                     cursorVars, evidence, leaseVars>>
  PROVE  WitnessInv'
<1> USE LeaseConfig, InformationConfig, InformationNothing
<1>1. /\ call' = None /\ offered' = None /\ lease # None
      /\ UNCHANGED <<recovery, lease, granted, due>>
      /\ Current' = Current
  BY ServedFacts DEF leaseVars, Current
<1>2. Authority = Current /\ Current \in Nat /\ (recovery => Current > 0)
  BY <1>1, ServedUnderLease
<1>3. InformationTypeOK'
  BY <1>1, <1>2 DEF WitnessInv, InformationTypeOK, cursorVars
<1>4. LeaseSound' /\ SnapshotSound' /\ OffersAreProved'
  BY <1>1 DEF WitnessInv, LeaseSound, SnapshotSound, OffersAreProved
<1>5. bootstrap'.supported = Current
  BY <1>2
<1>6. KeptSound'
  BY <1>1, <1>2, <1>5 DEF WitnessInv, KeptSound
<1> QED
  BY <1>3, <1>4, <1>6 DEF WitnessInv

\* A bootstrap fails, or is answered; an answer that finds the lease over
\* ends it and decides nothing.
LEMMA BootstrapInv ==
  ASSUME WitnessInv, BootstrapFailed \/ BootstrapAnswered
  PROVE  WitnessInv'
<1> USE LeaseConfig, InformationConfig, InformationNothing
<1>1. /\ Served("bootstrap")
      /\ UNCHANGED <<capabilities, lookup_binding, runtime_v3_baseline,
                     cursorVars, evidence>>
  BY DEF BootstrapFailed, BootstrapAnswered
<1>2. CASE BootstrapFailed
  BY <1>1, <1>2, BootstrapOutcomeInv DEF BootstrapFailed
<1>3. CASE BootstrapAnswered /\ ~due
  <2>1. PICK valid \in BOOLEAN :
          bootstrap' = [supported |-> Authority, failed |-> ~valid]
    BY <1>3 DEF BootstrapAnswered
  <2>2. UNCHANGED leaseVars
    BY <1>3 DEF BootstrapAnswered
  <2>3. PICK failed \in BOOLEAN : failed = ~valid
    OBVIOUS
  <2> QED
    BY <1>1, <2>1, <2>2, <2>3, BootstrapOutcomeInv
<1>4. CASE BootstrapAnswered /\ due
  <2>1. /\ lease' = None /\ due' = FALSE
        /\ UNCHANGED <<recovery, granted, bootstrap>>
    BY <1>4 DEF BootstrapAnswered
  <2>2. call' = None /\ offered' = None /\ Current' = Current
    BY <1>1, <2>1, ServedFacts DEF Current
  <2>3. InformationTypeOK'
    BY <1>1, <2>1, <2>2 DEF WitnessInv, InformationTypeOK, cursorVars
  <2>4. LeaseSound' /\ SnapshotSound' /\ OffersAreProved'
    BY <2>1, <2>2 DEF WitnessInv, LeaseSound, SnapshotSound, OffersAreProved
  <2>5. KeptSound'
    BY <1>1, <2>1, <2>2 DEF WitnessInv, KeptSound
  <2> QED
    BY <2>3, <2>4, <2>5 DEF WitnessInv
<1> QED
  BY <1>2, <1>3, <1>4 DEF WitnessInv, InformationTypeOK

\* A snapshot is asked for: a bootstrap of another authority is offered anew,
\* capabilities of another authority are dropped.
LEMMA NegotiatedInv ==
  ASSUME WitnessInv, negotiated_capabilities
  PROVE  WitnessInv'
<1> USE LeaseConfig, InformationConfig, InformationNothing
<1>1. PICK v2 \in BOOLEAN :
        Serve([route |-> IF CapabilitiesCurrent THEN "snapshot"
                         ELSE "negotiated",
               v2 |-> v2])
  BY DEF negotiated_capabilities
<1> DEFINE c == [route |-> IF CapabilitiesCurrent THEN "snapshot"
                           ELSE "negotiated",
                 v2 |-> v2]
<1>2. c \in Calls /\ (c.route = "snapshot" => CapabilitiesCurrent)
  BY DEF Calls
<1>3. /\ call' = c /\ offered' = None /\ lease # None
      /\ UNCHANGED <<recovery, lease, granted, due>>
      /\ Current' = Current /\ Authority' = Authority
  BY <1>1, ServeFacts
<1> HIDE DEF c
<1>4. Authority = Current /\ Current \in Nat /\ (recovery => Current > 0)
  BY <1>3, ServedUnderLease
<1>5. /\ bootstrap' = IF bootstrap.supported = Authority THEN bootstrap
                      ELSE [supported |-> IF LiveBootstrap THEN Authority
                                          ELSE None,
                            failed |-> FALSE]
      /\ IF CapabilitiesCurrent THEN UNCHANGED <<capabilities, evidence>>
         ELSE /\ capabilities' = None
              /\ evidence' = [evidence EXCEPT !.kinds = {}]
      /\ UNCHANGED <<lookup_binding, runtime_v3_baseline, cursorVars>>
  BY DEF negotiated_capabilities
<1>6. /\ evidence'.identity = evidence.identity
      /\ evidence'.baseline = evidence.baseline
      /\ evidence' \in [kinds : SUBSET Kinds,
                        identity : Identities \cup {None},
                        baseline : BOOLEAN]
  BY <1>5 DEF WitnessInv, InformationTypeOK
<1>7. bootstrap' \in [supported : Nat \cup {None}, failed : BOOLEAN]
  BY <1>4, <1>5 DEF WitnessInv, InformationTypeOK
<1>8. InformationTypeOK'
  BY <1>2, <1>3, <1>5, <1>6, <1>7 DEF WitnessInv, InformationTypeOK,
     cursorVars
<1>9. LeaseSound' /\ OffersAreProved'
  BY <1>3 DEF WitnessInv, LeaseSound, OffersAreProved
<1>10. SnapshotSound'
  BY <1>2, <1>3, <1>5 DEF SnapshotSound, CapabilitiesCurrent
<1>11. bootstrap'.supported # None =>
         /\ bootstrap'.supported <= Current
         /\ recovery => bootstrap'.supported > 0
  <2>1. CASE bootstrap.supported = Authority
    BY <2>1, <1>4, <1>5 DEF WitnessInv, KeptSound
  <2>2. CASE bootstrap.supported # Authority
    <3>1. bootstrap'.supported \in {Authority, None}
      BY <2>2, <1>5
    <3> QED
      BY <3>1, <1>4
  <2> QED
    BY <2>1, <2>2
<1>12. capabilities' # None =>
         capabilities' = capabilities /\ evidence'.kinds = evidence.kinds
  BY <1>5
<1>13. KeptSound'
  BY <1>3, <1>5, <1>6, <1>11, <1>12 DEF WitnessInv, KeptSound
<1> QED
  BY <1>8, <1>9, <1>10, <1>13 DEF WitnessInv

\* The state exchange of a snapshot: the baseline is of this authority or
\* gone, and the lease may end.
LEMMA RefreshFacts ==
  ASSUME WitnessInv, call # None, refresh_runtime_v3_baseline
  PROVE  /\ UNCHANGED <<recovery, granted>>
         /\ Current' = Current
         /\ due' \in BOOLEAN /\ (due' => recovery)
         /\ lease' \in {lease, None}
         /\ lease' = None => recovery
         /\ runtime_v3_baseline' \in {Current, None}
         /\ runtime_v3_baseline' = Current => evidence'.baseline
         /\ lease' = None => runtime_v3_baseline' = None
         /\ evidence' \in {evidence, [evidence EXCEPT !.baseline = TRUE]}
<1> USE LeaseConfig, InformationConfig, InformationNothing
<1>1. lease # None /\ Authority = Current /\ Current \in Nat
  BY ServedUnderLease DEF WitnessInv, LeaseSound
<1>2. CASE runtime_v3_baseline = Authority
  BY <1>1, <1>2 DEF refresh_runtime_v3_baseline, leaseVars, Current,
     WitnessInv, InformationTypeOK, LeaseSound, KeptSound
<1>3. CASE runtime_v3_baseline # Authority
  <2>1. CASE /\ ~due
             /\ runtime_v3_baseline' = Authority
             /\ evidence' = [evidence EXCEPT !.baseline = TRUE]
             /\ UNCHANGED leaseVars
    <3>1. evidence'.baseline
      BY <2>1 DEF WitnessInv, InformationTypeOK
    <3> QED
      BY <1>1, <2>1, <3>1 DEF leaseVars, Current, WitnessInv,
         InformationTypeOK, LeaseSound
  <2>2. CASE /\ runtime_v3_baseline' = None
             /\ lease' = IF due THEN None ELSE lease
             /\ due' = FALSE
             /\ UNCHANGED <<recovery, granted, evidence>>
    BY <1>1, <2>2 DEF Current, WitnessInv, InformationTypeOK, LeaseSound
  <2> QED
    BY <1>3, <2>1, <2>2 DEF refresh_runtime_v3_baseline
<1> QED
  BY <1>2, <1>3

\* What a snapshot offers has been proved under the lease it names.
LEMMA SnapshotAnsweredInv ==
  ASSUME WitnessInv, SnapshotAnswered
  PROVE  WitnessInv'
<1> USE LeaseConfig, InformationConfig, InformationNothing
<1>1. /\ UNCHANGED <<recovery, granted>>
      /\ Current' = Current
      /\ due' \in BOOLEAN /\ (due' => recovery)
      /\ lease' \in {lease, None}
      /\ lease' = None => recovery
      /\ runtime_v3_baseline' \in {Current, None}
      /\ runtime_v3_baseline' = Current => evidence'.baseline
      /\ lease' = None => runtime_v3_baseline' = None
      /\ evidence' \in {evidence, [evidence EXCEPT !.baseline = TRUE]}
  BY RefreshFacts DEF SnapshotAnswered
<1>2. /\ call' = None
      /\ UNCHANGED <<capabilities, lookup_binding, bootstrap, cursorVars>>
      /\ offered' = Offers(lease', runtime_v3_baseline', call.v2)
  BY DEF SnapshotAnswered
<1>3. lease # None /\ lease = Current /\ CapabilitiesCurrent
  BY DEF SnapshotAnswered, WitnessInv, SnapshotSound, LeaseSound
<1>4. Authority = Current /\ Current \in Nat /\ (recovery => Current > 0)
  BY <1>3, ServedUnderLease
<1>5. /\ evidence'.kinds = evidence.kinds
      /\ evidence'.identity = evidence.identity
      /\ evidence.baseline => evidence'.baseline
  BY <1>1 DEF WitnessInv, InformationTypeOK
<1>6. InformationTypeOK'
  BY <1>1, <1>2, <1>4 DEF WitnessInv, InformationTypeOK, cursorVars
<1>7. LeaseSound' /\ SnapshotSound'
  BY <1>1, <1>2 DEF WitnessInv, LeaseSound, SnapshotSound
<1>8. KeptSound'
  BY <1>1, <1>2, <1>4, <1>5 DEF WitnessInv, KeptSound
<1>9. OffersAreProved'
  <2> DEFINE l == game_information_authority(lease')
             bound == BindingCurrent(lease')
  <2>1. l = Current \/ (l = 0 /\ recovery /\ lease' = None)
    BY <1>1, <1>3 DEF game_information_authority
  <2>2. lookup_binding # None => /\ lookup_binding.identity \in Identities
                                 /\ lookup_binding.authority \in Nat
    BY DEF WitnessInv, InformationTypeOK, Bindings
  <2>3. bound => /\ lookup_binding.identity = evidence.identity
                 /\ lookup_binding.identity # None
                 /\ l = Current
    BY <2>1, <2>2 DEF BindingCurrent, WitnessInv, KeptSound
  <2>4. /\ offered'.authority = capabilities.authority
        /\ offered'.kinds = capabilities.kinds
        /\ offered'.baseline = (runtime_v3_baseline' = l)
        /\ offered'.identity = IF bound THEN lookup_binding.identity ELSE None
        /\ offered'.bootstrap = (/\ bound /\ call.v2
                                 /\ bootstrap.supported = l
                                 /\ ~bootstrap.failed)
    BY <1>2 DEF Offers
  <2>5. /\ capabilities.authority = Current
        /\ capabilities.kinds = evidence.kinds
    BY <1>3, <1>4 DEF CapabilitiesCurrent, WitnessInv, KeptSound
  <2>6. offered'.baseline => evidence'.baseline
    <3>1. offered'.baseline => runtime_v3_baseline' = l
      BY <2>4
    <3> QED
      BY <3>1, <2>1, <1>1, <1>4
  <2>7. offered'.bootstrap => offered'.identity # None
    <3>1. offered'.bootstrap => bound
      BY <2>4
    <3> QED
      BY <3>1, <2>3, <2>4
  <2> HIDE DEF bound, l
  <2> QED
    BY <2>3, <2>4, <2>5, <2>6, <2>7, <1>1, <1>5 DEF OffersAreProved, Current
<1> QED
  BY <1>6, <1>7, <1>8, <1>9 DEF WitnessInv
\* An exchange that fails, and the deadline passing during one.
LEMMA UnansweredInv ==
  ASSUME WitnessInv, Unanswered \/ InformationDeadline
  PROVE  WitnessInv'
<1>1. CASE Unanswered
  <2>1. PICK route \in {"capabilities", "negotiated", "query", "discovery",
                        "observe", "bootstrap"} : Served(route)
    BY <1>1 DEF Unanswered
  <2> QED
    BY <1>1, <2>1, ServedInv DEF Unanswered, cursorVars, WitnessInv,
       InformationTypeOK
<1>2. CASE InformationDeadline
  <2>1. /\ due' = TRUE /\ recovery
        /\ UNCHANGED <<recovery, lease, granted, informationVars>>
        /\ Current' = Current /\ Authority' = Authority
    BY <1>2 DEF InformationDeadline, DeadlinePasses, Current, Authority,
       game_information_authority
  <2>2. InformationTypeOK' /\ LeaseSound' /\ SnapshotSound'
    BY <2>1 DEF WitnessInv, InformationTypeOK, LeaseSound, SnapshotSound,
       CapabilitiesCurrent, informationVars, keptVars, cursorVars
  <2>3. KeptSound'
    BY <2>1 DEF WitnessInv, KeptSound, informationVars, keptVars
  <2>4. OffersAreProved'
    BY <2>1 DEF WitnessInv, OffersAreProved, informationVars
  <2> QED
    BY <2>2, <2>3, <2>4 DEF WitnessInv
<1> QED
  BY <1>1, <1>2

\* Nothing is cleared when the lease changes, and nothing kept is of the new
\* lease.
LEMMA LeaseInv ==
  ASSUME WitnessInv, Lease
  PROVE  WitnessInv'
<1> USE LeaseConfig, InformationConfig, InformationNothing
<1>1. /\ call = None /\ call' = None /\ offered' = None
      /\ UNCHANGED <<keptVars, cursorVars, recovery>>
      /\ due' = FALSE
  BY DEF Lease, InformationLeaseChanges, LeaseChanges
<1>2. \/ lease' = None /\ UNCHANGED <<granted, evidence>>
      \/ /\ recovery /\ granted' = granted + 1 /\ lease' = granted + 1
         /\ evidence' = Unproved
      \/ /\ ~recovery /\ lease' = 0 /\ UNCHANGED <<granted, evidence>>
  BY DEF Lease, InformationLeaseChanges, LeaseChanges, WitnessInv,
     InformationTypeOK
<1>3. LeaseSound' /\ SnapshotSound' /\ OffersAreProved'
  BY <1>1, <1>2 DEF WitnessInv, LeaseSound, SnapshotSound, OffersAreProved,
     Current, InformationTypeOK
<1>4. /\ recovery' \in BOOLEAN /\ granted' \in Nat /\ due' \in BOOLEAN
      /\ lease' \in Nat \cup {None}
  <2>1. granted \in Nat /\ recovery \in BOOLEAN
    BY DEF WitnessInv, InformationTypeOK
  <2>2. granted' \in Nat /\ lease' \in Nat \cup {None}
    BY <2>1, <1>2
  <2> QED
    BY <2>1, <2>2, <1>1
<1>5. Unproved \in [kinds : SUBSET Kinds, identity : Identities \cup {None},
                   baseline : BOOLEAN]
  BY DEF Unproved
<1>6. CASE evidence' = Unproved /\ recovery /\ granted' = granted + 1
  <2>1. Current' = Current + 1 /\ Current \in Nat
    BY <1>1, <1>6 DEF Current, WitnessInv, InformationTypeOK
  <2>2. InformationTypeOK'
    BY <1>1, <1>6, <1>4, <1>5 DEF WitnessInv, InformationTypeOK, keptVars,
       cursorVars
  <2>3. /\ capabilities # None => capabilities.authority \in Nat
        /\ lookup_binding # None => lookup_binding.authority \in Nat
        /\ runtime_v3_baseline # None => runtime_v3_baseline \in Nat
        /\ bootstrap.supported # None => bootstrap.supported \in Nat
    BY DEF WitnessInv, InformationTypeOK, Advertised, Bindings
  <2>4. KeptSound'
    BY <1>1, <1>6, <2>1, <2>3 DEF WitnessInv, KeptSound, keptVars
  <2> QED
    BY <1>3, <2>2, <2>4 DEF WitnessInv
<1>7. CASE UNCHANGED <<granted, evidence>>
  <2>1. Current' = Current
    BY <1>1, <1>7 DEF Current
  <2>2. InformationTypeOK'
    BY <1>1, <1>7, <1>4 DEF WitnessInv, InformationTypeOK, keptVars,
       cursorVars
  <2>3. KeptSound'
    BY <1>1, <1>7, <2>1 DEF WitnessInv, KeptSound, keptVars
  <2> QED
    BY <1>3, <2>2, <2>3 DEF WitnessInv
<1> QED
  BY <1>2, <1>6, <1>7

\* A full registry has a smallest cursor to drop.
LEMMA SmallestExists ==
  ASSUME NEW S \in SUBSET Nat, S # {}
  PROVE  Min(S) \in S
<1> DEFINE R == {ss \in Nat \X Nat : ss[1] < ss[2]}
<1>1. IsWellFoundedOn(R, Nat)
  BY NatLessThanWellFounded DEF OpToRel
<1> HIDE DEF R
<1>2. \E x \in S : \A y \in S : ~(<<y, x>> \in R)
  BY <1>1, WFMin
<1>3. \A x, y \in Nat : y < x => <<y, x>> \in R
  BY DEF R
<1>4. \E x \in S : \A y \in S : x =< y
  <2>1. PICK x \in S : \A y \in S : ~(<<y, x>> \in R)
    BY <1>2
  <2>2. \A y \in S : ~(y < x) /\ y \in Nat /\ x \in Nat
    BY <2>1, <1>3
  <2>3. \A y \in S : x =< y
    BY <2>2
  <2> QED
    BY <2>3
<1> QED
  BY <1>4 DEF Min

\* The registry after a cursor is handed out: the cursor is bound to the
\* query, the others as before or dropped, and the bound holds.
LEMMA RememberInv ==
  ASSUME InformationTypeOK, CursorsSound, NEW query \in Kinds,
         NEW cursor \in Cursors, remember_next_cursor(query, cursor),
         NEW page \in Pages, page.query = query,
         handed' = [handed EXCEPT ![cursor] = page]
  PROVE  CursorsSound' /\ cursor_bindings' \in [Cursors -> Kinds \cup {None}]
<1> USE LeaseConfig, InformationConfig
<1> DEFINE kept == IF Cardinality(Bound) >= MAX_CURSOR_BINDINGS
                   THEN Bound \ {Min(Bound)} ELSE Bound
<1>1. cursor_bindings' =
        [c \in Cursors |-> IF c = cursor THEN query
                           ELSE IF c \in kept THEN cursor_bindings[c]
                           ELSE None]
  BY DEF remember_next_cursor, Bound
<1>2. cursor_bindings' \in [Cursors -> Kinds \cup {None}]
  BY <1>1 DEF InformationTypeOK
<1>3. Bound' = kept \cup {cursor}
  <2>1. kept \subseteq Bound
    OBVIOUS
  <2> HIDE DEF kept
  <2> QED
    BY <1>1, <2>1 DEF Bound
<1>4. /\ IsFiniteSet(Bound) /\ Cardinality(Bound) \in Nat
      /\ Cardinality(Bound) <= MAX_CURSOR_BINDINGS
  BY FS_CardinalityType DEF CursorsSound
<1>5. /\ IsFiniteSet(kept) /\ Cardinality(kept) \in Nat
      /\ Cardinality(kept) < MAX_CURSOR_BINDINGS
  <2>1. CASE Cardinality(Bound) >= MAX_CURSOR_BINDINGS
    <3>1. Bound # {}
      <4>1. Cardinality({}) = 0
        BY FS_EmptySet
      <4> QED
        BY <2>1, <4>1
    <3>2. Bound \in SUBSET Nat
      BY DEF Bound
    <3>3. Min(Bound) \in Bound
      BY <3>1, <3>2, SmallestExists
    <3>4. /\ IsFiniteSet(Bound \ {Min(Bound)})
          /\ Cardinality(Bound \ {Min(Bound)}) = Cardinality(Bound) - 1
      BY <3>3, <1>4, FS_RemoveElement
    <3>5. kept = Bound \ {Min(Bound)}
      BY <2>1
    <3> HIDE DEF kept
    <3> QED
      BY <3>4, <3>5, <1>4, FS_CardinalityType
  <2>2. CASE ~(Cardinality(Bound) >= MAX_CURSOR_BINDINGS)
    BY <2>2, <1>4
  <2> QED
    BY <2>1, <2>2
<1> HIDE DEF kept
<1>6. IsFiniteSet(Bound') /\ Cardinality(Bound') <= MAX_CURSOR_BINDINGS
  <2>1. /\ IsFiniteSet(kept \cup {cursor})
        /\ Cardinality(kept \cup {cursor}) =
             IF cursor \in kept THEN Cardinality(kept) ELSE Cardinality(kept) + 1
    BY <1>5, FS_AddElement
  <2> QED
    BY <2>1, <1>3, <1>5
<1>7. ASSUME NEW c \in Cursors, cursor_bindings'[c] # None
      PROVE  handed'[c] # None /\ cursor_bindings'[c] = handed'[c].query
  <2>1. CASE c = cursor
    <3>1. handed'[c] = page /\ cursor_bindings'[c] = query
      BY <1>1, <2>1 DEF InformationTypeOK
    <3> QED
      BY <3>1, InformationNothing
  <2>2. CASE c # cursor
    <3>1. /\ handed'[c] = handed[c]
          /\ cursor_bindings'[c] = cursor_bindings[c]
      BY <1>1, <1>7, <2>2 DEF InformationTypeOK
    <3> QED
      BY <1>7, <3>1 DEF CursorsSound
  <2> QED
    BY <2>1, <2>2
<1> QED
  BY <1>2, <1>6, <1>7 DEF CursorsSound, Bound

\* The answer to a query hands out a cursor, or none.
LEMMA QueryAnsweredInv ==
  ASSUME InformationInv, QueryAnswered
  PROVE  InformationInv'
<1>1. WitnessInv
  BY DEF InformationInv, WitnessInv
<1>2. Served("query") /\ call \in Calls /\ call.route = "query"
  BY DEF QueryAnswered, InformationInv, InformationTypeOK, Served
<1>3. call.query \in Kinds
  BY <1>2 DEF Calls
<1> DEFINE page == [authority |-> Authority, query |-> call.query]
<1>4. page \in Pages /\ page.query = call.query
  <2>1. Authority \in Nat
    BY <1>1, <1>2, ServedFacts, ServedUnderLease
  <2> QED
    BY <1>3, <2>1 DEF Pages
<1> HIDE DEF page
<1>5. /\ CursorsSound' /\ cursor_bindings' \in [Cursors -> Kinds \cup {None}]
      /\ handed' \in [Cursors -> Pages \cup {None}]
  <2>1. CASE UNCHANGED cursorVars
    BY <2>1 DEF InformationInv, CursorsSound, Bound, cursorVars,
       InformationTypeOK
  <2>2. ASSUME NEW cursor \in Cursors,
               remember_next_cursor(call.query, cursor),
               handed' = [handed EXCEPT ![cursor] = page]
        PROVE  /\ CursorsSound'
               /\ cursor_bindings' \in [Cursors -> Kinds \cup {None}]
               /\ handed' \in [Cursors -> Pages \cup {None}]
    BY <1>3, <1>4, <2>2, RememberInv DEF InformationInv, InformationTypeOK
  <2> QED
    BY <2>1, <2>2 DEF QueryAnswered, page
<1>6. WitnessInv'
  BY <1>1, <1>2, <1>5, ServedInv DEF QueryAnswered
<1> QED
  BY <1>5, <1>6 DEF InformationInv, WitnessInv

NothingKnown ==
  /\ recovery \in BOOLEAN
  /\ granted \in Nat
  /\ lease = None
  /\ due = FALSE
  /\ InformationInit

\* The information invariant where nothing is known yet: at the start and
\* after a restart.
LEMMA NothingKnownInv == NothingKnown => InformationInv
<1> SUFFICES ASSUME NothingKnown PROVE InformationInv
  OBVIOUS
<1> USE LeaseConfig, InformationConfig DEF NothingKnown, InformationInit
<1>1. InformationTypeOK
  BY DEF InformationTypeOK, Unproved
<1>2. LeaseSound /\ SnapshotSound /\ OffersAreProved
  BY DEF LeaseSound, SnapshotSound, OffersAreProved
<1>3. KeptSound
  BY DEF KeptSound, Unproved
<1>4. Bound = {}
  BY DEF Bound
<1>5. CursorsSound
  BY <1>4, FS_EmptySet DEF CursorsSound
<1> QED
  BY <1>1, <1>2, <1>3, <1>5 DEF InformationInv

\* The information routes keep their invariant.
LEMMA InformationInvariant == Spec => []InformationInv
<1>1. Init => InformationInv
  BY NothingKnownInv DEF Init, LeaseInit, NothingKnown
<1>2. InformationInv /\ [Next]_vars => InformationInv'
  <2> SUFFICES ASSUME InformationInv, [Next]_vars PROVE InformationInv'
    OBVIOUS
  <2>1. WitnessInv
    BY DEF InformationInv, WitnessInv
  <2>2. ASSUME WitnessInv', UNCHANGED cursorVars
        PROVE  InformationInv'
    BY <2>2 DEF InformationInv, WitnessInv, CursorsSound, Bound, cursorVars
  <2>3. CASE Information
    <3>1. CASE QueryAnswered
      BY <3>1, QueryAnsweredInv
    <3>2. CASE \/ game_information_capabilities \/ game_information_request
               \/ LookupDiscovery \/ BoundRequest \/ negotiated_capabilities
      <4>1. UNCHANGED cursorVars
        BY <3>2 DEF game_information_capabilities, game_information_request,
           LookupDiscovery, BoundRequest, negotiated_capabilities
      <4> QED
        BY <2>1, <2>2, <3>2, <4>1, CapabilitiesAskedInv, QueryAskedInv,
           DiscoveryAskedInv, BoundRequestInv, NegotiatedInv
    <3>3. CASE \/ CapabilitiesAnswered \/ DiscoveryAnswered
               \/ ObservationAnswered \/ BootstrapFailed
               \/ BootstrapAnswered \/ SnapshotAnswered \/ Unanswered
               \/ InformationDeadline
      <4>1. UNCHANGED cursorVars
        BY <3>3 DEF CapabilitiesAnswered, DiscoveryAnswered,
           ObservationAnswered, BootstrapFailed, BootstrapAnswered,
           SnapshotAnswered, Unanswered, InformationDeadline,
           informationVars
      <4> QED
        BY <2>1, <2>2, <3>3, <4>1, CapabilitiesAnsweredInv,
           DiscoveryAnsweredInv, ObservationAnsweredInv, BootstrapInv,
           SnapshotAnsweredInv, UnansweredInv
    <3> QED
      BY <2>3, <3>1, <3>2, <3>3 DEF Information, InformationRequest,
         InformationExchange
  <2>4. CASE Lease
    BY <2>1, <2>2, <2>4, LeaseInv DEF Lease, InformationLeaseChanges
  <2>5. CASE Restart
    <3>1. /\ recovery' \in BOOLEAN /\ granted' \in Nat /\ lease' = None
          /\ due' = FALSE
      BY <2>5 DEF Restart, InformationInv, InformationTypeOK
    <3>2. InformationInit'
      BY <2>5 DEF Restart, InformationRestart, InformationInit, Unproved
    <3>3. NothingKnown' => InformationInv'
      BY NothingKnownInv, PTL
    <3> QED
      BY <3>1, <3>2, <3>3 DEF NothingKnown
  <2>6. CASE UNCHANGED <<leaseVars, informationVars>>
    BY <2>6 DEF leaseVars, informationVars, keptVars, cursorVars,
       InformationInv, InformationTypeOK, LeaseSound, KeptSound,
       SnapshotSound, OffersAreProved, CursorsSound, Bound, Current,
       CapabilitiesCurrent, Authority, game_information_authority
  <2> QED
    BY <2>3, <2>4, <2>5, <2>6, Steps DEF vars
<1> QED
  BY <1>1, <1>2, PTL DEF Spec

\* A snapshot offers only what the mod proved under the lease it names, and a
\* cursor continues the query it was last handed out for under the present
\* lease, for any number of leases, cursors and kinds, though nothing is
\* cleared with a lease.
THEOREM AnswersTheorem == Spec => []AnswersAreCurrent
<1>1. InformationInv => AnswersAreCurrent
  BY DEF InformationInv, AnswersAreCurrent, CursorsContinue, CursorsSound,
     Bound, cursor_is_compatible
<1> QED
  BY <1>1, InformationInvariant, PTL

-----------------------------------------------------------------------------
(* The co-op native routes.                                                 *)

HostRecords ==
  [generation : Nat, authority : Nat, receipts : [Ops -> ReceiptRecords]]

\* Nothing is none of the statuses.
LEMMA NoStatus ==
  /\ None \notin {"accepted", "settled", "rejected", "refused"}
  /\ None \notin Final
  /\ "refused" \notin Final
  /\ "recover" \notin Mutations
  /\ NoReceipt.status = None
  /\ NoReceipt \in ReceiptRecords
  BY NativeNothing, NativeConfig DEF Final, NoReceipt, ReceiptRecords

\* What the mod does with a frame: it keeps a receipt it has; a mutation it
\* has not seen is refused, rejected, accepted or settled, a recovery of one
\* is refused or closes it as rejected.
LEMMA OutcomeFacts ==
  ASSUME NativeTypeOK, NEW frame \in Frames, NEW receipt \in Outcomes(frame)
  PROVE  /\ receipt \in ReceiptRecords
         /\ ReceiptSound(receipt)
         /\ host.receipts[frame.op].status # None =>
              receipt = host.receipts[frame.op]
         /\ host.receipts[frame.op].status = None =>
              \/ receipt = NoReceipt
              \/ receipt.status = "rejected"
              \/ /\ receipt.status \in {"accepted", "settled"}
                 /\ frame.route \in Mutations
<1> USE NativeNothing, NativeConfig, NoStatus
<1>1. /\ frame.op \in Ops /\ frame.expected \in Nat
      /\ frame.route \in Mutations \cup {"recover"}
  BY DEF Frames
<1>2. /\ host.generation \in Nat /\ host.authority \in Nat
      /\ host.receipts[frame.op] \in ReceiptRecords
      /\ ReceiptSound(host.receipts[frame.op])
  BY <1>1 DEF NativeTypeOK
<1> USE DEF ReceiptSound
<1> DEFINE old == host.receipts[frame.op]
<1>3. CASE old # NoReceipt
  <2>1. receipt = old
    BY <1>3 DEF Outcomes, Reconciled, Decisions
  <2> QED
    BY <1>2, <1>3, <2>1
<1>4. CASE old = NoReceipt
  <2>1. CASE receipt = NoReceipt
    BY <1>4, <2>1
  <2>2. CASE receipt = Receipt("rejected", host.generation, None,
                               host.authority)
    BY <1>2, <1>4, <2>2 DEF Receipt, ReceiptRecords
  <2>3. CASE /\ frame.route # "recover"
             /\ receipt = Receipt("accepted", frame.expected, None,
                                  host.authority)
    BY <1>1, <1>2, <1>4, <2>3 DEF Receipt, ReceiptRecords
  <2>4. CASE /\ frame.route # "recover"
             /\ receipt = Receipt("settled", frame.expected,
                                  host.generation + 1, host.authority)
    BY <1>1, <1>2, <1>4, <2>4 DEF Receipt, ReceiptRecords
  <2> QED
    BY <1>4, <2>1, <2>2, <2>3, <2>4 DEF Outcomes, Reconciled, Decisions
<1> QED
  BY <1>3, <1>4

\* The receipt is kept by the host; the other receipts stay.
LEMMA TakenFacts ==
  ASSUME NativeTypeOK, NEW frame \in Frames, NEW receipt \in ReceiptRecords,
         ReceiptSound(receipt), Taken(frame, receipt)
  PROVE  /\ host' \in HostRecords
         /\ host'.receipts[frame.op] = receipt
         /\ \A o \in Ops : o # frame.op => host'.receipts[o] = host.receipts[o]
         /\ \A o \in Ops : ReceiptSound(host'.receipts[o])
<1>1. frame.op \in Ops /\ host \in HostRecords
  BY DEF Frames, NativeTypeOK, HostRecords
<1> DEFINE g == IF receipt.status = "settled"
                   /\ receipt.after > host.generation
                THEN receipt.after ELSE host.generation
<1>2. host' = [host EXCEPT !.receipts[frame.op] = receipt, !.generation = g]
  BY DEF Taken
<1>3. g \in Nat
  BY <1>1 DEF ReceiptRecords, HostRecords, ReceiptSound
<1> HIDE DEF g
<1>4. host'.receipts = [host.receipts EXCEPT ![frame.op] = receipt]
  BY <1>1, <1>2 DEF HostRecords
<1>5. host' \in HostRecords
  BY <1>1, <1>2, <1>3 DEF HostRecords
<1> QED
  BY <1>1, <1>4, <1>5 DEF HostRecords, NativeTypeOK
\* A step of the host that keeps what callers were told and the slot: final
\* receipts stay, and an operation that is accepted or settled by it was
\* forwarded or accepted before.
LEMMA HostStep ==
  ASSUME NativeInv, UNCHANGED <<pending, told, former>>,
         host' \in HostRecords,
         \A o \in Ops :
           \/ host'.receipts[o] = host.receipts[o]
           \/ /\ host.receipts[o].status \in {None, "accepted"}
              /\ host'.receipts[o].status # None
              /\ host'.receipts[o].status \in {"accepted", "settled"} =>
                   host.receipts[o].status = "accepted" \/ Forwarded(o),
         \A o \in Ops : Forwarded(o)' => Forwarded(o)
  PROVE  (\A o \in Ops : ToldSound(o)) ' /\ PendingUntilResolved'
<1> USE NoStatus
<1>1. \A o \in Ops : ReceiptSound(host.receipts[o])
  BY DEF NativeInv, NativeTypeOK
<1>2. ASSUME NEW o \in Ops PROVE ToldSound(o)'
  <2>1. ToldSound(o)
    BY DEF NativeInv
  <2> QED
    BY <2>1 DEF ToldSound, Final
<1>3. PendingUntilResolved'
  <2> SUFFICES ASSUME NEW o \in Ops \ former,
                      \/ host'.receipts[o].status = "accepted"
                      \/ host'.receipts[o] = NoReceipt /\ Forwarded(o)'
                      \/ /\ host'.receipts[o].status = "settled"
                         /\ told[o].final # "settled"
               PROVE  pending # None /\ pending.op = o
    BY DEF PendingUntilResolved
  <2>1. \/ host.receipts[o].status = "accepted"
        \/ host.receipts[o] = NoReceipt /\ Forwarded(o)
        \/ host.receipts[o].status = "settled" /\ told[o].final # "settled"
    BY <1>1 DEF ReceiptSound
  <2> QED
    BY <2>1 DEF NativeInv, PendingUntilResolved
<1> QED
  BY <1>2, <1>3

\* The mod answers the frame of the exchange.
LEMMA ModAnswersInv ==
  ASSUME NativeInv, ModAnswers
  PROVE  NativeInv'
<1> USE NoStatus, NativeNothing
<1>1. NativeTypeOK
  BY DEF NativeInv
<1>2. /\ asked \in Exchanges /\ asked # None /\ ~asked.taken
      /\ asked' = [asked EXCEPT !.taken = TRUE]
      /\ UNCHANGED <<pending, late, former, told>>
  BY <1>1 DEF ModAnswers, NativeTypeOK
<1> DEFINE frame == asked.frame
           o == asked.frame.op
<1>3. /\ frame \in Frames /\ o \in Ops
      /\ asked' \in Exchanges /\ asked'.taken /\ asked'.frame = frame
  BY <1>2 DEF Exchanges, Frames
<1>4. PICK receipt \in Outcomes(frame) :
        Taken(frame, receipt) /\ answer' \in Answers(frame, receipt)
  BY DEF ModAnswers
<1>5. /\ receipt \in ReceiptRecords
      /\ ReceiptSound(receipt)
      /\ host.receipts[o].status # None => receipt = host.receipts[o]
      /\ host.receipts[o].status = None =>
           \/ receipt = NoReceipt
           \/ receipt.status = "rejected"
           \/ /\ receipt.status \in {"accepted", "settled"}
              /\ frame.route \in Mutations
  BY <1>1, <1>3, OutcomeFacts
<1>6. /\ host' \in HostRecords
      /\ host'.receipts[o] = receipt
      /\ \A p \in Ops : p # o => host'.receipts[p] = host.receipts[p]
      /\ \A p \in Ops : ReceiptSound(host'.receipts[p])
  BY <1>1, <1>3, <1>4, <1>5, TakenFacts
<1>7. NativeTypeOK'
  BY <1>1, <1>2, <1>3, <1>6 DEF NativeTypeOK, HostRecords
<1>8. Forwarded(o) <=> (\E f \in late : f.op = o /\ f.route \in Mutations)
                       \/ frame.route \in Mutations
  BY <1>2 DEF Forwarded
<1>9. \A p \in Ops : Forwarded(p)' => Forwarded(p)
  BY <1>2, <1>3 DEF Forwarded
<1>10. (\A p \in Ops : ToldSound(p))' /\ PendingUntilResolved'
  <2>1. \A p \in Ops :
          \/ host'.receipts[p] = host.receipts[p]
          \/ /\ host.receipts[p].status \in {None, "accepted"}
             /\ host'.receipts[p].status # None
             /\ host'.receipts[p].status \in {"accepted", "settled"} =>
                  host.receipts[p].status = "accepted" \/ Forwarded(p)
    <3>1. host.receipts[o].status = None => host.receipts[o] = NoReceipt
      BY <1>1, <1>3 DEF NativeTypeOK, ReceiptSound
    <3> QED
      BY <1>5, <1>6, <1>8, <3>1
  <2> QED
    BY <1>2, <1>6, <1>9, <2>1, HostStep
<1>11. OnlyForward'
  BY <1>3 DEF OnlyForward
<1>12. AnswerSound'
  <2>1. CASE answer' \in {Error(503), Malformed}
    BY <1>2, <1>3, <2>1 DEF AnswerSound, Error, Malformed
  <2>2. CASE receipt = NoReceipt /\ answer' \in {Error(400), Error(409)}
    <3>1. host.receipts[o].status = None
      BY <1>5, <2>2
    <3>2. told[o].acked = None
      BY <1>3, <3>1 DEF NativeInv, ToldSound
    <3>3. frame.route \in Mutations /\ o \notin former =>
            MutationsOf(o, late) = {}
      BY <1>2, <3>1 DEF NativeInv, OnlyForward
    <3>4. RefusalSound(o)'
      BY <1>2, <1>3, <1>6, <2>2, <3>2, <3>3 DEF RefusalSound, MutationsOf
    <3> QED
      BY <1>2, <1>3, <2>2, <3>4 DEF AnswerSound, Error
  <2>3. CASE receipt # NoReceipt /\ answer' \notin {Error(503), Malformed}
    <3>1. PICK status \in IF receipt.status = "accepted"
                          THEN IF frame.route \in {"rejoin", "recover"}
                               THEN {"unknown"} ELSE Unresolved
                          ELSE {receipt.status} :
            \E after \in Fences(frame, receipt, status),
               view \in Views(receipt), local \in BOOLEAN :
              answer' = Envelope(frame, receipt, status, after, view, local)
      BY <1>4, <2>3 DEF Answers
    <3>2. PICK after \in Fences(frame, receipt, status),
               view \in Views(receipt), local \in BOOLEAN :
            answer' = Envelope(frame, receipt, status, after, view, local)
      BY <3>1
    <3>3. /\ answer'.what = "envelope" /\ answer'.status = status
          /\ answer'.view = view /\ answer'.authority = receipt.authority
      BY <3>2 DEF Envelope
    <3>4. receipt.status \in {"accepted", "settled", "rejected"}
      BY <1>5, <2>3 DEF ReceiptSound, ReceiptRecords
    <3>5. view.authority \in Nat
      BY <1>1, <1>5 DEF Views, ReceiptRecords, NativeTypeOK
    <3>6. /\ status \in Unresolved \cup Final
          /\ status \in Unresolved => receipt.status = "accepted"
          /\ status \in Final => receipt.status = status
      BY <3>4 DEF Unresolved, Final
    <3>7. told[o].final \in Final => receipt.status \in Final
      BY <1>3, <1>5 DEF NativeInv, ToldSound
    <3>8. EnvelopeSound(o)'
      BY <1>2, <1>3, <1>6, <3>3, <3>4, <3>5, <3>6, <3>7 DEF EnvelopeSound,
         Final
    <3> QED
      BY <1>2, <1>3, <3>8 DEF AnswerSound
  <2> QED
    BY <1>4, <2>1, <2>2, <2>3 DEF Answers
<1> QED
  BY <1>7, <1>10, <1>11, <1>12 DEF NativeInv
\* The host changes while the exchange, if there is one, goes on: the frames
\* on their way are fewer, a receipt that is there keeps what an answer was
\* made from, and a refused mutation has no frame left to take effect.
LEMMA QuietAnswer ==
  ASSUME NativeInv, UNCHANGED <<asked, answer, told, former>>,
         late' \subseteq late,
         \A o \in Ops : host.receipts[o].status # None =>
           /\ host'.receipts[o].status # None
           /\ \/ host'.receipts[o] = host.receipts[o]
              \/ host.receipts[o].status = "accepted",
         \A o \in Ops : /\ MutationsOf(o, late) = {}
                        /\ host'.receipts[o] # host.receipts[o]
                        /\ host.receipts[o].status # "accepted"
                        => host'.receipts[o].status = "rejected"
  PROVE  OnlyForward' /\ AnswerSound'
<1> USE NoStatus
<1>1. asked # None => asked.frame.op \in Ops
  BY DEF NativeInv, NativeTypeOK, Exchanges, Frames
<1>2. \A o \in Ops : MutationsOf(o, late) = {} => MutationsOf(o, late)' = {}
  BY DEF MutationsOf
<1>3. OnlyForward'
  <2> SUFFICES ASSUME asked # None, ~asked.taken,
                      asked.frame.route \in Mutations,
                      asked.frame.op \notin former,
                      host'.receipts[asked.frame.op].status = None
               PROVE  MutationsOf(asked.frame.op, late)' = {}
    BY DEF OnlyForward, MutationsOf
  <2> QED
    BY <1>1, <1>2 DEF NativeInv, OnlyForward
<1>4. AnswerSound'
  <2> SUFFICES ASSUME answer # None PROVE AnswerSound'
    BY DEF AnswerSound
  <2> DEFINE o == asked.frame.op
  <2>1. asked # None /\ asked.taken /\ o \in Ops
    BY <1>1 DEF NativeInv, AnswerSound
  <2>2. CASE answer \in {Error(503), Malformed}
    BY <2>1, <2>2 DEF AnswerSound, Error, Malformed
  <2>3. CASE answer \in {Error(400), Error(409)} /\ RefusalSound(o)
    <3>1. asked.frame.route \in Mutations /\ o \notin former =>
            /\ host'.receipts[o].status \notin {"accepted", "settled"}
            /\ MutationsOf(o, late)' = {}
      BY <1>2, <2>1, <2>3 DEF RefusalSound
    <3>2. RefusalSound(o)'
      BY <2>3, <3>1 DEF RefusalSound, MutationsOf
    <3> QED
      BY <2>1, <2>3, <3>2 DEF AnswerSound, Error
  <2>4. CASE EnvelopeSound(o)
    <3>1. EnvelopeSound(o)'
      BY <2>1, <2>4 DEF EnvelopeSound, Final
    <3> QED
      BY <2>1, <3>1 DEF AnswerSound
  <2> QED
    BY <2>2, <2>3, <2>4 DEF NativeInv, AnswerSound
<1> QED
  BY <1>3, <1>4

\* A frame given up before is taken after all.
LEMMA ModTakesLateInv ==
  ASSUME NativeInv, ModTakesLate
  PROVE  NativeInv'
<1> USE NoStatus
<1>1. NativeTypeOK
  BY DEF NativeInv
<1>2. PICK frame \in late :
        /\ \E receipt \in Outcomes(frame) : Taken(frame, receipt)
        /\ late' = late \ {frame}
  BY DEF ModTakesLate
<1>3. PICK receipt \in Outcomes(frame) : Taken(frame, receipt)
  BY <1>2
<1>4. /\ frame \in Frames /\ frame.op \in Ops
      /\ UNCHANGED <<pending, asked, answer, former, told>>
  BY <1>1, <1>2 DEF NativeTypeOK, Frames, ModTakesLate
<1> DEFINE o == frame.op
<1>5. /\ receipt \in ReceiptRecords
      /\ ReceiptSound(receipt)
      /\ host.receipts[o].status # None => receipt = host.receipts[o]
      /\ host.receipts[o].status = None =>
           \/ receipt = NoReceipt
           \/ receipt.status = "rejected"
           \/ /\ receipt.status \in {"accepted", "settled"}
              /\ frame.route \in Mutations
  BY <1>1, <1>4, OutcomeFacts
<1>6. /\ host' \in HostRecords
      /\ host'.receipts[o] = receipt
      /\ \A p \in Ops : p # o => host'.receipts[p] = host.receipts[p]
      /\ \A p \in Ops : ReceiptSound(host'.receipts[p])
  BY <1>1, <1>3, <1>4, <1>5, TakenFacts
<1>7. NativeTypeOK'
  BY <1>1, <1>2, <1>4, <1>6 DEF NativeTypeOK, HostRecords
<1>8. frame.route \in Mutations =>
        Forwarded(o) /\ MutationsOf(o, late) # {}
  BY <1>2 DEF Forwarded, MutationsOf
<1>9. \A p \in Ops : Forwarded(p)' => Forwarded(p)
  BY <1>2, <1>4 DEF Forwarded
<1>10. host.receipts[o].status = None => host.receipts[o] = NoReceipt
  BY <1>1, <1>4 DEF NativeTypeOK, ReceiptSound
<1>11. (\A p \in Ops : ToldSound(p))' /\ PendingUntilResolved'
  <2>1. \A p \in Ops :
          \/ host'.receipts[p] = host.receipts[p]
          \/ /\ host.receipts[p].status \in {None, "accepted"}
             /\ host'.receipts[p].status # None
             /\ host'.receipts[p].status \in {"accepted", "settled"} =>
                  host.receipts[p].status = "accepted" \/ Forwarded(p)
    BY <1>5, <1>6, <1>8, <1>10
  <2> QED
    BY <1>4, <1>6, <1>9, <2>1, HostStep
<1>12. OnlyForward' /\ AnswerSound'
  <2>1. \A p \in Ops : host.receipts[p].status # None =>
          host'.receipts[p] = host.receipts[p]
    BY <1>5, <1>6
  <2>2. \A p \in Ops : /\ MutationsOf(p, late) = {}
                       /\ host'.receipts[p] # host.receipts[p]
                       => host'.receipts[p].status = "rejected"
    BY <1>5, <1>6, <1>8, <1>10
  <2> QED
    BY <1>2, <1>4, <2>1, <2>2, QuietAnswer
<1> QED
  BY <1>7, <1>11, <1>12 DEF NativeInv

\* An accepted operation is settled or rejected; the authority moves.
LEMMA HostMovesInv ==
  ASSUME NativeInv, ModSettles \/ AuthorityMoves
  PROVE  NativeInv'
<1> USE NoStatus
<1>1. NativeTypeOK /\ host \in HostRecords
  BY DEF NativeInv, NativeTypeOK, HostRecords
<1>2. UNCHANGED <<pending, asked, answer, late, former, told>>
  BY DEF ModSettles, AuthorityMoves
<1>3. /\ host' \in HostRecords
      /\ \A p \in Ops : ReceiptSound(host'.receipts[p])
      /\ \A p \in Ops : \/ host'.receipts[p] = host.receipts[p]
                        \/ /\ host.receipts[p].status = "accepted"
                           /\ host'.receipts[p].status \in Final
  <2>1. CASE AuthorityMoves
    <3>1. host' = [host EXCEPT !.authority = @ + 1]
      BY <2>1 DEF AuthorityMoves
    <3> QED
      BY <1>1, <3>1 DEF HostRecords, NativeTypeOK
  <2>2. CASE ModSettles
    <3>1. PICK o \in Ops, receipt \in ReceiptRecords, g \in Nat :
            /\ host.receipts[o].status = "accepted"
            /\ receipt.status \in Final /\ ReceiptSound(receipt)
            /\ host' = [host EXCEPT !.generation = g,
                                   !.receipts[o] = receipt]
      <4>1. PICK o \in Ops :
              /\ host.receipts[o].status = "accepted"
              /\ \/ host' = [host EXCEPT
                         !.generation = @ + 1,
                         !.receipts[o] = Receipt("settled", @.before,
                                                 host.generation + 1,
                                                 host.authority)]
                 \/ host' = [host EXCEPT
                      !.receipts[o] = Receipt("rejected", @.before, None,
                                              host.authority)]
        BY <2>2 DEF ModSettles
      <4>2. /\ host.generation \in Nat /\ host.authority \in Nat
            /\ host.receipts[o].before \in Nat
        BY <1>1 DEF HostRecords, ReceiptRecords
      <4> DEFINE settled == Receipt("settled", host.receipts[o].before,
                                    host.generation + 1, host.authority)
                 rejected == Receipt("rejected", host.receipts[o].before,
                                     None, host.authority)
      <4>3. /\ settled \in ReceiptRecords /\ rejected \in ReceiptRecords
            /\ settled.status = "settled" /\ rejected.status = "rejected"
            /\ settled.after = host.generation + 1
        BY <4>2 DEF Receipt, ReceiptRecords
      <4>4. /\ ReceiptSound(settled) /\ ReceiptSound(rejected)
            /\ settled.status \in Final /\ rejected.status \in Final
        BY <4>2, <4>3 DEF ReceiptSound, Final
      <4>5. \/ host' = [host EXCEPT !.generation = host.generation + 1,
                                   !.receipts[o] = settled]
            \/ host' = [host EXCEPT !.generation = host.generation,
                                   !.receipts[o] = rejected]
        <5>1. \/ host' = [host EXCEPT !.generation = host.generation + 1,
                                     !.receipts[o] = settled]
              \/ host' = [host EXCEPT !.receipts[o] = rejected]
          BY <4>1, <4>2, <1>1 DEF HostRecords
        <5> HIDE DEF settled, rejected
        <5> QED
          BY <1>1, <5>1 DEF HostRecords
      <4> HIDE DEF settled, rejected
      <4>6. CASE host' = [host EXCEPT !.generation = host.generation + 1,
                                      !.receipts[o] = settled]
        <5>1. host.generation + 1 \in Nat
          BY <4>2
        <5> QED
          BY <4>1, <4>3, <4>4, <4>6, <5>1
      <4>7. CASE host' = [host EXCEPT !.generation = host.generation,
                                      !.receipts[o] = rejected]
        BY <4>1, <4>2, <4>3, <4>4, <4>7
      <4> QED
        BY <4>5, <4>6, <4>7
    <3>2. host'.receipts = [host.receipts EXCEPT ![o] = receipt]
      BY <1>1, <3>1 DEF HostRecords
    <3>3. host' \in HostRecords
      BY <1>1, <3>1 DEF HostRecords
    <3> QED
      BY <1>1, <3>1, <3>2, <3>3 DEF HostRecords, NativeTypeOK
  <2> QED
    BY <2>1, <2>2
<1>4. NativeTypeOK'
  BY <1>1, <1>2, <1>3 DEF NativeTypeOK, HostRecords
<1>5. (\A p \in Ops : ToldSound(p))' /\ PendingUntilResolved'
  <2>1. \A p \in Ops : Forwarded(p)' => Forwarded(p)
    BY <1>2 DEF Forwarded
  <2> QED
    BY <1>2, <1>3, <2>1, HostStep DEF Final
<1>6. OnlyForward' /\ AnswerSound'
  BY <1>2, <1>3, QuietAnswer DEF Final
<1> QED
  BY <1>4, <1>5, <1>6 DEF NativeInv
\* A mutation takes the free slot, a recovery finds its operation in it.
LEMMA NativeRequestInv ==
  ASSUME NativeInv, coop_native_request
  PROVE  NativeInv'
<1> USE NoStatus, NativeNothing, NativeConfig
<1>1. NativeTypeOK
  BY DEF NativeInv
<1>2. PICK route \in Routes, o \in Ops, expected \in 0..MaxHostGeneration :
        LET frame == [route |-> route, op |-> o, expected |-> expected] IN
        /\ admit_coop_native_operation(frame)
        /\ asked' = [frame |-> frame, taken |-> FALSE]
  BY DEF coop_native_request
<1> DEFINE frame == [route |-> route, op |-> o, expected |-> expected]
<1>3. /\ frame \in Frames /\ frame.op = o /\ frame.route = route
      /\ asked' \in Exchanges /\ ~asked'.taken /\ asked'.frame = frame
  BY <1>2 DEF Frames, Exchanges, Routes
<1>4. /\ asked = None
      /\ UNCHANGED <<answer, late, host, former, told>>
  BY DEF coop_native_request
<1>5. \/ /\ route \in Mutations /\ pending = None
         /\ pending' = [route |-> route, op |-> o, authority |-> None]
      \/ /\ route = "recover" /\ pending # None
         /\ pending.op = o /\ UNCHANGED pending
  BY <1>2, <1>3 DEF admit_coop_native_operation, Routes
<1>6. /\ pending' \in PendingRecords /\ pending' # None /\ pending'.op = o
      /\ pending # None => pending' = pending
  BY <1>1, <1>5 DEF PendingRecords, NativeTypeOK
<1>7. NativeTypeOK'
  BY <1>1, <1>3, <1>4, <1>6 DEF NativeTypeOK
<1>8. (\A p \in Ops : ToldSound(p))'
  BY <1>4, <1>6 DEF NativeInv, ToldSound
<1>9. PendingUntilResolved'
  <2> SUFFICES ASSUME NEW p \in Ops \ former,
                      \/ host.receipts[p].status = "accepted"
                      \/ host.receipts[p] = NoReceipt /\ Forwarded(p)'
                      \/ /\ host.receipts[p].status = "settled"
                         /\ told[p].final # "settled"
               PROVE  pending' # None /\ pending'.op = p
    BY <1>4 DEF PendingUntilResolved
  <2>1. CASE p = o
    BY <1>6, <2>1
  <2>2. CASE p # o
    <3>1. Forwarded(p)' => Forwarded(p)
      BY <1>3, <1>4, <2>2 DEF Forwarded
    <3> QED
      BY <3>1, <1>6 DEF NativeInv, PendingUntilResolved
  <2> QED
    BY <2>1, <2>2
<1>10. OnlyForward'
  <2> SUFFICES ASSUME route \in Mutations, o \notin former,
                      host.receipts[o].status = None
               PROVE  MutationsOf(o, late) = {}
    BY <1>3, <1>4 DEF OnlyForward, MutationsOf
  <2>1. pending = None /\ host.receipts[o] = NoReceipt
    BY <1>1, <1>5 DEF NativeTypeOK, ReceiptSound
  <2>2. ~Forwarded(o)
    BY <2>1 DEF NativeInv, PendingUntilResolved
  <2> QED
    BY <2>2 DEF Forwarded, MutationsOf
<1>11. AnswerSound'
  BY <1>4 DEF NativeInv, AnswerSound
<1> QED
  BY <1>7, <1>8, <1>9, <1>10, <1>11 DEF NativeInv

\* An exchange is given up; its frame is lost or on its way.
LEMMA UnavailableInv ==
  ASSUME NativeInv, Unavailable
  PROVE  NativeInv'
<1>1. NativeTypeOK
  BY DEF NativeInv
<1>2. /\ asked # None /\ asked' = None /\ answer' = None
      /\ UNCHANGED <<pending, host, former, told>>
      /\ late' = late \/ (~asked.taken /\ late' = late \cup {asked.frame})
  BY DEF Unavailable
<1>3. asked.frame \in Frames
  BY <1>1, <1>2 DEF NativeTypeOK, Exchanges
<1>4. NativeTypeOK'
  BY <1>1, <1>2, <1>3 DEF NativeTypeOK
<1>5. (\A o \in Ops : ToldSound(o))'
  BY <1>2 DEF NativeInv, ToldSound
<1>6. \A o \in Ops : Forwarded(o)' => Forwarded(o)
  BY <1>2 DEF Forwarded
<1>7. PendingUntilResolved'
  BY <1>2, <1>6 DEF NativeInv, PendingUntilResolved
<1>8. OnlyForward' /\ AnswerSound'
  BY <1>2 DEF OnlyForward, AnswerSound
<1> QED
  BY <1>4, <1>5, <1>7, <1>8 DEF NativeInv

\* A step that ends an exchange leaves only the slot and what callers were
\* told to be shown.
LEMMA EndOfExchange ==
  ASSUME NativeInv, asked' = None, answer' = None,
         UNCHANGED <<late, host, former>>,
         pending' \in PendingRecords \cup {None},
         told' \in [Ops -> ToldRecords],
         \A o \in Ops : ToldSound(o)',
         \A o \in Ops \ former :
           \/ host.receipts[o].status = "accepted"
           \/ host.receipts[o] = NoReceipt
              /\ \E f \in late : f.op = o /\ f.route \in Mutations
           \/ host.receipts[o].status = "settled" /\ told'[o].final # "settled"
           => pending' # None /\ pending'.op = o
  PROVE  NativeInv'
<1>1. NativeTypeOK'
  BY DEF NativeInv, NativeTypeOK
<1>2. PendingUntilResolved'
  BY DEF PendingUntilResolved, Forwarded
<1>3. OnlyForward' /\ AnswerSound'
  BY DEF OnlyForward, AnswerSound
<1> QED
  BY <1>1, <1>2, <1>3 DEF NativeInv

\* An answer is recorded: it acknowledges the operation or ends it, by the
\* authority that acknowledged it.
LEMMA RecordInv ==
  ASSUME NativeInv, answer # None, validate_response(asked.frame, answer),
         record_coop_native_return(asked.frame, answer),
         asked' = None, answer' = None, UNCHANGED <<late, host, former>>
  PROVE  NativeInv'
<1> USE NoStatus, NativeNothing, NativeConfig
<1>1. NativeTypeOK /\ asked # None
  BY DEF NativeInv, AnswerSound
<1>2. PICK o \in Ops : o = asked.frame.op
  BY <1>1 DEF NativeTypeOK, Exchanges, Frames
<1> DEFINE a == answer
           by == answer.view.authority
<1>3. a.what = "envelope" /\ a.authority = by
  BY DEF validate_response, response_relations, recovery_response_relations,
     effect_response_relations, receipt_observation_relations
<1>4. EnvelopeSound(o)
  BY <1>2, <1>3 DEF NativeInv, AnswerSound, Error, Malformed
<1>5. /\ pending \in PendingRecords /\ pending # None /\ pending.op = o
      /\ pending.authority # None => pending.authority = by
  BY <1>1, <1>2 DEF record_coop_native_return, ReturnIsBound, AuthorityHolds,
     NativeTypeOK
<1>6. /\ pending' = IF a.status \in Final THEN None
                    ELSE [pending EXCEPT !.authority = by]
      /\ told' = [told EXCEPT ![o] =
           IF a.status \in Final
           THEN [@ EXCEPT !.final = a.status, !.authority = by]
           ELSE [@ EXCEPT !.acked = by]]
  BY <1>2 DEF record_coop_native_return
<1>7. ToldSound(o) /\ \A p \in Ops : ToldSound(p)
  BY <1>2 DEF NativeInv
<1>8. told \in [Ops -> ToldRecords] /\ told[o] \in ToldRecords /\ by \in Nat
  BY <1>1, <1>2, <1>4 DEF NativeTypeOK, EnvelopeSound
<1>9. \A p \in Ops : p # o => told'[p] = told[p]
  BY <1>2, <1>6, <1>8
<1>10. CASE a.status \in Final
  <2>1. /\ pending' = None
        /\ told'[o] = [told[o] EXCEPT !.final = a.status, !.authority = by]
    BY <1>2, <1>6, <1>8, <1>10
  <2>2. /\ told'[o] \in ToldRecords
        /\ told'[o].final = a.status /\ told'[o].authority = by
        /\ told'[o].acked = told[o].acked
    BY <2>1, <1>8, <1>10 DEF ToldRecords, Final
  <2>3. told' \in [Ops -> ToldRecords]
    BY <1>6, <1>8, <2>1, <2>2
  <2>4. /\ host.receipts[o].status = a.status
        /\ host.receipts[o].authority = by
    BY <1>3, <1>4, <1>10 DEF EnvelopeSound
  <2>5. told[o].acked # None => by = told[o].acked
    BY <1>5, <1>7, <2>4 DEF ToldSound
  <2>6. ToldSound(o)'
    BY <1>10, <2>1, <2>2, <2>4, <2>5 DEF ToldSound, Final
  <2>7. ASSUME NEW p \in Ops, p # o PROVE ToldSound(p)'
    BY <1>5, <1>7, <1>9, <2>1, <2>7 DEF ToldSound
  <2>8. ASSUME NEW p \in Ops \ former,
               \/ host.receipts[p].status = "accepted"
               \/ host.receipts[p] = NoReceipt
                  /\ \E f \in late : f.op = p /\ f.route \in Mutations
               \/ /\ host.receipts[p].status = "settled"
                  /\ told'[p].final # "settled"
        PROVE  FALSE
    <3>1. CASE p = o
      BY <1>10, <2>2, <2>4, <2>8, <3>1 DEF Final
    <3>2. CASE p # o
      BY <1>5, <1>9, <2>8, <3>2 DEF NativeInv, PendingUntilResolved, Forwarded
    <3> QED
      BY <3>1, <3>2
  <2> QED
    BY <2>1, <2>3, <2>6, <2>7, <2>8, EndOfExchange
<1>11. CASE a.status \notin Final
  <2>1. /\ pending' = [pending EXCEPT !.authority = by]
        /\ told'[o] = [told[o] EXCEPT !.acked = by]
    BY <1>2, <1>6, <1>8, <1>11
  <2>2. /\ told'[o] \in ToldRecords
        /\ told'[o].final = told[o].final /\ told'[o].acked = by
        /\ told'[o].authority = told[o].authority
    BY <2>1, <1>8 DEF ToldRecords
  <2>3. told' \in [Ops -> ToldRecords]
    BY <1>6, <1>8, <2>1, <2>2
  <2>4. /\ pending' \in PendingRecords /\ pending'.op = o
        /\ pending'.authority = by
    BY <2>1, <1>5, <1>8 DEF PendingRecords
  <2>5. pending' # None
    BY <2>4
  <2>6. told[o].final \notin Final /\ host.receipts[o].status # None
    BY <1>4, <1>11 DEF EnvelopeSound
  <2>7. ToldSound(o)'
    BY <2>2, <2>4, <2>5, <2>6 DEF ToldSound
  <2>8. ASSUME NEW p \in Ops, p # o PROVE ToldSound(p)'
    BY <1>5, <1>7, <1>9, <2>8 DEF ToldSound
  <2>9. ASSUME NEW p \in Ops \ former,
               \/ host.receipts[p].status = "accepted"
               \/ host.receipts[p] = NoReceipt
                  /\ \E f \in late : f.op = p /\ f.route \in Mutations
               \/ /\ host.receipts[p].status = "settled"
                  /\ told'[p].final # "settled"
        PROVE  pending'.op = p
    <3>1. CASE p = o
      BY <2>4, <3>1
    <3>2. CASE p # o
      BY <1>5, <1>9, <2>9, <3>2 DEF NativeInv, PendingUntilResolved, Forwarded
    <3> QED
      BY <3>1, <3>2
  <2> QED
    BY <2>3, <2>4, <2>5, <2>7, <2>8, <2>9, EndOfExchange
<1> QED
  BY <1>10, <1>11
\* A refusal of the mutation itself frees the slot: no frame of it is left.
LEMMA RefusedInv ==
  ASSUME NativeInv, answer # None, answer.what = "error",
         clear_rejected_coop_native_pending(asked.frame, answer),
         asked' = None, answer' = None, UNCHANGED <<late, host, former>>
  PROVE  NativeInv'
<1> USE NoStatus
<1>1. NativeTypeOK /\ asked # None
  BY DEF NativeInv, AnswerSound
<1>2. PICK o \in Ops : o = asked.frame.op
  BY <1>1 DEF NativeTypeOK, Exchanges, Frames
<1>3. \A p \in Ops : ToldSound(p)
  BY DEF NativeInv
<1>4. told \in [Ops -> ToldRecords] /\ told[o] \in ToldRecords
  BY <1>1 DEF NativeTypeOK
<1>5. CASE UNCHANGED <<pending, told>>
  <2>1. \A p \in Ops : ToldSound(p)'
    BY <1>3, <1>5 DEF ToldSound
  <2> QED
    BY <1>1, <1>5, <2>1, EndOfExchange DEF NativeInv, NativeTypeOK,
       PendingUntilResolved, Forwarded
<1>6. CASE /\ answer.http \in {400, 409} /\ pending # None
           /\ pending.route = asked.frame.route /\ pending.op = o
           /\ pending' = None
           /\ told' = [told EXCEPT ![o].final = "refused"]
  <2>1. RefusalSound(o)
    BY <1>2, <1>6 DEF NativeInv, AnswerSound, Error, Malformed, EnvelopeSound
  <2>2. asked.frame.route \in Mutations
    BY <1>1, <1>6 DEF NativeTypeOK, PendingRecords
  <2>3. /\ told[o].acked = None
        /\ o \notin former =>
             /\ host.receipts[o].status \notin {"accepted", "settled"}
             /\ ~\E f \in late : f.op = o /\ f.route \in Mutations
    BY <2>1, <2>2 DEF RefusalSound, MutationsOf
  <2>4. told'[o] = [told[o] EXCEPT !.final = "refused"]
    BY <1>4, <1>6
  <2>5. /\ told'[o].acked = None /\ told'[o].final = "refused"
        /\ told'[o] \in ToldRecords
    BY <1>4, <2>3, <2>4 DEF ToldRecords
  <2>6. /\ told' \in [Ops -> ToldRecords]
        /\ \A p \in Ops : p # o => told'[p] = told[p]
    BY <1>4, <1>6, <2>4, <2>5
  <2>7. ASSUME NEW p \in Ops PROVE ToldSound(p)'
    <3>1. CASE p = o
      BY <2>5, <3>1 DEF ToldSound
    <3>2. CASE p # o
      BY <1>3, <1>6, <2>6, <3>2 DEF ToldSound
    <3> QED
      BY <3>1, <3>2
  <2>8. ASSUME NEW p \in Ops \ former,
               \/ host.receipts[p].status = "accepted"
               \/ host.receipts[p] = NoReceipt
                  /\ \E f \in late : f.op = p /\ f.route \in Mutations
               \/ /\ host.receipts[p].status = "settled"
                  /\ told'[p].final # "settled"
        PROVE  FALSE
    <3>1. CASE p = o
      BY <2>3, <2>8, <3>1
    <3>2. CASE p # o
      BY <1>6, <2>6, <2>8, <3>2 DEF NativeInv, PendingUntilResolved, Forwarded
    <3> QED
      BY <3>1, <3>2
  <2> QED
    BY <1>6, <2>6, <2>7, <2>8, EndOfExchange
<1> QED
  BY <1>2, <1>5, <1>6 DEF clear_rejected_coop_native_pending

\* The answer of the mod is read.
LEMMA AnsweredInv ==
  ASSUME NativeInv, Answered
  PROVE  NativeInv'
<1>1. /\ answer # None /\ asked' = None /\ answer' = None
      /\ UNCHANGED <<late, host, former>>
  BY DEF Answered
<1>2. CASE /\ validate_response(asked.frame, answer)
           /\ record_coop_native_return(asked.frame, answer)
  BY <1>1, <1>2, RecordInv
<1>3. CASE /\ answer.what = "error"
           /\ clear_rejected_coop_native_pending(asked.frame, answer)
  BY <1>1, <1>3, RefusedInv
<1>4. CASE UNCHANGED <<pending, told>>
  <2>1. \A o \in Ops : ToldSound(o)'
    BY <1>1, <1>4 DEF NativeInv, ToldSound
  <2> QED
    BY <1>1, <1>4, <2>1, EndOfExchange DEF NativeInv, NativeTypeOK,
       PendingUntilResolved, Forwarded
<1> QED
  BY <1>2, <1>3, <1>4 DEF Answered

\* A restart forgets the slot; what was forwarded before is named as former.
LEMMA RestartInv ==
  ASSUME NativeInv, CoopRestart
  PROVE  NativeInv'
<1> USE NoStatus
<1>1. NativeTypeOK
  BY DEF NativeInv
<1>2. /\ pending' = None /\ asked' = None /\ answer' = None
      /\ UNCHANGED host
      /\ told' = [o \in Ops |-> Untold]
      /\ late' = late \cup (IF asked # None /\ ~asked.taken
                            THEN {asked.frame} ELSE {})
  BY DEF CoopRestart
<1>3. Untold \in ToldRecords /\ Untold.acked = None /\ Untold.final = None
  BY DEF Untold, ToldRecords
<1>4. late' \subseteq Frames
  BY <1>1, <1>2 DEF NativeTypeOK, Exchanges
<1>5. NativeTypeOK'
  BY <1>1, <1>2, <1>3, <1>4 DEF NativeTypeOK
<1>6. (\A o \in Ops : ToldSound(o))'
  BY <1>2, <1>3 DEF ToldSound
<1>7. /\ \A f \in late' : f.op \in former'
      /\ \A o \in Ops : host.receipts[o] # NoReceipt => o \in former'
  BY <1>2 DEF CoopRestart
<1>8. PendingUntilResolved'
  BY <1>2, <1>7 DEF PendingUntilResolved, Forwarded
<1>9. OnlyForward' /\ AnswerSound'
  BY <1>2 DEF OnlyForward, AnswerSound
<1> QED
  BY <1>5, <1>6, <1>8, <1>9 DEF NativeInv

\* The native routes keep their invariant.
LEMMA NativeInvariant == Spec => []NativeInv
<1> USE NoStatus
<1>1. Init => NativeInv
  <2> SUFFICES ASSUME NativeInit PROVE NativeInv
    BY DEF Init
  <2>1. NativeTypeOK
    BY DEF NativeInit, NativeTypeOK, ReceiptSound, Untold, ToldRecords
  <2>2. \A o \in Ops : ToldSound(o)
    BY DEF NativeInit, ToldSound, Untold
  <2>3. PendingUntilResolved /\ OnlyForward /\ AnswerSound
    BY DEF NativeInit, PendingUntilResolved, Forwarded, OnlyForward,
       AnswerSound
  <2> QED
    BY <2>1, <2>2, <2>3 DEF NativeInv
<1>2. NativeInv /\ [Next]_vars => NativeInv'
  <2> SUFFICES ASSUME NativeInv, [Next]_vars PROVE NativeInv'
    OBVIOUS
  <2>1. CASE UNCHANGED nativeVars
    BY <2>1 DEF nativeVars, NativeInv, NativeTypeOK, ToldSound,
       PendingUntilResolved, Forwarded, OnlyForward, MutationsOf,
       AnswerSound, RefusalSound, EnvelopeSound
  <2>2. CASE Information \/ Lease \/ UNCHANGED vars
    BY <2>1, <2>2 DEF Information, Lease, vars, coopVars
  <2>3. CASE Restart
    BY <2>3, RestartInv DEF Restart
  <2> QED
    BY <2>1, <2>2, <2>3, Steps, NativeRequestInv, UnavailableInv,
       AnsweredInv, ModAnswersInv, ModTakesLateInv, HostMovesInv
<1> QED
  BY <1>1, <1>2, PTL DEF Spec

\* An operation that may still take effect, or has and its caller was not
\* told, keeps the one slot for mutations: for any operations, any frames
\* taken late and any answers of the mod.
THEOREM PendingTheorem == Spec => []PendingUntilResolved
<1>1. NativeInv => PendingUntilResolved
  BY DEF NativeInv
<1> QED
  BY <1>1, NativeInvariant, PTL

\* What one authority of the host acknowledged, no other settles towards the
\* caller.
THEOREM AuthorityTheorem == Spec => []AuthorityFenced
<1>1. NativeInv => AuthorityFenced
  BY DEF NativeInv, ToldSound, AuthorityFenced
<1> QED
  BY <1>1, NativeInvariant, PTL
=============================================================================
