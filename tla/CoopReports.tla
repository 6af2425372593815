--------------------------- MODULE CoopReports ---------------------------
(* The co-op peer reports of the attached service (CoopReports and its two  *)
(* routes): a coordinator reports, peer by peer, the generation a peer has  *)
(* reached and whether it is connected; the ledger answers at which         *)
(* generation the peers agree.  A report counts for REPORT_LIFETIME.        *)

EXTENDS RouteLease, FiniteSets

CONSTANTS
  Peers,            \* the configured roster: two to four peers
  FirstPeer,        \* the first member of the roster
  MAX_GENERATION,   \* the largest generation a report may carry
  REPORT_LIFETIME   \* in ticks

ASSUME RosterConfig ==
  /\ Cardinality(Peers) \in 2..4
  /\ FirstPeer \in Peers
  /\ MAX_GENERATION \in Nat \ {0}
  /\ REPORT_LIFETIME \in Nat \ {0}

VARIABLES
  peers,       \* per peer its last generation and the age of its report
  generation   \* the generation the ledger stands at

reportsVars == <<peers, generation>>

Silent == [generation |-> None, age |-> None]

\* from_roster: every configured peer is missing at first.
ReportsInit ==
  /\ peers = [p \in Peers |-> Silent]
  /\ generation = 0

\* A report without a connection has no time, and is never fresh.
fresh(p, of) == of[p].age # None /\ of[p].age < REPORT_LIFETIME

\* (Mutant of advance: one peer that agrees with the first is enough.)
advance_on_any(of) ==
  LET g == of[FirstPeer].generation IN
  IF /\ g # None /\ g >= generation
     /\ \E p \in Peers \ {FirstPeer} : fresh(p, of) /\ of[p].generation = g
  THEN g ELSE generation

advance(of) ==
  LET g == of[FirstPeer].generation IN
  IF /\ g # None
     /\ g >= generation
     /\ \A p \in Peers : fresh(p, of) /\ of[p].generation = g
  THEN g ELSE generation

\* A generation below the agreed one, or below the peer's own, is refused.
report(p, reported, connected) ==
  /\ reported <= MAX_GENERATION
  /\ reported >= generation
  /\ peers[p].generation # None => reported >= peers[p].generation
  /\ peers' = [peers EXCEPT ![p] =
       [generation |-> reported, age |-> IF connected THEN 0 ELSE None]]
  /\ generation' = advance(peers')

coop_peer_report ==
  /\ check_lease
  /\ \E p \in Peers, reported \in 0..(MAX_GENERATION + 1),
        connected \in BOOLEAN :
       report(p, reported, connected)

\* What coop_synchronization answers: missing peers before disagreement.
snapshot ==
  CASE \E p \in Peers : ~fresh(p, peers) -> "disconnected"
    [] /\ \A p \in Peers : fresh(p, peers)
       /\ \E p \in Peers : peers[p].generation # generation -> "disagreement"
    [] OTHER -> "synchronized"

\* External: time passes; an age beyond the lifetime tells nothing more.
Tick ==
  /\ peers' = [p \in Peers |->
       IF fresh(p, peers) THEN [peers[p] EXCEPT !.age = @ + 1] ELSE peers[p]]
  /\ UNCHANGED generation

-----------------------------------------------------------------------------
\* The ledger neither runs ahead of a peer nor lags behind their agreement:
\* no peer last reported less than the generation agreed, though peers report
\* in any order, disconnect and fall silent; and whenever every peer is fresh
\* and they report one generation, the answer is "synchronized".
AgreementIsCommon ==
  /\ generation > 0 =>
       \A p \in Peers : /\ peers[p].generation # None
                        /\ peers[p].generation >= generation
  /\ (/\ \A p \in Peers : fresh(p, peers)
      /\ \A p, q \in Peers : peers[p].generation = peers[q].generation)
     => snapshot = "synchronized"
=============================================================================
