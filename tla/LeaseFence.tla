----------------------------- MODULE LeaseFence -----------------------------
(***************************************************************************)
(* What a lease fence promises, independent of clocks, process records and *)
(* persistence: a lease identity is used once, it is granted to one proof, *)
(* once it has ended it never serves again, and every request handed to an *)
(* instance carries the proof that was granted for a lease that is live.   *)
(***************************************************************************)
EXTENDS Naturals, Sequences

CONSTANTS
    Lease,      \* lease identities
    Proof,      \* proofs a caller can present
    NoProof     \* no proof was ever granted for the lease

VARIABLES
    life,       \* life[l]: "free", "live" or "ended"
    grant,      \* grant[l]: the proof granted for l, or NoProof
    served      \* the proofs under which requests were served, in order

vars == <<life, grant, served>>

Init ==
    /\ life = [l \in Lease |-> "free"]
    /\ grant = [l \in Lease |-> NoProof]
    /\ served = <<>>

\* A free lease is granted. It can be born ended: its expiry saturates the clock.
Issue(l) ==
    /\ life[l] = "free"
    /\ \E s \in {"live", "ended"} : life' = [life EXCEPT ![l] = s]
    /\ \E p \in Proof : grant' = [grant EXCEPT ![l] = p]
    /\ UNCHANGED served

\* The identity is consumed by an allocation that failed; nobody receives it.
Burn(l) ==
    /\ life[l] = "free"
    /\ life' = [life EXCEPT ![l] = "ended"]
    /\ UNCHANGED <<grant, served>>

\* Leases end: by release, failure, shutdown or the passage of time.
End(S) ==
    /\ S # {}
    /\ \A l \in S : life[l] = "live"
    /\ life' = [l \in Lease |-> IF l \in S THEN "ended" ELSE life[l]]
    /\ UNCHANGED <<grant, served>>

Serve(l) ==
    /\ life[l] = "live"
    /\ served' = Append(served, grant[l])
    /\ UNCHANGED <<life, grant>>

Next ==
    \/ \E l \in Lease : Issue(l)
    \/ \E l \in Lease : Burn(l)
    \/ \E S \in SUBSET Lease : End(S)
    \/ \E l \in Lease : Serve(l)

Spec == Init /\ [][Next]_vars

=============================================================================
