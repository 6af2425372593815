---------------------- MODULE ContinuationOwnerProofs ----------------------
(* Proofs about recovery leases, the host's consent to them and the claims  *)
(* of a continuation, for every lease lifetime and every number of boots,   *)
(* leases, renewals, ticks and operations.                                  *)
EXTENDS ContinuationOwner, SequenceTheorems, TLAPS

-----------------------------------------------------------------------------
(* The inductive invariant.  Its parts take the memory s, the lease rows    *)
(* and so on as arguments, so that they can be said of what a handler is    *)
(* about to commit.                                                         *)

Grants == [epoch : Nat, expires : Nat]
Statuses == {"ACTIVE", "EXPIRED", "REVOKED"}
LeaseRows == [boot : Nat, expires : Nat, seq : Nat, status : Statuses,
              host : HostStates, digest : Nat, gen : Nat,
              pending : [seq : Nat, expires : Nat]]
Memory == [boot : Nat, fence : BOOLEAN, lease : Grants, grant : Grants,
           active : BOOLEAN, revoked : BOOLEAN, shutdown : BOOLEAN,
           deadline : Int, deadlineLease : Nat, cleanup : Nat,
           profile : [boot : Nat, released : Nat]]
CallOps == {"idle", "fence", "install", "activate", "renew", "revoke"}
Calls == [op : CallOps, purpose : Purposes, epoch : Nat, expires : Nat, seq : Nat,
          deadline : Int, reply : [gen : Nat, fresh : BOOLEAN]]
Frames == [op : CallOps, boot : Nat, epoch : Nat, expires : Nat, seq : Nat]
Hosts == [boot : Nat, epoch : Nat, expires : Nat, seq : Nat, held : BOOLEAN]

WorldTyped ==
  /\ authority \in [generation : Nat, state : {"FENCE_REQUIRED", "READY"}]
  /\ host \in Hosts
  /\ mono \in Nat /\ skew \in Nat
  /\ stopped \in BOOLEAN /\ returned \in Nat

\* The host has the lease e, for at least as long as its row promises.
Holds(row, e) ==
  /\ host.boot = authority.generation /\ host.held /\ host.epoch = e
  /\ host.expires >= row.expires /\ host.seq >= row.seq

\* An active row is the newest and of this boot, and the host has it from its
\* installation on, also while a renewal is pending.
RowSound(rows, e) ==
  rows[e].status = "ACTIVE" =>
    /\ e = Len(rows) /\ rows[e].boot = authority.generation
    /\ rows[e].host \in {"UNINSTALLED", "PENDING_HOST_INSTALL"} => rows[e].seq = 0
    /\ rows[e].host = "INSTALLED" => rows[e].digest = rows[e].expires
    /\ rows[e].host = "PENDING_HOST_RENEW" =>
         rows[e].pending.seq > rows[e].seq /\ rows[e].pending.expires > rows[e].expires
    /\ rows[e].host \in {"INSTALLED", "PENDING_HOST_RENEW"} => Holds(rows[e], e)

RowsSound(rows) ==
  rows \in Seq(LeaseRows) /\ \A e \in 1..Len(rows) : RowSound(rows, e)

\* The memory names a row; it is active only with a lease that was returned,
\* and a stop has closed it for this boot.
LeaseNamed(s, rows) ==
  s.lease # None =>
    /\ s.lease.epoch \in 1..Len(rows)
    /\ rows[s.lease.epoch].host = "PENDING_HOST_INSTALL" =>
         s.lease.expires = rows[s.lease.epoch].expires

MemSound(s, rows, st, ret) ==
  /\ s \in Memory /\ s.boot = authority.generation
  /\ LeaseNamed(s, rows)
  /\ s.active => s.lease # None /\ s.deadline # 0 /\ ret = s.lease.epoch
  /\ st => (s.revoked \/ s.shutdown) /\ s.cleanup = 0

\* A frame that may still reach the host does no harm to an active lease: it is
\* not revoked, and its renewals are the one pending and those that are over.
FrameSound(f, rows) ==
  /\ f.boot <= authority.generation
  /\ f.op # "fence" => f.epoch \in 1..Len(rows)
  /\ f.op = "revoke" => rows[f.epoch].status # "ACTIVE"
  /\ f.op = "renew" /\ rows[f.epoch].status = "ACTIVE" =>
       /\ f.seq = rows[f.epoch].seq => f.expires = rows[f.epoch].expires
       /\ f.seq > rows[f.epoch].seq =>
            /\ rows[f.epoch].host = "PENDING_HOST_RENEW"
            /\ f.seq = rows[f.epoch].pending.seq
            /\ f.expires = rows[f.epoch].pending.expires

WireSound(w, rows) == w \subseteq Frames /\ \A f \in w : FrameSound(f, rows)

\* What the row of the lease says while a handler waits for the host, and what
\* an answer means.
InstallSound(c, row) ==
  /\ row.status = "ACTIVE" /\ row.host = "PENDING_HOST_INSTALL"
  /\ row.expires = c.expires /\ row.digest = c.expires
  /\ c.reply # NoReply => Holds(row, c.epoch)

RenewSound(c, row, s) ==
  /\ row.status = "ACTIVE" /\ row.host = "PENDING_HOST_RENEW"
  /\ row.pending = [seq |-> c.seq, expires |-> c.expires] /\ row.digest = c.expires
  /\ s.active /\ s.lease.epoch = c.epoch
  /\ c.reply # NoReply => host.seq = c.seq /\ host.expires = c.expires

CallSound(c, s, rows, st) ==
  /\ c \in Calls
  /\ c.op \in {"install", "activate", "renew", "revoke"} => c.epoch \in 1..Len(rows)
  /\ c.op = "install" => InstallSound(c, rows[c.epoch])
  /\ c.op = "activate" =>
       /\ rows[c.epoch].status = "ACTIVE" /\ rows[c.epoch].host = "INSTALLED"
  /\ c.op = "renew" => RenewSound(c, rows[c.epoch], s)
  /\ c.op = "revoke" => rows[c.epoch].status # "ACTIVE"
  /\ st => /\ c.op \notin {"install", "activate", "renew"}
           /\ c.op = "revoke" => c.purpose \notin {"profiled", "retry"}

LInv ==
  /\ WorldTyped
  /\ RowsSound(leases)
  /\ MemSound(svc, leases, stopped, returned)
  /\ WireSound(wire, leases)
  /\ CallSound(call, svc, leases, stopped)

-----------------------------------------------------------------------------
(* Lease rows.                                                              *)

LEMMA ConstantFacts ==
  /\ Ttl \in Nat /\ Ttl > 0 /\ Generations \subseteq Nat \ {0}
  /\ MaxBoot \in Nat /\ MaxEpoch \in Nat /\ MaxSeq \in Nat
  BY HostLeaseConfig

LEMMA NoneFacts ==
  /\ None \in Grants /\ None.epoch = 0 /\ None.expires = 0
  /\ \A g \in Grants : g # None <=> g.epoch # 0 \/ g.expires # 0
  BY DEF None, Grants

LEMMA RowsFacts ==
  ASSUME NEW rows, RowsSound(rows)
  PROVE  /\ rows \in Seq(LeaseRows) /\ Len(rows) \in Nat
         /\ DOMAIN rows = 1..Len(rows)
         /\ \A e \in 1..Len(rows) : rows[e] \in LeaseRows /\ RowSound(rows, e)
<1>1. rows \in Seq(LeaseRows)
  BY DEF RowsSound
<1>2. Len(rows) \in Nat /\ DOMAIN rows = 1..Len(rows)
  BY <1>1, LenProperties
<1>3. \A e \in 1..Len(rows) : rows[e] \in LeaseRows
  BY <1>1, ElementOfSeq
<1> QED
  BY <1>1, <1>2, <1>3 DEF RowsSound

\* The row e is r, and the others are as they were.
RowPut(n, rows, e, r) ==
  /\ n \in Seq(LeaseRows) /\ Len(n) = Len(rows)
  /\ n[e] = r
  /\ \A d \in 1..Len(rows) : d # e => n[d] = rows[d]

LEMMA RowPutFacts ==
  ASSUME NEW rows \in Seq(LeaseRows), NEW e \in 1..Len(rows), NEW r \in LeaseRows
  PROVE  RowPut([rows EXCEPT ![e] = r], rows, e, r)
<1>1. PICK n : n = [rows EXCEPT ![e] = r]
  OBVIOUS
<1>2. /\ n \in Seq(LeaseRows) /\ Len(n) = Len(rows)
      /\ \A d \in 1..Len(rows) : n[d] = IF d = e THEN r ELSE rows[d]
  BY <1>1, ExceptSeq
<1>3. RowPut(n, rows, e, r)
  BY <1>2 DEF RowPut
<1> QED
  BY <1>1, <1>3

\* Rows of which none has become active.
Retires(n, rows) ==
  /\ n \in Seq(LeaseRows) /\ Len(n) = Len(rows)
  /\ \A e \in 1..Len(rows) :
       /\ n[e].status = "ACTIVE" => n[e] = rows[e]
       /\ n[e].host = "PENDING_HOST_INSTALL" =>
            rows[e].host = "PENDING_HOST_INSTALL" /\ n[e].expires = rows[e].expires

LEMMA RetiresSound ==
  ASSUME NEW rows, NEW n, RowsSound(rows), Retires(n, rows)
  PROVE  /\ RowsSound(n)
         /\ \A w : WireSound(w, rows) => WireSound(w, n)
         /\ \A s : LeaseNamed(s, rows) => LeaseNamed(s, n)
         /\ \A s, st, ret : MemSound(s, rows, st, ret) => MemSound(s, n, st, ret)
<1>1. /\ n \in Seq(LeaseRows) /\ Len(n) = Len(rows)
      /\ \A e \in 1..Len(rows) :
           /\ n[e].status = "ACTIVE" => n[e] = rows[e]
           /\ n[e].host = "PENDING_HOST_INSTALL" =>
                rows[e].host = "PENDING_HOST_INSTALL" /\ n[e].expires = rows[e].expires
  BY DEF Retires
<1>2. RowsSound(n)
  BY <1>1 DEF RowsSound, RowSound
<1>3. ASSUME NEW f, FrameSound(f, rows) PROVE FrameSound(f, n)
  BY <1>1, <1>3 DEF FrameSound
<1>4. ASSUME NEW w, WireSound(w, rows) PROVE WireSound(w, n)
  BY <1>3, <1>4 DEF WireSound
<1>5. ASSUME NEW s, LeaseNamed(s, rows) PROVE LeaseNamed(s, n)
  BY <1>1, <1>5 DEF LeaseNamed
<1>6. ASSUME NEW s, NEW st, NEW ret, MemSound(s, rows, st, ret)
      PROVE  MemSound(s, n, st, ret)
  BY <1>5, <1>6 DEF MemSound
<1> QED
  BY <1>2, <1>4, <1>5, <1>6

LEMMA RetiresSelf ==
  ASSUME NEW rows, RowsSound(rows)
  PROVE  Retires(rows, rows)
  BY DEF Retires, RowsSound

LEMMA ExpireRetires ==
  ASSUME NEW rows, RowsSound(rows)
  PROVE  Retires(expire_leases(rows), rows)
<1>1. PICK n : n = expire_leases(rows)
  OBVIOUS
<1>2. /\ Len(rows) \in Nat /\ DOMAIN rows = 1..Len(rows)
      /\ \A e \in 1..Len(rows) : rows[e] \in LeaseRows
  BY RowsFacts
<1>3. n = [e \in 1..Len(rows) |->
             IF rows[e].status = "ACTIVE" /\ rows[e].expires <= now
             THEN [rows[e] EXCEPT !.status = "EXPIRED"] ELSE rows[e]]
  BY <1>1, <1>2 DEF expire_leases
<1>4. ASSUME NEW e \in 1..Len(rows)
      PROVE  /\ n[e] \in LeaseRows
             /\ n[e].status = "ACTIVE" => n[e] = rows[e]
             /\ n[e].host = rows[e].host /\ n[e].expires = rows[e].expires
  <2>1. PICK r \in LeaseRows : r = [rows[e] EXCEPT !.status = "EXPIRED"]
    BY <1>2 DEF LeaseRows, Statuses
  <2>2. r.status = "EXPIRED" /\ r.host = rows[e].host /\ r.expires = rows[e].expires
    BY <1>2, <2>1 DEF LeaseRows
  <2>3. n[e] = r \/ n[e] = rows[e]
    BY <1>3, <2>1
  <2> QED
    BY <1>2, <2>2, <2>3
<1>5. n \in [1..Len(rows) -> LeaseRows]
  BY <1>3, <1>4
<1>6. n \in Seq(LeaseRows) /\ Len(n) = Len(rows)
  BY <1>2, <1>5
<1>7. Retires(n, rows)
  BY <1>4, <1>6 DEF Retires
<1> QED
  BY <1>1, <1>7

LEMMA InvalidateRetires ==
  ASSUME NEW rows, RowsSound(rows)
  PROVE  /\ Retires(Invalidated(rows), rows)
         /\ \A e \in 1..Len(rows) : Invalidated(rows)[e].status # "ACTIVE"
<1>1. PICK n : n = Invalidated(rows)
  OBVIOUS
<1>2. /\ Len(rows) \in Nat /\ DOMAIN rows = 1..Len(rows)
      /\ \A e \in 1..Len(rows) : rows[e] \in LeaseRows
  BY RowsFacts
<1>3. DOMAIN n = 1..Len(rows) /\ n = [e \in 1..Len(rows) |-> n[e]]
  BY <1>1, <1>2, Zenon DEF Invalidated
<1>4. ASSUME NEW e \in 1..Len(rows)
      PROVE  /\ n[e] \in LeaseRows /\ n[e].status # "ACTIVE"
             /\ n[e].host # "PENDING_HOST_INSTALL"
  <2>1. PICK st, h : /\ st = IF rows[e].status = "ACTIVE" THEN "REVOKED" ELSE rows[e].status
                     /\ h = IF rows[e].host \in Outstanding THEN "RESTART_INVALIDATED"
                            ELSE rows[e].host
    OBVIOUS
  <2>2. /\ st \in Statuses /\ st # "ACTIVE"
        /\ h \in HostStates /\ h # "PENDING_HOST_INSTALL"
    BY <1>2, <2>1 DEF LeaseRows, Statuses, HostStates, Outstanding
  <2>3. PICK a \in LeaseRows : a = [rows[e] EXCEPT !.status = st]
    BY <1>2, <2>2 DEF LeaseRows
  <2>4. PICK b \in LeaseRows : b = [a EXCEPT !.host = h]
    BY <2>2 DEF LeaseRows
  <2>5. b.status = st /\ b.host = h
    BY <1>2, <2>3, <2>4 DEF LeaseRows
  <2>6. n[e] = b
    <3>1. n[e] = [rows[e] EXCEPT !.status = st, !.host = h]
      BY <1>1, <1>2, <2>1, Zenon DEF Invalidated
    <3> QED
      BY <2>3, <2>4, <3>1, Zenon
  <2> QED
    BY <2>2, <2>5, <2>6
<1>5. n \in Seq(LeaseRows) /\ Len(n) = Len(rows)
  <2>1. n \in [1..Len(rows) -> LeaseRows]
    BY <1>3, <1>4
  <2> QED
    BY <1>2, <2>1
<1>6. Retires(n, rows) /\ \A e \in 1..Len(rows) : n[e].status # "ACTIVE"
  BY <1>4, <1>5 DEF Retires
<1> QED
  BY <1>1, <1>6

LEMMA BeginRevokeRetires ==
  ASSUME NEW rows, RowsSound(rows), NEW e \in 1..Len(rows)
  PROVE  /\ Retires(begin_host_lease_revoke(rows, e), rows)
         /\ begin_host_lease_revoke(rows, e)[e].status = "REVOKED"
<1>1. PICK n : n = begin_host_lease_revoke(rows, e)
  OBVIOUS
<1>2. rows \in Seq(LeaseRows) /\ rows[e] \in LeaseRows
  BY RowsFacts
<1>3. PICK a \in LeaseRows : a = [rows[e] EXCEPT !.host = "PENDING_HOST_REVOKE"]
  BY <1>2 DEF LeaseRows, HostStates
<1>4. PICK b \in LeaseRows : b = [a EXCEPT !.status = "REVOKED"]
  BY DEF LeaseRows, Statuses
<1>5. b.host = "PENDING_HOST_REVOKE" /\ b.status = "REVOKED"
  BY <1>2, <1>3, <1>4 DEF LeaseRows
<1>6. n = [rows EXCEPT ![e] = b]
  BY <1>1, <1>3, <1>4, Zenon DEF begin_host_lease_revoke
<1>7. RowPut(n, rows, e, b)
  BY <1>2, <1>6, RowPutFacts
<1>8. Retires(n, rows) /\ n[e].status = "REVOKED"
  BY <1>5, <1>7 DEF RowPut, Retires
<1> QED
  BY <1>1, <1>8

LEMMA CompleteRevokeRetires ==
  ASSUME NEW rows, RowsSound(rows), NEW e \in 1..Len(rows), NEW gen \in Nat,
         rows[e].status # "ACTIVE"
  PROVE  Retires(complete_host_lease_revoke(rows, e, gen), rows)
<1>1. PICK n : n = complete_host_lease_revoke(rows, e, gen)
  OBVIOUS
<1>2. rows \in Seq(LeaseRows) /\ rows[e] \in LeaseRows
  BY RowsFacts
<1>3. PICK a \in LeaseRows : a = [rows[e] EXCEPT !.host = "HOST_REVOKED"]
  BY <1>2 DEF LeaseRows, HostStates
<1>4. PICK b \in LeaseRows : b = [a EXCEPT !.gen = gen]
  BY DEF LeaseRows
<1>5. b.host = "HOST_REVOKED" /\ b.status = rows[e].status
  BY <1>2, <1>3, <1>4 DEF LeaseRows
<1>6. n = [rows EXCEPT ![e] = b]
  BY <1>1, <1>3, <1>4, Zenon DEF complete_host_lease_revoke
<1>7. RowPut(n, rows, e, b)
  BY <1>2, <1>6, RowPutFacts
<1>8. Retires(n, rows)
  BY <1>5, <1>7 DEF RowPut, Retires
<1> QED
  BY <1>1, <1>8

\* The row e, which is active, becomes r; what is on the wire for it still fits.
LEMMA RowPutSound ==
  ASSUME NEW rows, RowsSound(rows), NEW e \in 1..Len(rows), NEW r \in LeaseRows,
         NEW n, RowPut(n, rows, e, r), RowSound(n, e),
         rows[e].status = "ACTIVE", r.status = "ACTIVE"
  PROVE  /\ RowsSound(n)
         /\ \A w : /\ WireSound(w, rows)
                   /\ \A f \in w : f.op = "renew" /\ f.epoch = e => FrameSound(f, n)
                   => WireSound(w, n)
         /\ \A s : /\ LeaseNamed(s, rows)
                   /\ s.lease.epoch = e /\ r.host = "PENDING_HOST_INSTALL"
                      => s.lease.expires = r.expires
                   => LeaseNamed(s, n)
<1>1. /\ n \in Seq(LeaseRows) /\ Len(n) = Len(rows) /\ n[e] = r
      /\ \A d \in 1..Len(rows) : d # e => n[d] = rows[d]
  BY DEF RowPut
<1>2. RowsSound(n)
  BY <1>1 DEF RowsSound, RowSound
<1>3. ASSUME NEW f, FrameSound(f, rows), ~(f.op = "renew" /\ f.epoch = e)
      PROVE  FrameSound(f, n)
  BY <1>1, <1>3 DEF FrameSound
<1>4. ASSUME NEW w, WireSound(w, rows),
             \A f \in w : f.op = "renew" /\ f.epoch = e => FrameSound(f, n)
      PROVE  WireSound(w, n)
  BY <1>3, <1>4 DEF WireSound
<1>5. ASSUME NEW s, LeaseNamed(s, rows),
             s.lease.epoch = e /\ r.host = "PENDING_HOST_INSTALL"
               => s.lease.expires = r.expires
      PROVE  LeaseNamed(s, n)
  BY <1>1, <1>5 DEF LeaseNamed
<1> QED
  BY <1>2, <1>4, <1>5

\* What a row that awaits its installation looks like.
Awaits(n, rows, e) ==
  /\ Len(n) = Len(rows)
  /\ n[e].status = "ACTIVE" /\ n[e].host = "PENDING_HOST_INSTALL"
  /\ n[e].expires = rows[e].expires /\ n[e].digest = rows[e].expires

LEMMA PrepareInstallSound ==
  ASSUME NEW rows, RowsSound(rows), NEW e \in 1..Len(rows),
         rows[e].status = "ACTIVE",
         rows[e].host \in {"UNINSTALLED", "PENDING_HOST_INSTALL"},
         NEW n, n = prepare_host_lease_install(rows, e, rows[e].expires)
  PROVE  /\ RowsSound(n) /\ Awaits(n, rows, e)
         /\ \A w : WireSound(w, rows) => WireSound(w, n)
         /\ \A s : LeaseNamed(s, rows) /\ s.lease = [epoch |-> e, expires |-> rows[e].expires]
                   => LeaseNamed(s, n)
<1>1. rows \in Seq(LeaseRows) /\ rows[e] \in LeaseRows /\ RowSound(rows, e)
  BY RowsFacts
<1>2. PICK a \in LeaseRows : a = [rows[e] EXCEPT !.host = "PENDING_HOST_INSTALL"]
  BY <1>1 DEF LeaseRows, HostStates
<1>3. PICK b \in LeaseRows : b = [a EXCEPT !.digest = rows[e].expires]
  BY <1>1 DEF LeaseRows
<1>4. /\ b.host = "PENDING_HOST_INSTALL" /\ b.status = "ACTIVE"
      /\ b.expires = rows[e].expires /\ b.digest = rows[e].expires
      /\ b.boot = rows[e].boot /\ b.seq = rows[e].seq
  BY <1>1, <1>2, <1>3 DEF LeaseRows
<1>5. n = [rows EXCEPT ![e] = b]
  BY <1>2, <1>3, Zenon DEF prepare_host_lease_install
<1>6. RowPut(n, rows, e, b)
  BY <1>1, <1>5, RowPutFacts
<1>7. Awaits(n, rows, e) /\ RowSound(n, e)
  BY <1>1, <1>4, <1>6 DEF RowPut, Awaits, RowSound
<1>8. ASSUME NEW f, FrameSound(f, rows), f.op = "renew", f.epoch = e
      PROVE  FrameSound(f, n)
  BY <1>4, <1>6, <1>8 DEF FrameSound, RowPut
<1>9. \A w : WireSound(w, rows) => WireSound(w, n)
  <2>1. ASSUME NEW w, WireSound(w, rows)
        PROVE  \A f \in w : f.op = "renew" /\ f.epoch = e => FrameSound(f, n)
    BY <1>8, <2>1 DEF WireSound
  <2> QED
    BY <1>4, <1>6, <1>7, <2>1, RowPutSound
<1>10. \A s : LeaseNamed(s, rows) /\ s.lease = [epoch |-> e, expires |-> rows[e].expires]
              => LeaseNamed(s, n)
  BY <1>4, <1>6, <1>7, RowPutSound
<1>11. RowsSound(n)
  BY <1>4, <1>6, <1>7, RowPutSound
<1> QED
  BY <1>7, <1>9, <1>10, <1>11

LEMMA CompleteInstallSound ==
  ASSUME NEW rows, RowsSound(rows), NEW e \in 1..Len(rows), NEW gen \in Nat,
         rows[e].status = "ACTIVE", rows[e].host = "PENDING_HOST_INSTALL",
         rows[e].digest = rows[e].expires, Holds(rows[e], e),
         NEW n, n = complete_host_lease_install(rows, e, gen)
  PROVE  /\ RowsSound(n) /\ Len(n) = Len(rows)
         /\ n[e].status = "ACTIVE" /\ n[e].host = "INSTALLED"
         /\ \A w : WireSound(w, rows) => WireSound(w, n)
         /\ \A s : LeaseNamed(s, rows) => LeaseNamed(s, n)
<1>1. rows \in Seq(LeaseRows) /\ rows[e] \in LeaseRows /\ RowSound(rows, e)
  BY RowsFacts
<1>2. PICK a \in LeaseRows : a = [rows[e] EXCEPT !.host = "INSTALLED"]
  BY <1>1 DEF LeaseRows, HostStates
<1>3. PICK b \in LeaseRows : b = [a EXCEPT !.gen = gen]
  BY DEF LeaseRows
<1>4. /\ b.host = "INSTALLED" /\ b.status = "ACTIVE"
      /\ b.expires = rows[e].expires /\ b.digest = rows[e].digest
      /\ b.boot = rows[e].boot /\ b.seq = rows[e].seq
  BY <1>1, <1>2, <1>3 DEF LeaseRows
<1>5. n = [rows EXCEPT ![e] = b]
  BY <1>2, <1>3, Zenon DEF complete_host_lease_install
<1>6. RowPut(n, rows, e, b)
  BY <1>1, <1>5, RowPutFacts
<1>7. RowSound(n, e)
  BY <1>1, <1>4, <1>6 DEF RowPut, RowSound, Holds
<1>8. ASSUME NEW f, FrameSound(f, rows), f.op = "renew", f.epoch = e
      PROVE  FrameSound(f, n)
  BY <1>4, <1>6, <1>8 DEF FrameSound, RowPut
<1>9. \A w : WireSound(w, rows) => WireSound(w, n)
  <2>1. ASSUME NEW w, WireSound(w, rows)
        PROVE  \A f \in w : f.op = "renew" /\ f.epoch = e => FrameSound(f, n)
    BY <1>8, <2>1 DEF WireSound
  <2> QED
    BY <1>4, <1>6, <1>7, <2>1, RowPutSound
<1>10. RowsSound(n) /\ \A s : LeaseNamed(s, rows) => LeaseNamed(s, n)
  BY <1>4, <1>6, <1>7, RowPutSound
<1> QED
  BY <1>4, <1>6, <1>9, <1>10 DEF RowPut

\* A renewal that is pending: its candidate outlives what is in force.
Renewing(row, seq, candidate) ==
  /\ row.status = "ACTIVE" /\ row.host = "PENDING_HOST_RENEW"
  /\ row.pending = [seq |-> seq, expires |-> candidate] /\ row.digest = candidate

LEMMA PrepareRenewSound ==
  ASSUME NEW rows, RowsSound(rows), NEW e \in 1..Len(rows), NEW seq \in Nat,
         CanRenew(rows, e, seq), now \in Nat,
         NEW n, n = prepare_host_lease_renew(rows, e, seq)
  PROVE  /\ RowsSound(n) /\ Len(n) = Len(rows)
         /\ \E c \in Nat : Renewing(n[e], seq, c)
         /\ \A w : WireSound(w, rows) => WireSound(w, n)
         /\ \A s : LeaseNamed(s, rows) => LeaseNamed(s, n)
<1>1. rows \in Seq(LeaseRows) /\ rows[e] \in LeaseRows /\ RowSound(rows, e)
  BY RowsFacts
<1>2. PICK c : c = IF rows[e].host = "PENDING_HOST_RENEW"
                   THEN rows[e].pending.expires ELSE now + Ttl
  OBVIOUS
<1>3. PICK p : p = [seq |-> seq, expires |-> c]
  OBVIOUS
<1>4. /\ rows[e].status = "ACTIVE" /\ rows[e].expires \in Nat /\ rows[e].seq \in Nat
      /\ rows[e].pending \in [seq : Nat, expires : Nat]
      /\ \/ rows[e].host = "INSTALLED" /\ seq > rows[e].seq /\ now + Ttl > rows[e].expires
         \/ rows[e].host = "PENDING_HOST_RENEW" /\ seq = rows[e].pending.seq
  BY <1>1 DEF CanRenew, ensure_context, LeaseRows
<1>5. c \in Nat
  BY <1>2, <1>4, ConstantFacts
<1>6. p \in [seq : Nat, expires : Nat] /\ p.seq = seq /\ p.expires = c
  BY <1>3, <1>5
<1>7. c > rows[e].expires /\ seq > rows[e].seq
  BY <1>1, <1>2, <1>4, <1>5 DEF RowSound
<1>8. PICK a \in LeaseRows : a = [rows[e] EXCEPT !.host = "PENDING_HOST_RENEW"]
  BY <1>1 DEF LeaseRows, HostStates
<1>9. PICK b \in LeaseRows : b = [a EXCEPT !.digest = c]
  BY <1>5 DEF LeaseRows
<1>10. PICK r \in LeaseRows : r = [b EXCEPT !.pending = p]
  BY <1>6 DEF LeaseRows
<1>11. /\ r.host = "PENDING_HOST_RENEW" /\ r.status = "ACTIVE"
       /\ r.expires = rows[e].expires /\ r.digest = c /\ r.pending = p
       /\ r.boot = rows[e].boot /\ r.seq = rows[e].seq
  BY <1>1, <1>4, <1>8, <1>9, <1>10 DEF LeaseRows
<1>12. n = [rows EXCEPT ![e] = r]
  BY <1>2, <1>3, <1>8, <1>9, <1>10, Zenon DEF prepare_host_lease_renew
<1>13. RowPut(n, rows, e, r)
  BY <1>1, <1>12, RowPutFacts
<1>14. RowSound(n, e)
  BY <1>1, <1>4, <1>6, <1>7, <1>11, <1>13 DEF RowPut, RowSound, Holds
<1>15. ASSUME NEW f, FrameSound(f, rows), f.op = "renew", f.epoch = e
       PROVE  FrameSound(f, n)
  <2>1. /\ f.boot <= authority.generation /\ f.epoch \in 1..Len(rows)
        /\ f.seq = rows[e].seq => f.expires = rows[e].expires
        /\ f.seq > rows[e].seq =>
             /\ rows[e].host = "PENDING_HOST_RENEW"
             /\ f.seq = rows[e].pending.seq /\ f.expires = rows[e].pending.expires
    BY <1>4, <1>15 DEF FrameSound
  <2>2. f.seq > rows[e].seq => f.seq = seq /\ f.expires = c
    BY <1>2, <1>4, <2>1
  <2> QED
    BY <1>6, <1>11, <1>13, <1>15, <2>1, <2>2 DEF FrameSound, RowPut
<1>16. \A w : WireSound(w, rows) => WireSound(w, n)
  <2>1. ASSUME NEW w, WireSound(w, rows)
        PROVE  \A f \in w : f.op = "renew" /\ f.epoch = e => FrameSound(f, n)
    BY <1>15, <2>1 DEF WireSound
  <2> QED
    BY <1>4, <1>11, <1>13, <1>14, <2>1, RowPutSound
<1>17. RowsSound(n) /\ \A s : LeaseNamed(s, rows) => LeaseNamed(s, n)
  BY <1>4, <1>11, <1>13, <1>14, RowPutSound
<1>18. Renewing(n[e], seq, c)
  BY <1>3, <1>11, <1>13 DEF Renewing, RowPut
<1> QED
  BY <1>5, <1>13, <1>16, <1>17, <1>18 DEF RowPut

LEMMA CompleteRenewSound ==
  ASSUME NEW rows, RowsSound(rows), NEW e \in 1..Len(rows),
         NEW seq \in Nat, NEW expires \in Nat, Renewing(rows[e], seq, expires),
         host.seq = seq, host.expires = expires,
         NEW n, n = complete_host_lease_renew(rows, e, seq, expires)
  PROVE  /\ RowsSound(n) /\ Len(n) = Len(rows)
         /\ \A w : WireSound(w, rows) => WireSound(w, n)
         /\ \A s : LeaseNamed(s, rows) => LeaseNamed(s, n)
<1>1. rows \in Seq(LeaseRows) /\ rows[e] \in LeaseRows /\ RowSound(rows, e)
  BY RowsFacts
<1>2. /\ rows[e].status = "ACTIVE" /\ rows[e].host = "PENDING_HOST_RENEW"
      /\ rows[e].pending.seq = seq /\ rows[e].pending.expires = expires
      /\ rows[e].digest = expires /\ rows[e].seq \in Nat
  BY <1>1 DEF Renewing, LeaseRows
<1>3. seq > rows[e].seq /\ Holds(rows[e], e)
  BY <1>1, <1>2 DEF RowSound
<1>4. PICK p \in [seq : Nat, expires : Nat] : p = [seq |-> 0, expires |-> 0]
  OBVIOUS
<1>5. PICK a \in LeaseRows : a = [rows[e] EXCEPT !.host = "INSTALLED"]
  BY <1>1 DEF LeaseRows, HostStates
<1>6. PICK b \in LeaseRows : b = [a EXCEPT !.expires = expires]
  BY DEF LeaseRows
<1>7. PICK d \in LeaseRows : d = [b EXCEPT !.seq = seq]
  BY DEF LeaseRows
<1>8. PICK r \in LeaseRows : r = [d EXCEPT !.pending = p]
  BY DEF LeaseRows
<1>9. /\ r.host = "INSTALLED" /\ r.status = "ACTIVE" /\ r.expires = expires
      /\ r.digest = expires /\ r.boot = rows[e].boot /\ r.seq = seq
  BY <1>1, <1>2, <1>5, <1>6, <1>7, <1>8 DEF LeaseRows
<1>10. n = [rows EXCEPT ![e] = r]
  BY <1>4, <1>5, <1>6, <1>7, <1>8, Zenon DEF complete_host_lease_renew
<1>11. RowPut(n, rows, e, r)
  <2>1. RowPut([rows EXCEPT ![e] = r], rows, e, r)
    BY <1>1, <1>8, RowPutFacts
  <2> QED
    BY <1>10, <2>1, Zenon
<1>12. RowSound(n, e)
  BY <1>1, <1>2, <1>3, <1>9, <1>11 DEF RowPut, RowSound, Holds
<1>13. ASSUME NEW f \in Frames, FrameSound(f, rows), f.op = "renew", f.epoch = e
       PROVE  FrameSound(f, n)
  <2>1. /\ f.boot <= authority.generation /\ f.epoch \in 1..Len(rows)
        /\ f.seq > rows[e].seq => f.seq = seq /\ f.expires = expires
    BY <1>2, <1>13 DEF FrameSound
  <2>2. f.seq \in Nat
    BY DEF Frames
  <2>3. (f.seq = seq => f.expires = expires) /\ ~(f.seq > seq)
    BY <1>2, <1>3, <2>1, <2>2
  <2> QED
    BY <1>9, <1>11, <1>13, <2>1, <2>3 DEF FrameSound, RowPut
<1>14. \A w : WireSound(w, rows) => WireSound(w, n)
  <2>1. ASSUME NEW w, WireSound(w, rows)
        PROVE  \A f \in w : f.op = "renew" /\ f.epoch = e => FrameSound(f, n)
    BY <1>13, <2>1 DEF WireSound
  <2> QED
    BY <1>2, <1>9, <1>11, <1>12, <2>1, RowPutSound
<1>15. RowsSound(n) /\ \A s : LeaseNamed(s, rows) => LeaseNamed(s, n)
  BY <1>2, <1>9, <1>11, <1>12, RowPutSound
<1> QED
  BY <1>11, <1>14, <1>15 DEF RowPut

\* A lease is acquired when no row is active.
LEMMA AppendSound ==
  ASSUME NEW rows, RowsSound(rows), now \in Nat, WorldTyped,
         \A e \in 1..Len(rows) : rows[e].status # "ACTIVE",
         NEW n, n = Append(rows, NewRow(authority.generation))
  PROVE  /\ RowsSound(n) /\ Len(n) = Len(rows) + 1
         /\ n[Len(n)].status = "ACTIVE" /\ n[Len(n)].host = "UNINSTALLED"
         /\ n[Len(n)].expires = now + Ttl
         /\ \A w : WireSound(w, rows) => WireSound(w, n)
         /\ \A s : LeaseNamed(s, rows) => LeaseNamed(s, n)
<1>1. rows \in Seq(LeaseRows) /\ Len(rows) \in Nat
  BY RowsFacts
<1>2. PICK r : r = NewRow(authority.generation)
  OBVIOUS
<1>3. now + Ttl \in Nat /\ authority.generation \in Nat
  BY ConstantFacts DEF WorldTyped
<1>4. /\ r \in LeaseRows /\ r.status = "ACTIVE" /\ r.host = "UNINSTALLED"
      /\ r.expires = now + Ttl /\ r.boot = authority.generation /\ r.seq = 0
  BY <1>2, <1>3 DEF NewRow, LeaseRows, Statuses, HostStates
<1>5. /\ n \in Seq(LeaseRows) /\ Len(n) = Len(rows) + 1
      /\ \A i \in 1..Len(rows) : n[i] = rows[i]
      /\ n[Len(rows) + 1] = r
  BY <1>1, <1>2, <1>4, AppendProperties
<1>6. ASSUME NEW e \in 1..Len(n) PROVE RowSound(n, e)
  <2>1. CASE e = Len(rows) + 1
    BY <1>4, <1>5, <2>1 DEF RowSound
  <2>2. CASE e \in 1..Len(rows)
    BY <1>5, <2>2 DEF RowSound
  <2> QED
    BY <1>1, <1>5, <2>1, <2>2
<1>7. ASSUME NEW f, FrameSound(f, rows) PROVE FrameSound(f, n)
  BY <1>1, <1>5, <1>7 DEF FrameSound
<1>8. \A w : WireSound(w, rows) => WireSound(w, n)
  BY <1>7 DEF WireSound
<1>9. ASSUME NEW s, LeaseNamed(s, rows) PROVE LeaseNamed(s, n)
  BY <1>1, <1>5, <1>9 DEF LeaseNamed
<1> QED
  BY <1>4, <1>5, <1>6, <1>8, <1>9 DEF RowsSound

-----------------------------------------------------------------------------
(* The memory of the service.                                               *)

\* The memory s with these fields, as far as the invariant speaks of it.
MemIs(n, s, lease, active, revoked, deadline, cleanup) ==
  /\ n \in Memory /\ n.boot = s.boot /\ n.shutdown = s.shutdown
  /\ n.lease = lease /\ n.active = active /\ n.revoked = revoked
  /\ n.deadline = deadline /\ n.cleanup = cleanup

LEMMA LapsedFacts ==
  ASSUME NEW s \in Memory, NEW n
  PROVE  n = [s EXCEPT !.lease = None, !.grant = None, !.deadline = 0, !.active = FALSE]
         => MemIs(n, s, None, FALSE, s.revoked, 0, s.cleanup)
<1>1. PICK z \in Int : z = 0
  OBVIOUS
<1>2. PICK m1 \in Memory : m1 = [s EXCEPT !.lease = None]
  BY NoneFacts DEF Memory
<1>3. PICK m2 \in Memory : m2 = [m1 EXCEPT !.grant = None]
  BY NoneFacts DEF Memory
<1>4. PICK m3 \in Memory : m3 = [m2 EXCEPT !.deadline = z]
  BY DEF Memory
<1>5. PICK m4 \in Memory : m4 = [m3 EXCEPT !.active = FALSE]
  BY DEF Memory
<1>6. n = [s EXCEPT !.lease = None, !.grant = None, !.deadline = 0,
                    !.active = FALSE] => n = m4
  BY <1>1, <1>2, <1>3, <1>4, <1>5, Zenon
<1>7. MemIs(m4, s, None, FALSE, s.revoked, 0, s.cleanup)
  BY <1>1, <1>2, <1>3, <1>4, <1>5 DEF MemIs, Memory
<1> QED
  BY <1>6, <1>7, Zenon

LEMMA RevokedFacts ==
  ASSUME NEW s \in Memory, NEW n
  PROVE  n = [s EXCEPT !.active = FALSE, !.revoked = TRUE, !.deadline = 0]
         => MemIs(n, s, s.lease, FALSE, TRUE, 0, s.cleanup)
<1>1. PICK z \in Int : z = 0
  OBVIOUS
<1>2. PICK m1 \in Memory : m1 = [s EXCEPT !.active = FALSE]
  BY DEF Memory
<1>3. PICK m2 \in Memory : m2 = [m1 EXCEPT !.revoked = TRUE]
  BY DEF Memory
<1>4. PICK m3 \in Memory : m3 = [m2 EXCEPT !.deadline = z]
  BY DEF Memory
<1>5. n = [s EXCEPT !.active = FALSE, !.revoked = TRUE, !.deadline = 0] => n = m3
  BY <1>1, <1>2, <1>3, <1>4, Zenon
<1>6. MemIs(m3, s, s.lease, FALSE, TRUE, 0, s.cleanup)
  BY <1>1, <1>2, <1>3, <1>4 DEF MemIs, Memory
<1> QED
  BY <1>5, <1>6, Zenon

LEMMA ClosedFacts ==
  ASSUME NEW s \in Memory, NEW c \in Nat, NEW n
  PROVE  n = [s EXCEPT !.cleanup = c, !.active = FALSE, !.revoked = TRUE, !.deadline = 0]
         => MemIs(n, s, s.lease, FALSE, TRUE, 0, c)
<1>1. PICK z \in Int : z = 0
  OBVIOUS
<1>2. PICK m1 \in Memory : m1 = [s EXCEPT !.cleanup = c]
  BY DEF Memory
<1>3. PICK m2 \in Memory : m2 = [m1 EXCEPT !.active = FALSE]
  BY DEF Memory
<1>4. PICK m3 \in Memory : m3 = [m2 EXCEPT !.revoked = TRUE]
  BY DEF Memory
<1>5. PICK m4 \in Memory : m4 = [m3 EXCEPT !.deadline = z]
  BY DEF Memory
<1>6. n = [s EXCEPT !.cleanup = c, !.active = FALSE, !.revoked = TRUE,
                    !.deadline = 0] => n = m4
  BY <1>1, <1>2, <1>3, <1>4, <1>5, Zenon
<1>7. MemIs(m4, s, s.lease, FALSE, TRUE, 0, c)
  BY <1>1, <1>2, <1>3, <1>4, <1>5 DEF MemIs, Memory
<1> QED
  BY <1>6, <1>7, Zenon

LEMMA InstallingFacts ==
  ASSUME NEW s \in Memory, NEW d \in Int, NEW e \in Nat, NEW g \in Grants, NEW n
  PROVE  n = [s EXCEPT !.deadline = d, !.deadlineLease = e, !.grant = g]
         => MemIs(n, s, s.lease, s.active, s.revoked, d, s.cleanup)
<1>1. PICK m1 \in Memory : m1 = [s EXCEPT !.deadline = d]
  BY DEF Memory
<1>2. PICK m2 \in Memory : m2 = [m1 EXCEPT !.deadlineLease = e]
  BY DEF Memory
<1>3. PICK m3 \in Memory : m3 = [m2 EXCEPT !.grant = g]
  BY DEF Memory
<1>4. n = [s EXCEPT !.deadline = d, !.deadlineLease = e, !.grant = g] => n = m3
  BY <1>1, <1>2, <1>3, Zenon
<1>5. MemIs(m3, s, s.lease, s.active, s.revoked, d, s.cleanup)
  BY <1>1, <1>2, <1>3 DEF MemIs, Memory
<1> QED
  BY <1>4, <1>5, Zenon

LEMMA FreshFacts ==
  ASSUME NEW s \in Memory, NEW g \in Grants, NEW n
  PROVE  n = [s EXCEPT !.lease = g, !.active = FALSE]
         => MemIs(n, s, g, FALSE, s.revoked, s.deadline, s.cleanup)
<1>1. PICK m1 \in Memory : m1 = [s EXCEPT !.lease = g]
  BY DEF Memory
<1>2. PICK m2 \in Memory : m2 = [m1 EXCEPT !.active = FALSE]
  BY DEF Memory
<1>3. n = [s EXCEPT !.lease = g, !.active = FALSE] => n = m2
  BY <1>1, <1>2, Zenon
<1>4. MemIs(m2, s, g, FALSE, s.revoked, s.deadline, s.cleanup)
  BY <1>1, <1>2 DEF MemIs, Memory
<1> QED
  BY <1>3, <1>4, Zenon

LEMMA RefusedFacts ==
  ASSUME NEW s \in Memory, NEW n
  PROVE  n = [s EXCEPT !.active = FALSE, !.lease = None, !.deadline = 0,
                       !.deadlineLease = 0, !.grant = None, !.revoked = TRUE]
         => MemIs(n, s, None, FALSE, TRUE, 0, s.cleanup)
<1>1. PICK z \in Int : z = 0
  OBVIOUS
<1>2. PICK m1 \in Memory : m1 = [s EXCEPT !.active = FALSE]
  BY DEF Memory
<1>3. PICK m2 \in Memory : m2 = [m1 EXCEPT !.lease = None]
  BY NoneFacts DEF Memory
<1>4. PICK m3 \in Memory : m3 = [m2 EXCEPT !.deadline = z]
  BY DEF Memory
<1>5. PICK m4 \in Memory : m4 = [m3 EXCEPT !.deadlineLease = 0]
  BY DEF Memory
<1>6. PICK m5 \in Memory : m5 = [m4 EXCEPT !.grant = None]
  BY NoneFacts DEF Memory
<1>7. PICK m6 \in Memory : m6 = [m5 EXCEPT !.revoked = TRUE]
  BY DEF Memory
<1>8. n = [s EXCEPT !.active = FALSE, !.lease = None, !.deadline = 0, !.deadlineLease = 0,
                    !.grant = None, !.revoked = TRUE] => n = m6
  BY <1>1, <1>2, <1>3, <1>4, <1>5, <1>6, <1>7, Zenon
<1>9. MemIs(m6, s, None, FALSE, TRUE, 0, s.cleanup)
  BY <1>1, <1>2, <1>3, <1>4, <1>5, <1>6, <1>7 DEF MemIs, Memory
<1> QED
  BY <1>8, <1>9, Zenon

LEMMA LateFacts ==
  ASSUME NEW s \in Memory, NEW n
  PROVE  n = [s EXCEPT !.deadline = 0, !.active = FALSE]
         => MemIs(n, s, s.lease, FALSE, s.revoked, 0, s.cleanup)
<1>1. PICK z \in Int : z = 0
  OBVIOUS
<1>2. PICK m1 \in Memory : m1 = [s EXCEPT !.deadline = z]
  BY DEF Memory
<1>3. PICK m2 \in Memory : m2 = [m1 EXCEPT !.active = FALSE]
  BY DEF Memory
<1>4. n = [s EXCEPT !.deadline = 0, !.active = FALSE] => n = m2
  BY <1>1, <1>2, <1>3, Zenon
<1>5. MemIs(m2, s, s.lease, FALSE, s.revoked, 0, s.cleanup)
  BY <1>1, <1>2, <1>3 DEF MemIs, Memory
<1> QED
  BY <1>4, <1>5, Zenon

LEMMA ActiveFacts ==
  ASSUME NEW s \in Memory, NEW g \in Grants, NEW n
  PROVE  n = [s EXCEPT !.lease = g, !.active = TRUE, !.revoked = FALSE]
         => MemIs(n, s, g, TRUE, FALSE, s.deadline, s.cleanup)
<1>1. PICK m1 \in Memory : m1 = [s EXCEPT !.lease = g]
  BY DEF Memory
<1>2. PICK m2 \in Memory : m2 = [m1 EXCEPT !.active = TRUE]
  BY DEF Memory
<1>3. PICK m3 \in Memory : m3 = [m2 EXCEPT !.revoked = FALSE]
  BY DEF Memory
<1>4. n = [s EXCEPT !.lease = g, !.active = TRUE, !.revoked = FALSE] => n = m3
  BY <1>1, <1>2, <1>3, Zenon
<1>5. MemIs(m3, s, g, TRUE, FALSE, s.deadline, s.cleanup)
  BY <1>1, <1>2, <1>3 DEF MemIs, Memory
<1> QED
  BY <1>4, <1>5, Zenon

LEMMA RenewedFacts ==
  ASSUME NEW s \in Memory, NEW d \in Int, NEW e \in Nat, NEW g \in Grants, NEW n
  PROVE  n = [s EXCEPT !.grant = g, !.deadline = d, !.deadlineLease = e]
         => MemIs(n, s, s.lease, s.active, s.revoked, d, s.cleanup)
<1>1. PICK m1 \in Memory : m1 = [s EXCEPT !.grant = g]
  BY DEF Memory
<1>2. PICK m2 \in Memory : m2 = [m1 EXCEPT !.deadline = d]
  BY DEF Memory
<1>3. PICK m3 \in Memory : m3 = [m2 EXCEPT !.deadlineLease = e]
  BY DEF Memory
<1>4. n = [s EXCEPT !.grant = g, !.deadline = d, !.deadlineLease = e] => n = m3
  BY <1>1, <1>2, <1>3, Zenon
<1>5. MemIs(m3, s, s.lease, s.active, s.revoked, d, s.cleanup)
  BY <1>1, <1>2, <1>3 DEF MemIs, Memory
<1> QED
  BY <1>4, <1>5, Zenon

LEMMA RetiredFacts ==
  ASSUME NEW s \in Memory, NEW r \in BOOLEAN, NEW n
  PROVE  n = [s EXCEPT !.cleanup = 0, !.lease = None, !.deadline = 0, !.deadlineLease = 0,
                       !.grant = None, !.active = FALSE, !.revoked = r]
         => MemIs(n, s, None, FALSE, r, 0, 0)
<1>1. PICK z \in Int : z = 0
  OBVIOUS
<1>2. PICK m1 \in Memory : m1 = [s EXCEPT !.cleanup = 0]
  BY DEF Memory
<1>3. PICK m2 \in Memory : m2 = [m1 EXCEPT !.lease = None]
  BY NoneFacts DEF Memory
<1>4. PICK m3 \in Memory : m3 = [m2 EXCEPT !.deadline = z]
  BY DEF Memory
<1>5. PICK m4 \in Memory : m4 = [m3 EXCEPT !.deadlineLease = 0]
  BY DEF Memory
<1>6. PICK m5 \in Memory : m5 = [m4 EXCEPT !.grant = None]
  BY NoneFacts DEF Memory
<1>7. PICK m6 \in Memory : m6 = [m5 EXCEPT !.active = FALSE]
  BY DEF Memory
<1>8. PICK m7 \in Memory : m7 = [m6 EXCEPT !.revoked = r]
  BY DEF Memory
<1>9. n = [s EXCEPT !.cleanup = 0, !.lease = None, !.deadline = 0, !.deadlineLease = 0,
                    !.grant = None, !.active = FALSE, !.revoked = r] => n = m7
  BY <1>1, <1>2, <1>3, <1>4, <1>5, <1>6, <1>7, <1>8, Zenon
<1>10. MemIs(m7, s, None, FALSE, r, 0, 0)
  BY <1>1, <1>2, <1>3, <1>4, <1>5, <1>6, <1>7, <1>8 DEF MemIs, Memory
<1> QED
  BY <1>9, <1>10, Zenon

LEMMA EpisodeFacts ==
  ASSUME NEW s \in Memory, NEW p \in [boot : Nat, released : Nat], NEW n
  PROVE  n = [s EXCEPT !.profile = p, !.revoked = FALSE]
         => MemIs(n, s, s.lease, s.active, FALSE, s.deadline, s.cleanup)
<1>1. PICK m1 \in Memory : m1 = [s EXCEPT !.profile = p]
  BY DEF Memory
<1>2. PICK m2 \in Memory : m2 = [m1 EXCEPT !.revoked = FALSE]
  BY DEF Memory
<1>3. n = [s EXCEPT !.profile = p, !.revoked = FALSE] => n = m2
  BY <1>1, <1>2, Zenon
<1>4. MemIs(m2, s, s.lease, s.active, FALSE, s.deadline, s.cleanup)
  BY <1>1, <1>2 DEF MemIs, Memory
<1> QED
  BY <1>3, <1>4, Zenon

LEMMA IntentionalFacts ==
  ASSUME NEW s \in Memory, NEW n
  PROVE  n = Intentional(s) => MemIs(n, s, s.lease, s.active, s.revoked, s.deadline, 0)
  BY DEF MemIs, Memory, Intentional

Booted(n, b) == n \in Memory /\ n.boot = b /\ n.lease = None /\ ~n.active

LEMMA BootFacts ==
  ASSUME NEW s \in Memory, NEW b \in Nat, NEW n
  PROVE  n = [s EXCEPT !.boot = b, !.fence = FALSE, !.lease = None, !.cleanup = 0,
                       !.deadline = 0, !.grant = None, !.active = FALSE,
                       !.revoked = FALSE]
         => Booted(n, b)
<1>1. PICK z \in Int : z = 0
  OBVIOUS
<1>2. PICK m1 \in Memory : m1 = [s EXCEPT !.boot = b]
  BY DEF Memory
<1>3. PICK m2 \in Memory : m2 = [m1 EXCEPT !.fence = FALSE]
  BY DEF Memory
<1>4. PICK m3 \in Memory : m3 = [m2 EXCEPT !.lease = None]
  BY NoneFacts DEF Memory
<1>5. PICK m4 \in Memory : m4 = [m3 EXCEPT !.cleanup = 0]
  BY DEF Memory
<1>6. PICK m5 \in Memory : m5 = [m4 EXCEPT !.deadline = z]
  BY DEF Memory
<1>7. PICK m6 \in Memory : m6 = [m5 EXCEPT !.grant = None]
  BY NoneFacts DEF Memory
<1>8. PICK m7 \in Memory : m7 = [m6 EXCEPT !.active = FALSE]
  BY DEF Memory
<1>9. PICK m8 \in Memory : m8 = [m7 EXCEPT !.revoked = FALSE]
  BY DEF Memory
<1>10. n = [s EXCEPT !.boot = b, !.fence = FALSE, !.lease = None, !.cleanup = 0,
                     !.deadline = 0, !.grant = None, !.active = FALSE,
                     !.revoked = FALSE] => n = m8
  BY <1>1, <1>2, <1>3, <1>4, <1>5, <1>6, <1>7, <1>8, <1>9, Zenon
<1>11. Booted(m8, b)
  BY <1>1, <1>2, <1>3, <1>4, <1>5, <1>6, <1>7, <1>8, <1>9 DEF Booted, Memory
<1> QED
  BY <1>10, <1>11, Zenon

-----------------------------------------------------------------------------
(* What a handler commits.                                                  *)

\* A handler works on the memory s and the rows.
Works(s, rows) ==
  /\ WorldTyped
  /\ RowsSound(rows) /\ WireSound(wire, rows)
  /\ MemSound(s, rows, stopped, returned)

Still == UNCHANGED <<authority, host, mono, skew, returned>>

LEMMA IdleFacts == Idle \in Calls /\ Idle.op = "idle" /\ Idle.reply = NoReply
  BY DEF Idle, Calls, CallOps, Purposes, Stops, NoReply

LEMMA EndsInv ==
  ASSUME NEW s, NEW rows, WorldTyped', authority' = authority, host' = host,
         RowsSound(rows), WireSound(wire, rows),
         MemSound(s, rows, stopped', returned'), Ends(s, rows)
  PROVE  LInv'
<1>1. svc' = s /\ leases' = rows /\ call' = Idle /\ wire' = wire
  BY DEF Ends
<1>2. RowsSound(leases)'
  BY <1>1 DEF RowsSound, RowSound, Holds
<1>3. MemSound(svc, leases, stopped, returned)'
  BY <1>1 DEF MemSound, LeaseNamed
<1>4. WireSound(wire, leases)'
  BY <1>1 DEF WireSound, FrameSound
<1>5. CallSound(call, svc, leases, stopped)'
  BY <1>1, IdleFacts DEF CallSound
<1> QED
  BY <1>2, <1>3, <1>4, <1>5 DEF LInv

LEMMA SendsInv ==
  ASSUME NEW s, NEW rows, NEW c, WorldTyped', authority' = authority, host' = host,
         RowsSound(rows), WireSound(wire, rows),
         MemSound(s, rows, stopped', returned'),
         CallSound(c, s, rows, stopped'),
         FrameOf(s.boot, c) \in Frames, FrameSound(FrameOf(s.boot, c), rows),
         Sends(s, rows, c)
  PROVE  LInv'
<1>1. /\ svc' = s /\ leases' = rows /\ call' = c
      /\ wire' = wire \cup {FrameOf(s.boot, c)}
  BY DEF Sends
<1>2. RowsSound(leases)'
  BY <1>1 DEF RowsSound, RowSound, Holds
<1>3. MemSound(svc, leases, stopped, returned)'
  BY <1>1 DEF MemSound, LeaseNamed
<1>4. WireSound(wire, leases)'
  <2>1. WireSound(wire', rows)
    BY <1>1 DEF WireSound
  <2> QED
    BY <1>1, <2>1 DEF WireSound, FrameSound
<1>5. CallSound(call, svc, leases, stopped)'
  BY <1>1 DEF CallSound, InstallSound, RenewSound, Holds
<1> QED
  BY <1>2, <1>3, <1>4, <1>5 DEF LInv

\* The handler that waits for the host, and the frame it has written.
Asks(c, op, why, epoch, expires, seq) ==
  /\ c \in Calls /\ c.op = op /\ c.purpose = why /\ c.epoch = epoch
  /\ c.expires = expires /\ c.seq = seq /\ c.reply = NoReply

LEMMA AsksFacts ==
  ASSUME NEW op \in CallOps, NEW why \in Purposes, NEW e \in Nat, NEW x \in Nat, NEW c
  PROVE  c = [Idle EXCEPT !.op = op, !.purpose = why, !.epoch = e, !.expires = x]
         => Asks(c, op, why, e, x, 0)
<1>1. PICK c1 \in Calls : c1 = [Idle EXCEPT !.op = op]
  BY IdleFacts DEF Calls
<1>2. PICK c2 \in Calls : c2 = [c1 EXCEPT !.purpose = why]
  BY DEF Calls
<1>3. PICK c3 \in Calls : c3 = [c2 EXCEPT !.epoch = e]
  BY DEF Calls
<1>4. PICK c4 \in Calls : c4 = [c3 EXCEPT !.expires = x]
  BY DEF Calls
<1>5. c = [Idle EXCEPT !.op = op, !.purpose = why, !.epoch = e, !.expires = x] => c = c4
  BY <1>1, <1>2, <1>3, <1>4, Zenon
<1>6. Idle.seq = 0 /\ Idle.reply = NoReply
  BY DEF Idle
<1>7. Asks(c4, op, why, e, x, 0)
  BY <1>1, <1>2, <1>3, <1>4, <1>6, IdleFacts DEF Asks, Calls
<1> QED
  BY <1>5, <1>7, Zenon

LEMMA RenewAsksFacts ==
  ASSUME NEW e \in Nat, NEW q \in Nat, NEW x \in Nat, NEW d \in Int, NEW c
  PROVE  c = [Idle EXCEPT !.op = "renew", !.purpose = "renew", !.epoch = e, !.seq = q,
                          !.expires = x, !.deadline = d]
         => Asks(c, "renew", "renew", e, x, q)
<1>1. PICK c1 \in Calls : c1 = [Idle EXCEPT !.op = "renew"]
  BY IdleFacts DEF Calls, CallOps
<1>2. PICK c2 \in Calls : c2 = [c1 EXCEPT !.purpose = "renew"]
  BY DEF Calls, Purposes, Stops
<1>3. PICK c3 \in Calls : c3 = [c2 EXCEPT !.epoch = e]
  BY DEF Calls
<1>4. PICK c4 \in Calls : c4 = [c3 EXCEPT !.seq = q]
  BY DEF Calls
<1>5. PICK c5 \in Calls : c5 = [c4 EXCEPT !.expires = x]
  BY DEF Calls
<1>6. PICK c6 \in Calls : c6 = [c5 EXCEPT !.deadline = d]
  BY DEF Calls
<1>7. c = [Idle EXCEPT !.op = "renew", !.purpose = "renew", !.epoch = e, !.seq = q,
                       !.expires = x, !.deadline = d] => c = c6
  BY <1>1, <1>2, <1>3, <1>4, <1>5, <1>6, Zenon
<1>8. Asks(c6, "renew", "renew", e, x, q)
  BY <1>1, <1>2, <1>3, <1>4, <1>5, <1>6, IdleFacts DEF Asks, Calls
<1> QED
  BY <1>7, <1>8, Zenon

LEMMA FrameFacts ==
  ASSUME NEW b \in Nat, NEW c \in Calls
  PROVE  /\ FrameOf(b, c) \in Frames
         /\ FrameOf(b, c).op = c.op /\ FrameOf(b, c).boot = b
         /\ FrameOf(b, c).epoch = c.epoch /\ FrameOf(b, c).expires = c.expires
         /\ FrameOf(b, c).seq = c.seq
  BY DEF FrameOf, Frames, Calls

\* The deadline check leaves a handler with memory and rows it can work on.
LEMMA DeadlineWorks ==
  ASSUME LInv
  PROVE  /\ Works(svc, leases)
         /\ Works(DeadlineChecked(svc), DeadlineExpired(svc, leases))
<1>1. Works(svc, leases)
  BY DEF LInv, Works
<1>2. CASE ~DeadlinePassed(svc)
  BY <1>1, <1>2 DEF DeadlineChecked, DeadlineExpired
<1>3. CASE DeadlinePassed(svc)
  <2>1. PICK s, n : s = DeadlineChecked(svc) /\ n = expire_leases(leases)
    OBVIOUS
  <2>2. svc \in Memory
    BY DEF LInv, MemSound
  <2>3. MemIs(s, svc, None, FALSE, svc.revoked, 0, svc.cleanup)
    BY <1>3, <2>1, <2>2, LapsedFacts, Zenon DEF DeadlineChecked
  <2>4. MemSound(s, leases, stopped, returned)
    BY <1>1, <2>3 DEF Works, MemSound, MemIs, LeaseNamed
  <2>5. Retires(n, leases)
    BY <1>1, <2>1, ExpireRetires DEF Works
  <2>6. Works(s, n)
    BY <1>1, <2>4, <2>5, RetiresSound DEF Works
  <2> QED
    BY <1>1, <1>3, <2>1, <2>6, Zenon DEF DeadlineExpired
<1> QED
  BY <1>2, <1>3

LEMMA WorksEnds ==
  ASSUME NEW s, NEW rows, Works(s, rows), Still, stopped' = stopped, Ends(s, rows)
  PROVE  LInv'
<1>1. WorldTyped' /\ authority' = authority /\ host' = host
  BY DEF Works, WorldTyped, Still
<1>2. MemSound(s, rows, stopped', returned')
  BY DEF Works, Still
<1> QED
  BY <1>1, <1>2, EndsInv DEF Works

-----------------------------------------------------------------------------
(* The pieces handlers are made of.                                         *)

\* Authority is gone before the frame is written, so the frame can do no harm.
LEMMA RevokeInv ==
  ASSUME NEW s, NEW rows, NEW why \in Purposes, Works(s, rows), Still, s.lease # None,
         why \in Stops => s.cleanup = 0, why \in {"profiled", "retry"} => ~stopped,
         revoke_host_lease(s, rows, why)
  PROVE  LInv'
<1>1. PICK e : e = s.lease.epoch
  OBVIOUS
<1>2. /\ s \in Memory /\ s.boot = authority.generation /\ LeaseNamed(s, rows)
      /\ stopped => s.cleanup = 0
      /\ WorldTyped /\ RowsSound(rows) /\ WireSound(wire, rows)
  BY DEF Works, MemSound
<1>3. e \in 1..Len(rows) /\ Len(rows) \in Nat /\ rows[e] \in LeaseRows
  BY <1>1, <1>2, RowsFacts DEF LeaseNamed
<1>4. CASE Ends(s, rows) /\ stopped' = stopped
  BY <1>4, WorksEnds
<1>5. CASE /\ Sends([s EXCEPT !.active = FALSE, !.revoked = TRUE, !.deadline = 0],
                    begin_host_lease_revoke(rows, e),
                    [Idle EXCEPT !.op = "revoke", !.purpose = why, !.epoch = e,
                                 !.expires = rows[e].expires])
           /\ stopped' = (stopped \/ why \in Stops)
  <2>1. PICK n, m, c, x :
          /\ n = begin_host_lease_revoke(rows, e) /\ x = rows[e].expires
          /\ m = [s EXCEPT !.active = FALSE, !.revoked = TRUE, !.deadline = 0]
          /\ c = [Idle EXCEPT !.op = "revoke", !.purpose = why, !.epoch = e,
                              !.expires = x]
    BY Zenon
  <2>2. Sends(m, n, c)
    BY <1>5, <2>1, Zenon
  <2>3. MemIs(m, s, s.lease, FALSE, TRUE, 0, s.cleanup)
    BY <1>2, <2>1, RevokedFacts, Zenon
  <2>4. Asks(c, "revoke", why, e, x, 0)
    <3>1. "revoke" \in CallOps /\ e \in Nat /\ x \in Nat
      BY <1>3, <2>1 DEF CallOps, LeaseRows
    <3> QED
      BY <2>1, <3>1, AsksFacts, Zenon
  <2>5. Retires(n, rows) /\ n[e].status = "REVOKED" /\ Len(n) = Len(rows)
    BY <1>2, <1>3, <2>1, BeginRevokeRetires DEF Retires
  <2>6. RowsSound(n) /\ WireSound(wire, n) /\ LeaseNamed(s, n)
    BY <1>2, <2>5, RetiresSound
  <2>7. MemSound(m, n, stopped', returned')
    BY <1>2, <1>5, <2>3, <2>6 DEF MemSound, MemIs, LeaseNamed
  <2>8. CallSound(c, m, n, stopped')
    BY <1>3, <1>5, <2>4, <2>5 DEF CallSound, Asks, Stops
  <2>9. m.boot \in Nat /\ m.boot = authority.generation /\ authority.generation \in Nat
    BY <1>2, <2>3 DEF MemIs, WorldTyped
  <2>10. FrameOf(m.boot, c) \in Frames /\ FrameSound(FrameOf(m.boot, c), n)
    <3>1. PICK f : f = FrameOf(m.boot, c)
      OBVIOUS
    <3>2. /\ f \in Frames /\ f.op = "revoke" /\ f.boot = authority.generation
          /\ f.epoch = e
      BY <2>4, <2>9, <3>1, FrameFacts DEF Asks
    <3>3. FrameSound(f, n)
      BY <1>3, <2>5, <2>9, <3>2 DEF FrameSound
    <3> QED
      BY <3>1, <3>2, <3>3
  <2>11. WorldTyped' /\ authority' = authority /\ host' = host
    BY <1>2, <1>5 DEF WorldTyped, Still
  <2> QED
    BY <2>2, <2>6, <2>7, <2>8, <2>10, <2>11, SendsInv
<1> QED
  BY <1>1, <1>4, <1>5, Zenon DEF revoke_host_lease

\* A cleanup closes the memory first, whatever state it is in.
LEMMA CleanupInv ==
  ASSUME NEW s \in Memory, NEW rows, WorldTyped, RowsSound(rows), WireSound(wire, rows),
         s.boot = authority.generation, LeaseNamed(s, rows), ~stopped, Still,
         cleanup_unreturned_allocation(s, rows)
  PROVE  LInv'
<1>1. PICK m : m = Closed(s)
  OBVIOUS
<1>2. PICK c : c = IF s.revoked \/ s.shutdown THEN s.cleanup ELSE s.lease.epoch
  OBVIOUS
<1>3. c \in Nat
  BY <1>2 DEF Memory, Grants
<1>4. MemIs(m, s, s.lease, FALSE, TRUE, 0, c)
  <2>1. m = [s EXCEPT !.cleanup = c, !.active = FALSE, !.revoked = TRUE, !.deadline = 0]
    BY <1>1, <1>2, Zenon DEF Closed
  <2> QED
    BY <1>3, <2>1, ClosedFacts, Zenon
<1>5. Works(m, rows)
  BY <1>4 DEF Works, MemSound, MemIs, LeaseNamed
<1>6. CASE s.lease = None
  <2>1. Ends(m, rows) /\ stopped' = stopped
    BY <1>1, <1>6, Zenon DEF cleanup_unreturned_allocation
  <2> QED
    BY <1>5, <2>1, WorksEnds
<1>7. CASE s.lease # None
  <2>1. revoke_host_lease(m, rows, "cleanup")
    BY <1>1, <1>7, Zenon DEF cleanup_unreturned_allocation
  <2>2. "cleanup" \in Purposes \ Stops /\ m.lease # None
    BY <1>4, <1>7 DEF Purposes, Stops, MemIs
  <2> QED
    BY <1>5, <2>1, <2>2, RevokeInv
<1> QED
  BY <1>6, <1>7

\* The grant that is sent is the one of the row, and the row awaits its answer.
LEMMA InstallInv ==
  ASSUME NEW s, NEW rows, NEW lease, NEW why \in Purposes, Works(s, rows), Still,
         ~stopped, ~s.active, s.lease = lease, lease # None,
         rows[lease.epoch].host \in {"UNINSTALLED", "PENDING_HOST_INSTALL"},
         rows[lease.epoch].expires = lease.expires,
         install_host_lease(s, rows, lease, why)
  PROVE  LInv'
<1>1. PICK e, x : e = lease.epoch /\ x = lease.expires
  OBVIOUS
<1>2. /\ s \in Memory /\ s.boot = authority.generation /\ LeaseNamed(s, rows)
      /\ WorldTyped /\ RowsSound(rows) /\ WireSound(wire, rows)
  BY DEF Works, MemSound
<1>3. /\ e \in 1..Len(rows) /\ Len(rows) \in Nat /\ rows[e] \in LeaseRows
      /\ x \in Nat /\ lease \in Grants /\ rows[e].expires = x
      /\ lease = [epoch |-> e, expires |-> x]
  BY <1>1, <1>2, RowsFacts DEF LeaseNamed, Memory, Grants
<1>4. PICK n : n = prepare_host_lease_install(rows, e, x)
  OBVIOUS
<1>5. ASSUME CanInstall(rows, e)
      PROVE  /\ RowsSound(n) /\ Awaits(n, rows, e) /\ WireSound(wire, n)
             /\ LeaseNamed(s, n)
  <2>1. rows[e].status = "ACTIVE"
    BY <1>5 DEF CanInstall
  <2>2. n = prepare_host_lease_install(rows, e, rows[e].expires)
    BY <1>3, <1>4
  <2> QED
    BY <1>1, <1>2, <1>3, <2>1, <2>2, PrepareInstallSound
<1>6. CASE Ends(s, rows) /\ stopped' = stopped
  BY <1>6, WorksEnds
<1>7. CASE cleanup_unreturned_allocation(s, rows)
  BY <1>2, <1>7, CleanupInv
<1>8. CASE CanInstall(rows, e) /\ cleanup_unreturned_allocation(s, n)
  BY <1>2, <1>5, <1>8, CleanupInv
<1>9. CASE /\ CanInstall(rows, e)
           /\ \E d : Sends([s EXCEPT !.deadline = d, !.deadlineLease = e, !.grant = lease], n,
                           [Idle EXCEPT !.op = "install", !.purpose = why, !.epoch = e,
                                        !.expires = x])
                     /\ d \in Int
           /\ stopped' = stopped
  <2>1. PICK d \in Int :
          Sends([s EXCEPT !.deadline = d, !.deadlineLease = e, !.grant = lease], n,
                [Idle EXCEPT !.op = "install", !.purpose = why, !.epoch = e, !.expires = x])
    BY <1>9, Zenon
  <2>2. PICK m, c :
          /\ m = [s EXCEPT !.deadline = d, !.deadlineLease = e, !.grant = lease]
          /\ c = [Idle EXCEPT !.op = "install", !.purpose = why, !.epoch = e, !.expires = x]
    BY Zenon
  <2>3. Sends(m, n, c)
    BY <2>1, <2>2, Zenon
  <2>4. e \in Nat /\ "install" \in CallOps
    BY <1>3 DEF CallOps
  <2>5. MemIs(m, s, s.lease, s.active, s.revoked, d, s.cleanup)
    BY <1>2, <1>3, <2>2, <2>4, InstallingFacts, Zenon
  <2>6. Asks(c, "install", why, e, x, 0)
    BY <1>3, <2>2, <2>4, AsksFacts, Zenon
  <2>7. RowsSound(n) /\ Awaits(n, rows, e) /\ WireSound(wire, n) /\ LeaseNamed(s, n)
    BY <1>5, <1>9
  <2>8. MemSound(m, n, stopped', returned')
    BY <1>2, <1>9, <2>5, <2>7 DEF MemSound, MemIs, LeaseNamed
  <2>9. CallSound(c, m, n, stopped')
    BY <1>3, <1>9, <2>6, <2>7 DEF CallSound, InstallSound, Awaits, Asks
  <2>10. m.boot \in Nat /\ m.boot = authority.generation /\ authority.generation \in Nat
    BY <1>2, <2>5 DEF MemIs, WorldTyped
  <2>11. FrameOf(m.boot, c) \in Frames /\ FrameSound(FrameOf(m.boot, c), n)
    <3>1. PICK f : f = FrameOf(m.boot, c)
      OBVIOUS
    <3>2. /\ f \in Frames /\ f.op = "install" /\ f.boot = authority.generation
          /\ f.epoch = e
      BY <2>6, <2>10, <3>1, FrameFacts DEF Asks
    <3>3. FrameSound(f, n)
      BY <1>3, <2>7, <2>10, <3>2 DEF FrameSound, Awaits
    <3> QED
      BY <3>1, <3>2, <3>3
  <2>12. WorldTyped' /\ authority' = authority /\ host' = host
    BY <1>2, <1>9 DEF WorldTyped, Still
  <2> QED
    BY <2>3, <2>7, <2>8, <2>9, <2>11, <2>12, SendsInv
<1>10. lease_deadline(x) \in Int /\ s.deadline \in Int
  BY <1>2, <1>3, ConstantFacts DEF lease_deadline, now, WorldTyped, Memory
<1>11. CASE /\ CanInstall(rows, e) /\ stopped' = stopped
            /\ Sends([s EXCEPT !.deadline = IF s.deadlineLease = e THEN @
                                            ELSE lease_deadline(x),
                               !.deadlineLease = e, !.grant = lease], n,
                     [Idle EXCEPT !.op = "install", !.purpose = why, !.epoch = e,
                                  !.expires = x])
  <2>1. PICK d : d = IF s.deadlineLease = e THEN s.deadline ELSE lease_deadline(x)
    OBVIOUS
  <2>2. d \in Int
    BY <1>10, <2>1
  <2>3. Sends([s EXCEPT !.deadline = d, !.deadlineLease = e, !.grant = lease], n,
              [Idle EXCEPT !.op = "install", !.purpose = why, !.epoch = e, !.expires = x])
    BY <1>11, <2>1, Zenon
  <2> QED
    BY <1>9, <1>11, <2>2, <2>3, Zenon
<1> QED
  BY <1>1, <1>4, <1>6, <1>7, <1>8, <1>11, Zenon DEF install_host_lease

LEMMA RefuseRetires ==
  ASSUME NEW rows, RowsSound(rows), NEW e \in 1..Len(rows), NEW n,
         n = [rows EXCEPT ![e].status = "REVOKED"]
  PROVE  Retires(n, rows)
<1>1. rows \in Seq(LeaseRows) /\ rows[e] \in LeaseRows
  BY RowsFacts
<1>2. PICK a \in LeaseRows : a = [rows[e] EXCEPT !.status = "REVOKED"]
  BY <1>1 DEF LeaseRows, Statuses
<1>3. a.status = "REVOKED" /\ a.host = rows[e].host /\ a.expires = rows[e].expires
  BY <1>1, <1>2 DEF LeaseRows
<1>4. n = [rows EXCEPT ![e] = a]
  BY <1>2, Zenon
<1>5. RowPut(n, rows, e, a)
  <2>1. RowPut([rows EXCEPT ![e] = a], rows, e, a)
    BY <1>1, RowPutFacts
  <2> QED
    BY <1>4, <2>1, Zenon
<1> QED
  BY <1>1, <1>3, <1>5 DEF RowPut, Retires

LEMMA AcquireInv ==
  ASSUME NEW s, NEW rows, NEW why \in Purposes, Works(s, rows), Still, ~stopped,
         AcquireAndInstall(s, rows, why)
  PROVE  LInv'
<1>1. PICK n : n = expire_leases(rows)
  OBVIOUS
<1>2. PICK a : a = Append(n, NewRow(s.boot))
  OBVIOUS
<1>3. PICK lease : lease = [epoch |-> Len(a), expires |-> now + Ttl]
  OBVIOUS
<1>4. /\ s \in Memory /\ s.boot = authority.generation /\ LeaseNamed(s, rows)
      /\ WorldTyped /\ RowsSound(rows) /\ WireSound(wire, rows)
  BY DEF Works, MemSound
<1>5. now \in Nat /\ now + Ttl \in Nat
  BY <1>4, ConstantFacts DEF now, WorldTyped
<1>6. Works(s, n) /\ RowsSound(n)
  <2>1. Retires(n, rows)
    BY <1>1, <1>4, ExpireRetires
  <2> QED
    BY <2>1, RetiresSound DEF Works
<1>7. ASSUME active_lease(n) = {}
      PROVE  /\ RowsSound(a) /\ Len(a) \in 1..Len(a) /\ Len(a) \in Nat
             /\ a[Len(a)].host = "UNINSTALLED" /\ a[Len(a)].expires = now + Ttl
             /\ WireSound(wire, a) /\ LeaseNamed(s, a)
  <2>1. \A e \in 1..Len(n) : n[e].status # "ACTIVE"
    BY <1>6, <1>7, RowsFacts DEF active_lease
  <2>2. a = Append(n, NewRow(authority.generation))
    BY <1>2, <1>4
  <2>3. /\ RowsSound(a) /\ Len(a) = Len(n) + 1
        /\ a[Len(a)].host = "UNINSTALLED" /\ a[Len(a)].expires = now + Ttl
        /\ WireSound(wire, a) /\ LeaseNamed(s, a)
    BY <1>4, <1>5, <1>6, <2>1, <2>2, AppendSound DEF Works, MemSound
  <2>4. Len(n) \in Nat
    BY <1>6, RowsFacts
  <2> QED
    BY <2>3, <2>4
<1>8. CASE /\ s.lease # None /\ ~s.active
           /\ rows[s.lease.epoch].host = "PENDING_HOST_INSTALL"
           /\ install_host_lease(s, rows, s.lease, why)
  <2>1. PICK g : g = s.lease
    OBVIOUS
  <2>2. /\ g # None /\ rows[g.epoch].host = "PENDING_HOST_INSTALL"
        /\ rows[g.epoch].expires = g.expires
    BY <1>4, <1>8, <2>1 DEF LeaseNamed
  <2> QED
    BY <1>8, <2>1, <2>2, InstallInv
<1>9. CASE Ends(s, n) /\ stopped' = stopped
  BY <1>6, <1>9, WorksEnds
<1>10. CASE /\ active_lease(n) = {} /\ stopped' = stopped
            /\ Ends([s EXCEPT !.active = FALSE, !.lease = None, !.deadline = 0,
                              !.deadlineLease = 0, !.grant = None, !.revoked = TRUE],
                    [a EXCEPT ![lease.epoch].status = "REVOKED"])
  <2>1. PICK m, b :
          /\ m = [s EXCEPT !.active = FALSE, !.lease = None, !.deadline = 0,
                           !.deadlineLease = 0, !.grant = None, !.revoked = TRUE]
          /\ b = [a EXCEPT ![lease.epoch].status = "REVOKED"]
    BY Zenon
  <2>2. Ends(m, b) /\ stopped' = stopped
    BY <1>10, <2>1, Zenon
  <2>3. MemIs(m, s, None, FALSE, TRUE, 0, s.cleanup)
    BY <1>4, <2>1, RefusedFacts, Zenon
  <2>4. lease.epoch \in 1..Len(a)
    BY <1>3, <1>7, <1>10
  <2>5. Retires(b, a)
    BY <1>7, <1>10, <2>1, <2>4, RefuseRetires, Zenon
  <2>6. RowsSound(b) /\ WireSound(wire, b)
    BY <1>7, <1>10, <2>5, RetiresSound
  <2>7. Works(m, b)
    BY <1>4, <2>3, <2>6 DEF Works, MemSound, MemIs, LeaseNamed
  <2> QED
    BY <2>2, <2>7, WorksEnds
<1>11. CASE /\ active_lease(n) = {}
            /\ install_host_lease([s EXCEPT !.lease = lease, !.active = FALSE], a, lease, why)
  <2>1. PICK m : m = [s EXCEPT !.lease = lease, !.active = FALSE]
    BY Zenon
  <2>2. install_host_lease(m, a, lease, why)
    BY <1>11, <2>1, Zenon
  <2>3. /\ lease \in Grants /\ lease # None /\ lease.epoch = Len(a)
        /\ lease.expires = now + Ttl
    BY <1>3, <1>5, <1>7, <1>11 DEF Grants, None
  <2>4. MemIs(m, s, lease, FALSE, s.revoked, s.deadline, s.cleanup)
    BY <1>4, <2>1, <2>3, FreshFacts, Zenon
  <2>5. Works(m, a)
    BY <1>4, <1>7, <1>11, <2>3, <2>4 DEF Works, MemSound, MemIs, LeaseNamed
  <2>6. ~m.active /\ m.lease = lease
    BY <2>4 DEF MemIs
  <2> QED
    BY <1>7, <1>11, <2>2, <2>3, <2>5, <2>6, InstallInv
<1> QED
  BY <1>1, <1>2, <1>3, <1>8, <1>9, <1>10, <1>11, Zenon DEF AcquireAndInstall

LEMMA AllocateFromInv ==
  ASSUME NEW s, NEW rows, Works(s, rows), Still, ~stopped, AllocateFrom(s, rows)
  PROVE  LInv'
<1>1. CASE Ends(s, rows) /\ stopped' = stopped
  BY <1>1, WorksEnds
<1>2. CASE AcquireAndInstall(s, rows, "allocate")
  BY <1>2, AcquireInv DEF Purposes
<1> QED
  BY <1>1, <1>2, Zenon DEF AllocateFrom

-----------------------------------------------------------------------------
(* The handlers.                                                            *)

\* Nothing is active after a new boot, and nothing on the wire is of it yet.
LEMMA NewBootInv ==
  ASSUME LInv, NewBoot, NEW s \in Memory, svc' = s,
         s.boot = authority.generation + 1, s.lease = None, ~s.active
  PROVE  LInv'
<1>1. /\ authority' = [generation |-> authority.generation + 1, state |-> "FENCE_REQUIRED"]
      /\ leases' = Invalidated(leases) /\ call' = Idle /\ stopped' = FALSE
      /\ UNCHANGED <<wire, host, mono, skew, returned>>
  BY DEF NewBoot
<1>2. /\ WorldTyped /\ RowsSound(leases) /\ WireSound(wire, leases)
      /\ authority.generation \in Nat
  BY DEF LInv, WorldTyped
<1>3. PICK n : n = Invalidated(leases)
  OBVIOUS
<1>4. Retires(n, leases) /\ \A e \in 1..Len(leases) : n[e].status # "ACTIVE"
  BY <1>2, <1>3, InvalidateRetires
<1>5. RowsSound(n) /\ WireSound(wire, n) /\ Len(n) = Len(leases) /\ leases' = n
  BY <1>1, <1>2, <1>3, <1>4, RetiresSound DEF Retires
<1>6. authority'.generation = authority.generation + 1
  BY <1>1
<1>7. WorldTyped'
  <2>1. authority' \in [generation : Nat, state : {"FENCE_REQUIRED", "READY"}]
    BY <1>1, <1>2
  <2> QED
    BY <1>1, <1>2, <2>1 DEF WorldTyped
<1>8. RowsSound(leases)'
  BY <1>4, <1>5 DEF RowsSound, RowSound
<1>9. MemSound(svc, leases, stopped, returned)'
  BY <1>1, <1>6 DEF MemSound, LeaseNamed
<1>10. WireSound(wire, leases)'
  <2>1. ASSUME NEW f \in Frames, FrameSound(f, n) PROVE FrameSound(f, leases)'
    <3>1. f.boot \in Nat /\ f.boot <= authority.generation
      BY <2>1 DEF Frames, FrameSound
    <3>2. f.boot <= authority'.generation
      BY <1>2, <1>6, <3>1
    <3> QED
      BY <1>4, <1>5, <2>1, <3>2 DEF FrameSound
  <2> QED
    BY <1>1, <1>5, <2>1 DEF WireSound
<1>11. CallSound(call, svc, leases, stopped)'
  BY <1>1, IdleFacts DEF CallSound
<1> QED
  BY <1>7, <1>8, <1>9, <1>10, <1>11 DEF LInv

LEMMA BootstrapInv ==
  ASSUME LInv, Bootstrap
  PROVE  LInv'
<1>1. PICK b : b = authority.generation + 1
  OBVIOUS
<1>2. svc \in Memory /\ b \in Nat
  BY <1>1 DEF LInv, MemSound, WorldTyped
<1>3. PICK m : m = [svc EXCEPT !.boot = b, !.fence = FALSE, !.lease = None, !.cleanup = 0,
                               !.deadline = 0, !.grant = None, !.active = FALSE,
                               !.revoked = FALSE]
  BY Zenon
<1>4. Booted(m, b)
  BY <1>2, <1>3, BootFacts, Zenon
<1>5. svc' = m /\ NewBoot
  BY <1>1, <1>3, Zenon DEF Bootstrap
<1> QED
  BY <1>1, <1>4, <1>5, NewBootInv DEF Booted

LEMMA RestartInv ==
  ASSUME LInv, Restart
  PROVE  LInv'
<1>1. PICK m : m = Started(authority.generation + 1)
  OBVIOUS
<1>2. m \in Memory /\ m.boot = authority.generation + 1 /\ m.lease = None /\ ~m.active
  BY <1>1, NoneFacts DEF LInv, WorldTyped, Started, Memory
<1> QED
  BY <1>1, <1>2, NewBootInv DEF Restart

LEMMA HostFenceInv ==
  ASSUME LInv, HostFence
  PROVE  LInv'
<1>1. PICK c : c = [Idle EXCEPT !.op = "fence"]
  OBVIOUS
<1>2. c \in Calls /\ c.op = "fence"
  BY <1>1, IdleFacts DEF Calls, CallOps
<1>3. /\ Sends(svc, leases, c)
      /\ UNCHANGED <<authority, host, mono, skew, stopped, returned>>
  BY <1>1 DEF HostFence
<1>4. WorldTyped' /\ MemSound(svc, leases, stopped', returned')
  BY <1>3 DEF LInv, WorldTyped
<1>5. CallSound(c, svc, leases, stopped')
  BY <1>2 DEF CallSound
<1>6. svc.boot \in Nat /\ svc.boot = authority.generation
  BY DEF LInv, MemSound, Memory
<1>7. FrameOf(svc.boot, c) \in Frames /\ FrameSound(FrameOf(svc.boot, c), leases)
  <2>1. PICK f : f = FrameOf(svc.boot, c)
    OBVIOUS
  <2>2. f \in Frames /\ f.op = "fence" /\ f.boot = svc.boot
    BY <1>2, <1>6, <2>1, FrameFacts
  <2>3. FrameSound(f, leases)
    BY <1>6, <2>2 DEF FrameSound
  <2> QED
    BY <2>1, <2>2, <2>3
<1> QED
  BY <1>3, <1>4, <1>5, <1>7, SendsInv DEF LInv

LEMMA AllocateInv ==
  ASSUME LInv, Allocate
  PROVE  LInv'
<1>1. Works(svc, leases) /\ Still
  BY DeadlineWorks DEF Allocate, Still
<1>2. /\ svc \in Memory /\ LeaseNamed(svc, leases) /\ ~svc.shutdown
      /\ stopped => (svc.revoked \/ svc.shutdown) /\ svc.cleanup = 0
  BY DEF LInv, MemSound, Allocate, Free
<1>3. CASE retry_unreturned_allocation /\ revoke_host_lease(svc, leases, "retry")
  <2>1. svc.lease # None /\ svc.cleanup = svc.lease.epoch
    BY <1>3 DEF retry_unreturned_allocation
  <2>2. ~stopped
    BY <1>2, <2>1 DEF LeaseNamed
  <2>3. "retry" \in Purposes \ Stops
    BY DEF Purposes, Stops
  <2> QED
    BY <1>1, <1>3, <2>1, <2>2, <2>3, RevokeInv
<1>4. CASE AllocateFrom(svc, leases)
  <2>1. CASE svc.revoked
    BY <1>1, <1>4, <2>1, WorksEnds DEF AllocateFrom
  <2>2. CASE ~svc.revoked
    BY <1>1, <1>2, <1>4, <2>2, AllocateFromInv
  <2> QED
    BY <2>1, <2>2
<1> QED
  BY <1>3, <1>4 DEF Allocate

LEMMA AcquireRouteInv ==
  ASSUME LInv, Acquire
  PROVE  LInv'
<1>1. Works(svc, leases) /\ Still /\ AcquireAndInstall(svc, leases, "acquire")
  BY DeadlineWorks DEF Acquire, Still
<1>2. ~stopped /\ "acquire" \in Purposes
  BY DEF LInv, MemSound, Acquire, Free, Purposes
<1> QED
  BY <1>1, <1>2, AcquireInv

LEMMA RenewInv ==
  ASSUME LInv, NEW seq \in Nat, Renew(seq)
  PROVE  LInv'
<1>1. PICK s, rows, e, n : /\ s = DeadlineChecked(svc) /\ rows = DeadlineExpired(svc, leases)
                           /\ e = s.lease.epoch
                           /\ n = prepare_host_lease_renew(rows, e, seq)
  BY Zenon
<1>2. Works(s, rows) /\ Still /\ stopped' = stopped
  BY <1>1, DeadlineWorks DEF Renew, Still
<1>3. CASE Ends(s, rows)
  BY <1>2, <1>3, WorksEnds
<1>4. CASE /\ s.lease # None /\ CanRenew(rows, e, seq)
           /\ Sends(s, n,
                   [Idle EXCEPT !.op = "renew", !.purpose = "renew", !.epoch = e, !.seq = seq,
                                !.expires = n[e].pending.expires,
                                !.deadline = lease_deadline(n[e].pending.expires)])
  <2>1. /\ s \in Memory /\ s.boot = authority.generation /\ LeaseNamed(s, rows)
        /\ WorldTyped /\ RowsSound(rows) /\ WireSound(wire, rows)
    BY <1>2 DEF Works, MemSound
  <2>2. e \in 1..Len(rows) /\ Len(rows) \in Nat /\ now \in Nat
    BY <1>1, <1>4, <2>1, RowsFacts DEF LeaseNamed, WorldTyped, now
  <2>3. /\ RowsSound(n) /\ Len(n) = Len(rows) /\ WireSound(wire, n) /\ LeaseNamed(s, n)
        /\ \E c \in Nat : Renewing(n[e], seq, c)
    BY <1>1, <1>4, <2>1, <2>2, PrepareRenewSound
  <2>4. PICK x \in Nat : Renewing(n[e], seq, x)
    BY <2>3
  <2>5. n[e].pending.expires = x /\ n[e].pending = [seq |-> seq, expires |-> x]
    BY <2>4 DEF Renewing
  <2>6. PICK c, d : /\ d = lease_deadline(x)
                    /\ c = [Idle EXCEPT !.op = "renew", !.purpose = "renew", !.epoch = e,
                                        !.seq = seq, !.expires = x, !.deadline = d]
    BY Zenon
  <2>7. Sends(s, n, c)
    BY <1>4, <2>5, <2>6, Zenon
  <2>8. d \in Int /\ e \in Nat
    BY <2>1, <2>2, <2>6, ConstantFacts DEF lease_deadline, now, WorldTyped
  <2>9. Asks(c, "renew", "renew", e, x, seq)
    BY <2>6, <2>8, RenewAsksFacts, Zenon
  <2>10. s = svc
    <3>1. svc \in Memory
      BY DEF LInv, MemSound
    <3>2. CASE DeadlinePassed(svc)
      <4>1. MemIs(s, svc, None, FALSE, svc.revoked, 0, svc.cleanup)
        BY <1>1, <3>1, <3>2, LapsedFacts, Zenon DEF DeadlineChecked
      <4> QED
        BY <1>4, <4>1 DEF MemIs
    <3> QED
      BY <1>1, <3>2 DEF DeadlineChecked
  <2>11. s.active /\ ~stopped
    BY <2>10 DEF Renew, Free, LInv, MemSound
  <2>12. MemSound(s, n, stopped', returned')
    BY <1>2, <2>1, <2>3, <2>11 DEF Works, MemSound, Still
  <2>13. CallSound(c, s, n, stopped')
    BY <1>1, <1>2, <2>2, <2>3, <2>4, <2>9, <2>11 DEF CallSound, RenewSound, Renewing, Asks
  <2>14. s.boot \in Nat /\ s.boot = authority.generation
    BY <2>1 DEF Memory
  <2>15. FrameOf(s.boot, c) \in Frames /\ FrameSound(FrameOf(s.boot, c), n)
    <3>1. PICK f : f = FrameOf(s.boot, c)
      OBVIOUS
    <3>2. /\ f \in Frames /\ f.op = "renew" /\ f.boot = authority.generation
          /\ f.epoch = e /\ f.seq = seq /\ f.expires = x
      BY <2>9, <2>14, <3>1, FrameFacts DEF Asks
    <3>3. RowSound(n, e) /\ n[e] \in LeaseRows
      BY <2>2, <2>3, RowsFacts
    <3>4. n[e].pending.seq = seq /\ seq > n[e].seq /\ n[e].host = "PENDING_HOST_RENEW"
      BY <2>4, <2>5, <3>3 DEF RowSound, Renewing
    <3>5. n[e].seq \in Nat
      BY <3>3 DEF LeaseRows
    <3>6. FrameSound(f, n)
      BY <2>2, <2>3, <2>5, <2>14, <3>2, <3>4, <3>5 DEF FrameSound
    <3> QED
      BY <3>1, <3>2, <3>6
  <2>16. WorldTyped' /\ authority' = authority /\ host' = host
    BY <1>2, <2>1 DEF WorldTyped, Still
  <2> QED
    BY <2>3, <2>7, <2>12, <2>13, <2>15, <2>16, SendsInv
<1> QED
  BY <1>1, <1>3, <1>4, Zenon DEF Renew

\* An intentional stop takes over a retained cleanup.
LEMMA IntentionalWorks ==
  ASSUME NEW s, NEW rows, Works(s, rows)
  PROVE  /\ Works(Intentional(s), rows)
         /\ Intentional(s).cleanup = 0 /\ Intentional(s).lease = s.lease
<1>1. PICK m : m = Intentional(s)
  OBVIOUS
<1>2. MemIs(m, s, s.lease, s.active, s.revoked, s.deadline, 0)
  BY <1>1, IntentionalFacts DEF Works, MemSound
<1>3. Works(m, rows)
  BY <1>2 DEF Works, MemSound, MemIs, LeaseNamed
<1> QED
  BY <1>1, <1>2, <1>3 DEF MemIs

LEMMA RevokeRouteInv ==
  ASSUME LInv, Revoke
  PROVE  LInv'
<1>1. PICK s, rows, m : /\ s = DeadlineChecked(svc) /\ rows = DeadlineExpired(svc, leases)
                        /\ m = Intentional(s)
  BY Zenon
<1>2. Works(s, rows) /\ Still
  BY <1>1, DeadlineWorks DEF Revoke, Still
<1>3. Works(m, rows) /\ m.cleanup = 0 /\ m.lease = s.lease
  BY <1>1, <1>2, IntentionalWorks
<1>4. "revoke" \in Purposes \ {"profiled", "retry"}
  BY DEF Purposes, Stops
<1>5. CASE s.lease # None /\ revoke_host_lease(m, rows, "revoke")
  BY <1>2, <1>3, <1>4, <1>5, RevokeInv
<1>6. CASE Ends(s, rows) /\ stopped' = stopped
  BY <1>2, <1>6, WorksEnds
<1> QED
  BY <1>1, <1>5, <1>6, Zenon DEF Revoke

LEMMA MayStopFacts ==
  ASSUME NEW s, NEW rows, MayStop(s, rows)
  PROVE  s.lease # None
  BY DEF MayStop, pending_host_revoke_matches, Admitted

LEMMA ReleaseInv ==
  ASSUME LInv, NEW profiled \in BOOLEAN, Release(profiled)
  PROVE  LInv'
<1>1. PICK s, rows, m, why :
        /\ s = DeadlineChecked(svc) /\ rows = DeadlineExpired(svc, leases)
        /\ m = Intentional(s)
        /\ why = IF profiled /\ ~stop_is_already_in_force(s) THEN "profiled" ELSE "release"
  BY Zenon
<1>2. Works(s, rows) /\ Still
  BY <1>1, DeadlineWorks DEF Release, Still
<1>3. Works(m, rows) /\ m.cleanup = 0 /\ m.lease = s.lease
  BY <1>1, <1>2, IntentionalWorks
<1>4. /\ why \in Purposes \ {"retry"}
      /\ why = "profiled" => ~s.revoked /\ ~s.shutdown
  BY <1>1 DEF Purposes, Stops, stop_is_already_in_force
<1>5. why \in {"profiled", "retry"} => ~stopped
  BY <1>2, <1>4 DEF Works, MemSound
<1>6. CASE MayStop(s, rows) /\ revoke_host_lease(m, rows, why)
  BY <1>2, <1>3, <1>4, <1>5, <1>6, MayStopFacts, RevokeInv
<1>7. CASE Ends(s, rows) /\ stopped' = stopped
  BY <1>2, <1>7, WorksEnds
<1> QED
  BY <1>1, <1>6, <1>7, Zenon DEF Release

LEMMA ShutdownInv ==
  ASSUME LInv, Shutdown
  PROVE  LInv'
<1>1. PICK s, rows, m : /\ s = DeadlineChecked(svc) /\ rows = DeadlineExpired(svc, leases)
                        /\ m = Intentional(s)
  BY Zenon
<1>2. PICK k : k = [m EXCEPT !.shutdown = TRUE]
  OBVIOUS
<1>3. Works(s, rows) /\ Still
  BY <1>1, DeadlineWorks DEF Shutdown, Still
<1>4. Works(m, rows) /\ m.cleanup = 0 /\ m.lease = s.lease
  BY <1>1, <1>3, IntentionalWorks
<1>5. /\ k \in Memory /\ k.boot = m.boot /\ k.lease = m.lease /\ k.cleanup = 0
      /\ k.active = m.active /\ k.revoked = m.revoked /\ k.deadline = m.deadline
      /\ k.shutdown
  BY <1>2, <1>4 DEF Works, MemSound, Memory
<1>6. Works(k, rows)
  BY <1>4, <1>5 DEF Works, MemSound, LeaseNamed
<1>7. "shutdown" \in Purposes \ {"profiled", "retry"}
  BY DEF Purposes, Stops
<1>8. CASE MayStop(s, rows) /\ revoke_host_lease(k, rows, "shutdown")
  BY <1>3, <1>4, <1>5, <1>6, <1>7, <1>8, MayStopFacts, RevokeInv
<1>9. CASE Ends(s, rows) /\ stopped' = stopped
  BY <1>3, <1>9, WorksEnds
<1> QED
  BY <1>1, <1>2, <1>8, <1>9, Zenon DEF Shutdown

LEMMA CheckInv ==
  ASSUME LInv, Ends(DeadlineChecked(svc), DeadlineExpired(svc, leases)),
         UNCHANGED <<authority, host, mono, skew, stopped, returned>>
  PROVE  LInv'
<1>1. PICK s, rows : s = DeadlineChecked(svc) /\ rows = DeadlineExpired(svc, leases)
  OBVIOUS
<1>2. Works(s, rows) /\ Still /\ stopped' = stopped /\ Ends(s, rows)
  BY <1>1, DeadlineWorks DEF Still
<1> QED
  BY <1>2, WorksEnds

LEMMA CallFailsInv ==
  ASSUME LInv, NEW gone \in BOOLEAN, CallFails(gone)
  PROVE  LInv'
<1>1. Works(svc, leases) /\ Still
  BY DeadlineWorks DEF CallFails, Still
<1>2. CASE call.op = "install" /\ cleanup_unreturned_allocation(svc, leases)
  <2>1. ~stopped
    BY <1>2 DEF LInv, CallSound
  <2> QED
    BY <1>1, <1>2, <2>1, CleanupInv DEF Works, MemSound
<1>3. CASE Ends(svc, leases) /\ stopped' = stopped
  BY <1>1, <1>3, WorksEnds
<1> QED
  BY <1>2, <1>3 DEF CallFails

LEMMA HostFenceEndsInv ==
  ASSUME LInv, HostFenceEnds
  PROVE  LInv'
<1>1. CASE authority' = authority /\ Ends(svc, leases)
  <2>1. Still /\ stopped' = stopped /\ Works(svc, leases)
    BY <1>1, DeadlineWorks DEF HostFenceEnds, Still
  <2> QED
    BY <1>1, <2>1, WorksEnds
<1>2. CASE authority' = [authority EXCEPT !.state = "READY"]
           /\ Ends([svc EXCEPT !.fence = TRUE], leases)
  <2>1. PICK m : m = [svc EXCEPT !.fence = TRUE]
    OBVIOUS
  <2>2. /\ svc' = m /\ leases' = leases /\ call' = Idle /\ wire' = wire
        /\ UNCHANGED <<host, mono, skew, stopped, returned>>
    BY <1>2, <2>1 DEF Ends, HostFenceEnds
  <2>3. /\ authority' \in [generation : Nat, state : {"FENCE_REQUIRED", "READY"}]
        /\ authority'.generation = authority.generation
    BY <1>2 DEF LInv, WorldTyped
  <2>4. /\ m \in Memory /\ m.boot = svc.boot /\ m.lease = svc.lease
        /\ m.cleanup = svc.cleanup /\ m.active = svc.active /\ m.revoked = svc.revoked
        /\ m.deadline = svc.deadline /\ m.shutdown = svc.shutdown
    BY <2>1 DEF LInv, MemSound, Memory
  <2>5. WorldTyped'
    BY <2>2, <2>3 DEF LInv, WorldTyped
  <2>6. RowsSound(leases)'
    BY <2>2, <2>3 DEF LInv, RowsSound, RowSound, Holds
  <2>7. MemSound(svc, leases, stopped, returned)'
    BY <2>2, <2>3, <2>4 DEF LInv, MemSound, LeaseNamed
  <2>8. WireSound(wire, leases)'
    BY <2>2, <2>3 DEF LInv, WireSound, FrameSound
  <2>9. CallSound(call, svc, leases, stopped)'
    BY <2>2, IdleFacts DEF CallSound
  <2> QED
    BY <2>5, <2>6, <2>7, <2>8, <2>9 DEF LInv
<1> QED
  BY <1>1, <1>2 DEF HostFenceEnds

LEMMA InstallEndsInv ==
  ASSUME LInv, InstallEnds
  PROVE  LInv'
<1>1. /\ call.op = "install" /\ Answered /\ Still /\ call \in Calls
      /\ call.epoch \in 1..Len(leases) /\ InstallSound(call, leases[call.epoch])
      /\ ~stopped
  BY DEF LInv, CallSound, InstallEnds, Still
<1>2. CASE cleanup_unreturned_allocation(svc, leases)
  BY <1>1, <1>2, CleanupInv DEF LInv, MemSound
<1>3. CASE /\ leases' = complete_host_lease_install(leases, call.epoch, call.reply.gen)
           /\ call' = [call EXCEPT !.op = "activate"]
           /\ UNCHANGED <<svc, wire, stopped>>
  <2>1. PICK n, e, c : /\ n = complete_host_lease_install(leases, call.epoch, call.reply.gen)
                       /\ e = call.epoch /\ c = [call EXCEPT !.op = "activate"]
    OBVIOUS
  <2>2. /\ leases[e].status = "ACTIVE" /\ leases[e].host = "PENDING_HOST_INSTALL"
        /\ leases[e].digest = leases[e].expires /\ Holds(leases[e], e)
        /\ call.reply.gen \in Nat /\ e \in 1..Len(leases)
    BY <1>1, <2>1 DEF InstallSound, Answered, Calls
  <2>3. n = complete_host_lease_install(leases, e, call.reply.gen)
    BY <2>1
  <2>4. /\ RowsSound(n) /\ Len(n) = Len(leases)
        /\ n[e].status = "ACTIVE" /\ n[e].host = "INSTALLED"
        /\ WireSound(wire, n) /\ LeaseNamed(svc, n)
    BY <2>2, <2>3, CompleteInstallSound DEF LInv, MemSound
  <2>5. c \in Calls /\ c.op = "activate" /\ c.epoch = e
    BY <1>1, <2>1 DEF Calls, CallOps
  <2>6. /\ leases' = n /\ call' = c /\ svc' = svc /\ wire' = wire /\ stopped' = stopped
        /\ authority' = authority /\ host' = host /\ mono' = mono /\ skew' = skew
        /\ returned' = returned
    BY <1>1, <1>3, <2>1 DEF Still
  <2>7. WorldTyped'
    BY <2>6 DEF LInv, WorldTyped
  <2>8. RowsSound(leases)'
    BY <2>4, <2>6 DEF RowsSound, RowSound, Holds
  <2>9. MemSound(svc, leases, stopped, returned)'
    BY <2>4, <2>6 DEF LInv, MemSound, LeaseNamed
  <2>10. WireSound(wire, leases)'
    BY <2>4, <2>6 DEF WireSound, FrameSound
  <2>11. CallSound(call, svc, leases, stopped)'
    BY <1>1, <2>2, <2>4, <2>5, <2>6 DEF CallSound
  <2> QED
    BY <2>7, <2>8, <2>9, <2>10, <2>11 DEF LInv
<1> QED
  BY <1>2, <1>3, Zenon DEF InstallEnds

\* Either the lease is in force until its deadline, or it is not active.
LEMMA ActivateFacts ==
  ASSUME NEW s \in Memory, NEW g \in Grants, mono \in Nat, NEW m,
         m = activate_recovery_lease(s, g)
  PROVE  \/ MemIs(m, s, s.lease, FALSE, s.revoked, 0, s.cleanup)
         \/ MemIs(m, s, g, TRUE, FALSE, s.deadline, s.cleanup) /\ s.deadline # 0
<1>1. CASE now >= g.expires \/ mono >= s.deadline
  <2>1. m = [s EXCEPT !.deadline = 0, !.active = FALSE]
    BY <1>1, Zenon DEF activate_recovery_lease
  <2> QED
    BY <2>1, LateFacts, Zenon
<1>2. CASE ~(now >= g.expires \/ mono >= s.deadline)
  <2>1. m = [s EXCEPT !.lease = g, !.active = TRUE, !.revoked = FALSE]
    BY <1>2, Zenon DEF activate_recovery_lease
  <2>2. MemIs(m, s, g, TRUE, FALSE, s.deadline, s.cleanup)
    BY <2>1, ActiveFacts, Zenon
  <2>3. s.deadline # 0
    BY <1>2
  <2> QED
    BY <2>2, <2>3
<1> QED
  BY <1>1, <1>2

LEMMA ActivateInv ==
  ASSUME LInv, NEW unreadable \in BOOLEAN, ActivateAndRespond(unreadable)
  PROVE  LInv'
<1>1. PICK g : g = [epoch |-> call.epoch, expires |-> call.expires]
  OBVIOUS
<1>2. PICK m : m = activate_recovery_lease(svc, g)
  OBVIOUS
<1>3. /\ call.op = "activate" /\ call.epoch \in 1..Len(leases) /\ call \in Calls /\ ~stopped
      /\ leases[call.epoch].host = "INSTALLED"
      /\ UNCHANGED <<authority, host, mono, skew>>
  BY DEF LInv, CallSound, ActivateAndRespond
<1>4. /\ svc \in Memory /\ svc.boot = authority.generation /\ LeaseNamed(svc, leases)
      /\ WorldTyped /\ RowsSound(leases) /\ WireSound(wire, leases) /\ mono \in Nat
  BY DEF LInv, MemSound, WorldTyped
<1>5. g \in Grants /\ g # None /\ g.epoch = call.epoch /\ call.epoch \in Nat
  BY <1>1, <1>3 DEF Grants, None, Calls
<1>6. \/ MemIs(m, svc, svc.lease, FALSE, svc.revoked, 0, svc.cleanup)
      \/ MemIs(m, svc, g, TRUE, FALSE, svc.deadline, svc.cleanup) /\ svc.deadline # 0
  BY <1>2, <1>4, <1>5, ActivateFacts
<1>7. LeaseNamed(m, leases) /\ m \in Memory /\ m.boot = authority.generation
  BY <1>3, <1>4, <1>5, <1>6 DEF MemIs, LeaseNamed
<1>8. CASE cleanup_unreturned_allocation(m, leases) /\ returned' = returned
  <2>1. Still
    BY <1>3, <1>8 DEF Still
  <2> QED
    BY <1>3, <1>4, <1>7, <1>8, <2>1, CleanupInv
<1>9. CASE /\ m.active /\ Ends(m, leases) /\ returned' = call.epoch /\ stopped' = stopped
  <2>1. MemIs(m, svc, g, TRUE, FALSE, svc.deadline, svc.cleanup) /\ svc.deadline # 0
    BY <1>6, <1>9 DEF MemIs
  <2>2. MemSound(m, leases, stopped', returned')
    BY <1>3, <1>5, <1>7, <1>9, <2>1 DEF MemSound, MemIs
  <2>3. WorldTyped' /\ authority' = authority /\ host' = host
    BY <1>3, <1>4, <1>5, <1>9 DEF WorldTyped
  <2> QED
    BY <1>4, <1>9, <2>2, <2>3, EndsInv
<1> QED
  BY <1>1, <1>2, <1>8, <1>9, Zenon DEF ActivateAndRespond

LEMMA RenewEndsInv ==
  ASSUME LInv, RenewEnds
  PROVE  LInv'
<1>1. PICK g : g = [epoch |-> call.epoch, expires |-> call.expires]
  OBVIOUS
<1>2. PICK r : r = [svc EXCEPT !.grant = g, !.deadline = call.deadline,
                               !.deadlineLease = call.epoch]
  BY Zenon
<1>3. PICK m, n : /\ m = activate_recovery_lease(r, g)
                  /\ n = complete_host_lease_renew(leases, call.epoch, call.seq, call.expires)
  OBVIOUS
<1>4. /\ Ends(m, n) /\ call.op = "renew" /\ RenewAcked(leases[call.epoch])
      /\ UNCHANGED <<authority, host, mono, skew, stopped, returned>>
  BY <1>1, <1>2, <1>3, Zenon DEF RenewEnds
<1>5. /\ call.epoch \in 1..Len(leases) /\ call \in Calls /\ ~stopped
      /\ RenewSound(call, leases[call.epoch], svc) /\ call.reply # NoReply
  BY <1>4 DEF LInv, CallSound, RenewAcked, Answered
<1>6. /\ svc \in Memory /\ svc.boot = authority.generation /\ LeaseNamed(svc, leases)
      /\ WorldTyped /\ RowsSound(leases) /\ WireSound(wire, leases) /\ mono \in Nat
      /\ svc.lease # None /\ returned = svc.lease.epoch /\ svc.lease.epoch = call.epoch
  BY <1>5 DEF LInv, MemSound, WorldTyped, RenewSound
<1>7. /\ g \in Grants /\ g # None /\ g.epoch = call.epoch /\ call.epoch \in Nat
      /\ call.seq \in Nat /\ call.expires \in Nat /\ call.deadline \in Int
  BY <1>1, <1>5 DEF Grants, None, Calls
<1>8. MemIs(r, svc, svc.lease, svc.active, svc.revoked, call.deadline, svc.cleanup)
  BY <1>2, <1>6, <1>7, RenewedFacts, Zenon
<1>9. \/ MemIs(m, r, r.lease, FALSE, r.revoked, 0, r.cleanup)
      \/ MemIs(m, r, g, TRUE, FALSE, r.deadline, r.cleanup) /\ r.deadline # 0
  <2>1. r \in Memory
    BY <1>8 DEF MemIs
  <2> QED
    BY <1>3, <1>6, <1>7, <2>1, ActivateFacts
<1>10. Renewing(leases[call.epoch], call.seq, call.expires)
       /\ host.seq = call.seq /\ host.expires = call.expires
  BY <1>5 DEF RenewSound, Renewing
<1>11. /\ RowsSound(n) /\ Len(n) = Len(leases) /\ WireSound(wire, n) /\ LeaseNamed(svc, n)
  BY <1>3, <1>5, <1>6, <1>7, <1>10, CompleteRenewSound
<1>12. n[call.epoch].host # "PENDING_HOST_INSTALL"
  <2>1. PICK e : e = call.epoch
    OBVIOUS
  <2>2. leases \in Seq(LeaseRows) /\ leases[e] \in LeaseRows
    BY <1>5, <1>6, <2>1, RowsFacts
  <2> QED
    BY <1>3, <1>5, <2>1, <2>2 DEF complete_host_lease_renew
<1>13. MemSound(m, n, stopped', returned')
  BY <1>4, <1>5, <1>6, <1>7, <1>8, <1>9, <1>11, <1>12 DEF MemSound, MemIs, LeaseNamed
<1>14. WorldTyped' /\ authority' = authority /\ host' = host
  BY <1>4, <1>6 DEF WorldTyped
<1> QED
  BY <1>4, <1>11, <1>13, <1>14, EndsInv

LEMMA RevokeEndsInv ==
  ASSUME LInv, RevokeEnds
  PROVE  LInv'
<1>1. PICK e, why, n : /\ e = call.epoch /\ why = call.purpose
                       /\ n = complete_host_lease_revoke(leases, e, call.reply.gen)
  OBVIOUS
<1>2. PICK r : r = ~(svc.cleanup = e /\ ~svc.shutdown)
  OBVIOUS
<1>3. PICK d, m : d = RevokeDone(svc, e) /\ m = EpisodeDone(d, e, why)
  OBVIOUS
<1>4. /\ call.op = "revoke" /\ Still /\ e \in 1..Len(leases) /\ call \in Calls
      /\ leases[e].status # "ACTIVE"
      /\ stopped => why \notin {"profiled", "retry"}
  BY <1>1 DEF LInv, CallSound, RevokeEnds, Still
<1>5. /\ svc \in Memory /\ svc.boot = authority.generation
      /\ WorldTyped /\ RowsSound(leases) /\ WireSound(wire, leases)
      /\ stopped => svc.cleanup = 0
  BY DEF LInv, MemSound
<1>6. call.reply.gen \in Nat /\ e \in Nat /\ e # 0
  BY <1>1, <1>4 DEF Calls
<1>7. r \in BOOLEAN /\ (stopped => r)
  BY <1>2, <1>5, <1>6
<1>8. MemIs(d, svc, None, FALSE, r, 0, 0)
  <2>1. d = [svc EXCEPT !.cleanup = 0, !.lease = None, !.deadline = 0, !.deadlineLease = 0,
                        !.grant = None, !.active = FALSE, !.revoked = r]
    BY <1>2, <1>3, Zenon DEF RevokeDone
  <2> QED
    BY <1>5, <1>7, <2>1, RetiredFacts, Zenon
<1>9. /\ m \in Memory /\ m.boot = svc.boot /\ m.lease = None /\ ~m.active /\ m.cleanup = 0
      /\ stopped => m.revoked
  <2>1. CASE why = "profiled"
    <3>1. PICK p : p = [boot |-> d.boot, released |-> e]
      OBVIOUS
    <3>2. d \in Memory /\ p \in [boot : Nat, released : Nat]
      BY <1>6, <1>8, <3>1 DEF MemIs, Memory
    <3>3. m = [d EXCEPT !.profile = p, !.revoked = FALSE]
      BY <1>3, <2>1, <3>1, Zenon DEF EpisodeDone
    <3>4. MemIs(m, d, d.lease, d.active, FALSE, d.deadline, d.cleanup)
      BY <3>2, <3>3, EpisodeFacts, Zenon
    <3> QED
      BY <1>4, <1>8, <2>1, <3>4 DEF MemIs
  <2>2. CASE why # "profiled"
    <3>1. m = d
      BY <1>3, <2>2, Zenon DEF EpisodeDone
    <3> QED
      BY <1>7, <1>8, <3>1 DEF MemIs
  <2> QED
    BY <2>1, <2>2
<1>10. RowsSound(n) /\ WireSound(wire, n)
  <2>1. Retires(n, leases)
    BY <1>1, <1>4, <1>5, <1>6, CompleteRevokeRetires
  <2> QED
    BY <1>5, <2>1, RetiresSound
<1>11. Works(m, n)
  BY <1>5, <1>9, <1>10 DEF Works, MemSound, LeaseNamed
<1>12. CASE why = "retry" /\ AllocateFrom(m, n)
  BY <1>4, <1>11, <1>12, AllocateFromInv
<1>13. CASE Ends(m, n) /\ stopped' = stopped
  BY <1>4, <1>11, <1>13, WorksEnds
<1> QED
  BY <1>1, <1>3, <1>12, <1>13, Zenon DEF RevokeEnds

-----------------------------------------------------------------------------
(* The host.                                                                *)

HostIs(h, boot, epoch, expires, seq, held) ==
  /\ h \in Hosts /\ h.boot = boot /\ h.epoch = epoch /\ h.expires = expires
  /\ h.seq = seq /\ h.held = held

LEMMA FencedFacts ==
  ASSUME host \in Hosts, NEW b \in Nat, NEW k \in BOOLEAN, NEW h
  PROVE  h = [host EXCEPT !.boot = b, !.held = k]
         => HostIs(h, b, host.epoch, host.expires, host.seq, k)
<1>1. PICK h1 \in Hosts : h1 = [host EXCEPT !.boot = b]
  BY DEF Hosts
<1>2. PICK h2 \in Hosts : h2 = [h1 EXCEPT !.held = k]
  BY DEF Hosts
<1>3. h = [host EXCEPT !.boot = b, !.held = k] => h = h2
  BY <1>1, <1>2, Zenon
<1>4. HostIs(h2, b, host.epoch, host.expires, host.seq, k)
  BY <1>1, <1>2 DEF HostIs, Hosts
<1> QED
  BY <1>3, <1>4, Zenon

LEMMA InstalledFacts ==
  ASSUME host \in Hosts, NEW e \in Nat, NEW x \in Nat, NEW q \in Nat, NEW h
  PROVE  h = [host EXCEPT !.epoch = e, !.expires = x, !.seq = q, !.held = TRUE]
         => HostIs(h, host.boot, e, x, q, TRUE)
<1>1. PICK h1 \in Hosts : h1 = [host EXCEPT !.epoch = e]
  BY DEF Hosts
<1>2. PICK h2 \in Hosts : h2 = [h1 EXCEPT !.expires = x]
  BY DEF Hosts
<1>3. PICK h3 \in Hosts : h3 = [h2 EXCEPT !.seq = q]
  BY DEF Hosts
<1>4. PICK h4 \in Hosts : h4 = [h3 EXCEPT !.held = TRUE]
  BY DEF Hosts
<1>5. h = [host EXCEPT !.epoch = e, !.expires = x, !.seq = q, !.held = TRUE] => h = h4
  BY <1>1, <1>2, <1>3, <1>4, Zenon
<1>6. HostIs(h4, host.boot, e, x, q, TRUE)
  BY <1>1, <1>2, <1>3, <1>4 DEF HostIs, Hosts
<1> QED
  BY <1>5, <1>6, Zenon

LEMMA HostRenewedFacts ==
  ASSUME host \in Hosts, NEW x \in Nat, NEW q \in Nat, NEW h
  PROVE  h = [host EXCEPT !.expires = x, !.seq = q]
         => HostIs(h, host.boot, host.epoch, x, q, host.held)
<1>1. PICK h1 \in Hosts : h1 = [host EXCEPT !.expires = x]
  BY DEF Hosts
<1>2. PICK h2 \in Hosts : h2 = [h1 EXCEPT !.seq = q]
  BY DEF Hosts
<1>3. h = [host EXCEPT !.expires = x, !.seq = q] => h = h2
  BY <1>1, <1>2, Zenon
<1>4. HostIs(h2, host.boot, host.epoch, x, q, host.held)
  BY <1>1, <1>2 DEF HostIs, Hosts
<1> QED
  BY <1>3, <1>4, Zenon

\* What each frame makes of the host.
LEMMA HostAfterFacts ==
  ASSUME host \in Hosts, NEW f \in Frames, HostAccepts(f), NEW h, h = HostAfter(f)
  PROVE  \/ /\ f.op = "fence" /\ f.boot >= host.boot
            /\ HostIs(h, f.boot, host.epoch, host.expires, host.seq,
                      host.held /\ f.boot = host.boot)
         \/ /\ f.op = "install" /\ f.boot = host.boot
            /\ f.epoch > host.epoch \/ (host.held /\ f.epoch = host.epoch
                                        /\ f.expires = host.expires)
            /\ HostIs(h, host.boot, f.epoch, f.expires,
                      IF f.epoch = host.epoch THEN host.seq ELSE 0, TRUE)
         \/ /\ f.op = "renew" /\ f.boot = host.boot
            /\ host.held /\ f.epoch = host.epoch /\ f.seq >= host.seq
            /\ HostIs(h, host.boot, host.epoch, f.expires, f.seq, host.held)
         \/ /\ f.op = "revoke" /\ f.boot = host.boot /\ f.epoch = host.epoch
            /\ HostIs(h, host.boot, host.epoch, host.expires, host.seq, FALSE)
<1>1. /\ f.boot \in Nat /\ f.epoch \in Nat /\ f.expires \in Nat /\ f.seq \in Nat
      /\ host.seq \in Nat /\ host.held \in BOOLEAN
  BY DEF Frames, Hosts
<1>2. CASE f.op = "fence"
  <2>1. PICK k : k = (host.held /\ f.boot = host.boot)
    OBVIOUS
  <2>2. k \in BOOLEAN
    BY <2>1
  <2>3. h = [host EXCEPT !.boot = f.boot, !.held = k]
    <3>1. h = [host EXCEPT !.boot = f.boot, !.held = @ /\ f.boot = host.boot]
      BY <1>2, Zenon DEF HostAfter
    <3> QED
      BY <2>1, <3>1, Zenon
  <2>4. HostIs(h, f.boot, host.epoch, host.expires, host.seq, k)
    BY <1>1, <2>2, <2>3, FencedFacts, Zenon
  <2>5. f.boot >= host.boot
    BY <1>2 DEF HostAccepts
  <2> QED
    BY <1>2, <2>1, <2>4, <2>5, Zenon
<1>3. CASE f.op = "install"
  <2>1. PICK q : q = IF f.epoch = host.epoch THEN host.seq ELSE 0
    OBVIOUS
  <2>2. q \in Nat
    BY <1>1, <2>1
  <2>3. h = [host EXCEPT !.epoch = f.epoch, !.expires = f.expires, !.seq = q, !.held = TRUE]
    <3>1. h = [host EXCEPT !.epoch = f.epoch, !.expires = f.expires,
                           !.seq = IF f.epoch = host.epoch THEN @ ELSE 0, !.held = TRUE]
      BY <1>3, Zenon DEF HostAfter
    <3> QED
      BY <2>1, <3>1, Zenon
  <2>4. HostIs(h, host.boot, f.epoch, f.expires, q, TRUE)
    BY <1>1, <2>2, <2>3, InstalledFacts, Zenon
  <2>5. /\ f.boot = host.boot
        /\ f.epoch > host.epoch \/ (host.held /\ f.epoch = host.epoch
                                    /\ f.expires = host.expires)
    BY <1>3 DEF HostAccepts
  <2> QED
    BY <1>3, <2>1, <2>4, <2>5, Zenon
<1>4. CASE f.op = "renew"
  <2>1. h = [host EXCEPT !.expires = f.expires, !.seq = f.seq]
    BY <1>4, Zenon DEF HostAfter
  <2>2. HostIs(h, host.boot, host.epoch, f.expires, f.seq, host.held)
    BY <1>1, <2>1, HostRenewedFacts, Zenon
  <2>3. f.boot = host.boot /\ host.held /\ f.epoch = host.epoch /\ f.seq >= host.seq
    BY <1>4 DEF HostAccepts
  <2> QED
    BY <1>4, <2>2, <2>3, Zenon
<1>5. CASE f.op = "revoke"
  <2>1. h = [host EXCEPT !.held = FALSE]
    BY <1>5 DEF HostAfter
  <2>2. HostIs(h, host.boot, host.epoch, host.expires, host.seq, FALSE)
    BY <2>1 DEF HostIs, Hosts
  <2>3. f.boot = host.boot /\ f.epoch = host.epoch
    BY <1>5 DEF HostAccepts
  <2> QED
    BY <1>5, <2>2, <2>3, Zenon
<1> QED
  BY <1>2, <1>3, <1>4, <1>5 DEF HostAccepts

\* No frame, however late, takes from the host a lease that a row relies on,
\* nor a renewal that the host has granted.
LEMMA HostKeeps ==
  ASSUME LInv, NEW f \in wire, HostAccepts(f), NEW h, h = HostAfter(f),
         NEW e \in 1..Len(leases), leases[e].status = "ACTIVE", Holds(leases[e], e)
  PROVE  /\ h.boot = authority.generation /\ h.held /\ h.epoch = e
         /\ h.expires >= leases[e].expires /\ h.seq >= leases[e].seq
         /\ /\ leases[e].host = "PENDING_HOST_RENEW"
            /\ host.seq = leases[e].pending.seq /\ host.expires = leases[e].pending.expires
            => h.seq = host.seq /\ h.expires = host.expires
<1>1. /\ f \in Frames /\ FrameSound(f, leases) /\ host \in Hosts
      /\ leases[e] \in LeaseRows /\ RowSound(leases, e) /\ Len(leases) \in Nat
  BY RowsFacts DEF LInv, WireSound, WorldTyped
<1>2. /\ f.boot \in Nat /\ f.epoch \in Nat /\ f.expires \in Nat /\ f.seq \in Nat
      /\ host.seq \in Nat /\ host.boot \in Nat /\ host.epoch \in Nat /\ host.expires \in Nat
  BY <1>1 DEF Frames, Hosts
<1>3. /\ leases[e].expires \in Nat /\ leases[e].seq \in Nat
      /\ leases[e].pending.seq \in Nat /\ leases[e].pending.expires \in Nat
  BY <1>1 DEF LeaseRows
<1>4. /\ host.boot = authority.generation /\ host.held /\ host.epoch = e
      /\ host.expires >= leases[e].expires /\ host.seq >= leases[e].seq
  BY DEF Holds
<1>5. /\ e = Len(leases)
      /\ leases[e].host = "PENDING_HOST_RENEW" =>
           /\ leases[e].pending.seq > leases[e].seq
           /\ leases[e].pending.expires > leases[e].expires
  BY <1>1 DEF RowSound
<1>6. CASE /\ f.op = "fence" /\ f.boot >= host.boot
           /\ HostIs(h, f.boot, host.epoch, host.expires, host.seq,
                     host.held /\ f.boot = host.boot)
  <2>1. f.boot = host.boot
    BY <1>1, <1>2, <1>4, <1>6 DEF FrameSound
  <2> QED
    BY <1>4, <1>6, <2>1 DEF HostIs
<1>7. CASE /\ f.op = "install" /\ f.boot = host.boot
           /\ f.epoch > host.epoch \/ (host.held /\ f.epoch = host.epoch
                                       /\ f.expires = host.expires)
           /\ HostIs(h, host.boot, f.epoch, f.expires,
                     IF f.epoch = host.epoch THEN host.seq ELSE 0, TRUE)
  <2>1. f.epoch \in 1..Len(leases)
    BY <1>1, <1>7 DEF FrameSound
  <2>2. f.epoch = host.epoch /\ f.expires = host.expires
    BY <1>1, <1>2, <1>4, <1>5, <1>7, <2>1
  <2> QED
    BY <1>4, <1>7, <2>2 DEF HostIs
<1>8. CASE /\ f.op = "renew" /\ f.boot = host.boot
           /\ host.held /\ f.epoch = host.epoch /\ f.seq >= host.seq
           /\ HostIs(h, host.boot, host.epoch, f.expires, f.seq, host.held)
  <2>1. /\ f.seq = leases[e].seq => f.expires = leases[e].expires
        /\ f.seq > leases[e].seq =>
             /\ leases[e].host = "PENDING_HOST_RENEW"
             /\ f.seq = leases[e].pending.seq /\ f.expires = leases[e].pending.expires
    BY <1>1, <1>4, <1>8 DEF FrameSound
  <2>2. f.expires >= leases[e].expires /\ f.seq >= leases[e].seq
    BY <1>2, <1>3, <1>4, <1>5, <1>8, <2>1
  <2>3. /\ leases[e].host = "PENDING_HOST_RENEW" /\ host.seq = leases[e].pending.seq
        => f.seq = leases[e].pending.seq /\ f.expires = leases[e].pending.expires
    BY <1>2, <1>3, <1>4, <1>5, <1>8, <2>1
  <2> QED
    BY <1>4, <1>8, <2>2, <2>3 DEF HostIs
<1>9. CASE f.op = "revoke" /\ f.epoch = host.epoch
  BY <1>1, <1>4, <1>9 DEF FrameSound
<1> QED
  BY <1>1, <1>6, <1>7, <1>8, <1>9, HostAfterFacts

LEMMA HostActsInv ==
  ASSUME LInv, NEW f \in wire, NEW answered \in BOOLEAN, NEW gen \in Generations,
         NEW fresh \in BOOLEAN, HostActs(f, answered, gen, fresh)
  PROVE  LInv'
<1>1. /\ HostAccepts(f) /\ host' = HostAfter(f)
      /\ call' = IF answered THEN [call EXCEPT !.reply = [gen |-> gen, fresh |-> fresh]]
                 ELSE call
      /\ answered => f = FrameOf(svc.boot, call)
      /\ UNCHANGED <<authority, leases, svc, wire, mono, skew, stopped, returned>>
  BY DEF HostActs
<1>2. PICK h : h = HostAfter(f)
  OBVIOUS
<1>3. /\ f \in Frames /\ host \in Hosts /\ call \in Calls /\ svc \in Memory
      /\ RowsSound(leases) /\ CallSound(call, svc, leases, stopped)
      /\ svc.boot = authority.generation /\ svc.boot \in Nat
  BY DEF LInv, WireSound, WorldTyped, CallSound, MemSound, Memory
<1>4. h \in Hosts
  BY <1>1, <1>2, <1>3, HostAfterFacts DEF HostIs
<1>5. WorldTyped'
  BY <1>1, <1>2, <1>4 DEF LInv, WorldTyped
<1>6. ASSUME NEW e \in 1..Len(leases), leases[e].status = "ACTIVE", Holds(leases[e], e)
      PROVE  Holds(leases[e], e)'
  BY <1>1, <1>2, <1>6, HostKeeps DEF Holds
<1>7. RowsSound(leases)'
  <2>1. ASSUME NEW e \in 1..Len(leases) PROVE RowSound(leases, e)'
    <3>1. RowSound(leases, e)
      BY <1>3, RowsFacts
    <3> QED
      BY <1>1, <1>6, <3>1 DEF RowSound
  <2> QED
    BY <1>1, <1>3, <2>1 DEF RowsSound
<1>8. MemSound(svc, leases, stopped, returned)'
  BY <1>1 DEF LInv, MemSound, LeaseNamed
<1>9. WireSound(wire, leases)'
  BY <1>1 DEF LInv, WireSound, FrameSound
<1>10. /\ call' \in Calls /\ call'.op = call.op /\ call'.purpose = call.purpose
       /\ call'.epoch = call.epoch /\ call'.expires = call.expires /\ call'.seq = call.seq
       /\ ~answered => call'.reply = call.reply
  <2>1. PICK r : r = [gen |-> gen, fresh |-> fresh]
    OBVIOUS
  <2>2. r \in [gen : Nat, fresh : BOOLEAN]
    BY <2>1, ConstantFacts
  <2>3. PICK c : c = [call EXCEPT !.reply = r]
    OBVIOUS
  <2>4. /\ c \in Calls /\ c.op = call.op /\ c.purpose = call.purpose
        /\ c.epoch = call.epoch /\ c.expires = call.expires /\ c.seq = call.seq
    BY <1>3, <2>2, <2>3 DEF Calls
  <2>5. call' = IF answered THEN c ELSE call
    BY <1>1, <2>1, <2>3
  <2> QED
    BY <1>3, <2>4, <2>5
<1>11. answered => /\ f.op = call.op /\ f.boot = svc.boot /\ f.epoch = call.epoch
                   /\ f.expires = call.expires /\ f.seq = call.seq
  BY <1>1, <1>3, FrameFacts
<1>12. ASSUME call.op = "install" PROVE InstallSound(call, leases[call.epoch])'
  <2>1. PICK e : e = call.epoch
    OBVIOUS
  <2>2. e \in 1..Len(leases) /\ InstallSound(call, leases[e])
    BY <1>3, <1>12, <2>1 DEF CallSound
  <2>3. CASE ~answered
    BY <1>1, <1>6, <1>10, <2>1, <2>2, <2>3 DEF InstallSound
  <2>4. CASE answered
    <3>1. RowSound(leases, e) /\ leases[e] \in LeaseRows
      BY <1>3, <2>2, RowsFacts
    <3>2. leases[e].seq = 0 /\ leases[e].expires = call.expires
      BY <2>2, <3>1 DEF RowSound, InstallSound
    <3>3. PICK q \in Nat : HostIs(h, host.boot, f.epoch, f.expires, q, TRUE)
                           /\ f.boot = host.boot
      <4>1. HostIs(h, host.boot, f.epoch, f.expires,
                   IF f.epoch = host.epoch THEN host.seq ELSE 0, TRUE) /\ f.boot = host.boot
        BY <1>1, <1>2, <1>3, <1>11, <1>12, <2>4, HostAfterFacts
      <4>2. (IF f.epoch = host.epoch THEN host.seq ELSE 0) \in Nat
        BY <1>3 DEF Hosts
      <4> QED
        BY <4>1, <4>2
    <3>4. leases[e].expires \in Nat
      BY <3>1 DEF LeaseRows
    <3>5. Holds(leases[e], e)'
      BY <1>1, <1>2, <1>3, <1>11, <2>1, <2>4, <3>2, <3>3, <3>4 DEF Holds, HostIs
    <3> QED
      BY <1>1, <1>10, <2>1, <2>2, <3>5 DEF InstallSound
  <2> QED
    BY <2>3, <2>4
<1>13. ASSUME call.op = "renew" PROVE RenewSound(call, leases[call.epoch], svc)'
  <2>1. PICK e : e = call.epoch
    OBVIOUS
  <2>2. e \in 1..Len(leases) /\ RenewSound(call, leases[e], svc)
    BY <1>3, <1>13, <2>1 DEF CallSound
  <2>3. CASE answered
    <3>1. HostIs(h, host.boot, host.epoch, f.expires, f.seq, host.held)
      BY <1>1, <1>2, <1>3, <1>11, <1>13, <2>3, HostAfterFacts
    <3>2. host'.seq = call.seq /\ host'.expires = call.expires
      BY <1>1, <1>2, <1>11, <2>3, <3>1 DEF HostIs
    <3> QED
      BY <1>1, <1>10, <2>1, <2>2, <3>2 DEF RenewSound
  <2>4. CASE ~answered
    <3>1. RowSound(leases, e)
      BY <1>3, <2>2, RowsFacts
    <3>2. /\ Holds(leases[e], e) /\ leases[e].status = "ACTIVE"
          /\ leases[e].host = "PENDING_HOST_RENEW"
          /\ leases[e].pending.seq = call.seq /\ leases[e].pending.expires = call.expires
      BY <2>2, <3>1 DEF RowSound, RenewSound
    <3>3. host.seq = call.seq /\ host.expires = call.expires
          => h.seq = host.seq /\ h.expires = host.expires
      BY <1>1, <1>2, <2>2, <3>2, HostKeeps
    <3> QED
      BY <1>1, <1>2, <1>10, <2>1, <2>2, <2>4, <3>3 DEF RenewSound
  <2> QED
    BY <2>3, <2>4
<1>14. CallSound(call, svc, leases, stopped)'
  BY <1>1, <1>3, <1>10, <1>12, <1>13 DEF CallSound
<1> QED
  BY <1>5, <1>7, <1>8, <1>9, <1>14 DEF LInv

-----------------------------------------------------------------------------
(* Every step.                                                              *)

LEMMA StutterInv ==
  ASSUME LInv, UNCHANGED <<authority, leases, svc, call, wire, host, stopped, returned>>,
         mono' \in Nat, skew' \in Nat
  PROVE  LInv'
<1>1. WorldTyped'
  BY DEF LInv, WorldTyped
<1>2. RowsSound(leases)'
  BY DEF LInv, RowsSound, RowSound, Holds
<1>3. MemSound(svc, leases, stopped, returned)'
  BY DEF LInv, MemSound, LeaseNamed
<1>4. WireSound(wire, leases)'
  BY DEF LInv, WireSound, FrameSound
<1>5. CallSound(call, svc, leases, stopped)'
  BY DEF LInv, CallSound, InstallSound, RenewSound, Holds
<1> QED
  BY <1>1, <1>2, <1>3, <1>4, <1>5 DEF LInv

LEMMA ClockInv ==
  ASSUME LInv, Tick \/ WallStep
  PROVE  LInv'
<1>1. mono' \in Nat /\ skew' \in Nat
  BY DEF LInv, WorldTyped, Tick, WallStep
<1> QED
  BY <1>1, StutterInv DEF Tick, WallStep

LEMMA InitInv ==
  ASSUME Init
  PROVE  LInv
<1>1. /\ authority = [generation |-> 1, state |-> "FENCE_REQUIRED"] /\ leases = <<>>
      /\ svc = Started(1) /\ call = Idle /\ wire = {}
      /\ host = [boot |-> 0, epoch |-> 0, expires |-> 0, seq |-> 0, held |-> FALSE]
      /\ mono = 0 /\ skew = 0 /\ stopped = FALSE /\ returned = 0
  BY DEF Init
<1>2. WorldTyped
  BY <1>1 DEF WorldTyped, Hosts
<1>3. RowsSound(leases)
  BY <1>1 DEF RowsSound
<1>4. svc \in Memory /\ svc.boot = 1 /\ svc.lease = None /\ ~svc.active
  BY <1>1, NoneFacts DEF Started, Memory
<1>5. MemSound(svc, leases, stopped, returned)
  BY <1>1, <1>4 DEF MemSound, LeaseNamed
<1>6. WireSound(wire, leases)
  BY <1>1 DEF WireSound
<1>7. CallSound(call, svc, leases, stopped)
  BY <1>1, IdleFacts DEF CallSound
<1> QED
  BY <1>2, <1>3, <1>5, <1>6, <1>7 DEF LInv

LEMMA NextInv ==
  ASSUME LInv, Next
  PROVE  LInv'
<1>1. CASE \E unreadable \in BOOLEAN : ActivateAndRespond(unreadable)
  BY <1>1, ActivateInv
<1>2. CASE \E seq \in 1..MaxSeq : Renew(seq)
  <2>1. PICK seq \in 1..MaxSeq : Renew(seq)
    BY <1>2
  <2>2. seq \in Nat
    BY ConstantFacts
  <2> QED
    BY <2>1, <2>2, RenewInv
<1>3. CASE \E profiled \in BOOLEAN : Release(profiled)
  BY <1>3, ReleaseInv
<1>4. CASE \E gone \in BOOLEAN : CallFails(gone)
  BY <1>4, CallFailsInv
<1>5. CASE \E f \in wire, answered, fresh \in BOOLEAN, gen \in Generations :
             HostActs(f, answered, gen, fresh)
  BY <1>5, HostActsInv
<1>6. CASE CheckLease
  BY <1>6, CheckInv DEF CheckLease
<1> QED
  BY <1>1, <1>2, <1>3, <1>4, <1>5, <1>6, BootstrapInv, RestartInv, HostFenceInv,
     HostFenceEndsInv, AllocateInv, AcquireRouteInv, InstallEndsInv, RenewEndsInv,
     RevokeRouteInv, ShutdownInv, RevokeEndsInv, ClockInv DEF Next

\* While an adoption waits for its last check, the claim it found stands.
AskSound ==
  /\ asked = [at |-> asked.at, op |-> asked.op, owner |-> asked.owner]
  /\ asked.at = "recheck" => claims[asked.op] = asked.owner

OInv == LInv /\ AskSound

LEMMA OwnerNextInv ==
  ASSUME OInv, OwnerNext
  PROVE  OInv'
<1>1. LInv /\ AskSound
  BY DEF OInv
<1>2. NotAsked.at = "idle"
      /\ NotAsked = [at |-> NotAsked.at, op |-> NotAsked.op, owner |-> NotAsked.owner]
  BY DEF NotAsked
<1>3. CASE LeaseStep
  <2>1. LInv'
    BY <1>1, <1>3, NextInv DEF LeaseStep
  <2>2. AskSound'
    BY <1>1, <1>3 DEF LeaseStep, AskSound
  <2> QED
    BY <2>1, <2>2 DEF OInv
<1>4. CASE Meanwhile
  <2>1. LInv'
    BY <1>1, <1>4, ClockInv, RestartInv DEF Meanwhile
  <2>2. AskSound'
    BY <1>1, <1>2, <1>4 DEF Meanwhile, AskSound
  <2> QED
    BY <2>1, <2>2 DEF OInv
<1>5. ASSUME NEW at \in {"claim", "adopt"}, NEW o, Ask(at, o) PROVE OInv'
  <2>1. LInv'
    BY <1>1, <1>5, CheckInv DEF Ask
  <2>2. AskSound'
    <3>1. CASE asked' = NotAsked
      BY <1>2, <3>1 DEF AskSound
    <3>2. CASE asked' = [at |-> at, op |-> o, owner |-> Checked.owner]
      BY <1>5, <3>2 DEF AskSound
    <3> QED
      BY <1>5, <3>1, <3>2 DEF Ask
  <2> QED
    BY <2>1, <2>2 DEF OInv
<1>6. ASSUME UNCHANGED vars PROVE LInv'
  <2>1. mono' \in Nat /\ skew' \in Nat
    BY <1>1, <1>6 DEF LInv, WorldTyped, vars
  <2> QED
    BY <1>1, <1>6, <2>1, StutterInv DEF vars
<1>7. CASE claim_continuation_owner
  <2>1. AskSound'
    BY <1>2, <1>7 DEF claim_continuation_owner, AskSound
  <2> QED
    BY <1>6, <1>7, <2>1 DEF claim_continuation_owner, OInv
<1>8. CASE adopt_continuation_owner
  <2>1. AskSound'
    <3>1. CASE asked' = NotAsked
      BY <1>2, <3>1 DEF AskSound
    <3>2. CASE claims[asked.op] = asked.owner /\ asked' = [asked EXCEPT !.at = "recheck"]
               /\ claims' = claims
      <4>1. asked' = [at |-> "recheck", op |-> asked.op, owner |-> asked.owner]
        BY <1>1, <3>2 DEF AskSound
      <4> QED
        BY <3>2, <4>1 DEF AskSound
    <3> QED
      BY <1>8, <3>1, <3>2 DEF adopt_continuation_owner
  <2> QED
    BY <1>6, <1>8, <2>1 DEF adopt_continuation_owner, OInv
<1>9. CASE AdoptReturns \/ AdoptRefused
  <2>1. LInv'
    BY <1>1, <1>9, CheckInv DEF AdoptReturns, AdoptRefused
  <2>2. AskSound'
    BY <1>2, <1>9 DEF AdoptReturns, AdoptRefused, AskSound
  <2> QED
    BY <2>1, <2>2 DEF OInv
<1> QED
  BY <1>3, <1>4, <1>5, <1>7, <1>8, <1>9 DEF OwnerNext, claim_owner, adopt

LEMMA OwnerInvariant == OwnerSpec => []OInv
<1>1. OwnerInit => OInv
  BY InitInv DEF OwnerInit, OInv, AskSound, NotAsked
<1>2. OInv /\ [OwnerNext]_allvars => OInv'
  <2>1. ASSUME OInv, UNCHANGED allvars PROVE OInv'
    <3>1. UNCHANGED vars /\ claims' = claims /\ asked' = asked /\ LInv /\ AskSound
      BY <2>1 DEF allvars, OInv
    <3>2. mono' \in Nat /\ skew' \in Nat
      BY <3>1 DEF LInv, WorldTyped, vars
    <3>3. LInv'
      BY <3>1, <3>2, StutterInv DEF vars
    <3>4. AskSound'
      BY <3>1 DEF AskSound
    <3> QED
      BY <3>3, <3>4 DEF OInv
  <2> QED
    BY <2>1, OwnerNextInv
<1> QED
  BY <1>1, <1>2, PTL DEF OwnerSpec

-----------------------------------------------------------------------------
(* What the invariant means for callers.                                    *)

\* A lease that check_lease lets through is the newest row, in force, and held
\* by the host for as long as the memory promises.
LEMMA AdmittedFacts ==
  ASSUME NEW s, NEW rows, Works(s, rows), Admitted(s, rows), NEW e, e = s.lease.epoch
  PROVE  /\ s \in Memory /\ s.lease # None /\ s.active /\ s.deadline # 0 /\ returned = e
         /\ e \in 1..Len(rows) /\ Len(rows) \in Nat /\ rows[e] \in LeaseRows
         /\ e = Len(rows) /\ rows[e].boot = authority.generation
         /\ rows[e].status = "ACTIVE" /\ rows[e].host = "INSTALLED"
         /\ rows[e].expires = s.lease.expires /\ rows[e].expires > now
         /\ authority.state = "READY" /\ Holds(rows[e], e)
<1>1. /\ s \in Memory /\ LeaseNamed(s, rows) /\ RowsSound(rows) /\ s.lease # None
      /\ s.active => s.deadline # 0 /\ returned = e
  BY DEF Works, MemSound, Admitted
<1>2. /\ e \in 1..Len(rows) /\ Len(rows) \in Nat /\ rows[e] \in LeaseRows
      /\ RowSound(rows, e)
  BY <1>1, RowsFacts DEF LeaseNamed
<1>3. /\ rows[e].status = "ACTIVE" /\ rows[e].host = "INSTALLED"
      /\ rows[e].digest = s.lease.expires /\ rows[e].expires > now
      /\ authority.state = "READY" /\ s.active
  BY DEF Admitted, ensure_context, active_host_grant_matches
<1>4. /\ e = Len(rows) /\ rows[e].boot = authority.generation
      /\ rows[e].expires = s.lease.expires /\ Holds(rows[e], e)
  BY <1>2, <1>3 DEF RowSound
<1> QED
  BY <1>1, <1>2, <1>3, <1>4

\* While a lease is admitted the deadline has not passed.
LEMMA AdmitsFacts ==
  ASSUME LInv, Admits
  PROVE  /\ Works(svc, leases) /\ Admitted(svc, leases) /\ ~DeadlinePassed(svc)
         /\ DeadlineChecked(svc) = svc /\ DeadlineExpired(svc, leases) = leases
<1>1. ~DeadlinePassed(svc)
  <2>1. SUFFICES ASSUME DeadlinePassed(svc) PROVE FALSE
    OBVIOUS
  <2>2. PICK s : s = DeadlineChecked(svc)
    OBVIOUS
  <2>3. svc \in Memory /\ s.lease # None
    BY <2>2 DEF LInv, MemSound, Admits, Admitted
  <2>4. MemIs(s, svc, None, FALSE, svc.revoked, 0, svc.cleanup)
    BY <2>1, <2>2, <2>3, LapsedFacts, Zenon DEF DeadlineChecked
  <2> QED
    BY <2>3, <2>4 DEF MemIs
<1>2. DeadlineChecked(svc) = svc /\ DeadlineExpired(svc, leases) = leases
  BY <1>1 DEF DeadlineChecked, DeadlineExpired
<1> QED
  BY <1>1, <1>2, DeadlineWorks DEF Admits

LEMMA LInvProperties ==
  ASSUME LInv
  PROVE  OneLiveLease /\ HostHoldsWhatIsAdmitted /\ StopHolds /\ OnlyReturnedLeasesServe
<1>1. OneLiveLease
  <2>1. ASSUME NEW e \in active_lease(leases)
        PROVE  e = Len(leases) /\ leases[e].boot = authority.generation
    <3>1. e \in 1..Len(leases) /\ leases[e].status = "ACTIVE" /\ RowSound(leases, e)
      BY <2>1, RowsFacts DEF LInv, active_lease
    <3> QED
      BY <3>1 DEF RowSound
  <2> QED
    BY <2>1 DEF OneLiveLease
<1>2. ASSUME Admits
      PROVE  /\ host.boot = svc.boot /\ host.held /\ host.epoch = svc.lease.epoch
             /\ host.expires >= svc.lease.expires /\ returned = svc.lease.epoch
  <2>1. PICK e : e = svc.lease.epoch
    OBVIOUS
  <2>2. /\ returned = e /\ leases[e].expires = svc.lease.expires /\ Holds(leases[e], e)
        /\ svc.boot = authority.generation
    BY <1>2, <2>1, AdmitsFacts, AdmittedFacts DEF LInv, MemSound
  <2> QED
    BY <2>1, <2>2 DEF Holds
<1>3. HostHoldsWhatIsAdmitted
  BY <1>2 DEF HostHoldsWhatIsAdmitted
<1>4. StopHolds
  BY DEF StopHolds, LInv, MemSound
<1>5. OnlyReturnedLeasesServe
  BY <1>2 DEF OnlyReturnedLeasesServe
<1> QED
  BY <1>1, <1>3, <1>4, <1>5

\* An owner that reads as available is the lease the memory holds, and it is
\* one that would be admitted.
LEMMA AvailableFacts ==
  ASSUME NEW s, NEW rows, Works(s, rows), read_owner_snapshot(s, rows).state = "available"
  PROVE  /\ Admitted(s, rows)
         /\ read_owner_snapshot(s, rows).owner = Owner(s.lease.epoch, s.lease.expires)
<1>1. PICK stored : stored = current_owner_snapshot(rows)
  OBVIOUS
<1>2. /\ stored.state = "available" /\ MemoryIsLive(s, rows)
      /\ stored.owner = Owner(s.lease.epoch, s.lease.expires)
      /\ read_owner_snapshot(s, rows) = stored
  BY <1>1 DEF read_owner_snapshot, snapshot
<1> DEFINE mine == {d \in DOMAIN rows : rows[d].boot = authority.generation}
           e == CHOOSE x \in mine : \A y \in mine : x >= y
<1>3. stored = IF authority.state # "READY" THEN snapshot("unknown", NoOwner)
               ELSE IF mine = {} THEN snapshot("absent", NoOwner)
               ELSE IF rows[e].host = "UNINSTALLED" THEN snapshot("unknown", NoOwner)
               ELSE snapshot(LeaseState(rows[e]), Owner(e, rows[e].expires))
  BY <1>1, Zenon DEF current_owner_snapshot
<1> HIDE DEF mine, e
<1>4. /\ authority.state = "READY" /\ LeaseState(rows[e]) = "available"
      /\ stored.owner = Owner(e, rows[e].expires)
  BY <1>2, <1>3 DEF snapshot
<1>5. e = s.lease.epoch
  BY <1>2, <1>4 DEF Owner
<1>6. /\ s.lease # None /\ LeaseNamed(s, rows) /\ RowsSound(rows)
      /\ s.active /\ ~s.revoked /\ ~s.shutdown /\ active_host_grant_matches(s, rows)
  BY <1>2 DEF Works, MemSound, MemoryIsLive
<1>7. e \in 1..Len(rows) /\ rows[e] \in LeaseRows /\ RowSound(rows, e)
  BY <1>5, <1>6, RowsFacts DEF LeaseNamed
<1>8. rows[e].status = "ACTIVE" /\ ~(rows[e].expires <= now)
  BY <1>4, <1>7 DEF LeaseState, LeaseRows, Statuses
<1>9. rows[e].expires \in Nat /\ now \in Nat
  BY <1>7 DEF LeaseRows, Works, WorldTyped, now
<1>10. rows[e].boot = authority.generation /\ rows[e].expires > now
  BY <1>7, <1>8, <1>9 DEF RowSound
<1>11. Admitted(s, rows)
  BY <1>4, <1>5, <1>6, <1>8, <1>10 DEF Admitted, ensure_context
<1> QED
  BY <1>2, <1>11

\* And an admitted lease reads as available, unless the deadline has passed.
LEMMA AdmittedAvailable ==
  ASSUME NEW s, NEW rows, Works(s, rows), Admitted(s, rows), ~DeadlinePassed(s)
  PROVE  read_owner_snapshot(s, rows).state = "available"
<1>1. PICK stored : stored = current_owner_snapshot(rows)
  OBVIOUS
<1>2. PICK e : e = s.lease.epoch
  OBVIOUS
<1>3. /\ s \in Memory /\ s.lease # None /\ s.active /\ s.deadline # 0
      /\ e \in 1..Len(rows) /\ Len(rows) \in Nat /\ rows[e] \in LeaseRows
      /\ e = Len(rows) /\ rows[e].boot = authority.generation
      /\ rows[e].status = "ACTIVE" /\ rows[e].host = "INSTALLED"
      /\ rows[e].expires = s.lease.expires /\ rows[e].expires > now
      /\ authority.state = "READY"
  BY <1>2, AdmittedFacts
<1> DEFINE mine == {d \in DOMAIN rows : rows[d].boot = authority.generation}
           c == CHOOSE x \in mine : \A y \in mine : x >= y
<1>4. DOMAIN rows = 1..Len(rows)
  BY RowsFacts DEF Works
<1>5. e \in mine /\ \A y \in mine : e >= y /\ y \in 1..Len(rows)
  BY <1>3, <1>4
<1>6. c \in mine /\ \A y \in mine : c >= y
  BY <1>5, Zenon
<1>7. stored = IF authority.state # "READY" THEN snapshot("unknown", NoOwner)
                ELSE IF mine = {} THEN snapshot("absent", NoOwner)
                ELSE IF rows[c].host = "UNINSTALLED" THEN snapshot("unknown", NoOwner)
                ELSE snapshot(LeaseState(rows[c]), Owner(c, rows[c].expires))
  BY <1>1, Zenon DEF current_owner_snapshot
<1> HIDE DEF mine, c
<1>8. c = e
  <2>1. c \in 1..Len(rows) /\ c >= e /\ e >= c
    BY <1>5, <1>6
  <2> QED
    BY <1>3, <2>1
<1>9. rows[e].expires \in Nat /\ now \in Nat
  BY <1>3 DEF LeaseRows, Works, WorldTyped, now
<1>10. LeaseState(rows[e]) = "available"
  BY <1>3, <1>9 DEF LeaseState
<1>11. stored = snapshot("available", Owner(e, rows[e].expires))
  BY <1>3, <1>5, <1>8, <1>7, <1>10
<1>12. MemoryIsLive(s, rows)
  BY <1>3 DEF MemoryIsLive, Admitted, active_host_grant_matches
<1>13. stored.state = "available" /\ stored.owner = Owner(s.lease.epoch, s.lease.expires)
  BY <1>2, <1>3, <1>11 DEF snapshot
<1> QED
  BY <1>1, <1>12, <1>13 DEF read_owner_snapshot

LEMMA CheckedFacts ==
  ASSUME LInv
  PROVE  /\ (Checked.state = "available") <=> Admits
         /\ Admits => Checked.owner = Owner(svc.lease.epoch, svc.lease.expires)
<1>1. PICK s, rows : s = DeadlineChecked(svc) /\ rows = DeadlineExpired(svc, leases)
  OBVIOUS
<1>2. Works(s, rows)
  BY <1>1, DeadlineWorks
<1>3. ASSUME Checked.state = "available" PROVE Admits
  <2>1. read_owner_snapshot(s, rows).state = "available"
    BY <1>1, <1>3 DEF Checked
  <2>2. Admitted(s, rows)
    BY <1>2, <2>1, AvailableFacts
  <2> QED
    BY <1>1, <2>2 DEF Admits
<1>4. ASSUME Admits
      PROVE  /\ Checked.state = "available"
             /\ Checked.owner = Owner(svc.lease.epoch, svc.lease.expires)
  <2>1. /\ s = svc /\ rows = leases /\ Admitted(s, rows) /\ ~DeadlinePassed(s)
    BY <1>1, <1>4, AdmitsFacts
  <2>2. read_owner_snapshot(s, rows).state = "available"
    BY <1>2, <2>1, AdmittedAvailable
  <2>3. read_owner_snapshot(s, rows).owner = Owner(s.lease.epoch, s.lease.expires)
    BY <1>2, <2>2, AvailableFacts
  <2> QED
    BY <1>1, <2>1, <2>2, <2>3 DEF Checked
<1> QED
  BY <1>3, <1>4

\* At most one lease row is active, whatever boots, crashes, cleanups and
\* retries came before: acquire, install, renew, revoke and start_boot never
\* leave two rows a mutation could be admitted under.
THEOREM OneLiveLeaseTheorem == OwnerSpec => []OneLiveLease
<1>1. OInv => OneLiveLease
  BY LInvProperties DEF OInv
<1> QED
  BY <1>1, OwnerInvariant, PTL

\* While check_lease lets mutations through, the host holds that very lease and
\* for long enough: no lost, late or repeated install, renew, revoke or fence
\* frame can put the gateway ahead of the host.
THEOREM HostHoldsTheorem == OwnerSpec => []HostHoldsWhatIsAdmitted
<1>1. OInv => HostHoldsWhatIsAdmitted
  BY LInvProperties DEF OInv
<1> QED
  BY <1>1, OwnerInvariant, PTL

\* A stop of the operator or the supervisor is final for the boot: neither a
\* retained cleanup nor an episode release that ends later reopens admission.
THEOREM StopTheorem == OwnerSpec => []StopHolds
<1>1. OInv => StopHolds
  BY LInvProperties DEF OInv
<1> QED
  BY <1>1, OwnerInvariant, PTL

\* An allocation that failed after the host had installed it serves nobody,
\* even when its revocation could be neither recorded nor sent.
THEOREM ReturnedTheorem == OwnerSpec => []OnlyReturnedLeasesServe
<1>1. OInv => OnlyReturnedLeasesServe
  BY LInvProperties DEF OInv
<1> QED
  BY <1>1, OwnerInvariant, PTL

\* read_owner_snapshot, which goes from the store to the memory, and
\* check_lease, which goes from the memory to the store, always agree.
THEOREM OwnerAgreesTheorem == OwnerSpec => []OwnerAgreesWithAdmission
<1>1. OInv => OwnerAgreesWithAdmission
  BY CheckedFacts DEF OInv, OwnerAgreesWithAdmission
<1> QED
  BY <1>1, OwnerInvariant, PTL

LEMMA AdoptReturnsFacts ==
  ASSUME OInv, AdoptReturns
  PROVE  LET owner == asked.owner
         IN /\ claims[asked.op] = owner
            /\ owner.expires > now
            /\ host.held /\ host.boot = owner.boot /\ host.epoch = owner.epoch
            /\ host.expires >= owner.expires
<1>1. /\ LInv /\ claims[asked.op] = asked.owner
      /\ Checked.state = "available" /\ Checked.owner = asked.owner
  BY DEF OInv, AskSound, AdoptReturns, Rechecked
<1>2. PICK owner, e : owner = asked.owner /\ e = svc.lease.epoch
  OBVIOUS
<1>3. Admits /\ owner = Owner(svc.lease.epoch, svc.lease.expires)
  BY <1>1, <1>2, CheckedFacts
<1>4. /\ owner.boot = authority.generation /\ owner.epoch = e
      /\ owner.expires = svc.lease.expires
  BY <1>2, <1>3 DEF Owner
<1>5. /\ leases[e].expires = svc.lease.expires /\ leases[e].expires > now
      /\ Holds(leases[e], e)
  BY <1>1, <1>2, <1>3, AdmitsFacts, AdmittedFacts
<1> QED
  BY <1>1, <1>2, <1>4, <1>5 DEF Holds

\* An adoption hands authority only to the operation that claimed exactly this
\* owner, and at that moment the lease is unexpired and the host holds it: a
\* deadline that passed, or a process that restarted, between the store's check
\* and the answer never leaves the caller with authority that is gone.
THEOREM AdoptedTheorem == OwnerSpec => AdoptedIsHeld
<1>1. OInv /\ [OwnerNext]_allvars =>
        [AdoptReturns =>
           LET owner == asked.owner
           IN /\ claims[asked.op] = owner
              /\ owner.expires > now
              /\ host.held /\ host.boot = owner.boot /\ host.epoch = owner.epoch
              /\ host.expires >= owner.expires]_allvars
  BY AdoptReturnsFacts
<1> QED
  BY <1>1, OwnerInvariant, PTL DEF OwnerSpec, AdoptedIsHeld

\* The lease machine on its own, without continuation claims, has the same
\* properties.
THEOREM HostLeaseTheorem ==
  Spec => [](OneLiveLease /\ HostHoldsWhatIsAdmitted /\ StopHolds /\ OnlyReturnedLeasesServe)
<1>1. Init => LInv
  BY InitInv
<1>2. LInv /\ [Next]_vars => LInv'
  <2>1. ASSUME LInv, UNCHANGED vars PROVE LInv'
    <3>1. mono' \in Nat /\ skew' \in Nat
      BY <2>1 DEF LInv, WorldTyped, vars
    <3> QED
      BY <2>1, <3>1, StutterInv DEF vars
  <2> QED
    BY <2>1, NextInv
<1>3. LInv => OneLiveLease /\ HostHoldsWhatIsAdmitted /\ StopHolds /\ OnlyReturnedLeasesServe
  BY LInvProperties
<1> QED
  BY <1>1, <1>2, <1>3, PTL DEF Spec
=============================================================================
