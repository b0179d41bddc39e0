------------------------ MODULE OwnerAggregateProofs ------------------------
(***************************************************************************)
(* Invariants of the budget coordinator, for any number of tenants, any    *)
(* sequence of authorities, any callers and any bounds.  Every transition  *)
(* keeps the invariant of each ledger (module BudgetLedgerProofs) and,     *)
(* while the aggregate is blocked, grants nothing.                         *)
(***************************************************************************)
EXTENDS OwnerAggregate, BudgetLedgerProofs

AggInv(S) == S \in Aggregate /\ \A l \in Ledgers : LedgerInv(S.ledger[l])

\* Transition S -> T grants nothing.
NothingGranted(S, T) == \A l \in Ledgers : T.ledger[l].next = S.ledger[l].next

\* A transition under one authority: only while the lease is not blocked does
\* it grant anything.
Keeps(S, T) ==
  /\ AggInv(T)
  /\ T.revision = S.revision /\ T.checkedAt = S.checkedAt
  /\ T.expiresAt = S.expiresAt /\ T.blocked = S.blocked
  /\ S.blocked => NothingGranted(S, T)

\* The ingress ledger and the tenants' are the ledgers, and are numbers.
LEMMA LedgersType == Ledgers \subseteq Nat /\ Ingress \in Ledgers /\ Tenants \subseteq Ledgers
BY AuthorityAssumption DEF Ledgers, Tenants, Ingress

\* What D1 publishes for a ledger is a policy.
LEMMA PoliciesType ==
  ASSUME NEW r \in Revisions, NEW l \in Ledgers
  PROVE  Authority[r].policies[l] \in Policy
<1>1. Authority[r] \in AuthorityRecord
  BY AuthorityAssumption DEF Revisions
<1> QED BY <1>1 DEF AuthorityRecord

\* A rejected call keeps the aggregate.
LEMMA KeepsReflexive == ASSUME NEW S, AggInv(S) PROVE Keeps(S, S)
BY DEF Keeps, NothingGranted

\* Transitions made one after the other within a call keep it too.
LEMMA KeepsTransitive ==
  ASSUME NEW S, NEW T, NEW U, Keeps(S, T), Keeps(T, U)
  PROVE  Keeps(S, U)
BY DEF Keeps, NothingGranted

\* One ledger may be replaced by another that satisfies the invariant; while the
\* aggregate is blocked, by one that granted nothing.
LEMMA WithLedgerKeeps ==
  ASSUME NEW S, AggInv(S), NEW l \in Ledgers, NEW L, LedgerInv(L),
         S.blocked => L.next = S.ledger[l].next
  PROVE  Keeps(S, WithLedger(S, l, L)) /\ WithLedger(S, l, L).ledger[l] = L
<1> DEFINE T == WithLedger(S, l, L)
<1>1. S \in Aggregate /\ L \in Ledger
  BY DEF AggInv, LedgerInv
<1>2. /\ T.ledger = [S.ledger EXCEPT ![l] = L]
      /\ T.revision = S.revision /\ T.checkedAt = S.checkedAt
      /\ T.expiresAt = S.expiresAt /\ T.blocked = S.blocked
      /\ T \in Aggregate
  BY <1>1 DEF WithLedger, Aggregate
<1> HIDE DEF T
<1>3. T.ledger[l] = L /\ \A k \in Ledgers \ {l} : T.ledger[k] = S.ledger[k]
  BY <1>1, <1>2 DEF Aggregate
<1>4. AggInv(T)
  BY <1>2, <1>3 DEF AggInv
<1>5. Keeps(S, T)
  BY <1>2, <1>3, <1>4 DEF Keeps, NothingGranted
<1> QED BY <1>3, <1>5 DEF T

\* Expiry of one ledger, and of all.
LEMMA ExpireOneKeeps ==
  ASSUME NEW S, AggInv(S), NEW l \in Ledgers, NEW now \in Nat
  PROVE  Keeps(S, WithLedger(S, l, Expire(S.ledger[l], now)))
<1>1. LedgerInv(Expire(S.ledger[l], now)) /\ Expire(S.ledger[l], now).next = S.ledger[l].next
  BY ExpireInv DEF AggInv, Continues
<1> QED BY <1>1, WithLedgerKeeps

\* Every ledger may expire at once, as a new reservation makes them.
LEMMA ExpireAllKeeps ==
  ASSUME NEW S, AggInv(S), NEW now \in Nat
  PROVE  Keeps(S, ExpireAll(S, now))
<1> DEFINE E == [l \in Ledgers |-> Expire(S.ledger[l], now)]
           T == [S EXCEPT !.ledger = E]
<1>1. S \in Aggregate
  BY DEF AggInv
<1>2. \A l \in Ledgers : LedgerInv(E[l]) /\ E[l].next = S.ledger[l].next
  BY ExpireInv DEF AggInv, Continues
<1>3. E \in [Ledgers -> Ledger]
  BY <1>2 DEF LedgerInv
<1> HIDE DEF E
<1>4. /\ T \in Aggregate /\ T.ledger = E /\ T.revision = S.revision
      /\ T.checkedAt = S.checkedAt /\ T.expiresAt = S.expiresAt /\ T.blocked = S.blocked
  BY <1>1, <1>3 DEF Aggregate
<1> HIDE DEF T
<1>5. Keeps(S, T)
  BY <1>2, <1>4 DEF Keeps, AggInv, NothingGranted
<1> QED BY <1>5 DEF ExpireAll, E, T

\* Retirement closes a grant of some ledger, as uncertain, or none.
RetireSome(S, l, g, now) ==
  WithLedger(S, l, Compact(S.ledger[l], [g EXCEPT !.status = "uncertain"], now))

LEMMA RetireOneCloses ==
  ASSUME NEW S, AggInv(S), NEW now \in Nat, RetireOne(S, now) # S
  PROVE  \E l \in Ledgers : \E g \in Retirable(S.ledger[l], now) :
           RetireOne(S, now) = RetireSome(S, l, g, now)
<1> DEFINE found == {l \in Ledgers : Retirable(S.ledger[l], now) # {}}
           l == Earliest(found)
           L == S.ledger[l]
           g == CHOOSE h \in Retirable(L, now) : \A k \in Retirable(L, now) : h.seq <= k.seq
<1>1. ~(Defective(S) \/ found = {})
  BY DEF RetireOne
<1>2. RetireOne(S, now) = RetireSome(S, l, g, now)
  BY <1>1 DEF RetireOne, RetireSome
<1>3. found \subseteq Nat /\ found # {}
  BY <1>1, LedgersType
<1>4. l \in found
  <2> HIDE DEF found
  <2> QED BY <1>3, EarliestIsMinimal
<1>5. l \in Ledgers /\ Retirable(L, now) # {}
  BY <1>4
<1> HIDE DEF found, l
<1>6. Retirable(L, now) \subseteq Grant
  BY <1>5 DEF AggInv, LedgerInv, Ledger, Retirable, Open
<1>7. g \in Retirable(L, now)
  <2> DEFINE Seqs == {k.seq : k \in Retirable(L, now)}
  <2>1. Seqs \subseteq Nat /\ Seqs # {}
    BY <1>5, <1>6 DEF Grant
  <2>2. Earliest(Seqs) \in Seqs /\ \A u \in Seqs : Earliest(Seqs) <= u
    <3> HIDE DEF Seqs
    <3> QED BY <2>1, EarliestIsMinimal
  <2>3. PICK f \in Retirable(L, now) : f.seq = Earliest(Seqs)
    BY <2>2
  <2>4. \A k \in Retirable(L, now) : f.seq <= k.seq
    BY <2>2, <2>3
  <2> QED BY <2>4
<1> QED BY <1>2, <1>5, <1>7

\* The grant it closes is the one that expired, charged as it was.
LEMMA RetiredVersion ==
  ASSUME NEW L, LedgerInv(L), NEW now \in Nat, NEW g \in Retirable(L, now)
  PROVE  LET h == [g EXCEPT !.status = "uncertain"]
         IN /\ g \in L.grants /\ h \in Grant /\ SameGrant(g, h) /\ SameCharge(g, h)
            /\ h.status = "uncertain"
<1> DEFINE h == [g EXCEPT !.status = "uncertain"]
<1>1. g \in L.grants /\ g \in Grant /\ g.status \in {"reserved", "uncertain"}
  BY DEF Retirable, Open, LedgerInv, Ledger
<1>2. h \in Grant
  BY <1>1 DEF Grant, Statuses
<1> QED BY <1>1, <1>2 DEF Grant, SameGrant, SameCharge, Later

LEMMA RetireOneKeeps ==
  ASSUME NEW S, AggInv(S), NEW now \in Nat
  PROVE  Keeps(S, RetireOne(S, now))
<1>1. CASE RetireOne(S, now) = S
  BY <1>1, KeepsReflexive
<1>2. CASE RetireOne(S, now) # S
  <2>1. PICK l \in Ledgers : \E g \in Retirable(S.ledger[l], now) :
               RetireOne(S, now) = RetireSome(S, l, g, now)
    BY <1>2, RetireOneCloses
  <2>2. PICK g \in Retirable(S.ledger[l], now) : RetireOne(S, now) = RetireSome(S, l, g, now)
    BY <2>1
  <2> DEFINE L == S.ledger[l]
             h == [g EXCEPT !.status = "uncertain"]
  <2>3. LedgerInv(L)
    BY DEF AggInv
  <2>4. g \in L.grants /\ h \in Grant /\ SameGrant(g, h)
    BY <2>3, RetiredVersion
  <2>5. LedgerInv(Compact(L, h, now)) /\ Compact(L, h, now).next = L.next
    <3> HIDE DEF h, L
    <3> QED BY <2>3, <2>4, CompactInv DEF Continues
  <2> QED BY <2>2, <2>5, WithLedgerKeeps DEF RetireSome
<1> QED BY <1>1, <1>2

\* So do the two retirements of a call.
LEMMA RetireExpiredKeeps ==
  ASSUME NEW S, AggInv(S), NEW now \in Nat, NEW T \in RetireExpired(S, now)
  PROVE  Keeps(S, T)
<1> DEFINE M == RetireOne(S, now)
<1>1. Keeps(S, M)
  BY RetireOneKeeps
<1>2. T = RetireOne(M, now)
  BY DEF RetireExpired
<1> HIDE DEF M
<1>3. Keeps(M, T)
  BY <1>1, <1>2, RetireOneKeeps DEF Keeps
<1> QED BY <1>1, <1>3, KeepsTransitive
-----------------------------------------------------------------------------
(* Reserving and closing.                                                  *)

\* The owner's checks only ever add a reason to refuse.
LEMMA ReserveNewKeeps ==
  ASSUME NEW S, AggInv(S), ~S.blocked, NEW l \in Ledgers, NEW req \in Request
  PROVE  Keeps(S, ReserveNew(S, l, req))
<1>1. {S.expiresAt} \in SUBSET Nat
  BY DEF AggInv, Aggregate
<1>2. LedgerInv(Reserve(S.ledger[l], req, {S.expiresAt}))
  BY <1>1, ReserveInv DEF AggInv
<1> QED BY <1>2, WithLedgerKeeps, KeepsReflexive DEF ReserveNew

\* Each path of reserveOwnerAggregate: the lease is over, the request goes
\* straight to the tenant, or the owner checks it first.
LEMMA ReserveTenantKeeps ==
  ASSUME NEW S, AggInv(S), NEW l \in Ledgers, NEW req \in Request
  PROVE  Keeps(S, ReserveTenant(S, l, req))
<1> DEFINE E == Expire(S.ledger[l], req.now)
           A == ExpireAll(S, req.now)
<1>1. req.now \in Nat
  BY DEF Request
<1>2. LedgerInv(E)
  BY <1>1, ExpireInv DEF AggInv
<1>3. CASE ~LeaseHeld(S, req.now)
  BY <1>1, <1>3, ExpireOneKeeps DEF ReserveTenant
<1>4. CASE LeaseHeld(S, req.now) /\ (Stale(S.ledger[l], req) \/ Prior(S.ledger[l], req) # {})
  <2>1. ReserveTenant(S, l, req) = WithLedger(S, l, Reserve(E, req, {}))
    BY <1>4 DEF ReserveTenant
  <2>2. LedgerInv(Reserve(E, req, {})) /\ ~S.blocked
    <3> HIDE DEF E
    <3> QED BY <1>2, <1>4, ReserveInv DEF LeaseHeld
  <2> QED BY <2>1, <2>2, WithLedgerKeeps
<1>5. CASE LeaseHeld(S, req.now) /\ ~(Stale(S.ledger[l], req) \/ Prior(S.ledger[l], req) # {})
  <2>1. ReserveTenant(S, l, req) = ReserveNew(A, l, req)
    BY <1>5 DEF ReserveTenant
  <2>2. Keeps(S, A) /\ ~A.blocked
    BY <1>1, <1>5, ExpireAllKeeps DEF Keeps, LeaseHeld
  <2> HIDE DEF A
  <2>3. Keeps(A, ReserveNew(A, l, req))
    BY <2>2, ReserveNewKeeps DEF Keeps
  <2> QED BY <2>1, <2>2, <2>3, KeepsTransitive
<1> QED BY <1>3, <1>4, <1>5

\* The same three paths of reserveOwnerIngress, which expires every ledger first.
LEMMA ReserveOnIngressKeeps ==
  ASSUME NEW S, AggInv(S), NEW req \in Request
  PROVE  Keeps(S, ReserveOnIngress(S, req))
<1> DEFINE A == ExpireAll(S, req.now)
           L == A.ledger[Ingress]
<1>1. Keeps(S, A)
  BY ExpireAllKeeps DEF Request
<1>2. CASE ~LeaseHeld(S, req.now)
  BY <1>1, <1>2 DEF ReserveOnIngress
<1>3. CASE LeaseHeld(S, req.now) /\ (Stale(L, req) \/ Prior(L, req) # {})
  <2>1. ReserveOnIngress(S, req) = WithLedger(A, Ingress, Reserve(L, req, {}))
    BY <1>3 DEF ReserveOnIngress
  <2> HIDE DEF A
  <2>2. LedgerInv(Reserve(L, req, {})) /\ ~A.blocked
    BY <1>1, <1>3, LedgersType, ReserveInv DEF Keeps, AggInv, LeaseHeld
  <2> HIDE DEF L
  <2>3. Keeps(A, WithLedger(A, Ingress, Reserve(L, req, {})))
    BY <1>1, <2>2, LedgersType, WithLedgerKeeps DEF Keeps
  <2> QED BY <1>1, <2>1, <2>3, KeepsTransitive
<1>4. CASE LeaseHeld(S, req.now) /\ ~(Stale(L, req) \/ Prior(L, req) # {})
  <2>1. ReserveOnIngress(S, req) = ReserveNew(A, Ingress, req)
    BY <1>4 DEF ReserveOnIngress
  <2> HIDE DEF A
  <2>2. Keeps(A, ReserveNew(A, Ingress, req))
    BY <1>1, <1>4, LedgersType, ReserveNewKeeps DEF Keeps, LeaseHeld
  <2> QED BY <1>1, <2>1, <2>2, KeepsTransitive
<1> QED BY <1>2, <1>3, <1>4

\* Evidence closes a grant or only expires its ledger.
LEMMA CloseGrantKeeps ==
  ASSUME NEW S, AggInv(S), NEW l \in Ledgers, NEW s, NEW ev \in Evident
  PROVE  Keeps(S, CloseGrant(S, l, s, ev))
<1> DEFINE E == Expire(S.ledger[l], ev.now)
           closing == ClosedBy(S, l, s, ev)
           g == CHOOSE h \in closing : TRUE
<1>1. LedgerInv(E) /\ E.next = S.ledger[l].next /\ ev.now \in Nat
  BY ExpireInv DEF AggInv, Continues, Evident
<1>2. CASE closing = {}
  BY <1>1, <1>2, ExpireOneKeeps DEF CloseGrant
<1>3. CASE closing # {}
  <2>1. CloseGrant(S, l, s, ev) = WithLedger(S, l, Reconcile(E, g, ev))
    BY <1>3 DEF CloseGrant
  <2>2. g \in E.grants /\ Closable(E, g, ev)
    BY <1>3 DEF ClosedBy
  <2> HIDE DEF E, g
  <2>3. LedgerInv(Reconcile(E, g, ev)) /\ Reconcile(E, g, ev).next = S.ledger[l].next
    BY <1>1, <2>2, ReconcileInv DEF Continues
  <2> QED BY <2>1, <2>3, WithLedgerKeeps
<1> QED BY <1>2, <1>3
-----------------------------------------------------------------------------
(* Handing ingress work over.                                              *)

\* A certificate is evidence.
LEMMA CertificateType ==
  ASSUME NEW g \in Grant, NEW observed \in Amounts, NEW now \in Nat
  PROVE  Certificate(g, observed, now) \in Evident
BY DEF Certificate, Evident, Grant

\* A handoff is a closure, a reservation and a closure.
LEMMA HandoffKeeps ==
  ASSUME NEW S, AggInv(S), NEW l \in Tenants, NEW g \in Grant, NEW r \in Revisions,
         NEW now \in Nat, NEW T \in HandoffStates(S, l, g, Authority[r].policies[l], now)
  PROVE  Keeps(S, T)
<1> DEFINE terms == Authority[r].policies[l]
           ev == Certificate(g, Nothing, now)
           req == MovedRequest(g, terms.revision, terms.restriction, now)
           closed == CloseGrant(S, Ingress, g.seq, ev)
           reserved == ReserveTenant(closed, l, req)
           full == Certificate(g, g.envelope, now)
<1>1. l \in Ledgers /\ Ingress \in Ledgers
  BY LedgersType
<1>2. ev \in Evident /\ full \in Evident
  BY CertificateType DEF Nothing, Amounts, Grant
<1>3. req \in Request
  BY <1>1, PoliciesType DEF MovedRequest, Request, Grant, Policy
<1>4. T = CloseGrant(reserved, l, closed.ledger[l].next, full)
  BY DEF HandoffStates
<1> HIDE DEF ev, req, full
<1>5. Keeps(S, closed)
  BY <1>1, <1>2, CloseGrantKeeps
<1> HIDE DEF closed
<1>6. Keeps(closed, reserved)
  BY <1>1, <1>3, <1>5, ReserveTenantKeeps DEF Keeps
<1> HIDE DEF reserved
<1>7. Keeps(reserved, T)
  BY <1>1, <1>2, <1>4, <1>6, CloseGrantKeeps DEF Keeps
<1> QED BY <1>5, <1>6, <1>7, KeepsTransitive

\* A repeated handoff expires two ledgers.
LEMMA HandoffRepeatedKeeps ==
  ASSUME NEW S, AggInv(S), NEW l \in Tenants, NEW g, NEW now \in Nat,
         NEW T \in HandoffRepeated(S, l, g, now)
  PROVE  Keeps(S, T)
<1> DEFINE M == WithLedger(S, Ingress, Expire(S.ledger[Ingress], now))
           N == WithLedger(M, l, Expire(M.ledger[l], now))
<1>1. l \in Ledgers /\ Ingress \in Ledgers /\ l # Ingress
  BY LedgersType, AuthorityAssumption DEF Tenants, Ingress
<1>2. T = N
  BY <1>1 DEF HandoffRepeated, WithLedger, AggInv, Aggregate
<1>3. Keeps(S, M)
  BY <1>1, ExpireOneKeeps
<1> HIDE DEF M
<1>4. Keeps(M, N)
  BY <1>1, <1>3, ExpireOneKeeps DEF Keeps
<1> QED BY <1>2, <1>3, <1>4, KeepsTransitive

\* What the moves of a batch add up to is a number.
LEMMA MovedType ==
  ASSUME NEW r, NEW transfers \in Transfers(r), NEW d \in Dims
  PROVE  Moved(transfers, d) \in Nat
<1> DEFINE block(i) == {i} \X (1 .. transfers[i].envelope[d])
           f == [i \in DOMAIN transfers |-> block(i)]
           Blocks == {block(i) : i \in DOMAIN transfers}
<1>1. PICK n \in Nat : DOMAIN transfers = 1 .. n
                       /\ \A i \in 1 .. n : transfers[i].envelope \in Amounts
  <2> DEFINE Envelopes == {w.envelope : w \in Demand[Ingress]}
             Revs == {Authority[r].policies[l].revision : l \in Tenants}
             Restrs == {Authority[r].policies[l].restriction : l \in Tenants}
             Form == [ledger : Tenants, seq : 1 .. MaxGrants, envelope : Envelopes,
                      revision : Revs, restriction : Restrs]
             Transfer == {t \in Form : SameTerms(t, Authority[r].policies[t.ledger])}
  <2>1. Demand[Ingress] \subseteq Wanted
    BY LimitAssumption, LedgersType
  <2>2. Envelopes \subseteq Amounts
    BY <2>1 DEF Wanted
  <2> HIDE DEF Envelopes, Revs, Restrs
  <2>3. \A t \in Transfer : t.envelope \in Amounts
    BY <2>2
  <2>4. transfers \in UNION {[1 .. n -> Transfer] : n \in 0 .. MaxTransfers}
    BY DEF Transfers, Envelopes, Revs, Restrs
  <2> HIDE DEF Transfer
  <2>5. PICK n \in 0 .. MaxTransfers : transfers \in [1 .. n -> Transfer]
    BY <2>4
  <2> QED BY <2>3, <2>5, LimitAssumption
<1>2. IsFiniteSet(DOMAIN transfers)
  BY <1>1, FS_Interval
<1>3. f \in Surjection(DOMAIN transfers, Blocks)
  BY DEF Surjection
<1>4. \A i \in DOMAIN transfers : IsFiniteSet(block(i))
  <2> SUFFICES ASSUME NEW i \in DOMAIN transfers PROVE IsFiniteSet(block(i))
    OBVIOUS
  <2> DEFINE m == transfers[i].envelope[d]
  <2>1. 1 \in Int /\ m \in Int
    BY <1>1 DEF Amounts
  <2> HIDE DEF m
  <2>2. IsFiniteSet({i}) /\ IsFiniteSet(1 .. m)
    BY <2>1, FS_Singleton, FS_Interval
  <2>3. IsFiniteSet({i} \X (1 .. m))
    BY <2>2, FS_Product
  <2> QED BY <2>3 DEF m
<1>5. \A B \in Blocks : IsFiniteSet(B)
  BY <1>4
<1> HIDE DEF f
<1>6. Moved(transfers, d) = Cardinality(UNION Blocks)
  BY DEF Moved
<1> HIDE DEF Blocks
<1>7. IsFiniteSet(Blocks)
  BY <1>2, <1>3, FS_Surjection
<1>8. IsFiniteSet(UNION Blocks)
  BY <1>5, <1>7, FS_UNION
<1> QED BY <1>6, <1>8, FS_CardinalityType

\* A batch handoff closes the ingress block for what it did not move.
LEMMA BatchKeeps ==
  ASSUME NEW S, AggInv(S), NEW g \in Grant, NEW r, NEW transfers \in Transfers(r),
         NEW now \in Nat, NEW T \in BatchStates(S, g, transfers, now)
  PROVE  Keeps(S, T)
<1> DEFINE left == [d \in Dims |-> g.envelope[d] - Moved(transfers, d)]
           ev == Certificate(g, left, now)
<1>1. T = CloseGrant(S, Ingress, g.seq, ev) /\ \A d \in Dims : left[d] >= 0
  BY DEF BatchStates
<1>2. \A d \in Dims : g.envelope[d] \in Nat /\ Moved(transfers, d) \in Nat
  BY MovedType DEF Grant, Amounts
<1>3. left \in Amounts
  BY <1>1, <1>2 DEF Amounts
<1> HIDE DEF left
<1>4. ev \in Evident
  BY <1>3, CertificateType
<1> HIDE DEF ev
<1> QED BY <1>1, <1>4, LedgersType, CloseGrantKeeps
-----------------------------------------------------------------------------
(* A new authority.                                                        *)

\* A newer authority keeps the ledgers and grants nothing; a blocked aggregate
\* stays blocked under the same revision.
LEMMA RenewInv ==
  ASSUME NEW S, AggInv(S), NEW r \in Revisions, NEW at \in Nat
  PROVE  /\ AggInv(Renew(S, r, at))
         /\ Renew(S, r, at).revision = r
         /\ Renew(S, r, at).blocked = (S.blocked /\ r = S.revision)
         /\ NothingGranted(S, Renew(S, r, at))
<1> DEFINE policies == Authority[r].policies
           F == [l \in Ledgers |->
                   IF SameTerms(policies[l], S.ledger[l].policy) THEN S.ledger[l]
                   ELSE Adopt(S.ledger[l], policies[l], at)]
           x == at + MaxAge
           b == S.blocked /\ r = S.revision
           T == [S EXCEPT !.ledger = F, !.revision = r, !.checkedAt = at,
                          !.expiresAt = x, !.blocked = b]
<1>1. \A l \in Ledgers : LedgerInv(F[l]) /\ F[l].next = S.ledger[l].next
  BY PoliciesType, AdoptInv DEF AggInv
<1>2. F \in [Ledgers -> Ledger]
  BY <1>1 DEF LedgerInv
<1>3. Renew(S, r, at) = T
  BY DEF Renew
<1>4. x \in Nat /\ b \in BOOLEAN /\ r \in Nat /\ S \in Aggregate
  BY LimitAssumption DEF AggInv, Aggregate, Revisions
<1> HIDE DEF F, x, b
<1>5. T \in Aggregate /\ T.ledger = F /\ T.revision = r /\ T.blocked = b
  BY <1>2, <1>4 DEF Aggregate
<1> HIDE DEF T
<1> QED BY <1>1, <1>3, <1>5 DEF AggInv, NothingGranted, b

\* A revocation blocks the aggregate and leaves its ledgers alone.
LEMMA RevokedInv ==
  ASSUME NEW S, AggInv(S), NEW r \in Revisions, NEW at \in Nat
  PROVE  /\ AggInv(Revoked(S, r, at))
         /\ Revoked(S, r, at).revision = r
         /\ Revoked(S, r, at).blocked
         /\ NothingGranted(S, Revoked(S, r, at))
<1> DEFINE T == Revoked(S, r, at)
<1>1. S \in Aggregate /\ r \in Nat
  BY DEF AggInv, Revisions
<1>2. T \in Aggregate /\ T.ledger = S.ledger /\ T.revision = r /\ T.blocked
  BY <1>1 DEF Revoked, Aggregate
<1> HIDE DEF T
<1>3. AggInv(T) /\ NothingGranted(S, T)
  BY <1>2 DEF AggInv, NothingGranted
<1> QED BY <1>2, <1>3 DEF T
-----------------------------------------------------------------------------
(* What callers send is well-typed.                                        *)

\* The times calls carry are numbers.
LEMMA TimesType == ASSUME clock \in Nat PROVE Times \subseteq Nat
BY DEF Times

\* The inductive invariant: beside the ledgers' own, D1 has published no
\* revision there is no authority for.
IInv == TypeOK /\ AggInv(agg) /\ Len(published) <= Len(Authority)

\* Whatever D1 has published is one of the authorities.
LEMMA KnownType == ASSUME IInv PROVE Known \subseteq Revisions
<1>1. Len(published) \in Nat /\ Len(Authority) \in Nat
  BY AuthorityAssumption DEF IInv, TypeOK
<1> QED BY <1>1 DEF IInv, Known, Revisions

\* The grants a caller can name are grants.
LEMMA GrantsType ==
  ASSUME IInv, NEW l \in Ledgers, NEW g \in agg.ledger[l].grants
  PROVE  g \in Grant
BY DEF IInv, TypeOK, Aggregate, Ledger

\* Whatever terms a caller read, it sends a request.
LEMMA RequestsType ==
  ASSUME IInv, NEW l \in Ledgers, NEW wanted \in SUBSET Wanted, NEW now \in Times,
         NEW req \in Requests(l, wanted, now)
  PROVE  req \in Request /\ req.now = now
<1>1. PICK w \in wanted, s \in {0} \cup {g.seq : g \in agg.ledger[l].grants},
           r \in {k \in Known : ~Authority[k].revoked} :
        req = [key |-> w.key, purpose |-> w.purpose, envelope |-> w.envelope,
               recovers |-> s, policy |-> Authority[r].policies[l].revision,
               restriction |-> Authority[r].policies[l].restriction, now |-> now]
  BY DEF Requests
<1>2. s \in Nat /\ now \in Nat
  BY TimesType, GrantsType DEF IInv, TypeOK, Grant
<1>3. w.key \in Keys /\ w.purpose \in Purposes /\ w.envelope \in Amounts
  BY DEF Wanted
<1>4. Authority[r].policies[l] \in Policy
  BY KnownType, PoliciesType
<1>5. Authority[r].policies[l].revision \in Nat /\ Authority[r].policies[l].restriction \in Nat
  BY <1>4 DEF Policy
<1> QED BY <1>1, <1>2, <1>3, <1>5 DEF Request

\* Whatever a caller observed, it sends evidence.
LEMMA EvidenceType ==
  ASSUME IInv, NEW l \in Ledgers, NEW g \in agg.ledger[l].grants, NEW now \in Times,
         NEW ev \in Evidence(l, g, now)
  PROVE  ev \in Evident /\ ev.now = now
<1>1. PICK proof \in Proofs, o \in Observations,
           k \in {g} \cup {h \in agg.ledger[l].grants : h.recovers = g.seq} :
        ev = [key |-> k.key, observed |-> IF proof = "expired" THEN g.envelope ELSE o,
              certified |-> proof # "measured", acknowledges |-> proof = "expired",
              recovery |-> IF k = g \/ proof = "measured" THEN 0 ELSE k.seq, now |-> now]
  BY DEF Evidence
<1>2. g \in Grant /\ k \in Grant
  BY GrantsType
<1>3. now \in Nat /\ o \in Amounts
  BY TimesType, LimitAssumption DEF IInv, TypeOK
<1> QED BY <1>1, <1>2, <1>3 DEF Evident, Grant
-----------------------------------------------------------------------------
(* Every step advances the aggregate.                                      *)

Advances(S, T) ==
  /\ AggInv(T)
  /\ T.revision >= S.revision
  /\ S.blocked /\ T.revision = S.revision => T.blocked /\ NothingGranted(S, T)

\* A transition under one authority advances the aggregate.
LEMMA KeepsAdvances ==
  ASSUME NEW S, AggInv(S), NEW T, Keeps(S, T)
  PROVE  Advances(S, T)
BY DEF Keeps, Advances, AggInv, Aggregate

\* So does a renewal that does not throw.
LEMMA RenewAdvances ==
  ASSUME NEW S, AggInv(S), NEW r \in Revisions, NEW at \in Nat, Renewable(S, r, at)
  PROVE  Advances(S, Renew(S, r, at))
<1> DEFINE T == Renew(S, r, at)
<1>1. /\ AggInv(T) /\ T.revision = r /\ T.blocked = (S.blocked /\ r = S.revision)
      /\ NothingGranted(S, T)
  BY RenewInv
<1>2. r >= S.revision
  BY DEF Renewable
<1> HIDE DEF T
<1>3. T.revision >= S.revision
  BY <1>1, <1>2
<1>4. S.blocked /\ T.revision = S.revision => T.blocked
  BY <1>1
<1>5. Advances(S, T)
  BY <1>1, <1>3, <1>4 DEF Advances
<1> QED BY <1>5 DEF T

\* A renewal followed by a transition under the new authority advances it.
LEMMA AdvancesThenKeeps ==
  ASSUME NEW S, NEW R, NEW T, Advances(S, R), Keeps(R, T)
  PROVE  Advances(S, T)
BY DEF Advances, Keeps, NothingGranted

\* refreshFromTrustedAuthority: a renewal, then two retirements.
LEMMA RefreshAdvances ==
  ASSUME IInv, NEW r \in Revisions, NEW at \in Times, RefreshRPC(r, at)
  PROVE  Advances(agg, agg')
<1> DEFINE R == Renew(agg, r, at)
<1>1. at \in Nat /\ AggInv(agg)
  BY TimesType DEF IInv, TypeOK
<1>2. Advances(agg, R)
  BY <1>1, RenewAdvances DEF RefreshRPC
<1>3. agg' \in RetireExpired(R, at)
  BY DEF RefreshRPC
<1> HIDE DEF R
<1>4. Keeps(R, agg')
  BY <1>1, <1>2, <1>3, RetireExpiredKeeps DEF Advances
<1> QED BY <1>2, <1>4, AdvancesThenKeeps

\* revokeFromTrustedAuthority.
LEMMA RevokeAdvances ==
  ASSUME IInv, NEW r \in Revisions, NEW at \in Times, RevokeRPC(r, at)
  PROVE  Advances(agg, agg')
<1>1. at \in Nat /\ AggInv(agg)
  BY TimesType DEF IInv, TypeOK
<1> QED BY <1>1, RevokedInv DEF RevokeRPC, Advances

\* reserveFromTrustedAuthority: retirements, then a reservation or its refusal.
LEMMA ReserveAdvances ==
  ASSUME IInv, NEW l \in Tenants, NEW now \in Times, NEW req \in Requests(l, Demand[l], now),
         ReserveRPC(l, req)
  PROVE  Advances(agg, agg')
<1>1. l \in Ledgers /\ AggInv(agg)
  BY LedgersType DEF IInv
<1>2. req \in Request
  BY <1>1, RequestsType, LimitAssumption
<1>3. PICK S \in RetireExpired(agg, req.now) : agg' = ReserveTenant(S, l, req) \/ agg' = S
  BY DEF ReserveRPC
<1>4. Keeps(agg, S)
  BY <1>1, <1>2, RetireExpiredKeeps DEF Request
<1>5. Keeps(S, ReserveTenant(S, l, req))
  BY <1>1, <1>2, <1>4, ReserveTenantKeeps DEF Keeps
<1>6. Keeps(agg, agg')
  BY <1>3, <1>4, <1>5, KeepsTransitive
<1> QED BY <1>1, <1>6, KeepsAdvances

\* reserveIngressFromTrustedAuthority.
LEMMA ReserveIngressAdvances ==
  ASSUME IInv, NEW now \in Times, NEW req \in Requests(Ingress, Demand[Ingress], now),
         ReserveIngressRPC(req)
  PROVE  Advances(agg, agg')
<1>1. AggInv(agg) /\ req \in Request
  BY LedgersType, RequestsType, LimitAssumption DEF IInv
<1>2. agg' = ReserveOnIngress(agg, req) \/ agg' = agg
  BY DEF ReserveIngressRPC
<1>3. Keeps(agg, agg')
  BY <1>1, <1>2, ReserveOnIngressKeeps, KeepsReflexive
<1> QED BY <1>1, <1>3, KeepsAdvances

\* Unverified reservation: a renewal, then a reservation; the count stays a number.
LEMMA ReserveUnverifiedAdvances ==
  ASSUME IInv, NEW r \in Revisions, NEW now \in Times,
         NEW req \in Requests(Ingress, AnonDemand, now), ReserveUnverifiedRPC(r, req)
  PROVE  Advances(agg, agg') /\ anon' \in [window : Nat, count : Nat]
<1> DEFINE R == Renew(agg, r, req.now)
<1>1. AggInv(agg) /\ req \in Request /\ req.now \in Nat
  BY LedgersType, RequestsType, LimitAssumption DEF IInv, Request
<1>2. Advances(agg, R)
  BY <1>1, RenewAdvances DEF ReserveUnverifiedRPC
<1>3. agg' = ReserveOnIngress(R, req)
  BY DEF ReserveUnverifiedRPC
<1>4. anon' \in [window : Nat, count : Nat]
  <2>1. WindowOf(req.now) \in Nat
    BY <1>1, LimitAssumption DEF WindowOf
  <2>2. Admitted(req.now) \in Nat
    BY DEF Admitted, IInv, TypeOK
  <2> DEFINE n == Admitted(req.now) + IF Prior(R.ledger[Ingress], req) # {} THEN 0 ELSE 1
  <2>3. n \in Nat
    BY <2>2
  <2>4. anon' = [window |-> WindowOf(req.now), count |-> n]
    BY DEF ReserveUnverifiedRPC
  <2> HIDE DEF n
  <2> QED BY <2>1, <2>3, <2>4
<1> HIDE DEF R
<1>5. Keeps(R, agg')
  BY <1>1, <1>2, <1>3, ReserveOnIngressKeeps DEF Advances
<1> QED BY <1>2, <1>4, <1>5, AdvancesThenKeeps

\* Both reconcile calls.
LEMMA ReconcileAdvances ==
  ASSUME IInv, NEW l \in Ledgers, NEW g \in agg.ledger[l].grants, NEW now \in Times,
         NEW ev \in Evidence(l, g, now), ReconcileRPC(l, g.seq, ev)
  PROVE  Advances(agg, agg')
<1>1. AggInv(agg) /\ ev \in Evident
  BY EvidenceType DEF IInv
<1>2. Keeps(agg, agg')
  BY <1>1, CloseGrantKeeps DEF ReconcileRPC
<1> QED BY <1>1, <1>2, KeepsAdvances

\* The single handoff: a renewal, then the handoff, a repetition or nothing.
LEMMA HandoffAdvances ==
  ASSUME IInv, NEW r \in Revisions, NEW l \in Tenants, NEW g \in agg.ledger[Ingress].grants,
         NEW now \in Times, HandoffRPC(r, l, g, now)
  PROVE  Advances(agg, agg')
<1> DEFINE R == Renew(agg, r, now)
<1>1. now \in Nat /\ AggInv(agg) /\ g \in Grant
  BY TimesType, LedgersType, GrantsType DEF IInv, TypeOK
<1>2. Advances(agg, R)
  BY <1>1, RenewAdvances DEF HandoffRPC
<1>3. \/ agg' = R
      \/ agg' \in HandoffStates(R, l, g, Authority[r].policies[l], now)
      \/ agg' \in HandoffRepeated(R, l, g, now)
  BY DEF HandoffRPC
<1> HIDE DEF R
<1>4. Keeps(R, agg')
  BY <1>1, <1>2, <1>3, HandoffKeeps, HandoffRepeatedKeeps, KeepsReflexive DEF Advances
<1> QED BY <1>2, <1>4, AdvancesThenKeeps

\* The batch handoff, first or repeated.
LEMMA HandoffBatchAdvances ==
  ASSUME IInv, NEW g \in agg.ledger[Ingress].grants, NEW r, NEW transfers \in Transfers(r),
         NEW now \in Times, HandoffBatchRPC(g, transfers, now)
  PROVE  Advances(agg, agg')
<1>1. now \in Nat /\ AggInv(agg) /\ g \in Grant /\ Ingress \in Ledgers
  BY TimesType, LedgersType, GrantsType DEF IInv, TypeOK
<1>2. \/ agg' \in BatchStates(agg, g, transfers, now)
      \/ agg' = WithLedger(agg, Ingress, Expire(agg.ledger[Ingress], now))
  BY DEF HandoffBatchRPC
<1>3. Keeps(agg, agg')
  BY <1>1, <1>2, BatchKeeps, ExpireOneKeeps
<1> QED BY <1>1, <1>3, KeepsAdvances
-----------------------------------------------------------------------------
(* The invariant is inductive.                                             *)

\* A new object satisfies the invariant.
LEMMA InitIInv == Init => IInv
<1> SUFFICES ASSUME Init PROVE IInv
  OBVIOUS
<1> DEFINE S == NewAggregate(1, 0)
           F == [l \in Ledgers |-> NewLedger(Authority[1].policies[l])]
<1>1. 1 \in Revisions /\ 1 <= Len(Authority)
  BY AuthorityAssumption DEF Revisions
<1>2. \A l \in Ledgers : LedgerInv(F[l])
  BY <1>1, PoliciesType, NewLedgerInv
<1>3. F \in [Ledgers -> Ledger]
  BY <1>2 DEF LedgerInv
<1>4. S = [ledger |-> F, revision |-> 1, checkedAt |-> 0, expiresAt |-> 0 + MaxAge,
           blocked |-> FALSE]
  BY DEF NewAggregate
<1> HIDE DEF F, S
<1>5. AggInv(S)
  BY <1>2, <1>3, <1>4, LimitAssumption DEF AggInv, Aggregate
<1>6. published = <<0>> /\ clock = 0 /\ anon = [window |-> 0, count |-> 0] /\ agg = S
  BY DEF Init, S
<1>7. TypeOK
  BY <1>5, <1>6 DEF TypeOK, AggInv
<1>8. Len(published) <= Len(Authority)
  BY <1>1, <1>6
<1> QED BY <1>5, <1>6, <1>7, <1>8 DEF IInv

\* Every RPC advances the aggregate and leaves clock and publications alone.
LEMMA CallAdvances ==
  ASSUME IInv, NEW now \in Times, VerifiedCall(now) \/ UnverifiedCall(now)
  PROVE  IInv' /\ Advances(agg, agg')
<1>1. ASSUME Env, Advances(agg, agg'), anon' \in [window : Nat, count : Nat]
      PROVE  IInv'
  <2>1. clock' = clock /\ published' = published /\ AggInv(agg')
    BY <1>1 DEF Env, Advances
  <2>2. TypeOK'
    BY <1>1, <2>1 DEF IInv, TypeOK, AggInv
  <2> QED BY <2>1, <2>2 DEF IInv
<1>2. anon' = anon => anon' \in [window : Nat, count : Nat]
  BY DEF IInv, TypeOK
<1>3. CASE \E r \in Revisions : RefreshRPC(r, now)
  <2>1. PICK r \in Revisions : RefreshRPC(r, now)
    BY <1>3
  <2> QED BY <1>1, <1>2, <2>1, RefreshAdvances DEF RefreshRPC
<1>4. CASE \E r \in Revisions : RevokeRPC(r, now)
  <2>1. PICK r \in Revisions : RevokeRPC(r, now)
    BY <1>4
  <2> QED BY <1>1, <1>2, <2>1, RevokeAdvances DEF RevokeRPC
<1>5. CASE \E l \in Tenants : \E req \in Requests(l, Demand[l], now) : ReserveRPC(l, req)
  <2>1. PICK l \in Tenants : \E req \in Requests(l, Demand[l], now) : ReserveRPC(l, req)
    BY <1>5
  <2>2. PICK req \in Requests(l, Demand[l], now) : ReserveRPC(l, req)
    BY <2>1
  <2> QED BY <1>1, <1>2, <2>2, ReserveAdvances DEF ReserveRPC
<1>6. CASE \E req \in Requests(Ingress, Demand[Ingress], now) : ReserveIngressRPC(req)
  <2>1. PICK req \in Requests(Ingress, Demand[Ingress], now) : ReserveIngressRPC(req)
    BY <1>6
  <2> QED BY <1>1, <1>2, <2>1, ReserveIngressAdvances DEF ReserveIngressRPC
<1>7. CASE \E l \in Ledgers : \E g \in agg.ledger[l].grants :
              \E ev \in Evidence(l, g, now) : ReconcileRPC(l, g.seq, ev)
  <2>1. PICK l \in Ledgers : \E g \in agg.ledger[l].grants :
               \E ev \in Evidence(l, g, now) : ReconcileRPC(l, g.seq, ev)
    BY <1>7
  <2>2. PICK g \in agg.ledger[l].grants : \E ev \in Evidence(l, g, now) : ReconcileRPC(l, g.seq, ev)
    BY <2>1
  <2>3. PICK ev \in Evidence(l, g, now) : ReconcileRPC(l, g.seq, ev)
    BY <2>2
  <2> QED BY <1>1, <1>2, <2>3, ReconcileAdvances DEF ReconcileRPC
<1>8. CASE \E r \in Revisions, l \in Tenants, g \in agg.ledger[Ingress].grants :
              "single" \in Handoffs /\ HandoffRPC(r, l, g, now)
  <2>1. PICK r \in Revisions, l \in Tenants, g \in agg.ledger[Ingress].grants :
               HandoffRPC(r, l, g, now)
    BY <1>8
  <2> QED BY <1>1, <1>2, <2>1, HandoffAdvances DEF HandoffRPC
<1>9. CASE \E g \in agg.ledger[Ingress].grants, r \in Known :
              \E transfers \in Transfers(r) :
                "batch" \in Handoffs /\ HandoffBatchRPC(g, transfers, now)
  <2>1. PICK g \in agg.ledger[Ingress].grants, r \in Known :
               \E transfers \in Transfers(r) : HandoffBatchRPC(g, transfers, now)
    BY <1>9
  <2>2. PICK transfers \in Transfers(r) : HandoffBatchRPC(g, transfers, now)
    BY <2>1
  <2> QED BY <1>1, <1>2, <2>2, HandoffBatchAdvances DEF HandoffBatchRPC
<1>10. CASE UnverifiedCall(now)
  <2>1. PICK r \in Revisions, req \in Requests(Ingress, AnonDemand, now) : ReserveUnverifiedRPC(r, req)
    BY <1>10 DEF UnverifiedCall
  <2> QED BY <1>1, <2>1, ReserveUnverifiedAdvances DEF ReserveUnverifiedRPC
<1> QED BY <1>3, <1>4, <1>5, <1>6, <1>7, <1>8, <1>9, <1>10 DEF VerifiedCall

\* So does every step, if only by leaving it alone.
LEMMA NextAdvances ==
  ASSUME IInv, Next
  PROVE  IInv' /\ Advances(agg, agg')
<1>1. AggInv(agg) /\ Advances(agg, agg)
  BY KeepsReflexive, KeepsAdvances DEF IInv
<1>2. CASE Tick
  <2>1. clock' \in Nat /\ published' = published /\ agg' = agg /\ anon' = anon
    BY <1>2 DEF Tick, IInv, TypeOK
  <2>2. TypeOK' /\ AggInv(agg')
    BY <1>1, <2>1 DEF IInv, TypeOK
  <2> QED BY <1>1, <2>1, <2>2 DEF IInv
<1>3. CASE Publish
  <2>1. /\ published' = Append(published, clock) /\ Len(published) < Len(Authority)
        /\ clock' = clock /\ agg' = agg /\ anon' = anon
    BY <1>3 DEF Publish
  <2>2. published' \in Seq(Nat) /\ Len(published') = Len(published) + 1
    BY <2>1 DEF IInv, TypeOK
  <2>3. Len(published) \in Nat /\ Len(Authority) \in Nat
    BY AuthorityAssumption DEF IInv, TypeOK
  <2>4. Len(published') <= Len(Authority)
    BY <2>1, <2>2, <2>3
  <2>5. TypeOK' /\ AggInv(agg')
    BY <1>1, <2>1, <2>2 DEF IInv, TypeOK
  <2> QED BY <1>1, <2>1, <2>4, <2>5 DEF IInv
<1>4. CASE \E now \in Times : VerifiedCall(now) \/ UnverifiedCall(now)
  BY <1>4, CallAdvances
<1> QED BY <1>2, <1>3, <1>4 DEF Next

\* Every step keeps the invariant.
LEMMA StepIInv == IInv /\ [Next]_vars => IInv'
<1>1. CASE UNCHANGED vars
  BY <1>1 DEF vars, IInv, TypeOK
<1> QED BY <1>1, NextAdvances

\* The inductive invariant holds in every reachable state.
THEOREM Invariance == Spec => []IInv
BY InitIInv, StepIInv, PTL DEF Spec
-----------------------------------------------------------------------------
(* What follows from it.                                                   *)

\* The stored aggregate stays what the code's validators accept
\* (isBudgetOwnerAggregateState), whatever calls arrive in whatever order.
THEOREM TypeCorrect == Spec => []TypeOK
<1>1. IInv => TypeOK
  BY DEF IInv
<1> QED BY <1>1, Invariance, PTL

\* Redelivered, late and concurrent reservations never give one identity two
\* grants of a purpose.
THEOREM IdentityUnique == Spec => []OneGrantPerIdentity
<1>1. IInv => OneGrantPerIdentity
  BY DEF IInv, AggInv, LedgerInv, Identified, OneGrantPerIdentity
<1> QED BY <1>1, Invariance, PTL

\* No grant of earlier terms stays spendable in the coordinator, even when the
\* call that carries the new terms overtakes others.
THEOREM EarlierTermsFenced == Spec => []ReservedUnderCurrentTerms
<1>1. IInv => ReservedUnderCurrentTerms
  BY DEF IInv, AggInv, LedgerInv, TermsCurrent, ReservedUnderCurrentTerms
<1> QED BY <1>1, Invariance, PTL

\* Pruning never drops an allocation a grant still needs.
THEOREM CompactionNeverFails == Spec => []CompactionAvailable
<1>1. IInv => CompactionAvailable
  BY DEF IInv, AggInv, LedgerInv, Drawable, CompactionAvailable, Open
<1> QED BY <1>1, Invariance, PTL

\* After a revocation no call of the same or an earlier authority reopens the
\* aggregate or is granted anything.
THEOREM RevocationHolds == Spec => RevocationSticks
<1> DEFINE Sticks == /\ agg'.revision >= agg.revision
                     /\ agg.blocked /\ agg'.revision = agg.revision =>
                          agg'.blocked /\ \A l \in Ledgers : NewGrants(l) = {}
<1>1. ASSUME IInv, AggInv(agg'), NothingGranted(agg, agg'), NEW l \in Ledgers
      PROVE  NewGrants(l) = {}
  <2>1. LedgerInv(agg'.ledger[l]) /\ agg'.ledger[l].next = agg.ledger[l].next
    BY <1>1 DEF AggInv, NothingGranted
  <2>2. \A g \in agg'.ledger[l].grants :
          g.seq \in Nat /\ agg.ledger[l].next \in Nat /\ g.seq < agg.ledger[l].next
    BY <2>1 DEF LedgerInv, Numbered, Ledger, Grant
  <2> QED BY <2>2 DEF NewGrants
<1>2. IInv /\ Next => Sticks
  <2> SUFFICES ASSUME IInv, Next PROVE Sticks
    OBVIOUS
  <2>1. Advances(agg, agg')
    BY NextAdvances
  <2> QED BY <1>1, <2>1 DEF Advances
<1>3. IInv /\ [Next]_vars => [Sticks]_vars
  BY <1>2
<1> QED BY <1>3, Invariance, PTL DEF Spec, RevocationSticks

=============================================================================
