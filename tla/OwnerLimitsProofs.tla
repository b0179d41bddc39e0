-------------------------- MODULE OwnerLimitsProofs --------------------------
(***************************************************************************)
(* What the coordinator's limits hold back, for any number of tenants, any *)
(* sequence of authorities and any bounds: the slots all ledgers share,    *)
(* the stop after an overrun, and the lease of the authority that approved *)
(* a grant.  They rest on callers that do not use an identity once its     *)
(* grant was closed and has expired (StaleRetries = FALSE): such a call    *)
(* passes neither the owner's checks nor the clip to the lease.            *)
(***************************************************************************)
EXTENDS OwnerAggregateProofs

\* Transition S -> T grants nothing: every grant is a later version of one there
\* was, and a defect stays.
Quiet(S, T) ==
  \A l \in Ledgers : /\ Aged(S.ledger[l], T.ledger[l])
                     /\ T.ledger[l].next = S.ledger[l].next
                     /\ S.ledger[l].defect => T.ledger[l].defect

\* A rejected call grants nothing.
LEMMA QuietReflexive == ASSUME NEW S PROVE Quiet(S, S)
BY FewerAged DEF Quiet

\* Nor do transitions made one after the other.
LEMMA QuietTransitive ==
  ASSUME NEW S, NEW T, NEW U, Quiet(S, T), Quiet(T, U)
  PROVE  Quiet(S, U)
BY AgedTransitive DEF Quiet

\* A defect is never forgotten by a transition that grants nothing.
LEMMA QuietDefective == ASSUME NEW S, NEW T, Quiet(S, T), Defective(S) PROVE Defective(T)
BY DEF Quiet, Defective

\* One ledger may be replaced by one that granted nothing.
LEMMA WithLedgerQuiet ==
  ASSUME NEW S, AggInv(S), NEW l \in Ledgers, NEW L, Aged(S.ledger[l], L),
         L.next = S.ledger[l].next, S.ledger[l].defect => L.defect
  PROVE  Quiet(S, WithLedger(S, l, L))
<1> DEFINE T == WithLedger(S, l, L)
<1>1. \A k \in Ledgers : T.ledger[k] = IF k = l THEN L ELSE S.ledger[k]
  BY DEF WithLedger, AggInv, Aggregate
<1> HIDE DEF T
<1>2. \A k \in Ledgers : Aged(S.ledger[k], S.ledger[k])
  BY FewerAged
<1>3. Quiet(S, T)
  BY <1>1, <1>2 DEF Quiet
<1> QED BY <1>3 DEF T

\* Expiry grants nothing, in one ledger or in all.
LEMMA ExpireOneQuiet ==
  ASSUME NEW S, AggInv(S), NEW l \in Ledgers, NEW now \in Nat
  PROVE  Quiet(S, WithLedger(S, l, Expire(S.ledger[l], now)))
<1>1. LedgerInv(S.ledger[l])
  BY DEF AggInv
<1>2. /\ Aged(S.ledger[l], Expire(S.ledger[l], now))
      /\ Continues(S.ledger[l], Expire(S.ledger[l], now))
  BY <1>1, ExpireInv, ExpireAged
<1> QED BY <1>2, WithLedgerQuiet DEF Continues

\* Every ledger may expire at once.
LEMMA ExpireAllQuiet ==
  ASSUME NEW S, AggInv(S), NEW now \in Nat
  PROVE  Quiet(S, ExpireAll(S, now))
<1>1. \A l \in Ledgers : /\ Aged(S.ledger[l], Expire(S.ledger[l], now))
                         /\ Continues(S.ledger[l], Expire(S.ledger[l], now))
  BY ExpireInv, ExpireAged DEF AggInv
<1>2. \A l \in Ledgers : ExpireAll(S, now).ledger[l] = Expire(S.ledger[l], now)
  BY DEF ExpireAll, AggInv, Aggregate
<1> QED BY <1>1, <1>2 DEF Quiet, Continues

\* Retirement frees a slot and settles nothing.
LEMMA RetireOneQuiet ==
  ASSUME NEW S, AggInv(S), NEW now \in Nat
  PROVE  /\ Quiet(S, RetireOne(S, now))
         /\ \A l \in Ledgers : \A h \in RetireOne(S, now).ledger[l].grants :
              h.status = "reconciled" => h \in S.ledger[l].grants
<1>1. CASE RetireOne(S, now) = S
  BY <1>1, QuietReflexive
<1>2. CASE RetireOne(S, now) # S
  <2>1. PICK l \in Ledgers : \E g \in Retirable(S.ledger[l], now) :
               RetireOne(S, now) = RetireSome(S, l, g, now)
    BY <1>2, RetireOneCloses
  <2>2. PICK g \in Retirable(S.ledger[l], now) : RetireOne(S, now) = RetireSome(S, l, g, now)
    BY <2>1
  <2> DEFINE L == S.ledger[l]
             h == [g EXCEPT !.status = "uncertain"]
             C == Compact(L, h, now)
  <2>3. LedgerInv(L)
    BY DEF AggInv
  <2>4. g \in L.grants /\ h \in Grant /\ SameGrant(g, h) /\ h.status = "uncertain"
    BY <2>3, RetiredVersion
  <2>5. RetireOne(S, now) = WithLedger(S, l, C)
    BY <2>2 DEF RetireSome
  <2>6. L = S.ledger[l]
    BY DEF L
  <2> HIDE DEF h, L
  <2>7. /\ Aged(L, C) /\ Continues(L, C)
        /\ \A k \in C.grants : k.status = "reconciled" => k \in L.grants
    BY <2>3, <2>4, CompactInv, CompactAged
  <2> HIDE DEF C
  <2>8. \A k \in Ledgers : WithLedger(S, l, C).ledger[k] = IF k = l THEN C ELSE S.ledger[k]
    BY DEF WithLedger, AggInv, Aggregate
  <2>9. Quiet(S, WithLedger(S, l, C))
    BY <2>6, <2>7, WithLedgerQuiet DEF Continues
  <2> QED BY <2>5, <2>6, <2>7, <2>8, <2>9
<1> QED BY <1>1, <1>2

\* So do the two retirements of a call.
LEMMA RetireExpiredQuiet ==
  ASSUME NEW S, AggInv(S), NEW now \in Nat, NEW T \in RetireExpired(S, now)
  PROVE  /\ Quiet(S, T)
         /\ \A l \in Ledgers : \A h \in T.ledger[l].grants :
              h.status = "reconciled" => h \in S.ledger[l].grants
<1> DEFINE M == RetireOne(S, now)
<1>1. /\ AggInv(M) /\ Quiet(S, M)
      /\ \A l \in Ledgers : \A h \in M.ledger[l].grants :
           h.status = "reconciled" => h \in S.ledger[l].grants
  BY RetireOneKeeps, RetireOneQuiet DEF Keeps
<1>2. T = RetireOne(M, now)
  BY DEF RetireExpired
<1> HIDE DEF M
<1>3. /\ Quiet(M, T)
      /\ \A l \in Ledgers : \A h \in T.ledger[l].grants :
           h.status = "reconciled" => h \in M.ledger[l].grants
  BY <1>1, <1>2, RetireOneQuiet
<1> QED BY <1>1, <1>3, QuietTransitive

\* Closing a grant grants nothing.
LEMMA CloseGrantQuiet ==
  ASSUME NEW S, AggInv(S), NEW l \in Ledgers, NEW s, NEW ev \in Evident
  PROVE  Quiet(S, CloseGrant(S, l, s, ev))
<1> DEFINE E == Expire(S.ledger[l], ev.now)
           closing == ClosedBy(S, l, s, ev)
           g == CHOOSE h \in closing : TRUE
<1>1. LedgerInv(S.ledger[l]) /\ ev.now \in Nat
  BY DEF AggInv, Evident
<1>2. LedgerInv(E) /\ Aged(S.ledger[l], E) /\ Continues(S.ledger[l], E)
  BY <1>1, ExpireInv, ExpireAged
<1>3. CASE closing = {}
  BY <1>1, <1>3, ExpireOneQuiet DEF CloseGrant
<1>4. CASE closing # {}
  <2>1. CloseGrant(S, l, s, ev) = WithLedger(S, l, Reconcile(E, g, ev))
    BY <1>4 DEF CloseGrant
  <2>2. g \in E.grants /\ Closable(E, g, ev)
    BY <1>4 DEF ClosedBy
  <2> HIDE DEF E, g
  <2>3. Continues(E, Reconcile(E, g, ev)) /\ Aged(E, Reconcile(E, g, ev))
    BY <1>2, <2>2, ReconcileInv, ReconcileAged
  <2> DEFINE C == Reconcile(E, g, ev)
  <2> HIDE DEF C
  <2>4. Aged(S.ledger[l], C) /\ C.next = S.ledger[l].next /\ (S.ledger[l].defect => C.defect)
    BY <1>2, <2>3, AgedTransitive DEF Continues, C
  <2> QED BY <2>1, <2>4, WithLedgerQuiet DEF C
<1> QED BY <1>3, <1>4

\* Nor does a new authority: it fences.
LEMMA RenewQuiet ==
  ASSUME NEW S, AggInv(S), NEW r \in Revisions, NEW at \in Nat
  PROVE  Quiet(S, Renew(S, r, at))
<1> DEFINE T == Renew(S, r, at)
           policies == Authority[r].policies
<1>1. \A l \in Ledgers : T.ledger[l] = IF SameTerms(policies[l], S.ledger[l].policy)
                                       THEN S.ledger[l]
                                       ELSE Adopt(S.ledger[l], policies[l], at)
  BY DEF Renew, AggInv, Aggregate
<1>2. \A l \in Ledgers : /\ Aged(S.ledger[l], Adopt(S.ledger[l], policies[l], at))
                         /\ Adopt(S.ledger[l], policies[l], at).next = S.ledger[l].next
                         /\ S.ledger[l].defect => Adopt(S.ledger[l], policies[l], at).defect
  BY PoliciesType, AdoptInv, AdoptAged DEF AggInv
<1>3. \A l \in Ledgers : Aged(S.ledger[l], S.ledger[l])
  BY FewerAged
<1> HIDE DEF T
<1>4. Quiet(S, T)
  BY <1>1, <1>2, <1>3 DEF Quiet
<1> QED BY <1>4 DEF T
-----------------------------------------------------------------------------
(* A grant.                                                                *)

\* T is M with one more grant, which the owner checked and clipped to the lease.
OneGrant(M, T, l, req) ==
  /\ T = WithLedger(M, l, AddGrant(M.ledger[l], req, {M.expiresAt}))
  /\ Prior(M.ledger[l], req) = {}
  /\ ~Defective(M)
  /\ OwnerSlotFree(M, req)

\* A reservation grants nothing, or one grant at last.
MayGrant(S, T, l, req) == \E M : Keeps(S, M) /\ Quiet(S, M) /\ (T = M \/ OneGrant(M, T, l, req))

\* Past the owner's checks a reservation is granted by the ledger, or not.
LEMMA ReserveNewGrants ==
  ASSUME NEW S, AggInv(S), ~S.blocked, NEW l \in Ledgers, NEW req \in Request
  PROVE  MayGrant(S, ReserveNew(S, l, req), l, req)
<1> DEFINE L == S.ledger[l]
           clip == {S.expiresAt}
           T == ReserveNew(S, l, req)
<1>1. LedgerInv(L)
  BY DEF AggInv
<1>2. Keeps(S, T) /\ Keeps(S, S)
  BY ReserveNewKeeps, KeepsReflexive
<1>3. CASE ~OwnerGrantable(S, l, req)
  BY <1>2, <1>3, QuietReflexive DEF ReserveNew, MayGrant
<1>4. CASE OwnerGrantable(S, l, req) /\ (Stale(L, req) \/ Prior(L, req) # {})
  <2>1. T = WithLedger(S, l, Reserve(L, req, clip))
    BY <1>4 DEF ReserveNew
  <2> HIDE DEF T
  <2>2. Quiet(S, T)
    BY <1>1, <1>4, <2>1, ReserveAged, WithLedgerQuiet
  <2> QED BY <1>2, <2>2 DEF MayGrant, T
<1>5. CASE OwnerGrantable(S, l, req) /\ ~Stale(L, req) /\ Prior(L, req) = {}
  <2>1. T = WithLedger(S, l, Reserve(L, req, clip))
    BY <1>5 DEF ReserveNew
  <2>2. ~Redeliverable(L, req)
    BY <1>5 DEF Redeliverable
  <2>3. Reserve(L, req, clip) = AddGrant(L, req, clip) \/ Reserve(L, req, clip) = L
    BY <2>2 DEF Reserve
  <2>4. CASE Reserve(L, req, clip) = AddGrant(L, req, clip)
    <3>1. OneGrant(S, T, l, req)
      BY <1>5, <2>1, <2>4 DEF OneGrant, OwnerGrantable
    <3> QED BY <1>2, <3>1, QuietReflexive DEF MayGrant
  <2>5. CASE Reserve(L, req, clip) = L
    <3>1. T = WithLedger(S, l, L)
      BY <2>1, <2>5
    <3>2. Aged(L, L)
      BY FewerAged
    <3> HIDE DEF T
    <3>3. Quiet(S, T)
      BY <3>1, <3>2, WithLedgerQuiet
    <3> QED BY <1>2, <3>3 DEF MayGrant, T
  <2> QED BY <2>3, <2>4, <2>5
<1> QED BY <1>3, <1>4, <1>5

\* Transitions that grant nothing may come before.
LEMMA QuietThenGrants ==
  ASSUME NEW S, NEW R, NEW T, NEW l, NEW req, Keeps(S, R), Quiet(S, R), MayGrant(R, T, l, req)
  PROVE  MayGrant(S, T, l, req)
<1>1. PICK M : Keeps(R, M) /\ Quiet(R, M) /\ (T = M \/ OneGrant(M, T, l, req))
  BY DEF MayGrant
<1>2. Keeps(S, M) /\ Quiet(S, M)
  BY <1>1, KeepsTransitive, QuietTransitive
<1> QED BY <1>1, <1>2 DEF MayGrant

\* An identity that is not used late is still known after expiry.
LEMMA KnownAfterExpiry ==
  ASSUME NEW L, LedgerInv(L), NEW req \in Request, Prior(L, req) # {}, ~Late(L, req)
  PROVE  Prior(Expire(L, req.now), req) # {}
<1>1. PICK g \in L.grants : SameIdentity(g, req)
  BY DEF Prior
<1>2. ~(g.compacted /\ g.status = "reconciled" /\ req.now >= g.expiresAt)
  BY <1>1 DEF Late, Prior
<1>3. g \in Grant /\ req.now \in Nat
  BY DEF LedgerInv, Ledger, Request
<1>4. ~g.compacted \/ g.status # "reconciled" \/ req.now < g.expiresAt
  BY <1>2, <1>3 DEF Grant
<1>5. ExpireGrant(g, req.now) \in Expire(L, req.now).grants
  BY <1>3, <1>4, ExpireAged
<1>6. SameIdentity(ExpireGrant(g, req.now), req)
  BY <1>1, <1>3 DEF ExpireGrant, SameIdentity, Grant
<1> QED BY <1>5, <1>6 DEF Prior

\* Only a late use of an identity would pass the owner's checks unseen.
LEMMA ReserveTenantGrants ==
  ASSUME NEW S, AggInv(S), NEW l \in Ledgers, NEW req \in Request, ~Late(S.ledger[l], req)
  PROVE  MayGrant(S, ReserveTenant(S, l, req), l, req)
<1> DEFINE L == S.ledger[l]
           E == Expire(L, req.now)
           A == ExpireAll(S, req.now)
           T == ReserveTenant(S, l, req)
<1>1. req.now \in Nat /\ LedgerInv(L)
  BY DEF Request, AggInv
<1>2. LedgerInv(E) /\ Aged(L, E) /\ Continues(L, E)
  BY <1>1, ExpireInv, ExpireAged
<1>3. Keeps(S, T)
  BY ReserveTenantKeeps
<1>4. CASE ~LeaseHeld(S, req.now)
  <2>1. T = WithLedger(S, l, E)
    BY <1>4 DEF ReserveTenant
  <2> HIDE DEF T
  <2>2. Quiet(S, T)
    BY <1>1, <2>1, ExpireOneQuiet
  <2> QED BY <1>3, <2>2 DEF MayGrant, T
<1>5. CASE LeaseHeld(S, req.now) /\ (Stale(L, req) \/ Prior(L, req) # {})
  <2>1. T = WithLedger(S, l, Reserve(E, req, {}))
    BY <1>5 DEF ReserveTenant
  <2>2. Stale(E, req) \/ Prior(E, req) # {}
    <3> HIDE DEF E
    <3>1. Stale(L, req) => Stale(E, req)
      BY <1>2 DEF Stale, Continues
    <3> QED BY <1>1, <1>5, <3>1, KnownAfterExpiry DEF E
  <2> HIDE DEF E, T
  <2> DEFINE N == Reserve(E, req, {})
  <2>3. Aged(E, N) /\ N.next = E.next /\ (E.defect => N.defect)
    BY <1>2, <2>2, ReserveAged
  <2> HIDE DEF N
  <2>4. Aged(L, N) /\ N.next = L.next /\ (L.defect => N.defect)
    BY <1>2, <2>3, AgedTransitive DEF Continues
  <2>5. Quiet(S, T)
    BY <2>1, <2>4, WithLedgerQuiet DEF N
  <2> QED BY <1>3, <2>5 DEF MayGrant, T
<1>6. CASE LeaseHeld(S, req.now) /\ ~(Stale(L, req) \/ Prior(L, req) # {})
  <2>1. T = ReserveNew(A, l, req)
    BY <1>6 DEF ReserveTenant
  <2>2. Keeps(S, A) /\ Quiet(S, A) /\ ~A.blocked /\ AggInv(A)
    BY <1>1, <1>6, ExpireAllKeeps, ExpireAllQuiet DEF Keeps, LeaseHeld
  <2> HIDE DEF A, T
  <2>3. MayGrant(A, T, l, req)
    BY <2>1, <2>2, ReserveNewGrants
  <2> QED BY <2>2, <2>3, QuietThenGrants DEF T
<1> QED BY <1>4, <1>5, <1>6

\* The ingress ledger looks for the identity after expiry: nothing is late there.
LEMMA ReserveOnIngressGrants ==
  ASSUME NEW S, AggInv(S), NEW req \in Request
  PROVE  MayGrant(S, ReserveOnIngress(S, req), Ingress, req)
<1> DEFINE A == ExpireAll(S, req.now)
           L == A.ledger[Ingress]
           T == ReserveOnIngress(S, req)
<1>1. Keeps(S, A) /\ Quiet(S, A) /\ AggInv(A)
  BY ExpireAllKeeps, ExpireAllQuiet DEF Request, Keeps
<1>2. Keeps(S, T)
  BY ReserveOnIngressKeeps
<1>3. CASE ~LeaseHeld(S, req.now)
  BY <1>1, <1>3 DEF ReserveOnIngress, MayGrant
<1>4. CASE LeaseHeld(S, req.now) /\ (Stale(L, req) \/ Prior(L, req) # {})
  <2>1. T = WithLedger(A, Ingress, Reserve(L, req, {}))
    BY <1>4 DEF ReserveOnIngress
  <2>2. LedgerInv(L)
    BY <1>1, LedgersType DEF AggInv
  <2> HIDE DEF A, T
  <2> DEFINE N == Reserve(L, req, {})
  <2>3. Aged(L, N) /\ N.next = L.next /\ (L.defect => N.defect)
    BY <1>4, <2>2, ReserveAged
  <2> HIDE DEF N
  <2>4. Quiet(A, T)
    BY <1>1, <2>1, <2>3, LedgersType, WithLedgerQuiet DEF N
  <2>5. Quiet(S, T)
    BY <1>1, <2>4, QuietTransitive
  <2> QED BY <1>2, <2>5 DEF MayGrant, T
<1>5. CASE LeaseHeld(S, req.now) /\ ~(Stale(L, req) \/ Prior(L, req) # {})
  <2>1. T = ReserveNew(A, Ingress, req)
    BY <1>5 DEF ReserveOnIngress
  <2>2. ~A.blocked
    BY <1>1, <1>5 DEF Keeps, LeaseHeld
  <2> HIDE DEF A, T
  <2>3. MayGrant(A, T, Ingress, req)
    BY <1>1, <2>1, <2>2, LedgersType, ReserveNewGrants
  <2> QED BY <1>1, <2>3, QuietThenGrants DEF T
<1> QED BY <1>3, <1>4, <1>5
-----------------------------------------------------------------------------
(* Counting slots.  A slot is counted by the ledger and the number of the  *)
(* grant that holds it, which no later version of the grant changes.       *)

SlotsOf(O) == {<<o[1], o[2].seq>> : o \in O}

\* Aggregate S is within the reservation slots of the owner.
Within(S) ==
  /\ Cardinality(OpenGrants(S)) <= MaxReservations
  /\ Cardinality(OpenNewWork(S)) <= MaxReservations - 1

\* An open grant is one of some ledger.
LEMMA OpenGrantsOf ==
  ASSUME NEW S
  PROVE  /\ \A o \in OpenGrants(S) : o[1] \in Ledgers /\ o[2] \in Open(S.ledger[o[1]])
                                     /\ o = <<o[1], o[2]>>
         /\ \A l \in Ledgers : \A g \in Open(S.ledger[l]) : <<l, g>> \in OpenGrants(S)
BY DEF OpenGrants

\* Grants of the same number in the same ledger are the same.
LEMMA SlotsCounted ==
  ASSUME NEW S, AggInv(S), NEW O \in SUBSET OpenGrants(S)
  PROVE  /\ IsFiniteSet(O) /\ IsFiniteSet(SlotsOf(O))
         /\ Cardinality(SlotsOf(O)) = Cardinality(O)
<1> DEFINE Numbers(l) == {l} \X (1 .. S.ledger[l].next)
           All == {Numbers(l) : l \in Ledgers}
           n == [l \in Ledgers |-> Numbers(l)]
           f == [o \in O |-> <<o[1], o[2].seq>>]
<1>1. \A o \in O : /\ o[1] \in Ledgers /\ o[2] \in S.ledger[o[1]].grants
                   /\ o = <<o[1], o[2]>>
  BY OpenGrantsOf DEF Open
<1>2. \A l \in Ledgers : /\ S.ledger[l].next \in Nat
                         /\ \A g, h \in S.ledger[l].grants :
                              /\ g.seq \in 1 .. S.ledger[l].next
                              /\ g.seq = h.seq => g = h
  BY DEF AggInv, LedgerInv, Numbered, Ledger, Grant
<1>3. IsFiniteSet(Ledgers)
  <2>1. 1 \in Int /\ NumTenants \in Int
    BY AuthorityAssumption
  <2>2. IsFiniteSet(1 .. NumTenants) /\ IsFiniteSet({Ingress})
    BY <2>1, FS_Interval, FS_Singleton
  <2> QED BY <2>2, FS_Union DEF Ledgers, Tenants
<1>4. \A l \in Ledgers : IsFiniteSet(Numbers(l))
  <2> SUFFICES ASSUME NEW l \in Ledgers PROVE IsFiniteSet(Numbers(l))
    OBVIOUS
  <2> DEFINE m == S.ledger[l].next
  <2>1. 1 \in Int /\ m \in Int
    BY <1>2
  <2> HIDE DEF m
  <2>2. IsFiniteSet({l}) /\ IsFiniteSet(1 .. m)
    BY <2>1, FS_Singleton, FS_Interval
  <2>3. IsFiniteSet({l} \X (1 .. m))
    BY <2>2, FS_Product
  <2> QED BY <2>3 DEF m
<1>5. IsFiniteSet(UNION All)
  <2>1. n \in Surjection(Ledgers, All)
    BY DEF Surjection
  <2>2. \A B \in All : IsFiniteSet(B)
    BY <1>4
  <2> HIDE DEF n, All
  <2>3. IsFiniteSet(All)
    BY <1>3, <2>1, FS_Surjection
  <2> QED BY <2>2, <2>3, FS_UNION
<1>6. SlotsOf(O) \subseteq UNION All
  <2> SUFFICES ASSUME NEW o \in O PROVE <<o[1], o[2].seq>> \in UNION All
    BY DEF SlotsOf
  <2>1. <<o[1], o[2].seq>> \in Numbers(o[1])
    BY <1>1, <1>2
  <2> QED BY <1>1, <2>1
<1> HIDE DEF All
<1>7. IsFiniteSet(SlotsOf(O))
  BY <1>5, <1>6, FS_Subset
<1>8. f \in Injection(O, SlotsOf(O)) /\ f \in Surjection(O, SlotsOf(O))
  <2>1. f \in [O -> SlotsOf(O)] /\ \A o \in O : f[o] = <<o[1], o[2].seq>>
    BY DEF SlotsOf
  <2>2. \A o, q \in O : f[o] = f[q] => o = q
    <3> SUFFICES ASSUME NEW o \in O, NEW q \in O, f[o] = f[q] PROVE o = q
      OBVIOUS
    <3>1. o[1] = q[1] /\ o[2].seq = q[2].seq
      BY <2>1
    <3>2. o[2] = q[2]
      BY <1>1, <1>2, <3>1
    <3> QED BY <1>1, <3>1, <3>2
  <2>3. \A s \in SlotsOf(O) : \E o \in O : f[o] = s
    BY <2>1 DEF SlotsOf
  <2> HIDE DEF f
  <2> QED BY <2>1, <2>2, <2>3 DEF Injection, Surjection, IsInjective
<1> HIDE DEF f
<1> QED BY <1>7, <1>8, FS_Injection

\* Where every open grant is a later version of one that was, no slot is taken.
LEMMA QuietWithin ==
  ASSUME NEW S, NEW T, AggInv(S), AggInv(T), Quiet(S, T), Within(S)
  PROVE  Within(T)
<1>1. \A o \in OpenGrants(T) : \E q \in OpenGrants(S) :
        q[1] = o[1] /\ q[2].seq = o[2].seq /\ q[2].purpose = o[2].purpose
  <2> SUFFICES ASSUME NEW o \in OpenGrants(T)
               PROVE  \E q \in OpenGrants(S) :
                        q[1] = o[1] /\ q[2].seq = o[2].seq /\ q[2].purpose = o[2].purpose
    OBVIOUS
  <2>1. o[1] \in Ledgers /\ o[2] \in T.ledger[o[1]].grants /\ ~o[2].compacted
    BY OpenGrantsOf DEF Open
  <2>2. PICK g \in S.ledger[o[1]].grants : Later(g, o[2])
    BY <2>1 DEF Quiet, Aged
  <2>3. g \in Open(S.ledger[o[1]])
    BY <2>1, <2>2 DEF Later, Open
  <2>4. <<o[1], g>> \in OpenGrants(S)
    BY <2>1, <2>3, OpenGrantsOf
  <2> QED BY <2>2, <2>4 DEF Later, SameGrant
<1>2. /\ SlotsOf(OpenGrants(T)) \subseteq SlotsOf(OpenGrants(S))
      /\ SlotsOf(OpenNewWork(T)) \subseteq SlotsOf(OpenNewWork(S))
  BY <1>1 DEF SlotsOf, OpenNewWork
<1>3. OpenNewWork(S) \subseteq OpenGrants(S) /\ OpenNewWork(T) \subseteq OpenGrants(T)
  BY DEF OpenNewWork
<1>4. /\ IsFiniteSet(SlotsOf(OpenGrants(S))) /\ IsFiniteSet(SlotsOf(OpenNewWork(S)))
      /\ Cardinality(SlotsOf(OpenGrants(S))) = Cardinality(OpenGrants(S))
      /\ Cardinality(SlotsOf(OpenGrants(T))) = Cardinality(OpenGrants(T))
      /\ Cardinality(SlotsOf(OpenNewWork(S))) = Cardinality(OpenNewWork(S))
      /\ Cardinality(SlotsOf(OpenNewWork(T))) = Cardinality(OpenNewWork(T))
  BY <1>3, SlotsCounted
<1>5. /\ Cardinality(OpenGrants(T)) <= Cardinality(OpenGrants(S))
      /\ Cardinality(OpenNewWork(T)) <= Cardinality(OpenNewWork(S))
  BY <1>2, <1>4, FS_Subset
<1>6. /\ Cardinality(OpenGrants(S)) \in Nat /\ Cardinality(OpenGrants(T)) \in Nat
      /\ Cardinality(OpenNewWork(S)) \in Nat /\ Cardinality(OpenNewWork(T)) \in Nat
  BY <1>3, SlotsCounted, FS_CardinalityType
<1> QED BY <1>5, <1>6, BoundAssumption DEF Within

\* The owner's checks leave room for the grant they let through.
LEMMA OneGrantWithin ==
  ASSUME NEW M, NEW T, AggInv(M), NEW l \in Ledgers, NEW req \in Request,
         OneGrant(M, T, l, req), Within(M)
  PROVE  Within(T)
<1> DEFINE h == NewGrant(M.ledger[l], req, {M.expiresAt})
           o == <<l, h>>
<1>1. \A k \in Ledgers : T.ledger[k].grants = IF k = l THEN M.ledger[l].grants \cup {h}
                                                       ELSE M.ledger[k].grants
  BY DEF OneGrant, WithLedger, AddGrant, AggInv, Aggregate, Ledger
<1>2. h.purpose = req.purpose /\ o[2] = h
  BY DEF NewGrant
<1> HIDE DEF h
<1>3. OpenGrants(T) \subseteq OpenGrants(M) \cup {o}
  <2> SUFFICES ASSUME NEW q \in OpenGrants(T) PROVE q \in OpenGrants(M) \cup {o}
    OBVIOUS
  <2>1. q[1] \in Ledgers /\ q[2] \in T.ledger[q[1]].grants /\ ~q[2].compacted /\ q = <<q[1], q[2]>>
    BY OpenGrantsOf DEF Open
  <2>2. q[2] \in M.ledger[q[1]].grants \/ q = o
    BY <1>1, <2>1
  <2>3. q[2] \in M.ledger[q[1]].grants => q[2] \in Open(M.ledger[q[1]])
    BY <2>1 DEF Open
  <2> QED BY <2>1, <2>2, <2>3, OpenGrantsOf
<1>4. OpenNewWork(T) \subseteq IF req.purpose = "new-work" THEN OpenNewWork(M) \cup {o}
                               ELSE OpenNewWork(M)
  BY <1>2, <1>3 DEF OpenNewWork
<1> HIDE DEF o
<1>5. OpenNewWork(M) \subseteq OpenGrants(M)
  BY DEF OpenNewWork
<1>6. IsFiniteSet(OpenGrants(M)) /\ IsFiniteSet(OpenNewWork(M))
  BY <1>5, SlotsCounted
<1>7. /\ Cardinality(OpenGrants(M)) \in Nat /\ Cardinality(OpenNewWork(M)) \in Nat
      /\ Cardinality(OpenGrants(M) \cup {o}) <= Cardinality(OpenGrants(M)) + 1
      /\ Cardinality(OpenNewWork(M) \cup {o}) <= Cardinality(OpenNewWork(M)) + 1
      /\ IsFiniteSet(OpenGrants(M) \cup {o}) /\ IsFiniteSet(OpenNewWork(M) \cup {o})
  <2> SUFFICES ASSUME NEW X, IsFiniteSet(X)
               PROVE  /\ Cardinality(X) \in Nat /\ IsFiniteSet(X \cup {o})
                      /\ Cardinality(X \cup {o}) <= Cardinality(X) + 1
    BY <1>6
  <2>1. Cardinality(X) \in Nat
    BY FS_CardinalityType
  <2>2. /\ IsFiniteSet(X \cup {o})
        /\ Cardinality(X \cup {o}) = IF o \in X THEN Cardinality(X) ELSE Cardinality(X) + 1
    BY FS_AddElement
  <2> QED BY <2>1, <2>2
<1>8. /\ Cardinality(OpenGrants(T)) <= Cardinality(OpenGrants(M) \cup {o})
      /\ Cardinality(OpenGrants(T)) \in Nat
      /\ Cardinality(OpenGrants(M) \cup {o}) \in Nat
  BY <1>3, <1>7, FS_Subset, FS_CardinalityType
<1>9. Cardinality(OpenGrants(T)) <= MaxReservations
  BY <1>7, <1>8, BoundAssumption DEF OneGrant, OwnerSlotFree
<1>10. CASE req.purpose = "new-work"
  <2>1. /\ Cardinality(OpenNewWork(T)) <= Cardinality(OpenNewWork(M) \cup {o})
        /\ Cardinality(OpenNewWork(T)) \in Nat
        /\ Cardinality(OpenNewWork(M) \cup {o}) \in Nat
    BY <1>4, <1>7, <1>10, FS_Subset, FS_CardinalityType
  <2> QED BY <1>7, <1>9, <1>10, <2>1, BoundAssumption DEF OneGrant, OwnerSlotFree, Within
<1>11. CASE req.purpose # "new-work"
  <2>1. /\ Cardinality(OpenNewWork(T)) <= Cardinality(OpenNewWork(M))
        /\ Cardinality(OpenNewWork(T)) \in Nat
    BY <1>4, <1>6, <1>11, FS_Subset, FS_CardinalityType
  <2> QED BY <1>7, <1>9, <2>1, BoundAssumption DEF Within
<1> QED BY <1>10, <1>11
-----------------------------------------------------------------------------
(* Orderly transitions: the owner's limits hold across them.               *)

\* The grants that transition S -> T adds to ledger l.
Fresh(S, T, l) == {h \in T.ledger[l].grants : h.seq >= S.ledger[l].next}

\* A transition that keeps to the slots, grants nothing past a defect, and
\* grants nothing beyond the lease.
Orderly(S, T) ==
  /\ Within(S) => Within(T)
  /\ Defective(S) => Defective(T) /\ \A l \in Ledgers : Fresh(S, T, l) = {}
  /\ \A l \in Ledgers : \A h \in Fresh(S, T, l) :
       h.status = "reserved" => h.expiresAt <= T.expiresAt

\* A transition that grants nothing is orderly.
LEMMA QuietOrderly ==
  ASSUME NEW S, NEW T, AggInv(S), AggInv(T), Quiet(S, T)
  PROVE  Orderly(S, T) /\ \A l \in Ledgers : Fresh(S, T, l) = {}
<1>1. \A l \in Ledgers : Fresh(S, T, l) = {}
  <2> SUFFICES ASSUME NEW l \in Ledgers, NEW h \in T.ledger[l].grants, h.seq >= S.ledger[l].next
               PROVE  FALSE
    BY DEF Fresh
  <2>1. LedgerInv(T.ledger[l]) /\ T.ledger[l].next = S.ledger[l].next
    BY DEF AggInv, Quiet
  <2>2. h.seq \in Nat /\ T.ledger[l].next \in Nat /\ h.seq < T.ledger[l].next
    BY <2>1 DEF LedgerInv, Numbered, Ledger, Grant
  <2> QED BY <2>1, <2>2
<1> QED BY <1>1, QuietWithin, QuietDefective DEF Orderly

\* One may come before an orderly transition.
LEMMA QuietThenOrderly ==
  ASSUME NEW S, NEW M, NEW T, AggInv(S), AggInv(M), Quiet(S, M), Orderly(M, T)
  PROVE  Orderly(S, T)
<1>1. \A l \in Ledgers : Fresh(S, T, l) = Fresh(M, T, l)
  BY DEF Quiet, Fresh
<1> QED BY <1>1, QuietWithin, QuietDefective DEF Orderly

\* A grant that the owner checked and clipped is orderly.
LEMMA OneGrantOrderly ==
  ASSUME NEW M, NEW T, AggInv(M), NEW l \in Ledgers, NEW req \in Request,
         OneGrant(M, T, l, req)
  PROVE  /\ Orderly(M, T)
         /\ \A k \in Ledgers \ {l} : Fresh(M, T, k) = {}
         /\ \A h \in T.ledger[l].grants :
              h.seq >= M.ledger[l].next => h.envelope = req.envelope
<1> DEFINE h == NewGrant(M.ledger[l], req, {M.expiresAt})
           x == ExpiryLimits(M.ledger[l], req) \cup {M.expiresAt}
<1>1. \A k \in Ledgers : T.ledger[k].grants = IF k = l THEN M.ledger[l].grants \cup {h}
                                                       ELSE M.ledger[k].grants
  BY DEF OneGrant, WithLedger, AddGrant, AggInv, Aggregate, Ledger
<1>2. T.expiresAt = M.expiresAt /\ M.expiresAt \in Nat
  BY DEF OneGrant, WithLedger, AggInv, Aggregate
<1>3. h.expiresAt <= T.expiresAt
  <2>1. LedgerInv(M.ledger[l])
    BY DEF AggInv
  <2>2. x \subseteq Nat
    <3>1. M.ledger[l].policy \in Policy /\ req.now \in Nat
      BY <2>1 DEF LedgerInv, Ledger, Request
    <3>2. \A d \in Dims : M.ledger[l].policy.budgets[d].alloc \in Allocs
      BY <3>1 DEF Policy, Budget
    <3>3. \A a \in Allocs : AllocInfo[a].endsAt \in Nat
      BY AllocInfoType DEF Window
    <3>4. req.now + M.ledger[l].policy.lifetime \in Nat
      BY <3>1 DEF Policy
    <3>5. ExpiryLimits(M.ledger[l], req) \subseteq Nat
      BY <3>2, <3>3, <3>4 DEF ExpiryLimits, Demanded
    <3> QED BY <1>2, <3>5
  <2>3. M.expiresAt \in x
    OBVIOUS
  <2> HIDE DEF x
  <2>4. Earliest(x) <= M.expiresAt
    BY <2>2, <2>3, EarliestIsMinimal
  <2> QED BY <1>2, <2>4 DEF NewGrant, x
<1>4. h.envelope = req.envelope /\ h.seq = M.ledger[l].next
  BY DEF NewGrant
<1> HIDE DEF h, x
<1>5. \A k \in Ledgers : \A g \in M.ledger[k].grants : ~(g.seq >= M.ledger[k].next)
  <2> SUFFICES ASSUME NEW k \in Ledgers, NEW g \in M.ledger[k].grants
               PROVE  ~(g.seq >= M.ledger[k].next)
    OBVIOUS
  <2>1. LedgerInv(M.ledger[k])
    BY DEF AggInv
  <2>2. g.seq \in Nat /\ M.ledger[k].next \in Nat /\ g.seq < M.ledger[k].next
    BY <2>1 DEF LedgerInv, Numbered, Ledger, Grant
  <2> QED BY <2>2
<1>6. \A k \in Ledgers : Fresh(M, T, k) \subseteq IF k = l THEN {h} ELSE {}
  BY <1>1, <1>5 DEF Fresh
<1>7. Within(M) => Within(T)
  BY OneGrantWithin
<1>8. ~Defective(M)
  BY DEF OneGrant
<1>9. \A k \in Ledgers : \A g \in Fresh(M, T, k) : g.expiresAt <= T.expiresAt
  BY <1>3, <1>6
<1>10. Orderly(M, T)
  BY <1>7, <1>8, <1>9 DEF Orderly
<1>11. \A g \in T.ledger[l].grants : g.seq >= M.ledger[l].next => g.envelope = req.envelope
  BY <1>4, <1>6 DEF Fresh
<1> QED BY <1>6, <1>10, <1>11

\* So is every reservation.
LEMMA MayGrantOrderly ==
  ASSUME NEW S, NEW T, AggInv(S), NEW l \in Ledgers, NEW req \in Request,
         MayGrant(S, T, l, req)
  PROVE  Orderly(S, T)
<1>1. PICK M : Keeps(S, M) /\ Quiet(S, M) /\ (T = M \/ OneGrant(M, T, l, req))
  BY DEF MayGrant
<1>2. AggInv(M)
  BY <1>1 DEF Keeps
<1>3. CASE T = M
  BY <1>1, <1>2, <1>3, QuietOrderly
<1>4. CASE OneGrant(M, T, l, req)
  BY <1>1, <1>2, <1>4, OneGrantOrderly, QuietThenOrderly
<1> QED BY <1>1, <1>3, <1>4
-----------------------------------------------------------------------------
(* Handing over.                                                           *)

\* Closing a grant for exactly its envelope leaves it reconciled, or pruned.
LEMMA ClosedInFull ==
  ASSUME NEW S, AggInv(S), NEW l \in Ledgers, NEW s \in Nat, NEW g \in Grant, NEW now \in Nat,
         ClosedBy(S, l, s, Certificate(g, g.envelope, now)) # {},
         \A h \in S.ledger[l].grants : h.seq = s => h.envelope = g.envelope
  PROVE  \A h \in CloseGrant(S, l, s, Certificate(g, g.envelope, now)).ledger[l].grants :
           h.seq = s => h.status = "reconciled"
<1> DEFINE ev == Certificate(g, g.envelope, now)
           E == Expire(S.ledger[l], ev.now)
           closing == ClosedBy(S, l, s, ev)
           k == CHOOSE h \in closing : TRUE
           settled == [k EXCEPT !.status = "reconciled", !.accounted = ev.observed]
           C == Reconcile(E, k, ev)
<1>1. /\ ev.now = now /\ ev.certified /\ ~ev.acknowledges /\ ev.recovery = 0
      /\ ev.observed = g.envelope
  BY DEF Certificate
<1>2. k \in E.grants /\ k.seq = s /\ Closable(E, k, ev)
  BY DEF ClosedBy
<1>3. CloseGrant(S, l, s, ev) = WithLedger(S, l, C)
  BY DEF CloseGrant
<1>4. CloseGrant(S, l, s, ev).ledger[l] = C
  <2> HIDE DEF C
  <2> QED BY <1>3 DEF WithLedger, AggInv, Aggregate
<1> HIDE DEF ev, k
<1>5. LedgerInv(E) /\ Aged(S.ledger[l], E)
  BY <1>1, ExpireInv, ExpireAged DEF AggInv
<1>6. k.envelope = g.envelope
  BY <1>2, <1>5 DEF Aged, Later, SameGrant
<1>7. k \in Grant /\ g.envelope \in Amounts
  BY <1>2, <1>5 DEF LedgerInv, Ledger, Grant
<1>8. ~Overruns(k, ev)
  <2>1. \A d \in Dims : ~(g.envelope[d] > g.envelope[d])
    BY <1>7 DEF Amounts
  <2> QED BY <1>1, <1>6, <2>1 DEF Overruns
<1>9. ~ExpiryAccounted(k)
  BY <1>1, <1>2 DEF Closable
<1>10. C = Compact(E, settled, now)
  <2> HIDE DEF E
  <2> QED BY <1>1, <1>8, <1>9 DEF Reconcile, Settle
<1> HIDE DEF E, C
<1>11. settled \in Grant /\ SameGrant(k, settled) /\ settled.status = "reconciled"
  BY <1>1, <1>7 DEF Grant, SameGrant, Statuses
<1> HIDE DEF settled
<1>12. \A h \in C.grants : h \in E.grants \ {k} \/ (Later(k, h) /\ h.status = "reconciled")
  BY <1>2, <1>5, <1>10, <1>11, CompactAged
<1>13. \A h \in E.grants : h.seq = s => h = k
  BY <1>2, <1>5 DEF LedgerInv, Numbered
<1>14. \A h \in C.grants : h.seq = s => h.status = "reconciled"
  BY <1>12, <1>13
<1> QED BY <1>4, <1>14 DEF ev

\* A handoff leaves no spendable grant behind: the one it makes is closed at once.
LEMMA HandoffOrderly ==
  ASSUME NEW S, AggInv(S), NEW l \in Tenants, NEW g \in Grant, NEW r \in Revisions,
         NEW now \in Nat, NEW T \in HandoffStates(S, l, g, Authority[r].policies[l], now),
         ~Late(S.ledger[l], MovedRequest(g, Authority[r].policies[l].revision,
                                         Authority[r].policies[l].restriction, now))
  PROVE  Orderly(S, T)
<1> DEFINE terms == Authority[r].policies[l]
           ev == Certificate(g, Nothing, now)
           req == MovedRequest(g, terms.revision, terms.restriction, now)
           closed == CloseGrant(S, Ingress, g.seq, ev)
           reserved == ReserveTenant(closed, l, req)
           s == closed.ledger[l].next
           full == Certificate(g, g.envelope, now)
<1>1. l \in Ledgers /\ Ingress \in Ledgers /\ l # Ingress
  BY LedgersType, AuthorityAssumption DEF Tenants, Ingress
<1>2. ev \in Evident /\ full \in Evident
  BY CertificateType DEF Nothing, Amounts, Grant
<1>3. req \in Request /\ req.envelope = g.envelope
  BY <1>1, PoliciesType DEF MovedRequest, Request, Grant, Policy
<1>4. /\ T = CloseGrant(reserved, l, s, full)
      /\ Granted(closed, reserved, l)
      /\ ClosedBy(reserved, l, s, full) # {}
  BY DEF HandoffStates
<1>5. closed.ledger[l] = S.ledger[l]
  BY <1>1 DEF CloseGrant, WithLedger, AggInv, Aggregate
<1> HIDE DEF ev, req
<1>6. AggInv(closed) /\ Quiet(S, closed)
  BY <1>1, <1>2, CloseGrantKeeps, CloseGrantQuiet DEF Keeps
<1>7. ~Late(closed.ledger[l], req)
  BY <1>5 DEF req
<1> HIDE DEF closed
<1>8. MayGrant(closed, reserved, l, req) /\ AggInv(reserved)
  BY <1>1, <1>3, <1>6, <1>7, ReserveTenantGrants, ReserveTenantKeeps DEF Keeps
<1> HIDE DEF reserved
<1>9. PICK M : Keeps(closed, M) /\ Quiet(closed, M) /\ (reserved = M \/ OneGrant(M, reserved, l, req))
  BY <1>8 DEF MayGrant
<1>10. AggInv(M) /\ M.ledger[l].next = s /\ s \in Nat
  BY <1>1, <1>6, <1>9 DEF Keeps, Quiet, AggInv, LedgerInv, Ledger
<1> HIDE DEF s
<1>11. OneGrant(M, reserved, l, req)
  <2>1. reserved.ledger[l].next > M.ledger[l].next
    BY <1>4, <1>10 DEF Granted, s
  <2>2. reserved # M
    BY <1>10, <2>1
  <2> QED BY <1>9, <2>2
<1>12. /\ Orderly(M, reserved)
       /\ \A k \in Ledgers \ {l} : Fresh(M, reserved, k) = {}
       /\ \A h \in reserved.ledger[l].grants : h.seq >= s => h.envelope = g.envelope
  BY <1>1, <1>3, <1>10, <1>11, OneGrantOrderly
<1>13. /\ \A k \in Ledgers \ {l} : reserved.ledger[k].next = M.ledger[k].next
       /\ reserved.ledger[l].next = s + 1
  BY <1>1, <1>10, <1>11 DEF OneGrant, WithLedger, AddGrant, AggInv, Aggregate, LedgerInv, Ledger
<1>14. AggInv(T) /\ Quiet(reserved, T)
  BY <1>1, <1>2, <1>4, <1>8, CloseGrantKeeps, CloseGrantQuiet DEF Keeps
<1>15. \A h \in T.ledger[l].grants : h.seq = s => h.status = "reconciled"
  <2>1. \A h \in reserved.ledger[l].grants : h.seq = s => h.envelope = g.envelope
    BY <1>10, <1>12
  <2>2. /\ T = CloseGrant(reserved, l, s, Certificate(g, g.envelope, now))
        /\ ClosedBy(reserved, l, s, Certificate(g, g.envelope, now)) # {}
    BY <1>4
  <2> HIDE DEF full
  <2>3. l \in Ledgers /\ AggInv(reserved) /\ s \in Nat
    BY <1>1, <1>8, <1>10
  <2>4. \A h \in CloseGrant(reserved, l, s, Certificate(g, g.envelope, now)).ledger[l].grants :
          h.seq = s => h.status = "reconciled"
    BY <2>1, <2>2, <2>3, ClosedInFull
  <2> QED BY <2>2, <2>4
<1> HIDE DEF full
<1>16. \A k \in Ledgers : \A h \in Fresh(M, T, k) : k = l /\ h.seq = s
  <2> SUFFICES ASSUME NEW k \in Ledgers, NEW h \in Fresh(M, T, k) PROVE k = l /\ h.seq = s
    OBVIOUS
  <2>1. LedgerInv(T.ledger[k]) /\ T.ledger[k].next = reserved.ledger[k].next
    BY <1>14 DEF AggInv, Quiet
  <2>2. h.seq \in Nat /\ h.seq < T.ledger[k].next /\ h.seq >= M.ledger[k].next
    BY <2>1 DEF Fresh, LedgerInv, Numbered, Ledger, Grant
  <2>3. M.ledger[k].next \in Nat
    BY <1>10 DEF AggInv, LedgerInv, Ledger
  <2> QED BY <1>10, <1>13, <2>1, <2>2, <2>3
<1>17. \A k \in Ledgers : \A h \in Fresh(M, T, k) : h.status # "reserved"
  BY <1>15, <1>16 DEF Fresh
<1>18. Within(M) => Within(T)
  BY <1>8, <1>12, <1>14, QuietWithin DEF Orderly
<1>19. Orderly(M, T)
  BY <1>11, <1>17, <1>18 DEF Orderly, OneGrant
<1>20. Orderly(closed, T)
  BY <1>6, <1>9, <1>10, <1>19, QuietThenOrderly
<1> QED BY <1>6, <1>20, QuietThenOrderly
-----------------------------------------------------------------------------
(* Every step is orderly, and the lease ends within MaxAge of a time at    *)
(* which the authority it rests on was the newest.                         *)

Leased(S) ==
  /\ S.expiresAt <= S.checkedAt + MaxAge
  /\ S.checkedAt <= clock
  /\ S.revision + 1 \in Known => S.checkedAt <= published[S.revision + 1]

LimitInv == Within(agg) /\ Leased(agg)

\* A read that a call may carry makes a lease.
LEMMA ReadLeased ==
  ASSUME IInv, NEW r \in Revisions, NEW at, Readable(r, at)
  PROVE  at \in Nat /\ Leased(Renew(agg, r, at)) /\ Leased(Revoked(agg, r, at))
<1>1. at \in Nat /\ at <= clock /\ clock \in Nat
  BY DEF Readable, Times, IInv, TypeOK
<1>2. r + 1 \in Known => at <= published[r + 1]
  BY DEF Readable
<1>3. agg \in Aggregate /\ MaxAge \in Nat
  BY LimitAssumption DEF IInv, TypeOK
<1>4. /\ Renew(agg, r, at).revision = r /\ Renew(agg, r, at).checkedAt = at
      /\ Renew(agg, r, at).expiresAt = at + MaxAge
  BY <1>3 DEF Renew, Aggregate
<1>5. /\ Revoked(agg, r, at).revision = r /\ Revoked(agg, r, at).checkedAt = at
      /\ Revoked(agg, r, at).expiresAt = at
  BY <1>3 DEF Revoked, Aggregate
<1>6. at + MaxAge <= at + MaxAge /\ at <= at + MaxAge
  BY <1>1, <1>3
<1>7. Leased(Renew(agg, r, at))
  BY <1>1, <1>2, <1>4, <1>6 DEF Leased
<1>8. Leased(Revoked(agg, r, at))
  BY <1>1, <1>2, <1>5, <1>6 DEF Leased
<1> QED BY <1>1, <1>7, <1>8

\* A transition under one authority keeps its lease.
LEMMA KeepsLeased == ASSUME NEW S, NEW T, Leased(S), Keeps(S, T) PROVE Leased(T)
BY DEF Leased, Keeps

\* refreshFromTrustedAuthority.
LEMMA RefreshHolds ==
  ASSUME IInv, NEW r \in Revisions, NEW at \in Times, RefreshRPC(r, at)
  PROVE  Orderly(agg, agg') /\ Leased(agg')
<1> DEFINE R == Renew(agg, r, at)
<1>1. AggInv(agg) /\ at \in Nat /\ Leased(R)
  BY ReadLeased DEF IInv, RefreshRPC
<1>2. AggInv(R) /\ Quiet(agg, R)
  BY <1>1, RenewInv, RenewQuiet
<1>3. agg' \in RetireExpired(R, at)
  BY DEF RefreshRPC
<1> HIDE DEF R
<1>4. Keeps(R, agg') /\ Quiet(R, agg') /\ AggInv(agg')
  BY <1>1, <1>2, <1>3, RetireExpiredKeeps, RetireExpiredQuiet DEF Keeps
<1>5. Quiet(agg, agg')
  BY <1>2, <1>4, QuietTransitive
<1> QED BY <1>1, <1>4, <1>5, QuietOrderly, KeepsLeased

\* revokeFromTrustedAuthority.
LEMMA RevokeHolds ==
  ASSUME IInv, NEW r \in Revisions, NEW at \in Times, RevokeRPC(r, at)
  PROVE  Orderly(agg, agg') /\ Leased(agg')
<1>1. AggInv(agg) /\ at \in Nat /\ Leased(agg') /\ agg' = Revoked(agg, r, at)
  BY ReadLeased DEF IInv, RevokeRPC
<1>2. AggInv(agg')
  BY <1>1, RevokedInv
<1>3. agg'.ledger = agg.ledger
  BY <1>1 DEF Revoked, AggInv, Aggregate
<1>4. \A l \in Ledgers : Aged(agg.ledger[l], agg.ledger[l])
  BY FewerAged
<1>5. Quiet(agg, agg')
  BY <1>3, <1>4 DEF Quiet
<1> QED BY <1>1, <1>2, <1>5, QuietOrderly

\* reserveFromTrustedAuthority, by callers that do not use an identity late.
LEMMA ReserveHolds ==
  ASSUME IInv, LimitInv, ~StaleRetries, NEW l \in Tenants, NEW now \in Times,
         NEW req \in Requests(l, Demand[l], now), ReserveRPC(l, req)
  PROVE  Orderly(agg, agg') /\ Leased(agg')
<1>1. l \in Ledgers /\ AggInv(agg) /\ Leased(agg)
  BY LedgersType DEF IInv, LimitInv
<1>2. req \in Request /\ req.now \in Nat
  BY <1>1, RequestsType, LimitAssumption DEF Request
<1>3. ~Late(agg.ledger[l], req)
  BY DEF Requests
<1>4. PICK S \in RetireExpired(agg, req.now) : agg' = ReserveTenant(S, l, req) \/ agg' = S
  BY DEF ReserveRPC
<1>5. /\ Keeps(agg, S) /\ Quiet(agg, S) /\ AggInv(S)
      /\ \A h \in S.ledger[l].grants : h.status = "reconciled" => h \in agg.ledger[l].grants
  BY <1>1, <1>2, RetireExpiredKeeps, RetireExpiredQuiet DEF Keeps
<1>6. ~Late(S.ledger[l], req)
  BY <1>3, <1>5 DEF Late, Prior
<1>7. CASE agg' = S
  BY <1>1, <1>5, <1>7, QuietOrderly, KeepsLeased
<1>8. CASE agg' = ReserveTenant(S, l, req)
  <2>1. MayGrant(S, agg', l, req) /\ Keeps(S, agg')
    BY <1>1, <1>2, <1>5, <1>6, <1>8, ReserveTenantGrants, ReserveTenantKeeps
  <2>2. Orderly(agg, agg')
    BY <1>1, <1>2, <1>5, <2>1, MayGrantOrderly, QuietThenOrderly
  <2> QED BY <1>1, <1>5, <2>1, <2>2, KeepsLeased
<1> QED BY <1>4, <1>7, <1>8

\* reserveIngressFromTrustedAuthority.
LEMMA ReserveIngressHolds ==
  ASSUME IInv, LimitInv, NEW now \in Times, NEW req \in Requests(Ingress, Demand[Ingress], now),
         ReserveIngressRPC(req)
  PROVE  Orderly(agg, agg') /\ Leased(agg')
<1>1. AggInv(agg) /\ Leased(agg) /\ req \in Request
  BY LedgersType, RequestsType, LimitAssumption DEF IInv, LimitInv
<1>2. agg' = ReserveOnIngress(agg, req) \/ agg' = agg
  BY DEF ReserveIngressRPC
<1>3. CASE agg' = agg
  BY <1>1, <1>3, QuietReflexive, QuietOrderly
<1>4. CASE agg' = ReserveOnIngress(agg, req)
  BY <1>1, <1>4, LedgersType, ReserveOnIngressGrants, ReserveOnIngressKeeps, MayGrantOrderly,
     KeepsLeased
<1> QED BY <1>2, <1>3, <1>4

\* Unverified reservation: a renewal, then a reservation on the ingress ledger.
LEMMA ReserveUnverifiedHolds ==
  ASSUME IInv, NEW r \in Revisions, NEW now \in Times,
         NEW req \in Requests(Ingress, AnonDemand, now), ReserveUnverifiedRPC(r, req)
  PROVE  Orderly(agg, agg') /\ Leased(agg')
<1> DEFINE R == Renew(agg, r, req.now)
<1>1. AggInv(agg) /\ req \in Request /\ req.now \in Nat
  BY LedgersType, RequestsType, LimitAssumption DEF IInv, Request
<1>2. Readable(r, req.now) /\ agg' = ReserveOnIngress(R, req)
  BY DEF ReserveUnverifiedRPC
<1>3. AggInv(R) /\ Quiet(agg, R) /\ Leased(R)
  BY <1>1, <1>2, RenewInv, RenewQuiet, ReadLeased
<1> HIDE DEF R
<1>4. MayGrant(R, agg', Ingress, req) /\ Keeps(R, agg')
  BY <1>1, <1>2, <1>3, ReserveOnIngressGrants, ReserveOnIngressKeeps
<1>5. Orderly(agg, agg')
  BY <1>1, <1>3, <1>4, LedgersType, MayGrantOrderly, QuietThenOrderly
<1> QED BY <1>3, <1>4, <1>5, KeepsLeased

\* Both reconcile calls.
LEMMA ReconcileHolds ==
  ASSUME IInv, LimitInv, NEW l \in Ledgers, NEW g \in agg.ledger[l].grants,
         NEW now \in Times, NEW ev \in Evidence(l, g, now), ReconcileRPC(l, g.seq, ev)
  PROVE  Orderly(agg, agg') /\ Leased(agg')
<1>1. AggInv(agg) /\ Leased(agg) /\ ev \in Evident
  BY EvidenceType DEF IInv, LimitInv
<1>2. Keeps(agg, agg') /\ Quiet(agg, agg')
  BY <1>1, CloseGrantKeeps, CloseGrantQuiet DEF ReconcileRPC
<1> QED BY <1>1, <1>2, QuietOrderly, KeepsLeased DEF Keeps

\* A repeated handoff expires two ledgers.
LEMMA HandoffRepeatedQuiet ==
  ASSUME NEW S, AggInv(S), NEW l \in Tenants, NEW g, NEW now \in Nat,
         NEW T \in HandoffRepeated(S, l, g, now)
  PROVE  Quiet(S, T)
<1> DEFINE M == WithLedger(S, Ingress, Expire(S.ledger[Ingress], now))
           N == WithLedger(M, l, Expire(M.ledger[l], now))
<1>1. l \in Ledgers /\ Ingress \in Ledgers /\ l # Ingress
  BY LedgersType, AuthorityAssumption DEF Tenants, Ingress
<1>2. T = N
  BY <1>1 DEF HandoffRepeated, WithLedger, AggInv, Aggregate
<1>3. AggInv(M) /\ Quiet(S, M)
  BY <1>1, ExpireOneKeeps, ExpireOneQuiet DEF Keeps
<1> HIDE DEF M
<1>4. Quiet(M, N)
  BY <1>1, <1>3, ExpireOneQuiet
<1> QED BY <1>2, <1>3, <1>4, QuietTransitive

\* The single handoff.
LEMMA HandoffHolds ==
  ASSUME IInv, ~StaleRetries, NEW r \in Revisions, NEW l \in Tenants,
         NEW g \in agg.ledger[Ingress].grants, NEW now \in Times, HandoffRPC(r, l, g, now)
  PROVE  Orderly(agg, agg') /\ Leased(agg')
<1> DEFINE R == Renew(agg, r, now)
           terms == Authority[r].policies[l]
           req == MovedRequest(g, terms.revision, terms.restriction, now)
<1>1. AggInv(agg) /\ g \in Grant /\ now \in Nat /\ Leased(R)
  BY LedgersType, GrantsType, ReadLeased DEF IInv, HandoffRPC
<1>2. AggInv(R) /\ Quiet(agg, R)
  BY <1>1, RenewInv, RenewQuiet
<1>3. \/ agg' = R
      \/ agg' \in HandoffStates(R, l, g, terms, now) /\ ~Late(R.ledger[l], req)
      \/ agg' \in HandoffRepeated(R, l, g, now)
  BY DEF HandoffRPC
<1> HIDE DEF R
<1>4. Keeps(R, agg')
  BY <1>1, <1>2, <1>3, HandoffKeeps, HandoffRepeatedKeeps, KeepsReflexive
<1>5. Orderly(R, agg')
  <2>1. CASE agg' = R
    BY <1>2, <2>1, QuietReflexive, QuietOrderly
  <2>2. CASE agg' \in HandoffStates(R, l, g, terms, now) /\ ~Late(R.ledger[l], req)
    BY <1>1, <1>2, <2>2, HandoffOrderly
  <2>3. CASE agg' \in HandoffRepeated(R, l, g, now)
    BY <1>1, <1>2, <1>4, <2>3, HandoffRepeatedQuiet, QuietOrderly DEF Keeps
  <2> QED BY <1>3, <2>1, <2>2, <2>3
<1> QED BY <1>1, <1>2, <1>4, <1>5, QuietThenOrderly, KeepsLeased

\* The batch handoff, first or repeated.
LEMMA HandoffBatchHolds ==
  ASSUME IInv, LimitInv, NEW g \in agg.ledger[Ingress].grants, NEW r,
         NEW transfers \in Transfers(r), NEW now \in Times, HandoffBatchRPC(g, transfers, now)
  PROVE  Orderly(agg, agg') /\ Leased(agg')
<1> DEFINE left == [d \in Dims |-> g.envelope[d] - Moved(transfers, d)]
           ev == Certificate(g, left, now)
<1>1. now \in Nat /\ AggInv(agg) /\ Leased(agg) /\ g \in Grant /\ Ingress \in Ledgers
  BY TimesType, LedgersType, GrantsType DEF IInv, TypeOK, LimitInv
<1>2. CASE agg' = WithLedger(agg, Ingress, Expire(agg.ledger[Ingress], now))
  BY <1>1, <1>2, ExpireOneKeeps, ExpireOneQuiet, QuietOrderly, KeepsLeased DEF Keeps
<1>3. CASE agg' \in BatchStates(agg, g, transfers, now)
  <2>1. agg' = CloseGrant(agg, Ingress, g.seq, ev) /\ \A d \in Dims : left[d] >= 0
    BY <1>3 DEF BatchStates
  <2>2. \A d \in Dims : g.envelope[d] \in Nat /\ Moved(transfers, d) \in Nat
    BY <1>1, MovedType DEF Grant, Amounts
  <2>3. left \in Amounts
    BY <2>1, <2>2 DEF Amounts
  <2> HIDE DEF left
  <2>4. ev \in Evident
    BY <1>1, <2>3, CertificateType
  <2> HIDE DEF ev
  <2>5. Keeps(agg, agg') /\ Quiet(agg, agg')
    BY <1>1, <2>1, <2>4, CloseGrantKeeps, CloseGrantQuiet
  <2> QED BY <1>1, <2>5, QuietOrderly, KeepsLeased DEF Keeps
<1>4. \/ agg' \in BatchStates(agg, g, transfers, now)
      \/ agg' = WithLedger(agg, Ingress, Expire(agg.ledger[Ingress], now))
  BY DEF HandoffBatchRPC
<1> QED BY <1>2, <1>3, <1>4
-----------------------------------------------------------------------------
(* The invariant is inductive.                                             *)

\* A new object has given no slot away and its lease is new.
LEMMA InitLimitInv == Init => LimitInv
<1> SUFFICES ASSUME Init PROVE LimitInv
  OBVIOUS
<1>1. AggInv(agg)
  BY InitIInv DEF IInv
<1>2. \A l \in Ledgers : agg.ledger[l].grants = {}
  BY DEF Init, NewAggregate, NewLedger
<1>3. OpenGrants(agg) = {} /\ OpenNewWork(agg) = {}
  BY <1>2 DEF OpenGrants, OpenNewWork, Open
<1>4. Within(agg)
  BY <1>3, FS_EmptySet, BoundAssumption DEF Within
<1>5. clock = 0 /\ published = <<0>> /\ agg.checkedAt = 0 /\ agg.expiresAt = 0 + MaxAge
      /\ agg.revision = 1
  BY DEF Init, NewAggregate
<1>6. Len(published) = 1 /\ agg.revision + 1 \notin 1 .. 1
  BY <1>5
<1>7. Leased(agg)
  BY <1>5, <1>6, LimitAssumption DEF Leased, Known
<1> QED BY <1>4, <1>7 DEF LimitInv

\* Every call is orderly, and the lease survives it.
LEMMA CallHolds ==
  ASSUME IInv, LimitInv, ~StaleRetries, NEW now \in Times, VerifiedCall(now) \/ UnverifiedCall(now)
  PROVE  LimitInv' /\ Orderly(agg, agg')
<1>1. AggInv(agg) /\ Within(agg)
  BY DEF IInv, LimitInv
<1>2. ASSUME Env, Orderly(agg, agg'), Leased(agg')
      PROVE  LimitInv' /\ Orderly(agg, agg')
  <2>1. clock' = clock /\ published' = published
    BY <1>2 DEF Env
  <2>2. Within(agg')
    BY <1>1, <1>2 DEF Orderly
  <2>3. Leased(agg)'
    BY <1>2, <2>1 DEF Leased, Known
  <2>4. Within(agg)'
    BY <2>2 DEF Within, OpenGrants, OpenNewWork, Open
  <2> QED BY <1>2, <2>3, <2>4 DEF LimitInv
<1>3. CASE \E r \in Revisions : RefreshRPC(r, now)
  <2>1. PICK r \in Revisions : RefreshRPC(r, now)
    BY <1>3
  <2> QED BY <1>2, <2>1, RefreshHolds DEF RefreshRPC
<1>4. CASE \E r \in Revisions : RevokeRPC(r, now)
  <2>1. PICK r \in Revisions : RevokeRPC(r, now)
    BY <1>4
  <2> QED BY <1>2, <2>1, RevokeHolds DEF RevokeRPC
<1>5. CASE \E l \in Tenants : \E req \in Requests(l, Demand[l], now) : ReserveRPC(l, req)
  <2>1. PICK l \in Tenants : \E req \in Requests(l, Demand[l], now) : ReserveRPC(l, req)
    BY <1>5
  <2>2. PICK req \in Requests(l, Demand[l], now) : ReserveRPC(l, req)
    BY <2>1
  <2> QED BY <1>2, <2>2, ReserveHolds DEF ReserveRPC
<1>6. CASE \E req \in Requests(Ingress, Demand[Ingress], now) : ReserveIngressRPC(req)
  <2>1. PICK req \in Requests(Ingress, Demand[Ingress], now) : ReserveIngressRPC(req)
    BY <1>6
  <2> QED BY <1>2, <2>1, ReserveIngressHolds DEF ReserveIngressRPC
<1>7. CASE \E l \in Ledgers : \E g \in agg.ledger[l].grants :
              \E ev \in Evidence(l, g, now) : ReconcileRPC(l, g.seq, ev)
  <2>1. PICK l \in Ledgers : \E g \in agg.ledger[l].grants :
               \E ev \in Evidence(l, g, now) : ReconcileRPC(l, g.seq, ev)
    BY <1>7
  <2>2. PICK g \in agg.ledger[l].grants : \E ev \in Evidence(l, g, now) : ReconcileRPC(l, g.seq, ev)
    BY <2>1
  <2>3. PICK ev \in Evidence(l, g, now) : ReconcileRPC(l, g.seq, ev)
    BY <2>2
  <2> QED BY <1>2, <2>3, ReconcileHolds DEF ReconcileRPC
<1>8. CASE \E r \in Revisions, l \in Tenants, g \in agg.ledger[Ingress].grants :
              "single" \in Handoffs /\ HandoffRPC(r, l, g, now)
  <2>1. PICK r \in Revisions, l \in Tenants, g \in agg.ledger[Ingress].grants :
               HandoffRPC(r, l, g, now)
    BY <1>8
  <2> QED BY <1>2, <2>1, HandoffHolds DEF HandoffRPC
<1>9. CASE \E g \in agg.ledger[Ingress].grants, r \in Known :
              \E transfers \in Transfers(r) :
                "batch" \in Handoffs /\ HandoffBatchRPC(g, transfers, now)
  <2>1. PICK g \in agg.ledger[Ingress].grants, r \in Known :
               \E transfers \in Transfers(r) : HandoffBatchRPC(g, transfers, now)
    BY <1>9
  <2>2. PICK transfers \in Transfers(r) : HandoffBatchRPC(g, transfers, now)
    BY <2>1
  <2> QED BY <1>2, <2>2, HandoffBatchHolds DEF HandoffBatchRPC
<1>10. CASE UnverifiedCall(now)
  <2>1. PICK r \in Revisions, req \in Requests(Ingress, AnonDemand, now) : ReserveUnverifiedRPC(r, req)
    BY <1>10 DEF UnverifiedCall
  <2> QED BY <1>2, <2>1, ReserveUnverifiedHolds DEF ReserveUnverifiedRPC
<1> QED BY <1>3, <1>4, <1>5, <1>6, <1>7, <1>8, <1>9, <1>10 DEF VerifiedCall

\* Every step is orderly, and the lease survives time and publication.
LEMMA NextHolds ==
  ASSUME IInv, LimitInv, ~StaleRetries, Next
  PROVE  LimitInv' /\ Orderly(agg, agg')
<1>1. AggInv(agg) /\ Within(agg) /\ Leased(agg)
  BY DEF IInv, LimitInv
<1>2. ASSUME agg' = agg
      PROVE  Within(agg)' /\ Orderly(agg, agg')
  <2>1. Orderly(agg, agg')
    BY <1>1, <1>2, QuietReflexive, QuietOrderly
  <2>2. Within(agg)'
    BY <1>1, <1>2 DEF Within, OpenGrants, OpenNewWork, Open
  <2> QED BY <2>1, <2>2
<1>3. clock \in Nat /\ agg.checkedAt \in Nat /\ agg.revision \in Nat /\ published \in Seq(Nat)
  BY DEF IInv, TypeOK, Aggregate
<1>4. CASE Tick
  <2>1. clock' = clock + 1 /\ published' = published /\ agg' = agg
    BY <1>4 DEF Tick
  <2>2. Leased(agg)'
    BY <1>1, <1>3, <2>1 DEF Leased, Known
  <2> QED BY <1>2, <2>1, <2>2 DEF LimitInv
<1>5. CASE Publish
  <2>1. published' = Append(published, clock) /\ clock' = clock /\ agg' = agg
    BY <1>5 DEF Publish
  <2>2. /\ Len(published') = Len(published) + 1 /\ Len(published) \in Nat
        /\ \A i \in 1 .. Len(published') :
             published'[i] = IF i = Len(published') THEN clock ELSE published[i]
    BY <1>3, <2>1
  <2>3. agg.revision + 1 \in 1 .. Len(published') => agg.checkedAt <= published'[agg.revision + 1]
    BY <1>1, <1>3, <2>2 DEF Leased, Known
  <2>4. Leased(agg)'
    BY <1>1, <2>1, <2>3 DEF Leased, Known
  <2> QED BY <1>2, <2>1, <2>4 DEF LimitInv
<1>6. CASE \E now \in Times : VerifiedCall(now) \/ UnverifiedCall(now)
  BY <1>6, CallHolds
<1> QED BY <1>4, <1>5, <1>6 DEF Next

\* Every step keeps the invariant.
LEMMA StepLimitInv == ASSUME ~StaleRetries PROVE IInv /\ LimitInv /\ [Next]_vars => LimitInv'
<1>1. CASE UNCHANGED vars
  BY <1>1 DEF vars, LimitInv, Within, Leased, Known, OpenGrants, OpenNewWork, Open
<1> QED BY <1>1, NextHolds

\* The slots are within their ceiling and the lease is bound to its authority in
\* every reachable state.
THEOREM LimitInvariance == ASSUME ~StaleRetries PROVE Spec => []LimitInv
BY InitLimitInv, StepLimitInv, Invariance, PTL DEF Spec

\* Whoever raced for the last reservation slot, all ledgers together stay within
\* the slots of the owner, and new work never takes the one kept for recovery.
THEOREM SlotsHold == ASSUME ~StaleRetries PROVE Spec => []SlotCeiling
<1>1. LimitInv => SlotCeiling
  BY DEF LimitInv, Within, SlotCeiling
<1> QED BY <1>1, LimitInvariance, PTL

\* Once any ledger overran, no ledger is granted anything again.
THEOREM DefectsFreeze == ASSUME ~StaleRetries PROVE Spec => DefectFreezes
<1> DEFINE Freezes == Defective(agg) => Defective(agg') /\ \A l \in Ledgers : NewGrants(l) = {}
<1>1. IInv /\ LimitInv /\ Next => Freezes
  <2> SUFFICES ASSUME IInv, LimitInv, Next PROVE Freezes
    OBVIOUS
  <2>1. Orderly(agg, agg')
    BY NextHolds
  <2> QED BY <2>1 DEF Orderly, Fresh, NewGrants
<1>2. IInv /\ LimitInv /\ [Next]_vars => [Freezes]_vars
  BY <1>1
<1> QED BY <1>2, Invariance, LimitInvariance, PTL DEF Spec, DefectFreezes

\* What a step grants is over within MaxAge of the publication of the next
\* authority, whatever calls under the old one were still on their way.
THEOREM AuthorityBoundsGrants == ASSUME ~StaleRetries PROVE Spec => GrantsDieWithAuthority
<1> DEFINE Bounded == \A l \in Ledgers : \A g \in NewGrants(l) :
                        g.status = "reserved" /\ agg'.revision + 1 \in Known =>
                          g.expiresAt <= published[agg'.revision + 1] + MaxAge
<1>1. IInv /\ LimitInv /\ Next => Bounded
  <2> SUFFICES ASSUME IInv, LimitInv, Next, NEW l \in Ledgers, NEW g \in NewGrants(l),
                      g.status = "reserved", agg'.revision + 1 \in Known
               PROVE  g.expiresAt <= published[agg'.revision + 1] + MaxAge
    BY DEF Bounded
  <2>1. Orderly(agg, agg') /\ LimitInv' /\ IInv'
    BY NextHolds, NextAdvances
  <2>2. g \in Fresh(agg, agg', l)
    BY DEF NewGrants, Fresh
  <2>3. g.expiresAt <= agg'.expiresAt
    BY <2>1, <2>2 DEF Orderly
  <2>4. agg'.expiresAt <= agg'.checkedAt + MaxAge
    BY <2>1 DEF LimitInv, Leased
  <2>5. agg'.checkedAt <= published[agg'.revision + 1]
    <3>1. CASE published' = published
      BY <2>1, <3>1 DEF LimitInv, Leased, Known
    <3>2. CASE agg' = agg
      BY <3>2 DEF LimitInv, Leased
    <3>3. published' = published \/ agg' = agg
      BY DEF Next, VerifiedCall, UnverifiedCall, Tick, Publish, RefreshRPC, RevokeRPC, ReserveRPC,
             ReserveIngressRPC, ReconcileRPC, HandoffRPC, HandoffBatchRPC,
             ReserveUnverifiedRPC, Env
    <3> QED BY <3>1, <3>2, <3>3
  <2>6. /\ g.expiresAt \in Nat /\ agg'.expiresAt \in Nat /\ agg'.checkedAt \in Nat
        /\ published[agg'.revision + 1] \in Nat /\ MaxAge \in Nat
    <3>1. agg' \in Aggregate /\ g \in agg'.ledger[l].grants /\ published \in Seq(Nat)
      BY <2>1 DEF IInv, TypeOK, NewGrants
    <3>2. g \in Grant
      BY <3>1 DEF Aggregate, Ledger
    <3>3. published[agg'.revision + 1] \in Nat
      BY <3>1 DEF Known
    <3> QED BY <3>1, <3>2, <3>3, LimitAssumption DEF Aggregate, Grant
  <2> QED BY <2>3, <2>4, <2>5, <2>6
<1>2. IInv /\ LimitInv /\ [Next]_vars => [Bounded]_vars
  BY <1>1
<1> QED BY <1>2, Invariance, LimitInvariance, PTL DEF Spec, GrantsDieWithAuthority

=============================================================================
