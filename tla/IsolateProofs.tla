----------------------------- MODULE IsolateProofs -----------------------------
(***************************************************************************)
(* What holds of the life of a prepaid block, for any attempts, operations,*)
(* block sizes, refills, authorities and faults.                           *)
(***************************************************************************)
EXTENDS IsolateAdmission, OwnerAggregateProofs

-----------------------------------------------------------------------------
(* What the coordinator's steps do to the charges of tenant 1.             *)

\* A transition of the aggregate that settles nothing and grants nothing in l.
SteadyIn(S, T, l) ==
  Steady(S.ledger[l], T.ledger[l]) /\ T.ledger[l].next = S.ledger[l].next

\* A rejected call does not.
LEMMA SteadyInReflexive == ASSUME NEW S, NEW l PROVE SteadyIn(S, S, l)
BY FewerSteady DEF SteadyIn

\* Nor do transitions made one after the other.
LEMMA SteadyInTransitive ==
  ASSUME NEW S, NEW T, NEW U, NEW l, SteadyIn(S, T, l), SteadyIn(T, U, l)
  PROVE  SteadyIn(S, U, l)
BY SteadyTransitive DEF SteadyIn

\* Nor does retirement: what expired stays charged.
LEMMA RetireOneSteady ==
  ASSUME NEW S, AggInv(S), NEW now \in Nat, NEW l \in Ledgers
  PROVE  SteadyIn(S, RetireOne(S, now), l)
<1>1. CASE RetireOne(S, now) = S
  BY <1>1, SteadyInReflexive
<1>2. CASE RetireOne(S, now) # S
  <2>1. PICK k \in Ledgers : \E g \in Retirable(S.ledger[k], now) :
               RetireOne(S, now) = RetireSome(S, k, g, now)
    BY <1>2, RetireOneCloses
  <2>2. PICK g \in Retirable(S.ledger[k], now) : RetireOne(S, now) = RetireSome(S, k, g, now)
    BY <2>1
  <2> DEFINE L == S.ledger[k]
             h == [g EXCEPT !.status = "uncertain"]
             C == Compact(L, h, now)
  <2>3. LedgerInv(L)
    BY DEF AggInv
  <2>4. g \in L.grants /\ h \in Grant /\ SameGrant(g, h) /\ SameCharge(g, h)
    BY <2>3, RetiredVersion
  <2>5. RetireOne(S, now) = WithLedger(S, k, C)
    BY <2>2 DEF RetireSome
  <2>6. L = S.ledger[k]
    BY DEF L
  <2> HIDE DEF h, L
  <2>7. Steady(L, C) /\ C.next = L.next
    BY <2>3, <2>4, CompactInv, CompactSteady DEF Continues
  <2> HIDE DEF C
  <2>8. WithLedger(S, k, C).ledger[l] = IF l = k THEN C ELSE S.ledger[l]
    BY DEF WithLedger, AggInv, Aggregate
  <2> QED BY <2>5, <2>6, <2>7, <2>8, FewerSteady DEF SteadyIn
<1> QED BY <1>1, <1>2

\* Nor do the two retirements of a call.
LEMMA RetireExpiredSteady ==
  ASSUME NEW S, AggInv(S), NEW now \in Nat, NEW T \in RetireExpired(S, now), NEW l \in Ledgers
  PROVE  SteadyIn(S, T, l)
<1> DEFINE M == RetireOne(S, now)
<1>1. AggInv(M) /\ SteadyIn(S, M, l)
  BY RetireOneKeeps, RetireOneSteady DEF Keeps
<1>2. T = RetireOne(M, now)
  BY DEF RetireExpired
<1> HIDE DEF M
<1> QED BY <1>1, <1>2, RetireOneSteady, SteadyInTransitive

\* A renewal fences, and settles nothing.
LEMMA RenewSteady ==
  ASSUME NEW S, AggInv(S), NEW r \in Revisions, NEW at \in Nat, NEW l \in Ledgers
  PROVE  SteadyIn(S, Renew(S, r, at), l)
<1> DEFINE policy == Authority[r].policies[l]
           L == S.ledger[l]
<1>1. policy \in Policy /\ LedgerInv(L)
  BY PoliciesType DEF AggInv
<1>2. Renew(S, r, at).ledger[l] = IF SameTerms(policy, L.policy) THEN L ELSE Adopt(L, policy, at)
  BY DEF Renew, AggInv, Aggregate
<1>3. Steady(L, Adopt(L, policy, at)) /\ Adopt(L, policy, at).next = L.next
  BY <1>1, AdoptInv, AdoptSteady
<1> HIDE DEF policy
<1> QED BY <1>2, <1>3, FewerSteady DEF SteadyIn

\* Transitions that settle nothing may come before a reservation.
LEMMA SteadyThenBut ==
  ASSUME NEW L, NEW M, NEW N, NEW req, Steady(L, M), M.next = L.next, SteadyBut(M, N, req)
  PROVE  SteadyBut(L, N, req)
<1>1. CASE Steady(M, N) /\ N.next = M.next
  BY <1>1, SteadyTransitive DEF SteadyBut
<1>2. CASE /\ N.next = M.next + 1
           /\ \A h \in N.grants : (\E g \in M.grants : SameCharge(g, h)) \/ GrantFor(h, M.next, req)
  <2>1. ASSUME NEW k \in N.grants, NEW h \in M.grants, SameCharge(h, k)
        PROVE  \E g \in L.grants : SameCharge(g, k)
    <3>1. PICK g \in L.grants : SameCharge(g, h)
      BY DEF Steady
    <3> QED BY <2>1, <3>1 DEF SameCharge, Later, SameGrant
  <2> QED BY <1>2, <2>1 DEF SteadyBut
<1> QED BY <1>1, <1>2 DEF SteadyBut

\* A reservation grants at most what it asks for.
LEMMA ReserveTenantSteady ==
  ASSUME NEW S, AggInv(S), NEW l \in Ledgers, NEW req \in Request
  PROVE  SteadyBut(S.ledger[l], ReserveTenant(S, l, req).ledger[l], req)
<1> DEFINE L == S.ledger[l]
           E == Expire(L, req.now)
           A == ExpireAll(S, req.now)
<1>1. req.now \in Nat /\ LedgerInv(L)
  BY DEF Request, AggInv
<1>2. LedgerInv(E) /\ Steady(L, E) /\ E.next = L.next
  BY <1>1, ExpireInv, ExpireSteady DEF Continues
<1>3. \A N : WithLedger(S, l, N).ledger[l] = N /\ WithLedger(A, l, N).ledger[l] = N
  BY DEF WithLedger, ExpireAll, AggInv, Aggregate
<1>4. A.ledger[l] = E
  BY DEF ExpireAll, AggInv, Aggregate
<1> HIDE DEF E, A
<1>5. SteadyBut(L, E, req)
  BY <1>2 DEF SteadyBut
<1>6. \A clip : SteadyBut(L, Reserve(E, req, clip), req)
  BY <1>2, ReserveSteady, SteadyThenBut
<1>7. ReserveTenant(S, l, req).ledger[l] = E \/ \E clip : ReserveTenant(S, l, req).ledger[l] = Reserve(E, req, clip)
  BY <1>3, <1>4 DEF ReserveTenant, ReserveNew, E, A
<1> QED BY <1>5, <1>6, <1>7

\* Tenant 1 is the one whose ledger pays for the isolate's work.
LEMMA TenantType == 1 \in Ledgers /\ 1 \in Tenants
BY AdmissionAssumption DEF Ledgers, Tenants

\* A step that advances the aggregate and publishes nothing keeps the invariant.
LEMMA AdvancesIInv ==
  ASSUME IInv, AggInv(agg'), Env, UNCHANGED anon
  PROVE  IInv' /\ published' = published /\ clock' = clock
BY DEF IInv, AggInv, TypeOK, Env

\* refreshFromTrustedAuthority, as an isolate calls it.
LEMMA RefreshCall ==
  ASSUME IInv, NEW r, NEW at, RefreshRPC(r, at)
  PROVE  /\ IInv' /\ published' = published /\ clock' = clock
         /\ SteadyIn(agg, agg', 1)
<1> DEFINE R == Renew(agg, r, at)
<1>1. r \in Revisions /\ at \in Times /\ at \in Nat /\ AggInv(agg)
  BY KnownType, TimesType DEF RefreshRPC, Readable, IInv, TypeOK
<1>2. AggInv(agg')
  BY <1>1, RefreshAdvances DEF Advances
<1>3. AggInv(R) /\ SteadyIn(agg, R, 1)
  BY <1>1, RenewInv, RenewSteady, TenantType
<1>4. agg' \in RetireExpired(R, at) /\ Env /\ UNCHANGED anon
  BY DEF RefreshRPC
<1> HIDE DEF R
<1>5. SteadyIn(agg, agg', 1)
  BY <1>1, <1>3, <1>4, RetireExpiredSteady, SteadyInTransitive, TenantType
<1> QED BY <1>2, <1>4, <1>5, AdvancesIInv

\* reserveFromTrustedAuthority, as an isolate calls it.
LEMMA ReserveCall ==
  ASSUME IInv, NEW req \in Request, ReserveRPC(1, req)
  PROVE  /\ IInv' /\ published' = published /\ clock' = clock
         /\ SteadyBut(agg.ledger[1], agg'.ledger[1], req)
<1>1. AggInv(agg) /\ req.now \in Nat
  BY DEF IInv, Request
<1>2. PICK S \in RetireExpired(agg, req.now) : agg' = ReserveTenant(S, 1, req) \/ agg' = S
  BY DEF ReserveRPC
<1>3. Keeps(agg, S) /\ AggInv(S) /\ SteadyIn(agg, S, 1)
  BY <1>1, RetireExpiredKeeps, RetireExpiredSteady, TenantType DEF Keeps
<1>4. AggInv(ReserveTenant(S, 1, req))
  BY <1>3, ReserveTenantKeeps, TenantType DEF Keeps
<1>5. SteadyBut(agg.ledger[1], ReserveTenant(S, 1, req).ledger[1], req)
  BY <1>3, ReserveTenantSteady, SteadyThenBut, TenantType DEF SteadyIn
<1>6. SteadyBut(agg.ledger[1], S.ledger[1], req)
  BY <1>3 DEF SteadyIn, SteadyBut
<1>7. Env /\ UNCHANGED anon
  BY DEF ReserveRPC
<1> QED BY <1>2, <1>3, <1>4, <1>5, <1>6, <1>7, AdvancesIInv

\* What a reconciliation of reservation s at observed use makes of a grant.
SettledAs(L, k, s, observed) ==
  \/ \E g \in L.grants : SameCharge(g, k)
  \/ /\ \E g \in L.grants : Later(g, k)
     /\ k.status = "reconciled"
     /\ k.purpose = "recovery" \/ (k.seq = s /\ k.accounted = observed)

\* reconcileFromTrustedAuthority, as an isolate calls it: what it accepts is
\* settled for what was observed.
LEMMA ReconcileCall ==
  ASSUME IInv, NEW s, NEW ev \in Evident, ReconcileRPC(1, s, ev)
  PROVE  /\ IInv' /\ published' = published /\ clock' = clock
         /\ agg'.ledger[1].next = agg.ledger[1].next
         /\ \A k \in agg'.ledger[1].grants : SettledAs(agg.ledger[1], k, s, ev.observed)
         /\ \/ ClosedBy(agg, 1, s, ev) # {}
            \/ \E g \in Expire(agg.ledger[1], ev.now).grants : g.seq = s /\ g.status = "reconciled"
            => \A k \in agg'.ledger[1].grants : k.seq = s => k.status = "reconciled"
<1> DEFINE L == agg.ledger[1]
           E == Expire(L, ev.now)
           closing == ClosedBy(agg, 1, s, ev)
           c == CHOOSE g \in closing : TRUE
           M == Reconcile(E, c, ev)
<1>1. AggInv(agg) /\ LedgerInv(L) /\ ev.now \in Nat
  BY TenantType DEF IInv, AggInv, Evident
<1>2. LedgerInv(E) /\ Steady(L, E) /\ E.next = L.next
  BY <1>1, ExpireInv, ExpireSteady DEF Continues
<1>3. agg' = CloseGrant(agg, 1, s, ev) /\ Env /\ UNCHANGED anon
  BY DEF ReconcileRPC
<1>4. AggInv(agg')
  BY <1>1, <1>3, CloseGrantKeeps, TenantType DEF Keeps
<1>5. agg'.ledger[1] = IF closing = {} THEN E ELSE M
  BY <1>1, <1>3, TenantType DEF CloseGrant, WithLedger, AggInv, Aggregate
<1>6. \A k \in E.grants : \E g \in L.grants : SameCharge(g, k)
  BY <1>2 DEF Steady
<1>7. \A k : \A j \in E.grants : Later(j, k) => \E g \in L.grants : Later(g, k)
  BY <1>6 DEF SameCharge, Later, SameGrant
<1>8. CASE closing = {}
  <2>1. \A g, k \in E.grants : g.seq = k.seq => g = k
    BY <1>2 DEF LedgerInv, Numbered
  <2> HIDE DEF E
  <2> QED BY <1>2, <1>3, <1>4, <1>5, <1>6, <1>8, <2>1, AdvancesIInv DEF SettledAs, E
<1>9. CASE closing # {}
  <2>1. c \in E.grants /\ c.seq = s /\ Closable(E, c, ev)
    BY <1>9 DEF ClosedBy
  <2> HIDE DEF c, E
  <2>2. /\ M.next = E.next
        /\ \A k \in M.grants :
             \/ k \in E.grants /\ k.seq # s
             \/ Later(c, k) /\ k.status = "reconciled" /\ k.accounted = ev.observed
             \/ /\ k.purpose = "recovery" /\ k.status = "reconciled" /\ k.seq # s
                /\ \E r \in E.grants : Later(r, k)
    BY <1>2, <2>1, ReconcileInv, ReconcileCharges DEF Continues
  <2>3. \A k : Later(c, k) => k.seq = s
    BY <2>1 DEF Later, SameGrant
  <2> HIDE DEF M, closing
  <2>4. \A k \in M.grants : SettledAs(L, k, s, ev.observed)
    BY <1>6, <1>7, <2>1, <2>2, <2>3 DEF SettledAs
  <2>5. \A k \in M.grants : k.seq = s => k.status = "reconciled"
    BY <2>2
  <2> QED BY <1>2, <1>3, <1>4, <1>5, <1>9, <2>2, <2>4, <2>5, AdvancesIInv
<1> QED BY <1>8, <1>9
-----------------------------------------------------------------------------
(* Types.  What is numbered is judged against n, the blocks asked for, and *)
(* K, the revisions published.                                             *)

\* An attempt that was admitted and is not over, or one that recovers a block.
Paying == {"admitted", "commit", "ok", "failed"}
Recovering == {"recover", "rec-refresh", "rec-reserve", "rec-read", "rec-close", "rec-reconcile",
               "rec-mark"}
Engaged == Paying \cup Recovering

AuthType == [rev : Nat, at : Nat, exp : Nat]

EntryType ==
  [live : BOOLEAN, gen : Nat, blocked : BOOLEAN, refills : 0 .. MaxRefills, rev : Nat, until : Nat,
   checked : Nat, floor : Nat, first : Nat, pending : 0 .. MaxHolders,
   route : [Ops -> 0 .. MaxHolders], holders : SUBSET Holder]

CallType ==
  [pc : CallStates, at : Nat, lo : Nat, gen : Int, pend : 0 .. MaxHolders, hold : 0 .. MaxHolders,
   seq : Nat, rev : Nat, exp : Nat, ops : SUBSET Ops, rseq : Nat]

AllocType ==
  [stage : {"none", "refresh", "reserve"} \cup Statuses, n : Nat, gen : Nat, auth : AuthType,
   size : 0 .. BlockSize, try : Nat, seq : Nat, until : Nat]

Batch == [attempt : Attempts, seq : Nat \ {0}, rev : Nat, exp : Nat]

HolderOK(h, n, K) ==
  /\ h.n <= n /\ h.rev \in K /\ (~h.sealed => h.recoveries = 0)
  /\ \A o \in Ops : h.ops[o].active <= h.ops[o].tries

EntryOK(E, n, K) ==
  E \in EntryType /\ E.pending <= n /\ \A h \in E.holders : HolderOK(h, n, K)

CallOK(c, n, K) ==
  /\ c \in CallType /\ c.hold <= n /\ c.pend <= n
  /\ c.pc \in Engaged => c.hold >= 1 /\ c.seq >= 1 /\ c.rev \in K

AllocOK(A, n, K) ==
  /\ A \in AllocType
  /\ A.stage # "none" => A.n \in 1 .. n /\ A.auth.rev \in K /\ A.size >= 1
  /\ A.stage \in Statuses => A.seq >= 1

JournalOK(J) ==
  /\ J.links \subseteq (Nat \ {0}) \X Ops /\ J.done \subseteq (Nat \ {0}) \X Ops
  /\ J.receipts \subseteq Ops
  /\ J = [links |-> J.links, closures |-> J.closures, done |-> J.done, receipts |-> J.receipts]

CallsOK(C, n, K) == C = [a \in Attempts |-> C[a]] /\ \A a \in Attempts : CallOK(C[a], n, K)

Typed ==
  /\ issued \in 0 .. MaxHolders
  /\ EntryOK(entry, issued, Known) /\ CallsOK(call, issued, Known)
  /\ AllocOK(alloc, issued, Known)
  /\ JournalOK(d1) /\ flight \subseteq Batch

\* The bounds are numbers.
LEMMA Bounds ==
  /\ MaxHolders \in Nat /\ MaxRefills \in Nat \ {0} /\ MaxRecoveries \in Nat \ {0}
  /\ BlockSize \in Nat \ {0} /\ OpAttempts \in Nat \ {0} /\ IsFiniteSet(Ops)
  /\ OpOf \in [Attempts -> Ops]
BY AdmissionAssumption, IsolateAssumption

\* What was in order stays so when more is issued and published.
LEMMA EntryGrows ==
  ASSUME NEW E, NEW n \in Nat, NEW K, EntryOK(E, n, K), NEW m \in Nat, n <= m, NEW M, K \subseteq M
  PROVE  EntryOK(E, m, M)
BY DEF EntryOK, EntryType, HolderOK, Holder

LEMMA CallGrows ==
  ASSUME NEW c, NEW n \in Nat, NEW K, CallOK(c, n, K), NEW m \in Nat, n <= m, NEW M, K \subseteq M
  PROVE  CallOK(c, m, M)
BY DEF CallOK, CallType

LEMMA AllocGrows ==
  ASSUME NEW A, NEW n \in Nat, NEW K, AllocOK(A, n, K), NEW m \in Nat, n <= m, NEW M, K \subseteq M
  PROVE  AllocOK(A, m, M)
BY DEF AllocOK, AllocType

\* A revision that is read is one that was published and is not revoked.
LEMMA ReadKnown ==
  ASSUME IInv, NEW c \in CallType, NEW r \in ReadAuthority(c), r # 0
  PROVE  r \in Known /\ r \in Revisions /\ r \in Nat /\ AuthOf(c, r) \in AuthType /\ AuthOf(c, r).rev = r
<1>1. Len(published) \in Nat /\ c.lo \in Nat /\ c.at \in Nat
  BY DEF IInv, TypeOK, CallType
<1>2. r \in Known
  BY <1>1 DEF ReadAuthority, Known
<1> QED BY <1>1, <1>2, KnownType, LimitAssumption DEF AuthOf, AuthType, Known

\* An interval ends at some time.
LEMMA IntervalEndType == ASSUME NEW r \in Revisions PROVE IntervalEnd(r) \in Nat
<1> DEFINE ends == {AllocInfo[Authority[r].policies[1].budgets[d].alloc] : d \in Dims}
           until == {w.endsAt : w \in {v \in ends : ~v.stock}}
<1>1. Authority[r].policies[1] \in Policy
  BY PoliciesType, TenantType
<1>2. ends \subseteq Window
  BY <1>1, AllocInfoType DEF Policy, Budget
<1>3. until \subseteq Nat
  BY <1>2 DEF Window
<1>4. IntervalEnd(r) = IF until = {} THEN MaxTime + 1 ELSE Earliest(until)
  BY DEF IntervalEnd
<1>5. MaxTime + 1 \in Nat
  BY LimitAssumption
<1> HIDE DEF until
<1>6. until # {} => Earliest(until) \in until
  BY <1>3, EarliestIsMinimal
<1> QED BY <1>3, <1>4, <1>5, <1>6

\* The size asked for is one of the sizes.
LEMMA SizeType ==
  ASSUME NEW r, Sizes(r) # {}
  PROVE  (CHOOSE k \in Sizes(r) : \A j \in Sizes(r) : j <= k) \in 1 .. BlockSize
<1> DEFINE left == {BlockSize - k : k \in Sizes(r)}
<1>1. Sizes(r) \subseteq 1 .. BlockSize /\ BlockSize \in Nat
  BY AdmissionAssumption DEF Sizes
<1>2. left \subseteq Nat /\ left # {}
  BY <1>1
<1>3. Earliest(left) \in left /\ \A u \in left : Earliest(left) <= u
  <2> HIDE DEF left
  <2> QED BY <1>2, EarliestIsMinimal
<1>4. PICK k \in Sizes(r) : Earliest(left) = BlockSize - k
  BY <1>3
<1>5. \A j \in Sizes(r) : BlockSize - k <= BlockSize - j
  BY <1>3, <1>4
<1>6. \A j \in Sizes(r) : j <= k
  BY <1>1, <1>5
<1> QED BY <1>1, <1>6
-----------------------------------------------------------------------------
(* The operations of an entry are well-typed.                              *)

LEMMA NoEntryOK == ASSUME NEW n \in Nat, NEW K PROVE EntryOK(NoEntry, n, K)
BY Bounds DEF EntryOK, NoEntry, EntryType

LEMMA NewEntryOK ==
  ASSUME NEW n \in Nat, NEW K, NEW auth \in AuthType, NEW until \in Nat, NEW first \in Nat
  PROVE  EntryOK(NewEntry(auth, until, first), n, K)
<1>1. NoEntry \in EntryType /\ NoEntry.holders = {} /\ NoEntry.pending = 0
  BY Bounds DEF NoEntry, EntryType
<1>2. NewEntry(auth, until, first) \in EntryType
      /\ NewEntry(auth, until, first).holders = {} /\ NewEntry(auth, until, first).pending = 0
  BY <1>1 DEF NewEntry, EntryType, AuthType
<1> QED BY <1>2 DEF EntryOK

LEMMA RetireEntryOK ==
  ASSUME NEW E, NEW n, NEW K, EntryOK(E, n, K)
  PROVE  EntryOK(RetireEntry(E), n, K)
<1> DEFINE old(h) == [h EXCEPT !.retired = TRUE]
           H == {old(h) : h \in E.holders}
<1>1. \A h \in E.holders : old(h) \in Holder /\ HolderOK(old(h), n, K)
  BY DEF EntryOK, EntryType, Holder, HolderOK
<1>2. RetireEntry(E) = [E EXCEPT !.gen = IF E.blocked THEN @ ELSE @ + 1, !.blocked = TRUE, !.holders = H]
  BY DEF RetireEntry
<1>3. H \subseteq Holder /\ \A h \in H : HolderOK(h, n, K)
  BY <1>1
<1>4. (IF E.blocked THEN E.gen ELSE E.gen + 1) \in Nat
  BY DEF EntryOK, EntryType
<1> HIDE DEF H, old
<1> QED BY <1>2, <1>3, <1>4 DEF EntryOK, EntryType

LEMMA RenewEntryOK ==
  ASSUME NEW E, NEW n, NEW K, EntryOK(E, n, K), NEW auth \in AuthType, NEW until \in Nat
  PROVE  EntryOK(RenewEntry(E, auth, until), n, K)
<1>1. (IF until > E.until THEN until ELSE E.until) \in Nat /\ [o \in Ops |-> 0] \in [Ops -> 0 .. MaxHolders]
  BY Bounds DEF EntryOK, EntryType
<1> QED BY <1>1 DEF EntryOK, RenewEntry, EntryType, AuthType

LEMMA ObservedOK ==
  ASSUME NEW E, NEW n, NEW K, EntryOK(E, n, K), NEW auth \in AuthType
  PROVE  EntryOK(Observed(E, auth), n, K)
BY DEF EntryOK, Observed, EntryType, AuthType

LEMMA ReplaceHolderOK ==
  ASSUME NEW E, NEW n, NEW K, EntryOK(E, n, K), NEW h \in Holder, HolderOK(h, n, K)
  PROVE  EntryOK(ReplaceHolder(E, h), n, K)
<1> DEFINE H == {k \in E.holders : k.n # h.n} \cup {h}
<1>1. H \subseteq Holder /\ \A k \in H : HolderOK(k, n, K)
  BY DEF EntryOK, EntryType
<1>2. ReplaceHolder(E, h) = [E EXCEPT !.holders = H]
  BY DEF ReplaceHolder
<1> HIDE DEF H
<1> QED BY <1>1, <1>2 DEF EntryOK, EntryType

\* What spending makes of a holder: only a payment touches its operations.
PaidOp(op) ==
  [tries |-> op.tries + 1, active |-> op.active + 1,
   state |-> IF op.state = "unknown" THEN "unknown" ELSE "in-flight"]

Pays(outcome) == outcome \in {"spent", "idempotent"}

LEMMA OutcomePays ==
  ASSUME NEW h \in Holder, NEW o \in Ops, NEW auth \in AuthType, NEW now \in Nat,
         Pays(Outcome(h, o, auth, now))
  PROVE  /\ ~h.sealed /\ auth.rev = h.rev /\ h.ops[o].tries < OpAttempts
         /\ Cardinality(Operations(h)) < h.size \/ h.ops[o].tries > 0
<1>1. h.ops[o].tries \in 0 .. OpAttempts /\ OpAttempts \in Nat \ {0} /\ h.size \in Nat
  BY IsolateAssumption DEF Holder, HeldOperation
<1>2. Cardinality(Operations(h)) \in Nat
  <2>1. Operations(h) \subseteq Ops
    BY DEF Operations
  <2> QED BY <2>1, FS_Subset, FS_CardinalityType, IsolateAssumption
<1>3. ~h.sealed /\ auth.rev = h.rev
  BY DEF Outcome, Pays
<1>4. Outcome(h, o, auth, now) =
        CASE h.ops[o].tries >= OpAttempts -> "replay-exhausted"
          [] h.ops[o].tries \in 1 .. OpAttempts - 1 -> "idempotent"
          [] h.ops[o].tries = 0 /\ Cardinality(Operations(h)) >= h.size -> "exhausted"
          [] OTHER -> "spent"
  BY DEF Outcome, Pays
<1> QED BY <1>1, <1>2, <1>3, <1>4 DEF Pays

\* Versions of a holder that differ in nothing the invariants are about.
Same(h, k) ==
  /\ k.n = h.n /\ k.seq = h.seq /\ k.size = h.size /\ k.rev = h.rev
  /\ k.sealed = h.sealed /\ k.recoveries = h.recoveries /\ k.ops = h.ops

\* Version k of h has paid for one more attempt of operation o.
PaidFor(h, k, o) ==
  /\ k.n = h.n /\ k.seq = h.seq /\ k.size = h.size /\ k.rev = h.rev
  /\ k.sealed = h.sealed /\ k.recoveries = h.recoveries
  /\ k.ops = [h.ops EXCEPT ![o] = PaidOp(h.ops[o])]

LEMMA SpendMakes ==
  ASSUME NEW h \in Holder, NEW o \in Ops, NEW auth \in AuthType, NEW now \in Nat
  PROVE  LET k == Spend(h, o, auth, now)
         IN /\ ~Pays(Outcome(h, o, auth, now)) => k \in Holder /\ Same(h, k)
            /\ Pays(Outcome(h, o, auth, now)) => PaidFor(h, k, o)
            /\ k.until = h.until /\ k.settled = h.settled
            /\ k = [f \in DOMAIN h |-> k[f]] /\ k.checked \in Nat /\ k.retired \in BOOLEAN
<1> DEFINE out == Outcome(h, o, auth, now)
           k == Spend(h, o, auth, now)
<1>1. CASE Pays(out)
  BY <1>1 DEF Spend, Pays, PaidFor, PaidOp, Holder, AuthType
<1>2. CASE out = "stale"
  BY <1>2 DEF Spend, Pays, Same, Holder, AuthType
<1>3. CASE ~Pays(out) /\ out # "stale"
  <2>1. k = IF h.sealed THEN h ELSE [h EXCEPT !.checked = auth.at]
    BY <1>3 DEF Spend, Pays
  <2> HIDE DEF k, out
  <2> QED BY <1>3, <2>1 DEF Same, Holder, AuthType, k, out
<1> QED BY <1>1, <1>2, <1>3
\* Spending keeps a holder well-typed.
LEMMA SpendOK ==
  ASSUME NEW h \in Holder, NEW n, NEW K, HolderOK(h, n, K), NEW o \in Ops,
         NEW auth \in AuthType, NEW now \in Nat
  PROVE  Spend(h, o, auth, now) \in Holder /\ HolderOK(Spend(h, o, auth, now), n, K)
<1> DEFINE k == Spend(h, o, auth, now)
           out == Outcome(h, o, auth, now)
<1>1. CASE ~Pays(out)
  <2>1. k \in Holder /\ Same(h, k)
    BY <1>1, SpendMakes
  <2> QED BY <2>1 DEF HolderOK, Same
<1>2. CASE Pays(out)
  <2>1. PaidFor(h, k, o) /\ h.ops[o].tries < OpAttempts
    BY <1>2, SpendMakes, OutcomePays
  <2>2. h.ops \in [Ops -> HeldOperation] /\ h.ops[o].active <= h.ops[o].tries
    BY DEF Holder, HolderOK
  <2>3. PaidOp(h.ops[o]) \in HeldOperation
    BY <2>1, <2>2, Bounds DEF HeldOperation, PaidOp, OpStates
  <2>4. k.ops \in [Ops -> HeldOperation] /\ \A p \in Ops : k.ops[p].active <= k.ops[p].tries
    BY <2>1, <2>2, <2>3 DEF PaidFor, PaidOp, HeldOperation, HolderOK
  <2>5. /\ k.until = h.until /\ k.settled = h.settled
        /\ k = [f \in DOMAIN h |-> k[f]] /\ k.checked \in Nat /\ k.retired \in BOOLEAN
    BY SpendMakes
  <2> HIDE DEF k
  <2>6. k \in Holder
    BY <2>1, <2>4, <2>5 DEF PaidFor, Holder
  <2>7. HolderOK(k, n, K)
    BY <2>1, <2>4 DEF HolderOK, PaidFor
  <2> QED BY <2>6, <2>7 DEF k
<1> QED BY <1>1, <1>2

\* A sealed holder is a holder.
LEMMA SealOK ==
  ASSUME NEW h \in Holder, NEW n, NEW K, HolderOK(h, n, K), NEW now,
         Retryable(h) \/ Quiescent(h, now)
  PROVE  LET k == [h EXCEPT !.sealed = TRUE, !.recoveries = @ + 1]
         IN k \in Holder /\ HolderOK(k, n, K)
<1> DEFINE k == [h EXCEPT !.sealed = TRUE, !.recoveries = @ + 1]
<1>1. h.recoveries + 1 \in 0 .. MaxRecoveries
  BY Bounds DEF Retryable, Quiescent, HolderOK, Holder
<1>2. k \in Holder
  BY <1>1 DEF Holder
<1>3. k.sealed /\ k.n = h.n /\ k.rev = h.rev /\ k.ops = h.ops
  BY DEF Holder
<1> HIDE DEF k
<1>4. HolderOK(k, n, K)
  BY <1>3 DEF HolderOK
<1> QED BY <1>2, <1>4 DEF k

\* So is a new one.
LEMMA NewHolderOK ==
  ASSUME NEW n \in Nat, NEW K \in SUBSET (Nat \ {0}), NEW m \in 1 .. n, NEW size \in Nat \ {0},
         NEW auth \in AuthType, auth.rev \in K, NEW s \in Nat \ {0}, NEW until \in Nat
  PROVE  LET k == NewHolder(m, size, auth, s, until) IN k \in Holder /\ HolderOK(k, n, K)
<1> DEFINE k == NewHolder(m, size, auth, s, until)
<1>1. [o \in Ops |-> [tries |-> 0, active |-> 0, state |-> "none"]] \in [Ops -> HeldOperation]
  BY Bounds DEF HeldOperation, OpStates
<1>2. k \in Holder
  BY <1>1, Bounds DEF NewHolder, Holder, AuthType
<1>3. /\ k.n = m /\ k.rev = auth.rev /\ k.recoveries = 0
      /\ \A o \in Ops : k.ops[o].active = 0 /\ k.ops[o].tries = 0
  BY DEF NewHolder
<1> HIDE DEF k
<1>4. HolderOK(k, n, K)
  BY <1>3 DEF HolderOK
<1> QED BY <1>2, <1>4 DEF k

\* What settling makes of a holder: one attempt less is active.
SettledOp(op, s) == [tries |-> op.tries, active |-> op.active - 1, state |-> s]

SettledFor(h, k, o, s) ==
  /\ k.n = h.n /\ k.seq = h.seq /\ k.size = h.size /\ k.rev = h.rev
  /\ k.sealed = h.sealed /\ k.recoveries = h.recoveries
  /\ k.ops = [h.ops EXCEPT ![o] = SettledOp(h.ops[o], s)]

LEMMA SettleMakes ==
  ASSUME NEW h \in Holder, NEW o \in Ops, NEW outcome, NEW now \in Nat
  PROVE  \E s \in OpStates :
           /\ SettledFor(h, SettleHolder(h, o, outcome, now), o, s)
           /\ s = "committed" => outcome # "unknown" \/ h.ops[o].state = "committed"
           /\ LET k == SettleHolder(h, o, outcome, now)
              IN /\ k.until = h.until /\ k.checked = h.checked /\ k.retired = h.retired
                 /\ k = [f \in DOMAIN h |-> k[f]] /\ k.settled \in Int
<1> DEFINE k == SettleHolder(h, o, outcome, now)
           op == [h.ops[o] EXCEPT !.active = @ - 1]
           done == op.state = "in-flight" /\ h.ops[o].active - 1 = 0
           s == IF outcome = "unknown" THEN "unknown"
                ELSE IF done THEN "committed" ELSE h.ops[o].state
<1>1. h.ops \in [Ops -> HeldOperation] /\ h.ops[o] \in HeldOperation /\ h.settled \in Int
  BY DEF Holder
<1>2. s \in OpStates /\ (s = "committed" => outcome # "unknown" \/ h.ops[o].state = "committed")
  BY <1>1 DEF OpStates, HeldOperation
<1>3. op = SettledOp(h.ops[o], h.ops[o].state) /\ \A t : [op EXCEPT !.state = t] = SettledOp(h.ops[o], t)
  <2>1. op = [tries |-> h.ops[o].tries, active |-> h.ops[o].active - 1, state |-> h.ops[o].state]
    BY <1>1 DEF HeldOperation
  <2> HIDE DEF op
  <2> QED BY <2>1 DEF SettledOp
<1> DEFINE Rest == /\ k.until = h.until /\ k.checked = h.checked /\ k.retired = h.retired
                   /\ k = [f \in DOMAIN h |-> k[f]] /\ k.settled \in Int
<1>4. ASSUME outcome = "unknown"
      PROVE  SettledFor(h, k, o, s) /\ Rest
  <2>1. k = [h EXCEPT !.ops[o] = SettledOp(h.ops[o], s)]
    BY <1>3, <1>4 DEF SettleHolder
  <2> HIDE DEF k, s
  <2>2. SettledFor(h, k, o, s) /\ Rest
    BY <1>1, <2>1 DEF SettledFor, Holder
  <2> QED BY <2>2
<1>5. ASSUME outcome # "unknown" /\ done
      PROVE  SettledFor(h, k, o, s) /\ Rest
  <2>1. k = [h EXCEPT !.ops[o] = SettledOp(h.ops[o], s), !.settled = now]
    BY <1>3, <1>5 DEF SettleHolder
  <2> HIDE DEF k, s, op, done
  <2>3. k.ops = [h.ops EXCEPT ![o] = SettledOp(h.ops[o], s)] /\ k.settled = now /\ now \in Int
    BY <2>1 DEF Holder
  <2>2. SettledFor(h, k, o, s) /\ Rest
    BY <2>1, <2>3 DEF SettledFor, Holder
  <2> QED BY <2>2
<1>6. ASSUME outcome # "unknown" /\ ~done
      PROVE  SettledFor(h, k, o, s) /\ Rest
  <2>1. k = [h EXCEPT !.ops[o] = SettledOp(h.ops[o], s)]
    BY <1>3, <1>6 DEF SettleHolder
  <2> HIDE DEF k, s, op
  <2>2. SettledFor(h, k, o, s) /\ Rest
    BY <1>1, <2>1 DEF SettledFor, Holder
  <2> QED BY <2>2
<1>7. SettledFor(h, k, o, s) /\ Rest
  BY <1>4, <1>5, <1>6
<1> HIDE DEF s
<1> QED BY <1>2, <1>7

\* Settling needs a payment that is still active.
LEMMA SettleOK ==
  ASSUME NEW h \in Holder, NEW n, NEW K, HolderOK(h, n, K), NEW o \in Ops, h.ops[o].active >= 1,
         NEW outcome, NEW now \in Nat
  PROVE  SettleHolder(h, o, outcome, now) \in Holder /\ HolderOK(SettleHolder(h, o, outcome, now), n, K)
<1> DEFINE k == SettleHolder(h, o, outcome, now)
<1>1. PICK s \in OpStates :
        /\ SettledFor(h, k, o, s)
        /\ k.until = h.until /\ k.checked = h.checked /\ k.retired = h.retired
        /\ k = [f \in DOMAIN h |-> k[f]] /\ k.settled \in Int
  BY SettleMakes
<1> HIDE DEF k
<1>2. h.ops \in [Ops -> HeldOperation] /\ h.ops[o] \in HeldOperation /\ \A p \in Ops : h.ops[p].active <= h.ops[p].tries
  BY DEF Holder, HolderOK
<1>3. SettledOp(h.ops[o], s) \in HeldOperation /\ h.ops[o].active - 1 <= h.ops[o].tries
  BY <1>2, Bounds DEF SettledOp, HeldOperation
<1>4. k.ops \in [Ops -> HeldOperation] /\ \A p \in Ops : k.ops[p].active <= k.ops[p].tries
  BY <1>1, <1>2, <1>3 DEF SettledFor, SettledOp
<1>5. k \in Holder
  BY <1>1, <1>4 DEF SettledFor, Holder
<1>6. HolderOK(k, n, K)
  BY <1>1, <1>4 DEF SettledFor, HolderOK
<1> QED BY <1>5, <1>6 DEF k
-----------------------------------------------------------------------------
(* What a step does to the blocks.  Most steps are idle: no attempt begins *)
(* or ends to pay, no block is sealed, nothing is sent or committed.       *)

Grants == agg.ledger[1].grants
NewWork == {g \in Grants : g.purpose = "new-work"}

\* An attempt that pays or recovers after a step did so before.
CallKept(c, d) ==
  /\ d.pc \in Paying => c.pc \in Paying /\ d.hold = c.hold /\ d.seq = c.seq
  /\ d.pc \in Recovering => c.pc \in Recovering /\ d.hold = c.hold /\ d.seq = c.seq /\ d.ops = c.ops

\* A commit is believed for a receipt, and a closure when the coordinator has it.
CallIdle(a) ==
  /\ CallKept(call[a], call'[a])
  /\ call'[a].pc = "ok" => call[a].pc = "ok" \/ OpOf[a] \in d1'.receipts
  /\ call'[a].pc = "rec-mark" =>
       \/ call[a].pc = "rec-mark"
       \/ \A g \in NewWork' : g.seq = call'[a].seq => g.status = "reconciled"

Others(a) == \A e \in Attempts \ {a} : call'[e] = call[e]
HoldersKept(H, K) == \A k \in K : \E h \in H : Same(h, k)
JournalKept == d1'.done = d1.done /\ d1.receipts \subseteq d1'.receipts

Idle ==
  /\ HoldersKept(entry.holders, entry'.holders)
  /\ \A a \in Attempts : CallIdle(a)
  /\ flight' \subseteq flight /\ JournalKept

\* Attempt a is admitted on block h.
Delivers(a, h) ==
  /\ ~h.sealed /\ (Cardinality(Operations(h)) < h.size \/ h.ops[OpOf[a]].tries > 0)
  /\ \A k \in entry'.holders :
       (k.n # h.n /\ \E j \in entry.holders : Same(j, k)) \/ PaidFor(h, k, OpOf[a])
  /\ call[a].pc \notin Engaged
  /\ call'[a].pc = "admitted" /\ call'[a].hold = h.n /\ call'[a].seq = h.seq
  /\ Others(a) /\ flight' = flight /\ d1' = d1

\* Attempt a seals block h, or takes it up again.
Seals(a, h) ==
  /\ ~h.sealed => \A o \in Operations(h) : h.ops[o].state = "committed" /\ h.ops[o].active = 0
  /\ \A k \in entry'.holders :
       \/ k.n # h.n /\ \E j \in entry.holders : Same(j, k)
       \/ k.n = h.n /\ k.seq = h.seq /\ k.size = h.size /\ k.ops = h.ops /\ k.sealed
  /\ call'[a].pc = "recover" /\ call'[a].hold = h.n /\ call'[a].seq = h.seq
  /\ call'[a].ops = Operations(h)
  /\ Others(a) /\ flight' = flight /\ d1' = d1

\* Attempt a settles its share of its operation.
Settles(a) ==
  /\ \A k \in entry'.holders : \E h \in entry.holders :
       \/ Same(h, k) /\ (h.n # call[a].hold \/ h.sealed)
       \/ h.n = call[a].hold /\ \E s \in OpStates :
            /\ SettledFor(h, k, OpOf[a], s)
            /\ s = "committed" => OpOf[a] \in d1.receipts \/ h.ops[OpOf[a]].state = "committed"
  /\ call[a].pc \in Paying /\ call'[a].pc = "done"
  /\ Others(a) /\ flight' = flight /\ d1' = d1

\* Attempt a sends its batch.
Sends(a) ==
  /\ entry' = entry /\ d1' = d1
  /\ \A e \in Attempts : CallIdle(e)
  /\ call[a].pc \in Paying
  /\ \A b \in flight' : b \in flight \/ (b.attempt = a /\ b.seq = call[a].seq)

\* D1 executes batch b.
Executes(b) ==
  /\ entry' = entry /\ flight' \subseteq flight
  /\ \A a \in Attempts : CallIdle(a)
  /\ OpOf[b.attempt] \notin d1.receipts
  /\ d1'.done = d1.done \cup {<<b.seq, OpOf[b.attempt]>>}
  /\ d1.receipts \subseteq d1'.receipts

\* The block that was asked for is there.
Installs ==
  /\ alloc.stage = "reserved" /\ alloc'.stage = "none"
  /\ \A k \in entry'.holders :
       \/ \E h \in entry.holders : Same(h, k)
       \/ /\ k.n = alloc.n /\ k.seq = alloc.seq /\ k.size = alloc.size /\ ~k.sealed
          /\ \A o \in Ops : k.ops[o] = [tries |-> 0, active |-> 0, state |-> "none"]
  /\ \A a \in Attempts : CallIdle(a)
  /\ flight' = flight /\ d1' = d1

\* No new block is asked for.
AllocKept(A, B) ==
  /\ B.stage # "none" => A.stage # "none" /\ B.n = A.n /\ B.size = A.size
  /\ B.stage \in Statuses => B.stage = A.stage /\ B.seq = A.seq

\* The entry opens, loses a credit without a block, or is given up; and who
\* wakes up knows that its allocation is over.
Booked ==
  /\ issued' = issued
  /\ \A a \in Attempts : call'[a].pc = "woken" =>
       (call[a].pc = "woken" /\ call'[a].pend = call[a].pend) \/ alloc'.stage = "none"
  /\ \/ /\ entry'.live = entry.live /\ entry'.first = entry.first
        /\ entry'.refills >= entry.refills
        /\ \/ entry'.pending = entry.pending
           \/ \E a \in In({"woken"}) : call[a].pend = entry.pending
     \/ ~entry'.live /\ entry'.holders = {} /\ (entry.pending = 0 \/ alloc'.stage = "none")
     \/ ~entry.live /\ entry'.live /\ entry'.first = issued + 1 /\ entry'.holders = {}

\* A new block is asked for.
Asks ==
  /\ entry'.live /\ entry'.pending = issued'
  /\ issued' = issued + 1 /\ alloc'.n = issued' /\ alloc'.stage = "refresh"
  /\ \A a \in Attempts : call'[a].pc = "woken" => call[a].pc = "woken" /\ call'[a].pend = call[a].pend
  /\ \/ /\ entry.live /\ entry.pending = 0
        /\ entry'.first = entry.first /\ entry'.refills = entry.refills + 1
     \/ ~entry.live /\ entry'.first = issued' /\ entry'.refills >= 1 /\ entry'.holders = {}

\* A new call, and one that is over.
LEMMA NewCallType ==
  ASSUME NEW n \in Nat, NEW K
  PROVE  /\ NewCall \in CallType /\ CallOK(NewCall, n, K) /\ CallOK(Finished, n, K)
         /\ NewCall.hold = 0 /\ NewCall.pend = 0 /\ Finished.pc = "done" /\ NewCall.pc = "new"
<1>1. NewCall \in CallType /\ Finished \in CallType
  BY Bounds DEF NewCall, Finished, CallType, CallStates
<1> QED BY <1>1 DEF CallOK, NewCall, Finished, Engaged, Paying, Recovering

\* A call that moves leaves the others where they are.
LEMMA GotoOK ==
  ASSUME NEW n \in Nat, NEW K, CallsOK(call, n, K), NEW a \in Attempts, NEW c, CallOK(c, n, K), Goto(a, c)
  PROVE  CallsOK(call', n, K) /\ call'[a] = c /\ Others(a)
BY DEF CallsOK, Goto, Others

LEMMA FinishOK ==
  ASSUME NEW n \in Nat, NEW K, CallsOK(call, n, K), NEW a \in Attempts, Finish(a)
  PROVE  CallsOK(call', n, K) /\ call'[a].pc = "done" /\ Others(a)
BY GotoOK, NewCallType DEF Finish

LEMMA CallsGrow ==
  ASSUME NEW C, NEW n \in Nat, NEW K, CallsOK(C, n, K), NEW m \in Nat, n <= m, NEW M, K \subseteq M
  PROVE  CallsOK(C, m, M)
BY CallGrows DEF CallsOK

\* A call that only turns to something that pays and recovers nothing is idle.
LEMMA AsideIdle ==
  ASSUME NEW a \in Attempts, Others(a), call'[a].pc \notin Engaged
  PROVE  \A e \in Attempts : CallIdle(e)
BY DEF Others, CallIdle, CallKept, Engaged, Paying, Recovering

\* So is one that goes on with what it does.
LEMMA OnwardIdle ==
  ASSUME NEW a \in Attempts, Others(a), CallIdle(a)
  PROVE  \A e \in Attempts : CallIdle(e)
BY DEF Others, CallIdle, CallKept

\* Types of the parts.
LEMMA Parts ==
  ASSUME IInv, Typed
  PROVE  /\ issued \in Nat /\ issued <= MaxHolders /\ Known \in SUBSET (Nat \ {0}) /\ clock \in Nat
         /\ entry \in EntryType /\ EntryOK(entry, issued, Known)
         /\ CallsOK(call, issued, Known)
         /\ \A a \in Attempts : call[a] \in CallType /\ CallOK(call[a], issued, Known) /\ OpOf[a] \in Ops
         /\ \A h \in entry.holders : h \in Holder /\ HolderOK(h, issued, Known)
<1>1. Known \subseteq Nat \ {0} /\ clock \in Nat
  BY DEF Known, IInv, TypeOK
<1>2. issued \in Nat /\ issued <= MaxHolders
  BY Bounds DEF Typed
<1>3. entry \in EntryType /\ EntryOK(entry, issued, Known)
      /\ \A h \in entry.holders : h \in Holder /\ HolderOK(h, issued, Known)
  BY DEF Typed, EntryOK, EntryType
<1>4. CallsOK(call, issued, Known)
      /\ \A a \in Attempts : call[a] \in CallType /\ CallOK(call[a], issued, Known) /\ OpOf[a] \in Ops
  BY Bounds DEF Typed, CallsOK, CallOK
<1> QED BY <1>1, <1>2, <1>3, <1>4

\* Beginning a read.
LEMMA ResolvingOK ==
  ASSUME IInv, Typed, NEW a \in Attempts, NEW c \in CallType, c.hold <= issued, c.pend <= issued,
         NEW pc \in {"resolve", "resolve2", "recover"}, Resolving(a, pc, c),
         pc = "recover" => c.hold >= 1 /\ c.seq >= 1 /\ c.rev \in Known
  PROVE  /\ CallsOK(call', issued, Known) /\ Others(a)
         /\ call'[a].pc = pc /\ call'[a].hold = c.hold /\ call'[a].seq = c.seq /\ call'[a].ops = c.ops
<1> DEFINE d == [c EXCEPT !.pc = pc, !.at = clock, !.lo = Len(published)]
<1>1. clock \in Nat /\ Len(published) \in Nat /\ pc \in CallStates
  BY DEF IInv, TypeOK, CallStates
<1>2. d \in CallType
  BY <1>1 DEF CallType
<1>3. /\ d.pc = pc /\ d.hold = c.hold /\ d.seq = c.seq /\ d.ops = c.ops
      /\ d.pend = c.pend /\ d.rev = c.rev
  BY DEF CallType
<1>4. Goto(a, d)
  BY DEF Resolving
<1> HIDE DEF d
<1>5. CallOK(d, issued, Known)
  BY <1>2, <1>3 DEF CallOK, Engaged, Paying, Recovering
<1> QED BY <1>3, <1>4, <1>5, GotoOK, Parts
-----------------------------------------------------------------------------
(* Which effect the actions have: admission.                               *)

\* Version F of entry E has none but its holders, and its credits.
Kin(E, F) ==
  /\ HoldersKept(E.holders, F.holders)
  /\ F.live = E.live /\ F.first = E.first /\ F.refills = E.refills /\ F.pending = E.pending

LEMMA SameTransitive ==
  ASSUME NEW h, NEW j, NEW k, Same(h, j), Same(j, k)
  PROVE  Same(h, k)
BY DEF Same

LEMMA KinReflexive == ASSUME NEW E PROVE Kin(E, E)
BY DEF Kin, HoldersKept, Same

LEMMA KinTransitive ==
  ASSUME NEW E, NEW F, NEW G, Kin(E, F), Kin(F, G)
  PROVE  Kin(E, G)
<1>1. HoldersKept(E.holders, G.holders)
  <2> SUFFICES ASSUME NEW k \in G.holders PROVE \E h \in E.holders : Same(h, k)
    BY DEF HoldersKept
  <2>1. PICK j \in F.holders : Same(j, k)
    BY DEF Kin, HoldersKept
  <2>2. PICK h \in E.holders : Same(h, j)
    BY DEF Kin, HoldersKept
  <2> QED BY <2>1, <2>2, SameTransitive
<1> QED BY <1>1 DEF Kin

LEMMA RetireKin == ASSUME NEW E \in EntryType PROVE Kin(E, RetireEntry(E))
<1> DEFINE H == {[h EXCEPT !.retired = TRUE] : h \in E.holders}
<1>1. \A h \in E.holders : Same(h, [h EXCEPT !.retired = TRUE])
  BY DEF EntryType, Holder, Same
<1>2. HoldersKept(E.holders, H)
  BY <1>1 DEF HoldersKept
<1>3. RetireEntry(E) = [E EXCEPT !.gen = IF E.blocked THEN @ ELSE @ + 1, !.blocked = TRUE, !.holders = H]
  BY DEF RetireEntry
<1> HIDE DEF H
<1> QED BY <1>2, <1>3 DEF Kin, EntryType

LEMMA RenewKin ==
  ASSUME NEW E \in EntryType, NEW auth, NEW until
  PROVE  Kin(E, RenewEntry(E, auth, until))
BY DEF Kin, EntryType, RenewEntry, HoldersKept

LEMMA ObservedKin == ASSUME NEW E \in EntryType, NEW auth PROVE Kin(E, Observed(E, auth))
BY DEF Kin, EntryType, Observed, HoldersKept, Same

LEMMA ReplaceKin ==
  ASSUME NEW E \in EntryType, NEW h \in E.holders, NEW k, Same(h, k)
  PROVE  Kin(E, ReplaceHolder(E, k))
BY DEF Kin, EntryType, ReplaceHolder, HoldersKept, Same

\* Kinship with the entry is idle, and books nothing.
LEMMA KinIdle ==
  ASSUME IInv, Typed, Kin(entry, entry'), NEW a \in Attempts, Others(a), call'[a].pc \notin Engaged,
         call'[a].pc # "woken", flight' = flight, d1' = d1, issued' = issued
  PROVE  Idle /\ Booked
<1>1. \A e \in Attempts : CallIdle(e)
  BY AsideIdle
<1>2. \A e \in Attempts : call'[e].pc = "woken" => call'[e] = call[e]
  BY DEF Others
<1>3. entry'.live = entry.live /\ entry'.first = entry.first /\ entry'.pending = entry.pending
      /\ entry'.refills >= entry.refills
  BY Parts, Bounds DEF Kin, EntryType
<1>4. Idle
  BY <1>1 DEF Idle, Kin, JournalKept
<1> QED BY <1>2, <1>3, <1>4 DEF Booked

\* What changes the entry and the calls only.
LEMMA TypedSame ==
  ASSUME Typed, published' = published, UNCHANGED <<d1, flight, alloc, issued>>,
         EntryOK(entry', issued, Known), CallsOK(call', issued, Known)
  PROVE  Typed' /\ AllocKept(alloc, alloc')
<1>1. Known' = Known
  BY DEF Known
<1> QED BY <1>1 DEF Typed, AllocKept

\* Entering admit().
LEMMA StartAdmitStep ==
  ASSUME IInv, Typed, NEW a \in Attempts, NEW E, EntryOK(E, issued, Known), StartAdmit(a, E)
  PROVE  /\ EntryOK(entry', issued, Known) /\ CallsOK(call', issued, Known)
         /\ call'[a].pc \in {"done", "resolve"} /\ Others(a)
         /\ \/ Kin(E, entry')
            \/ ~entry'.live /\ entry'.holders = {} /\ E.pending = 0
<1>0. E \in EntryType
  BY DEF EntryOK
<1>1. CASE BlockedRecovery(E, clock)
  BY <1>1, Parts, FinishOK, KinReflexive DEF StartAdmit
<1>2. CASE ~BlockedRecovery(E, clock)
  <2>1. entry' = Swept(E)
    BY <1>2 DEF StartAdmit
  <2>2. /\ EntryOK(Swept(E), issued, Known)
        /\ Kin(E, Swept(E)) \/ (~Swept(E).live /\ Swept(E).holders = {} /\ E.pending = 0)
    BY <1>0, RetireEntryOK, RetireKin, KinReflexive, NoEntryOK, Parts DEF Swept, NoEntry
  <2> DEFINE c == [NewCall EXCEPT !.gen = IF Swept(E).live THEN Swept(E).gen ELSE -1]
  <2>3. Swept(E).gen \in Int
    BY <2>2 DEF EntryOK, EntryType
  <2>4. c \in CallType /\ c.hold = 0 /\ c.pend = 0
    BY <2>3, NewCallType, Parts DEF CallType, NewCall
  <2>5. Resolving(a, "resolve", c)
    BY <1>2 DEF StartAdmit
  <2> HIDE DEF c
  <2>6. CallsOK(call', issued, Known) /\ call'[a].pc = "resolve" /\ Others(a)
    BY <2>4, <2>5, ResolvingOK, Parts
  <2> QED BY <2>1, <2>2, <2>6
<1> QED BY <1>1, <1>2

\* admitApiBudget().
LEMMA BeginStep ==
  ASSUME IInv, Typed, NEW a \in Attempts, Begin(a)
  PROVE  /\ Typed' /\ AllocKept(alloc, alloc') /\ Booked
         /\ Idle \/ \E h \in entry.holders : Seals(a, h)
<1>0. published' = published /\ UNCHANGED <<d1, flight, alloc, issued>>
  BY DEF Begin, vars
<1>1. CASE Finish(a) /\ UNCHANGED entry
  BY <1>0, <1>1, Parts, FinishOK, KinReflexive, KinIdle, TypedSame DEF Engaged, Paying, Recovering
<1>2. CASE StartAdmit(a, entry)
  <2>1. /\ EntryOK(entry', issued, Known) /\ CallsOK(call', issued, Known)
        /\ call'[a].pc \in {"done", "resolve"} /\ Others(a)
        /\ Kin(entry, entry') \/ (~entry'.live /\ entry'.holders = {} /\ entry.pending = 0)
    BY <1>2, StartAdmitStep, Parts
  <2>2. Typed' /\ AllocKept(alloc, alloc')
    BY <1>0, <2>1, TypedSame
  <2>3. CASE Kin(entry, entry')
    BY <1>0, <2>1, <2>2, <2>3, KinIdle DEF Engaged, Paying, Recovering
  <2>4. CASE ~entry'.live /\ entry'.holders = {} /\ entry.pending = 0
    <3>1. \A e \in Attempts : CallIdle(e)
      BY <2>1, AsideIdle DEF Engaged, Paying, Recovering
    <3>2. Idle
      BY <1>0, <2>4, <3>1 DEF Idle, HoldersKept, JournalKept
    <3>3. Booked
      BY <1>0, <2>1, <2>4 DEF Booked, Others
    <3> QED BY <2>2, <3>2, <3>3
  <2> QED BY <2>1, <2>3, <2>4
<1>3. ASSUME NEW h \in SealTargets(entry, clock), entry' = SealHolder(entry, h),
             Resolving(a, "recover", [NewCall EXCEPT !.hold = h.n, !.seq = h.seq, !.rev = h.rev,
                                        !.exp = h.until, !.ops = Operations(h)])
      PROVE  /\ Typed' /\ AllocKept(alloc, alloc') /\ Booked
             /\ \E j \in entry.holders : Seals(a, j)
  <2> DEFINE k == [h EXCEPT !.sealed = TRUE, !.recoveries = @ + 1]
             c == [NewCall EXCEPT !.hold = h.n, !.seq = h.seq, !.rev = h.rev,
                                  !.exp = h.until, !.ops = Operations(h)]
  <2>1. h \in entry.holders /\ (Retryable(h) \/ Quiescent(h, clock))
    BY <1>3 DEF SealTargets
  <2>2. h \in Holder /\ HolderOK(h, issued, Known)
    BY <2>1, Parts
  <2>3. k \in Holder /\ HolderOK(k, issued, Known)
    BY <2>1, <2>2, SealOK
  <2>4. k.n = h.n /\ k.seq = h.seq /\ k.size = h.size /\ k.ops = h.ops /\ k.sealed
    BY <2>2 DEF Holder
  <2>5. entry' = ReplaceHolder(entry, k)
    BY <1>3 DEF SealHolder
  <2> HIDE DEF k
  <2>6. EntryOK(entry', issued, Known)
    BY <2>3, <2>5, ReplaceHolderOK, Parts
  <2>7. entry'.holders = {j \in entry.holders : j.n # h.n} \cup {k}
        /\ entry'.live = entry.live /\ entry'.first = entry.first
        /\ entry'.refills = entry.refills /\ entry'.pending = entry.pending
    BY <2>4, <2>5, Parts DEF ReplaceHolder, EntryType
  <2>8. h.n \in 0 .. MaxHolders /\ h.n <= issued /\ h.n >= 1 /\ h.seq \in Nat \ {0} /\ h.rev \in Known
        /\ h.rev \in Nat /\ h.until \in Nat /\ Operations(h) \subseteq Ops
    <3>1. issued <= MaxHolders /\ issued \in Nat /\ Known \subseteq Nat
      BY Parts DEF Typed
    <3> QED BY <2>2, <3>1, Bounds DEF HolderOK, Holder, Operations
  <2>9. c \in CallType /\ c.hold = h.n /\ c.pend = 0 /\ c.seq = h.seq /\ c.rev = h.rev /\ c.ops = Operations(h)
    BY <2>8, NewCallType, Parts DEF CallType, NewCall
  <2>10. Resolving(a, "recover", c)
    BY <1>3
  <2> HIDE DEF c
  <2>11. c.hold <= issued /\ c.pend <= issued /\ c.hold >= 1 /\ c.seq >= 1 /\ c.rev \in Known
    BY <2>8, <2>9, Parts
  <2>12. CallsOK(call', issued, Known) /\ Others(a) /\ call'[a].pc = "recover"
         /\ call'[a].hold = h.n /\ call'[a].seq = h.seq /\ call'[a].ops = Operations(h)
    BY <2>9, <2>10, <2>11, ResolvingOK
  <2>13. Typed' /\ AllocKept(alloc, alloc')
    BY <1>0, <2>6, <2>12, TypedSame
  <2>14. Booked
    BY <1>0, <2>7, <2>11, <2>12, Parts DEF Booked, Others, EntryType
  <2>15. ~h.sealed => \A o \in Operations(h) : h.ops[o].state = "committed" /\ h.ops[o].active = 0
    BY <2>1 DEF Retryable, Quiescent
  <2>16. \A j \in entry.holders : Same(j, j)
    BY DEF Same
  <2>17. Seals(a, h)
    BY <1>0, <2>4, <2>7, <2>11, <2>12, <2>15, <2>16 DEF Seals
  <2> QED BY <2>1, <2>13, <2>14, <2>17
<1>4. \/ Finish(a) /\ UNCHANGED entry
      \/ StartAdmit(a, entry)
      \/ \E h \in SealTargets(entry, clock) :
           /\ entry' = SealHolder(entry, h)
           /\ Resolving(a, "recover", [NewCall EXCEPT !.hold = h.n, !.seq = h.seq, !.rev = h.rev,
                                         !.exp = h.until, !.ops = Operations(h)])
  BY DEF Begin
<1> QED BY <1>1, <1>2, <1>3, <1>4
\* The entry an attempt goes on with: the one there is, or one it opens.
Found(E) ==
  /\ EntryOK(E, issued, Known)
  /\ \/ Kin(entry, E)
     \/ ~entry.live /\ E.live /\ E.first = issued + 1 /\ E.pending = 0 /\ E.holders = {}

\* Leaving the entry as it was found is idle.
LEMMA FoundIdle ==
  ASSUME IInv, Typed, Found(entry'), NEW a \in Attempts, Others(a), call'[a].pc \notin Engaged,
         call'[a].pc # "woken", flight' = flight, d1' = d1, issued' = issued
  PROVE  Idle /\ Booked
<1>1. CASE Kin(entry, entry')
  BY <1>1, KinIdle
<1>2. CASE ~entry.live /\ entry'.live /\ entry'.first = issued + 1 /\ entry'.holders = {}
  <2>1. \A e \in Attempts : CallIdle(e)
    BY AsideIdle
  <2>2. Idle
    BY <1>2, <2>1 DEF Idle, HoldersKept, JournalKept
  <2>3. \A e \in Attempts : call'[e].pc = "woken" => call'[e] = call[e]
    BY DEF Others
  <2> QED BY <1>2, <2>2, <2>3 DEF Booked
<1> QED BY <1>1, <1>2 DEF Found

\* Spending on a holder.
LEMMA DeliverStep ==
  ASSUME IInv, Typed, NEW a \in Attempts, call[a].pc \notin Engaged,
         NEW E, EntryOK(E, issued, Known), Kin(entry, E), NEW h \in E.holders,
         NEW auth \in AuthType, Deliver(a, E, h, auth),
         published' = published, UNCHANGED <<d1, flight, alloc, issued>>
  PROVE  /\ Typed' /\ AllocKept(alloc, alloc') /\ Booked
         /\ Idle \/ \E j \in entry.holders : Delivers(a, j)
<1> DEFINE o == OpOf[a]
           k == Spend(h, o, auth, clock)
           out == Outcome(h, o, auth, clock)
           paid == ReplaceHolder(E, k)
<1>1. o \in Ops /\ clock \in Nat /\ issued \in Nat
  BY Parts
<1>2. h \in Holder /\ HolderOK(h, issued, Known) /\ E \in EntryType
  BY DEF EntryOK, EntryType
<1>3. k \in Holder /\ HolderOK(k, issued, Known)
  BY <1>1, <1>2, SpendOK
<1>4. ~Pays(out) => Same(h, k)
  BY <1>1, <1>2, SpendMakes
<1>5. Pays(out) => PaidFor(h, k, o)
  BY <1>1, <1>2, SpendMakes
<1>6. k.n = h.n
  BY <1>4, <1>5 DEF Same, PaidFor
<1>7. entry' = IF out = "spent" THEN [paid EXCEPT !.route[o] = h.n] ELSE paid
  BY DEF Deliver
<1>8. IF Pays(out)
      THEN Goto(a, [AdmittedOn(h) EXCEPT !.exp = IF h.until < auth.exp THEN h.until ELSE auth.exp])
      ELSE Finish(a)
  BY DEF Deliver, Pays
<1>9. Pays(out) => ~h.sealed /\ (Cardinality(Operations(h)) < h.size \/ h.ops[o].tries > 0)
  BY <1>1, <1>2, OutcomePays
<1> HIDE DEF k, out
<1>10. EntryOK(paid, issued, Known)
  BY <1>3, ReplaceHolderOK
<1>11. /\ paid.holders = {j \in E.holders : j.n # h.n} \cup {k}
       /\ paid.live = E.live /\ paid.first = E.first /\ paid.refills = E.refills
       /\ paid.pending = E.pending
  BY <1>2, <1>6 DEF ReplaceHolder, EntryType
<1> HIDE DEF paid
<1>12. /\ EntryOK(entry', issued, Known)
       /\ entry'.holders = paid.holders /\ entry'.live = E.live /\ entry'.first = E.first
       /\ entry'.refills = E.refills /\ entry'.pending = E.pending
  <2>1. h.n \in 0 .. MaxHolders
    BY <1>2, Parts, Bounds DEF HolderOK, Holder
  <2>2. o \in Ops /\ paid \in EntryType
    BY <1>1, <1>10 DEF EntryOK
  <2> HIDE DEF o
  <2> QED BY <1>7, <1>10, <1>11, <2>1, <2>2 DEF EntryOK, EntryType
<1>13. PICK j \in entry.holders : Same(j, h)
  BY DEF Kin, HoldersKept
<1>14. \A i \in E.holders : \E g \in entry.holders : Same(g, i)
  BY DEF Kin, HoldersKept
<1>15. entry'.live = entry.live /\ entry'.first = entry.first /\ entry'.pending = entry.pending
       /\ entry'.refills = entry.refills
  BY <1>12 DEF Kin
<1>16. CASE ~Pays(out)
  <2>1. Kin(entry, entry')
    <3>1. Same(j, k)
      BY <1>4, <1>13, <1>16, SameTransitive
    <3> QED BY <1>11, <1>12, <1>14, <1>15, <3>1 DEF Kin, HoldersKept
  <2>2. CallsOK(call', issued, Known) /\ call'[a].pc = "done" /\ Others(a)
    BY <1>8, <1>16, FinishOK, Parts
  <2> QED BY <1>12, <2>1, <2>2, KinIdle, TypedSame DEF Engaged, Paying, Recovering
<1>17. CASE Pays(out)
  <2> DEFINE x == IF h.until < auth.exp THEN h.until ELSE auth.exp
             c == [AdmittedOn(h) EXCEPT !.exp = x]
  <2>1. x \in Nat /\ h.n \in 0 .. MaxHolders /\ h.n \in Nat /\ h.n >= 1 /\ h.n <= issued
        /\ h.seq \in Nat /\ h.seq >= 1 /\ h.rev \in Known /\ h.rev \in Nat
    BY <1>2, Parts, Bounds DEF HolderOK, Holder, AuthType
  <2>2. Goto(a, c)
    BY <1>8, <1>17
  <2> HIDE DEF x
  <2>3. c \in CallType /\ c.pc = "admitted" /\ c.hold = h.n /\ c.seq = h.seq /\ c.pend = 0 /\ c.rev = h.rev
    <3>1. "admitted" \in CallStates
      BY DEF CallStates
    <3> QED BY <2>1, <3>1, NewCallType, Parts DEF AdmittedOn, CallType, NewCall
  <2> HIDE DEF c
  <2>4. CallOK(c, issued, Known)
    BY <2>1, <2>3, Parts DEF CallOK
  <2>5. CallsOK(call', issued, Known) /\ call'[a] = c /\ Others(a)
    BY <2>2, <2>4, GotoOK, Parts
  <2>6. Typed' /\ AllocKept(alloc, alloc')
    BY <1>12, <2>5, TypedSame
  <2>7. Booked
    <3>1. entry.refills >= entry.refills
      BY Parts, Bounds DEF EntryType
    <3> QED BY <1>15, <2>3, <2>5, <3>1 DEF Booked, Others
  <2>8. PaidFor(j, k, o) /\ ~j.sealed /\ j.n = h.n /\ j.seq = h.seq
        /\ (Cardinality(Operations(j)) < j.size \/ j.ops[o].tries > 0)
    BY <1>5, <1>9, <1>13, <1>17 DEF PaidFor, Same, Operations
  <2>9. Delivers(a, j)
    BY <1>11, <1>12, <1>14, <2>3, <2>5, <2>8 DEF Delivers
  <2> QED BY <2>6, <2>7, <2>9
<1> QED BY <1>16, <1>17

\* No allocation, or one that begins.
LEMMA NoAllocOK == ASSUME NEW n, NEW K PROVE AllocOK(NoAlloc, n, K)
<1>1. NoAlloc \in AllocType /\ NoAlloc.stage = "none"
  BY Bounds DEF NoAlloc, AllocType, AuthType
<1> QED BY <1>1 DEF AllocOK, Statuses

\* One more block is asked for.
Refilled(E, p) == [E EXCEPT !.refills = @ + 1, !.pending = p]

LEMMA RefilledOK ==
  ASSUME NEW n \in Nat, NEW K, NEW E, EntryOK(E, n, K), ~(E.refills >= MaxRefills),
         NEW p \in 0 .. MaxHolders, p <= n
  PROVE  LET F == Refilled(E, p)
         IN /\ EntryOK(F, n, K)
            /\ F.holders = E.holders /\ F.live = E.live /\ F.first = E.first
            /\ F.refills = E.refills + 1 /\ F.pending = p
<1>1. E.refills + 1 \in 0 .. MaxRefills
  BY Bounds DEF EntryOK, EntryType
<1> QED BY <1>1 DEF Refilled, EntryOK, EntryType

\* Waiting for a block, or asking for one.
LEMMA AwaitStep ==
  ASSUME IInv, Typed, NEW a \in Attempts, NEW E, Found(E), E.live,
         NEW auth \in AuthType, auth.rev \in Known, Await(a, E, auth),
         published' = published, UNCHANGED <<d1, flight>>
  PROVE  Typed' /\ Idle /\ ((AllocKept(alloc, alloc') /\ Booked) \/ Asks)
<1>1. EntryOK(E, issued, Known) /\ E \in EntryType /\ E.gen \in Int /\ E.pending \in 0 .. MaxHolders
      /\ E.pending <= issued /\ E.refills \in Nat
  BY Bounds DEF Found, EntryOK, EntryType
<1>2. ASSUME NEW n \in Nat, NEW p \in 0 .. MaxHolders, p <= n
      PROVE  /\ CallOK([NewCall EXCEPT !.pc = "wait", !.gen = E.gen, !.pend = p], n, Known)
             /\ [NewCall EXCEPT !.pc = "wait", !.gen = E.gen, !.pend = p].pc = "wait"
  <2> DEFINE c == [NewCall EXCEPT !.pc = "wait", !.gen = E.gen, !.pend = p]
  <2>1. "wait" \in CallStates
    BY DEF CallStates
  <2>2. c \in CallType /\ c.pc = "wait" /\ c.pend = p /\ c.hold = 0
    BY <1>1, <1>2, <2>1, NewCallType, Parts DEF CallType
  <2> HIDE DEF c
  <2>3. CallOK(c, n, Known)
    BY <1>2, <2>2 DEF CallOK, Engaged, Paying, Recovering
  <2> QED BY <2>2, <2>3 DEF c
<1>3. CASE E.pending # 0
  <2> DEFINE c == [NewCall EXCEPT !.pc = "wait", !.gen = E.gen, !.pend = E.pending]
  <2>1. entry' = E /\ Goto(a, c) /\ UNCHANGED <<alloc, issued>>
    BY <1>3 DEF Await
  <2>2. CallOK(c, issued, Known) /\ c.pc = "wait"
    BY <1>1, <1>2, Parts
  <2> HIDE DEF c
  <2>3. CallsOK(call', issued, Known) /\ call'[a].pc = "wait" /\ Others(a)
    BY <2>1, <2>2, GotoOK, Parts
  <2> QED BY <1>1, <2>1, <2>3, FoundIdle, TypedSame DEF Engaged, Paying, Recovering
<1>4. CASE E.pending = 0 /\ E.refills >= MaxRefills
  <2>1. entry' = E /\ Finish(a) /\ UNCHANGED <<alloc, issued>>
    BY <1>4 DEF Await
  <2> QED BY <1>1, <2>1, FinishOK, FoundIdle, TypedSame, Parts DEF Engaged, Paying, Recovering
<1>6. HoldersKept(entry.holders, E.holders)
  BY DEF Found, Kin, HoldersKept
<1>7. CASE E.pending = 0 /\ ~(E.refills >= MaxRefills) /\ Sizes(auth.rev) = {}
  <2>1. entry' = [E EXCEPT !.refills = @ + 1] /\ Finish(a) /\ UNCHANGED <<alloc, issued>>
    BY <1>7 DEF Await
  <2>3. CallsOK(call', issued, Known) /\ call'[a].pc = "done" /\ Others(a)
    BY <2>1, FinishOK, Parts
  <2>4. /\ EntryOK(entry', issued, Known)
        /\ entry'.holders = E.holders /\ entry'.live = E.live /\ entry'.first = E.first
        /\ entry'.refills = E.refills + 1 /\ entry'.pending = 0
    <3>1. E.refills + 1 \in 0 .. MaxRefills
      BY <1>1, <1>7, Bounds DEF EntryType
    <3> QED BY <1>1, <1>7, <2>1, <3>1 DEF EntryOK, EntryType
  <2>5. Typed' /\ AllocKept(alloc, alloc')
    BY <2>1, <2>3, <2>4, TypedSame
  <2>6. Idle
    <3>1. \A e \in Attempts : CallIdle(e)
      BY <2>3, AsideIdle DEF Engaged, Paying, Recovering
    <3> QED BY <1>6, <2>4, <3>1 DEF Idle, JournalKept
  <2>7. Booked
    <3>1. \A e \in Attempts : call'[e].pc = "woken" => call'[e] = call[e]
      BY <2>3 DEF Others
    <3>2. Kin(entry, E) => E.refills + 1 >= entry.refills
      BY <1>1 DEF Kin
    <3> QED BY <1>7, <2>1, <2>4, <3>1, <3>2 DEF Booked, Found, Kin
  <2> QED BY <2>5, <2>6, <2>7
<1>8. CASE E.pending = 0 /\ ~(E.refills >= MaxRefills) /\ Sizes(auth.rev) # {}
  <2> DEFINE n == issued + 1
             c == [NewCall EXCEPT !.pc = "wait", !.gen = E.gen, !.pend = n]
             size == CHOOSE k \in Sizes(auth.rev) : \A j \in Sizes(auth.rev) : j <= k
             A == [NoAlloc EXCEPT !.stage = "refresh", !.n = n, !.gen = E.gen,
                      !.auth = auth, !.try = 1, !.size = size]
  <2>1. issued < MaxHolders /\ issued' = n /\ entry' = Refilled(E, n) /\ alloc' = A /\ Goto(a, c)
    BY <1>8 DEF Await, Refilled
  <2>2. n \in 0 .. MaxHolders /\ n \in Nat /\ issued <= n /\ n >= 1 /\ n = issued + 1 /\ n <= n
    BY <2>1, Parts, Bounds
  <2> HIDE DEF n
  <2>3. size \in 1 .. BlockSize
    BY <1>8, SizeType
  <2> HIDE DEF size
  <2>4. AllocOK(A, n, Known) /\ A.n = n /\ A.stage = "refresh"
    <3>1. A \in AllocType /\ A.n = n /\ A.stage = "refresh" /\ A.auth = auth /\ A.size = size
      <4>1. NoAlloc \in AllocType
        BY NoAllocOK, Parts DEF AllocOK
      <4>2. n \in Nat /\ E.gen \in Nat /\ size \in 0 .. BlockSize
        BY <1>1, <2>2, <2>3, Bounds DEF EntryType
      <4>3. A.n = n /\ A.stage = "refresh" /\ A.auth = auth /\ A.size = size
        BY <4>1 DEF AllocType
      <4>4. A \in AllocType
        BY <4>1, <4>2 DEF AllocType
      <4> QED BY <4>3, <4>4
    <3> HIDE DEF A
    <3> QED BY <2>2, <2>3, <3>1, Bounds DEF AllocOK, Statuses
  <2>5. CallOK(c, n, Known) /\ c.pc = "wait"
    BY <1>2, <2>2
  <2>6. CallsOK(call, n, Known)
    BY <2>2, CallsGrow, Parts
  <2> HIDE DEF c, A
  <2>7. CallsOK(call', n, Known) /\ call'[a].pc = "wait" /\ Others(a)
    BY <2>1, <2>2, <2>5, <2>6, GotoOK
  <2>8. /\ EntryOK(entry', n, Known)
        /\ entry'.holders = E.holders /\ entry'.live = E.live /\ entry'.first = E.first
        /\ entry'.refills = E.refills + 1 /\ entry'.pending = n
    <3>1. EntryOK(E, n, Known)
      BY <1>1, <2>2, EntryGrows, Parts
    <3>2. n \in Nat /\ n \in 0 .. MaxHolders /\ n <= n /\ ~(E.refills >= MaxRefills)
      BY <1>8, <2>2
    <3>3. LET F == Refilled(E, n)
          IN /\ EntryOK(F, n, Known)
             /\ F.holders = E.holders /\ F.live = E.live /\ F.first = E.first
             /\ F.refills = E.refills + 1 /\ F.pending = n
      BY <3>1, <3>2, RefilledOK
    <3> QED BY <2>1, <3>3
  <2>9. Typed'
    <3>1. Known' = Known
      BY DEF Known
    <3> QED BY <2>1, <2>2, <2>4, <2>7, <2>8, <3>1 DEF Typed
  <2>10. Idle
    <3>1. \A e \in Attempts : CallIdle(e)
      BY <2>7, AsideIdle DEF Engaged, Paying, Recovering
    <3> QED BY <1>6, <2>8, <3>1 DEF Idle, JournalKept
  <2>11. Asks
    <3>1. \A e \in Attempts : call'[e].pc = "woken" => call'[e] = call[e]
      BY <2>7 DEF Others
    <3>2. CASE Kin(entry, E)
      BY <1>1, <1>8, <2>1, <2>2, <2>4, <2>8, <3>1, <3>2 DEF Asks, Kin
    <3>3. CASE ~entry.live /\ E.first = issued + 1 /\ E.holders = {}
      <4>1. E.refills + 1 >= 1
        BY <1>1
      <4> QED BY <2>1, <2>2, <2>4, <2>8, <3>1, <3>3, <4>1 DEF Asks
    <3> QED BY <3>2, <3>3 DEF Found
  <2> QED BY <2>9, <2>10, <2>11
<1> QED BY <1>3, <1>4, <1>7, <1>8
\* admit() after its first await, on an entry of the right epoch.
LEMMA AdmitOnStep ==
  ASSUME IInv, Typed, NEW a \in Attempts, call[a].pc \notin Engaged, NEW E, Found(E), E.live,
         NEW auth \in AuthType, auth.rev \in Known, AdmitOn(a, E, auth),
         published' = published, UNCHANGED <<d1, flight>>
  PROVE  /\ Typed' /\ (Idle \/ \E h \in entry.holders : Delivers(a, h))
         /\ (AllocKept(alloc, alloc') /\ Booked) \/ (Idle /\ Asks)
<1>1. EntryOK(E, issued, Known) /\ E \in EntryType
  BY DEF Found, EntryOK
<1>2. ASSUME NEW h \in E.holders, Deliver(a, E, h, auth), UNCHANGED <<alloc, issued>>
      PROVE  /\ Typed' /\ AllocKept(alloc, alloc') /\ Booked
             /\ Idle \/ \E j \in entry.holders : Delivers(a, j)
  <2>1. Kin(entry, E)
    BY DEF Found
  <2> QED BY <1>1, <1>2, <2>1, DeliverStep
<1>3. ASSUME NEW h \in E.holders, Dry(h, OpOf[a], auth),
             Await(a, ReplaceHolder(E, Spend(h, OpOf[a], auth, clock)), auth)
      PROVE  Typed' /\ Idle /\ ((AllocKept(alloc, alloc') /\ Booked) \/ Asks)
  <2> DEFINE k == Spend(h, OpOf[a], auth, clock)
             F == ReplaceHolder(E, k)
  <2>1. h \in Holder /\ HolderOK(h, issued, Known) /\ OpOf[a] \in Ops /\ clock \in Nat
    BY <1>1, Parts DEF EntryOK, EntryType
  <2>2. ~Pays(Outcome(h, OpOf[a], auth, clock))
    BY <1>3 DEF Dry, Pays
  <2>3. k \in Holder /\ HolderOK(k, issued, Known) /\ Same(h, k)
    BY <2>1, <2>2, SpendOK, SpendMakes
  <2> HIDE DEF k
  <2>4. EntryOK(F, issued, Known) /\ Kin(E, F)
    BY <1>1, <2>3, ReplaceHolderOK, ReplaceKin
  <2>5. Kin(entry, E)
    BY DEF Found
  <2>6. Found(F) /\ F.live
    BY <2>4, <2>5, KinTransitive DEF Found, Kin
  <2>7. Await(a, F, auth)
    BY <1>3 DEF k
  <2> HIDE DEF F
  <2> QED BY <2>6, <2>7, AwaitStep
<1>4. ASSUME Await(a, E, auth)
      PROVE  Typed' /\ Idle /\ ((AllocKept(alloc, alloc') /\ Booked) \/ Asks)
  BY <1>4, AwaitStep
<1>5. \/ \E h \in E.holders : Deliver(a, E, h, auth) /\ UNCHANGED <<alloc, issued>>
      \/ \E h \in E.holders : /\ Dry(h, OpOf[a], auth)
                              /\ Await(a, ReplaceHolder(E, Spend(h, OpOf[a], auth, clock)), auth)
      \/ Await(a, E, auth)
  <2> DEFINE routed == HolderOf(E, E.route[OpOf[a]])
             latest == IF routed # {} THEN {} ELSE Latest(E)
  <2>1. routed \subseteq E.holders /\ latest \subseteq E.holders
    BY DEF HolderOf, Latest
  <2> QED BY <2>1 DEF AdmitOn
<1> QED BY <1>2, <1>3, <1>4, <1>5

\* What was read is judged against the entry.
LEMMA JudgeStep ==
  ASSUME IInv, Typed, NEW a \in Attempts, call[a].pc \notin Engaged, entry.live,
         NEW auth \in AuthType, auth.rev \in Known, auth.rev \in Revisions, Judge(a, entry, auth),
         published' = published, UNCHANGED <<d1, flight>>
  PROVE  /\ Typed' /\ (Idle \/ \E h \in entry.holders : Delivers(a, h))
         /\ (AllocKept(alloc, alloc') /\ Booked) \/ (Idle /\ Asks)
<1> DEFINE seen == Observed(entry, auth)
           renewed == RenewEntry(seen, auth, IntervalEnd(auth.rev))
<1>1. EntryOK(entry, issued, Known) /\ entry \in EntryType
  BY Parts
<1>2. EntryOK(seen, issued, Known) /\ Kin(entry, seen) /\ seen \in EntryType
  BY <1>1, ObservedOK, ObservedKin DEF EntryOK
<1>3. EntryOK(renewed, issued, Known) /\ Kin(seen, renewed)
  <2> HIDE DEF seen
  <2> QED BY <1>2, RenewEntryOK, RenewKin, IntervalEndType
<1>4. EntryOK(RetireEntry(seen), issued, Known) /\ Kin(seen, RetireEntry(seen))
  <2> HIDE DEF seen
  <2> QED BY <1>2, RetireEntryOK, RetireKin
<1> HIDE DEF seen, renewed
<1>5. Found(entry) /\ Found(seen) /\ Found(renewed) /\ Found(RetireEntry(seen))
      /\ seen.live /\ renewed.live
  BY <1>1, <1>2, <1>3, <1>4, KinReflexive, KinTransitive DEF Found, Kin
<1>6. ASSUME Finish(a), UNCHANGED <<alloc, issued>>, Found(entry')
      PROVE  Typed' /\ Idle /\ AllocKept(alloc, alloc') /\ Booked
  BY <1>6, FinishOK, FoundIdle, TypedSame, Parts DEF Found, Engaged, Paying, Recovering
<1>7. \/ Finish(a) /\ UNCHANGED <<alloc, issued>> /\ entry' \in {entry, seen, RetireEntry(seen)}
      \/ AdmitOn(a, renewed, auth)
      \/ AdmitOn(a, seen, auth)
  BY DEF Judge, seen, renewed
<1>8. CASE Finish(a) /\ UNCHANGED <<alloc, issued>> /\ entry' \in {entry, seen, RetireEntry(seen)}
  BY <1>5, <1>6, <1>8
<1>9. CASE AdmitOn(a, renewed, auth)
  BY <1>5, <1>9, AdmitOnStep
<1>10. CASE AdmitOn(a, seen, auth)
  BY <1>5, <1>10, AdmitOnStep
<1> QED BY <1>7, <1>8, <1>9, <1>10

LEMMA ResolveStep ==
  ASSUME IInv, Typed, NEW a \in Attempts, Resolve(a)
  PROVE  /\ Typed' /\ (Idle \/ \E h \in entry.holders : Delivers(a, h))
         /\ (AllocKept(alloc, alloc') /\ Booked) \/ (Idle /\ Asks)
<1> DEFINE c == call[a]
<1>0. published' = published /\ UNCHANGED <<d1, flight>> /\ call[a].pc = "resolve"
  BY DEF Resolve, vars
<1>1. call[a].pc \notin Engaged /\ c \in CallType
  BY <1>0, Parts DEF Engaged, Paying, Recovering
<1>2. ASSUME Finish(a), UNCHANGED <<alloc, issued>>, entry' = entry \/ entry' = RetireEntry(entry)
      PROVE  Typed' /\ Idle /\ AllocKept(alloc, alloc') /\ Booked
  <2>1. EntryOK(entry', issued, Known) /\ Kin(entry, entry')
    BY <1>2, Parts, RetireEntryOK, RetireKin, KinReflexive
  <2>2. CallsOK(call', issued, Known) /\ call'[a].pc = "done" /\ Others(a)
    BY <1>2, FinishOK, Parts
  <2> QED BY <1>0, <1>2, <2>1, <2>2, KinIdle, TypedSame DEF Engaged, Paying, Recovering
<1>3. ASSUME NEW r \in ReadAuthority(c), r # 0
      PROVE  r \in Known /\ r \in Revisions /\ AuthOf(c, r) \in AuthType /\ AuthOf(c, r).rev = r
  BY <1>1, <1>3, ReadKnown
<1>4. ASSUME NEW r \in ReadAuthority(c), r # 0, ~entry.live,
             AdmitOn(a, NewEntry(AuthOf(c, r), IntervalEnd(r), issued + 1), AuthOf(c, r))
      PROVE  /\ Typed' /\ (Idle \/ \E h \in entry.holders : Delivers(a, h))
             /\ (AllocKept(alloc, alloc') /\ Booked) \/ (Idle /\ Asks)
  <2> DEFINE E == NewEntry(AuthOf(c, r), IntervalEnd(r), issued + 1)
  <2>1. r \in Known /\ r \in Revisions /\ AuthOf(c, r) \in AuthType /\ AuthOf(c, r).rev = r
    BY <1>3, <1>4
  <2> HIDE DEF c
  <2>2. EntryOK(E, issued, Known)
    <3>1. IntervalEnd(r) \in Nat /\ issued + 1 \in Nat /\ issued \in Nat
      BY <2>1, IntervalEndType, Parts
    <3> QED BY <2>1, <3>1, NewEntryOK
  <2>3. E.live /\ E.first = issued + 1 /\ E.pending = 0 /\ E.holders = {}
    BY DEF NewEntry, NoEntry
  <2>4. AdmitOn(a, E, AuthOf(c, r))
    BY <1>4
  <2> HIDE DEF E
  <2>5. Found(E)
    BY <1>4, <2>2, <2>3 DEF Found
  <2> QED BY <1>0, <1>1, <2>1, <2>3, <2>4, <2>5, AdmitOnStep
<1>5. ASSUME NEW r \in ReadAuthority(c), r # 0, entry.live, Judge(a, entry, AuthOf(c, r))
      PROVE  /\ Typed' /\ (Idle \/ \E h \in entry.holders : Delivers(a, h))
             /\ (AllocKept(alloc, alloc') /\ Booked) \/ (Idle /\ Asks)
  <2>1. r \in Known /\ r \in Revisions /\ AuthOf(c, r) \in AuthType /\ AuthOf(c, r).rev = r
    BY <1>3, <1>5
  <2> HIDE DEF c
  <2> QED BY <1>0, <1>1, <1>5, <2>1, JudgeStep
<1>6. \/ Finish(a) /\ UNCHANGED <<alloc, issued>> /\ (entry' = entry \/ entry' = RetireEntry(entry))
      \/ \E r \in ReadAuthority(c) : /\ r # 0 /\ ~entry.live
                                     /\ AdmitOn(a, NewEntry(AuthOf(c, r), IntervalEnd(r), issued + 1), AuthOf(c, r))
      \/ \E r \in ReadAuthority(c) : r # 0 /\ entry.live /\ Judge(a, entry, AuthOf(c, r))
  BY DEF Resolve
<1> HIDE DEF c
<1> QED BY <1>2, <1>4, <1>5, <1>6

\* A woken attempt goes on with the block it was given, or not at all.
LEMMA WokenStep ==
  ASSUME IInv, Typed, NEW a \in Attempts, Woken(a)
  PROVE  Typed' /\ AllocKept(alloc, alloc') /\ Booked /\ Idle
<1> DEFINE c == call[a]
<1>0. published' = published /\ UNCHANGED <<d1, flight, alloc, issued>> /\ call[a].pc = "woken"
  BY DEF Woken, vars
<1>1. entry' = IF entry.pending = c.pend THEN [entry EXCEPT !.pending = 0] ELSE entry
  BY DEF Woken
<1>2. /\ EntryOK(entry', issued, Known)
      /\ entry'.holders = entry.holders /\ entry'.live = entry.live /\ entry'.first = entry.first
      /\ entry'.refills = entry.refills /\ entry.refills >= entry.refills
      /\ entry'.pending = entry.pending \/ c.pend = entry.pending
  <2>1. 0 \in 0 .. MaxHolders /\ 0 <= issued
    BY Parts, Bounds
  <2>2. entry.refills >= entry.refills
    BY Parts, Bounds DEF EntryType
  <2> QED BY <1>1, <2>1, <2>2, Parts DEF EntryOK, EntryType
<1>3. /\ CallsOK(call', issued, Known) /\ Others(a)
      /\ call'[a].pc \in {"done", "resolve2"}
  <2>1. CASE Finish(a)
    BY <2>1, FinishOK, Parts
  <2>2. CASE Resolving(a, "resolve2", c)
    <3>1. c \in CallType /\ c.hold <= issued /\ c.pend <= issued
      BY Parts DEF CallOK
    <3> QED BY <2>2, <3>1, ResolvingOK
  <2> QED BY <2>1, <2>2 DEF Woken
<1>4. \A e \in Attempts : CallIdle(e)
  BY <1>3, AsideIdle DEF Engaged, Paying, Recovering
<1>5. Idle
  BY <1>0, <1>2, <1>4 DEF Idle, HoldersKept, JournalKept, Same
<1>6. a \in In({"woken"})
  BY <1>0 DEF In
<1>7. \A e \in Attempts : call'[e].pc = "woken" => call'[e] = call[e]
  BY <1>3 DEF Others
<1>8. Booked
  BY <1>0, <1>2, <1>6, <1>7 DEF Booked
<1> QED BY <1>0, <1>2, <1>3, <1>5, <1>8, TypedSame

\* The second check of an attempt that waited.
LEMMA ResolveAgainStep ==
  ASSUME IInv, Typed, NEW a \in Attempts, ResolveAgain(a)
  PROVE  /\ Typed' /\ AllocKept(alloc, alloc') /\ Booked
         /\ Idle \/ \E h \in entry.holders : Delivers(a, h)
<1> DEFINE c == call[a]
<1>0. published' = published /\ UNCHANGED <<d1, flight, alloc, issued>> /\ call[a].pc = "resolve2"
  BY DEF ResolveAgain, vars
<1>1. call[a].pc \notin Engaged /\ c \in CallType
  BY <1>0, Parts DEF Engaged, Paying, Recovering
<1>2. ASSUME Finish(a), EntryOK(entry', issued, Known), Kin(entry, entry')
      PROVE  Typed' /\ Idle /\ AllocKept(alloc, alloc') /\ Booked
  BY <1>0, <1>2, FinishOK, KinIdle, TypedSame, Parts DEF Engaged, Paying, Recovering
<1>3. EntryOK(entry, issued, Known) /\ Kin(entry, entry)
      /\ EntryOK(RetireEntry(entry), issued, Known) /\ Kin(entry, RetireEntry(entry))
  BY Parts, RetireEntryOK, RetireKin, KinReflexive
<1>4. ASSUME NEW r \in ReadAuthority(c), r # 0
      PROVE  LET seen == Observed(entry, AuthOf(c, r))
             IN /\ r \in Known /\ AuthOf(c, r) \in AuthType
                /\ EntryOK(seen, issued, Known) /\ Kin(entry, seen)
                /\ EntryOK(RetireEntry(seen), issued, Known) /\ Kin(entry, RetireEntry(seen))
  <2> DEFINE seen == Observed(entry, AuthOf(c, r))
  <2>1. r \in Known /\ AuthOf(c, r) \in AuthType
    BY <1>1, <1>4, ReadKnown
  <2>2. EntryOK(seen, issued, Known) /\ Kin(entry, seen) /\ seen \in EntryType
    BY <2>1, ObservedOK, ObservedKin, Parts DEF EntryOK
  <2> HIDE DEF seen
  <2>3. EntryOK(RetireEntry(seen), issued, Known) /\ Kin(entry, RetireEntry(seen))
    BY <2>2, RetireEntryOK, RetireKin, KinTransitive
  <2> QED BY <2>1, <2>2, <2>3 DEF seen
<1>5. ASSUME NEW r \in ReadAuthority(c), r # 0,
             NEW h \in HolderOf(Observed(entry, AuthOf(c, r)), c.hold),
             Deliver(a, Observed(entry, AuthOf(c, r)), h, AuthOf(c, r))
      PROVE  /\ Typed' /\ AllocKept(alloc, alloc') /\ Booked
             /\ Idle \/ \E j \in entry.holders : Delivers(a, j)
  <2> DEFINE E == Observed(entry, AuthOf(c, r))
  <2>1. EntryOK(E, issued, Known) /\ Kin(entry, E) /\ AuthOf(c, r) \in AuthType
    BY <1>4, <1>5
  <2>2. h \in E.holders /\ Deliver(a, E, h, AuthOf(c, r))
    BY <1>5 DEF HolderOf
  <2> HIDE DEF E, c
  <2> QED BY <1>0, <1>1, <2>1, <2>2, DeliverStep
<1>6. \/ Finish(a) /\ entry' \in {entry, RetireEntry(entry)}
      \/ \E r \in ReadAuthority(c) : LET seen == Observed(entry, AuthOf(c, r))
                                     IN r # 0 /\ Finish(a) /\ entry' \in {seen, RetireEntry(seen)}
      \/ \E r \in ReadAuthority(c) : LET seen == Observed(entry, AuthOf(c, r))
           IN r # 0 /\ \E h \in HolderOf(seen, c.hold) : Deliver(a, seen, h, AuthOf(c, r))
  BY DEF ResolveAgain
<1> HIDE DEF c
<1>7. CASE Finish(a) /\ entry' \in {entry, RetireEntry(entry)}
  BY <1>2, <1>3, <1>7
<1>8. CASE \E r \in ReadAuthority(c) : LET seen == Observed(entry, AuthOf(c, r))
                                       IN r # 0 /\ Finish(a) /\ entry' \in {seen, RetireEntry(seen)}
  BY <1>2, <1>4, <1>8
<1> QED BY <1>5, <1>6, <1>7, <1>8
-----------------------------------------------------------------------------
(* The invariant of the blocks in memory.                                  *)

\* The blocks that a holder or an attempt names, by number and reservation,
\* and the reservations that anything names.
Blocks == {<<h.n, h.seq>> : h \in entry.holders} \cup {<<call[a].hold, call[a].seq>> : a \in In(Engaged)}
Named == {p[2] : p \in Blocks} \cup {b.seq : b \in flight}

\* The attempts that pay for operation o from block n.
Payers(n, o) == {a \in In(Paying) : call[a].hold = n /\ OpOf[a] = o}

\* Whoever pays is counted as active, a commit has its receipt, and what was
\* sealed was committed and has nobody active.
OpOK(h, o) ==
  /\ IsFiniteSet(Payers(h.n, o)) /\ Cardinality(Payers(h.n, o)) <= h.ops[o].active
  /\ h.ops[o].state = "committed" => o \in d1.receipts
  /\ (h.sealed /\ h.ops[o].tries > 0) => h.ops[o].state = "committed" /\ h.ops[o].active = 0

Counted == \A h \in entry.holders, o \in Ops : OpOK(h, o)

\* A batch on its way was counted as a try.
Sent == \A b \in flight, h \in entry.holders : b.seq = h.seq => h.ops[OpOf[b.attempt]].tries > 0

Proven == \A a \in In({"ok"}) : OpOf[a] \in d1.receipts

\* Who pays for an operation is active on it.
LEMMA PayerActive ==
  ASSUME IInv, Typed, Counted, NEW a \in Attempts, call[a].pc \in Paying,
         NEW h \in entry.holders, h.n = call[a].hold
  PROVE  h.ops[OpOf[a]].active >= 1 /\ h.ops[OpOf[a]].tries >= 1
<1> DEFINE P == Payers(h.n, OpOf[a])
<1>1. OpOf[a] \in Ops /\ h \in Holder /\ HolderOK(h, issued, Known)
  BY Parts
<1>2. IsFiniteSet(P) /\ Cardinality(P) <= h.ops[OpOf[a]].active
  BY <1>1 DEF Counted, OpOK
<1>3. a \in P
  BY DEF Payers, In
<1> HIDE DEF P
<1>4. P # {} /\ Cardinality(P) \in Nat
  BY <1>2, <1>3, FS_CardinalityType
<1>5. Cardinality(P) # 0
  BY <1>2, <1>4, FS_EmptySet
<1>6. h.ops[OpOf[a]].active \in Nat /\ h.ops[OpOf[a]].tries \in Nat
      /\ h.ops[OpOf[a]].active <= h.ops[OpOf[a]].tries
  BY <1>1, Bounds DEF Holder, HeldOperation, HolderOK
<1> QED BY <1>2, <1>4, <1>5, <1>6

-----------------------------------------------------------------------------
(* Which effect the actions have: the canonical commit.                    *)

\* A call that only changes its state.
LEMMA PcOK ==
  ASSUME NEW n, NEW K, NEW c, CallOK(c, n, K), NEW pc \in CallStates,
         pc \in Engaged => c.pc \in Engaged
  PROVE  LET d == [c EXCEPT !.pc = pc]
         IN /\ CallOK(d, n, K) /\ d.pc = pc /\ d.hold = c.hold /\ d.seq = c.seq
            /\ d.ops = c.ops /\ d.pend = c.pend
BY DEF CallOK, CallType

\* The entry's books when nothing is asked for or woken.
LEMMA BookedSame ==
  ASSUME IInv, Typed, entry'.live = entry.live, entry'.first = entry.first,
         entry'.refills = entry.refills, entry'.pending = entry.pending, issued' = issued,
         NEW a \in Attempts, Others(a), call'[a].pc # "woken"
  PROVE  Booked
<1>1. entry.refills >= entry.refills
  BY Parts, Bounds DEF EntryType
<1>2. \A e \in Attempts : call'[e].pc = "woken" => call'[e] = call[e]
  BY DEF Others
<1> QED BY <1>1, <1>2 DEF Booked

\* Settling.
LEMMA SettledStep ==
  ASSUME IInv, Typed, Counted, NEW a \in Attempts, call[a].pc \in Paying,
         NEW outcome, outcome # "unknown" => OpOf[a] \in d1.receipts, Settled(a, outcome),
         published' = published, UNCHANGED <<d1, flight, alloc, issued>>
  PROVE  Typed' /\ AllocKept(alloc, alloc') /\ Booked /\ Settles(a)
<1> DEFINE o == OpOf[a]
           n == call[a].hold
           due(h) == h.n = n /\ ~h.sealed
           after(h) == IF due(h) THEN SettleHolder(h, o, outcome, clock) ELSE h
           H == {after(h) : h \in entry.holders}
<1>1. o \in Ops /\ clock \in Nat
  BY Parts
<1>2. CallsOK(call', issued, Known) /\ call'[a].pc = "done" /\ Others(a)
  BY FinishOK, Parts DEF Settled
<1>3. entry' = [entry EXCEPT !.holders = H]
  BY DEF Settled, SettleEntry
<1>4. ASSUME NEW h \in entry.holders
      PROVE  /\ after(h) \in Holder /\ HolderOK(after(h), issued, Known)
             /\ \/ Same(h, after(h)) /\ (h.n # call[a].hold \/ h.sealed)
                \/ h.n = call[a].hold /\ \E s \in OpStates :
                     /\ SettledFor(h, after(h), OpOf[a], s)
                     /\ s = "committed" => OpOf[a] \in d1.receipts \/ h.ops[OpOf[a]].state = "committed"
  <2>1. h \in Holder /\ HolderOK(h, issued, Known)
    BY Parts
  <2>2. CASE ~due(h)
    BY <2>1, <2>2 DEF Same
  <2>3. CASE due(h)
    <3>1. h.ops[o].active >= 1
      BY <2>3, PayerActive
    <3> DEFINE k == SettleHolder(h, o, outcome, clock)
    <3>2. k \in Holder /\ HolderOK(k, issued, Known)
      BY <1>1, <2>1, <3>1, SettleOK
    <3>3. \E s \in OpStates : /\ SettledFor(h, k, o, s)
                              /\ s = "committed" => outcome # "unknown" \/ h.ops[o].state = "committed"
      BY <1>1, <2>1, SettleMakes
    <3> HIDE DEF k
    <3>4. after(h) = k
      BY <2>3 DEF k
    <3> QED BY <2>3, <3>2, <3>3, <3>4
  <2> QED BY <2>2, <2>3
<1>5. \A k \in H : /\ k \in Holder /\ HolderOK(k, issued, Known)
                   /\ \E h \in entry.holders :
                        \/ Same(h, k) /\ (h.n # call[a].hold \/ h.sealed)
                        \/ h.n = call[a].hold /\ \E s \in OpStates :
                             /\ SettledFor(h, k, OpOf[a], s)
                             /\ s = "committed" => OpOf[a] \in d1.receipts \/ h.ops[OpOf[a]].state = "committed"
  <2> SUFFICES ASSUME NEW h \in entry.holders
               PROVE  /\ after(h) \in Holder /\ HolderOK(after(h), issued, Known)
                      /\ \E i \in entry.holders :
                           \/ Same(i, after(h)) /\ (i.n # call[a].hold \/ i.sealed)
                           \/ i.n = call[a].hold /\ \E s \in OpStates :
                                /\ SettledFor(i, after(h), OpOf[a], s)
                                /\ s = "committed" => OpOf[a] \in d1.receipts \/ i.ops[OpOf[a]].state = "committed"
    OBVIOUS
  <2> HIDE DEF after
  <2> QED BY <1>4
<1> HIDE DEF H
<1>6. /\ EntryOK(entry', issued, Known)
      /\ entry'.holders = H /\ entry'.live = entry.live /\ entry'.first = entry.first
      /\ entry'.refills = entry.refills /\ entry'.pending = entry.pending
  BY <1>3, <1>5, Parts DEF EntryOK, EntryType
<1>7. Typed' /\ AllocKept(alloc, alloc')
  BY <1>2, <1>6, TypedSame
<1>8. Booked
  BY <1>2, <1>6, BookedSame
<1>9. Settles(a)
  BY <1>2, <1>5, <1>6 DEF Settles
<1> QED BY <1>7, <1>8, <1>9

LEMMA SendBatchStep ==
  ASSUME IInv, Typed, Counted, NEW a \in Attempts, SendBatch(a)
  PROVE  Typed' /\ AllocKept(alloc, alloc') /\ Booked /\ (Idle \/ Settles(a) \/ Sends(a))
<1>0. published' = published /\ UNCHANGED <<d1, alloc, issued>> /\ call[a].pc = "admitted"
  BY DEF SendBatch, vars
<1>1. CASE OpOf[a] \in d1.receipts /\ Settled(a, "committed") /\ UNCHANGED flight
  BY <1>0, <1>1, SettledStep DEF Paying
<1>2. CASE Finish(a) /\ UNCHANGED <<flight, entry>>
  BY <1>0, <1>2, FinishOK, KinIdle, KinReflexive, TypedSame, Parts DEF Engaged, Paying, Recovering
<1>3. CASE /\ flight' = flight \cup {[attempt |-> a, seq |-> call[a].seq, rev |-> call[a].rev,
                                      exp |-> call[a].exp]}
           /\ Goto(a, [call[a] EXCEPT !.pc = "commit"])
           /\ UNCHANGED entry
  <2> DEFINE b == [attempt |-> a, seq |-> call[a].seq, rev |-> call[a].rev, exp |-> call[a].exp]
             c == [call[a] EXCEPT !.pc = "commit"]
  <2>0. CallOK(call[a], issued, Known) /\ call[a].pc \in Engaged /\ "commit" \in CallStates
    BY <1>0, Parts DEF CallStates, Engaged, Paying
  <2>1. CallOK(c, issued, Known) /\ c.pc = "commit" /\ c.hold = call[a].hold /\ c.seq = call[a].seq
    BY <2>0 DEF CallOK, CallType
  <2> HIDE DEF c
  <2>2. CallsOK(call', issued, Known) /\ call'[a] = c /\ Others(a)
    BY <1>3, <2>1, GotoOK, Parts DEF c
  <2>3. b \in Batch
    BY <1>0, Parts DEF Batch, CallOK, CallType, Engaged, Paying
  <2>4. b.attempt = a /\ b.seq = call[a].seq
    OBVIOUS
  <2>5. flight' = flight \cup {b}
    BY <1>3
  <2> HIDE DEF b
  <2>6. Typed'
    <3>1. Known' = Known
      BY <1>0 DEF Known
    <3> QED BY <1>0, <1>3, <2>2, <2>3, <2>5, <3>1 DEF Typed
  <2>7. CallIdle(a)
    BY <1>0, <2>1, <2>2 DEF CallIdle, CallKept, Paying, Recovering
  <2>8. Sends(a)
    BY <1>0, <1>3, <2>2, <2>4, <2>5, <2>7, OnwardIdle DEF Sends, Paying
  <2>9. Booked
    BY <1>0, <1>3, <2>1, <2>2, BookedSame
  <2> QED BY <1>0, <2>6, <2>8, <2>9 DEF AllocKept
<1> QED BY <1>1, <1>2, <1>3 DEF SendBatch

LEMMA ConcludeStep ==
  ASSUME IInv, Typed, Counted, Proven, NEW a \in Attempts, Conclude(a)
  PROVE  Typed' /\ AllocKept(alloc, alloc') /\ Booked /\ (Idle \/ Settles(a))
<1>0. published' = published /\ UNCHANGED <<d1, flight, alloc, issued>> /\ call[a].pc \in {"ok", "failed"}
  BY DEF Conclude, vars
<1>1. CASE call[a].pc = "ok" /\ Settled(a, "committed")
  <2>1. OpOf[a] \in d1.receipts
    BY <1>1 DEF Proven, In
  <2> QED BY <1>0, <1>1, <2>1, SettledStep DEF Paying
<1>2. CASE Settled(a, IF OpOf[a] \in d1.receipts THEN "committed" ELSE "unknown")
  <2> DEFINE outcome == IF OpOf[a] \in d1.receipts THEN "committed" ELSE "unknown"
  <2>1. outcome # "unknown" => OpOf[a] \in d1.receipts
    OBVIOUS
  <2>2. Settled(a, outcome)
    BY <1>2
  <2> HIDE DEF outcome
  <2> QED BY <1>0, <2>1, <2>2, SettledStep DEF Paying
<1>3. CASE Finish(a) /\ UNCHANGED entry
  BY <1>0, <1>3, FinishOK, KinIdle, KinReflexive, TypedSame, Parts DEF Engaged, Paying, Recovering
<1> QED BY <1>1, <1>2, <1>3 DEF Conclude
-----------------------------------------------------------------------------
(* Which effect the actions have: the batch, the environment, recovery.    *)

\* A call that goes on.
LEMMA Onward ==
  ASSUME IInv, Typed, NEW a \in Attempts, NEW c, CallOK(c, issued, Known), Goto(a, c),
         c.pc \in Engaged => CallKept(call[a], c),
         c.pc = "ok" => call[a].pc = "ok" \/ OpOf[a] \in d1'.receipts,
         c.pc = "rec-mark" => call[a].pc = "rec-mark" \/ \A g \in NewWork' : g.seq = c.seq => g.status = "reconciled",
         c.pc # "woken"
  PROVE  /\ CallsOK(call', issued, Known) /\ \A e \in Attempts : CallIdle(e)
         /\ \A e \in Attempts : call'[e].pc = "woken" => call'[e] = call[e]
<1>1. CallsOK(call', issued, Known) /\ call'[a] = c /\ Others(a)
  BY GotoOK, Parts
<1>2. CallIdle(a)
  BY <1>1 DEF CallIdle, CallKept, Engaged
<1>3. \A e \in Attempts : CallIdle(e)
  BY <1>1, <1>2, OnwardIdle
<1> QED BY <1>1, <1>3 DEF Others

\* What changes the calls and the journal only.
LEMMA CallsOnly ==
  ASSUME IInv, Typed, published' = published, UNCHANGED <<entry, alloc, issued>>,
         CallsOK(call', issued, Known), \A e \in Attempts : CallIdle(e),
         \A e \in Attempts : call'[e].pc = "woken" => call'[e] = call[e],
         flight' \subseteq flight, JournalOK(d1'), JournalKept
  PROVE  Typed' /\ AllocKept(alloc, alloc') /\ Booked /\ Idle
<1>1. Known' = Known
  BY DEF Known
<1>2. Typed'
  BY <1>1 DEF Typed
<1>3. entry.refills >= entry.refills
  BY Parts, Bounds DEF EntryType
<1>4. Booked
  BY <1>3 DEF Booked
<1>5. Idle
  BY DEF Idle, HoldersKept, Same
<1> QED BY <1>2, <1>4, <1>5 DEF AllocKept

\* Nothing at all: the ledgers may change.
LEMMA StandsStill ==
  ASSUME IInv, Typed, published' = published, UNCHANGED admissionVars
  PROVE  Typed' /\ AllocKept(alloc, alloc') /\ Booked /\ Idle
<1>1. CallsOK(call', issued, Known) /\ JournalOK(d1')
  BY DEF Typed, admissionVars
<1>2. \A e \in Attempts : CallIdle(e)
  BY DEF CallIdle, CallKept, admissionVars
<1> QED BY <1>1, <1>2, CallsOnly DEF admissionVars, JournalKept

\* A call that turns to pc.
LEMMA TurnsTo ==
  ASSUME IInv, Typed, NEW a \in Attempts, NEW pc \in CallStates, pc # "woken",
         pc \in Paying => call[a].pc \in Paying, pc \in Recovering => call[a].pc \in Recovering,
         Goto(a, [call[a] EXCEPT !.pc = pc]),
         pc = "ok" => call[a].pc = "ok" \/ OpOf[a] \in d1'.receipts,
         pc = "rec-mark" => \A g \in NewWork' : g.seq = call[a].seq => g.status = "reconciled"
  PROVE  /\ CallsOK(call', issued, Known) /\ \A e \in Attempts : CallIdle(e)
         /\ \A e \in Attempts : call'[e].pc = "woken" => call'[e] = call[e]
<1> DEFINE c == [call[a] EXCEPT !.pc = pc]
<1>1. CallOK(call[a], issued, Known) /\ call[a] \in CallType
  BY Parts
<1>2. /\ c \in CallType /\ c.pc = pc /\ c.hold = call[a].hold /\ c.seq = call[a].seq
      /\ c.ops = call[a].ops /\ c.pend = call[a].pend /\ c.rev = call[a].rev
  BY <1>1 DEF CallType
<1>3. Goto(a, c)
  OBVIOUS
<1> HIDE DEF c
<1>4. CallOK(c, issued, Known)
  BY <1>1, <1>2 DEF CallOK, Engaged
<1>5. c.pc \in Engaged => CallKept(call[a], c)
  BY <1>2 DEF CallKept, Engaged, Paying, Recovering
<1> QED BY <1>2, <1>3, <1>4, <1>5, Onward

LEMMA Finishes ==
  ASSUME IInv, Typed, NEW a \in Attempts, Finish(a)
  PROVE  /\ CallsOK(call', issued, Known) /\ \A e \in Attempts : CallIdle(e)
         /\ \A e \in Attempts : call'[e].pc = "woken" => call'[e] = call[e]
<1>1. CallsOK(call', issued, Known) /\ call'[a].pc = "done" /\ Others(a)
  BY FinishOK, Parts
<1> QED BY <1>1, AsideIdle DEF Others, Engaged, Paying, Recovering

\* The operations of the journal.
LEMMA CommitBatchOK ==
  ASSUME NEW J, JournalOK(J), NEW s \in Nat \ {0}, NEW o \in Ops
  PROVE  /\ JournalOK(CommitBatch(J, s, o))
         /\ CommitBatch(J, s, o).done = J.done \cup {<<s, o>>}
         /\ CommitBatch(J, s, o).receipts = J.receipts \cup {o}
<1> DEFINE L == J.links \cup {<<s, o>>}
           D == J.done \cup {<<s, o>>}
           R == J.receipts \cup {o}
<1>1. L \subseteq (Nat \ {0}) \X Ops /\ D \subseteq (Nat \ {0}) \X Ops /\ R \subseteq Ops
  BY DEF JournalOK
<1>2. J = [links |-> J.links, closures |-> J.closures, done |-> J.done, receipts |-> J.receipts]
  BY DEF JournalOK
<1>3. CommitBatch(J, s, o) = [J EXCEPT !.links = L, !.done = D, !.receipts = R]
  BY DEF CommitBatch
<1> HIDE DEF L, D, R
<1>4. CommitBatch(J, s, o) = [links |-> L, closures |-> J.closures, done |-> D, receipts |-> R]
  BY <1>2, <1>3
<1> QED BY <1>1, <1>4 DEF JournalOK, D, R

\* D1 executes a batch.
LEMMA ExecuteStep ==
  ASSUME IInv, Typed, NEW b \in flight, ExecuteBatch(b)
  PROVE  Typed' /\ AllocKept(alloc, alloc') /\ Booked /\ (Idle \/ Executes(b))
<1> DEFINE a == b.attempt
           lands == Fenced(b) /\ Accepts(d1, b.seq, OpOf[a])
<1>0. /\ published' = published /\ UNCHANGED <<entry, alloc, issued>> /\ flight' = flight \ {b}
      /\ d1' = IF lands THEN CommitBatch(d1, b.seq, OpOf[a]) ELSE d1
  BY DEF ExecuteBatch, vars
<1>1. a \in Attempts /\ b.seq \in Nat \ {0} /\ OpOf[a] \in Ops /\ JournalOK(d1)
  BY Parts DEF Typed, Batch
<1>2. lands => /\ OpOf[a] \notin d1.receipts
               /\ d1'.done = d1.done \cup {<<b.seq, OpOf[a]>>}
               /\ d1'.receipts = d1.receipts \cup {OpOf[a]} /\ JournalOK(d1')
  <2>1. /\ JournalOK(CommitBatch(d1, b.seq, OpOf[a]))
        /\ CommitBatch(d1, b.seq, OpOf[a]).done = d1.done \cup {<<b.seq, OpOf[a]>>}
        /\ CommitBatch(d1, b.seq, OpOf[a]).receipts = d1.receipts \cup {OpOf[a]}
    <3> HIDE DEF a
    <3> QED BY <1>1, CommitBatchOK
  <2>2. lands => OpOf[a] \notin d1.receipts
    BY DEF Accepts
  <2> HIDE DEF lands
  <2> QED BY <1>0, <2>1, <2>2
<1>3. /\ CallsOK(call', issued, Known) /\ \A e \in Attempts : CallIdle(e)
      /\ \A e \in Attempts : call'[e].pc = "woken" => call'[e] = call[e]
  <2>1. CASE call[a].pc # "commit"
    <3>1. UNCHANGED call
      BY <2>1 DEF ExecuteBatch
    <3> QED BY <3>1, Parts DEF CallIdle, CallKept
  <2>2. ASSUME call[a].pc = "commit", NEW pc \in {"ok", "failed"}, pc = "ok" => lands,
               Goto(a, [call[a] EXCEPT !.pc = pc])
        PROVE  /\ CallsOK(call', issued, Known) /\ \A e \in Attempts : CallIdle(e)
               /\ \A e \in Attempts : call'[e].pc = "woken" => call'[e] = call[e]
    <3>1. pc \in CallStates /\ pc # "woken" /\ pc # "rec-mark" /\ pc \notin Recovering /\ call[a].pc \in Paying
      BY <2>2 DEF CallStates, Recovering, Paying
    <3>2. pc = "ok" => OpOf[a] \in d1'.receipts
      BY <1>2, <2>2
    <3> HIDE DEF a, lands
    <3> QED BY <1>1, <2>2, <3>1, <3>2, TurnsTo
  <2>3. CASE call[a].pc = "commit"
    <3>1. \/ Goto(a, [call[a] EXCEPT !.pc = IF lands THEN "ok" ELSE "failed"])
          \/ Goto(a, [call[a] EXCEPT !.pc = "failed"])
      BY <2>3 DEF ExecuteBatch
    <3> HIDE DEF a, lands
    <3> QED BY <2>2, <2>3, <3>1
  <2> QED BY <2>1, <2>3
<1> HIDE DEF lands
<1>4. flight' \subseteq flight
  BY <1>0
<1>5. CASE ~lands
  <2>1. JournalOK(d1') /\ JournalKept
    BY <1>0, <1>1, <1>5 DEF JournalKept
  <2> QED BY <1>0, <1>3, <1>4, <2>1, CallsOnly
<1>6. CASE lands
  <2>1. Typed'
    <3>1. Known' = Known
      BY <1>0 DEF Known
    <3> QED BY <1>0, <1>2, <1>3, <1>4, <1>6, <3>1 DEF Typed
  <2>2. entry.refills >= entry.refills
    BY Parts, Bounds DEF EntryType
  <2>3. Executes(b)
    BY <1>0, <1>2, <1>3, <1>4, <1>6 DEF Executes
  <2> QED BY <1>0, <1>3, <2>1, <2>2, <2>3 DEF Booked, AllocKept
<1> QED BY <1>5, <1>6

LEMMA GiveUpStep ==
  ASSUME IInv, Typed, NEW a \in Attempts, GiveUp(a)
  PROVE  Typed' /\ AllocKept(alloc, alloc') /\ Booked /\ Idle
<1>1. published' = published /\ UNCHANGED <<d1, flight, entry, alloc, issued>> /\ call[a].pc = "commit"
      /\ Goto(a, [call[a] EXCEPT !.pc = "failed"])
  BY DEF GiveUp, vars
<1>2. "failed" \in CallStates /\ "failed" \notin Recovering /\ call[a].pc \in Paying
  BY <1>1 DEF CallStates, Recovering, Paying
<1>3. /\ CallsOK(call', issued, Known) /\ \A e \in Attempts : CallIdle(e)
      /\ \A e \in Attempts : call'[e].pc = "woken" => call'[e] = call[e]
  BY <1>1, <1>2, TurnsTo
<1> QED BY <1>1, <1>3, CallsOnly DEF Typed, JournalKept

LEMMA ElsewhereStep ==
  ASSUME IInv, Typed, NEW o \in Ops, CommitElsewhere(o)
  PROVE  Typed' /\ AllocKept(alloc, alloc') /\ Booked /\ Idle
<1>1. published' = published /\ UNCHANGED <<flight, entry, alloc, call, issued>>
      /\ d1' = [d1 EXCEPT !.receipts = @ \cup {o}]
  BY DEF CommitElsewhere, vars
<1>2. JournalOK(d1') /\ JournalKept
  BY <1>1 DEF Typed, JournalOK, JournalKept
<1>3. \A e \in Attempts : CallIdle(e)
  BY <1>1 DEF CallIdle, CallKept
<1> QED BY <1>1, <1>2, <1>3, CallsOnly, Parts

\* Eviction.
LEMMA RestartStep ==
  ASSUME IInv, Typed, Restart
  PROVE  Typed' /\ AllocKept(alloc, alloc') /\ Booked /\ Idle
<1>1. published' = published /\ UNCHANGED <<d1, flight, issued>> /\ entry' = NoEntry /\ alloc' = NoAlloc
      /\ call' = [a \in Attempts |-> IF call[a].pc = "new" THEN NewCall ELSE Finished]
  BY DEF Restart, vars
<1>2. Known' = Known
  BY <1>1 DEF Known
<1>3. CallsOK(call', issued, Known) /\ \A a \in Attempts : call'[a].pc \in {"new", "done"}
  BY <1>1, NewCallType, Parts DEF CallsOK
<1>4. EntryOK(NoEntry, issued, Known) /\ AllocOK(NoAlloc, issued, Known)
  BY NoEntryOK, NoAllocOK, Parts
<1>5. Typed'
  BY <1>1, <1>2, <1>3, <1>4 DEF Typed
<1>6. alloc'.stage = "none" /\ entry'.holders = {} /\ ~entry'.live
  BY <1>1 DEF NoAlloc, NoEntry
<1>7. \A a \in Attempts : CallIdle(a)
  BY <1>3 DEF CallIdle, CallKept, Paying, Recovering
<1>8. Idle
  BY <1>1, <1>6, <1>7 DEF Idle, HoldersKept, JournalKept
<1>9. Booked
  BY <1>1, <1>3, <1>6 DEF Booked
<1>10. AllocKept(alloc, alloc')
  BY <1>6 DEF AllocKept, Statuses
<1> QED BY <1>5, <1>8, <1>9, <1>10

\* A newer authority is published.
LEMMA PublishStep ==
  ASSUME IInv, Typed, PublishEdit
  PROVE  Typed' /\ AllocKept(alloc, alloc') /\ Booked /\ Idle
<1>1. UNCHANGED <<d1, flight, entry, alloc, call, issued>>
  BY DEF PublishEdit
<1>2. Known \subseteq Known'
  <2>1. published' = Append(published, clock) /\ published \in Seq(Nat) /\ clock \in Nat
    BY DEF PublishEdit, Publish, IInv, TypeOK
  <2>2. Len(published') = Len(published) + 1 /\ Len(published) \in Nat
    BY <2>1
  <2> QED BY <2>2 DEF Known
<1>3. Typed'
  <2>1. EntryOK(entry, issued, Known') /\ CallsOK(call, issued, Known')
    BY <1>2, EntryGrows, CallsGrow, Parts
  <2>2. AllocOK(alloc, issued, Known')
    BY <1>2, AllocGrows, Parts DEF Typed
  <2> QED BY <1>1, <2>1, <2>2 DEF Typed
<1>4. \A e \in Attempts : CallIdle(e)
  BY <1>1 DEF CallIdle, CallKept
<1>5. Idle
  BY <1>1, <1>4 DEF Idle, HoldersKept, JournalKept, Same
<1>6. entry.refills >= entry.refills
  BY Parts, Bounds DEF EntryType
<1>7. Booked
  BY <1>1, <1>6 DEF Booked
<1> QED BY <1>1, <1>3, <1>5, <1>7 DEF AllocKept
\* A request for a block, and one for a recovery.
LEMMA EnvelopeType == ASSUME NEW k \in Nat PROVE Envelope(k) \in Amounts
<1>1. OpCost \in [Dims -> Nat] /\ ColdCost \in [Dims -> Nat]
  BY AdmissionAssumption DEF Amounts
<1>2. \A d \in Dims : k * OpCost[d] + ColdCost[d] \in Nat
  BY <1>1
<1> QED BY <1>2 DEF Envelope, Amounts

LEMMA PolicyOfKnown ==
  ASSUME IInv, NEW r \in Known
  PROVE  Authority[r].policies[1].revision \in Nat /\ Authority[r].policies[1].restriction \in Nat
BY KnownType, PoliciesType, TenantType DEF Policy

LEMMA BlockKey ==
  ASSUME NEW n \in 1 .. MaxHolders, NEW k \in 0 .. BlockSize
  PROVE  <<n, k>> \in Keys
BY AdmissionAssumption

LEMMA RecoveryRequestType ==
  ASSUME IInv, Typed, NEW a \in Attempts, call[a].pc \in Recovering
  PROVE  RecoveryRequest(call[a]) \in Request
<1> DEFINE c == call[a]
<1>1. c \in CallType /\ c.hold \in 1 .. MaxHolders /\ c.rev \in Known /\ 0 \in 0 .. BlockSize
  BY Parts, Bounds DEF CallOK, CallType, Engaged
<1>2. c.seq \in Nat /\ c.at \in Nat
  BY <1>1 DEF CallType
<1> HIDE DEF c
<1>3. <<c.hold, 0>> \in Keys
  BY <1>1, BlockKey
<1> QED BY <1>1, <1>2, <1>3, PolicyOfKnown, AdmissionAssumption DEF RecoveryRequest, Request, Purposes, c

LEMMA BlockRequestType ==
  ASSUME IInv, Typed, alloc.stage # "none"
  PROVE  BlockRequest \in Request
<1>1. AllocOK(alloc, issued, Known) /\ alloc.n \in 1 .. MaxHolders /\ alloc.size \in 1 .. BlockSize
      /\ alloc.auth.rev \in Known /\ clock \in Nat
  BY Parts, Bounds DEF Typed, AllocOK, AllocType
<1>2. <<alloc.n, alloc.size>> \in Keys
  BY <1>1, BlockKey, Bounds
<1>3. Envelope(alloc.size) \in Amounts
  BY <1>1, EnvelopeType, Bounds
<1> QED BY <1>1, <1>2, <1>3, PolicyOfKnown DEF BlockRequest, Request, Purposes

LEMMA ClosureEvidenceType ==
  ASSUME IInv, Typed, NEW a \in Attempts, call[a].pc \in Recovering
  PROVE  ClosureEvidence(call[a]) \in Evident
<1> DEFINE c == call[a]
<1>1. c \in CallType /\ c.hold \in 1 .. MaxHolders /\ 0 \in 0 .. BlockSize
  BY Parts, Bounds DEF CallOK, CallType, Engaged
<1>2. c.seq \in Nat /\ c.at \in Nat /\ c.rseq \in Nat /\ c.ops \subseteq Ops
  BY <1>1 DEF CallType
<1>3. Cardinality(c.ops) \in Nat
  BY <1>2, Bounds, FS_Subset, FS_CardinalityType
<1> HIDE DEF c
<1>4. <<c.hold, 0>> \in Keys /\ Observation(Cardinality(c.ops)) \in Amounts
  BY <1>1, <1>3, BlockKey, EnvelopeType DEF Observation
<1> QED BY <1>1, <1>2, <1>4 DEF ClosureEvidence, Evident, c

\* The reservation numbers in the coordinator's answers.
LEMMA GrantSeq ==
  ASSUME IInv, NEW g \in Grants
  PROVE  g.seq \in Nat \ {0} /\ g.status \in Statuses /\ g.expiresAt \in Nat
BY TenantType DEF IInv, AggInv, LedgerInv, Ledger, Grant, Grants, Aggregate

\* Nothing happens at the coordinator.
LEMMA NoCall ==
  ASSUME IInv, UNCHANGED vars
  PROVE  IInv' /\ published' = published /\ clock' = clock /\ SteadyIn(agg, agg', 1)
<1>1. SteadyIn(agg, agg', 1)
  BY SteadyInReflexive DEF vars
<1> QED BY <1>1 DEF vars, IInv, TypeOK

-----------------------------------------------------------------------------
(* Recovery of a sealed block.                                             *)

LEMMA RecoverResolveStep ==
  ASSUME IInv, Typed, NEW a \in Attempts, RecoverResolve(a)
  PROVE  Typed' /\ AllocKept(alloc, alloc') /\ Booked /\ Idle
<1>0. published' = published /\ UNCHANGED <<d1, flight, entry, alloc, issued>> /\ call[a].pc = "recover"
  BY DEF RecoverResolve, vars
<1>1. "rec-refresh" \in CallStates /\ "rec-refresh" \notin Paying /\ call[a].pc \in Recovering
  BY <1>0 DEF CallStates, Recovering, Paying
<1>2. Goto(a, [call[a] EXCEPT !.pc = "rec-refresh"]) \/ Finish(a)
  BY DEF RecoverResolve
<1>3. /\ CallsOK(call', issued, Known) /\ \A e \in Attempts : CallIdle(e)
      /\ \A e \in Attempts : call'[e].pc = "woken" => call'[e] = call[e]
  BY <1>1, <1>2, TurnsTo, Finishes
<1> QED BY <1>0, <1>3, CallsOnly DEF Typed, JournalKept

LEMMA RecoverRefreshStep ==
  ASSUME IInv, Typed, NEW a \in Attempts, RecoverRefresh(a)
  PROVE  /\ Typed' /\ AllocKept(alloc, alloc') /\ Booked /\ Idle
         /\ IInv' /\ SteadyIn(agg, agg', 1)
<1>0. UNCHANGED <<d1, flight, entry, alloc, issued>> /\ call[a].pc = "rec-refresh"
  BY DEF RecoverRefresh
<1>1. "rec-reserve" \in CallStates /\ "rec-reserve" \notin Paying /\ call[a].pc \in Recovering
  BY <1>0 DEF CallStates, Recovering, Paying
<1>2. IInv' /\ published' = published /\ SteadyIn(agg, agg', 1)
  BY RefreshCall, NoCall DEF RecoverRefresh
<1>3. Goto(a, [call[a] EXCEPT !.pc = "rec-reserve"]) \/ Finish(a)
  BY DEF RecoverRefresh
<1>4. /\ CallsOK(call', issued, Known) /\ \A e \in Attempts : CallIdle(e)
      /\ \A e \in Attempts : call'[e].pc = "woken" => call'[e] = call[e]
  BY <1>1, <1>3, TurnsTo, Finishes
<1> QED BY <1>0, <1>2, <1>4, CallsOnly DEF Typed, JournalKept

LEMMA RecoverReserveStep ==
  ASSUME IInv, Typed, NEW a \in Attempts, RecoverReserve(a)
  PROVE  /\ Typed' /\ AllocKept(alloc, alloc') /\ Booked /\ Idle
         /\ IInv' /\ call[a].pc = "rec-reserve"
         /\ SteadyBut(agg.ledger[1], agg'.ledger[1], RecoveryRequest(call[a]))
<1>0. UNCHANGED <<d1, flight, entry, alloc, issued>> /\ call[a].pc = "rec-reserve"
      /\ ReserveRPC(1, RecoveryRequest(call[a]))
  BY DEF RecoverReserve
<1>1. "rec-read" \in CallStates /\ "rec-read" \notin Paying /\ call[a].pc \in Recovering
  BY <1>0 DEF CallStates, Recovering, Paying
<1>2. IInv' /\ published' = published
      /\ SteadyBut(agg.ledger[1], agg'.ledger[1], RecoveryRequest(call[a]))
  BY <1>0, <1>1, RecoveryRequestType, ReserveCall
<1>3. ASSUME NEW g \in Grants', Goto(a, [call[a] EXCEPT !.pc = "rec-read", !.rseq = g.seq])
      PROVE  /\ CallsOK(call', issued, Known) /\ \A e \in Attempts : CallIdle(e)
             /\ \A e \in Attempts : call'[e].pc = "woken" => call'[e] = call[e]
  <2> DEFINE s == g.seq
             c == [call[a] EXCEPT !.pc = "rec-read", !.rseq = s]
  <2>1. \A h \in Grants' : h.seq \in Nat
    <3>1. \A h \in Grants : IInv => h.seq \in Nat
      BY GrantSeq
    <3>2. (\A h \in Grants : IInv => h.seq \in Nat)'
      BY TenantType DEF IInv, AggInv, LedgerInv, Ledger, Grant, Grants, Aggregate
    <3> QED BY <1>2, <3>2
  <2>2. s \in Nat /\ Goto(a, c) /\ CallOK(call[a], issued, Known) /\ call[a] \in CallType
    BY <1>3, <2>1, Parts
  <2> HIDE DEF s
  <2>3. /\ c \in CallType /\ c.pc = "rec-read" /\ c.hold = call[a].hold /\ c.seq = call[a].seq
        /\ c.ops = call[a].ops /\ c.pend = call[a].pend /\ c.rev = call[a].rev
    BY <1>1, <2>2 DEF CallType
  <2> HIDE DEF c
  <2>4. CallOK(c, issued, Known) /\ CallKept(call[a], c)
    BY <1>1, <2>2, <2>3 DEF CallOK, CallKept, Engaged
  <2> QED BY <2>2, <2>3, <2>4, Onward
<1>4. Finish(a) \/ \E g \in Grants' : Goto(a, [call[a] EXCEPT !.pc = "rec-read", !.rseq = g.seq])
  BY DEF RecoverReserve, Delivered, Grants
<1>5. /\ CallsOK(call', issued, Known) /\ \A e \in Attempts : CallIdle(e)
      /\ \A e \in Attempts : call'[e].pc = "woken" => call'[e] = call[e]
  BY <1>3, <1>4, Finishes
<1> QED BY <1>0, <1>2, <1>5, CallsOnly DEF Typed, JournalKept

LEMMA RecoverReadStep ==
  ASSUME IInv, Typed, NEW a \in Attempts, RecoverRead(a)
  PROVE  Typed' /\ AllocKept(alloc, alloc') /\ Booked /\ Idle
<1>0. published' = published /\ UNCHANGED <<d1, flight, entry, alloc, issued>> /\ call[a].pc = "rec-read"
  BY DEF RecoverRead, vars
<1>1. "rec-close" \in CallStates /\ "rec-close" \notin Paying /\ call[a].pc \in Recovering
  BY <1>0 DEF CallStates, Recovering, Paying
<1>2. Goto(a, [call[a] EXCEPT !.pc = "rec-close"]) \/ Finish(a)
  BY DEF RecoverRead
<1>3. /\ CallsOK(call', issued, Known) /\ \A e \in Attempts : CallIdle(e)
      /\ \A e \in Attempts : call'[e].pc = "woken" => call'[e] = call[e]
  BY <1>1, <1>2, TurnsTo, Finishes
<1> QED BY <1>0, <1>3, CallsOnly DEF Typed, JournalKept

\* A closure, and what follows it, leaves what was committed.
LEMMA InsertClosureOK ==
  ASSUME NEW J, JournalOK(J), NEW s, NEW ops, NEW until
  PROVE  JournalOK(InsertClosure(J, s, ops, until)) /\ InsertClosure(J, s, ops, until).done = J.done
         /\ InsertClosure(J, s, ops, until).receipts = J.receipts
BY DEF InsertClosure, JournalOK

LEMMA MarkReconciledOK ==
  ASSUME NEW J, JournalOK(J), NEW s, NEW until
  PROVE  JournalOK(MarkReconciled(J, s, until)) /\ MarkReconciled(J, s, until).done = J.done
         /\ MarkReconciled(J, s, until).receipts = J.receipts
<1> DEFINE C == {IF c.seq = s /\ c.until = until THEN [c EXCEPT !.reconciled = TRUE] ELSE c :
                   c \in J.closures}
<1>1. MarkReconciled(J, s, until) = [J EXCEPT !.closures = C]
  BY DEF MarkReconciled
<1> HIDE DEF C
<1> QED BY <1>1 DEF JournalOK

LEMMA PruneJournalOK ==
  ASSUME NEW J, JournalOK(J), NEW now
  PROVE  JournalOK(PruneJournal(J, now)) /\ PruneJournal(J, now).done = J.done
         /\ PruneJournal(J, now).receipts = J.receipts
<1> DEFINE ripe == Prunable(J, now)
           older(c) == {d \in ripe : d.until < c.until \/ (d.until = c.until /\ d.seq < c.seq)}
           gone == {c \in ripe : Cardinality(older(c)) < 2}
           seqs == {c.seq : c \in gone}
<1>1. PruneJournal(J, now) = [J EXCEPT !.closures = @ \ gone, !.links = {t \in @ : t[1] \notin seqs}]
  BY DEF PruneJournal
<1> HIDE DEF gone, seqs
<1> QED BY <1>1 DEF JournalOK

LEMMA RecoverCloseStep ==
  ASSUME IInv, Typed, NEW a \in Attempts, RecoverClose(a)
  PROVE  Typed' /\ AllocKept(alloc, alloc') /\ Booked /\ Idle
<1>0. published' = published /\ UNCHANGED <<flight, entry, alloc, issued>> /\ call[a].pc = "rec-close"
  BY DEF RecoverClose, vars
<1>1. "rec-reconcile" \in CallStates /\ "rec-reconcile" \notin Paying /\ call[a].pc \in Recovering
  BY <1>0 DEF CallStates, Recovering, Paying
<1>2. Goto(a, [call[a] EXCEPT !.pc = "rec-reconcile"]) \/ Finish(a)
  BY DEF RecoverClose
<1>3. /\ CallsOK(call', issued, Known) /\ \A e \in Attempts : CallIdle(e)
      /\ \A e \in Attempts : call'[e].pc = "woken" => call'[e] = call[e]
  BY <1>1, <1>2, TurnsTo, Finishes
<1>4. d1' = d1 \/ d1' = InsertClosure(d1, call[a].seq, call[a].ops, call[a].exp)
  BY DEF RecoverClose
<1>5. JournalOK(d1') /\ JournalKept
  BY <1>4, InsertClosureOK DEF Typed, JournalKept
<1> QED BY <1>0, <1>3, <1>5, CallsOnly, Parts

LEMMA RecoverReconcileStep ==
  ASSUME IInv, Typed, NEW a \in Attempts, RecoverReconcile(a)
  PROVE  /\ Typed' /\ AllocKept(alloc, alloc') /\ Booked /\ Idle
         /\ IInv' /\ call[a].pc = "rec-reconcile" /\ agg'.ledger[1].next = agg.ledger[1].next
         /\ \A k \in Grants' : SettledAs(agg.ledger[1], k, call[a].seq, Envelope(Cardinality(call[a].ops)))
<1>0. UNCHANGED <<d1, flight, entry, alloc, issued>> /\ call[a].pc = "rec-reconcile"
      /\ ReconcileRPC(1, call[a].seq, ClosureEvidence(call[a]))
  BY DEF RecoverReconcile
<1>1. "rec-mark" \in CallStates /\ "rec-mark" \notin Paying /\ call[a].pc \in Recovering
  BY <1>0 DEF CallStates, Recovering, Paying
<1> DEFINE ev == ClosureEvidence(call[a])
<1>2. ev \in Evident
  BY <1>1, ClosureEvidenceType
<1>3. ev.observed = Envelope(Cardinality(call[a].ops)) /\ ev.now = call[a].at
  BY DEF ClosureEvidence, Observation
<1>4. Accepted(call[a]) =>
        \/ ClosedBy(agg, 1, call[a].seq, ev) # {}
        \/ \E g \in Expire(agg.ledger[1], ev.now).grants : g.seq = call[a].seq /\ g.status = "reconciled"
  BY <1>3 DEF Accepted
<1>5. ReconcileRPC(1, call[a].seq, ev)
  BY <1>0
<1> HIDE DEF ev
<1>6. /\ IInv' /\ published' = published /\ agg'.ledger[1].next = agg.ledger[1].next
      /\ \A k \in agg'.ledger[1].grants : SettledAs(agg.ledger[1], k, call[a].seq, ev.observed)
      /\ Accepted(call[a]) => \A k \in agg'.ledger[1].grants : k.seq = call[a].seq => k.status = "reconciled"
  BY <1>2, <1>4, <1>5, ReconcileCall
<1>7. Finish(a) \/ (Accepted(call[a]) /\ Goto(a, [call[a] EXCEPT !.pc = "rec-mark"]))
  BY DEF RecoverReconcile
<1>8. /\ CallsOK(call', issued, Known) /\ \A e \in Attempts : CallIdle(e)
      /\ \A e \in Attempts : call'[e].pc = "woken" => call'[e] = call[e]
  <2>1. CASE Finish(a)
    BY <2>1, Finishes
  <2>2. CASE Accepted(call[a]) /\ Goto(a, [call[a] EXCEPT !.pc = "rec-mark"])
    <3>1. \A g \in NewWork' : g.seq = call[a].seq => g.status = "reconciled"
      BY <1>6, <2>2 DEF NewWork, Grants
    <3> QED BY <1>1, <2>2, <3>1, TurnsTo
  <2> QED BY <1>7, <2>1, <2>2
<1> QED BY <1>0, <1>3, <1>6, <1>8, CallsOnly DEF Typed, JournalKept, Grants
\* The holder of a block that was reconciled goes, and returns a credit.
Returns(a) ==
  /\ call[a].pc = "rec-mark"
  /\ \E h \in entry.holders : h.n = call[a].hold
  /\ \A k \in entry'.holders : k.n # call[a].hold
  /\ \/ /\ entry'.live = entry.live /\ entry'.first = entry.first
        /\ entry'.pending = entry.pending
        /\ entry'.refills + 1 >= entry.refills
     \/ ~entry'.live /\ entry'.holders = {} /\ entry.pending = 0
  /\ \A e \in Attempts : call'[e].pc = "woken" => call'[e] = call[e]

LEMMA CompleteOK ==
  ASSUME NEW E, NEW n, NEW K, EntryOK(E, n, K), NEW m, HolderOf(E, m) # {}
  PROVE  LET F == CompleteRecovery(E, m)
         IN /\ EntryOK(F, n, K)
            /\ F.holders = E.holders \ HolderOf(E, m) /\ F.live = E.live /\ F.first = E.first
            /\ F.pending = E.pending /\ F.refills + 1 >= E.refills
<1> DEFINE H == E.holders \ HolderOf(E, m)
           route == [o \in Ops |-> IF E.route[o] = m THEN 0 ELSE E.route[o]]
           left == IF E.refills > 0 THEN E.refills - 1 ELSE 0
           F == CompleteRecovery(E, m)
<1>1. F = [E EXCEPT !.holders = H, !.route = route, !.refills = left]
  BY DEF CompleteRecovery
<1>2. H \subseteq E.holders
  OBVIOUS
<1>3. route \in [Ops -> 0 .. MaxHolders]
  BY Bounds DEF EntryOK, EntryType
<1>4. left \in 0 .. MaxRefills /\ left + 1 >= E.refills
  BY Bounds DEF EntryOK, EntryType
<1> HIDE DEF H, route, left, F
<1>5. F \in EntryType /\ F.holders = H /\ F.live = E.live /\ F.first = E.first /\ F.pending = E.pending
      /\ F.refills = left
  BY <1>1, <1>2, <1>3, <1>4 DEF EntryOK, EntryType
<1>6. EntryOK(F, n, K)
  BY <1>2, <1>5 DEF EntryOK
<1> QED BY <1>4, <1>5, <1>6 DEF H, F

LEMMA RecoverMarkStep ==
  ASSUME IInv, Typed, NEW a \in Attempts, RecoverMark(a)
  PROVE  Typed' /\ AllocKept(alloc, alloc') /\ Idle /\ (Booked \/ Returns(a))
<1> DEFINE E == CompleteRecovery(entry, call[a].hold)
           marked == MarkReconciled(d1, call[a].seq, call[a].exp)
<1>0. published' = published /\ UNCHANGED <<flight, alloc, issued>> /\ call[a].pc = "rec-mark"
      /\ StartAdmit(a, E)
  BY DEF RecoverMark, vars
<1>1. JournalOK(d1') /\ d1'.done = d1.done /\ d1'.receipts = d1.receipts
  <2>1. JournalOK(d1)
    BY DEF Typed
  <2>2. JournalOK(marked) /\ marked.done = d1.done /\ marked.receipts = d1.receipts
    BY <2>1, MarkReconciledOK
  <2>3. d1' = PruneJournal(marked, call[a].at) \/ d1' \in {d1, marked}
    BY DEF RecoverMark
  <2> HIDE DEF marked
  <2> QED BY <2>1, <2>2, <2>3, PruneJournalOK
<1>2. /\ EntryOK(E, issued, Known) /\ HoldersKept(entry.holders, E.holders)
      /\ E.live = entry.live /\ E.first = entry.first /\ E.pending = entry.pending
      /\ \/ Kin(entry, E)
         \/ /\ \E h \in entry.holders : h.n = call[a].hold
            /\ \A k \in E.holders : k.n # call[a].hold
            /\ E.refills + 1 >= entry.refills
  <2>1. CASE HolderOf(entry, call[a].hold) = {}
    <3>1. E = entry
      BY <2>1 DEF CompleteRecovery
    <3> HIDE DEF E
    <3> QED BY <3>1, KinReflexive, Parts DEF Kin
  <2>2. CASE HolderOf(entry, call[a].hold) # {}
    <3>1. /\ EntryOK(E, issued, Known)
          /\ E.holders = entry.holders \ HolderOf(entry, call[a].hold) /\ E.live = entry.live
          /\ E.first = entry.first /\ E.pending = entry.pending /\ E.refills + 1 >= entry.refills
      BY <2>2, CompleteOK, Parts
    <3> HIDE DEF E
    <3> QED BY <2>2, <3>1 DEF HolderOf, HoldersKept, Same
  <2> QED BY <2>1, <2>2
<1> HIDE DEF E
<1>3. /\ EntryOK(entry', issued, Known) /\ CallsOK(call', issued, Known)
      /\ call'[a].pc \in {"done", "resolve"} /\ Others(a)
      /\ \/ Kin(E, entry')
         \/ ~entry'.live /\ entry'.holders = {} /\ E.pending = 0
  BY <1>0, <1>2, StartAdmitStep
<1>4. \A e \in Attempts : CallIdle(e)
  BY <1>3, AsideIdle DEF Engaged, Paying, Recovering
<1>5. HoldersKept(entry.holders, entry'.holders)
  <2>1. CASE Kin(E, entry')
    <3> SUFFICES ASSUME NEW k \in entry'.holders PROVE \E h \in entry.holders : Same(h, k)
      BY DEF HoldersKept
    <3>1. PICK j \in E.holders : Same(j, k)
      BY <2>1 DEF Kin, HoldersKept
    <3>2. PICK h \in entry.holders : Same(h, j)
      BY <1>2 DEF HoldersKept
    <3> QED BY <3>1, <3>2, SameTransitive
  <2>2. CASE entry'.holders = {}
    BY <2>2 DEF HoldersKept
  <2> QED BY <1>3, <2>1, <2>2
<1>6. Idle
  BY <1>0, <1>1, <1>4, <1>5 DEF Idle, JournalKept
<1>7. Typed'
  <2>1. Known' = Known
    BY <1>0 DEF Known
  <2> QED BY <1>0, <1>1, <1>3, <2>1 DEF Typed
<1>8. \A e \in Attempts : call'[e].pc = "woken" => call'[e] = call[e]
  BY <1>3 DEF Others
<1>9. entry.refills \in Nat /\ E.refills \in Nat
  BY <1>2, Parts, Bounds DEF EntryOK, EntryType
<1>10. ASSUME ~entry'.live, entry'.holders = {}, E.pending = 0
       PROVE  Booked
  BY <1>0, <1>2, <1>8, <1>10 DEF Booked
<1>11. ASSUME Kin(E, entry'), Kin(entry, E)
       PROVE  Booked
  <2>1. entry'.live = entry.live /\ entry'.first = entry.first /\ entry'.pending = entry.pending
        /\ entry'.refills >= entry.refills
    BY <1>9, <1>11 DEF Kin
  <2> QED BY <1>0, <1>8, <2>1 DEF Booked
<1>12. ASSUME Kin(E, entry'), ~Kin(entry, E)
       PROVE  Returns(a)
  <2>1. \A k \in entry'.holders : k.n # call[a].hold
    BY <1>2, <1>12 DEF Kin, HoldersKept, Same
  <2> QED BY <1>0, <1>2, <1>8, <1>9, <1>12, <2>1 DEF Returns, Kin
<1> QED BY <1>0, <1>3, <1>6, <1>7, <1>10, <1>11, <1>12 DEF AllocKept

-----------------------------------------------------------------------------
(* Allocation.                                                             *)

\* Everyone who waits for the allocation wakes.
LEMMA WakeAllOK ==
  ASSUME IInv, Typed, NEW n \in 0 .. issued, WakeAll(n)
  PROVE  /\ alloc' = NoAlloc /\ AllocOK(alloc', issued, Known) /\ alloc'.stage = "none"
         /\ CallsOK(call', issued, Known) /\ \A e \in Attempts : CallIdle(e)
<1>1. alloc' = NoAlloc /\ AllocOK(alloc', issued, Known) /\ alloc'.stage = "none"
  BY NoAllocOK DEF WakeAll, NoAlloc
<1>2. n \in 0 .. MaxHolders /\ n <= issued /\ "woken" \in CallStates
  BY Parts, Bounds DEF CallStates
<1>3. ASSUME NEW a \in Attempts
      PROVE  /\ CallOK([call[a] EXCEPT !.pc = "woken", !.hold = n], issued, Known)
             /\ [call[a] EXCEPT !.pc = "woken", !.hold = n].pc = "woken"
  <2> DEFINE c == [call[a] EXCEPT !.pc = "woken", !.hold = n]
  <2>1. call[a] \in CallType /\ CallOK(call[a], issued, Known)
    BY Parts
  <2>2. c \in CallType /\ c.pc = "woken" /\ c.hold = n /\ c.pend = call[a].pend
    BY <1>2, <2>1 DEF CallType
  <2> HIDE DEF c
  <2>3. CallOK(c, issued, Known)
    BY <1>2, <2>1, <2>2 DEF CallOK, Engaged, Paying, Recovering
  <2> QED BY <2>2, <2>3 DEF c
<1>4. call' = [a \in Attempts |-> IF call[a].pc = "wait" /\ call[a].pend = alloc.n
                                  THEN [call[a] EXCEPT !.pc = "woken", !.hold = n] ELSE call[a]]
  BY DEF WakeAll
<1>5. \A a \in Attempts : /\ CallOK(call'[a], issued, Known)
                          /\ call'[a] = call[a] \/ call'[a].pc = "woken"
  BY <1>3, <1>4, Parts
<1>6. CallsOK(call', issued, Known)
  BY <1>4, <1>5 DEF CallsOK
<1>7. \A e \in Attempts : CallIdle(e)
  BY <1>5 DEF CallIdle, CallKept, Paying, Recovering
<1> QED BY <1>1, <1>6, <1>7

\* What changes the calls and the allocation, which goes on or is over.
LEMMA AllocOnly ==
  ASSUME IInv, Typed, published' = published, UNCHANGED <<d1, flight, entry, issued>>,
         CallsOK(call', issued, Known), \A e \in Attempts : CallIdle(e),
         AllocOK(alloc', issued, Known),
         alloc'.stage = "none" \/ call' = call
  PROVE  Typed' /\ Booked /\ Idle
<1>1. Known' = Known
  BY DEF Known
<1>2. Typed'
  BY <1>1 DEF Typed
<1>3. entry.refills >= entry.refills
  BY Parts, Bounds DEF EntryType
<1>4. Booked
  BY <1>3 DEF Booked
<1>5. Idle
  BY DEF Idle, HoldersKept, Same, JournalKept
<1> QED BY <1>2, <1>4, <1>5

\* One more try of the same allocation.
LEMMA TurnsAlloc ==
  ASSUME IInv, Typed, published' = published, UNCHANGED <<d1, flight, entry, issued, call>>,
         alloc.stage # "none", NEW stage \in {"refresh", "reserve"}, NEW try \in Nat,
         alloc' = [alloc EXCEPT !.stage = stage, !.try = try]
  PROVE  Typed' /\ AllocKept(alloc, alloc') /\ Booked /\ Idle
<1>1. /\ AllocOK(alloc', issued, Known) /\ alloc'.stage = stage /\ alloc'.n = alloc.n
      /\ alloc'.size = alloc.size
  BY DEF Typed, AllocOK, AllocType, Statuses
<1>2. CallsOK(call', issued, Known)
  BY Parts
<1>3. \A e \in Attempts : CallIdle(e)
  BY DEF CallIdle, CallKept
<1>4. Typed' /\ Booked /\ Idle
  BY <1>1, <1>2, <1>3, AllocOnly
<1>5. AllocKept(alloc, alloc')
  BY <1>1 DEF AllocKept, Statuses
<1> QED BY <1>4, <1>5

\* An allocation that fails for good, or is tried again.
LEMMA WakesNone ==
  ASSUME IInv, Typed, published' = published, UNCHANGED <<d1, flight, entry, issued>>, WakeAll(0)
  PROVE  Typed' /\ AllocKept(alloc, alloc') /\ Booked /\ Idle
<1>1. 0 \in 0 .. issued
  BY Parts
<1>2. /\ AllocOK(alloc', issued, Known) /\ alloc'.stage = "none"
      /\ CallsOK(call', issued, Known) /\ \A e \in Attempts : CallIdle(e)
  BY <1>1, WakeAllOK
<1> QED BY <1>2, AllocOnly DEF AllocKept, Statuses

LEMMA Retries ==
  ASSUME IInv, Typed, published' = published, UNCHANGED <<d1, flight, entry, issued>>,
         alloc.stage # "none", Retry
  PROVE  Typed' /\ AllocKept(alloc, alloc') /\ Booked /\ Idle
<1>1. CASE UNCHANGED call /\ alloc' = [alloc EXCEPT !.stage = "refresh", !.try = 2]
  BY <1>1, TurnsAlloc
<1>2. CASE WakeAll(0)
  BY <1>2, WakesNone
<1> QED BY <1>1, <1>2 DEF Retry

LEMMA AllocRefreshStep ==
  ASSUME IInv, Typed, AllocRefresh
  PROVE  /\ Typed' /\ AllocKept(alloc, alloc') /\ Booked /\ Idle
         /\ IInv' /\ SteadyIn(agg, agg', 1)
<1>0. UNCHANGED <<d1, flight, entry, issued>> /\ alloc.stage = "refresh"
  BY DEF AllocRefresh
<1>1. IInv' /\ published' = published /\ SteadyIn(agg, agg', 1)
  BY RefreshCall, NoCall DEF AllocRefresh
<1>2. WakeAll(0) \/ Retry \/ (UNCHANGED call /\ alloc' = [alloc EXCEPT !.stage = "reserve"])
  BY DEF AllocRefresh
<1>3. CASE UNCHANGED call /\ alloc' = [alloc EXCEPT !.stage = "reserve"]
  <2>1. alloc' = [alloc EXCEPT !.stage = "reserve", !.try = alloc.try] /\ alloc.try \in Nat
    BY <1>3 DEF Typed, AllocOK, AllocType
  <2> QED BY <1>0, <1>1, <1>3, <2>1, TurnsAlloc
<1> QED BY <1>0, <1>1, <1>2, <1>3, WakesNone, Retries

\* The reservation that was asked for is known.
Allots(g) ==
  /\ g \in Grants' /\ g.key = <<alloc.n, alloc.size>>
  /\ alloc'.n = alloc.n /\ alloc'.size = alloc.size
  /\ alloc'.stage = g.status /\ alloc'.seq = g.seq

\* There is no reservation, and one operation's worth is asked for.
Shrinks == alloc'.n = alloc.n /\ alloc'.size = 1 /\ alloc'.stage = "refresh"

LEMMA AllocReserveStep ==
  ASSUME IInv, Typed, AllocReserve
  PROVE  /\ Typed' /\ Booked /\ Idle /\ IInv' /\ alloc.stage = "reserve"
         /\ SteadyIn(agg, agg', 1) \/ SteadyBut(agg.ledger[1], agg'.ledger[1], BlockRequest)
         /\ \/ AllocKept(alloc, alloc')
            \/ \E g \in Grants' : Allots(g)
            \/ /\ Shrinks /\ ReserveRPC(1, BlockRequest) /\ Exhausted(BlockRequest)
               /\ Delivered(BlockRequest.key) = {}
<1>0. UNCHANGED <<d1, flight, entry, issued>> /\ alloc.stage = "reserve"
  BY DEF AllocReserve
<1>1. CASE (WakeAll(0) \/ Retry) /\ UNCHANGED vars
  <2>1. IInv' /\ published' = published /\ SteadyIn(agg, agg', 1)
    BY <1>1, NoCall
  <2> QED BY <1>0, <1>1, <2>1, WakesNone, Retries
<1>2. CASE ReserveRPC(1, BlockRequest)
  <2>1. IInv' /\ published' = published /\ SteadyBut(agg.ledger[1], agg'.ledger[1], BlockRequest)
    BY <1>0, <1>2, BlockRequestType, ReserveCall
  <2>2. CASE WakeAll(0) \/ Retry
    BY <1>0, <2>1, <2>2, WakesNone, Retries
  <2>3. CallsOK(call, issued, Known) /\ AllocOK(alloc, issued, Known)
    BY Parts DEF Typed
  <2>4. ASSUME NEW g \in Delivered(BlockRequest.key), UNCHANGED call,
               alloc' = [alloc EXCEPT !.stage = g.status, !.seq = g.seq, !.until = g.expiresAt]
        PROVE  Typed' /\ Booked /\ Idle /\ \E h \in Grants' : Allots(h)
    <3>1. g \in Grants' /\ g.key = <<alloc.n, alloc.size>>
      BY <2>4 DEF Delivered, Grants, BlockRequest
    <3>2. g.seq \in Nat \ {0} /\ g.status \in Statuses /\ g.expiresAt \in Nat
      BY <2>1, <3>1, TenantType DEF IInv, AggInv, LedgerInv, Ledger, Grant, Grants, Aggregate
    <3>3. /\ AllocOK(alloc', issued, Known) /\ alloc'.n = alloc.n /\ alloc'.size = alloc.size
          /\ alloc'.stage = g.status /\ alloc'.seq = g.seq
      <4>1. alloc' \in AllocType
        BY <2>3, <2>4, <3>2 DEF AllocOK, AllocType
      <4>2. /\ alloc'.n = alloc.n /\ alloc'.size = alloc.size /\ alloc'.auth = alloc.auth
            /\ alloc'.stage = g.status /\ alloc'.seq = g.seq
        BY <2>3, <2>4 DEF AllocOK, AllocType
      <4> QED BY <1>0, <2>3, <3>2, <4>1, <4>2 DEF AllocOK
    <3>4. CallsOK(call', issued, Known) /\ \A e \in Attempts : CallIdle(e)
      BY <2>3, <2>4 DEF CallIdle, CallKept
    <3>5. Typed' /\ Booked /\ Idle
      BY <1>0, <2>1, <2>4, <3>3, <3>4, AllocOnly
    <3> QED BY <3>1, <3>3, <3>5 DEF Allots
  <2>5. ASSUME UNCHANGED call, alloc.size > 1,
               alloc' = [alloc EXCEPT !.stage = "refresh", !.size = 1, !.try = 1]
        PROVE  Typed' /\ Booked /\ Idle /\ Shrinks
    <3>1. /\ AllocOK(alloc', issued, Known) /\ alloc'.n = alloc.n /\ alloc'.size = 1
          /\ alloc'.stage = "refresh"
      <4>1. 1 \in 0 .. BlockSize /\ 1 >= 1
        BY Bounds
      <4> QED BY <1>0, <2>3, <2>5, <4>1 DEF AllocOK, AllocType, Statuses
    <3>2. CallsOK(call', issued, Known) /\ \A e \in Attempts : CallIdle(e)
      BY <2>3, <2>5 DEF CallIdle, CallKept
    <3>3. Typed' /\ Booked /\ Idle
      BY <1>0, <2>1, <2>5, <3>1, <3>2, AllocOnly
    <3> QED BY <3>1, <3>3 DEF Shrinks
  <2>6. \/ WakeAll(0) \/ Retry
        \/ \E g \in Delivered(BlockRequest.key) :
             UNCHANGED call /\ alloc' = [alloc EXCEPT !.stage = g.status, !.seq = g.seq, !.until = g.expiresAt]
        \/ /\ UNCHANGED call /\ alloc.size > 1
           /\ alloc' = [alloc EXCEPT !.stage = "refresh", !.size = 1, !.try = 1]
           /\ Exhausted(BlockRequest) /\ Delivered(BlockRequest.key) = {}
    BY <1>2 DEF AllocReserve
  <2> QED BY <1>0, <1>2, <2>1, <2>2, <2>4, <2>5, <2>6
<1> QED BY <1>1, <1>2 DEF AllocReserve

\* The grant arrives.
LEMMA AllocInstallStep ==
  ASSUME IInv, Typed, AllocInstall
  PROVE  Typed' /\ AllocKept(alloc, alloc') /\ Booked /\ (Idle \/ Installs)
<1> DEFINE fits == AllocOpen /\ alloc.stage = "reserved" /\ clock < alloc.auth.exp /\ clock < alloc.until
           k == NewHolder(alloc.n, alloc.size, alloc.auth, alloc.seq, alloc.until)
<1>0. published' = published /\ UNCHANGED <<d1, flight, issued>> /\ alloc.stage \in Statuses
      /\ WakeAll(IF fits THEN alloc.n ELSE 0)
      /\ entry' = IF fits THEN [entry EXCEPT !.holders = @ \cup {k}] ELSE entry
  BY DEF AllocInstall, vars
<1>1. /\ alloc.n \in 1 .. issued /\ alloc.size \in Nat \ {0} /\ alloc.auth \in AuthType
      /\ alloc.auth.rev \in Known /\ alloc.seq \in Nat \ {0} /\ alloc.until \in Nat /\ alloc.stage # "none"
  BY <1>0, Bounds DEF Typed, AllocOK, AllocType, Statuses
<1>2. k \in Holder /\ HolderOK(k, issued, Known)
  BY <1>1, NewHolderOK, Parts
<1>3. k.n = alloc.n /\ k.seq = alloc.seq /\ k.size = alloc.size /\ ~k.sealed
      /\ \A o \in Ops : k.ops[o] = [tries |-> 0, active |-> 0, state |-> "none"]
  BY DEF NewHolder
<1> HIDE DEF k, fits
<1>4. /\ alloc' = NoAlloc /\ AllocOK(alloc', issued, Known) /\ alloc'.stage = "none"
      /\ CallsOK(call', issued, Known) /\ \A e \in Attempts : CallIdle(e)
  <2>1. (IF fits THEN alloc.n ELSE 0) \in 0 .. issued
    BY <1>1, Parts
  <2> QED BY <1>0, <2>1, WakeAllOK
<1>5. /\ EntryOK(entry', issued, Known) /\ entry'.live = entry.live /\ entry'.first = entry.first
      /\ entry'.pending = entry.pending /\ entry'.refills = entry.refills
      /\ entry'.holders = IF fits THEN entry.holders \cup {k} ELSE entry.holders
  BY <1>0, <1>2, Parts DEF EntryOK, EntryType
<1>6. Typed'
  <2>1. Known' = Known
    BY <1>0 DEF Known
  <2> QED BY <1>0, <1>4, <1>5, <2>1 DEF Typed
<1>7. Booked
  <2>1. entry.refills >= entry.refills
    BY Parts, Bounds DEF EntryType
  <2> QED BY <1>0, <1>4, <1>5, <2>1 DEF Booked
<1>8. AllocKept(alloc, alloc')
  BY <1>4 DEF AllocKept, Statuses
<1>9. CASE fits
  <2>1. alloc.stage = "reserved"
    BY <1>9 DEF fits
  <2>2. \A h \in entry.holders : Same(h, h)
    BY DEF Same
  <2> QED BY <1>0, <1>3, <1>4, <1>5, <1>6, <1>7, <1>8, <1>9, <2>1, <2>2 DEF Installs
<1>10. CASE ~fits
  <2>1. Idle
    BY <1>0, <1>4, <1>5, <1>10 DEF Idle, HoldersKept, Same, JournalKept
  <2> QED BY <1>6, <1>7, <1>8, <2>1
<1> QED BY <1>9, <1>10
-----------------------------------------------------------------------------
(* The invariant of the blocks in memory is kept.                          *)

\* A block asked for is a new one: nothing names its number or its reservations.
Fresh ==
  /\ \A g \in Grants : g.key[1] \in 1 .. issued
  /\ \A s \in Named : s < agg.ledger[1].next
  /\ alloc.stage # "none" =>
       /\ \A g \in Grants : g.key[1] = alloc.n => g.seq \notin Named
       /\ \A p \in Blocks : p[1] # alloc.n
  /\ alloc.stage \in Statuses => alloc.seq \notin Named /\ alloc.seq < agg.ledger[1].next

\* A block has one number and one reservation.
Distinct == \A p, q \in Blocks : p[1] = q[1] <=> p[2] = q[2]

MemoryInv == Fresh /\ Distinct /\ Counted /\ Sent /\ Proven

\* What a step may do to the blocks.
Effect ==
  \/ Idle
  \/ \E a \in Attempts : \E h \in entry.holders : Delivers(a, h)
  \/ \E a \in Attempts : \E h \in entry.holders : Seals(a, h)
  \/ \E a \in Attempts : Settles(a)
  \/ \E a \in Attempts : Sends(a)
  \/ \E b \in flight : Executes(b)
  \/ Installs

BlocksKept == Blocks' \subseteq Blocks /\ Named' \subseteq Named

\* Where the names of a step come from.
LEMMA BlocksFrom ==
  ASSUME \A k \in entry'.holders : \E h \in entry.holders : k.n = h.n /\ k.seq = h.seq,
         \A a \in Attempts : call'[a].pc \in Engaged =>
           \/ call[a].pc \in Engaged /\ call'[a].hold = call[a].hold /\ call'[a].seq = call[a].seq
           \/ \E h \in entry.holders : call'[a].hold = h.n /\ call'[a].seq = h.seq,
         \A b \in flight' : b \in flight \/ \E a \in In(Engaged) : b.seq = call[a].seq
  PROVE  BlocksKept
<1>1. ASSUME NEW k \in entry'.holders PROVE <<k.n, k.seq>> \in Blocks
  BY DEF Blocks
<1>2. ASSUME NEW a \in Attempts, call'[a].pc \in Engaged
      PROVE  <<call'[a].hold, call'[a].seq>> \in Blocks
  BY <1>2 DEF Blocks, In
<1>3. Blocks' \subseteq Blocks
  BY <1>1, <1>2 DEF Blocks, In
<1>4. \A a \in In(Engaged) : call[a].seq \in Named
  <2> SUFFICES ASSUME NEW a \in In(Engaged) PROVE call[a].seq \in Named
    OBVIOUS
  <2>1. <<call[a].hold, call[a].seq>> \in Blocks
    BY DEF Blocks
  <2>2. <<call[a].hold, call[a].seq>>[2] = call[a].seq
    OBVIOUS
  <2> QED BY <2>1, <2>2 DEF Named
<1>5. Named' \subseteq Named
  <2>1. ASSUME NEW p \in Blocks' PROVE p[2] \in Named
    BY <1>3 DEF Named
  <2>2. ASSUME NEW b \in flight' PROVE b.seq \in Named
    BY <1>4 DEF Named
  <2> QED BY <2>1, <2>2 DEF Named
<1> QED BY <1>3, <1>5 DEF BlocksKept

\* Every step but the arrival of a block names what was named.
LEMMA EffectNames == ASSUME Effect, ~Installs PROVE BlocksKept
<1>1. \A a \in Attempts : CallIdle(a) /\ call'[a].pc \in Engaged =>
        call[a].pc \in Engaged /\ call'[a].hold = call[a].hold /\ call'[a].seq = call[a].seq
  BY DEF CallIdle, CallKept, Engaged
<1>2. CASE Idle
  <2>1. \A k \in entry'.holders : \E h \in entry.holders : k.n = h.n /\ k.seq = h.seq
    BY <1>2 DEF Idle, HoldersKept, Same
  <2> QED BY <1>1, <1>2, <2>1, BlocksFrom DEF Idle
<1>3. CASE \E a \in Attempts : \E h \in entry.holders : Delivers(a, h)
  <2>1. PICK a \in Attempts, h \in entry.holders : Delivers(a, h)
    BY <1>3
  <2>2. \A k \in entry'.holders : \E j \in entry.holders : k.n = j.n /\ k.seq = j.seq
    BY <2>1 DEF Delivers, Same, PaidFor
  <2>3. \A e \in Attempts \ {a} : call'[e] = call[e]
    BY <2>1 DEF Delivers, Others
  <2>4. call'[a].hold = h.n /\ call'[a].seq = h.seq /\ flight' = flight
    BY <2>1 DEF Delivers
  <2> QED BY <2>2, <2>3, <2>4, BlocksFrom
<1>4. CASE \E a \in Attempts : \E h \in entry.holders : Seals(a, h)
  <2>1. PICK a \in Attempts, h \in entry.holders : Seals(a, h)
    BY <1>4
  <2>2. \A k \in entry'.holders : \E j \in entry.holders : k.n = j.n /\ k.seq = j.seq
    BY <2>1 DEF Seals, Same
  <2>3. \A e \in Attempts \ {a} : call'[e] = call[e]
    BY <2>1 DEF Seals, Others
  <2>4. call'[a].hold = h.n /\ call'[a].seq = h.seq /\ flight' = flight
    BY <2>1 DEF Seals
  <2> QED BY <2>2, <2>3, <2>4, BlocksFrom
<1>5. CASE \E a \in Attempts : Settles(a)
  <2>1. PICK a \in Attempts : Settles(a)
    BY <1>5
  <2>2. \A k \in entry'.holders : \E j \in entry.holders : k.n = j.n /\ k.seq = j.seq
    BY <2>1 DEF Settles, Same, SettledFor
  <2>3. \A e \in Attempts \ {a} : call'[e] = call[e]
    BY <2>1 DEF Settles, Others
  <2>4. call'[a].pc \notin Engaged /\ flight' = flight
    BY <2>1 DEF Settles, Engaged, Paying, Recovering
  <2> QED BY <2>2, <2>3, <2>4, BlocksFrom
<1>6. CASE \E a \in Attempts : Sends(a)
  <2>1. PICK a \in Attempts : Sends(a)
    BY <1>6
  <2>2. entry' = entry /\ \A e \in Attempts : CallIdle(e)
    BY <2>1 DEF Sends
  <2>3. a \in In(Engaged) /\ \A b \in flight' : b \in flight \/ b.seq = call[a].seq
    BY <2>1 DEF Sends, In, Engaged
  <2> QED BY <1>1, <2>2, <2>3, BlocksFrom
<1>7. CASE \E b \in flight : Executes(b)
  <2>1. entry' = entry /\ flight' \subseteq flight /\ \A e \in Attempts : CallIdle(e)
    BY <1>7 DEF Executes
  <2> QED BY <1>1, <2>1, BlocksFrom
<1> QED BY <1>2, <1>3, <1>4, <1>5, <1>6, <1>7 DEF Effect

\* The arrival of a block names it, and nothing else that is new.
LEMMA InstallNames ==
  ASSUME Installs
  PROVE  /\ \A p \in Blocks' : p \in Blocks \/ p = <<alloc.n, alloc.seq>>
         /\ \A s \in Named' : s \in Named \/ s = alloc.seq
<1>1. \A a \in Attempts : call'[a].pc \in Engaged =>
        call[a].pc \in Engaged /\ call'[a].hold = call[a].hold /\ call'[a].seq = call[a].seq
  BY DEF Installs, CallIdle, CallKept, Engaged
<1>2. \A k \in entry'.holders :
        (\E h \in entry.holders : k.n = h.n /\ k.seq = h.seq) \/ (k.n = alloc.n /\ k.seq = alloc.seq)
  BY DEF Installs, Same
<1>3. \A k \in entry'.holders : <<k.n, k.seq>> \in Blocks \/ <<k.n, k.seq>> = <<alloc.n, alloc.seq>>
  BY <1>2 DEF Blocks
<1>4. \A a \in Attempts : call'[a].pc \in Engaged => <<call'[a].hold, call'[a].seq>> \in Blocks
  BY <1>1 DEF Blocks, In
<1>5. \A p \in Blocks' : p \in Blocks \/ p = <<alloc.n, alloc.seq>>
  BY <1>3, <1>4 DEF Blocks, In
<1>6. flight' = flight
  BY DEF Installs
<1> QED BY <1>5, <1>6 DEF Named

\* Distinct is kept.
LEMMA DistinctKept == ASSUME Effect, Fresh, Distinct PROVE Distinct'
<1>1. CASE ~Installs
  BY <1>1, EffectNames DEF BlocksKept, Distinct
<1>2. CASE Installs
  <2>1. \A p \in Blocks' : p \in Blocks \/ p = <<alloc.n, alloc.seq>>
    BY <1>2, InstallNames
  <2>2. \A p \in Blocks : p[1] # alloc.n /\ p[2] # alloc.seq
    <3>1. alloc.stage # "none" /\ alloc.stage \in Statuses
      BY <1>2 DEF Installs, Statuses
    <3>2. \A p \in Blocks : p[2] \in Named
      BY DEF Named
    <3> QED BY <3>1, <3>2 DEF Fresh
  <2>3. <<alloc.n, alloc.seq>>[1] = alloc.n /\ <<alloc.n, alloc.seq>>[2] = alloc.seq
    OBVIOUS
  <2> QED BY <2>1, <2>2, <2>3 DEF Distinct
<1> QED BY <1>1, <1>2

\* Fresh is kept by what grants at most one reservation, and asks for at most
\* one block.
LEMMA FreshKept ==
  ASSUME IInv, Typed, Fresh, Effect, Typed', IInv',
         agg'.ledger[1].next \in {agg.ledger[1].next, agg.ledger[1].next + 1},
         \A k \in Grants' : \/ \E g \in Grants : g.seq = k.seq /\ g.key = k.key
                            \/ k.seq = agg.ledger[1].next /\ k.key[1] \in 1 .. issued,
         \/ AllocKept(alloc, alloc') /\ issued' = issued
         \/ (\E g \in Grants' : Allots(g)) /\ alloc.stage = "reserve" /\ issued' = issued
         \/ Shrinks /\ alloc.stage = "reserve" /\ issued' = issued
         \/ Asks
  PROVE  Fresh'
<1> DEFINE next == agg.ledger[1].next
<1>1. next \in Nat /\ agg'.ledger[1].next = agg'.ledger[1].next
  BY TenantType DEF IInv, AggInv, LedgerInv, Ledger, Aggregate
<1>2. issued \in Nat /\ issued' \in {issued, issued + 1}
  BY Parts DEF Asks
<1>3. \A k \in Grants' : k.key[1] \in 1 .. issued
  BY DEF Fresh
<1>4. \A s \in Named : s < next
  BY DEF Fresh
<1>5. CASE Installs
  <2>1. alloc'.stage = "none" /\ alloc.stage \in Statuses
    BY <1>5 DEF Installs, Statuses
  <2>2. \A s \in Named' : s < next
    BY <1>4, <1>5, <2>1, InstallNames DEF Fresh
  <2>3. \A s \in Named' : s \in Nat
    BY DEF Named, Blocks, In, Typed, EntryOK, EntryType, Holder, CallsOK, CallOK, CallType, Batch
  <2>4. \A s \in Named' : s < agg'.ledger[1].next
    BY <1>1, <2>2, <2>3
  <2> QED BY <1>2, <1>3, <2>1, <2>4 DEF Fresh, Statuses, Grants
<1>6. CASE ~Installs
  <2>1. BlocksKept
    BY <1>6, EffectNames
  <2>2. \A s \in Named : s \in Nat
    BY DEF Named, Blocks, In, Typed, EntryOK, EntryType, Holder, CallsOK, CallOK, CallType, Batch
  <2>3. \A s \in Named' : s \in Named /\ s < agg'.ledger[1].next
    BY <1>1, <1>4, <2>1, <2>2 DEF BlocksKept
  <2>4. \A s \in Named : s # next
    BY <1>1, <1>4, <2>2
  <2>5. \A p \in Blocks : p[1] \in 1 .. issued
    BY Parts DEF Blocks, In, HolderOK, CallOK, Holder, CallType, Engaged
  <2>6. ASSUME alloc.stage # "none", alloc'.n = alloc.n
        PROVE  /\ \A g \in Grants' : g.key[1] = alloc'.n => g.seq \notin Named'
               /\ \A p \in Blocks' : p[1] # alloc'.n
    BY <2>1, <2>3, <2>4, <2>6 DEF Fresh, BlocksKept
  <2>7. ASSUME Asks
        PROVE  /\ \A g \in Grants' : g.key[1] # alloc'.n
               /\ \A p \in Blocks' : p[1] # alloc'.n
    BY <1>2, <1>3, <2>1, <2>5, <2>7 DEF Asks, BlocksKept
  <2>8. alloc'.stage # "none" => (alloc.stage # "none" /\ alloc'.n = alloc.n) \/ Asks
    BY DEF AllocKept, Allots, Shrinks
  <2>9. ASSUME alloc'.stage \in Statuses
        PROVE  alloc'.seq \notin Named' /\ alloc'.seq < agg'.ledger[1].next
    <3>1. CASE \E g \in Grants' : Allots(g) /\ alloc.stage = "reserve"
      <4>1. PICK g \in Grants' : Allots(g) /\ alloc.stage = "reserve"
        BY <3>1
      <4>2. alloc'.n = alloc.n /\ alloc'.seq = g.seq /\ g.key[1] = alloc.n
        BY <4>1 DEF Allots
      <4>3. g.seq < agg'.ledger[1].next
        BY <4>1, TenantType DEF Grants, IInv, AggInv, LedgerInv, Numbered
      <4> QED BY <2>6, <4>1, <4>2, <4>3
    <3>2. CASE AllocKept(alloc, alloc')
      <4>1. alloc.stage \in Statuses /\ alloc'.seq = alloc.seq
        BY <2>9, <3>2 DEF AllocKept
      <4>2. alloc.seq \in Nat /\ alloc.seq \notin Named /\ alloc.seq < next
        BY <4>1 DEF Fresh, Typed, AllocOK, AllocType
      <4> QED BY <1>1, <2>3, <4>1, <4>2
    <3> QED BY <2>9, <3>1, <3>2 DEF Shrinks, Asks, Statuses
  <2>10. \A g \in Grants' : g.key[1] \in 1 .. issued'
    BY <1>2, <1>3
  <2> HIDE DEF next
  <2> QED BY <2>3, <2>6, <2>7, <2>8, <2>9, <2>10 DEF Fresh
<1> QED BY <1>5, <1>6
\* An attempt's operation is proven when its commit is believed.
LEMMA ProvenKept == ASSUME Effect, Proven PROVE Proven'
<1>1. ASSUME NEW a \in Attempts, CallIdle(a), d1.receipts \subseteq d1'.receipts, call'[a].pc = "ok"
      PROVE  OpOf[a] \in d1'.receipts
  BY <1>1 DEF CallIdle, Proven, In
<1>2. ASSUME NEW a \in Attempts, Others(a), d1' = d1, call'[a].pc # "ok"
      PROVE  \A e \in Attempts : call'[e].pc = "ok" => OpOf[e] \in d1'.receipts
  BY <1>2 DEF Others, Proven, In
<1>3. CASE Idle \/ Installs \/ (\E a \in Attempts : Sends(a)) \/ (\E b \in flight : Executes(b))
  <2>1. (\A a \in Attempts : CallIdle(a)) /\ d1.receipts \subseteq d1'.receipts
    BY <1>3 DEF Idle, Installs, Sends, Executes, JournalKept
  <2> QED BY <1>1, <2>1 DEF Proven, In
<1>4. CASE \/ \E a \in Attempts : \E h \in entry.holders : Delivers(a, h)
           \/ \E a \in Attempts : \E h \in entry.holders : Seals(a, h)
           \/ \E a \in Attempts : Settles(a)
  <2>1. \E a \in Attempts : Others(a) /\ d1' = d1 /\ call'[a].pc # "ok"
    BY <1>4 DEF Delivers, Seals, Settles
  <2> QED BY <1>2, <2>1 DEF Proven, In
<1> QED BY <1>3, <1>4 DEF Effect

\* A batch that was sent stays counted.
LEMMA SentFrom ==
  ASSUME Sent, flight' \subseteq flight,
         \A k \in entry'.holders :
           \/ \E h \in entry.holders : k.seq = h.seq /\ \A a \in Attempts :
                h.ops[OpOf[a]].tries > 0 => k.ops[OpOf[a]].tries > 0
           \/ k.seq \notin Named
  PROVE  \A b \in flight', k \in entry'.holders :
           b.attempt \in Attempts /\ b.seq = k.seq => k.ops[OpOf[b.attempt]].tries > 0
<1> SUFFICES ASSUME NEW b \in flight', NEW k \in entry'.holders, b.attempt \in Attempts, b.seq = k.seq
             PROVE  k.ops[OpOf[b.attempt]].tries > 0
  OBVIOUS
<1>1. b \in flight /\ b.seq \in Named
  BY DEF Named
<1>2. PICK h \in entry.holders : k.seq = h.seq /\ \A a \in Attempts :
                h.ops[OpOf[a]].tries > 0 => k.ops[OpOf[a]].tries > 0
  BY <1>1
<1> QED BY <1>1, <1>2 DEF Sent

LEMMA SentKept == ASSUME IInv, Typed, Typed', Effect, Fresh, Distinct, Counted, Sent PROVE Sent'
<1>1. \A b \in flight' : b.attempt \in Attempts
  BY DEF Typed, Batch
<1>2. ASSUME flight' \subseteq flight,
             \A k \in entry'.holders :
               \/ \E h \in entry.holders : k.seq = h.seq /\ \A a \in Attempts :
                    h.ops[OpOf[a]].tries > 0 => k.ops[OpOf[a]].tries > 0
               \/ k.seq \notin Named
      PROVE  Sent'
  BY <1>1, <1>2, SentFrom DEF Sent
<1>3. CASE Idle
  BY <1>2, <1>3 DEF Idle, HoldersKept, Same
<1>4. ASSUME NEW a \in Attempts, NEW h \in entry.holders, Delivers(a, h) PROVE Sent'
  <2>1. ASSUME NEW k \in entry'.holders
        PROVE  \E j \in entry.holders : k.seq = j.seq /\ \A e \in Attempts :
                 j.ops[OpOf[e]].tries > 0 => k.ops[OpOf[e]].tries > 0
    <3>1. CASE \E j \in entry.holders : Same(j, k)
      BY <3>1 DEF Same
    <3>2. CASE PaidFor(h, k, OpOf[a])
      <4>1. h.ops \in [Ops -> HeldOperation] /\ OpOf[a] \in Ops /\ h.ops[OpOf[a]].tries \in Nat
        BY Parts, Bounds DEF Holder, HeldOperation
      <4>2. k.seq = h.seq /\ k.ops = [h.ops EXCEPT ![OpOf[a]] = PaidOp(h.ops[OpOf[a]])]
        BY <3>2 DEF PaidFor
      <4>3. PaidOp(h.ops[OpOf[a]]).tries > 0
        BY <4>1 DEF PaidOp
      <4>4. \A o : h.ops[o].tries > 0 /\ o \in Ops => k.ops[o].tries > 0
        BY <4>1, <4>2, <4>3
      <4> QED BY <4>2, <4>4, Parts
    <3> QED BY <1>4, <3>1, <3>2 DEF Delivers
  <2>2. flight' = flight
    BY <1>4 DEF Delivers
  <2> QED BY <1>2, <2>1, <2>2
<1>5. ASSUME NEW a \in Attempts, NEW h \in entry.holders, Seals(a, h) PROVE Sent'
  <2>1. \A k \in entry'.holders : \E j \in entry.holders : k.seq = j.seq /\ k.ops = j.ops
    BY <1>5 DEF Seals, Same
  <2>2. flight' = flight
    BY <1>5 DEF Seals
  <2> QED BY <1>2, <2>1, <2>2
<1>6. ASSUME NEW a \in Attempts, Settles(a) PROVE Sent'
  <2>1. ASSUME NEW k \in entry'.holders
        PROVE  \E j \in entry.holders : k.seq = j.seq /\ \A e \in Attempts :
                 j.ops[OpOf[e]].tries > 0 => k.ops[OpOf[e]].tries > 0
    <3>1. CASE \E j \in entry.holders : Same(j, k)
      BY <3>1 DEF Same
    <3>2. CASE \E j \in entry.holders : \E s \in OpStates : SettledFor(j, k, OpOf[a], s)
      <4>1. PICK j \in entry.holders, s \in OpStates : SettledFor(j, k, OpOf[a], s)
        BY <3>2
      <4>2. j.ops \in [Ops -> HeldOperation] /\ OpOf[a] \in Ops
        BY Parts DEF Holder
      <4>3. k.seq = j.seq /\ k.ops = [j.ops EXCEPT ![OpOf[a]] = SettledOp(j.ops[OpOf[a]], s)]
        BY <4>1 DEF SettledFor
      <4>4. SettledOp(j.ops[OpOf[a]], s).tries = j.ops[OpOf[a]].tries
        BY DEF SettledOp
      <4>5. \A o \in Ops : k.ops[o].tries = j.ops[o].tries
        BY <4>2, <4>3, <4>4
      <4> QED BY <4>3, <4>5, Parts
    <3> QED BY <1>6, <3>1, <3>2 DEF Settles
  <2>2. flight' = flight
    BY <1>6 DEF Settles
  <2> QED BY <1>2, <2>1, <2>2
<1>7. ASSUME NEW a \in Attempts, Sends(a) PROVE Sent'
  <2>1. entry' = entry /\ call[a].pc \in Paying
        /\ \A b \in flight' : b \in flight \/ (b.attempt = a /\ b.seq = call[a].seq)
    BY <1>7 DEF Sends
  <2>2. ASSUME NEW h \in entry.holders, call[a].seq = h.seq PROVE h.ops[OpOf[a]].tries > 0
    <3>1. <<h.n, h.seq>> \in Blocks /\ <<call[a].hold, call[a].seq>> \in Blocks
      BY <2>1 DEF Blocks, In, Engaged
    <3>2. h.n = call[a].hold
      <4>1. \A p, q \in Blocks : p[2] = q[2] => p[1] = q[1]
        BY DEF Distinct
      <4> QED BY <2>2, <3>1, <4>1
    <3>3. h.ops[OpOf[a]].tries >= 1
      BY <2>1, <3>2, PayerActive
    <3>4. h.ops[OpOf[a]].tries \in Nat
      BY Parts, Bounds DEF Holder, HeldOperation
    <3> QED BY <3>3, <3>4
  <2> QED BY <2>1, <2>2 DEF Sent
<1>8. ASSUME NEW b \in flight, Executes(b) PROVE Sent'
  BY <1>2, <1>8 DEF Executes
<1>9. CASE Installs
  <2>1. alloc.seq \notin Named
    BY <1>9 DEF Installs, Fresh, Statuses
  <2> QED BY <1>2, <1>9, <2>1 DEF Installs, Same
<1> QED BY <1>3, <1>4, <1>5, <1>6, <1>7, <1>8, <1>9 DEF Effect

\* Who is counted stays counted.
LEMMA PayersShrink ==
  ASSUME \A a \in Attempts : call'[a].pc \in Paying =>
           call[a].pc \in Paying /\ call'[a].hold = call[a].hold,
         NEW n, NEW o
  PROVE  Payers(n, o)' \subseteq Payers(n, o)
BY DEF Payers, In

LEMMA CountedSame ==
  ASSUME IInv, Typed, NEW h \in entry.holders, NEW k \in entry'.holders, NEW o \in Ops,
         OpOK(h, o), k.n = h.n, k.ops[o] = h.ops[o],
         k.sealed => h.sealed \/ (h.ops[o].tries > 0 => h.ops[o].state = "committed" /\ h.ops[o].active = 0),
         Payers(h.n, o)' \subseteq Payers(h.n, o), d1.receipts \subseteq d1'.receipts
  PROVE  /\ IsFiniteSet(Payers(k.n, o)') /\ Cardinality(Payers(k.n, o)') <= k.ops[o].active
         /\ k.ops[o].state = "committed" => o \in d1'.receipts
         /\ (k.sealed /\ k.ops[o].tries > 0) => k.ops[o].state = "committed" /\ k.ops[o].active = 0
<1>1. h.ops[o].active \in Nat
  BY Parts, Bounds DEF Holder, HeldOperation
<1>2. IsFiniteSet(Payers(h.n, o)) /\ Cardinality(Payers(h.n, o)) <= h.ops[o].active
  BY DEF OpOK
<1>3. Payers(k.n, o)' = Payers(h.n, o)'
  BY DEF Payers
<1>4. IsFiniteSet(Payers(k.n, o)') /\ Cardinality(Payers(k.n, o)') <= Cardinality(Payers(h.n, o))
  BY <1>2, <1>3, FS_Subset
<1>5. Cardinality(Payers(k.n, o)') \in Nat /\ Cardinality(Payers(h.n, o)) \in Nat
  BY <1>2, <1>4, FS_CardinalityType
<1> QED BY <1>1, <1>2, <1>4, <1>5 DEF OpOK

\* Counted', spelt out.
LEMMA CountedFrom ==
  ASSUME \A k \in entry'.holders, o \in Ops :
           /\ IsFiniteSet(Payers(k.n, o)') /\ Cardinality(Payers(k.n, o)') <= k.ops[o].active
           /\ k.ops[o].state = "committed" => o \in d1'.receipts
           /\ (k.sealed /\ k.ops[o].tries > 0) => k.ops[o].state = "committed" /\ k.ops[o].active = 0
  PROVE  Counted'
BY DEF Counted, OpOK, Payers

LEMMA CountedIdle ==
  ASSUME IInv, Typed, Fresh, Counted, \A a \in Attempts : CallIdle(a),
         d1.receipts \subseteq d1'.receipts,
         \A k \in entry'.holders :
           \/ \E h \in entry.holders : Same(h, k)
           \/ /\ Installs /\ k.n = alloc.n
              /\ \A o \in Ops : k.ops[o] = [tries |-> 0, active |-> 0, state |-> "none"]
  PROVE  Counted'
<1>1. \A a \in Attempts : call'[a].pc \in Paying =>
        call[a].pc \in Paying /\ call'[a].hold = call[a].hold
  BY DEF CallIdle, CallKept
<1>2. \A n, o : Payers(n, o)' \subseteq Payers(n, o)
  BY <1>1, PayersShrink
<1>3. ASSUME NEW k \in entry'.holders, NEW o \in Ops
      PROVE  /\ IsFiniteSet(Payers(k.n, o)') /\ Cardinality(Payers(k.n, o)') <= k.ops[o].active
             /\ k.ops[o].state = "committed" => o \in d1'.receipts
             /\ (k.sealed /\ k.ops[o].tries > 0) => k.ops[o].state = "committed" /\ k.ops[o].active = 0
  <2>1. CASE \E h \in entry.holders : Same(h, k)
    <3>1. PICK h \in entry.holders : Same(h, k)
      BY <2>1
    <3>2. OpOK(h, o) /\ k.n = h.n /\ k.ops[o] = h.ops[o] /\ k.sealed = h.sealed
      BY <3>1 DEF Counted, Same
    <3> QED BY <1>2, <3>2, CountedSame
  <2>2. CASE /\ Installs /\ k.n = alloc.n
             /\ k.ops[o] = [tries |-> 0, active |-> 0, state |-> "none"]
    <3>1. alloc.stage # "none"
      BY <2>2 DEF Installs
    <3>2. Payers(k.n, o) = {}
      <4>1. ASSUME NEW e \in Payers(k.n, o) PROVE FALSE
        <5>1. e \in In(Engaged) /\ call[e].hold = alloc.n
          BY <2>2 DEF Payers, In, Engaged
        <5>2. <<call[e].hold, call[e].seq>> \in Blocks
          BY <5>1 DEF Blocks
        <5>3. \A p \in Blocks : p[1] # alloc.n
          BY <3>1 DEF Fresh
        <5> QED BY <5>1, <5>2, <5>3
      <4> QED BY <4>1
    <3>3. Payers(k.n, o)' = {}
      BY <1>2, <3>2
    <3> QED BY <2>2, <3>3, FS_EmptySet
  <2> QED BY <2>1, <2>2
<1> QED BY <1>3, CountedFrom

LEMMA CountedKept == ASSUME IInv, Typed, Effect, Fresh, Distinct, Counted PROVE Counted'
<1>1. CASE Idle \/ Installs \/ (\E a \in Attempts : Sends(a)) \/ (\E b \in flight : Executes(b))
  <2>1. (\A a \in Attempts : CallIdle(a)) /\ d1.receipts \subseteq d1'.receipts
    BY <1>1 DEF Idle, Installs, Sends, Executes, JournalKept
  <2>2. \A k \in entry'.holders :
           \/ \E h \in entry.holders : Same(h, k)
           \/ /\ Installs /\ k.n = alloc.n
              /\ \A o \in Ops : k.ops[o] = [tries |-> 0, active |-> 0, state |-> "none"]
    BY <1>1 DEF Idle, Installs, Sends, Executes, HoldersKept, Same
  <2> QED BY <2>1, <2>2, CountedIdle
<1>2. ASSUME NEW a \in Attempts, NEW h \in entry.holders, Delivers(a, h) PROVE Counted'
  <2> DEFINE p == OpOf[a]
  <2>1. \A e \in Attempts \ {a} : call'[e] = call[e]
    BY <1>2 DEF Delivers, Others
  <2>2. call'[a].pc = "admitted" /\ call'[a].hold = h.n /\ d1' = d1 /\ call[a].pc \notin Paying
    BY <1>2 DEF Delivers, Engaged
  <2>3. \A n, o : n # h.n \/ o # p => Payers(n, o)' \subseteq Payers(n, o)
    BY <2>1, <2>2 DEF Payers, In
  <2>4. Payers(h.n, p)' = Payers(h.n, p) \cup {a} /\ a \notin Payers(h.n, p)
    BY <2>1, <2>2 DEF Payers, In, Paying
  <2>5. p \in Ops /\ h \in Holder /\ h.ops \in [Ops -> HeldOperation] /\ h.ops[p].active \in Nat
    BY Parts, Bounds DEF Holder, HeldOperation
  <2> HIDE DEF p
  <2>6. ASSUME NEW k \in entry'.holders, NEW o \in Ops
        PROVE  /\ IsFiniteSet(Payers(k.n, o)') /\ Cardinality(Payers(k.n, o)') <= k.ops[o].active
               /\ k.ops[o].state = "committed" => o \in d1'.receipts
               /\ (k.sealed /\ k.ops[o].tries > 0) => k.ops[o].state = "committed" /\ k.ops[o].active = 0
    <3>1. CASE k.n # h.n /\ \E j \in entry.holders : Same(j, k)
      <4>1. PICK j \in entry.holders : Same(j, k)
        BY <3>1
      <4>2. OpOK(j, o) /\ k.n = j.n /\ k.ops[o] = j.ops[o] /\ k.sealed = j.sealed /\ j.n # h.n
        BY <3>1, <4>1 DEF Counted, Same
      <4> QED BY <2>2, <2>3, <4>2, CountedSame
    <3>2. CASE PaidFor(h, k, p) /\ o # p
      <4>1. OpOK(h, o) /\ k.n = h.n /\ k.ops[o] = h.ops[o] /\ k.sealed = h.sealed
        BY <2>5, <3>2 DEF Counted, PaidFor
      <4> QED BY <2>2, <2>3, <3>2, <4>1, CountedSame
    <3>3. CASE PaidFor(h, k, p) /\ o = p
      <4>1. k.n = h.n /\ k.ops[o] = PaidOp(h.ops[p]) /\ ~k.sealed /\ OpOK(h, p)
        BY <1>2, <2>5, <3>3 DEF Counted, PaidFor, Delivers
      <4>2. k.ops[o].active = h.ops[p].active + 1 /\ k.ops[o].state # "committed"
        BY <4>1 DEF PaidOp
      <4>3. Payers(k.n, o)' = Payers(h.n, p)'
        BY <3>3, <4>1 DEF Payers
      <4>4. /\ IsFiniteSet(Payers(h.n, p)) /\ Cardinality(Payers(h.n, p)) <= h.ops[p].active
            /\ Cardinality(Payers(h.n, p)) \in Nat
        BY <4>1, FS_CardinalityType DEF OpOK
      <4>5. /\ IsFiniteSet(Payers(h.n, p) \cup {a})
            /\ Cardinality(Payers(h.n, p) \cup {a}) = Cardinality(Payers(h.n, p)) + 1
        BY <2>4, <4>4, FS_AddElement
      <4> QED BY <2>4, <2>5, <4>1, <4>2, <4>3, <4>4, <4>5
    <3> QED BY <1>2, <3>1, <3>2, <3>3 DEF Delivers, p
  <2> QED BY <2>6, CountedFrom
<1>3. ASSUME NEW a \in Attempts, NEW h \in entry.holders, Seals(a, h) PROVE Counted'
  <2>1. \A e \in Attempts \ {a} : call'[e] = call[e]
    BY <1>3 DEF Seals, Others
  <2>2. call'[a].pc \notin Paying /\ d1' = d1
    BY <1>3 DEF Seals, Paying
  <2>3. \A n, o : Payers(n, o)' \subseteq Payers(n, o)
    BY <2>1, <2>2, PayersShrink
  <2>4. ASSUME NEW k \in entry'.holders, NEW o \in Ops
        PROVE  /\ IsFiniteSet(Payers(k.n, o)') /\ Cardinality(Payers(k.n, o)') <= k.ops[o].active
               /\ k.ops[o].state = "committed" => o \in d1'.receipts
               /\ (k.sealed /\ k.ops[o].tries > 0) => k.ops[o].state = "committed" /\ k.ops[o].active = 0
    <3>1. CASE \E j \in entry.holders : Same(j, k)
      <4>1. PICK j \in entry.holders : Same(j, k)
        BY <3>1
      <4>2. OpOK(j, o) /\ k.n = j.n /\ k.ops[o] = j.ops[o] /\ k.sealed = j.sealed
        BY <4>1 DEF Counted, Same
      <4> QED BY <2>2, <2>3, <4>2, CountedSame
    <3>2. CASE k.n = h.n /\ k.ops = h.ops /\ k.sealed
      <4>1. OpOK(h, o)
        BY DEF Counted
      <4>2. h.sealed \/ (h.ops[o].tries > 0 => h.ops[o].state = "committed" /\ h.ops[o].active = 0)
        BY <1>3 DEF Seals, Operations
      <4> QED BY <2>2, <2>3, <3>2, <4>1, <4>2, CountedSame
    <3> QED BY <1>3, <3>1, <3>2 DEF Seals
  <2> QED BY <2>4, CountedFrom
<1>4. ASSUME NEW a \in Attempts, Settles(a) PROVE Counted'
  <2> DEFINE p == OpOf[a]
  <2>0. PICK n : n = call[a].hold
    OBVIOUS
  <2>1. \A e \in Attempts \ {a} : call'[e] = call[e]
    BY <1>4 DEF Settles, Others
  <2>2. call[a].pc \in Paying /\ call'[a].pc \notin Paying /\ d1' = d1
    BY <1>4 DEF Settles, Paying
  <2>3. \A m, o : Payers(m, o)' \subseteq Payers(m, o)
    BY <2>1, <2>2, PayersShrink
  <2>4. Payers(n, p)' = Payers(n, p) \ {a} /\ a \in Payers(n, p)
    BY <2>0, <2>1, <2>2 DEF Payers, In
  <2>5. p \in Ops
    BY Parts
  <2> HIDE DEF p
  <2>6. ASSUME NEW k \in entry'.holders, NEW o \in Ops
        PROVE  /\ IsFiniteSet(Payers(k.n, o)') /\ Cardinality(Payers(k.n, o)') <= k.ops[o].active
               /\ k.ops[o].state = "committed" => o \in d1'.receipts
               /\ (k.sealed /\ k.ops[o].tries > 0) => k.ops[o].state = "committed" /\ k.ops[o].active = 0
    <3>1. CASE \E j \in entry.holders : Same(j, k)
      <4>1. PICK j \in entry.holders : Same(j, k)
        BY <3>1
      <4>2. OpOK(j, o) /\ k.n = j.n /\ k.ops[o] = j.ops[o] /\ k.sealed = j.sealed
        BY <4>1 DEF Counted, Same
      <4> QED BY <2>2, <2>3, <4>2, CountedSame
    <3>2. ASSUME NEW h \in entry.holders, h.n = n, NEW s \in OpStates, SettledFor(h, k, p, s),
                 s = "committed" => p \in d1.receipts \/ h.ops[p].state = "committed"
          PROVE  /\ IsFiniteSet(Payers(k.n, o)') /\ Cardinality(Payers(k.n, o)') <= k.ops[o].active
                 /\ k.ops[o].state = "committed" => o \in d1'.receipts
                 /\ (k.sealed /\ k.ops[o].tries > 0) => k.ops[o].state = "committed" /\ k.ops[o].active = 0
      <4>1. h.ops \in [Ops -> HeldOperation] /\ h.ops[p].active \in Nat
        BY <2>5, Parts, Bounds DEF Holder, HeldOperation
      <4>2. k.n = h.n /\ k.sealed = h.sealed /\ k.ops = [h.ops EXCEPT ![p] = SettledOp(h.ops[p], s)]
            /\ OpOK(h, o) /\ OpOK(h, p)
        BY <2>5, <3>2 DEF SettledFor, Counted
      <4>3. CASE o # p
        <5>1. k.ops[o] = h.ops[o]
          BY <4>1, <4>2, <4>3
        <5>2. OpOK(h, o) /\ k.n = h.n /\ k.sealed = h.sealed /\ d1.receipts \subseteq d1'.receipts
          BY <2>2, <4>2
        <5>3. Payers(h.n, o)' \subseteq Payers(h.n, o)
          BY <2>3
        <5> QED BY <5>1, <5>2, <5>3, CountedSame
      <4>4. CASE o = p
        <5>1. k.ops[o].active = h.ops[p].active - 1 /\ k.ops[o].state = s
          BY <2>5, <4>1, <4>2, <4>4 DEF SettledOp
        <5>2. h.ops[p].active >= 1 /\ h.ops[p].tries >= 1
          BY <2>0, <2>2, <3>2, PayerActive DEF p
        <5>3. ~h.sealed
          <6>1. h.ops[p].tries \in Nat
            BY <4>1, <2>5, Bounds DEF HeldOperation
          <6> QED BY <4>1, <4>2, <5>2, <6>1 DEF OpOK
        <5>4. /\ IsFiniteSet(Payers(n, p)) /\ Cardinality(Payers(n, p)) <= h.ops[p].active
              /\ Cardinality(Payers(n, p)) \in Nat
          BY <3>2, <4>2, FS_CardinalityType DEF OpOK
        <5>5. /\ IsFiniteSet(Payers(n, p) \ {a})
              /\ Cardinality(Payers(n, p) \ {a}) = Cardinality(Payers(n, p)) - 1
          BY <2>4, <5>4, FS_RemoveElement
        <5>6. Payers(k.n, o)' = Payers(n, p) \ {a}
          <6>1. Payers(k.n, o)' = Payers(n, p)'
            BY <3>2, <4>2, <4>4 DEF Payers
          <6> QED BY <2>4, <6>1
        <5>7. s = "committed" => p \in d1.receipts
          BY <3>2, <4>2 DEF OpOK
        <5> QED BY <2>2, <4>1, <4>2, <4>4, <5>1, <5>2, <5>3, <5>4, <5>5, <5>6, <5>7
      <4> QED BY <4>3, <4>4
    <3> QED BY <1>4, <2>0, <3>1, <3>2 DEF Settles, p
  <2> QED BY <2>6, CountedFrom
<1> QED BY <1>1, <1>2, <1>3, <1>4 DEF Effect
-----------------------------------------------------------------------------
(* Every step has one effect on the blocks, one on the ledger and one on   *)
(* the books of the entry.                                                 *)

LedgerEffect ==
  \/ SteadyIn(agg, agg', 1)
  \/ \E a \in In({"rec-reserve"}) :
       /\ Idle /\ AllocKept(alloc, alloc')
       /\ SteadyBut(agg.ledger[1], agg'.ledger[1], RecoveryRequest(call[a]))
  \/ /\ Idle /\ alloc.stage = "reserve"
     /\ SteadyBut(agg.ledger[1], agg'.ledger[1], BlockRequest)
  \/ \E a \in In({"rec-reconcile"}) :
       /\ Idle /\ AllocKept(alloc, alloc') /\ agg'.ledger[1].next = agg.ledger[1].next
       /\ \A k \in Grants' :
            SettledAs(agg.ledger[1], k, call[a].seq, Envelope(Cardinality(call[a].ops)))

BooksEffect ==
  \/ AllocKept(alloc, alloc') /\ Booked
  \/ /\ AllocKept(alloc, alloc') /\ issued' = issued /\ Idle /\ SteadyIn(agg, agg', 1)
     /\ \E a \in Attempts : Returns(a)
  \/ Idle /\ SteadyIn(agg, agg', 1) /\ Asks
  \/ Idle /\ Booked /\ alloc.stage = "reserve" /\ \E g \in Grants' : Allots(g)
  \/ /\ Idle /\ Booked /\ alloc.stage = "reserve" /\ Shrinks
     /\ ReserveRPC(1, BlockRequest) /\ Exhausted(BlockRequest) /\ Delivered(BlockRequest.key) = {}

StepOK == IInv' /\ Typed' /\ Effect /\ LedgerEffect /\ BooksEffect

\* The steps of one attempt.
LEMMA AttemptStepOK ==
  ASSUME IInv, Typed, Counted, Proven, NEW a \in Attempts, Step(a)
  PROVE  StepOK
<1>1. ASSUME UNCHANGED vars PROVE IInv' /\ SteadyIn(agg, agg', 1)
  BY <1>1, NoCall
<1>2. CASE Begin(a)
  BY <1>1, <1>2, BeginStep DEF Begin, StepOK, Effect, LedgerEffect, BooksEffect
<1>3. CASE Resolve(a)
  BY <1>1, <1>3, ResolveStep DEF Resolve, StepOK, Effect, LedgerEffect, BooksEffect
<1>4. CASE Woken(a)
  BY <1>1, <1>4, WokenStep DEF Woken, StepOK, Effect, LedgerEffect, BooksEffect
<1>5. CASE ResolveAgain(a)
  BY <1>1, <1>5, ResolveAgainStep DEF ResolveAgain, StepOK, Effect, LedgerEffect, BooksEffect
<1>6. CASE SendBatch(a)
  BY <1>1, <1>6, SendBatchStep DEF SendBatch, StepOK, Effect, LedgerEffect, BooksEffect
<1>7. CASE Conclude(a)
  BY <1>1, <1>7, ConcludeStep DEF Conclude, StepOK, Effect, LedgerEffect, BooksEffect
<1>8. CASE RecoverResolve(a)
  BY <1>1, <1>8, RecoverResolveStep DEF RecoverResolve, StepOK, Effect, LedgerEffect, BooksEffect
<1>9. CASE RecoverRefresh(a)
  BY <1>9, RecoverRefreshStep DEF StepOK, Effect, LedgerEffect, BooksEffect
<1>10. CASE RecoverReserve(a)
  <2>1. /\ Typed' /\ AllocKept(alloc, alloc') /\ Booked /\ Idle /\ IInv'
        /\ SteadyBut(agg.ledger[1], agg'.ledger[1], RecoveryRequest(call[a]))
        /\ a \in In({"rec-reserve"})
    BY <1>10, RecoverReserveStep DEF In
  <2> QED BY <2>1 DEF StepOK, Effect, LedgerEffect, BooksEffect
<1>11. CASE RecoverRead(a)
  BY <1>1, <1>11, RecoverReadStep DEF RecoverRead, StepOK, Effect, LedgerEffect, BooksEffect
<1>12. CASE RecoverClose(a)
  BY <1>1, <1>12, RecoverCloseStep DEF RecoverClose, StepOK, Effect, LedgerEffect, BooksEffect
<1>13. CASE RecoverReconcile(a)
  <2>1. /\ Typed' /\ AllocKept(alloc, alloc') /\ Booked /\ Idle /\ IInv'
        /\ agg'.ledger[1].next = agg.ledger[1].next
        /\ \A k \in Grants' : SettledAs(agg.ledger[1], k, call[a].seq, Envelope(Cardinality(call[a].ops)))
        /\ a \in In({"rec-reconcile"})
    BY <1>13, RecoverReconcileStep DEF In
  <2> QED BY <2>1 DEF StepOK, Effect, LedgerEffect, BooksEffect
<1>14. CASE RecoverMark(a)
  <2>1. UNCHANGED vars /\ issued' = issued
    BY <1>14 DEF RecoverMark
  <2> QED BY <1>1, <1>14, <2>1, RecoverMarkStep DEF StepOK, Effect, LedgerEffect, BooksEffect
<1> QED BY <1>2, <1>3, <1>4, <1>5, <1>6, <1>7, <1>8, <1>9, <1>10, <1>11, <1>12, <1>13, <1>14 DEF Step

\* All steps.
LEMMA NextStepOK ==
  ASSUME IInv, Typed, Counted, Proven, AdmissionNext
  PROVE  StepOK
<1>1. ASSUME agg' = agg PROVE SteadyIn(agg, agg', 1)
  BY <1>1, SteadyInReflexive
<1>2. ASSUME UNCHANGED vars PROVE IInv' /\ SteadyIn(agg, agg', 1)
  BY <1>2, NoCall
<1>3. CASE Tick /\ UNCHANGED admissionVars
  <2>1. agg' = agg /\ published' = published
    BY <1>3 DEF Tick
  <2>2. IInv'
    BY <1>3 DEF Tick, IInv, TypeOK
  <2>3. Typed' /\ AllocKept(alloc, alloc') /\ Booked /\ Idle
    BY <1>3, <2>1, StandsStill
  <2> QED BY <1>1, <2>1, <2>2, <2>3 DEF StepOK, Effect, LedgerEffect, BooksEffect
<1>4. CASE PublishEdit
  <2>1. agg' = agg /\ anon' = anon /\ clock' = clock /\ published' = Append(published, clock)
        /\ Len(published) < Len(Authority)
    BY <1>4 DEF PublishEdit, Publish
  <2>2. IInv'
    <3>1. published \in Seq(Nat) /\ clock \in Nat /\ Len(Authority) \in Nat
      BY AuthorityAssumption DEF IInv, TypeOK
    <3>2. published' \in Seq(Nat) /\ Len(published') = Len(published) + 1
      BY <2>1, <3>1
    <3>3. Len(published') <= Len(Authority)
      BY <2>1, <3>1, <3>2
    <3> QED BY <2>1, <3>2, <3>3 DEF IInv, TypeOK
  <2>3. Typed' /\ AllocKept(alloc, alloc') /\ Booked /\ Idle
    BY <1>4, PublishStep
  <2> QED BY <1>1, <2>1, <2>2, <2>3 DEF StepOK, Effect, LedgerEffect, BooksEffect
<1>5. CASE \E a \in Attempts : Step(a)
  BY <1>5, AttemptStepOK
<1>6. CASE AllocRefresh
  BY <1>6, AllocRefreshStep DEF StepOK, Effect, LedgerEffect, BooksEffect
<1>7. CASE AllocReserve
  BY <1>7, AllocReserveStep DEF StepOK, Effect, LedgerEffect, BooksEffect
<1>8. CASE AllocInstall
  BY <1>2, <1>8, AllocInstallStep DEF AllocInstall, StepOK, Effect, LedgerEffect, BooksEffect
<1>9. ASSUME NEW b \in flight, ExecuteBatch(b) PROVE StepOK
  BY <1>2, <1>9, ExecuteStep DEF ExecuteBatch, StepOK, Effect, LedgerEffect, BooksEffect
<1>10. ASSUME NEW a \in Attempts, GiveUp(a) PROVE StepOK
  BY <1>2, <1>10, GiveUpStep DEF GiveUp, StepOK, Effect, LedgerEffect, BooksEffect
<1>11. ASSUME NEW o \in Ops, CommitElsewhere(o) PROVE StepOK
  BY <1>2, <1>11, ElsewhereStep DEF CommitElsewhere, StepOK, Effect, LedgerEffect, BooksEffect
<1>12. CASE Restart
  BY <1>2, <1>12, RestartStep DEF Restart, StepOK, Effect, LedgerEffect, BooksEffect
<1> QED BY <1>3, <1>4, <1>5, <1>6, <1>7, <1>8, <1>9, <1>10, <1>11, <1>12 DEF AdmissionNext, Allocate

\* What a step grants is numbered next, for a block that was asked for.
LEMMA LedgerNames ==
  ASSUME IInv, Typed, LedgerEffect
  PROVE  /\ agg'.ledger[1].next \in {agg.ledger[1].next, agg.ledger[1].next + 1}
         /\ \A k \in Grants' : \/ \E g \in Grants : g.seq = k.seq /\ g.key = k.key
                               \/ k.seq = agg.ledger[1].next /\ k.key[1] \in 1 .. issued
<1>1. \A g, k : SameCharge(g, k) \/ Later(g, k) => g.seq = k.seq /\ g.key = k.key
  BY DEF SameCharge, Later, SameGrant
<1>2. CASE SteadyIn(agg, agg', 1)
  BY <1>1, <1>2 DEF SteadyIn, Steady, Grants
<1>3. ASSUME NEW req, req.key[1] \in 1 .. issued, SteadyBut(agg.ledger[1], agg'.ledger[1], req)
      PROVE  /\ agg'.ledger[1].next \in {agg.ledger[1].next, agg.ledger[1].next + 1}
             /\ \A k \in Grants' : \/ \E g \in Grants : g.seq = k.seq /\ g.key = k.key
                                   \/ k.seq = agg.ledger[1].next /\ k.key[1] \in 1 .. issued
  BY <1>1, <1>3 DEF SteadyBut, Steady, GrantFor, Grants
<1>4. ASSUME NEW a \in In({"rec-reserve"})
      PROVE  RecoveryRequest(call[a]).key[1] \in 1 .. issued
  <2>1. CallOK(call[a], issued, Known) /\ call[a] \in CallType /\ call[a].pc \in Engaged
    BY <1>4, Parts DEF In, Engaged, Recovering
  <2>2. call[a].hold \in 1 .. issued
    BY <2>1, Parts, Bounds DEF CallOK, CallType
  <2> QED BY <2>2 DEF RecoveryRequest
<1>5. alloc.stage = "reserve" => BlockRequest.key[1] \in 1 .. issued
  BY DEF BlockRequest, Typed, AllocOK
<1>6. CASE \E a \in In({"rec-reconcile"}) :
             /\ agg'.ledger[1].next = agg.ledger[1].next
             /\ \A k \in Grants' :
                  SettledAs(agg.ledger[1], k, call[a].seq, Envelope(Cardinality(call[a].ops)))
  BY <1>1, <1>6 DEF SettledAs, Grants
<1> QED BY <1>2, <1>3, <1>4, <1>5, <1>6 DEF LedgerEffect

LEMMA MemoryKept ==
  ASSUME IInv, Typed, MemoryInv, StepOK
  PROVE  MemoryInv'
<1>1. Fresh'
  <2>1. \/ AllocKept(alloc, alloc') /\ issued' = issued
        \/ (\E g \in Grants' : Allots(g)) /\ alloc.stage = "reserve" /\ issued' = issued
        \/ Shrinks /\ alloc.stage = "reserve" /\ issued' = issued
        \/ Asks
    BY DEF StepOK, BooksEffect, Booked
  <2> QED BY <2>1, FreshKept, LedgerNames DEF MemoryInv, StepOK
<1>2. Distinct' /\ Counted' /\ Sent' /\ Proven'
  BY DistinctKept, CountedKept, SentKept, ProvenKept DEF MemoryInv, StepOK
<1> QED BY <1>1, <1>2 DEF MemoryInv

-----------------------------------------------------------------------------
(* Theorems.                                                               *)

LEMMA InitMemory == AdmissionInit => IInv /\ Typed /\ MemoryInv
<1> SUFFICES ASSUME AdmissionInit PROVE IInv /\ Typed /\ MemoryInv
  OBVIOUS
<1>1. IInv
  BY InitIInv DEF AdmissionInit
<1>2. /\ entry = NoEntry /\ alloc = NoAlloc /\ d1 = NewJournal /\ flight = {} /\ issued = 0
      /\ call = [a \in Attempts |-> NewCall]
  BY DEF AdmissionInit
<1>3. EntryOK(NoEntry, 0, Known) /\ AllocOK(NoAlloc, 0, Known) /\ JournalOK(NewJournal)
      /\ NoAlloc.stage = "none" /\ NoEntry.holders = {}
  BY NoEntryOK, NoAllocOK DEF JournalOK, NewJournal, NoAlloc, NoEntry
<1>4. CallsOK(call, 0, Known) /\ \A a \in Attempts : call[a].pc = "new"
  BY <1>2, NewCallType DEF CallsOK
<1>5. Typed
  BY <1>2, <1>3, <1>4, Bounds DEF Typed
<1>6. Grants = {}
  BY TenantType DEF AdmissionInit, Init, NewAggregate, NewLedger, Grants
<1>7. \A pcs \in {Paying, Engaged, {"ok"}} : In(pcs) = {}
  BY <1>4 DEF In, Paying, Engaged, Recovering
<1>8. Blocks = {}
  BY <1>2, <1>3, <1>7 DEF Blocks
<1>9. Named = {}
  BY <1>2, <1>8 DEF Named
<1>10. Fresh
  BY <1>2, <1>3, <1>6, <1>9 DEF Fresh, Statuses
<1>11. Distinct /\ Counted /\ Sent /\ Proven
  BY <1>2, <1>3, <1>7, <1>8 DEF Distinct, Counted, Sent, Proven
<1> QED BY <1>1, <1>5, <1>10, <1>11 DEF MemoryInv

\* A stutter is a step that has no effect.
LEMMA StutterOK ==
  ASSUME IInv, Typed, UNCHANGED allVars
  PROVE  StepOK
<1>1. UNCHANGED admissionVars /\ UNCHANGED vars /\ issued' = issued
  BY DEF allVars, admissionVars
<1>2. published' = published /\ agg' = agg
  BY <1>1 DEF vars
<1>3. IInv' /\ SteadyIn(agg, agg', 1)
  BY <1>1, NoCall
<1>4. Typed' /\ AllocKept(alloc, alloc') /\ Booked /\ Idle
  BY <1>1, <1>2, StandsStill
<1> QED BY <1>3, <1>4 DEF StepOK, Effect, LedgerEffect, BooksEffect

LEMMA MemoryInductive == AdmissionSpec => [](IInv /\ Typed /\ MemoryInv)
<1>1. IInv /\ Typed /\ MemoryInv /\ [AdmissionNext]_allVars => (IInv /\ Typed /\ MemoryInv)'
  <2> SUFFICES ASSUME IInv, Typed, MemoryInv, [AdmissionNext]_allVars
               PROVE  IInv' /\ Typed' /\ MemoryInv'
    OBVIOUS
  <2>1. CASE AdmissionNext
    <3>1. StepOK
      BY <2>1, NextStepOK DEF MemoryInv
    <3> QED BY <3>1, MemoryKept DEF StepOK
  <2>2. CASE UNCHANGED allVars
    BY <2>2, StutterOK, MemoryKept DEF StepOK
  <2> QED BY <2>1, <2>2
<1> QED BY <1>1, InitMemory, PTL DEF AdmissionSpec

\* What one isolate keeps in memory (isolate-admission.service.ts), the
\* journal of D1 and the batches on their way are well-typed, whatever is
\* lost, evicted, published or committed elsewhere meanwhile.
THEOREM AdmissionTyped == AdmissionSpec => []AdmissionTypeOK
<1>1. IInv /\ Typed => AdmissionTypeOK
  <2> SUFFICES ASSUME IInv, Typed PROVE AdmissionTypeOK
    OBVIOUS
  <2>1. \A t \in d1.links \cup d1.done : t[1] \in Nat \ {0} /\ t[2] \in Ops
    BY DEF Typed, JournalOK
  <2>2. d1.receipts \subseteq Ops /\ \A b \in flight : b.attempt \in Attempts /\ b.seq \in Nat \ {0}
    BY DEF Typed, JournalOK, Batch
  <2>3. entry \in EntryType /\ \A h \in entry.holders : h \in Holder /\ h.n <= issued
    BY Parts DEF HolderOK
  <2>4. entry \in [live : BOOLEAN, gen : Nat, blocked : BOOLEAN, refills : 0 .. MaxRefills,
                   rev : Nat, until : Nat, checked : Nat, floor : Nat, first : Nat,
                   pending : 0 .. MaxHolders, route : [Ops -> 0 .. MaxHolders],
                   holders : SUBSET entry.holders]
    BY <2>3 DEF EntryType
  <2>5. \A a \in Attempts : call[a].pc \in CallStates
    BY Parts DEF CallType
  <2> QED BY <2>1, <2>2, <2>3, <2>4, <2>5 DEF AdmissionTypeOK
<1> QED BY <1>1, MemoryInductive, PTL

\* Once sealIdleApiGrant has sealed a block nothing more can be linked to it:
\* no admitted attempt is left that would commit on it, and a batch that was
\* given up on and is still on its way to D1 finds a receipt and lands nothing.
THEOREM SealedQuiet == AdmissionSpec => []SealedIsQuiescent
<1>1. IInv /\ Typed /\ MemoryInv => SealedIsQuiescent
  <2> SUFFICES ASSUME IInv, Typed, MemoryInv, NEW h \in entry.holders, h.sealed
               PROVE  /\ \A a \in In({"admitted", "commit", "ok", "failed"}) : call[a].hold # h.n
                      /\ \A b \in flight : b.seq = h.seq => OpOf[b.attempt] \in d1.receipts
    BY DEF SealedIsQuiescent
  <2>1. \A o \in Ops : OpOK(h, o) /\ h.ops[o].tries \in Nat /\ h.ops[o].active \in Nat
    BY Parts, Bounds DEF MemoryInv, Counted, Holder, HeldOperation
  <2>2. ASSUME NEW a \in In({"admitted", "commit", "ok", "failed"}), call[a].hold = h.n PROVE FALSE
    <3>1. a \in Attempts /\ call[a].pc \in Paying /\ OpOf[a] \in Ops
      BY Parts DEF In, Paying
    <3>2. h.ops[OpOf[a]].active >= 1 /\ h.ops[OpOf[a]].tries >= 1
      BY <2>2, <3>1, PayerActive DEF MemoryInv
    <3> QED BY <2>1, <3>1, <3>2 DEF OpOK
  <2>3. ASSUME NEW b \in flight, b.seq = h.seq PROVE OpOf[b.attempt] \in d1.receipts
    <3>1. OpOf[b.attempt] \in Ops
      BY Parts DEF Typed, Batch
    <3>2. h.ops[OpOf[b.attempt]].tries > 0
      BY <2>3 DEF MemoryInv, Sent
    <3> QED BY <2>1, <3>1, <3>2 DEF OpOK
  <2> QED BY <2>2, <2>3
<1> QED BY <1>1, MemoryInductive, PTL
-----------------------------------------------------------------------------
(* What an entry has observed.                                             *)

\* No attempt that an entry was not paying for is admitted.
AdmitsNone == \A a \in Attempts : call'[a].pc = "admitted" => call[a].pc = "admitted"

\* A step of an entry at revision rev admits under rev only, and stays there.
StaysAt(rev) ==
  /\ entry'.rev = rev
  /\ \A a \in Attempts :
       call'[a].pc = "admitted" /\ call[a].pc # "admitted" => call'[a].rev = rev

\* A step that admits nobody leaves the entry at its revision, or drops it.
Unmoved == AdmitsNone /\ (entry'.live => entry'.rev = entry.rev)

Newer ==
  /\ entry'.live /\ entry'.rev # entry.rev => entry'.rev >= entry.floor
  /\ \A a \in Attempts :
       call'[a].pc = "admitted" /\ call[a].pc # "admitted" => call'[a].rev >= entry.floor

LEMMA UnmovedNewer == ASSUME Unmoved PROVE Newer
BY DEF Unmoved, AdmitsNone, Newer

\* A call that goes anywhere else admits nobody.
LEMMA GotoAdmitsNone ==
  ASSUME IInv, Typed, NEW a \in Attempts, NEW c, Goto(a, c), c.pc # "admitted"
  PROVE  AdmitsNone
BY Parts DEF Goto, CallsOK, AdmitsNone

LEMMA FinishAdmitsNone ==
  ASSUME IInv, Typed, NEW a \in Attempts, Finish(a) PROVE AdmitsNone
BY GotoAdmitsNone DEF Finish, Finished, NewCall

LEMMA TurnAdmitsNone ==
  ASSUME IInv, Typed, NEW a \in Attempts, NEW pc, pc # "admitted", Goto(a, [call[a] EXCEPT !.pc = pc])
  PROVE  AdmitsNone
BY Parts, GotoAdmitsNone DEF CallType

\* The operations of an entry that leave its revision alone.
LEMMA RevKept ==
  ASSUME NEW E \in EntryType
  PROVE  /\ RetireEntry(E).rev = E.rev
         /\ \A auth : Observed(E, auth).rev = E.rev
         /\ \A h : ReplaceHolder(E, h).rev = E.rev
         /\ \A h : SealHolder(E, h).rev = E.rev
         /\ \A n : CompleteRecovery(E, n).rev = E.rev
         /\ \A n, o, outcome, now : SettleEntry(E, n, o, outcome, now).rev = E.rev
BY DEF EntryType, RetireEntry, Observed, ReplaceHolder, SealHolder, CompleteRecovery, SettleEntry

\* Starting an admission keeps the revision of the entry, or drops it.
LEMMA StartUnmoved ==
  ASSUME IInv, Typed, NEW a \in Attempts, NEW E \in EntryType, E.rev = entry.rev, StartAdmit(a, E)
  PROVE  Unmoved
<1>1. Swept(E).live => Swept(E).rev = entry.rev
  BY RevKept DEF Swept, NoEntry
<1>2. CASE BlockedRecovery(E, clock)
  BY <1>2, FinishAdmitsNone DEF StartAdmit, Unmoved
<1>3. CASE ~BlockedRecovery(E, clock)
  <2> DEFINE g == IF Swept(E).live THEN Swept(E).gen ELSE -1
  <2>1. entry' = Swept(E) /\ Resolving(a, "resolve", [NewCall EXCEPT !.gen = g])
    BY <1>3 DEF StartAdmit
  <2> HIDE DEF g
  <2>2. [[NewCall EXCEPT !.gen = g] EXCEPT !.pc = "resolve", !.at = clock, !.lo = Len(published)].pc = "resolve"
    BY DEF NewCall
  <2>3. AdmitsNone
    BY <2>1, <2>2, GotoAdmitsNone DEF Resolving
  <2> QED BY <1>1, <2>1, <2>3 DEF Unmoved
<1> QED BY <1>2, <1>3

\* A delivery admits under the revision of the holder, which is the authority's.
LEMMA DeliverStays ==
  ASSUME IInv, Typed, NEW a \in Attempts, NEW E, EntryOK(E, issued, Known), NEW h \in E.holders,
         NEW auth \in AuthType, E.rev = auth.rev, Deliver(a, E, h, auth)
  PROVE  StaysAt(E.rev)
<1> DEFINE o == OpOf[a]
           k == Spend(h, o, auth, clock)
           out == Outcome(h, o, auth, clock)
           paid == ReplaceHolder(E, k)
<1>1. o \in Ops /\ clock \in Nat /\ h \in Holder /\ E \in EntryType
  BY Parts DEF EntryOK, EntryType
<1>2. entry' = (IF out = "spent" THEN [paid EXCEPT !.route[o] = h.n] ELSE paid) /\ paid.rev = E.rev
  BY <1>1, RevKept DEF Deliver
<1>3. paid \in [live : BOOLEAN, gen : Nat, blocked : BOOLEAN, refills : 0 .. MaxRefills, rev : Nat, until : Nat,
                checked : Nat, floor : Nat, first : Nat, pending : 0 .. MaxHolders,
                route : [Ops -> 0 .. MaxHolders], holders : {paid.holders}]
  BY <1>1 DEF ReplaceHolder, EntryType
<1>4. Pays(out) => h.rev = auth.rev
  BY <1>1, OutcomePays
<1>5. IF Pays(out)
      THEN Goto(a, [AdmittedOn(h) EXCEPT !.exp = IF h.until < auth.exp THEN h.until ELSE auth.exp])
      ELSE Finish(a)
  BY DEF Deliver, Pays
<1> HIDE DEF k, out, paid
<1>6. entry'.rev = E.rev
  BY <1>2, <1>3
<1>7. CASE ~Pays(out)
  <2>1. AdmitsNone
    BY <1>5, <1>7, FinishAdmitsNone
  <2> QED BY <1>6, <2>1 DEF StaysAt, AdmitsNone
<1>8. CASE Pays(out)
  <2> DEFINE c == [AdmittedOn(h) EXCEPT !.exp = IF h.until < auth.exp THEN h.until ELSE auth.exp]
  <2>1. c.rev = h.rev
    BY DEF AdmittedOn, NewCall
  <2>2. Goto(a, c)
    BY <1>5, <1>8
  <2> HIDE DEF c
  <2>3. call'[a] = c /\ \A e \in Attempts \ {a} : call'[e] = call[e]
    BY <2>2, Parts DEF Goto, CallsOK
  <2> QED BY <1>4, <1>6, <1>8, <2>1, <2>3 DEF StaysAt
<1> QED BY <1>7, <1>8

\* Waiting admits nobody.
LEMMA AwaitStays ==
  ASSUME IInv, Typed, NEW a \in Attempts, NEW E \in EntryType, NEW auth, Await(a, E, auth)
  PROVE  AdmitsNone /\ entry'.rev = E.rev
<1>1. \A g, p : [NewCall EXCEPT !.pc = "wait", !.gen = g, !.pend = p].pc = "wait"
  BY DEF NewCall
<1>2. AdmitsNone
  BY <1>1, GotoAdmitsNone, FinishAdmitsNone DEF Await
<1>3. entry'.rev = E.rev
  BY DEF Await, EntryType
<1> QED BY <1>2, <1>3

LEMMA AdmitOnStays ==
  ASSUME IInv, Typed, NEW a \in Attempts, NEW E, EntryOK(E, issued, Known),
         NEW auth \in AuthType, E.rev = auth.rev, AdmitOn(a, E, auth)
  PROVE  StaysAt(E.rev)
<1>1. E \in EntryType /\ OpOf[a] \in Ops /\ clock \in Nat
  BY Parts DEF EntryOK
<1>2. ASSUME NEW h \in E.holders, Await(a, ReplaceHolder(E, Spend(h, OpOf[a], auth, clock)), auth),
             Dry(h, OpOf[a], auth)
      PROVE  StaysAt(E.rev)
  <2> DEFINE k == Spend(h, OpOf[a], auth, clock)
  <2>1. h \in Holder /\ HolderOK(h, issued, Known)
    BY DEF EntryOK, EntryType
  <2>2. k \in Holder /\ HolderOK(k, issued, Known)
    BY <1>1, <2>1, SpendOK, Parts
  <2> HIDE DEF k
  <2>3. ReplaceHolder(E, k) \in EntryType /\ ReplaceHolder(E, k).rev = E.rev
    BY <1>1, <2>2, ReplaceHolderOK, RevKept DEF EntryOK
  <2>4. Await(a, ReplaceHolder(E, k), auth)
    BY <1>2 DEF k
  <2> QED BY <2>3, <2>4, AwaitStays DEF StaysAt, AdmitsNone
<1>3. Await(a, E, auth) => StaysAt(E.rev)
  BY <1>1, AwaitStays DEF StaysAt, AdmitsNone
<1>4. \/ \E h \in E.holders : Deliver(a, E, h, auth)
      \/ \E h \in E.holders : /\ Dry(h, OpOf[a], auth)
                              /\ Await(a, ReplaceHolder(E, Spend(h, OpOf[a], auth, clock)), auth)
      \/ Await(a, E, auth)
  <2> DEFINE routed == HolderOf(E, E.route[OpOf[a]])
             latest == IF routed # {} THEN {} ELSE Latest(E)
  <2>1. routed \subseteq E.holders /\ latest \subseteq E.holders
    BY DEF HolderOf, Latest
  <2> QED BY <2>1 DEF AdmitOn
<1> QED BY <1>2, <1>3, <1>4, DeliverStays

\* What is staying at the revision of an authority that was observable is newer.
LEMMA StaysNewer ==
  ASSUME NEW auth, Observable(entry, auth), StaysAt(auth.rev)
  PROVE  Newer
BY DEF Observable, StaysAt, Newer

\* A read that is judged moves the entry only to a revision it may observe.
LEMMA JudgeNewer ==
  ASSUME IInv, Typed, NEW a \in Attempts, NEW auth \in AuthType, auth.rev \in Revisions,
         Judge(a, entry, auth)
  PROVE  Newer
<1> DEFINE seen == Observed(entry, auth)
           renewed == RenewEntry(seen, auth, IntervalEnd(auth.rev))
<1>1. EntryOK(entry, issued, Known) /\ entry \in EntryType /\ IntervalEnd(auth.rev) \in Nat
  BY Parts, IntervalEndType
<1>2. EntryOK(seen, issued, Known) /\ seen \in EntryType /\ seen.rev = entry.rev
  BY <1>1, ObservedOK, RevKept DEF EntryOK
<1> HIDE DEF seen
<1>3. EntryOK(renewed, issued, Known) /\ renewed.rev = auth.rev
  BY <1>1, <1>2, RenewEntryOK DEF RenewEntry, EntryType
<1>4. RetireEntry(seen).rev = entry.rev
  BY <1>2, RevKept
<1> HIDE DEF renewed
<1>5. CASE Finish(a) /\ entry' \in {entry, seen, RetireEntry(seen)}
  BY <1>2, <1>4, <1>5, FinishAdmitsNone, UnmovedNewer DEF Unmoved
<1>6. CASE Observable(entry, auth) /\ AdmitOn(a, renewed, auth)
  BY <1>3, <1>6, AdmitOnStays, StaysNewer
<1>7. CASE Observable(entry, auth) /\ entry.rev = auth.rev /\ AdmitOn(a, seen, auth)
  BY <1>2, <1>7, AdmitOnStays, StaysNewer
<1> QED BY <1>5, <1>6, <1>7 DEF Judge, seen, renewed

LEMMA ResolveNewer ==
  ASSUME IInv, Typed, NEW a \in Attempts, Resolve(a), entry.live
  PROVE  Newer
<1>1. CASE Finish(a) /\ entry' \in {entry, RetireEntry(entry)}
  BY <1>1, FinishAdmitsNone, UnmovedNewer, RevKept, Parts DEF Unmoved
<1>2. ASSUME NEW r \in ReadAuthority(call[a]), r # 0, Judge(a, entry, AuthOf(call[a], r))
      PROVE  Newer
  BY <1>2, ReadKnown, Parts, JudgeNewer
<1> QED BY <1>1, <1>2 DEF Resolve

LEMMA ResolveAgainNewer ==
  ASSUME IInv, Typed, NEW a \in Attempts, ResolveAgain(a)
  PROVE  Newer
<1>1. EntryOK(entry, issued, Known) /\ entry \in EntryType /\ call[a] \in CallType
  BY Parts
<1>2. CASE Finish(a) /\ entry' \in {entry, RetireEntry(entry)}
  BY <1>1, <1>2, FinishAdmitsNone, UnmovedNewer, RevKept DEF Unmoved
<1>3. ASSUME NEW r \in ReadAuthority(call[a]), r # 0, NEW auth, auth = AuthOf(call[a], r),
             NEW seen, seen = Observed(entry, auth),
             \/ Finish(a) /\ entry' \in {RetireEntry(seen), seen}
             \/ /\ Observable(entry, auth) /\ entry.rev = r
                /\ \E h \in HolderOf(seen, call[a].hold) : Deliver(a, seen, h, auth)
      PROVE  Newer
  <2>1. auth \in AuthType /\ auth.rev = r
    BY <1>1, <1>3, ReadKnown
  <2>2. EntryOK(seen, issued, Known) /\ seen \in EntryType /\ seen.rev = entry.rev
    BY <1>1, <1>3, <2>1, ObservedOK, RevKept DEF EntryOK
  <2>3. RetireEntry(seen).rev = entry.rev
    BY <2>2, RevKept
  <2>4. CASE Finish(a) /\ entry' \in {RetireEntry(seen), seen}
    BY <2>2, <2>3, <2>4, FinishAdmitsNone, UnmovedNewer DEF Unmoved
  <2>5. ASSUME Observable(entry, auth), entry.rev = r, NEW h \in seen.holders, Deliver(a, seen, h, auth)
        PROVE  Newer
    BY <2>1, <2>2, <2>5, DeliverStays, StaysNewer
  <2> QED BY <1>3, <2>4, <2>5 DEF HolderOf
<1> QED BY <1>2, <1>3 DEF ResolveAgain

\* Every step of an attempt.
LEMMA AttemptNewer ==
  ASSUME IInv, Typed, NEW a \in Attempts, Step(a), entry.live
  PROVE  Newer
<1>1. entry \in EntryType /\ call[a] \in CallType
  BY Parts
<1>2. ASSUME entry' = entry, NEW pc, pc # "admitted", Goto(a, [call[a] EXCEPT !.pc = pc])
      PROVE  Newer
  BY <1>2, TurnAdmitsNone, UnmovedNewer DEF Unmoved
<1>3. ASSUME entry' = entry, Finish(a) PROVE Newer
  BY <1>3, FinishAdmitsNone, UnmovedNewer DEF Unmoved
<1>4. ASSUME NEW outcome, Settled(a, outcome) PROVE Newer
  BY <1>1, <1>4, FinishAdmitsNone, UnmovedNewer, RevKept DEF Settled, Unmoved
<1>5. ASSUME NEW pc, pc \in {"recover", "resolve2"}, NEW c, c \in CallType, Resolving(a, pc, c),
             entry'.rev = entry.rev
      PROVE  Newer
  <2>1. [c EXCEPT !.pc = pc, !.at = clock, !.lo = Len(published)].pc = pc
    BY <1>5 DEF CallType
  <2> QED BY <1>5, <2>1, GotoAdmitsNone, UnmovedNewer DEF Resolving, Unmoved
<1>6. CASE Begin(a)
  <2>1. CASE Finish(a) /\ UNCHANGED entry
    BY <1>3, <2>1
  <2>2. CASE StartAdmit(a, entry)
    BY <1>1, <2>2, StartUnmoved, UnmovedNewer
  <2>3. ASSUME NEW h \in SealTargets(entry, clock), entry' = SealHolder(entry, h),
               Resolving(a, "recover",
                  [NewCall EXCEPT !.hold = h.n, !.seq = h.seq, !.rev = h.rev,
                                  !.exp = h.until, !.ops = Operations(h)])
        PROVE  Newer
    <3> DEFINE c == [NewCall EXCEPT !.hold = h.n, !.seq = h.seq, !.rev = h.rev,
                                  !.exp = h.until, !.ops = Operations(h)]
    <3>1. [c EXCEPT !.pc = "recover", !.at = clock, !.lo = Len(published)].pc = "recover"
      BY DEF NewCall
    <3>2. Goto(a, [c EXCEPT !.pc = "recover", !.at = clock, !.lo = Len(published)])
      BY <2>3 DEF Resolving
    <3> HIDE DEF c
    <3>3. AdmitsNone
      BY <3>1, <3>2, GotoAdmitsNone
    <3> QED BY <1>1, <2>3, <3>3, RevKept, UnmovedNewer DEF Unmoved
  <2> QED BY <1>6, <2>1, <2>2, <2>3 DEF Begin
<1>7. CASE Resolve(a)
  BY <1>7, ResolveNewer
<1>8. CASE Woken(a)
  <2>1. entry'.rev = entry.rev
    BY <1>1, <1>8 DEF Woken, EntryType
  <2>2. Finish(a) \/ Resolving(a, "resolve2", call[a])
    BY <1>8 DEF Woken
  <2>3. CASE Finish(a)
    BY <2>1, <2>3, FinishAdmitsNone, UnmovedNewer DEF Unmoved
  <2> QED BY <1>1, <1>5, <2>1, <2>2, <2>3
<1>9. CASE ResolveAgain(a)
  BY <1>9, ResolveAgainNewer
<1>10. CASE SendBatch(a)
  BY <1>2, <1>3, <1>4, <1>10 DEF SendBatch
<1>11. CASE Conclude(a)
  BY <1>3, <1>4, <1>11 DEF Conclude
<1>12. CASE RecoverResolve(a)
  BY <1>2, <1>3, <1>12 DEF RecoverResolve
<1>13. CASE RecoverRefresh(a)
  BY <1>2, <1>3, <1>13 DEF RecoverRefresh
<1>14. CASE RecoverReserve(a)
  <2>1. ASSUME NEW g, Goto(a, [call[a] EXCEPT !.pc = "rec-read", !.rseq = g.seq]), entry' = entry
        PROVE  Newer
    <3>1. [call[a] EXCEPT !.pc = "rec-read", !.rseq = g.seq].pc = "rec-read"
      BY <1>1 DEF CallType
    <3> QED BY <2>1, <3>1, GotoAdmitsNone, UnmovedNewer DEF Unmoved
  <2> QED BY <1>3, <1>14, <2>1 DEF RecoverReserve
<1>15. CASE RecoverRead(a)
  BY <1>2, <1>3, <1>15 DEF RecoverRead
<1>16. CASE RecoverClose(a)
  BY <1>2, <1>3, <1>16 DEF RecoverClose
<1>17. CASE RecoverReconcile(a)
  BY <1>2, <1>3, <1>17 DEF RecoverReconcile
<1>18. CASE RecoverMark(a)
  <2>1. StartAdmit(a, CompleteRecovery(entry, call[a].hold)) /\ issued \in Nat
    BY <1>18, Parts DEF RecoverMark
  <2>2. CompleteRecovery(entry, call[a].hold) \in EntryType
    <3>1. CASE HolderOf(entry, call[a].hold) = {}
      BY <1>1, <3>1 DEF CompleteRecovery
    <3>2. CASE HolderOf(entry, call[a].hold) # {}
      BY <3>2, Parts, CompleteOK DEF EntryOK
    <3> QED BY <3>1, <3>2
  <2> QED BY <1>1, <2>1, <2>2, RevKept, StartUnmoved, UnmovedNewer
<1> QED BY <1>6, <1>7, <1>8, <1>9, <1>10, <1>11, <1>12, <1>13, <1>14, <1>15, <1>16, <1>17, <1>18 DEF Step

\* The allocation wakes calls and admits none.
LEMMA WakeAdmitsNone == ASSUME IInv, Typed, NEW n, WakeAll(n) PROVE AdmitsNone
BY Parts DEF WakeAll, AdmitsNone, CallType

LEMMA NextNewer ==
  ASSUME IInv, Typed, AdmissionNext, entry.live
  PROVE  Newer
<1>1. entry \in EntryType
  BY Parts
<1>2. ASSUME entry' = entry, call' = call PROVE Newer
  BY <1>2 DEF Newer
<1>3. ASSUME entry'.rev = entry.rev, AdmitsNone PROVE Newer
  BY <1>3, UnmovedNewer DEF Unmoved
<1>4. CASE (Tick /\ UNCHANGED admissionVars) \/ PublishEdit \/ \E o \in Ops : CommitElsewhere(o)
  BY <1>2, <1>4 DEF admissionVars, PublishEdit, CommitElsewhere
<1>5. Retry => AdmitsNone
  BY WakeAdmitsNone DEF Retry, AdmitsNone
<1>6. CASE AllocRefresh
  <2>1. entry' = entry /\ (Retry \/ WakeAll(0) \/ call' = call)
    BY <1>6 DEF AllocRefresh
  <2> QED BY <1>2, <1>3, <1>5, <2>1, WakeAdmitsNone
<1>7. CASE AllocReserve
  <2>1. entry' = entry /\ (Retry \/ WakeAll(0) \/ call' = call)
    BY <1>7 DEF AllocReserve
  <2> QED BY <1>2, <1>3, <1>5, <2>1, WakeAdmitsNone
<1>8. CASE AllocInstall
  <2>1. entry'.rev = entry.rev /\ \E n : WakeAll(n)
    BY <1>1, <1>8 DEF AllocInstall, EntryType
  <2> QED BY <1>3, <2>1, WakeAdmitsNone
<1>9. ASSUME NEW b \in flight, ExecuteBatch(b) PROVE Newer
  <2>1. b.attempt \in Attempts /\ entry' = entry
    BY <1>9 DEF Typed, Batch, ExecuteBatch
  <2>2. \/ call' = call
        \/ \E pc \in {"ok", "failed"} : Goto(b.attempt, [call[b.attempt] EXCEPT !.pc = pc])
    BY <1>9 DEF ExecuteBatch
  <2> QED BY <1>2, <1>3, <2>1, <2>2, TurnAdmitsNone
<1>10. ASSUME NEW a \in Attempts, GiveUp(a) PROVE Newer
  BY <1>3, <1>10, TurnAdmitsNone DEF GiveUp
<1>11. CASE Restart
  <2>1. ~entry'.live
    BY <1>11 DEF Restart, NoEntry
  <2>2. \A a \in Attempts : call'[a].pc \in {"new", "done"}
    BY <1>11, NewCallType, Parts DEF Restart
  <2> QED BY <2>1, <2>2 DEF Newer
<1> QED BY <1>4, <1>6, <1>7, <1>8, <1>9, <1>10, <1>11, AttemptNewer DEF AdmissionNext, Allocate

\* Once an attempt has shown its entry a newer revision of the authority, no
\* answer of an older read that comes later, and no retirement, makes admit()
\* start a generation or admit an attempt under an older one.
THEOREM ObservedNewer == AdmissionSpec => NothingOlder
<1> DEFINE Older ==
      entry.live =>
        /\ entry'.live /\ entry'.rev # entry.rev => entry'.rev >= entry.floor
        /\ \A a \in Attempts :
             call'[a].pc = "admitted" /\ call[a].pc # "admitted" => call'[a].rev >= entry.floor
<1>1. IInv /\ Typed /\ MemoryInv /\ [AdmissionNext]_allVars => [Older]_allVars
  BY NextNewer DEF Newer
<1> QED BY <1>1, MemoryInductive, PTL DEF AdmissionSpec, NothingOlder
-----------------------------------------------------------------------------
(* The charge of a block.                                                  *)

\* A grant of tenant 1 pays for a block, and is charged in full until evidence
\* settles it, or for the recovery of one.
Shaped ==
  \A g \in Grants :
    /\ g.key \in (1 .. MaxHolders) \X (0 .. BlockSize)
    /\ g.purpose = "recovery" => g.key[2] = 0
    /\ g.purpose = "new-work" => g.key[2] >= 1 /\ g.envelope = Envelope(g.key[2])
    /\ g.purpose = "new-work" /\ g.status # "reconciled" => g.accounted = g.envelope

\* Block n is the grant with reservation s, as long as the coordinator has it.
BlockIs(n, s) == \A g \in NewWork : g.key[1] = n <=> g.seq = s

Tracked ==
  /\ \A g, h \in NewWork : g.key[1] = h.key[1] => g = h
  /\ \A p \in Blocks : BlockIs(p[1], p[2])
  /\ \A h \in entry.holders, g \in NewWork : g.seq = h.seq => g.key[2] = h.size
  /\ alloc.stage # "none" => \A g \in NewWork : g.key[1] = alloc.n => g.key[2] = alloc.size
  /\ alloc.stage \in Statuses => BlockIs(alloc.n, alloc.seq)

\* The operations that were, or may still be, committed on reservation s.
Sending(s) == {OpOf[b.attempt] : b \in {f \in flight : f.seq = s}}
Spending(s) == {OpOf[a] : a \in {e \in In(Paying) : call[e].seq = s}}
Claims(s) == Work(s) \cup Sending(s) \cup Spending(s)

Sized ==
  /\ \A t \in d1.done : t[1] < agg.ledger[1].next
  /\ \A g \in NewWork : Cardinality(Claims(g.seq)) <= g.key[2]
  /\ \A h \in entry.holders : Work(h.seq) \subseteq Operations(h) /\ Cardinality(Operations(h)) <= h.size
  /\ alloc.stage # "none" => \A g \in NewWork : g.key[1] = alloc.n => Work(g.seq) = {}
  /\ alloc.stage \in Statuses => Work(alloc.seq) = {}

\* Nothing more can be committed on reservation s.
Over(s) ==
  /\ \A a \in In(Paying) : call[a].seq # s
  /\ \A b \in flight : b.seq = s => OpOf[b.attempt] \in d1.receipts
  /\ \A h \in entry.holders : h.seq = s => h.sealed
  /\ alloc.stage = "reserved" => alloc.seq # s

Settling ==
  /\ \A a \in In(Recovering) : Over(call[a].seq) /\ Work(call[a].seq) \subseteq call[a].ops
  /\ \A g \in NewWork : g.status = "reconciled" =>
       Over(g.seq) /\ \A d \in Dims : Envelope(Cardinality(Work(g.seq)))[d] <= g.accounted[d]
  /\ \A a \in In({"rec-mark"}), g \in NewWork : g.seq = call[a].seq => g.status = "reconciled"

ChargeInv == Shaped /\ Tracked /\ Sized /\ Settling

\* Grants have one number, and one identity.
LEMMA GrantsUnique ==
  ASSUME NEW A, AggInv(A)
  PROVE  LET G == A.ledger[1].grants
         IN /\ \A g \in G : g \in Grant /\ g.seq < A.ledger[1].next
            /\ \A g, h \in G : g.seq = h.seq => g = h
            /\ \A g, h \in G : g.key = h.key /\ g.purpose = h.purpose => g = h
            /\ A.ledger[1].next \in Nat
BY TenantType DEF AggInv, LedgerInv, Numbered, Identified, Aggregate, Ledger

LEMMA Unique ==
  ASSUME IInv
  PROVE  /\ \A g \in Grants : g \in Grant /\ g.seq < agg.ledger[1].next
         /\ \A g, h \in Grants : g.seq = h.seq => g = h
         /\ \A g, h \in Grants : g.key = h.key /\ g.purpose = h.purpose => g = h
         /\ agg.ledger[1].next \in Nat
<1>1. AggInv(agg)
  BY DEF IInv
<1> QED BY <1>1, GrantsUnique DEF Grants

LEMMA UniqueNext ==
  ASSUME IInv'
  PROVE  /\ \A g \in Grants' : g \in Grant /\ g.seq < agg'.ledger[1].next
         /\ \A g, h \in Grants' : g.seq = h.seq => g = h
         /\ \A g, h \in Grants' : g.key = h.key /\ g.purpose = h.purpose => g = h
         /\ agg'.ledger[1].next \in Nat
<1>1. AggInv(agg')
  BY DEF IInv, AggInv
<1> QED BY <1>1, GrantsUnique DEF Grants

\* A grant after a step: one there was, the block that was asked for, a
\* recovery that was asked for, or what a closure settled.
Stays(k) == \E g \in Grants : SameCharge(g, k)

Starts(k) ==
  /\ alloc.stage = "reserve" /\ Idle /\ k.seq = agg.ledger[1].next
  /\ k.key = <<alloc.n, alloc.size>> /\ k.purpose = "new-work"
  /\ k.envelope = Envelope(alloc.size) /\ k.accounted = k.envelope /\ k.status = "reserved"

Recovers(k) == k.purpose = "recovery" /\ \E a \in In({"rec-reserve"}) : k.key = <<call[a].hold, 0>>

Closes(a, k) ==
  /\ Idle /\ AllocKept(alloc, alloc') /\ k.status = "reconciled"
  /\ \E g \in Grants : Later(g, k)
  /\ k.purpose = "new-work" =>
       k.seq = call[a].seq /\ k.accounted = Envelope(Cardinality(call[a].ops))

LEMMA GrantOrigins ==
  ASSUME IInv, Typed, IInv', LedgerEffect, NEW k \in Grants'
  PROVE  Stays(k) \/ Starts(k) \/ Recovers(k) \/ \E a \in In({"rec-reconcile"}) : Closes(a, k)
<1>1. CASE SteadyIn(agg, agg', 1)
  BY <1>1 DEF SteadyIn, Steady, Stays, Grants
<1>2. ASSUME NEW a \in In({"rec-reserve"}),
             SteadyBut(agg.ledger[1], agg'.ledger[1], RecoveryRequest(call[a]))
      PROVE  Stays(k) \/ Recovers(k)
  BY <1>2 DEF SteadyBut, Steady, GrantFor, RecoveryRequest, Stays, Recovers, Grants
<1>3. ASSUME Idle, alloc.stage = "reserve", SteadyBut(agg.ledger[1], agg'.ledger[1], BlockRequest)
      PROVE  Stays(k) \/ Starts(k)
  BY <1>3 DEF SteadyBut, Steady, GrantFor, BlockRequest, Stays, Starts, Grants
<1>4. ASSUME NEW a \in In({"rec-reconcile"}), Idle, AllocKept(alloc, alloc'),
             SettledAs(agg.ledger[1], k, call[a].seq, Envelope(Cardinality(call[a].ops)))
      PROVE  Stays(k) \/ Closes(a, k)
  <2>1. CASE \E g \in agg.ledger[1].grants : SameCharge(g, k)
    BY <2>1 DEF Stays, Grants
  <2>2. ASSUME NEW g \in agg.ledger[1].grants, Later(g, k), k.status = "reconciled",
               k.purpose = "recovery"
                 \/ (k.seq = call[a].seq /\ k.accounted = Envelope(Cardinality(call[a].ops)))
        PROVE  Closes(a, k)
    BY <1>4, <2>2 DEF Closes, Grants
  <2> QED BY <1>4, <2>1, <2>2 DEF SettledAs
<1> QED BY <1>1, <1>2, <1>3, <1>4 DEF LedgerEffect

\* A block's grant after a step is that of one there was, or new.
LEMMA BlockOrigins ==
  ASSUME IInv, Typed, IInv', LedgerEffect, NEW k \in NewWork'
  PROVE  \/ Starts(k)
         \/ \E g \in NewWork :
              /\ k.seq = g.seq /\ k.key = g.key /\ k.envelope = g.envelope
              /\ \/ k.accounted = g.accounted /\ (k.status = "reconciled" <=> g.status = "reconciled")
                 \/ \E a \in In({"rec-reconcile"}) : Closes(a, k)
<1>1. k \in Grants' /\ k.purpose = "new-work"
  BY DEF NewWork
<1>2. CASE Stays(k)
  BY <1>1, <1>2 DEF Stays, SameCharge, Later, SameGrant, NewWork
<1>3. ASSUME NEW a \in In({"rec-reconcile"}), Closes(a, k)
      PROVE  \E g \in NewWork : k.seq = g.seq /\ k.key = g.key /\ k.envelope = g.envelope
  BY <1>1, <1>3 DEF Closes, Later, SameGrant, NewWork
<1> QED BY <1>1, <1>2, <1>3, GrantOrigins DEF Recovers

LEMMA ShapedKept ==
  ASSUME IInv, Typed, IInv', LedgerEffect, Shaped
  PROVE  Shaped'
<1>1. SUFFICES ASSUME NEW k \in Grants'
               PROVE  /\ k.key \in (1 .. MaxHolders) \X (0 .. BlockSize)
                      /\ k.purpose = "recovery" => k.key[2] = 0
                      /\ k.purpose = "new-work" => k.key[2] >= 1 /\ k.envelope = Envelope(k.key[2])
                      /\ k.purpose = "new-work" /\ k.status # "reconciled" => k.accounted = k.envelope
  BY DEF Shaped, Envelope
<1>2. CASE Stays(k)
  BY <1>2 DEF Stays, SameCharge, Later, SameGrant, Shaped
<1>3. CASE Starts(k)
  <2>1. alloc.n \in 1 .. MaxHolders /\ alloc.size \in 0 .. BlockSize /\ alloc.size >= 1
    BY <1>3, Parts, Bounds DEF Starts, Typed, AllocOK, AllocType
  <2> QED BY <1>3, <2>1 DEF Starts
<1>4. CASE Recovers(k)
  <2>1. PICK a \in In({"rec-reserve"}) : k.key = <<call[a].hold, 0>>
    BY <1>4 DEF Recovers
  <2>2. call[a].hold \in 1 .. MaxHolders /\ 0 \in 0 .. BlockSize
    BY Parts, Bounds DEF CallOK, CallType, Engaged, Recovering, In
  <2> QED BY <1>4, <2>1, <2>2 DEF Recovers
<1>5. ASSUME NEW a \in In({"rec-reconcile"}), Closes(a, k)
      PROVE  /\ k.key \in (1 .. MaxHolders) \X (0 .. BlockSize)
             /\ k.purpose = "recovery" => k.key[2] = 0
             /\ k.purpose = "new-work" => k.key[2] >= 1 /\ k.envelope = Envelope(k.key[2])
             /\ k.status = "reconciled"
  BY <1>5 DEF Closes, Later, SameGrant, Shaped
<1> QED BY <1>2, <1>3, <1>4, <1>5, GrantOrigins

-----------------------------------------------------------------------------
(* Which grant a block is.                                                 *)

\* A new grant is for a block that nothing names yet, by number or reservation.
LEMMA StartsFresh ==
  ASSUME IInv, Typed, IInv', LedgerEffect, Fresh, Shaped, Tracked, NEW k \in NewWork', Starts(k)
  PROVE  /\ \A p \in Blocks : p[1] # k.key[1] /\ p[2] # k.seq
         /\ k.seq \notin Named
         /\ \A j \in NewWork' : j.key[1] = k.key[1] => j = k
<1>1. alloc.stage # "none" /\ k.key[1] = alloc.n /\ k.key[2] = alloc.size /\ k.seq = agg.ledger[1].next
  BY DEF Starts
<1>2. \A s \in Named : s \in Nat
  BY DEF Named, Blocks, In, Typed, EntryOK, EntryType, Holder, CallsOK, CallOK, CallType, Batch
<1>3. k.seq \notin Named
  BY <1>1, <1>2, Unique DEF Fresh
<1>4. \A p \in Blocks : p[1] # k.key[1] /\ p[2] # k.seq
  BY <1>1, <1>3 DEF Fresh, Named
<1>5. ASSUME NEW j \in NewWork', j.key[1] = k.key[1] PROVE j = k
  <2>1. CASE Starts(j)
    BY <1>1, <2>1, UniqueNext DEF Starts, NewWork
  <2>2. CASE \E g \in NewWork : j.key = g.key
    <3>1. PICK g \in NewWork : j.key = g.key
      BY <2>2
    <3>2. g.key \in (1 .. MaxHolders) \X (0 .. BlockSize) /\ g.key[2] = alloc.size
      BY <1>1, <1>5, <3>1 DEF Shaped, Tracked, NewWork
    <3>3. g.key = <<g.key[1], g.key[2]>>
      BY <3>2
    <3>4. j.key = k.key
      BY <1>1, <1>5, <3>1, <3>2, <3>3 DEF Starts
    <3> QED BY <3>4, UniqueNext DEF NewWork
  <2> QED BY <2>1, <2>2, BlockOrigins
<1> QED BY <1>3, <1>4, <1>5

\* What a name stood for it stands for.
LEMMA BlockIsKept ==
  ASSUME IInv, Typed, IInv', LedgerEffect, NEW n, NEW s, BlockIs(n, s),
         \A k \in NewWork' : Starts(k) => k.key[1] # n /\ k.seq # s
  PROVE  BlockIs(n, s)'
<1>1. \A k \in NewWork' : k.key[1] = n <=> k.seq = s
  BY BlockOrigins DEF BlockIs
<1> QED BY <1>1 DEF BlockIs

\* No reservation was made for a request that the coordinator found exhausted.
LEMMA ExhaustedCall ==
  ASSUME IInv, ReserveRPC(1, BlockRequest), Exhausted(BlockRequest), BlockRequest.now \in Nat
  PROVE  \A k \in NewWork' : k.key # BlockRequest.key
<1> DEFINE req == BlockRequest
<1>1. PICK S \in RetireExpired(agg, req.now) : agg' = ReserveTenant(S, 1, req) \/ agg' = S
  BY DEF ReserveRPC
<1> DEFINE E == ExpireAll(S, req.now)
           L == S.ledger[1]
           X == Expire(L, req.now)
<1>2. /\ LeaseHeld(S, req.now) /\ ~Stale(L, req) /\ Prior(L, req) = {}
      /\ ~(OwnerAffordable(E, 1, req) /\ Grantable(E.ledger[1], req))
  BY DEF Exhausted
<1>3. AggInv(S) /\ LedgerInv(L)
  BY RetireExpiredKeeps, TenantType DEF IInv, Keeps, AggInv
<1>4. E.ledger[1] = X
  BY <1>3, TenantType DEF ExpireAll, AggInv, Aggregate
<1>5. LedgerInv(X) /\ Steady(L, X)
  BY <1>3, ExpireInv, ExpireSteady
<1>6. req.purpose = "new-work"
  BY DEF BlockRequest
<1> HIDE DEF req, E, X, L
<1>7. Prior(X, req) = {}
  BY <1>2, <1>5 DEF Prior, SameIdentity, Steady, SameCharge, Later, SameGrant
<1>8. Reserve(X, req, {S.expiresAt}) = X \/ OwnerAffordable(E, 1, req) = FALSE
  BY <1>2, <1>4, <1>7 DEF Reserve, Redeliverable
<1>9. ReserveTenant(S, 1, req) = ReserveNew(E, 1, req)
  BY <1>2 DEF ReserveTenant, E, L
<1>10. E.expiresAt = S.expiresAt
  BY <1>3 DEF E, ExpireAll, AggInv, Aggregate
<1>11. ReserveNew(E, 1, req).ledger[1].grants = X.grants
  <2>1. WithLedger(E, 1, X).ledger[1] = X
    BY <1>3, TenantType DEF WithLedger, E, ExpireAll, AggInv, Aggregate
  <2> QED BY <1>4, <1>8, <1>10, <2>1 DEF ReserveNew, OwnerGrantable
<1>12. Grants' = X.grants \/ Grants' = L.grants
  BY <1>1, <1>9, <1>11 DEF Grants, L
<1> QED BY <1>2, <1>6, <1>7, <1>12 DEF Prior, SameIdentity, NewWork, req
\* What a holder, an attempt or a batch names is named.
LEMMA NamesAre ==
  /\ \A h \in entry.holders : <<h.n, h.seq>> \in Blocks /\ h.seq \in Named
  /\ \A a \in In(Engaged) : <<call[a].hold, call[a].seq>> \in Blocks /\ call[a].seq \in Named
  /\ \A b \in flight : b.seq \in Named
<1>1. \A n, s : <<n, s>> \in Blocks => s \in Named
  <2>1. ASSUME NEW n, NEW s, <<n, s>> \in Blocks PROVE s \in Named
    <3>1. <<n, s>>[2] = s
      OBVIOUS
    <3>2. \A p \in Blocks : p[2] \in Named
      BY DEF Named
    <3> QED BY <2>1, <3>1, <3>2
  <2> QED BY <2>1
<1>2. \A h \in entry.holders : <<h.n, h.seq>> \in Blocks
  BY DEF Blocks
<1>3. \A a \in In(Engaged) : <<call[a].hold, call[a].seq>> \in Blocks
  BY DEF Blocks
<1>4. \A b \in flight : b.seq \in Named
  BY DEF Named
<1> QED BY <1>1, <1>2, <1>3, <1>4

\* Where the holders and the attempts of a step come from.
LEMMA HolderOrigins ==
  ASSUME Effect, NEW k \in entry'.holders
  PROVE  \/ \E h \in entry.holders : k.n = h.n /\ k.seq = h.seq /\ k.size = h.size
         \/ Installs /\ k.n = alloc.n /\ k.seq = alloc.seq /\ k.size = alloc.size
<1>1. CASE Idle
  BY <1>1 DEF Idle, HoldersKept, Same
<1>2. ASSUME NEW a \in Attempts, NEW h \in entry.holders, Delivers(a, h)
      PROVE  \E j \in entry.holders : k.n = j.n /\ k.seq = j.seq /\ k.size = j.size
  BY <1>2 DEF Delivers, Same, PaidFor
<1>3. ASSUME NEW a \in Attempts, NEW h \in entry.holders, Seals(a, h)
      PROVE  \E j \in entry.holders : k.n = j.n /\ k.seq = j.seq /\ k.size = j.size
  BY <1>3 DEF Seals, Same
<1>4. ASSUME NEW a \in Attempts, Settles(a)
      PROVE  \E j \in entry.holders : k.n = j.n /\ k.seq = j.seq /\ k.size = j.size
  BY <1>4 DEF Settles, Same, SettledFor
<1>5. CASE (\E a \in Attempts : Sends(a)) \/ (\E b \in flight : Executes(b))
  BY <1>5 DEF Sends, Executes
<1>6. CASE Installs
  BY <1>6 DEF Installs, Same
<1> QED BY <1>1, <1>2, <1>3, <1>4, <1>5, <1>6 DEF Effect

LEMMA CallOrigins ==
  ASSUME Effect, NEW a \in Attempts
  PROVE  CallIdle(a) \/ \E h \in entry.holders : Delivers(a, h) \/ Seals(a, h)
<1>1. ASSUME NEW e \in Attempts, Others(e), a # e PROVE CallIdle(a)
  BY <1>1 DEF Others, CallIdle, CallKept
<1>2. ASSUME Settles(a) PROVE CallIdle(a)
  BY <1>2 DEF Settles, CallIdle, CallKept, Paying, Recovering
<1>3. ASSUME Idle \/ (\E e \in Attempts : Sends(e)) \/ (\E b \in flight : Executes(b)) \/ Installs
      PROVE  CallIdle(a)
  BY <1>3 DEF Idle, Sends, Executes, Installs
<1>4. ASSUME NEW e \in Attempts, NEW h \in entry.holders, Delivers(e, h) \/ Seals(e, h)
      PROVE  Others(e)
  BY <1>4 DEF Delivers, Seals
<1>5. ASSUME NEW e \in Attempts, Settles(e) PROVE Others(e)
  BY <1>5 DEF Settles
<1> QED BY <1>1, <1>2, <1>3, <1>4, <1>5 DEF Effect

\* One number, one grant: still so.
LEMMA NumberKept ==
  ASSUME IInv, Typed, IInv', LedgerEffect, Fresh, Shaped, Tracked
  PROVE  \A j, k \in NewWork' : j.key[1] = k.key[1] => j = k
<1>1. SUFFICES ASSUME NEW j \in NewWork', NEW k \in NewWork', j.key[1] = k.key[1]
               PROVE  j = k
  OBVIOUS
<1>2. CASE Starts(j) \/ Starts(k)
  BY <1>1, <1>2, StartsFresh
<1>3. ASSUME NEW g \in NewWork, NEW h \in NewWork, j.seq = g.seq, j.key = g.key,
             k.seq = h.seq, k.key = h.key
      PROVE  j = k
  <2>1. g = h
    BY <1>1, <1>3 DEF Tracked
  <2> QED BY <1>3, <2>1, UniqueNext DEF NewWork
<1> QED BY <1>2, <1>3, BlockOrigins

\* The blocks named stay the grants they are.
LEMMA BlocksAreKept ==
  ASSUME IInv, Typed, IInv', Effect, LedgerEffect, Fresh, Shaped, Tracked
  PROVE  \A p \in Blocks' : BlockIs(p[1], p[2])'
<1>1. ASSUME NEW p \in Blocks PROVE BlockIs(p[1], p[2])'
  <2>1. BlockIs(p[1], p[2])
    BY DEF Tracked
  <2>2. \A k \in NewWork' : Starts(k) => k.key[1] # p[1] /\ k.seq # p[2]
    BY StartsFresh
  <2> DEFINE n == p[1]
             s == p[2]
  <2> HIDE DEF n, s
  <2>3. BlockIs(n, s) /\ \A k \in NewWork' : Starts(k) => k.key[1] # n /\ k.seq # s
    BY <2>1, <2>2 DEF n, s
  <2>4. \A k \in NewWork' : k.key[1] = n <=> k.seq = s
    BY <2>3, BlockIsKept DEF BlockIs
  <2> QED BY <2>4 DEF BlockIs, n, s
<1>2. CASE Installs
  <2>1. alloc.stage = "reserved" /\ BlockIs(alloc.n, alloc.seq)
    BY <1>2 DEF Installs, Tracked, Statuses
  <2>2. \A k \in NewWork' : k.key[1] = alloc.n <=> k.seq = alloc.seq
    BY <2>1, BlockOrigins DEF BlockIs, Starts
  <2>3. \A p \in Blocks' : p \in Blocks \/ p = <<alloc.n, alloc.seq>>
    BY <1>2, InstallNames
  <2> QED BY <1>1, <2>2, <2>3 DEF BlockIs
<1>3. CASE ~Installs
  BY <1>1, <1>3, EffectNames DEF BlocksKept
<1> QED BY <1>2, <1>3

\* A holder's size is still that of its grant.
LEMMA SizesKept ==
  ASSUME IInv, Typed, IInv', Effect, LedgerEffect, Fresh, Shaped, Tracked
  PROVE  \A k \in entry'.holders, g \in NewWork' : g.seq = k.seq => g.key[2] = k.size
<1>1. SUFFICES ASSUME NEW k \in entry'.holders, NEW g \in NewWork', g.seq = k.seq
               PROVE  g.key[2] = k.size
  OBVIOUS
<1>2. ASSUME NEW h \in entry.holders, k.seq = h.seq, k.size = h.size PROVE g.key[2] = k.size
  <2>1. h.seq \in Named
    BY NamesAre
  <2>2. ~Starts(g)
    BY <1>1, <1>2, <2>1, StartsFresh
  <2> QED BY <1>1, <1>2, <2>2, BlockOrigins DEF Tracked
<1>3. ASSUME Installs, k.seq = alloc.seq, k.size = alloc.size PROVE g.key[2] = k.size
  <2>1. alloc.stage = "reserved" /\ alloc.stage \in Statuses
    BY <1>3 DEF Installs, Statuses
  <2>2. PICK f \in NewWork : g.seq = f.seq /\ g.key = f.key
    BY <2>1, BlockOrigins DEF Starts
  <2> QED BY <1>1, <1>3, <2>1, <2>2 DEF Tracked, BlockIs
<1> QED BY <1>2, <1>3, HolderOrigins

\* The grants of the block being asked for have the size asked for, if that
\* is still asked for.
LEMMA AskedSize ==
  ASSUME IInv, Typed, IInv', LedgerEffect, Tracked, alloc.stage # "none",
         NEW g \in NewWork', g.key[1] = alloc.n
  PROVE  g.key[2] = alloc.size
BY BlockOrigins DEF Tracked, Starts

\* A grant of its number that the allocation is told of is a block.
LEMMA AllotsBlock ==
  ASSUME IInv, Typed, IInv', Shaped', alloc.stage # "none", NEW g, Allots(g)
  PROVE  g \in NewWork' /\ g.key[1] = alloc.n /\ g.key[2] = alloc.size
<1>1. alloc.size >= 1 /\ alloc.size \in Nat
  BY Bounds DEF Typed, AllocOK, AllocType
<1>2. g \in Grants' /\ g.key = <<alloc.n, alloc.size>>
  BY DEF Allots
<1>3. g.purpose # "recovery"
  BY <1>1, <1>2 DEF Shaped
<1>4. g.purpose \in {"new-work", "recovery"}
  BY <1>2, UniqueNext DEF Grant, Purposes
<1> QED BY <1>2, <1>3, <1>4 DEF NewWork

\* No block of the number asked for, when another is asked for.
LEMMA AsksNew ==
  ASSUME IInv, Typed, LedgerEffect, Fresh, Asks
  PROVE  \A g \in Grants' : g.key[1] # alloc'.n
<1>1. alloc'.n = issued + 1 /\ issued \in Nat
  BY Parts DEF Asks
<1> QED BY <1>1, LedgerNames DEF Fresh

\* Nor when a block of one is asked for.
LEMMA ShrinksNone ==
  ASSUME IInv, Typed, IInv', LedgerEffect, Tracked, Shaped', alloc.stage # "none",
         Shrinks, ReserveRPC(1, BlockRequest), Exhausted(BlockRequest)
  PROVE  \A g \in NewWork' : g.key[1] # alloc'.n
<1>1. SUFFICES ASSUME NEW g \in NewWork', g.key[1] = alloc.n
               PROVE  FALSE
  BY DEF Shrinks
<1>2. g.key[2] = alloc.size
  BY <1>1, AskedSize
<1>3. g.key \in (1 .. MaxHolders) \X (0 .. BlockSize)
  BY DEF NewWork, Shaped
<1>4. g.key = <<alloc.n, alloc.size>>
  BY <1>1, <1>2, <1>3
<1>5. BlockRequest.key = <<alloc.n, alloc.size>> /\ BlockRequest.now = clock /\ clock \in Nat
  BY Parts DEF BlockRequest
<1> QED BY <1>4, <1>5, ExhaustedCall

\* What is known of the allocation stays so.
LEMMA AskedKept ==
  ASSUME IInv, Typed, IInv', LedgerEffect, BooksEffect, Fresh, Shaped, Shaped', Tracked
  PROVE  /\ alloc'.stage # "none" => \A g \in NewWork' : g.key[1] = alloc'.n => g.key[2] = alloc'.size
         /\ alloc'.stage \in Statuses => \A g \in NewWork' : g.key[1] = alloc'.n <=> g.seq = alloc'.seq
<1>0. "none" \notin Statuses /\ "refresh" \notin Statuses /\ "reserve" \notin Statuses
  BY DEF Statuses
<1>1. CASE AllocKept(alloc, alloc')
  <2>1. alloc'.stage # "none" => \A g \in NewWork' : g.key[1] = alloc'.n => g.key[2] = alloc'.size
    BY <1>1, AskedSize DEF AllocKept
  <2>2. ASSUME alloc'.stage \in Statuses
        PROVE  \A g \in NewWork' : g.key[1] = alloc'.n <=> g.seq = alloc'.seq
    <3>1. alloc.stage \in Statuses /\ alloc'.n = alloc.n /\ alloc'.seq = alloc.seq
      BY <1>0, <1>1, <2>2 DEF AllocKept
    <3>2. BlockIs(alloc.n, alloc.seq) /\ alloc.stage # "reserve"
      BY <1>0, <3>1 DEF Tracked
    <3> QED BY <3>1, <3>2, BlockOrigins DEF BlockIs, Starts
  <2> QED BY <2>1, <2>2
<1>2. CASE Asks
  BY <1>0, <1>2, AsksNew DEF Asks, NewWork
<1>3. ASSUME alloc.stage = "reserve", NEW g \in Grants', Allots(g)
      PROVE  /\ \A k \in NewWork' : k.key[1] = alloc'.n => k.key[2] = alloc'.size
             /\ \A k \in NewWork' : k.key[1] = alloc'.n <=> k.seq = alloc'.seq
  <2>1. g \in NewWork' /\ g.key[1] = alloc.n /\ alloc'.n = alloc.n /\ alloc'.size = alloc.size
        /\ alloc'.seq = g.seq
    BY <1>3, AllotsBlock DEF Allots
  <2>2. \A k \in NewWork' : k.seq = g.seq => k = g
    BY <2>1, UniqueNext DEF NewWork
  <2> QED BY <1>3, <2>1, <2>2, AskedSize, NumberKept
<1>4. CASE alloc.stage = "reserve" /\ Shrinks /\ ReserveRPC(1, BlockRequest) /\ Exhausted(BlockRequest)
  BY <1>0, <1>4, ShrinksNone DEF Shrinks
<1> QED BY <1>1, <1>2, <1>3, <1>4 DEF BooksEffect

LEMMA TrackedKept ==
  ASSUME IInv, Typed, Fresh, Shaped, Tracked, StepOK
  PROVE  Tracked'
<1>1. IInv' /\ Effect /\ LedgerEffect /\ BooksEffect
  BY DEF StepOK
<1>2. Shaped'
  BY <1>1, ShapedKept
<1>3. \A j, k \in NewWork' : j.key[1] = k.key[1] => j = k
  BY <1>1, NumberKept
<1>4. \A p \in Blocks' : BlockIs(p[1], p[2])'
  BY <1>1, BlocksAreKept
<1>5. \A k \in entry'.holders, g \in NewWork' : g.seq = k.seq => g.key[2] = k.size
  BY <1>1, SizesKept
<1>6. alloc'.stage # "none" => \A g \in NewWork' : g.key[1] = alloc'.n => g.key[2] = alloc'.size
  BY <1>1, <1>2, AskedKept
<1>7. alloc'.stage \in Statuses => BlockIs(alloc.n, alloc.seq)'
  BY <1>1, <1>2, AskedKept DEF BlockIs
<1> QED BY <1>3, <1>4, <1>5, <1>6, <1>7 DEF Tracked

-----------------------------------------------------------------------------
(* What a block paid for is within its size.                               *)

\* The sets that are counted are finite.
LEMMA ClaimsFinite ==
  ASSUME IInv, Typed, NEW s
  PROVE  /\ Claims(s) \subseteq Ops /\ Work(s) \subseteq Claims(s)
         /\ \A S \in SUBSET Ops : IsFiniteSet(S) /\ Cardinality(S) \in Nat
<1>1. Work(s) \subseteq Ops
  BY DEF Work, Typed, JournalOK
<1>2. Sending(s) \subseteq Ops
  BY Bounds DEF Sending, Typed, Batch
<1>3. Spending(s) \subseteq Ops
  BY Bounds DEF Spending, In
<1>4. \A S \in SUBSET Ops : IsFiniteSet(S) /\ Cardinality(S) \in Nat
  BY Bounds, FS_Subset, FS_CardinalityType
<1> QED BY <1>1, <1>2, <1>3, <1>4 DEF Claims

\* A larger block costs no less.
LEMMA ProductGrows ==
  ASSUME NEW n \in Nat, NEW m \in Nat, n <= m, NEW c \in Nat
  PROVE  n * c <= m * c
<1>1. (m - n) * c >= 0
  <2>1. m - n \in Nat
    OBVIOUS
  <2>2. \A k \in Nat : k * c >= 0
    OBVIOUS
  <2> QED BY <2>1, <2>2
<1>2. (m - n) * c = m * c - n * c /\ m * c \in Nat /\ n * c \in Nat
  OBVIOUS
<1> QED BY <1>1, <1>2

LEMMA CostGrows ==
  ASSUME NEW n \in Nat, NEW m \in Nat, n <= m
  PROVE  \A d \in Dims : Envelope(n)[d] <= Envelope(m)[d]
<1>1. SUFFICES ASSUME NEW d \in Dims PROVE Envelope(n)[d] <= Envelope(m)[d]
  OBVIOUS
<1>2. OpCost[d] \in Nat /\ ColdCost[d] \in Nat
  BY AdmissionAssumption DEF Amounts
<1>3. n * OpCost[d] <= m * OpCost[d] /\ n * OpCost[d] \in Nat /\ m * OpCost[d] \in Nat
  BY <1>2, ProductGrows
<1> QED BY <1>2, <1>3 DEF Envelope

\* A smaller set of operations costs no more.
LEMMA FewerOperations ==
  ASSUME NEW S, NEW T \in SUBSET Ops, S \subseteq T
  PROVE  /\ Cardinality(S) \in Nat /\ Cardinality(T) \in Nat /\ Cardinality(S) <= Cardinality(T)
         /\ \A d \in Dims : Envelope(Cardinality(S))[d] <= Envelope(Cardinality(T))[d]
<1>1. IsFiniteSet(T) /\ IsFiniteSet(S)
  BY Bounds, FS_Subset
<1>2. Cardinality(S) \in Nat /\ Cardinality(T) \in Nat /\ Cardinality(S) <= Cardinality(T)
  BY <1>1, FS_Subset, FS_CardinalityType
<1> QED BY <1>2, CostGrows

\* What was committed by a step was committed, on its way or admitted before.
LEMMA WorkFrom ==
  ASSUME Effect, NEW s
  PROVE  Work(s)' \subseteq Claims(s)
<1>1. CASE d1'.done = d1.done
  BY <1>1 DEF Work, Claims
<1>2. ASSUME NEW b \in flight, d1'.done = d1.done \cup {<<b.seq, OpOf[b.attempt]>>}
      PROVE  Work(s)' \subseteq Claims(s)
  <2>1. ASSUME NEW o \in Work(s)' PROVE o \in Work(s) \/ (b.seq = s /\ o = OpOf[b.attempt])
    BY <1>2, <2>1 DEF Work
  <2>2. b.seq = s => OpOf[b.attempt] \in Sending(s)
    BY DEF Sending
  <2> QED BY <2>1, <2>2 DEF Claims
<1> QED BY <1>1, <1>2
     DEF Effect, Idle, JournalKept, Delivers, Seals, Settles, Sends, Executes, Installs

\* A claim on a reservation was one before, or is that of the attempt admitted.
LEMMA ClaimsFrom ==
  ASSUME Typed, Effect, NEW s, NEW o \in Claims(s)'
  PROVE  \/ o \in Claims(s)
         \/ \E a \in Attempts : \E h \in entry.holders : Delivers(a, h) /\ s = h.seq /\ o = OpOf[a]
<1>1. CASE o \in Work(s)'
  BY <1>1, WorkFrom
<1>2. CASE o \in Sending(s)'
  <2>1. PICK b \in flight' : b.seq = s /\ o = OpOf[b.attempt]
    BY <1>2 DEF Sending
  <2>2. CASE b \in flight
    BY <2>1, <2>2 DEF Sending, Claims
  <2>3. ASSUME NEW a \in Attempts, Sends(a), b \notin flight PROVE o \in Claims(s)
    <3>1. call[a].pc \in Paying /\ call[a].seq = s /\ o = OpOf[a]
      BY <2>1, <2>3 DEF Sends
    <3> QED BY <3>1 DEF Claims, Spending, In
  <2>4. b \in flight \/ \E a \in Attempts : Sends(a)
    BY DEF Effect, Idle, Delivers, Seals, Settles, Executes, Installs
  <2> QED BY <2>2, <2>3, <2>4
<1>3. CASE o \in Spending(s)'
  <2>1. PICK a \in Attempts : call'[a].pc \in Paying /\ call'[a].seq = s /\ o = OpOf[a]
    BY <1>3 DEF Spending, In
  <2>2. CASE CallIdle(a)
    BY <2>1, <2>2 DEF CallIdle, CallKept, Claims, Spending, In
  <2>3. ASSUME NEW h \in entry.holders, Seals(a, h) PROVE FALSE
    BY <2>1, <2>3 DEF Seals, Paying
  <2>4. ASSUME NEW h \in entry.holders, Delivers(a, h)
        PROVE  s = h.seq
    BY <2>1, <2>4 DEF Delivers
  <2> QED BY <2>1, <2>2, <2>3, <2>4, CallOrigins
<1> QED BY <1>1, <1>2, <1>3 DEF Claims

\* The claims on a holder's block are operations it counts.
LEMMA HolderClaims ==
  ASSUME IInv, Typed, Distinct, Counted, Sent, Sized, NEW h \in entry.holders
  PROVE  Claims(h.seq) \subseteq Operations(h)
<1>1. Work(h.seq) \subseteq Operations(h)
  BY DEF Sized
<1>2. ASSUME NEW b \in flight, b.seq = h.seq PROVE OpOf[b.attempt] \in Operations(h)
  <2>1. b.attempt \in Attempts /\ OpOf[b.attempt] \in Ops
    BY Bounds DEF Typed, Batch
  <2> QED BY <1>2, <2>1 DEF Sent, Operations
<1>3. ASSUME NEW a \in In(Paying), call[a].seq = h.seq PROVE OpOf[a] \in Operations(h)
  <2>1. a \in Attempts /\ call[a].pc \in Paying /\ a \in In(Engaged)
    BY <1>3 DEF In, Engaged
  <2>2. <<h.n, h.seq>> \in Blocks /\ <<call[a].hold, call[a].seq>> \in Blocks
    BY <2>1, NamesAre
  <2>3. call[a].hold = h.n
    BY <1>3, <2>2 DEF Distinct
  <2>4. h.ops[OpOf[a]].tries >= 1 /\ OpOf[a] \in Ops /\ h \in Holder
    BY <2>1, <2>3, PayerActive, Parts
  <2> QED BY <2>4 DEF Operations, Holder, HeldOperation
<1> QED BY <1>1, <1>2, <1>3 DEF Claims, Sending, Spending

\* What nothing names has no claims but its work, and a new reservation none.
LEMMA UnnamedClaims ==
  ASSUME NEW s, s \notin Named
  PROVE  Claims(s) = Work(s)
<1>1. \A b \in flight : b.seq # s
  BY NamesAre
<1>2. \A a \in In(Paying) : call[a].seq # s
  BY NamesAre DEF In, Engaged
<1> QED BY <1>1, <1>2 DEF Claims, Sending, Spending

LEMMA NewClaims ==
  ASSUME IInv, Typed, Fresh, Sized
  PROVE  LET s == agg.ledger[1].next IN s \notin Named /\ Claims(s) = {}
<1> DEFINE s == agg.ledger[1].next
<1>1. s \in Nat
  BY Unique
<1>2. s \notin Named
  BY <1>1 DEF Fresh
<1>3. \A t \in d1.done : t[1] # s
  BY <1>1 DEF Sized
<1>4. Work(s) = {}
  BY <1>3 DEF Work
<1> HIDE DEF s
<1>5. s \notin Named /\ Claims(s) = {}
  BY <1>2, <1>4, UnnamedClaims
<1> QED BY <1>5 DEF s

\* One more operation of a set.
LEMMA OneOperationMore ==
  ASSUME NEW S \in SUBSET Ops, NEW T, NEW o, T \subseteq S \cup {o}, NEW size \in Nat,
         Cardinality(S) < size \/ (o \in S /\ Cardinality(S) <= size)
  PROVE  Cardinality(T) <= size
<1>1. IsFiniteSet(S) /\ Cardinality(S) \in Nat
  BY Bounds, FS_Subset, FS_CardinalityType
<1>2. IsFiniteSet(S \cup {o}) /\ Cardinality(S \cup {o}) = IF o \in S THEN Cardinality(S) ELSE Cardinality(S) + 1
  BY <1>1, FS_AddElement
<1>3. Cardinality(T) <= Cardinality(S \cup {o}) /\ Cardinality(T) \in Nat /\ Cardinality(S \cup {o}) \in Nat
  BY <1>2, FS_Subset, FS_CardinalityType
<1> QED BY <1>1, <1>2, <1>3

\* A grant's claims stay within its size.
LEMMA ClaimsKept ==
  ASSUME IInv, Typed, IInv', Shaped', Effect, LedgerEffect, Fresh, Distinct, Counted, Sent,
         Shaped, Tracked, Sized, NEW g \in NewWork'
  PROVE  Cardinality(Claims(g.seq)') <= g.key[2]
<1>1. g.key[2] \in Nat /\ g.key[2] >= 1
  BY Bounds DEF Shaped, NewWork
<1>2. CASE Starts(g)
  <2>1. g.seq \notin Named /\ Claims(g.seq) = {}
    BY <1>2, NewClaims DEF Starts
  <2>2. \A h \in entry.holders : h.seq # g.seq
    BY <2>1, NamesAre
  <2>3. Claims(g.seq)' = {}
    BY <2>1, <2>2, ClaimsFrom
  <2> QED BY <1>1, <2>3, FS_EmptySet
<1>3. ASSUME NEW f \in NewWork, g.seq = f.seq, g.key = f.key
      PROVE  Cardinality(Claims(g.seq)') <= g.key[2]
  <2> DEFINE s == f.seq
             C == Claims(f.seq)
  <2>1. C \subseteq Ops /\ Cardinality(C) <= f.key[2] /\ Cardinality(C) \in Nat
    BY ClaimsFinite DEF Sized
  <2>2. CASE Claims(g.seq)' \subseteq C
    <3> HIDE DEF C
    <3>1. Cardinality(Claims(g.seq)') <= Cardinality(C) /\ Cardinality(Claims(g.seq)') \in Nat
      BY <2>1, <2>2, FewerOperations
    <3> QED BY <1>1, <1>3, <2>1, <3>1
  <2>3. ASSUME NEW a \in Attempts, NEW h \in entry.holders, Delivers(a, h), f.seq = h.seq
        PROVE  Cardinality(Claims(g.seq)') <= g.key[2]
    <3>1. Claims(g.seq)' \subseteq C \cup {OpOf[a]}
      <4>1. \A e \in Attempts : \A j \in entry.holders :
               Delivers(e, j) => e = a
        BY <2>3 DEF Delivers, Others, Engaged, Paying
      <4> QED BY <1>3, <4>1, ClaimsFrom
    <3>2. C \subseteq Operations(h)
      BY <2>3, HolderClaims
    <3>3. Operations(h) \in SUBSET Ops /\ OpOf[a] \in Ops /\ h \in Holder
      BY Parts DEF Operations
    <3>4. h.size \in Nat /\ f.key[2] = h.size /\ Cardinality(Operations(h)) <= h.size
      BY <2>3, <3>3 DEF Tracked, Sized, Holder
    <3>5. Cardinality(Operations(h)) < h.size
          \/ (OpOf[a] \in Operations(h) /\ Cardinality(Operations(h)) <= h.size)
      BY <2>3, <3>3, <3>4 DEF Delivers, Operations
    <3> HIDE DEF C
    <3>6. Claims(g.seq)' \subseteq Operations(h) \cup {OpOf[a]}
      BY <3>1, <3>2
    <3> QED BY <1>3, <3>3, <3>4, <3>5, <3>6, OneOperationMore
  <2>4. \/ Claims(g.seq)' \subseteq C
        \/ \E a \in Attempts : \E h \in entry.holders : Delivers(a, h) /\ f.seq = h.seq
    BY <1>3, ClaimsFrom
  <2> QED BY <2>2, <2>3, <2>4
<1> QED BY <1>2, <1>3, BlockOrigins

\* A holder counts what its block paid for, within its size.
LEMMA HoldersWithin ==
  ASSUME IInv, Typed, Typed', IInv', Effect, Fresh, Distinct, Counted, Sent, Sized,
         NEW k \in entry'.holders
  PROVE  Work(k.seq)' \subseteq Operations(k) /\ Cardinality(Operations(k)) <= k.size
<1>0. k \in Holder
  BY DEF Typed, EntryOK, EntryType
<1>1. ASSUME NEW h \in entry.holders, k.seq = h.seq, k.size = h.size, k.ops = h.ops
      PROVE  Work(k.seq)' \subseteq Operations(k) /\ Cardinality(Operations(k)) <= k.size
  <2>1. Operations(k) = Operations(h)
    BY <1>1 DEF Operations
  <2>2. Work(h.seq)' \subseteq Claims(h.seq) /\ Claims(h.seq) \subseteq Operations(h)
    BY WorkFrom, HolderClaims
  <2>3. Work(k.seq)' = Work(h.seq)'
    BY <1>1 DEF Work
  <2> QED BY <1>1, <2>1, <2>2, <2>3 DEF Sized
<1>2. ASSUME NEW h \in entry.holders, k.seq = h.seq, k.size = h.size,
             NEW o \in Ops, NEW op, op.tries > 0, k.ops = [h.ops EXCEPT ![o] = op],
             Cardinality(Operations(h)) < h.size \/ h.ops[o].tries > 0
      PROVE  Work(k.seq)' \subseteq Operations(k) /\ Cardinality(Operations(k)) <= k.size
  <2>1. h \in Holder /\ h.ops \in [Ops -> HeldOperation]
    BY Parts DEF Holder
  <2>2. Operations(k) \subseteq Operations(h) \cup {o} /\ Operations(h) \subseteq Operations(k)
    BY <1>2, <2>1 DEF Operations
  <2>3. Work(h.seq)' \subseteq Claims(h.seq) /\ Claims(h.seq) \subseteq Operations(h)
    BY WorkFrom, HolderClaims
  <2>4. Work(k.seq)' = Work(h.seq)'
    BY <1>2 DEF Work
  <2>5. Cardinality(Operations(h)) < h.size
          \/ (o \in Operations(h) /\ Cardinality(Operations(h)) <= h.size)
    BY <1>2 DEF Operations, Sized
  <2>6. Operations(h) \in SUBSET Ops /\ h.size \in Nat
    BY <2>1 DEF Operations, Holder
  <2>7. Cardinality(Operations(k)) <= h.size
    BY <2>2, <2>5, <2>6, OneOperationMore
  <2> QED BY <1>2, <2>2, <2>3, <2>4, <2>7
<1>3. ASSUME NEW a \in Attempts, Settles(a)
      PROVE  Work(k.seq)' \subseteq Operations(k) /\ Cardinality(Operations(k)) <= k.size
  <2>1. PICK h \in entry.holders :
          \/ Same(h, k)
          \/ h.n = call[a].hold /\ \E s \in OpStates : SettledFor(h, k, OpOf[a], s)
    BY <1>3 DEF Settles
  <2>2. CASE Same(h, k)
    BY <1>1, <2>2 DEF Same
  <2>3. ASSUME NEW s \in OpStates, h.n = call[a].hold, SettledFor(h, k, OpOf[a], s)
        PROVE  Work(k.seq)' \subseteq Operations(k) /\ Cardinality(Operations(k)) <= k.size
    <3> DEFINE op == SettledOp(h.ops[OpOf[a]], s)
    <3>1. call[a].pc \in Paying /\ OpOf[a] \in Ops /\ h \in Holder
      BY <1>3, Parts DEF Settles
    <3>2. h.ops[OpOf[a]].tries >= 1 /\ h.ops[OpOf[a]].tries \in Nat
      BY <2>3, <3>1, PayerActive DEF Holder, HeldOperation
    <3>3. op.tries > 0 /\ h.ops[OpOf[a]].tries > 0
      BY <3>2 DEF SettledOp
    <3>4. k.seq = h.seq /\ k.size = h.size /\ k.ops = [h.ops EXCEPT ![OpOf[a]] = op]
      BY <2>3 DEF SettledFor
    <3> HIDE DEF op
    <3> QED BY <1>2, <3>1, <3>3, <3>4
  <2> QED BY <2>1, <2>2, <2>3
<1>4. ASSUME NEW a \in Attempts, NEW h \in entry.holders, Delivers(a, h)
      PROVE  Work(k.seq)' \subseteq Operations(k) /\ Cardinality(Operations(k)) <= k.size
  <2>1. CASE \E j \in entry.holders : Same(j, k)
    BY <1>1, <2>1 DEF Same
  <2>2. CASE PaidFor(h, k, OpOf[a])
    <3> DEFINE op == PaidOp(h.ops[OpOf[a]])
    <3>1. OpOf[a] \in Ops /\ h \in Holder
      BY Parts
    <3>2. op.tries > 0
      BY <3>1 DEF PaidOp, Holder, HeldOperation
    <3>3. k.seq = h.seq /\ k.size = h.size /\ k.ops = [h.ops EXCEPT ![OpOf[a]] = op]
      BY <2>2 DEF PaidFor
    <3> HIDE DEF op
    <3> QED BY <1>2, <1>4, <3>1, <3>2, <3>3 DEF Delivers
  <2> QED BY <1>4, <2>1, <2>2 DEF Delivers
<1>5. ASSUME NEW a \in Attempts, NEW h \in entry.holders, Seals(a, h)
      PROVE  Work(k.seq)' \subseteq Operations(k) /\ Cardinality(Operations(k)) <= k.size
  BY <1>1, <1>5 DEF Seals, Same
<1>6. CASE (\E h \in entry.holders : Same(h, k)) \/ k \in entry.holders
  BY <1>1, <1>6 DEF Same
<1>7. ASSUME Installs, k.seq = alloc.seq, \A o \in Ops : k.ops[o] = [tries |-> 0, active |-> 0, state |-> "none"]
      PROVE  Work(k.seq)' \subseteq Operations(k) /\ Cardinality(Operations(k)) <= k.size
  <2>1. alloc.stage \in Statuses
    BY <1>7 DEF Installs, Statuses
  <2>2. Work(alloc.seq) = {} /\ d1' = d1
    BY <1>7, <2>1 DEF Sized, Installs
  <2>3. Work(k.seq)' = {}
    BY <1>7, <2>2 DEF Work
  <2>4. Operations(k) = {}
    BY <1>7 DEF Operations
  <2> QED BY <1>0, <2>3, <2>4, FS_EmptySet DEF Holder
<1>8. CASE Idle
  BY <1>6, <1>8 DEF Idle, HoldersKept
<1>9. CASE (\E a \in Attempts : Sends(a)) \/ (\E b \in flight : Executes(b))
  BY <1>6, <1>9 DEF Sends, Executes
<1>10. CASE Installs
  BY <1>6, <1>7, <1>10 DEF Installs
<1> QED BY <1>3, <1>4, <1>5, <1>8, <1>9, <1>10 DEF Effect

\* Nothing was committed yet on a reservation that is not installed.
LEMMA NotYetSpent ==
  ASSUME IInv, Typed, IInv', Shaped', Effect, LedgerEffect, BooksEffect, Fresh, Tracked, Sized
  PROVE  /\ alloc'.stage # "none" => \A g \in NewWork' : g.key[1] = alloc'.n => Work(g.seq)' = {}
         /\ alloc'.stage \in Statuses => Work(alloc.seq)' = {}
<1>0. "none" \notin Statuses /\ "refresh" \notin Statuses /\ "reserve" \notin Statuses
  BY DEF Statuses
<1>1. ASSUME alloc.stage # "none", NEW g \in NewWork', g.key[1] = alloc.n
      PROVE  Work(g.seq)' = {}
  <2>1. CASE Starts(g)
    <3>1. Claims(g.seq) = {}
      BY <2>1, NewClaims DEF Starts
    <3> QED BY <3>1, WorkFrom
  <2>2. ASSUME NEW f \in NewWork, g.seq = f.seq, g.key = f.key PROVE Work(g.seq)' = {}
    <3>1. f.seq \notin Named /\ Work(f.seq) = {}
      BY <1>1, <2>2 DEF Fresh, Sized, NewWork
    <3> QED BY <2>2, <3>1, UnnamedClaims, WorkFrom
  <2> QED BY <2>1, <2>2, BlockOrigins
<1>2. CASE AllocKept(alloc, alloc')
  <2>1. alloc'.stage # "none" => \A g \in NewWork' : g.key[1] = alloc'.n => Work(g.seq)' = {}
    BY <1>1, <1>2 DEF AllocKept
  <2>2. ASSUME alloc'.stage \in Statuses PROVE Work(alloc.seq)' = {}
    <3>1. alloc.stage \in Statuses /\ alloc.stage # "none" /\ alloc'.seq = alloc.seq
      BY <1>0, <1>2, <2>2 DEF AllocKept
    <3>2. Claims(alloc.seq) = {}
      BY <3>1, UnnamedClaims DEF Fresh, Sized
    <3>3. PICK s : s = alloc.seq /\ s = alloc'.seq
      BY <3>1
    <3>4. Work(s)' = {}
      BY <3>2, <3>3, WorkFrom
    <3> QED BY <3>3, <3>4 DEF Work
  <2> QED BY <2>1, <2>2
<1>3. CASE Asks
  BY <1>0, <1>3, AsksNew DEF Asks, NewWork
<1>4. ASSUME alloc.stage = "reserve", NEW g \in Grants', Allots(g)
      PROVE  /\ \A k \in NewWork' : k.key[1] = alloc'.n => Work(k.seq)' = {}
             /\ Work(alloc.seq)' = {}
  <2>1. g \in NewWork' /\ g.key[1] = alloc.n /\ alloc'.n = alloc.n /\ alloc'.seq = g.seq
    BY <1>4, AllotsBlock DEF Allots
  <2>2. Work(g.seq)' = {}
    BY <1>1, <1>4, <2>1
  <2> QED BY <1>1, <1>4, <2>1, <2>2 DEF Work
<1>5. CASE alloc.stage = "reserve" /\ Shrinks
  BY <1>0, <1>1, <1>5 DEF Shrinks
<1> QED BY <1>2, <1>3, <1>4, <1>5 DEF BooksEffect

LEMMA SizedKept ==
  ASSUME IInv, Typed, MemoryInv, Shaped, Tracked, Sized, StepOK
  PROVE  Sized'
<1>1. IInv' /\ Typed' /\ Effect /\ LedgerEffect /\ BooksEffect
  BY DEF StepOK
<1>2. Fresh /\ Distinct /\ Counted /\ Sent /\ Shaped'
  BY <1>1, ShapedKept DEF MemoryInv
<1>3. \A t \in d1'.done : t[1] < agg'.ledger[1].next
  <2>1. agg.ledger[1].next \in Nat /\ agg'.ledger[1].next \in Nat
        /\ agg.ledger[1].next <= agg'.ledger[1].next
    BY <1>1, Unique, LedgerNames
  <2>2. \A t \in d1.done : t[1] \in Nat /\ t[1] < agg.ledger[1].next
    BY DEF Sized, Typed, JournalOK
  <2>3. ASSUME NEW b \in flight, d1'.done = d1.done \cup {<<b.seq, OpOf[b.attempt]>>}
        PROVE  \A t \in d1'.done : t[1] < agg'.ledger[1].next
    <3>1. b.seq \in Named /\ b.seq \in Nat
      BY NamesAre DEF Typed, Batch
    <3>2. b.seq < agg.ledger[1].next
      BY <1>2, <3>1 DEF Fresh
    <3> QED BY <2>1, <2>2, <2>3, <3>1, <3>2
  <2>4. d1'.done = d1.done \/ \E b \in flight : d1'.done = d1.done \cup {<<b.seq, OpOf[b.attempt]>>}
    BY <1>1 DEF Effect, Idle, JournalKept, Delivers, Seals, Settles, Sends, Executes, Installs
  <2> QED BY <2>1, <2>2, <2>3, <2>4
<1>4. \A g \in NewWork' : Cardinality(Claims(g.seq)') <= g.key[2]
  BY <1>1, <1>2, ClaimsKept
<1>5. \A k \in entry'.holders : Work(k.seq)' \subseteq Operations(k) /\ Cardinality(Operations(k)) <= k.size
  BY <1>1, <1>2, HoldersWithin
<1>6. /\ alloc'.stage # "none" => \A g \in NewWork' : g.key[1] = alloc'.n => Work(g.seq)' = {}
      /\ alloc'.stage \in Statuses => Work(alloc.seq)' = {}
  BY <1>1, <1>2, NotYetSpent
<1> QED BY <1>3, <1>4, <1>5, <1>6 DEF Sized

-----------------------------------------------------------------------------
(* What was closed stays closed, and is charged for what it paid.          *)

\* Over', spelt out.
OverNext(s) ==
  /\ \A a \in Attempts : call'[a].pc \in Paying => call'[a].seq # s
  /\ \A b \in flight' : b.seq = s => OpOf[b.attempt] \in d1'.receipts
  /\ \A h \in entry'.holders : h.seq = s => h.sealed
  /\ alloc'.stage = "reserved" => alloc'.seq # s

\* What is over stays over, and commits nothing.
LEMMA OverKept ==
  ASSUME Effect, NEW s, Over(s), alloc'.stage = "reserved" => alloc'.seq # s
  PROVE  OverNext(s) /\ Work(s)' \subseteq Work(s)
<1>1. d1.receipts \subseteq d1'.receipts
  BY DEF Effect, Idle, JournalKept, Delivers, Seals, Settles, Sends, Executes, Installs
<1>2. ASSUME NEW a \in Attempts, call'[a].pc \in Paying PROVE call'[a].seq # s
  <2>1. CASE CallIdle(a)
    BY <1>2, <2>1 DEF CallIdle, CallKept, Over, In
  <2>2. ASSUME NEW h \in entry.holders, Delivers(a, h) PROVE call'[a].seq # s
    BY <2>2 DEF Delivers, Over
  <2>3. ASSUME NEW h \in entry.holders, Seals(a, h) PROVE FALSE
    BY <1>2, <2>3 DEF Seals, Paying
  <2> QED BY <2>1, <2>2, <2>3, CallOrigins
<1>3. ASSUME NEW b \in flight', b.seq = s PROVE OpOf[b.attempt] \in d1'.receipts
  <2>1. ASSUME NEW a \in Attempts, Sends(a) PROVE b \in flight
    BY <1>3, <2>1 DEF Sends, Over, In
  <2>2. b \in flight
    BY <2>1 DEF Effect, Idle, Delivers, Seals, Settles, Executes, Installs
  <2> QED BY <1>1, <1>3, <2>2 DEF Over
<1>4. ASSUME NEW k \in entry'.holders, k.seq = s PROVE k.sealed
  <2>1. ASSUME NEW h \in entry.holders, k.seq = h.seq, k.sealed = h.sealed PROVE k.sealed
    BY <1>4, <2>1 DEF Over
  <2>2. CASE Idle
    BY <2>1, <2>2 DEF Idle, HoldersKept, Same
  <2>3. ASSUME NEW a \in Attempts, NEW h \in entry.holders, Delivers(a, h) PROVE k.sealed
    BY <2>1, <2>3 DEF Delivers, Same, PaidFor
  <2>4. ASSUME NEW a \in Attempts, NEW h \in entry.holders, Seals(a, h) PROVE k.sealed
    BY <2>1, <2>4 DEF Seals, Same
  <2>5. ASSUME NEW a \in Attempts, Settles(a) PROVE k.sealed
    BY <2>1, <2>5 DEF Settles, Same, SettledFor
  <2>6. CASE (\E a \in Attempts : Sends(a)) \/ (\E b \in flight : Executes(b))
    BY <2>1, <2>6 DEF Sends, Executes
  <2>7. CASE Installs
    BY <1>4, <2>1, <2>7 DEF Installs, Same, Over
  <2> QED BY <2>2, <2>3, <2>4, <2>5, <2>6, <2>7 DEF Effect
<1>5. Work(s)' \subseteq Work(s)
  <2>1. CASE d1'.done = d1.done
    BY <2>1 DEF Work
  <2>2. ASSUME NEW b \in flight, Executes(b) PROVE Work(s)' \subseteq Work(s)
    <3>1. b.seq # s
      BY <2>2 DEF Executes, Over
    <3>2. d1'.done = d1.done \cup {<<b.seq, OpOf[b.attempt]>>}
      BY <2>2 DEF Executes
    <3> QED BY <3>1, <3>2 DEF Work
  <2> QED BY <2>1, <2>2
       DEF Effect, Idle, JournalKept, Delivers, Seals, Settles, Sends, Installs
<1> QED BY <1>2, <1>3, <1>4, <1>5 DEF OverNext

\* A block is over once it is sealed, and its operations are what it paid for.
LEMMA SealedOver ==
  ASSUME IInv, Typed, Fresh', Distinct, Counted, Sent, Sized,
         NEW a \in Attempts, NEW h \in entry.holders, Seals(a, h)
  PROVE  OverNext(h.seq) /\ Work(h.seq)' \subseteq Operations(h)
<1>1. h \in Holder /\ h.ops \in [Ops -> HeldOperation] /\ <<h.n, h.seq>> \in Blocks
  BY Parts, NamesAre DEF Holder
<1>2. \A o \in Operations(h) : h.ops[o].state = "committed" /\ h.ops[o].active = 0 /\ o \in d1.receipts
  <2>1. ASSUME NEW o \in Operations(h) PROVE OpOK(h, o) /\ h.ops[o].tries > 0
    BY DEF Operations, Counted
  <2> QED BY <2>1 DEF Seals, OpOK
<1>3. ASSUME NEW e \in Attempts, call'[e].pc \in Paying, call'[e].seq = h.seq PROVE FALSE
  <2>1. e # a
    BY <1>3 DEF Seals, Paying
  <2>2. call[e].pc \in Paying /\ call[e].seq = h.seq
    BY <1>3, <2>1 DEF Seals, Others
  <2>3. <<call[e].hold, call[e].seq>> \in Blocks
    BY <2>2, NamesAre DEF In, Engaged
  <2>4. call[e].hold = h.n
    BY <1>1, <2>2, <2>3 DEF Distinct
  <2>5. h.ops[OpOf[e]].active >= 1 /\ h.ops[OpOf[e]].tries >= 1 /\ OpOf[e] \in Ops
    BY <2>2, <2>4, PayerActive, Parts
  <2>6. OpOf[e] \in Operations(h)
    BY <1>1, <2>5 DEF Operations, HeldOperation
  <2> QED BY <1>2, <2>5, <2>6
<1>4. ASSUME NEW b \in flight', b.seq = h.seq PROVE OpOf[b.attempt] \in d1'.receipts
  <2>1. b \in flight /\ d1' = d1 /\ OpOf[b.attempt] \in Ops
    BY Bounds DEF Seals, Typed, Batch
  <2>2. OpOf[b.attempt] \in Operations(h)
    BY <1>4, <2>1 DEF Sent, Operations
  <2> QED BY <1>2, <2>1, <2>2
<1>5. ASSUME NEW k \in entry'.holders, k.seq = h.seq PROVE k.sealed
  <2>1. ASSUME NEW j \in entry.holders, j.seq = h.seq PROVE j.n = h.n
    <3>1. <<j.n, j.seq>> \in Blocks
      BY NamesAre
    <3> QED BY <1>1, <2>1, <3>1 DEF Distinct
  <2> QED BY <1>5, <2>1 DEF Seals, Same
<1>6. alloc'.stage = "reserved" => alloc'.seq # h.seq
  <2>1. h.seq \in Named'
    <3>1. call'[a].pc \in Engaged /\ call'[a].seq = h.seq
      BY DEF Seals, Engaged, Recovering
    <3>2. <<call'[a].hold, call'[a].seq>> \in Blocks'
      BY <3>1 DEF Blocks, In
    <3>3. <<call'[a].hold, call'[a].seq>>[2] = h.seq
      BY <3>1
    <3> QED BY <3>2, <3>3 DEF Named
  <2> QED BY <2>1 DEF Fresh, Statuses
<1>7. Work(h.seq)' \subseteq Operations(h)
  BY DEF Work, Seals, Sized
<1> QED BY <1>3, <1>4, <1>5, <1>6, <1>7 DEF OverNext

\* The names of the attempts after a step, and the reservation to be installed.
LEMMA NamesNext ==
  ASSUME Fresh', NEW a \in Attempts, call'[a].pc \in Engaged
  PROVE  alloc'.stage = "reserved" => alloc'.seq # call'[a].seq
<1>1. <<call'[a].hold, call'[a].seq>> \in Blocks'
  BY DEF Blocks, In
<1>2. <<call'[a].hold, call'[a].seq>>[2] = call'[a].seq
  OBVIOUS
<1>3. call'[a].seq \in Named'
  BY <1>1, <1>2 DEF Named
<1> QED BY <1>3 DEF Fresh, Statuses

\* What is being recovered is over, and its operations are what it paid for.
LEMMA RecoveredKept ==
  ASSUME IInv, Typed, Effect, Fresh', Distinct, Counted, Sent, Sized, Settling,
         NEW a \in Attempts, call'[a].pc \in Recovering
  PROVE  OverNext(call'[a].seq) /\ Work(call[a].seq)' \subseteq call'[a].ops
<1>1. PICK s : s = call'[a].seq
  OBVIOUS
<1>2. alloc'.stage = "reserved" => alloc'.seq # s
  BY <1>1, NamesNext DEF Engaged
<1>3. CASE CallIdle(a)
  <2>1. call[a].pc \in Recovering /\ s = call[a].seq /\ call'[a].ops = call[a].ops
    BY <1>1, <1>3 DEF CallIdle, CallKept
  <2>2. a \in In(Recovering)
    BY <2>1 DEF In
  <2>3. Over(s) /\ Work(s) \subseteq call[a].ops
    BY <2>1, <2>2 DEF Settling
  <2>4. OverNext(s) /\ Work(s)' \subseteq call'[a].ops
    BY <1>2, <2>1, <2>3, OverKept
  <2> QED BY <1>1, <2>4 DEF Work
<1>4. ASSUME NEW h \in entry.holders, Seals(a, h)
      PROVE  OverNext(call'[a].seq) /\ Work(call[a].seq)' \subseteq call'[a].ops
  <2>1. s = h.seq /\ call'[a].ops = Operations(h)
    BY <1>1, <1>4 DEF Seals
  <2>2. OverNext(s) /\ Work(s)' \subseteq call'[a].ops
    BY <1>4, <2>1, SealedOver
  <2> QED BY <1>1, <2>2 DEF Work
<1>5. ASSUME NEW h \in entry.holders, Delivers(a, h) PROVE FALSE
  BY <1>5 DEF Delivers, Recovering
<1> QED BY <1>3, <1>4, <1>5, CallOrigins

\* A block that is over is not the one to be installed next.
LEMMA OverElsewhere ==
  ASSUME IInv, Typed, IInv', Effect, BooksEffect, Shaped', NEW g \in NewWork',
         g.status = "reconciled", Over(g.seq)
  PROVE  alloc'.stage = "reserved" => alloc'.seq # g.seq
<1>0. "reserved" \in Statuses
  BY DEF Statuses
<1>1. CASE AllocKept(alloc, alloc')
  BY <1>0, <1>1 DEF AllocKept, Over
<1>2. CASE Asks \/ Shrinks
  BY <1>2 DEF Asks, Shrinks
<1>3. ASSUME alloc.stage = "reserve", NEW j \in Grants', Allots(j), alloc'.stage = "reserved"
      PROVE  alloc'.seq # g.seq
  <2>1. j.status = "reserved" /\ alloc'.seq = j.seq
    BY <1>3 DEF Allots
  <2>2. j.seq = g.seq => j = g
    BY UniqueNext DEF NewWork
  <2> QED BY <2>1, <2>2
<1> QED BY <1>1, <1>2, <1>3 DEF BooksEffect

\* What was reconciled is over, and charged for its work.
LEMMA ReconciledKept ==
  ASSUME IInv, Typed, IInv', Effect, LedgerEffect, BooksEffect, Shaped', Settling,
         NEW g \in NewWork', g.status = "reconciled"
  PROVE  OverNext(g.seq) /\ \A d \in Dims : Envelope(Cardinality(Work(g.seq)'))[d] <= g.accounted[d]
<1>1. ASSUME NEW f \in NewWork, g.seq = f.seq, g.accounted = f.accounted, f.status = "reconciled"
      PROVE  OverNext(g.seq) /\ \A d \in Dims : Envelope(Cardinality(Work(g.seq)'))[d] <= g.accounted[d]
  <2>1. Over(g.seq) /\ \A d \in Dims : Envelope(Cardinality(Work(g.seq)))[d] <= g.accounted[d]
    BY <1>1 DEF Settling
  <2>2. OverNext(g.seq) /\ Work(g.seq)' \subseteq Work(g.seq)
    BY <2>1, OverElsewhere, OverKept
  <2>3. Work(g.seq) \subseteq Ops
    BY ClaimsFinite
  <2>4. Cardinality(Work(g.seq)') \in Nat /\ Cardinality(Work(g.seq)) \in Nat
        /\ \A d \in Dims : Envelope(Cardinality(Work(g.seq)'))[d] <= Envelope(Cardinality(Work(g.seq)))[d]
    BY <2>2, <2>3, FewerOperations
  <2>5. \A n \in Nat, d \in Dims : Envelope(n)[d] \in Nat
    BY EnvelopeType DEF Amounts
  <2>6. g.accounted \in Amounts
    BY UniqueNext DEF NewWork, Grant
  <2> QED BY <2>1, <2>2, <2>4, <2>5, <2>6 DEF Amounts
<1>2. ASSUME NEW a \in In({"rec-reconcile"}), Closes(a, g), g.purpose = "new-work"
      PROVE  OverNext(g.seq) /\ \A d \in Dims : Envelope(Cardinality(Work(g.seq)'))[d] <= g.accounted[d]
  <2>1. a \in In(Recovering) /\ a \in Attempts
    BY DEF In, Recovering
  <2>2. Over(g.seq) /\ Work(g.seq) \subseteq call[a].ops
        /\ g.accounted = Envelope(Cardinality(call[a].ops))
    BY <1>2, <2>1 DEF Settling, Closes
  <2>3. OverNext(g.seq) /\ Work(g.seq)' \subseteq Work(g.seq)
    BY <2>2, OverElsewhere, OverKept
  <2>4. call[a].ops \in SUBSET Ops
    BY <2>1, Parts DEF CallType
  <2> QED BY <2>2, <2>3, <2>4, FewerOperations
<1>3. ASSUME NEW f \in NewWork, g.seq = f.seq,
             \/ g.accounted = f.accounted /\ (g.status = "reconciled" <=> f.status = "reconciled")
             \/ \E a \in In({"rec-reconcile"}) : Closes(a, g)
      PROVE  OverNext(g.seq) /\ \A d \in Dims : Envelope(Cardinality(Work(g.seq)'))[d] <= g.accounted[d]
  BY <1>1, <1>2, <1>3 DEF NewWork
<1>4. ~Starts(g)
  BY DEF Starts
<1> QED BY <1>3, <1>4, BlockOrigins

\* The coordinator has what a recovery is about to mark.
LEMMA MarkedKept ==
  ASSUME IInv, Typed, IInv', Effect, LedgerEffect, Fresh, Shaped, Tracked, Settling,
         NEW a \in Attempts, call'[a].pc = "rec-mark",
         NEW g \in NewWork', g.seq = call'[a].seq
  PROVE  g.status = "reconciled"
<1>1. CallIdle(a)
  <2>1. ASSUME NEW h \in entry.holders, Delivers(a, h) \/ Seals(a, h) PROVE FALSE
    BY <2>1 DEF Delivers, Seals
  <2> QED BY <2>1, CallOrigins
<1>2. CASE call[a].pc = "rec-mark"
  <2>1. a \in In(Engaged) /\ a \in In({"rec-mark"}) /\ call'[a].seq = call[a].seq
    BY <1>1, <1>2 DEF CallIdle, CallKept, In, Engaged, Recovering
  <2>2. call[a].seq \in Named
    BY <2>1, NamesAre
  <2>3. ~Starts(g)
    BY <2>1, <2>2, StartsFresh
  <2>4. \A f \in NewWork : f.seq = call[a].seq => f.status = "reconciled"
    BY <2>1 DEF Settling
  <2> QED BY <2>1, <2>3, <2>4, BlockOrigins DEF Closes
<1> QED BY <1>1, <1>2 DEF CallIdle

LEMMA SettlingKept ==
  ASSUME IInv, Typed, MemoryInv, MemoryInv', ChargeInv, Shaped', StepOK
  PROVE  Settling'
<1>1. IInv' /\ Effect /\ LedgerEffect /\ BooksEffect
  BY DEF StepOK
<1>2. Fresh /\ Fresh' /\ Distinct /\ Counted /\ Sent /\ Shaped /\ Tracked /\ Sized /\ Settling
  BY DEF MemoryInv, ChargeInv
<1>3. \A s : OverNext(s) => Over(s)'
  BY DEF OverNext, Over, In
<1>4. \A a \in In(Recovering)' : OverNext(call'[a].seq) /\ Work(call[a].seq)' \subseteq call'[a].ops
  BY <1>1, <1>2, RecoveredKept DEF In
<1>5. \A a \in In(Recovering)' : Over(call[a].seq)'
  BY <1>4 DEF OverNext, Over, In
<1>6. \A g \in NewWork' : g.status = "reconciled" =>
        OverNext(g.seq) /\ \A d \in Dims : Envelope(Cardinality(Work(g.seq)'))[d] <= g.accounted[d]
  BY <1>1, <1>2, ReconciledKept
<1>7. \A a \in In({"rec-mark"})', g \in NewWork' : g.seq = call'[a].seq => g.status = "reconciled"
  BY <1>1, <1>2, MarkedKept DEF In
<1> QED BY <1>3, <1>4, <1>5, <1>6, <1>7 DEF Settling, Envelope

LEMMA ChargeKept ==
  ASSUME IInv, Typed, MemoryInv, MemoryInv', ChargeInv, StepOK
  PROVE  ChargeInv'
<1>1. IInv' /\ LedgerEffect /\ Shaped /\ Tracked /\ Sized /\ Settling /\ Fresh
  BY DEF StepOK, ChargeInv, MemoryInv
<1>2. Shaped'
  BY <1>1, ShapedKept
<1>3. Tracked'
  BY <1>1, TrackedKept
<1>4. Sized'
  BY <1>1, SizedKept
<1>5. Settling'
  BY <1>2, SettlingKept
<1> QED BY <1>2, <1>3, <1>4, <1>5 DEF ChargeInv

LEMMA InitCharge == AdmissionInit => ChargeInv
<1> SUFFICES ASSUME AdmissionInit PROVE ChargeInv
  OBVIOUS
<1>1. Grants = {} /\ NewWork = {}
  BY TenantType DEF AdmissionInit, Init, NewAggregate, NewLedger, Grants, NewWork
<1>2. entry.holders = {} /\ alloc.stage = "none" /\ d1.done = {} /\ flight = {}
      /\ \A a \in Attempts : call[a].pc = "new"
  BY DEF AdmissionInit, NoEntry, NoAlloc, NewJournal, NewCall
<1>3. In(Engaged) = {} /\ In(Recovering) = {} /\ In({"rec-mark"}) = {}
  BY <1>2 DEF In, Engaged, Paying, Recovering
<1>4. "none" \notin Statuses
  BY DEF Statuses
<1>5. Blocks = {}
  BY <1>2, <1>3 DEF Blocks
<1> QED BY <1>1, <1>2, <1>3, <1>4, <1>5 DEF ChargeInv, Shaped, Tracked, Sized, Settling

LEMMA ChargeInductive == AdmissionSpec => [](IInv /\ Typed /\ MemoryInv /\ ChargeInv)
<1> DEFINE Inv == IInv /\ Typed /\ MemoryInv /\ ChargeInv
<1>1. AdmissionInit => Inv
  BY InitMemory, InitCharge
<1>2. Inv /\ [AdmissionNext]_allVars => Inv'
  <2> SUFFICES ASSUME Inv, [AdmissionNext]_allVars PROVE Inv'
    OBVIOUS
  <2>1. StepOK
    BY NextStepOK, StutterOK DEF MemoryInv
  <2>2. MemoryInv' /\ IInv' /\ Typed'
    BY <2>1, MemoryKept DEF StepOK
  <2> QED BY <2>1, <2>2, ChargeKept
<1> QED BY <1>1, <1>2, PTL DEF AdmissionSpec

\* However a prepaid block ends, by closure, expiry or eviction, by answers
\* lost or batches that land late (budget-grant-recovery.service.ts,
\* ticket-mutation-replay.service.ts), what the coordinator keeps charged for
\* it covers its allocation and every operation D1 ever committed on it.
THEOREM WorkIsCharged == AdmissionSpec => []ChargeCoversWork
<1>1. IInv /\ Typed /\ ChargeInv => ChargeCoversWork
  <2> SUFFICES ASSUME IInv, Typed, ChargeInv, NEW g \in agg.ledger[1].grants, g.purpose = "new-work",
                      NEW d \in Dims
               PROVE  Envelope(Cardinality(Work(g.seq)))[d] <= g.accounted[d]
    BY DEF ChargeCoversWork
  <2>1. g \in NewWork
    BY DEF NewWork, Grants
  <2>2. CASE g.status = "reconciled"
    BY <2>1, <2>2 DEF ChargeInv, Settling
  <2>3. CASE g.status # "reconciled"
    <3>1. g.accounted = Envelope(g.key[2]) /\ g.key[2] \in Nat
      BY <2>1, <2>3, Bounds DEF ChargeInv, Shaped, NewWork
    <3>2. Cardinality(Work(g.seq)) \in Nat /\ Cardinality(Claims(g.seq)) \in Nat
          /\ Cardinality(Work(g.seq)) <= Cardinality(Claims(g.seq))
      BY ClaimsFinite, FewerOperations
    <3>3. Cardinality(Claims(g.seq)) <= g.key[2]
      BY <2>1 DEF ChargeInv, Sized
    <3>4. Cardinality(Work(g.seq)) <= g.key[2]
      BY <3>1, <3>2, <3>3
    <3> QED BY <3>1, <3>2, <3>4, CostGrows
  <2> QED BY <2>2, <2>3
<1> QED BY <1>1, ChargeInductive, PTL

-----------------------------------------------------------------------------
(* The refills of an entry.                                                *)

\* Block n may still be charged in full: it is granted and not settled, or in
\* memory, or being asked for.
Owed(n) ==
  \/ \E g \in NewWork : g.key[1] = n /\ g.status # "reconciled"
  \/ \E h \in entry.holders : h.n = n
  \/ alloc.stage # "none" /\ alloc.n = n

\* The blocks of the entry that are owed.
Debts == {n \in entry.first .. issued : Owed(n)}

\* An allocation under way is what its entry waits for, and nobody who was
\* woken clears it; every block owed has taken a refill.
Credits ==
  /\ alloc.stage # "none" =>
       /\ entry.live /\ entry.pending = alloc.n /\ entry.first <= alloc.n
       /\ \A a \in In({"woken"}) : call[a].pend # alloc.n
  /\ \A h \in entry.holders : entry.first <= h.n
  /\ entry.live => entry.first >= 1 /\ entry.first <= issued + 1 /\ Cardinality(Debts) <= entry.refills
  /\ ~entry.live => entry.holders = {}

\* The allocation goes on, or is over.
AllocOn == alloc'.stage # "none" => alloc.stage # "none" /\ alloc'.n = alloc.n

\* A block that is owed after a step was owed before, or is asked for by it.
LEMMA OwedFrom ==
  ASSUME IInv, Typed, IInv', Effect, LedgerEffect, NEW n, n \in Debts'
  PROVE  Owed(n) \/ (alloc'.stage # "none" /\ alloc'.n = n)
<1>1. ASSUME NEW g \in NewWork', g.key[1] = n, g.status # "reconciled" PROVE Owed(n)
  <2>1. CASE Starts(g)
    BY <1>1, <2>1 DEF Starts, Owed
  <2>2. ASSUME NEW f \in NewWork, g.key = f.key,
               \/ g.status = "reconciled" <=> f.status = "reconciled"
               \/ \E a \in In({"rec-reconcile"}) : Closes(a, g)
        PROVE  Owed(n)
    BY <1>1, <2>2 DEF Closes, Owed
  <2> QED BY <2>1, <2>2, BlockOrigins
<1>2. ASSUME NEW k \in entry'.holders, k.n = n PROVE Owed(n)
  BY <1>2, HolderOrigins DEF Installs, Owed
<1> QED BY <1>1, <1>2 DEF Debts, Owed

\* Intervals are finite.
LEMMA DebtsFinite ==
  ASSUME NEW i \in Nat, NEW j \in Nat, NEW S \in SUBSET (i .. j)
  PROVE  /\ IsFiniteSet(S) /\ Cardinality(S) \in Nat
         /\ \A T \in SUBSET S : IsFiniteSet(T) /\ Cardinality(T) \in Nat /\ Cardinality(T) <= Cardinality(S)
<1>1. IsFiniteSet(i .. j)
  BY FS_Interval
<1>2. IsFiniteSet(S)
  BY <1>1, FS_Subset
<1> QED BY <1>2, FS_Subset, FS_CardinalityType

\* The numbers are numbers.
LEMMA BookTypes ==
  ASSUME IInv, Typed
  PROVE  /\ entry.first \in Nat /\ entry.refills \in Nat /\ issued \in Nat
         /\ alloc.stage # "none" => alloc.n \in 1 .. issued
         /\ \A h \in entry.holders : h.n \in 1 .. issued
         /\ \A a \in Attempts : call[a].pend \in Nat /\ call[a].pend <= issued
<1>1. entry.first \in Nat /\ entry.refills \in Nat
  BY Parts, Bounds DEF EntryType
<1>2. \A h \in entry.holders : h.n \in 1 .. issued
  BY Parts DEF Holder, HolderOK
<1>3. \A a \in Attempts : call[a].pend \in Nat /\ call[a].pend <= issued
  BY Parts, Bounds DEF CallOK, CallType
<1> QED BY <1>1, <1>2, <1>3, Parts DEF Typed, AllocOK

LEMMA BookTypesNext ==
  ASSUME IInv', Typed'
  PROVE  /\ entry'.first \in Nat /\ entry'.refills \in Nat /\ issued' \in Nat
         /\ alloc'.stage # "none" => alloc'.n \in 1 .. issued'
         /\ \A h \in entry'.holders : h.n \in 1 .. issued'
<1>1. entry'.first \in Nat /\ entry'.refills \in Nat /\ issued' \in Nat
  BY Bounds DEF Typed, EntryOK, EntryType
<1>2. \A h \in entry'.holders : h.n \in 1 .. issued'
  BY DEF Typed, EntryOK, EntryType, Holder, HolderOK
<1> QED BY <1>1, <1>2 DEF Typed, AllocOK

\* The books while nothing new is asked for.
LEMMA BookedCredits ==
  ASSUME IInv, Typed, IInv', Typed', Effect, LedgerEffect, AllocOn, Booked, Credits
  PROVE  Credits'
<1>1. ASSUME alloc'.stage # "none"
      PROVE  /\ entry'.live /\ entry'.pending = entry.pending /\ entry'.first = entry.first
             /\ \A a \in Attempts : call'[a].pc = "woken" => call[a].pc = "woken" /\ call'[a].pend = call[a].pend
  <2>1. entry.live /\ entry.pending = alloc.n /\ entry.pending # 0
        /\ \A a \in In({"woken"}) : call[a].pend # entry.pending
    BY <1>1, BookTypes DEF AllocOn, Credits
  <2>2. entry'.live /\ entry'.pending = entry.pending /\ entry'.first = entry.first
    BY <1>1, <2>1 DEF Booked
  <2>3. \A a \in Attempts : call'[a].pc = "woken" => call[a].pc = "woken" /\ call'[a].pend = call[a].pend
    BY <1>1 DEF Booked
  <2> QED BY <2>2, <2>3
<1>2. ASSUME alloc'.stage # "none"
      PROVE  /\ entry'.live /\ entry'.pending = alloc'.n /\ entry'.first <= alloc'.n
             /\ \A a \in In({"woken"})' : call'[a].pend # alloc'.n
  BY <1>1, <1>2 DEF AllocOn, Credits, In
<1>3. ASSUME entry'.live = entry.live, entry'.first = entry.first, NEW k \in entry'.holders
      PROVE  entry.live /\ entry'.first <= k.n
  BY <1>3, HolderOrigins DEF Installs, Credits
<1>4. \A k \in entry'.holders : entry'.first <= k.n
  BY <1>3 DEF Booked
<1>5. ~entry'.live => entry'.holders = {}
  BY <1>3 DEF Booked
<1>6. ASSUME entry'.live
      PROVE  entry'.first >= 1 /\ entry'.first <= issued' + 1 /\ Cardinality(Debts') <= entry'.refills
  <2>0. issued' = issued
    BY DEF Booked
  <2>1. CASE entry.live /\ entry'.first = entry.first /\ entry'.refills >= entry.refills
    <3>1. Debts' \subseteq Debts
      <4>1. ASSUME NEW n \in Debts' PROVE n \in Debts
        <5>1. n \in entry.first .. issued
          BY <2>0, <2>1 DEF Debts
        <5>2. Owed(n)
          BY OwedFrom DEF AllocOn, Owed
        <5> QED BY <5>1, <5>2 DEF Debts
      <4> QED BY <4>1
    <3>2. Debts \in SUBSET (entry.first .. issued)
      BY DEF Debts
    <3>3. Cardinality(Debts') \in Nat /\ Cardinality(Debts) \in Nat /\ Cardinality(Debts') <= Cardinality(Debts)
      BY <3>1, <3>2, DebtsFinite, BookTypes
    <3> QED BY <2>0, <2>1, <3>3, BookTypes, BookTypesNext DEF Credits
  <2>2. CASE entry'.first = issued + 1
    <3>1. Debts' = {}
      BY <2>0, <2>2, BookTypes DEF Debts
    <3> QED BY <2>0, <2>2, <3>1, BookTypes, BookTypesNext, FS_EmptySet
  <2> QED BY <1>6, <2>1, <2>2 DEF Booked
<1> QED BY <1>2, <1>4, <1>5, <1>6 DEF Credits

\* A refill comes back for a block that was settled, and only then.
LEMMA ReturnedCredits ==
  ASSUME IInv, Typed, IInv', Typed', Effect, LedgerEffect, Fresh, Shaped, Tracked, Settling, Credits,
         AllocKept(alloc, alloc'), issued' = issued, Idle, NEW a \in Attempts, Returns(a)
  PROVE  Credits'
<1>1. PICK h \in entry.holders : h.n = call[a].hold
  BY DEF Returns
<1>2. a \in In({"rec-mark"}) /\ a \in In(Engaged)
  BY DEF Returns, In, Engaged, Recovering
<1> DEFINE m == h.n
<1>3. <<m, call[a].seq>> \in Blocks
  BY <1>1, <1>2, NamesAre
<1>4. ~Owed(m)'
  <2>1. ASSUME NEW g \in NewWork', g.key[1] = m PROVE g.status = "reconciled"
    <3>1. ~Starts(g)
      BY <1>3, <2>1, StartsFresh
    <3>2. ASSUME NEW f \in NewWork, f.key = g.key PROVE f.status = "reconciled"
      <4>1. BlockIs(m, call[a].seq)
        BY <1>3 DEF Tracked
      <4>2. f.seq = call[a].seq
        BY <2>1, <3>2, <4>1 DEF BlockIs
      <4> QED BY <1>2, <4>2 DEF Settling
    <3> QED BY <3>1, <3>2, BlockOrigins DEF Closes
  <2>2. \A k \in entry'.holders : k.n # m
    BY <1>1 DEF Returns
  <2>3. ASSUME alloc'.stage # "none" PROVE alloc'.n # m
    <3>1. alloc.stage # "none" /\ alloc'.n = alloc.n
      BY <2>3 DEF AllocKept
    <3> QED BY <1>3, <3>1 DEF Fresh
  <2> QED BY <2>1, <2>2, <2>3 DEF Owed
<1>5. AllocOn
  BY DEF AllocKept, AllocOn
<1>6. ASSUME alloc'.stage # "none"
      PROVE  /\ entry'.live /\ entry'.pending = alloc'.n /\ entry'.first <= alloc'.n
             /\ \A e \in In({"woken"})' : call'[e].pend # alloc'.n
  <2>1. entry.live /\ entry.pending = alloc.n /\ alloc.n \in 1 .. issued /\ alloc'.n = alloc.n
    BY <1>5, <1>6, BookTypes DEF AllocOn, Credits
  <2>2. entry.pending # 0 /\ entry.first <= alloc.n /\ \A e \in In({"woken"}) : call[e].pend # alloc.n
    BY <1>5, <1>6, <2>1 DEF AllocOn, Credits
  <2>3. entry'.live /\ entry'.pending = entry.pending /\ entry'.first = entry.first
    BY <2>1, <2>2 DEF Returns
  <2>4. \A e \in In({"woken"})' : call'[e].pend # alloc.n
    BY <2>2 DEF Returns, In
  <2> QED BY <2>1, <2>2, <2>3, <2>4
<1>7. \A k \in entry'.holders : entry'.first <= k.n
  BY DEF Returns, Idle, HoldersKept, Same, Credits
<1>8. ~entry'.live => entry'.holders = {}
  BY <1>1 DEF Returns, Credits
<1>9. ASSUME entry'.live
      PROVE  entry'.first >= 1 /\ entry'.first <= issued' + 1 /\ Cardinality(Debts') <= entry'.refills
  <2>1. entry.live /\ entry'.first = entry.first /\ entry'.refills + 1 >= entry.refills
    BY <1>9 DEF Returns
  <2>2. Debts' \subseteq Debts \ {m}
    <3>1. ASSUME NEW n \in Debts' PROVE n \in Debts /\ n # m
      <4>1. n \in entry.first .. issued
        BY <2>1 DEF Debts
      <4>2. Owed(n)
        BY <1>5, OwedFrom DEF AllocOn, Owed
      <4>3. Owed(n)'
        BY DEF Debts
      <4> QED BY <1>4, <4>1, <4>2, <4>3 DEF Debts, Owed
    <3> QED BY <3>1
  <2>3. Debts \in SUBSET (entry.first .. issued) /\ m \in Debts
    BY BookTypes DEF Debts, Owed, Credits
  <2> HIDE DEF m
  <2>4. IsFiniteSet(Debts)
    BY <2>3, DebtsFinite, BookTypes
  <2>5. IsFiniteSet(Debts \ {m}) /\ Cardinality(Debts \ {m}) = Cardinality(Debts) - 1
    BY <2>3, <2>4, FS_RemoveElement
  <2>6. Cardinality(Debts') <= Cardinality(Debts) - 1 /\ Cardinality(Debts') \in Nat /\ Cardinality(Debts) \in Nat
    BY <2>2, <2>4, <2>5, FS_Subset, FS_CardinalityType
  <2> QED BY <2>1, <2>6, BookTypes, BookTypesNext DEF Credits
<1> QED BY <1>6, <1>7, <1>8, <1>9 DEF Credits

\* Whoever asks for a block takes a refill.
LEMMA AskedCredits ==
  ASSUME IInv, Typed, IInv', Typed', Effect, LedgerEffect, Credits, Idle, Asks
  PROVE  Credits'
<1>1. issued' = issued + 1 /\ alloc'.n = issued' /\ entry'.live /\ entry'.pending = issued' /\ issued \in Nat
  BY BookTypes DEF Asks
<1>2. entry'.first <= issued' /\ entry'.first >= 1
  BY <1>1, BookTypes DEF Asks, Credits
<1>3. \A a \in In({"woken"})' : call'[a].pend # alloc'.n
  BY <1>1, BookTypes DEF Asks, In
<1>4. \A k \in entry'.holders : entry'.first <= k.n
  BY DEF Asks, Idle, HoldersKept, Same, Credits
<1>5. Cardinality(Debts') <= entry'.refills
  <2>1. CASE entry.live /\ entry'.first = entry.first /\ entry'.refills = entry.refills + 1
    <3>1. Debts' \subseteq Debts \cup {issued'}
      <4>1. ASSUME NEW n \in Debts' PROVE n \in Debts \/ n = issued'
        <5>1. n \in entry.first .. issued + 1
          BY <1>1, <2>1 DEF Debts
        <5>2. Owed(n) \/ n = issued'
          BY <1>1, OwedFrom
        <5> QED BY <1>1, <5>1, <5>2 DEF Debts
      <4> QED BY <4>1
    <3>2. Debts \in SUBSET (entry.first .. issued)
      BY DEF Debts
    <3>3. IsFiniteSet(Debts) /\ Cardinality(Debts) \in Nat
      BY <3>2, DebtsFinite, BookTypes
    <3>4. IsFiniteSet(Debts \cup {issued'}) /\ Cardinality(Debts \cup {issued'}) <= Cardinality(Debts) + 1
      BY <3>3, FS_AddElement
    <3>5. Cardinality(Debts') <= Cardinality(Debts) + 1
      BY <3>1, <3>3, <3>4, FS_Subset, FS_CardinalityType
    <3>6. Cardinality(Debts') \in Nat
      BY <3>1, <3>4, FS_Subset, FS_CardinalityType
    <3> QED BY <2>1, <3>3, <3>5, <3>6, BookTypes DEF Credits
  <2>2. CASE entry'.first = issued' /\ entry'.refills >= 1
    <3>1. Debts' \subseteq {issued'}
      BY <1>1, <2>2 DEF Debts
    <3>2. Cardinality({issued'}) = 1 /\ IsFiniteSet({issued'})
      BY FS_Singleton
    <3>3. Cardinality(Debts') <= 1 /\ Cardinality(Debts') \in Nat
      BY <3>1, <3>2, FS_Subset, FS_CardinalityType
    <3> QED BY <2>2, <3>3, BookTypesNext
  <2> QED BY <2>1, <2>2 DEF Asks
<1>6. entry'.first <= alloc'.n /\ entry'.first <= issued' + 1 /\ entry'.pending = alloc'.n
  BY <1>1, <1>2, BookTypesNext
<1> QED BY <1>1, <1>2, <1>3, <1>4, <1>5, <1>6 DEF Credits

LEMMA CreditsKept ==
  ASSUME IInv, Typed, MemoryInv, ChargeInv, Credits, StepOK
  PROVE  Credits'
<1>1. IInv' /\ Typed' /\ Effect /\ LedgerEffect /\ BooksEffect
  BY DEF StepOK
<1>2. Fresh /\ Shaped /\ Tracked /\ Settling
  BY DEF MemoryInv, ChargeInv
<1>3. ASSUME AllocKept(alloc, alloc') PROVE AllocOn
  BY <1>3 DEF AllocKept, AllocOn
<1>4. ASSUME alloc.stage = "reserve", Shrinks \/ \E g \in Grants' : Allots(g) PROVE AllocOn
  BY <1>4 DEF AllocOn, Shrinks, Allots
<1>5. CASE Booked /\ AllocOn
  BY <1>1, <1>5, BookedCredits
<1>6. CASE Idle /\ Asks
  BY <1>1, <1>6, AskedCredits
<1>7. CASE AllocKept(alloc, alloc') /\ issued' = issued /\ Idle /\ \E a \in Attempts : Returns(a)
  BY <1>1, <1>2, <1>7, ReturnedCredits
<1> QED BY <1>1, <1>3, <1>4, <1>5, <1>6, <1>7 DEF BooksEffect

LEMMA InitCredits == AdmissionInit => Credits
<1> SUFFICES ASSUME AdmissionInit PROVE Credits
  OBVIOUS
<1>1. ~entry.live /\ entry.holders = {} /\ alloc.stage = "none"
  BY DEF AdmissionInit, NoEntry, NoAlloc
<1> QED BY <1>1 DEF Credits

\* An entry that is live has taken a refill for each of its blocks that the
\* coordinator still charges in full: completeApiGrantRecovery gives one back
\* only for a block that was reconciled, and only once, so that no sequence of
\* refills, expiries and recoveries leaves more unreconciled blocks than
\* MAX_ISOLATE_SCOPE_REFILLS allows.
THEOREM BlocksWithinRefills == AdmissionSpec => []RefillsCoverBlocks
<1> DEFINE Inv == IInv /\ Typed /\ MemoryInv /\ ChargeInv /\ Credits
<1>1. AdmissionInit => Inv
  BY InitMemory, InitCharge, InitCredits
<1>2. Inv /\ [AdmissionNext]_allVars => Inv'
  <2> SUFFICES ASSUME Inv, [AdmissionNext]_allVars PROVE Inv'
    OBVIOUS
  <2>1. StepOK
    BY NextStepOK, StutterOK DEF MemoryInv
  <2>2. MemoryInv' /\ IInv' /\ Typed'
    BY <2>1, MemoryKept DEF StepOK
  <2> QED BY <2>1, <2>2, ChargeKept, CreditsKept
<1>3. Inv => RefillsCoverBlocks
  <2> SUFFICES ASSUME Inv, entry.live PROVE Cardinality(UnreconciledBlocks) <= entry.refills
    BY DEF RefillsCoverBlocks
  <2> DEFINE U == UnreconciledBlocks
             number == [g \in U |-> g.key[1]]
  <2>1. \A g \in U : g \in NewWork /\ g.key[1] \in 1 .. issued /\ g.key[1] >= entry.first
                     /\ g.status # "reconciled"
    BY DEF UnreconciledBlocks, NewWork, Grants, MemoryInv, Fresh
  <2>2. \A g \in U : g.key[1] \in Debts
    BY <2>1, BookTypes DEF Debts, Owed
  <2>3. \A g, h \in U : g.key[1] = h.key[1] => g = h
    BY <2>1 DEF ChargeInv, Tracked
  <2> HIDE DEF U
  <2>4. number \in Injection(U, Debts)
    BY <2>2, <2>3 DEF Injection, IsInjective
  <2>5. IsFiniteSet(Debts) /\ Cardinality(Debts) \in Nat
    <3>1. Debts \in SUBSET (entry.first .. issued)
      BY DEF Debts
    <3> QED BY <3>1, DebtsFinite, BookTypes
  <2> HIDE DEF number
  <2>6. IsFiniteSet(U) /\ Cardinality(U) <= Cardinality(Debts)
    BY <2>4, <2>5, FS_Injection
  <2>7. Cardinality(U) \in Nat
    BY <2>6, FS_CardinalityType
  <2> QED BY <2>5, <2>6, <2>7, BookTypes DEF Credits, U
<1> QED BY <1>1, <1>2, <1>3, PTL DEF AdmissionSpec

=============================================================================
