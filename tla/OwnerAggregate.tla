--------------------------- MODULE OwnerAggregate ---------------------------
(***************************************************************************)
(* The budget coordinator: BudgetCoordinatorDO                             *)
(* (src/apps/server/src/durable_objects/BudgetCoordinatorDO.ts) over the   *)
(* pure transitions of src/apps/server/src/budgets/owner-aggregate.ts.     *)
(* One Durable Object holds the deployment's ingress ledger and one ledger *)
(* per tenant, all drawing on the same owner allocations.                  *)
(*                                                                         *)
(* An action is one RPC: the object reads its storage, computes and writes *)
(* without awaiting anything else, so its input gate makes it atomic.  An  *)
(* RPC that throws writes nothing and is not a step.  The Workers that     *)
(* call it read D1 and the time before they call, and any number of calls  *)
(* may reach the object in between: the revision and the time a call       *)
(* carries may both be old.                                                *)
(***************************************************************************)
EXTENDS BudgetLedger, Sequences

CONSTANTS
  NumTenants,    \* tenants sharing the owner allocation
  Authority,     \* the authority D1 holds at each revision it publishes
  MaxAge,        \* authority_max_age_ms: how long an authority read may serve
  Skew,          \* how old the time carried by a call may be
  Demand,        \* Ledgers -> what callers reserve: [key, purpose, envelope]
  AnonDemand,    \* what unverified ingress reserves
  Observations,  \* totals that terminal evidence reports
  Proofs,        \* kinds of evidence: "measured", "certified", "expired"
  Handoffs,      \* calls that hand ingress work over: "single", "batch"
  AnonLimit,     \* unverified admissions per window
  AnonWindow,    \* length of that window
  MaxTransfers,  \* transfers settled by one batch handoff
  StaleRetries,  \* may a caller use an identity whose grant was closed and expired?
  MaxTime,       \* bound on the clock
  MaxGrants      \* bound on the grants of one ledger

Ingress == 0
Tenants == 1 .. NumTenants
Ledgers == {Ingress} \cup Tenants
Revisions == 1 .. Len(Authority)

AuthorityRecord == [revoked : BOOLEAN, policies : [Ledgers -> Policy]]

SameTerms(p, q) == p.revision = q.revision /\ p.restriction = q.restriction

\* D1 guarantees: revisions only grow, a change has a new revision, a tenant
\* derives from the owner policy and only lowers its limits.
ASSUME AuthorityAssumption ==
  /\ NumTenants \in Nat
  /\ Authority \in Seq(AuthorityRecord) /\ Len(Authority) >= 1
  /\ ~Authority[1].revoked
  /\ \A r \in Revisions, l \in Ledgers :
       LET own == Authority[r].policies[l]
           owner == Authority[r].policies[Ingress]
       IN /\ own.revision = owner.revision
          /\ own.lifetime <= owner.lifetime
          /\ MaxAge <= owner.lifetime
          /\ \A d \in Dims : /\ own.budgets[d].alloc = owner.budgets[d].alloc
                             /\ AllocInfo[own.budgets[d].alloc].dim = d
                             /\ \A p \in Purposes :
                                  own.budgets[d].limit[p] <= owner.budgets[d].limit[p]
          /\ r + 1 \in Revisions =>
               LET new == Authority[r + 1].policies[l]
               IN /\ own.revision <= new.revision
                  /\ own.restriction <= new.restriction
                  /\ SameTerms(own, new) => own = new
  /\ \A r \in Revisions : Authority[r].policies[Ingress].restriction = 1

Wanted == [key : Keys, purpose : Purposes, envelope : Amounts \ {Nothing}]

ASSUME LimitAssumption ==
  /\ MaxAge \in Nat \ {0} /\ Skew \in Nat /\ MaxTime \in Nat /\ MaxGrants \in Nat
  /\ AnonLimit \in Nat \ {0} /\ AnonWindow \in Nat \ {0} /\ MaxTransfers \in Nat
  /\ Demand \in [Ledgers -> SUBSET Wanted] /\ AnonDemand \subseteq Wanted
  /\ Observations \subseteq Amounts
  /\ StaleRetries \in BOOLEAN

VARIABLES
  clock,      \* the present
  published,  \* when each authority revision was published in D1
  agg,        \* the stored BudgetOwnerAggregateState
  anon        \* the stored count of unverified admissions

vars == <<clock, published, agg, anon>>

Aggregate == [ledger : [Ledgers -> Ledger], revision : Nat, checkedAt : Nat,
              expiresAt : Nat, blocked : BOOLEAN]

TypeOK ==
  /\ clock \in Nat
  /\ published \in Seq(Nat)
  /\ agg \in Aggregate
  /\ anon \in [window : Nat, count : Nat]

-----------------------------------------------------------------------------
(* The transitions of owner-aggregate.ts on an aggregate S.                *)

NewAggregate(r, at) ==
  [ledger |-> [l \in Ledgers |-> NewLedger(Authority[r].policies[l])],
   revision |-> r, checkedAt |-> at, expiresAt |-> at + MaxAge, blocked |-> FALSE]

Defective(S) == \E l \in Ledgers : S.ledger[l].defect

WithLedger(S, l, L) == [S EXCEPT !.ledger[l] = L]

ExpireAll(S, now) ==
  [S EXCEPT !.ledger = [l \in Ledgers |-> Expire(S.ledger[l], now)]]

\* The first expired new-work grant, by ledger and then by age, is closed
\* without evidence and stays fully charged.
RetireOne(S, now) ==
  LET found == {l \in Ledgers : Retirable(S.ledger[l], now) # {}}
  IN IF Defective(S) \/ found = {}
     THEN S
     ELSE LET l == Earliest(found)
              g == CHOOSE h \in Retirable(S.ledger[l], now) :
                     \A k \in Retirable(S.ledger[l], now) : h.seq <= k.seq
          IN WithLedger(S, l, Compact(S.ledger[l], [g EXCEPT !.status = "uncertain"], now))

\* A call retires at most two.  (The set holds one state: quantifying over it
\* makes TLC evaluate that state once.)
RetireExpired(S, now) == {RetireOne(T, now) : T \in {RetireOne(S, now)}}

\* A new revision fences the ledgers whose terms it changes and renews the
\* lease; the same revision renews the lease of an aggregate that is not blocked.
Renew(S, r, at) ==
  LET policies == Authority[r].policies
  IN [S EXCEPT
       !.ledger = [l \in Ledgers |->
         IF SameTerms(policies[l], S.ledger[l].policy) THEN S.ledger[l]
         ELSE Adopt(S.ledger[l], policies[l], at)],
       !.revision = r, !.checkedAt = at, !.expiresAt = at + MaxAge,
       !.blocked = S.blocked /\ r = S.revision]

\* Mutant of Renewable: an older authority still renews the lease.
RenewableBackwards(S, r, at) ==
  ~Authority[r].revoked /\ (r = S.revision => at >= S.checkedAt)

\* The call does not throw.
Renewable(S, r, at) ==
  /\ ~Authority[r].revoked
  /\ r >= S.revision
  /\ r = S.revision => at >= S.checkedAt

Revoked(S, r, at) ==
  [S EXCEPT !.revision = r, !.checkedAt = at, !.expiresAt = at, !.blocked = TRUE]

\* Mutant of OwnerUnits: the ingress ledger does not count.
TenantUnits(S, a, p) ==
  UNION {{l} \X (OpenUnits(S.ledger[l], a, p) \cup ClosedUnits(S.ledger[l], a, p)) :
           l \in Tenants}

\* The charge of every ledger on the owner's allocation a.
OwnerUnits(S, a, p) ==
  UNION {{l} \X (OpenUnits(S.ledger[l], a, p) \cup ClosedUnits(S.ledger[l], a, p)) :
           l \in Ledgers}

OwnerAffordable(S, l, req) ==
  \A d \in Demanded(req) :
    LET owner == S.ledger[Ingress].policy.budgets[d]
    IN /\ S.ledger[l].policy.budgets[d].alloc = owner.alloc
       /\ Cardinality(OwnerUnits(S, owner.alloc, req.purpose)) + req.envelope[d]
            <= owner.limit[req.purpose]

\* Grants of all ledgers, tagged with their ledger.
OpenGrants(S) == UNION {{l} \X Open(S.ledger[l]) : l \in Ledgers}
OpenNewWork(S) == {o \in OpenGrants(S) : o[2].purpose = "new-work"}
RetainedGrants(S) == UNION {{l} \X S.ledger[l].grants : l \in Ledgers}

\* Mutant of OwnerSlotFree: new work may take the last slot.
OwnerSlotFreeOffByOne(S, req) ==
  /\ Cardinality(OpenGrants(S)) < MaxReservations
  /\ req.purpose = "new-work" => Cardinality(OpenNewWork(S)) <= MaxReservations - 1
  /\ Cardinality(RetainedGrants(S)) < MaxRetained

OwnerSlotFree(S, req) ==
  /\ Cardinality(OpenGrants(S)) < MaxReservations
  /\ req.purpose = "new-work" => Cardinality(OpenNewWork(S)) < MaxReservations - 1
  /\ Cardinality(RetainedGrants(S)) < MaxRetained

LeaseHeld(S, now) == ~S.blocked /\ now < S.expiresAt

\* Mutant of OwnerGrantable: only the ledger's own defects count.
GrantableDespiteDefect(S, l, req) == OwnerSlotFree(S, req) /\ OwnerAffordable(S, l, req)

OwnerGrantable(S, l, req) ==
  ~Defective(S) /\ OwnerSlotFree(S, req) /\ OwnerAffordable(S, l, req)

\* Mutant of ReserveNew: the grant is not clipped to the lease.
ReserveUnclipped(S, l, req) ==
  IF OwnerGrantable(S, l, req)
  THEN WithLedger(S, l, Reserve(S.ledger[l], req, {}))
  ELSE S

\* The owner's checks, then the ledger's own, on an expired aggregate.
ReserveNew(S, l, req) ==
  IF OwnerGrantable(S, l, req)
  THEN WithLedger(S, l, Reserve(S.ledger[l], req, {S.expiresAt}))
  ELSE S

\* reserveOwnerAggregate.  A stale request, or one whose identity is known
\* before expiry, goes straight to the tenant's ledger.
ReserveTenant(S, l, req) ==
  LET expired == Expire(S.ledger[l], req.now)
  IN IF ~LeaseHeld(S, req.now) THEN WithLedger(S, l, expired)
     ELSE IF Stale(S.ledger[l], req) \/ Prior(S.ledger[l], req) # {}
     THEN WithLedger(S, l, Reserve(expired, req, {}))
     ELSE ReserveNew(ExpireAll(S, req.now), l, req)

\* reserveOwnerIngress looks for the identity after expiry.
ReserveOnIngress(S, req) ==
  LET E == ExpireAll(S, req.now)
      L == E.ledger[Ingress]
  IN IF ~LeaseHeld(S, req.now) THEN E
     ELSE IF Stale(L, req) \/ Prior(L, req) # {}
     THEN WithLedger(E, Ingress, Reserve(L, req, {}))
     ELSE ReserveNew(E, Ingress, req)

\* reserveBudgetGrant throws on an identity used for something else.
Throws(S, l, req) ==
  LeaseHeld(S, req.now) /\ Conflicts(Expire(S.ledger[l], req.now), req)

Granted(S, T, l) == T.ledger[l].next > S.ledger[l].next

\* The grant numbered s of ledger l, if that evidence closes it at ev.now.
ClosedBy(S, l, s, ev) ==
  {g \in Expire(S.ledger[l], ev.now).grants :
     g.seq = s /\ Closable(Expire(S.ledger[l], ev.now), g, ev)}

\* reconcileOwnerAggregate and reconcileOwnerIngress.
CloseGrant(S, l, s, ev) ==
  LET expired == Expire(S.ledger[l], ev.now)
      closing == ClosedBy(S, l, s, ev)
  IN WithLedger(S, l, IF closing = {} THEN expired
                      ELSE Reconcile(expired, CHOOSE g \in closing : TRUE, ev))

-----------------------------------------------------------------------------
(* handoffOwnerIngress moves the ingress grant s to tenant l: the ingress  *)
(* grant closes at no charge, an equal tenant grant is reserved and closed *)
(* at its full charge, in one state.                                       *)

\* A certificate that closes grant g as having spent what was observed.
Certificate(g, observed, now) ==
  [key |-> g.key, observed |-> observed, certified |-> TRUE, acknowledges |-> FALSE,
   recovery |-> 0, now |-> now]

MovedRequest(g, policy, restriction, now) ==
  [key |-> g.key, purpose |-> g.purpose, recovers |-> 0, envelope |-> g.envelope,
   policy |-> policy, restriction |-> restriction, now |-> now]

HandoffStates(S, l, g, terms, now) ==
  LET ev == Certificate(g, Nothing, now)
      req == MovedRequest(g, terms.revision, terms.restriction, now)
      closed == CloseGrant(S, Ingress, g.seq, ev)
      reserved == ReserveTenant(closed, l, req)
      s == closed.ledger[l].next
      full == Certificate(g, g.envelope, now)
  IN IF /\ SameTerms(terms, S.ledger[l].policy)
        /\ ClosedBy(S, Ingress, g.seq, ev) # {}
        /\ Granted(closed, reserved, l)
        /\ ClosedBy(reserved, l, s, full) # {}
     THEN {CloseGrant(reserved, l, s, full)}
     ELSE {}

\* A delivered handoff repeated: both ledgers only expire.
HandoffRepeated(S, l, g, now) ==
  IF /\ g.status = "reconciled"
     /\ \E h \in S.ledger[l].grants : SameIdentity(h, g) /\ h.status = "reconciled"
  THEN {[S EXCEPT !.ledger[Ingress] = Expire(@, now), !.ledger[l] = Expire(@, now)]}
  ELSE {}

(* handoffOwnerIngressBatch closes an ingress block for what was not moved *)
(* to tenants; each move must be prepaid twice by an open tenant grant.    *)

Moved(transfers, d) ==
  Cardinality(UNION {{i} \X (1 .. transfers[i].envelope[d]) : i \in DOMAIN transfers})

Prepaid(S, t) ==
  /\ SameTerms(t, S.ledger[t.ledger].policy)
  /\ \E g \in Open(S.ledger[t.ledger]) :
       g.seq = t.seq /\ \A d \in Dims : 2 * t.envelope[d] <= g.envelope[d]

BatchStates(S, g, transfers, now) ==
  LET left == [d \in Dims |-> g.envelope[d] - Moved(transfers, d)]
      ev == Certificate(g, left, now)
      closed == CloseGrant(S, Ingress, g.seq, ev)
  IN IF /\ \A d \in Dims : left[d] >= 0
        /\ ClosedBy(S, Ingress, g.seq, ev) # {}
        /\ \A i \in DOMAIN transfers : Prepaid(closed, transfers[i])
     THEN {closed}
     ELSE {}
-----------------------------------------------------------------------------
(* What callers send.                                                      *)

Times == {t \in 0 .. clock : t + Skew >= clock}

Known == 1 .. Len(published)

\* A read begun at time "at" may return revision r.
Readable(r, at) ==
  /\ at \in Times
  /\ r \in Known
  /\ r + 1 \in Known => at <= published[r + 1]

\* The grant that has the identity was closed and has expired.
Late(L, req) ==
  \E g \in Prior(L, req) : g.compacted /\ g.status = "reconciled" /\ req.now >= g.expiresAt

\* Reservations at ledger l by a call of time now, under the terms of some
\* authority read, fresh or not.  Recovery may name the grant it recovers.
Requests(l, wanted, now) ==
  {req \in {[key |-> w.key, purpose |-> w.purpose, envelope |-> w.envelope,
            recovers |-> s, policy |-> Authority[r].policies[l].revision,
            restriction |-> Authority[r].policies[l].restriction, now |-> now] :
             w \in wanted, s \in {0} \cup {g.seq : g \in agg.ledger[l].grants},
             r \in {k \in Known : ~Authority[k].revoked}} :
     /\ req.purpose = "new-work" => req.recovers = 0
     /\ StaleRetries \/ ~Late(agg.ledger[l], req)}

\* Evidence about the grant g: its use, measured or certified, alone or with
\* the recovery grant that settled it; or an acknowledgement of its expiry.
\* Evidence that reconcileBudgetGrant rejects only expires the ledger.
Evidence(l, g, now) ==
  {[key |-> k.key, observed |-> IF proof = "expired" THEN g.envelope ELSE o,
    certified |-> proof # "measured", acknowledges |-> proof = "expired",
    recovery |-> IF k = g \/ proof = "measured" THEN 0 ELSE k.seq, now |-> now] :
     proof \in Proofs, o \in Observations,
     k \in {g} \cup {h \in agg.ledger[l].grants : h.recovers = g.seq}}

Roomy(l) == agg.ledger[l].next <= MaxGrants

-----------------------------------------------------------------------------
(* Actions.                                                                *)

Init ==
  /\ clock = 0
  /\ published = <<0>>
  /\ agg = NewAggregate(1, 0)
  /\ anon = [window |-> 0, count |-> 0]

Tick ==
  /\ clock < MaxTime
  /\ clock' = clock + 1
  /\ UNCHANGED <<published, agg, anon>>

\* The owner publishes the next authority revision in D1.
Publish ==
  /\ Len(published) < Len(Authority)
  /\ published' = Append(published, clock)
  /\ UNCHANGED <<clock, agg, anon>>

Env == UNCHANGED <<clock, published>>

RefreshRPC(r, at) ==
  /\ Readable(r, at)
  /\ Renewable(agg, r, at)
  /\ \E R \in {Renew(agg, r, at)} : agg' \in RetireExpired(R, at)
  /\ Env /\ UNCHANGED anon

RevokeRPC(r, at) ==
  /\ Readable(r, at)
  /\ Authority[r].revoked
  /\ r >= agg.revision /\ at >= agg.checkedAt
  /\ agg' = Revoked(agg, r, at)
  /\ Env /\ UNCHANGED anon

\* A grant that would not leave storage headroom is refused: only what
\* retirement did is written.
ReserveRPC(l, req) ==
  /\ Roomy(l)
  /\ \E S \in RetireExpired(agg, req.now) : \E T \in {ReserveTenant(S, l, req)} :
       /\ ~Throws(S, l, req)
       /\ agg' = T \/ (Granted(S, T, l) /\ agg' = S)
  /\ Env /\ UNCHANGED anon

ReserveIngressRPC(req) ==
  /\ Roomy(Ingress)
  /\ ~Throws(agg, Ingress, req)
  /\ \E T \in {ReserveOnIngress(agg, req)} :
       agg' = T \/ (Granted(agg, T, Ingress) /\ agg' = agg)
  /\ Env /\ UNCHANGED anon

\* Mutant of WindowOf: the window start is not rounded down.
WindowExact(now) == now

WindowOf(now) == now \div AnonWindow

Admitted(now) == IF anon.window = WindowOf(now) THEN anon.count ELSE 0

\* Refresh, count against the window and reserve, all or nothing: a rejection
\* writes nothing.  A replay of a known identity is not counted again.
ReserveUnverifiedRPC(r, req) ==
  LET R == Renew(agg, r, req.now)
      T == ReserveOnIngress(R, req)
      replay == Prior(R.ledger[Ingress], req) # {}
  IN /\ Readable(r, req.now)
     /\ Renewable(agg, r, req.now)
     /\ Roomy(Ingress)
     /\ replay \/ Admitted(req.now) < AnonLimit
     /\ ~Throws(R, Ingress, req)
     /\ LeaseHeld(R, req.now)
     /\ \/ Granted(R, T, Ingress)
        \/ Redeliverable(Expire(R.ledger[Ingress], req.now), req)
     /\ agg' = T
     /\ anon' = [window |-> WindowOf(req.now),
                 count |-> Admitted(req.now) + IF replay THEN 0 ELSE 1]
     /\ Env

\* reconcileFromTrustedAuthority, and reconcileIngressFromTrustedAuthority for
\* the ingress ledger.
ReconcileRPC(l, s, ev) ==
  /\ agg' = CloseGrant(agg, l, s, ev)
  /\ Env /\ UNCHANGED anon

\* A rejected handoff still writes the refreshed authority.
HandoffRPC(r, l, g, now) ==
  LET R == Renew(agg, r, now)
      terms == Authority[r].policies[l]
  IN /\ Readable(r, now)
     /\ Renewable(agg, r, now)
     /\ Roomy(l)
     /\ agg' \in {R} \cup HandoffRepeated(R, l, g, now)
                \cup {T \in HandoffStates(R, l, g, terms, now) :
                        StaleRetries \/ ~Late(R.ledger[l], MovedRequest(g, terms.revision,
                                                                        terms.restriction, now))}
     /\ Env /\ UNCHANGED anon

\* A repeated settlement only expires the ingress ledger.
HandoffBatchRPC(g, transfers, now) ==
  /\ agg' \in BatchStates(agg, g, transfers, now) \cup
       {U \in {WithLedger(agg, Ingress, Expire(agg.ledger[Ingress], now))} : g.status = "reconciled"}
  /\ Env /\ UNCHANGED anon

\* Moves an ingress block settled under authority r may name.
Transfers(r) ==
  LET Transfer == {t \in [ledger : Tenants, seq : 1 .. MaxGrants,
                          envelope : {w.envelope : w \in Demand[Ingress]},
                          revision : {Authority[r].policies[l].revision : l \in Tenants},
                          restriction : {Authority[r].policies[l].restriction : l \in Tenants}] :
                     SameTerms(t, Authority[r].policies[t.ledger])}
  IN UNION {[1 .. n -> Transfer] : n \in 0 .. MaxTransfers}

\* The object handles a call that carries the time now: one a verified tenant,
\* or the deployment itself, makes, or an unverified reservation.
VerifiedCall(now) ==
  \/ \E r \in Revisions : RefreshRPC(r, now)
  \/ \E r \in Revisions : RevokeRPC(r, now)
  \/ \E l \in Tenants : \E req \in Requests(l, Demand[l], now) : ReserveRPC(l, req)
  \/ \E req \in Requests(Ingress, Demand[Ingress], now) : ReserveIngressRPC(req)
  \/ \E l \in Ledgers : \E g \in agg.ledger[l].grants :
       \E ev \in Evidence(l, g, now) : ReconcileRPC(l, g.seq, ev)
  \/ \E r \in Revisions, l \in Tenants, g \in agg.ledger[Ingress].grants :
       "single" \in Handoffs /\ HandoffRPC(r, l, g, now)
  \/ \E g \in agg.ledger[Ingress].grants, r \in Known :
       \E transfers \in Transfers(r) :
         "batch" \in Handoffs /\ HandoffBatchRPC(g, transfers, now)

UnverifiedCall(now) ==
  \E r \in Revisions, req \in Requests(Ingress, AnonDemand, now) : ReserveUnverifiedRPC(r, req)

Next == Tick \/ Publish \/ \E now \in Times : VerifiedCall(now) \/ UnverifiedCall(now)

Spec == Init /\ [][Next]_vars

-----------------------------------------------------------------------------
(* Fairness and properties.                                                *)

\* Requests keep coming: every admission refreshes the object with the newest
\* authority before it reserves (isolate-admission.service.ts).
FreshRefresh == RefreshRPC(Len(published), clock)

FairSpec == Spec /\ WF_vars(Tick) /\ WF_vars(FreshRefresh)

\* The reservation slots hold across all ledgers, whoever raced for the last
\* one, and new work never takes the slot kept for recovery
\* (coordinator-state.ts, "One of those slots is reserved for recovery").
SlotCeiling ==
  /\ Cardinality(OpenGrants(agg)) <= MaxReservations
  /\ Cardinality(OpenNewWork(agg)) <= MaxReservations - 1

\* One identity never holds two grants of a purpose, however often its call is
\* delivered and whatever closed in between (idempotencyScope).
OneGrantPerIdentity ==
  \A l \in Ledgers : \A g, h \in agg.ledger[l].grants :
    g.key = h.key /\ g.purpose = h.purpose => g = h

\* A grant an isolate could still spend was issued under its ledger's current
\* terms: a policy or restriction change fences every earlier one.
ReservedUnderCurrentTerms ==
  \A l \in Ledgers : \A g \in agg.ledger[l].grants :
    g.status = "reserved" =>
      /\ g.policy = agg.ledger[l].policy.revision
      /\ g.restriction = agg.ledger[l].policy.restriction

\* The allocations an open grant draws on are never pruned, so that closing it
\* cannot fail with "certified grant allocation is unavailable for compaction".
CompactionAvailable ==
  \A l \in Ledgers : \A g \in Open(agg.ledger[l]) : Refs(g) \subseteq agg.ledger[l].allocs

NewGrants(l) == {g \in agg'.ledger[l].grants : g.seq >= agg.ledger[l].next}

\* No grant left spendable outlives the authority that approved it: once a later
\* revision is published, grants of the earlier one are over within MaxAge,
\* delivered revocation or not ("A grant cannot remain valid after the authority lease
\* that approved it").
GrantsDieWithAuthority ==
  [][\A l \in Ledgers : \A g \in NewGrants(l) :
       g.status = "reserved" /\ agg'.revision + 1 \in Known =>
         g.expiresAt <= published[agg'.revision + 1] + MaxAge]_vars

\* A capacity defect of any ledger stops new grants in all of them for good
\* (reconcileOwnerAggregate, "blocks the whole aggregate on an overrun").
DefectFreezes ==
  [][Defective(agg) => Defective(agg') /\ \A l \in Ledgers : NewGrants(l) = {}]_vars

\* Delivery of a revocation sticks until a later revision: no older authority
\* still on its way can reopen the aggregate or issue a grant.
RevocationSticks ==
  [][/\ agg'.revision >= agg.revision
     /\ agg.blocked /\ agg'.revision = agg.revision =>
          agg'.blocked /\ \A l \in Ledgers : NewGrants(l) = {}]_vars

\* New work that expired is retired and gives up its slot without any
\* evidence, as long as requests keep refreshing an aggregate without defect.
ExpiredWorkFreesSlot ==
  \A l \in Ledgers, s \in 1 .. MaxGrants :
    LET stuck == \E g \in Open(agg.ledger[l]) :
                   g.seq = s /\ g.purpose = "new-work" /\ clock >= g.expiresAt
    IN stuck ~> (~stuck \/ Defective(agg))

=============================================================================
