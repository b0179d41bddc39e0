------------------------- MODULE BudgetLedgerProofs -------------------------
(***************************************************************************)
(* What every operation of a budget ledger preserves, for any dimensions,  *)
(* allocations, identities and bounds.                                     *)
(***************************************************************************)
EXTENDS BudgetLedger, TLAPS, FiniteSetTheorems

\* The earliest of some times is one of them, and none is earlier: of the
\* intervals from 0 to each of them, a smallest one exists.
LEMMA EarliestIsMinimal ==
  ASSUME NEW S, S \subseteq Nat, S # {}
  PROVE  Earliest(S) \in S /\ \A u \in S : Earliest(S) <= u
<1> DEFINE T == {0 .. t : t \in S}
           R == StrictSubsetOrdering(Nat)
<1>1. T \subseteq FiniteSubsetsOf(Nat) /\ T # {}
  <2>1. \A t \in S : 0 .. t \subseteq Nat /\ IsFiniteSet(0 .. t)
    <3> TAKE t \in S
    <3>1. t \in Int /\ 0 \in Int
      OBVIOUS
    <3>2. IsFiniteSet(0 .. t)
      BY <3>1, FS_Interval
    <3> QED BY <3>2
  <2> QED BY <2>1 DEF FiniteSubsetsOf
<1>2. PICK I \in T : \A J \in T : <<J, I>> \notin R
  <2>1. IsWellFoundedOn(R, FiniteSubsetsOf(Nat))
    BY FS_StrictSubsetOrderingWellFounded
  <2> HIDE DEF T, R
  <2> QED BY <1>1, <2>1, WFMin
<1>3. PICK t \in S : I = 0 .. t
  OBVIOUS
<1>4. \A u \in S : t <= u
  <2> SUFFICES ASSUME NEW u \in S, ~(t <= u) PROVE FALSE
    OBVIOUS
  <2>1. t \in Nat /\ u \in Nat /\ u < t
    OBVIOUS
  <2>2. 0 .. u \in T /\ 0 .. u \subseteq 0 .. t /\ 0 .. u # 0 .. t
    BY <2>1
  <2>3. <<0 .. u, 0 .. t>> \in R
    BY <2>1, <2>2 DEF StrictSubsetOrdering
  <2> QED BY <1>2, <1>3, <2>2, <2>3
<1> QED BY <1>4 DEF Earliest
-----------------------------------------------------------------------------
(* The invariant of a ledger.                                              *)

\* Grants are numbered once, in order.
Numbered(L) ==
  \A g \in L.grants : g.seq < L.next /\ \A h \in L.grants : g.seq = h.seq => g = h

\* An identity has one grant of a purpose.
Identified(L) ==
  \A g, h \in L.grants : g.key = h.key /\ g.purpose = h.purpose => g = h

\* What can be spent was granted under the ledger's terms.
TermsCurrent(L) ==
  \A g \in L.grants :
    g.status = "reserved" =>
      g.policy = L.policy.revision /\ g.restriction = L.policy.restriction

\* The allocations in use, by the policy or by a grant, are kept.
Drawable(L) ==
  ActiveAllocs(L) \subseteq L.allocs /\ \A g \in L.grants : Refs(g) \subseteq L.allocs

LedgerInv(L) ==
  L \in Ledger /\ Numbered(L) /\ Identified(L) /\ TermsCurrent(L) /\ Drawable(L)

Request == [key : Keys, purpose : Purposes, recovers : Nat, envelope : Amounts,
            policy : Nat, restriction : Nat, now : Nat]

Evident == [key : Keys, observed : Amounts, certified : BOOLEAN,
            acknowledges : BOOLEAN, recovery : Nat, now : Nat]

\* Version h of grant g: the same grant in every respect the invariant is about.
SameGrant(g, h) ==
  /\ h.seq = g.seq /\ h.key = g.key /\ h.purpose = g.purpose
  /\ h.envelope = g.envelope /\ h.alloc = g.alloc
  /\ h.policy = g.policy /\ h.restriction = g.restriction
  /\ h.status = "reserved" => g.status = "reserved"

\* What no operation but a new policy changes.
Continues(L, M) == M.policy = L.policy /\ M.next = L.next /\ (L.defect => M.defect)

\* Every allocation is a window of some dimension.
LEMMA AllocInfoType == ASSUME NEW a \in Allocs PROVE AllocInfo[a] \in Window
BY AllocAssumption

\* A new ledger satisfies the invariant.
LEMMA NewLedgerInv ==
  ASSUME NEW policy \in Policy
  PROVE  LedgerInv(NewLedger(policy)) /\ NewLedger(policy).policy = policy
<1>1. {policy.budgets[d].alloc : d \in Dims} \subseteq Allocs
  BY DEF Policy, Budget
<1>2. NewLedger(policy) \in Ledger
  BY <1>1 DEF NewLedger, Ledger
<1> QED BY <1>2 DEF LedgerInv, NewLedger, Numbered, Identified, TermsCurrent, Drawable, ActiveAllocs

\* Pruning keeps whatever is in use.
LEMMA PruneInv ==
  ASSUME NEW L, LedgerInv(L), NEW now \in Nat
  PROVE  /\ LedgerInv(Prune(L, now))
         /\ Prune(L, now).policy = L.policy
         /\ Prune(L, now).next = L.next
         /\ Prune(L, now).defect = L.defect
         /\ \A g \in L.grants : ~g.compacted => g \in Prune(L, now).grants
         /\ Prune(L, now).grants \subseteq L.grants
<1> DEFINE P == Prune(L, now)
<1>1. L \in Ledger
  BY DEF LedgerInv
<1>2. P.policy = L.policy /\ P.next = L.next /\ P.defect = L.defect
  BY <1>1 DEF Prune, Ledger
<1>3. P.grants \subseteq L.grants /\ \A g \in L.grants : ~g.compacted => g \in P.grants
  BY <1>1 DEF Prune, Ledger
<1>4. P \in Ledger
  <2> DEFINE C == [a \in Allocs |-> [p \in Purposes |->
                    IF Ended(a, now) THEN 0 ELSE L.closed[a][p]]]
             A == {a \in L.allocs :
                     \/ a \in ActiveAllocs(L)
                     \/ \E g \in L.grants : a \in Refs(g)
                     \/ ~AllocInfo[a].stock /\ ~Ended(a, now)}
             G == {g \in L.grants :
                    ~g.compacted \/ g.status # "reconciled" \/ now < g.expiresAt}
  <2>1. C \in [Allocs -> [Purposes -> Nat]] /\ A \in SUBSET Allocs /\ G \in SUBSET Grant
    BY <1>1 DEF Ledger
  <2>2. P = [L EXCEPT !.closed = C, !.allocs = A, !.grants = G]
    BY DEF Prune
  <2> HIDE DEF C, A, G, P
  <2> QED BY <1>1, <2>1, <2>2 DEF Ledger
<1>5. Numbered(P) /\ Identified(P) /\ TermsCurrent(P)
  BY <1>2, <1>3 DEF LedgerInv, Numbered, Identified, TermsCurrent
<1>6. Drawable(P)
  <2>1. ActiveAllocs(P) = ActiveAllocs(L)
    BY <1>2 DEF ActiveAllocs
  <2>2. \A a \in L.allocs : a \in ActiveAllocs(L) \/ (\E g \in L.grants : a \in Refs(g))
                              => a \in P.allocs
    BY <1>1 DEF Prune, Ledger
  <2> QED BY <2>1, <2>2, <1>3 DEF LedgerInv, Drawable
<1> QED BY <1>2, <1>3, <1>4, <1>5, <1>6 DEF LedgerInv

\* Grants may be replaced by later versions of themselves.
LEMMA VersionsInv ==
  ASSUME NEW L, LedgerInv(L), NEW G \in SUBSET Grant,
         \A h \in G : \E g \in L.grants : SameGrant(g, h),
         \A h, k \in G : h.seq = k.seq => h = k
  PROVE  LedgerInv([L EXCEPT !.grants = G])
<1> DEFINE M == [L EXCEPT !.grants = G]
<1>1. L \in Ledger
  BY DEF LedgerInv
<1>2. M \in Ledger /\ M.grants = G /\ M.policy = L.policy /\ M.next = L.next /\ M.allocs = L.allocs
  BY <1>1 DEF Ledger
<1> HIDE DEF M
<1>3. Numbered(M)
  BY <1>2 DEF LedgerInv, Numbered, SameGrant
<1>4. Identified(M)
  <2> SUFFICES ASSUME NEW h \in G, NEW k \in G, h.key = k.key, h.purpose = k.purpose
               PROVE  h = k
    BY <1>2 DEF Identified
  <2>1. PICK g \in L.grants : SameGrant(g, h)
    OBVIOUS
  <2>2. PICK f \in L.grants : SameGrant(f, k)
    OBVIOUS
  <2>3. g.key = f.key /\ g.purpose = f.purpose
    BY <2>1, <2>2 DEF SameGrant
  <2>4. g = f
    BY <2>3 DEF LedgerInv, Identified
  <2> QED BY <2>1, <2>2, <2>4 DEF SameGrant
<1>5. TermsCurrent(M)
  BY <1>2 DEF LedgerInv, TermsCurrent, SameGrant
<1>6. Drawable(M)
  <2>1. ActiveAllocs(M) = ActiveAllocs(L)
    BY <1>2 DEF ActiveAllocs
  <2>2. \A h \in G : \E g \in L.grants : Refs(h) = Refs(g)
    BY DEF SameGrant, Refs
  <2> QED BY <1>2, <2>1, <2>2 DEF LedgerInv, Drawable
<1>7. LedgerInv(M)
  BY <1>2, <1>3, <1>4, <1>5, <1>6 DEF LedgerInv
<1> QED BY <1>7 DEF M

\* The roll-ups and the defect flag are free.
LEMMA ClosedInv ==
  ASSUME NEW L, LedgerInv(L), NEW C \in [Allocs -> [Purposes -> Nat]]
  PROVE  LedgerInv([L EXCEPT !.closed = C])
<1> DEFINE M == [L EXCEPT !.closed = C]
<1>1. L \in Ledger
  BY DEF LedgerInv
<1>2. /\ M \in Ledger /\ M.grants = L.grants /\ M.policy = L.policy
      /\ M.next = L.next /\ M.allocs = L.allocs
  BY <1>1 DEF Ledger
<1> HIDE DEF M
<1>3. LedgerInv(M)
  BY <1>2 DEF LedgerInv, Numbered, Identified, TermsCurrent, Drawable, ActiveAllocs
<1> QED BY <1>3 DEF M

\* Recording an overrun keeps the invariant.
LEMMA DefectInv ==
  ASSUME NEW L, LedgerInv(L)
  PROVE  LedgerInv([L EXCEPT !.defect = TRUE])
<1> DEFINE M == [L EXCEPT !.defect = TRUE]
<1>1. L \in Ledger
  BY DEF LedgerInv
<1>2. /\ M \in Ledger /\ M.grants = L.grants /\ M.policy = L.policy
      /\ M.next = L.next /\ M.allocs = L.allocs
  BY <1>1 DEF Ledger
<1> HIDE DEF M
<1>3. LedgerInv(M)
  BY <1>2 DEF LedgerInv, Numbered, Identified, TermsCurrent, Drawable, ActiveAllocs
<1> QED BY <1>3 DEF M

\* Expiry only turns reservations into uncertain ones.
LEMMA ExpireInv ==
  ASSUME NEW L, LedgerInv(L), NEW now \in Nat
  PROVE  LedgerInv(Expire(L, now)) /\ Continues(L, Expire(L, now))
<1> DEFINE G == {ExpireGrant(g, now) : g \in L.grants}
           M == [L EXCEPT !.grants = G]
<1>1. L \in Ledger
  BY DEF LedgerInv
<1>2. \A g \in L.grants : ExpireGrant(g, now) \in Grant /\ SameGrant(g, ExpireGrant(g, now))
  BY <1>1 DEF ExpireGrant, Ledger, Grant, Statuses, SameGrant
<1>3. \A h, k \in G : h.seq = k.seq => h = k
  BY <1>2 DEF LedgerInv, Numbered, SameGrant
<1>4. LedgerInv(M)
  <2>1. G \in SUBSET Grant /\ \A h \in G : \E g \in L.grants : SameGrant(g, h)
    BY <1>2
  <2> HIDE DEF G
  <2> QED BY <2>1, <1>3, VersionsInv
<1>5. M.policy = L.policy /\ M.next = L.next /\ M.defect = L.defect
  BY <1>1 DEF Ledger
<1>6. Expire(L, now) = Prune(M, now)
  BY DEF Expire
<1> HIDE DEF M
<1> QED BY <1>4, <1>5, <1>6, PruneInv DEF Continues

\* A grant may be replaced by a later version of itself; the others stay.
LEMMA ReplaceInv ==
  ASSUME NEW L, LedgerInv(L), NEW g \in L.grants, NEW h \in Grant, SameGrant(g, h)
  PROVE  /\ LedgerInv(Replace(L, h))
         /\ Continues(L, Replace(L, h))
         /\ h \in Replace(L, h).grants
         /\ \A k \in L.grants : k.seq # h.seq => k \in Replace(L, h).grants
<1> DEFINE G == {k \in L.grants : k.seq # h.seq} \cup {h}
<1>1. L \in Ledger
  BY DEF LedgerInv
<1>2. G \in SUBSET Grant
  BY <1>1 DEF Ledger
<1>3. \A k \in G : \E f \in L.grants : SameGrant(f, k)
  BY DEF SameGrant
<1>4. \A f, k \in G : f.seq = k.seq => f = k
  BY DEF LedgerInv, Numbered
<1>5. Replace(L, h) = [L EXCEPT !.grants = G]
  BY DEF Replace
<1>6. h \in G /\ \A k \in L.grants : k.seq # h.seq => k \in G
  OBVIOUS
<1> HIDE DEF G
<1>7. LedgerInv([L EXCEPT !.grants = G])
  BY <1>2, <1>3, <1>4, VersionsInv
<1>8. LedgerInv(Replace(L, h))
  BY <1>5, <1>7
<1> QED BY <1>1, <1>5, <1>6, <1>8 DEF Continues, Ledger

\* Compaction keeps every other open grant.
LEMMA CompactInv ==
  ASSUME NEW L, LedgerInv(L), NEW g \in L.grants, NEW h \in Grant, SameGrant(g, h),
         NEW now \in Nat
  PROVE  /\ LedgerInv(Compact(L, h, now))
         /\ Continues(L, Compact(L, h, now))
         /\ \A k \in L.grants : k.seq # h.seq /\ ~k.compacted => k \in Compact(L, h, now).grants
<1> DEFINE c == [h EXCEPT !.compacted = TRUE]
           touched == {Account(a) : a \in Refs(h)}
           rolled == [a \in Allocs |-> [p \in Purposes |->
                        L.closed[a][p] + IF p = h.purpose /\ a \in touched
                                         THEN h.accounted[AllocInfo[a].dim] ELSE 0]]
           R == Replace(L, c)
           M == [R EXCEPT !.closed = rolled]
<1>1. L \in Ledger
  BY DEF LedgerInv
<1>2. c \in Grant /\ SameGrant(g, c) /\ c.seq = h.seq
  BY DEF SameGrant, Grant
<1>3. rolled \in [Allocs -> [Purposes -> Nat]]
  <2> SUFFICES ASSUME NEW a \in Allocs, NEW p \in Purposes
               PROVE  L.closed[a][p] + (IF p = h.purpose /\ a \in touched
                        THEN h.accounted[AllocInfo[a].dim] ELSE 0) \in Nat
    OBVIOUS
  <2>1. L.closed[a][p] \in Nat
    BY <1>1 DEF Ledger
  <2>2. h.accounted[AllocInfo[a].dim] \in Nat
    BY AllocInfoType DEF Window, Grant, Amounts
  <2> HIDE DEF touched
  <2> QED BY <2>1, <2>2
<1>4. Compact(L, h, now) = Prune(M, now)
  BY DEF Compact
<1> HIDE DEF c, rolled
<1>5. /\ LedgerInv(R) /\ Continues(L, R)
      /\ \A k \in L.grants : k.seq # h.seq => k \in R.grants
  BY <1>2, ReplaceInv
<1> HIDE DEF R
<1>6. R \in Ledger
  BY <1>5 DEF LedgerInv
<1>7. LedgerInv(M)
  BY <1>3, <1>5, ClosedInv
<1>8. Continues(L, M) /\ M.grants = R.grants
  BY <1>5, <1>6 DEF Continues, Ledger
<1> HIDE DEF M
<1> QED BY <1>4, <1>5, <1>7, <1>8, PruneInv DEF Continues
-----------------------------------------------------------------------------
(* Reserving.                                                              *)

\* The expiry of a new grant is a time.
LEMMA ExpiryType ==
  ASSUME NEW L \in Ledger, NEW req \in Request, NEW clip \in SUBSET Nat
  PROVE  Earliest(ExpiryLimits(L, req) \cup clip) \in Nat
<1> DEFINE now == req.now + L.policy.lifetime
           Ends == {AllocInfo[a].endsAt :
                      a \in {L.policy.budgets[d].alloc : d \in Demanded(req)}
                            \ {b \in Allocs : AllocInfo[b].stock}}
           S == ({now} \cup Ends) \cup clip
<1>1. now \in Nat
  BY DEF Ledger, Policy, Request
<1>2. \A d \in Demanded(req) : L.policy.budgets[d].alloc \in Allocs
  BY DEF Demanded, Ledger, Policy, Budget
<1>3. Ends \in SUBSET Nat
  BY <1>2, AllocInfoType DEF Window
<1>4. S = ExpiryLimits(L, req) \cup clip
  BY DEF ExpiryLimits
<1> HIDE DEF now, Ends
<1>5. S \subseteq Nat /\ S # {}
  BY <1>1, <1>3
<1> HIDE DEF S
<1>6. Earliest(S) \in Nat
  BY <1>5, EarliestIsMinimal
<1> QED BY <1>4, <1>6

\* A redelivered grant is the one that was granted.
LEMMA RedeliverInv ==
  ASSUME NEW L, LedgerInv(L), NEW req \in Request
  PROVE  LedgerInv(Redeliver(L, req)) /\ Continues(L, Redeliver(L, req))
<1> DEFINE again(g) == IF SameIdentity(g, req) THEN [g EXCEPT !.attempts = g.attempts + 1] ELSE g
           G == {again(g) : g \in L.grants}
<1>1. L \in Ledger
  BY DEF LedgerInv
<1>2. \A g \in L.grants : again(g) \in Grant /\ SameGrant(g, again(g))
  BY <1>1 DEF Ledger, Grant, SameGrant
<1>3. \A h, k \in G : h.seq = k.seq => h = k
  <2> SUFFICES ASSUME NEW h \in G, NEW k \in G, h.seq = k.seq PROVE h = k
    OBVIOUS
  <2>1. PICK f \in L.grants : h = again(f)
    OBVIOUS
  <2>2. PICK g \in L.grants : k = again(g)
    OBVIOUS
  <2> HIDE DEF again
  <2>3. f.seq = g.seq
    BY <1>2, <2>1, <2>2 DEF SameGrant
  <2>4. f = g
    BY <2>3 DEF LedgerInv, Numbered
  <2> QED BY <2>1, <2>2, <2>4
<1>4. Redeliver(L, req) = [L EXCEPT !.grants = G]
  BY DEF Redeliver
<1>5. G \in SUBSET Grant /\ \A h \in G : \E g \in L.grants : SameGrant(g, h)
  BY <1>2
<1> HIDE DEF G
<1>6. LedgerInv([L EXCEPT !.grants = G])
  BY <1>3, <1>5, VersionsInv
<1> QED BY <1>1, <1>4, <1>6 DEF Continues, Ledger

\* A new grant has a fresh number and identity, the ledger's terms, and
\* allocations of its policy.
LEMMA AddGrantInv ==
  ASSUME NEW L, LedgerInv(L), NEW req \in Request, NEW clip \in SUBSET Nat,
         Prior(L, req) = {}
  PROVE  /\ LedgerInv(AddGrant(L, req, clip))
         /\ AddGrant(L, req, clip).policy = L.policy
         /\ AddGrant(L, req, clip).next = L.next + 1
         /\ AddGrant(L, req, clip).defect = L.defect
<1> DEFINE n == NewGrant(L, req, clip)
           M == AddGrant(L, req, clip)
<1>1. L \in Ledger /\ L.next \in Nat
  BY DEF LedgerInv, Ledger
<1>2. n \in Grant
  <2>1. Earliest(ExpiryLimits(L, req) \cup clip) \in Nat
    BY <1>1, ExpiryType
  <2>2. [d \in Dims |-> L.policy.budgets[d].alloc] \in [Dims -> Allocs]
    BY <1>1 DEF Ledger, Policy, Budget
  <2>3. L.policy.revision \in Nat /\ L.policy.restriction \in Nat /\ L.next \in Nat \ {0}
    BY <1>1 DEF Ledger, Policy
  <2> QED BY <2>1, <2>2, <2>3 DEF NewGrant, Grant, Request, Statuses
<1>3. /\ M \in Ledger /\ M.grants = L.grants \cup {n} /\ M.policy = L.policy
      /\ M.next = L.next + 1 /\ M.allocs = L.allocs /\ M.defect = L.defect
  <2> HIDE DEF n
  <2> DEFINE G == L.grants \cup {n}
             x == L.next + 1
  <2>1. M = [L EXCEPT !.grants = G, !.next = x]
    BY DEF AddGrant, n
  <2>2. G \in SUBSET Grant /\ x \in Nat \ {0}
    BY <1>1, <1>2 DEF Ledger
  <2> HIDE DEF M, G, x
  <2>3. /\ M \in Ledger /\ M.grants = G /\ M.policy = L.policy
        /\ M.next = x /\ M.allocs = L.allocs /\ M.defect = L.defect
    BY <1>1, <2>1, <2>2 DEF Ledger
  <2> QED BY <2>3 DEF G, x
<1>4. /\ n.seq = L.next /\ n.key = req.key /\ n.purpose = req.purpose
      /\ n.policy = L.policy.revision /\ n.restriction = L.policy.restriction
      /\ Refs(n) \subseteq ActiveAllocs(L)
  BY DEF NewGrant, Refs, ActiveAllocs
<1> HIDE DEF n, M
<1>5. Numbered(M)
  <2>1. \A g \in L.grants : g.seq \in Nat /\ g.seq < L.next
    BY <1>1 DEF LedgerInv, Numbered, Ledger, Grant
  <2>2. \A g, h \in L.grants : g.seq = h.seq => g = h
    BY DEF LedgerInv, Numbered
  <2>3. \A g \in M.grants : g.seq < L.next + 1
    BY <1>1, <1>3, <1>4, <2>1
  <2>4. \A g, h \in M.grants : g.seq = h.seq => g = h
    BY <1>1, <1>3, <1>4, <2>1, <2>2
  <2> QED BY <1>3, <2>3, <2>4 DEF Numbered
<1>6. Identified(M)
  <2>1. \A g \in L.grants : ~(g.key = n.key /\ g.purpose = n.purpose)
    BY <1>4 DEF Prior, SameIdentity
  <2> QED BY <1>3, <2>1 DEF LedgerInv, Identified
<1>7. TermsCurrent(M)
  BY <1>3, <1>4 DEF LedgerInv, TermsCurrent
<1>8. Drawable(M)
  BY <1>3, <1>4 DEF LedgerInv, Drawable, ActiveAllocs
<1>9. LedgerInv(M)
  BY <1>3, <1>5, <1>6, <1>7, <1>8 DEF LedgerInv
<1> QED BY <1>3, <1>9 DEF M

\* Whether a reservation is redelivered, granted or refused.
LEMMA ReserveInv ==
  ASSUME NEW L, LedgerInv(L), NEW req \in Request, NEW clip \in SUBSET Nat
  PROVE  /\ LedgerInv(Reserve(L, req, clip))
         /\ Reserve(L, req, clip).policy = L.policy
         /\ L.defect => Reserve(L, req, clip).defect /\ Reserve(L, req, clip).next = L.next
<1>1. CASE Redeliverable(L, req)
  BY <1>1, RedeliverInv DEF Reserve, Continues
<1>2. CASE ~Redeliverable(L, req) /\ Grantable(L, req)
  <2>1. Prior(L, req) = {} /\ ~L.defect
    BY <1>2 DEF Grantable
  <2> QED BY <1>2, <2>1, AddGrantInv DEF Reserve
<1>3. CASE ~Redeliverable(L, req) /\ ~Grantable(L, req)
  BY <1>3 DEF Reserve
<1> QED BY <1>1, <1>2, <1>3
-----------------------------------------------------------------------------
(* Reconciling.                                                            *)

\* A grant that is settled stays the grant it was, and the other open grants
\* stay.
LEMMA SettleInv ==
  ASSUME NEW L, LedgerInv(L), NEW g \in L.grants, NEW ev \in Evident
  PROVE  /\ LedgerInv(Settle(L, g, ev))
         /\ Continues(L, Settle(L, g, ev))
         /\ \A k \in L.grants :
              k.seq # g.seq /\ ~k.compacted => k \in Settle(L, g, ev).grants
<1> DEFINE h == [g EXCEPT !.status = "reconciled", !.accounted = ev.observed]
           R == Replace(L, h)
<1>1. L \in Ledger
  BY DEF LedgerInv
<1>2. h \in Grant /\ SameGrant(g, h) /\ h.seq = g.seq /\ ev.now \in Nat
  <2>1. g \in Grant
    BY <1>1 DEF Ledger
  <2>2. ev.observed \in Amounts /\ ev.now \in Nat
    BY DEF Evident
  <2>3. h \in Grant
    BY <2>1, <2>2 DEF Grant, Statuses
  <2>4. SameGrant(g, h)
    BY <2>1 DEF Grant, SameGrant
  <2> QED BY <2>2, <2>3, <2>4 DEF SameGrant
<1>3. \/ Settle(L, g, ev) = [R EXCEPT !.defect = TRUE]
      \/ Settle(L, g, ev) = Prune(R, ev.now)
      \/ Settle(L, g, ev) = Compact(L, h, ev.now)
      \/ Settle(L, g, ev) = R
  BY DEF Settle
<1> HIDE DEF h
<1>4. /\ LedgerInv(R) /\ Continues(L, R)
      /\ \A k \in L.grants : k.seq # g.seq => k \in R.grants
  BY <1>2, ReplaceInv
<1> HIDE DEF R
<1>5. CASE Settle(L, g, ev) = [R EXCEPT !.defect = TRUE]
  <2>1. R \in Ledger
    BY <1>4 DEF LedgerInv
  <2> DEFINE M == [R EXCEPT !.defect = TRUE]
  <2>2. LedgerInv(M)
    BY <1>4, DefectInv
  <2>3. M.policy = R.policy /\ M.next = R.next /\ M.grants = R.grants /\ M.defect
    BY <2>1 DEF Ledger
  <2> HIDE DEF M
  <2>4. Settle(L, g, ev) = M
    BY <1>5 DEF M
  <2> QED BY <1>4, <2>2, <2>3, <2>4 DEF Continues
<1>6. CASE Settle(L, g, ev) = Prune(R, ev.now)
  BY <1>2, <1>4, <1>6, PruneInv DEF Continues
<1>7. CASE Settle(L, g, ev) = Compact(L, h, ev.now)
  BY <1>2, <1>7, CompactInv
<1>8. CASE Settle(L, g, ev) = R
  BY <1>4, <1>8
<1> QED BY <1>3, <1>5, <1>6, <1>7, <1>8

\* The recovery grant retired with the grant it recovered is another grant.
LEMMA ReconcileInv ==
  ASSUME NEW L, LedgerInv(L), NEW g \in L.grants, NEW ev \in Evident, Closable(L, g, ev)
  PROVE  LedgerInv(Reconcile(L, g, ev)) /\ Continues(L, Reconcile(L, g, ev))
<1> DEFINE S == Settle(L, g, ev)
           r == CHOOSE k \in Open(L) : k.seq = ev.recovery
           h == [r EXCEPT !.status = "reconciled", !.accounted = r.envelope]
<1>1. /\ LedgerInv(S) /\ Continues(L, S)
      /\ \A k \in L.grants : k.seq # g.seq /\ ~k.compacted => k \in S.grants
  BY SettleInv
<1> HIDE DEF S
<1>2. CASE ev.recovery = 0 \/ Overruns(g, ev)
  BY <1>1, <1>2 DEF Reconcile, S
<1>3. CASE ~(ev.recovery = 0 \/ Overruns(g, ev))
  <2>1. Reconcile(L, g, ev) = Compact(S, h, ev.now)
    BY <1>3 DEF Reconcile, S
  <2>2. PICK k \in Open(L) : /\ k.seq = ev.recovery /\ k.purpose = "recovery"
                             /\ g.purpose = "new-work"
    BY <1>3 DEF Closable, RecoveryMatches
  <2>3. r \in Open(L) /\ r.seq = ev.recovery
    BY <2>2
  <2> HIDE DEF r
  <2>4. r = k
    BY <2>2, <2>3 DEF Open, LedgerInv, Numbered
  <2>5. r \in L.grants /\ ~r.compacted /\ r.seq # g.seq
    BY <2>2, <2>3, <2>4 DEF Open, LedgerInv, Numbered
  <2>6. r \in S.grants /\ r \in Grant
    BY <1>1, <2>5 DEF LedgerInv, Ledger
  <2>7. h \in Grant /\ SameGrant(r, h) /\ ev.now \in Nat
    BY <2>6 DEF Grant, SameGrant, Evident, Statuses
  <2> HIDE DEF h
  <2>8. LedgerInv(Compact(S, h, ev.now)) /\ Continues(S, Compact(S, h, ev.now))
    BY <1>1, <2>6, <2>7, CompactInv
  <2> QED BY <1>1, <2>1, <2>8 DEF Continues
<1> QED BY <1>2, <1>3
-----------------------------------------------------------------------------
(* A new policy.                                                           *)

\* Adopting a policy fences every earlier reservation, so that nothing which
\* can be spent has other terms.
LEMMA AdoptInv ==
  ASSUME NEW L, LedgerInv(L), NEW policy \in Policy, NEW now \in Nat
  PROVE  /\ LedgerInv(Adopt(L, policy, now))
         /\ Adopt(L, policy, now).policy = policy
         /\ Adopt(L, policy, now).next = L.next
         /\ L.defect => Adopt(L, policy, now).defect
<1> DEFINE E == Expire(L, now)
           F == {Fence(g) : g \in E.grants}
           A == E.allocs \cup {policy.budgets[d].alloc : d \in Dims}
           N == [E EXCEPT !.grants = F]
           M == [E EXCEPT !.policy = policy, !.allocs = A, !.grants = F]
<1>1. Adopt(L, policy, now) = Prune(M, now)
  BY DEF Adopt
<1>2. LedgerInv(E) /\ Continues(L, E)
  BY ExpireInv
<1> HIDE DEF E
<1>3. E \in Ledger
  BY <1>2 DEF LedgerInv
<1>4. \A g \in E.grants : Fence(g) \in Grant /\ SameGrant(g, Fence(g)) /\ Fence(g).status # "reserved"
  BY <1>3 DEF Fence, Ledger, Grant, Statuses, SameGrant
<1>5. \A h, k \in F : h.seq = k.seq => h = k
  BY <1>2, <1>4 DEF LedgerInv, Numbered, SameGrant
<1>6. F \in SUBSET Grant /\ (\A h \in F : \E g \in E.grants : SameGrant(g, h))
                         /\ \A h \in F : h.status # "reserved"
  BY <1>4
<1> HIDE DEF F
<1>7. LedgerInv(N)
  BY <1>2, <1>5, <1>6, VersionsInv
<1>8. N.grants = F /\ N.next = E.next /\ N.allocs = E.allocs
  BY <1>3 DEF Ledger
<1>9. A \in SUBSET Allocs
  BY <1>3 DEF Ledger, Policy, Budget
<1>10. ActiveAllocs(M) \subseteq A
  <2>1. M.policy = policy
    BY <1>3 DEF Ledger
  <2> QED BY <2>1 DEF ActiveAllocs
<1>11. E.allocs \subseteq A
  OBVIOUS
<1> HIDE DEF A
<1>12. /\ M \in Ledger /\ M.policy = policy /\ M.allocs = A /\ M.grants = F
       /\ M.next = E.next /\ M.defect = E.defect
  BY <1>3, <1>6, <1>9 DEF Ledger
<1> HIDE DEF M, N
<1>13. Numbered(M) /\ Identified(M)
  BY <1>7, <1>8, <1>12 DEF LedgerInv, Numbered, Identified
<1>14. TermsCurrent(M)
  BY <1>6, <1>12 DEF TermsCurrent
<1>15. Drawable(M)
  BY <1>7, <1>8, <1>10, <1>11, <1>12 DEF LedgerInv, Drawable
<1>16. LedgerInv(M)
  BY <1>12, <1>13, <1>14, <1>15 DEF LedgerInv
<1> QED BY <1>1, <1>2, <1>12, <1>16, PruneInv DEF Continues
-----------------------------------------------------------------------------
(* What a transition that grants nothing does: every grant it leaves is a  *)
(* later version of one there was, and a grant that gave up its slot never *)
(* takes it back.                                                          *)

Later(g, h) == SameGrant(g, h) /\ (g.compacted => h.compacted)

Aged(L, M) == \A h \in M.grants : \E g \in L.grants : Later(g, h)

\* Transitions made one after the other age a ledger too.
LEMMA AgedTransitive ==
  ASSUME NEW L, NEW M, NEW N, Aged(L, M), Aged(M, N)
  PROVE  Aged(L, N)
<1> SUFFICES ASSUME NEW k \in N.grants PROVE \E g \in L.grants : Later(g, k)
  BY DEF Aged
<1>1. PICK h \in M.grants : Later(h, k)
  BY DEF Aged
<1>2. PICK g \in L.grants : Later(g, h)
  BY DEF Aged
<1>3. Later(g, k)
  BY <1>1, <1>2 DEF Later, SameGrant
<1> QED BY <1>3

\* A ledger whose grants are some of those there were is an aged one.
LEMMA FewerAged ==
  ASSUME NEW L, NEW M, M.grants \subseteq L.grants
  PROVE  Aged(L, M)
BY DEF Aged, Later, SameGrant

\* Pruning only drops grants.
LEMMA PruneAged ==
  ASSUME NEW L, LedgerInv(L), NEW now \in Nat
  PROVE  Aged(L, Prune(L, now))
BY PruneInv, FewerAged

\* Expiry turns reservations into uncertain ones and frees no slot.
LEMMA ExpireAged ==
  ASSUME NEW L, LedgerInv(L), NEW now \in Nat
  PROVE  /\ Aged(L, Expire(L, now))
         /\ \A g \in L.grants : ~g.compacted \/ g.status # "reconciled" \/ now < g.expiresAt =>
              ExpireGrant(g, now) \in Expire(L, now).grants
<1> DEFINE G == {ExpireGrant(g, now) : g \in L.grants}
           M == [L EXCEPT !.grants = G]
<1>1. L \in Ledger
  BY DEF LedgerInv
<1>2. \A g \in L.grants :
        /\ Later(g, ExpireGrant(g, now))
        /\ ExpireGrant(g, now).compacted = g.compacted
        /\ ExpireGrant(g, now).expiresAt = g.expiresAt
        /\ ExpireGrant(g, now).status = "reconciled" => g.status = "reconciled"
  BY <1>1 DEF ExpireGrant, Ledger, Grant, Statuses, SameGrant, Later
<1>3. M.grants = G /\ M.grants \subseteq G
  BY <1>1 DEF Ledger
<1>4. Expire(L, now) = Prune(M, now)
  BY DEF Expire
<1>5. Expire(L, now).grants =
        {g \in G : ~g.compacted \/ g.status # "reconciled" \/ now < g.expiresAt}
  <2> HIDE DEF G
  <2>1. M \in [policy : {L.policy}, next : {L.next}, allocs : {L.allocs}, grants : {G},
               closed : {L.closed}, defect : {L.defect}]
    BY <1>1 DEF Ledger
  <2> HIDE DEF M
  <2> QED BY <1>3, <1>4, <2>1 DEF Prune
<1> QED BY <1>2, <1>5 DEF Aged

\* Replacing a grant by a later version of itself ages the ledger.
LEMMA ReplaceAged ==
  ASSUME NEW L, L \in Ledger, NEW g \in L.grants, NEW h, Later(g, h)
  PROVE  Aged(L, Replace(L, h)) /\ Replace(L, h).grants \subseteq L.grants \cup {h}
<1>1. Replace(L, h).grants = {k \in L.grants : k.seq # h.seq} \cup {h}
  BY DEF Replace, Ledger
<1> QED BY <1>1 DEF Aged, Later, SameGrant

\* Compaction closes the grant it is given and leaves the others as they are.
LEMMA CompactAged ==
  ASSUME NEW L, LedgerInv(L), NEW g \in L.grants, NEW h \in Grant, SameGrant(g, h),
         NEW now \in Nat
  PROVE  /\ Aged(L, Compact(L, h, now))
         /\ \A k \in Compact(L, h, now).grants :
              \/ k \in L.grants \ {g}
              \/ Later(g, k) /\ k.compacted /\ k.status = h.status /\ k.accounted = h.accounted
<1> DEFINE c == [h EXCEPT !.compacted = TRUE]
           touched == {Account(a) : a \in Refs(h)}
           rolled == [a \in Allocs |-> [p \in Purposes |->
                        L.closed[a][p] + IF p = h.purpose /\ a \in touched
                                         THEN h.accounted[AllocInfo[a].dim] ELSE 0]]
           R == Replace(L, c)
           M == [R EXCEPT !.closed = rolled]
           G == {k \in L.grants : k.seq # c.seq} \cup {c}
<1>1. L \in Ledger
  BY DEF LedgerInv
<1>2. /\ c.compacted /\ c.status = h.status /\ c.accounted = h.accounted
      /\ SameGrant(g, c) /\ Later(g, c) /\ c.seq = g.seq
  BY DEF SameGrant, Grant, Later
<1>3. Compact(L, h, now) = Prune(M, now)
  BY DEF Compact
<1> HIDE DEF c, rolled
<1>4. R \in [policy : {L.policy}, next : {L.next}, allocs : {L.allocs}, grants : {G},
             closed : {L.closed}, defect : {L.defect}]
  BY <1>1 DEF Replace, Ledger
<1> HIDE DEF R
<1>5. M \in [policy : {L.policy}, next : {L.next}, allocs : {L.allocs}, grants : {G},
             closed : {rolled}, defect : {L.defect}]
  BY <1>4
<1> HIDE DEF M
<1>6. Compact(L, h, now).grants \subseteq G
  BY <1>3, <1>5 DEF Prune
<1>7. \A k \in G : k \in L.grants \ {g} \/ k = c
  BY <1>2
<1> HIDE DEF G
<1>8. \A k \in Compact(L, h, now).grants : k \in L.grants \ {g} \/ k = c
  BY <1>6, <1>7
<1>9. Aged(L, Compact(L, h, now))
  BY <1>2, <1>8 DEF Aged, Later, SameGrant
<1> QED BY <1>2, <1>8, <1>9

\* A redelivered grant is the same grant.
LEMMA RedeliverAged ==
  ASSUME NEW L, LedgerInv(L), NEW req
  PROVE  Aged(L, Redeliver(L, req))
<1> DEFINE again(g) == IF SameIdentity(g, req) THEN [g EXCEPT !.attempts = g.attempts + 1] ELSE g
<1>1. L \in Ledger
  BY DEF LedgerInv
<1>2. \A g \in L.grants : Later(g, again(g))
  BY <1>1 DEF Ledger, Grant, SameGrant, Later
<1>3. Redeliver(L, req).grants = {again(g) : g \in L.grants}
  BY <1>1 DEF Redeliver, Ledger
<1> HIDE DEF again
<1> QED BY <1>2, <1>3 DEF Aged

\* A reservation of an identity the ledger knows, or under other terms than the
\* ledger's, grants nothing.
LEMMA ReserveAged ==
  ASSUME NEW L, LedgerInv(L), NEW req, NEW clip, Stale(L, req) \/ Prior(L, req) # {}
  PROVE  /\ Aged(L, Reserve(L, req, clip))
         /\ Reserve(L, req, clip).next = L.next
         /\ L.defect => Reserve(L, req, clip).defect
<1>1. CASE Redeliverable(L, req)
  <2>1. Redeliver(L, req).next = L.next /\ Redeliver(L, req).defect = L.defect
    BY DEF Redeliver, LedgerInv, Ledger
  <2> QED BY <1>1, <2>1, RedeliverAged DEF Reserve
<1>2. CASE ~Redeliverable(L, req)
  <2>1. ~Grantable(L, req)
    BY DEF Grantable, Admissible
  <2> QED BY <1>2, <2>1, FewerAged DEF Reserve
<1> QED BY <1>1, <1>2

\* Settling a grant leaves versions of what there was.
LEMMA SettleAged ==
  ASSUME NEW L, LedgerInv(L), NEW g \in L.grants, NEW ev \in Evident
  PROVE  Aged(L, Settle(L, g, ev))
<1> DEFINE h == [g EXCEPT !.status = "reconciled", !.accounted = ev.observed]
           R == Replace(L, h)
<1>1. L \in Ledger
  BY DEF LedgerInv
<1>2. h \in Grant /\ Later(g, h) /\ SameGrant(g, h) /\ ev.now \in Nat
  <2>1. g \in Grant /\ ev.observed \in Amounts /\ ev.now \in Nat
    BY <1>1 DEF Ledger, Evident
  <2> QED BY <2>1 DEF Grant, Statuses, SameGrant, Later
<1>3. \/ Settle(L, g, ev) = [R EXCEPT !.defect = TRUE]
      \/ Settle(L, g, ev) = Prune(R, ev.now)
      \/ Settle(L, g, ev) = Compact(L, h, ev.now)
      \/ Settle(L, g, ev) = R
  BY DEF Settle
<1> HIDE DEF h
<1>4. LedgerInv(R) /\ Aged(L, R)
  BY <1>1, <1>2, ReplaceInv, ReplaceAged
<1> HIDE DEF R
<1>5. CASE Settle(L, g, ev) = [R EXCEPT !.defect = TRUE]
  <2>1. [R EXCEPT !.defect = TRUE].grants = R.grants
    BY <1>4 DEF LedgerInv, Ledger
  <2> QED BY <1>4, <1>5, <2>1 DEF Aged
<1>6. CASE Settle(L, g, ev) = Prune(R, ev.now)
  BY <1>2, <1>4, <1>6, PruneAged, AgedTransitive
<1>7. CASE Settle(L, g, ev) = Compact(L, h, ev.now)
  BY <1>2, <1>7, CompactAged
<1>8. CASE Settle(L, g, ev) = R
  BY <1>4, <1>8
<1> QED BY <1>3, <1>5, <1>6, <1>7, <1>8

\* So does a reconciliation, with or without the recovery grant it retires.
LEMMA ReconcileAged ==
  ASSUME NEW L, LedgerInv(L), NEW g \in L.grants, NEW ev \in Evident, Closable(L, g, ev)
  PROVE  Aged(L, Reconcile(L, g, ev))
<1> DEFINE S == Settle(L, g, ev)
           r == CHOOSE k \in Open(L) : k.seq = ev.recovery
           h == [r EXCEPT !.status = "reconciled", !.accounted = r.envelope]
<1>1. /\ LedgerInv(S) /\ Aged(L, S)
      /\ \A k \in L.grants : k.seq # g.seq /\ ~k.compacted => k \in S.grants
  BY SettleInv, SettleAged
<1> HIDE DEF S
<1>2. CASE ev.recovery = 0 \/ Overruns(g, ev)
  BY <1>1, <1>2 DEF Reconcile, S
<1>3. CASE ~(ev.recovery = 0 \/ Overruns(g, ev))
  <2>1. Reconcile(L, g, ev) = Compact(S, h, ev.now)
    BY <1>3 DEF Reconcile, S
  <2>2. PICK k \in Open(L) : /\ k.seq = ev.recovery /\ k.purpose = "recovery"
                             /\ g.purpose = "new-work"
    BY <1>3 DEF Closable, RecoveryMatches
  <2>3. r \in Open(L) /\ r.seq = ev.recovery
    BY <2>2
  <2> HIDE DEF r
  <2>4. r = k
    BY <2>2, <2>3 DEF Open, LedgerInv, Numbered
  <2>5. r \in L.grants /\ ~r.compacted /\ r.seq # g.seq
    BY <2>2, <2>3, <2>4 DEF Open, LedgerInv, Numbered
  <2>6. r \in S.grants /\ r \in Grant
    BY <1>1, <2>5 DEF LedgerInv, Ledger
  <2>7. h \in Grant /\ SameGrant(r, h) /\ ev.now \in Nat
    BY <2>6 DEF Grant, SameGrant, Evident, Statuses
  <2> HIDE DEF h
  <2>8. Aged(S, Compact(S, h, ev.now))
    BY <1>1, <2>6, <2>7, CompactAged
  <2> QED BY <1>1, <2>1, <2>8, AgedTransitive
<1> QED BY <1>2, <1>3

\* Adopting a policy fences and prunes.
LEMMA AdoptAged ==
  ASSUME NEW L, LedgerInv(L), NEW policy \in Policy, NEW now \in Nat
  PROVE  Aged(L, Adopt(L, policy, now))
<1> DEFINE E == Expire(L, now)
           F == {Fence(g) : g \in E.grants}
           A == E.allocs \cup {policy.budgets[d].alloc : d \in Dims}
           M == [E EXCEPT !.policy = policy, !.allocs = A, !.grants = F]
<1>1. Adopt(L, policy, now) = Prune(M, now)
  BY DEF Adopt
<1>2. LedgerInv(E) /\ Aged(L, E)
  BY ExpireInv, ExpireAged
<1> HIDE DEF E
<1>3. \A g \in E.grants : Later(g, Fence(g))
  BY <1>2 DEF Fence, LedgerInv, Ledger, Grant, SameGrant, Later
<1>4. M \in [policy : {policy}, next : {E.next}, allocs : {A}, grants : {F},
             closed : {E.closed}, defect : {E.defect}]
  BY <1>2 DEF LedgerInv, Ledger
<1> HIDE DEF M, A
<1>5. Adopt(L, policy, now).grants \subseteq F
  BY <1>1, <1>4 DEF Prune
<1>6. Aged(E, Adopt(L, policy, now))
  BY <1>3, <1>5 DEF Aged
<1> QED BY <1>2, <1>6, AgedTransitive

-----------------------------------------------------------------------------
(* What becomes of the charges.                                            *)

\* Version h of grant g is charged what g is, and settled if g is.
SameCharge(g, h) ==
  /\ Later(g, h) /\ h.accounted = g.accounted
  /\ h.status = "reconciled" <=> g.status = "reconciled"

\* A transition that settles nothing and grants nothing.
Steady(L, M) == \A h \in M.grants : \E g \in L.grants : SameCharge(g, h)

\* Grant h is the new grant s for request req.
GrantFor(h, s, req) ==
  /\ h.seq = s /\ h.key = req.key /\ h.purpose = req.purpose /\ h.recovers = req.recovers
  /\ h.envelope = req.envelope /\ h.accounted = req.envelope /\ h.status = "reserved"

\* A transition that settles nothing and grants at most what req asks for.
SteadyBut(L, M, req) ==
  \/ Steady(L, M) /\ M.next = L.next
  \/ /\ M.next = L.next + 1
     /\ \A h \in M.grants : (\E g \in L.grants : SameCharge(g, h)) \/ GrantFor(h, L.next, req)

\* Transitions made one after the other settle nothing either.
LEMMA SteadyTransitive ==
  ASSUME NEW L, NEW M, NEW N, Steady(L, M), Steady(M, N)
  PROVE  Steady(L, N)
<1> SUFFICES ASSUME NEW k \in N.grants PROVE \E g \in L.grants : SameCharge(g, k)
  BY DEF Steady
<1>1. PICK h \in M.grants : SameCharge(h, k)
  BY DEF Steady
<1>2. PICK g \in L.grants : SameCharge(g, h)
  BY DEF Steady
<1>3. SameCharge(g, k)
  BY <1>1, <1>2 DEF SameCharge, Later, SameGrant
<1> QED BY <1>3

\* A ledger whose grants are some of those there were settles nothing.
LEMMA FewerSteady ==
  ASSUME NEW L, NEW M, M.grants \subseteq L.grants
  PROVE  Steady(L, M)
BY DEF Steady, SameCharge, Later, SameGrant

\* "Expiry is never evidence that the credits were unused."
LEMMA ExpireSteady ==
  ASSUME NEW L, LedgerInv(L), NEW now \in Nat
  PROVE  Steady(L, Expire(L, now))
<1> DEFINE G == {ExpireGrant(g, now) : g \in L.grants}
           M == [L EXCEPT !.grants = G]
<1>1. L \in Ledger
  BY DEF LedgerInv
<1>2. \A g \in L.grants : SameCharge(g, ExpireGrant(g, now))
  BY <1>1 DEF ExpireGrant, Ledger, Grant, Statuses, SameGrant, Later, SameCharge
<1>3. M \in [policy : {L.policy}, next : {L.next}, allocs : {L.allocs}, grants : {G},
             closed : {L.closed}, defect : {L.defect}]
  BY <1>1 DEF Ledger
<1> HIDE DEF M
<1>4. Prune(M, now).grants \subseteq G
  BY <1>3 DEF Prune
<1> QED BY <1>2, <1>4 DEF Steady, Expire, M

\* Compaction changes no charge: it only moves it to the roll-up.
LEMMA CompactSteady ==
  ASSUME NEW L, LedgerInv(L), NEW g \in L.grants, NEW h \in Grant, SameCharge(g, h), NEW now \in Nat
  PROVE  Steady(L, Compact(L, h, now))
<1>1. \A k \in Compact(L, h, now).grants :
        \/ k \in L.grants
        \/ Later(g, k) /\ k.compacted /\ k.status = h.status /\ k.accounted = h.accounted
  BY CompactAged DEF SameCharge, Later
<1> QED BY <1>1 DEF Steady, SameCharge, Later, SameGrant

\* A new policy fences grants and keeps their charges.
LEMMA AdoptSteady ==
  ASSUME NEW L, LedgerInv(L), NEW policy \in Policy, NEW now \in Nat
  PROVE  Steady(L, Adopt(L, policy, now))
<1> DEFINE E == Expire(L, now)
           F == {Fence(g) : g \in E.grants}
           A == E.allocs \cup {policy.budgets[d].alloc : d \in Dims}
           M == [E EXCEPT !.policy = policy, !.allocs = A, !.grants = F]
<1>1. Adopt(L, policy, now) = Prune(M, now)
  BY DEF Adopt
<1>2. LedgerInv(E) /\ Steady(L, E)
  BY ExpireInv, ExpireSteady
<1> HIDE DEF E
<1>3. \A g \in E.grants : SameCharge(g, Fence(g))
  BY <1>2 DEF Fence, LedgerInv, Ledger, Grant, SameGrant, Later, SameCharge
<1>4. M \in [policy : {policy}, next : {E.next}, allocs : {A}, grants : {F},
             closed : {E.closed}, defect : {E.defect}]
  BY <1>2 DEF LedgerInv, Ledger
<1> HIDE DEF M, A
<1>5. Adopt(L, policy, now).grants \subseteq F
  BY <1>1, <1>4 DEF Prune
<1>6. Steady(E, Adopt(L, policy, now))
  BY <1>3, <1>5 DEF Steady
<1> QED BY <1>2, <1>6, SteadyTransitive

\* A reservation delivers a grant again, grants what was asked for, or nothing.
LEMMA ReserveSteady ==
  ASSUME NEW L, LedgerInv(L), NEW req \in Request, NEW clip
  PROVE  SteadyBut(L, Reserve(L, req, clip), req)
<1>1. L \in Ledger
  BY DEF LedgerInv
<1>2. CASE Redeliverable(L, req)
  <2> DEFINE again(g) == IF SameIdentity(g, req) THEN [g EXCEPT !.attempts = g.attempts + 1] ELSE g
  <2>1. \A g \in L.grants : SameCharge(g, again(g))
    BY <1>1 DEF Ledger, Grant, SameGrant, Later, SameCharge
  <2>2. Redeliver(L, req).grants = {again(g) : g \in L.grants} /\ Redeliver(L, req).next = L.next
    BY <1>1 DEF Redeliver, Ledger
  <2> HIDE DEF again
  <2> QED BY <1>2, <2>1, <2>2 DEF Reserve, Steady, SteadyBut
<1>3. CASE ~Redeliverable(L, req) /\ Grantable(L, req)
  <2> DEFINE g == NewGrant(L, req, clip)
  <2>1. GrantFor(g, L.next, req)
    BY DEF NewGrant, GrantFor
  <2> HIDE DEF g
  <2>2. AddGrant(L, req, clip).grants = L.grants \cup {g} /\ AddGrant(L, req, clip).next = L.next + 1
    BY <1>1 DEF AddGrant, Ledger, g
  <2>3. \A h \in L.grants : SameCharge(h, h)
    BY DEF SameCharge, Later, SameGrant
  <2> QED BY <1>3, <2>1, <2>2, <2>3 DEF Reserve, SteadyBut
<1>4. CASE ~Redeliverable(L, req) /\ ~Grantable(L, req)
  BY <1>4, FewerSteady DEF Reserve, SteadyBut
<1> QED BY <1>2, <1>3, <1>4

\* A settled grant is charged what was observed; the others are left alone.
LEMMA SettleCharges ==
  ASSUME NEW L, LedgerInv(L), NEW g \in L.grants, NEW ev \in Evident
  PROVE  \A k \in Settle(L, g, ev).grants :
           \/ k \in L.grants /\ k.seq # g.seq
           \/ Later(g, k) /\ k.status = "reconciled" /\ k.accounted = ev.observed
<1> DEFINE h == [g EXCEPT !.status = "reconciled", !.accounted = ev.observed]
           R == Replace(L, h)
           c == [h EXCEPT !.compacted = TRUE]
<1>1. L \in Ledger /\ ev.now \in Nat
  BY DEF LedgerInv, Evident
<1>2. /\ h \in Grant /\ Later(g, h) /\ SameGrant(g, h)
      /\ h.status = "reconciled" /\ h.accounted = ev.observed /\ h.seq = g.seq
  <2>1. g \in Grant /\ ev.observed \in Amounts
    BY <1>1 DEF Ledger, Evident
  <2> QED BY <2>1 DEF Grant, Statuses, SameGrant, Later
<1>3. \/ Settle(L, g, ev) = [R EXCEPT !.defect = TRUE]
      \/ Settle(L, g, ev) = Prune(R, ev.now)
      \/ Settle(L, g, ev) = Compact(L, h, ev.now)
      \/ Settle(L, g, ev) = R
  BY DEF Settle
<1> HIDE DEF h
<1>4. R.grants = {k \in L.grants : k.seq # g.seq} \cup {h} /\ LedgerInv(R)
  BY <1>1, <1>2, ReplaceInv DEF Replace, Ledger
<1> HIDE DEF R
<1>5. /\ Prune(R, ev.now).grants \subseteq R.grants
      /\ [R EXCEPT !.defect = TRUE].grants = R.grants
  BY <1>1, <1>4, PruneInv DEF LedgerInv, Ledger
<1>6. \A k \in Compact(L, h, ev.now).grants :
        \/ k \in L.grants /\ k.seq # g.seq
        \/ Later(g, k) /\ k.status = "reconciled" /\ k.accounted = ev.observed
  <2>1. \A k \in Compact(L, h, ev.now).grants :
          \/ k \in L.grants \ {g}
          \/ Later(g, k) /\ k.status = h.status /\ k.accounted = h.accounted
    BY <1>1, <1>2, CompactAged
  <2>2. \A k \in L.grants \ {g} : k.seq # g.seq
    BY DEF LedgerInv, Numbered
  <2> QED BY <1>2, <2>1, <2>2
<1> QED BY <1>2, <1>3, <1>4, <1>5, <1>6

\* So does a reconciliation, with or without the recovery grant it retires.
LEMMA ReconcileCharges ==
  ASSUME NEW L, LedgerInv(L), NEW g \in L.grants, NEW ev \in Evident, Closable(L, g, ev)
  PROVE  \A k \in Reconcile(L, g, ev).grants :
           \/ k \in L.grants /\ k.seq # g.seq
           \/ Later(g, k) /\ k.status = "reconciled" /\ k.accounted = ev.observed
           \/ /\ k.purpose = "recovery" /\ k.status = "reconciled" /\ k.seq # g.seq
              /\ \E r \in L.grants : Later(r, k)
<1> DEFINE S == Settle(L, g, ev)
           r == CHOOSE k \in Open(L) : k.seq = ev.recovery
           h == [r EXCEPT !.status = "reconciled", !.accounted = r.envelope]
<1>1. /\ LedgerInv(S)
      /\ \A k \in L.grants : k.seq # g.seq /\ ~k.compacted => k \in S.grants
      /\ \A k \in S.grants :
           \/ k \in L.grants /\ k.seq # g.seq
           \/ Later(g, k) /\ k.status = "reconciled" /\ k.accounted = ev.observed
  BY SettleInv, SettleCharges
<1> HIDE DEF S
<1>2. CASE ev.recovery = 0 \/ Overruns(g, ev)
  BY <1>1, <1>2 DEF Reconcile, S
<1>3. CASE ~(ev.recovery = 0 \/ Overruns(g, ev))
  <2>1. Reconcile(L, g, ev) = Compact(S, h, ev.now)
    BY <1>3 DEF Reconcile, S
  <2>2. PICK k \in Open(L) : /\ k.seq = ev.recovery /\ k.purpose = "recovery"
                             /\ g.purpose = "new-work"
    BY <1>3 DEF Closable, RecoveryMatches
  <2>3. r \in Open(L) /\ r.seq = ev.recovery
    BY <2>2
  <2> HIDE DEF r
  <2>4. r = k
    BY <2>2, <2>3 DEF Open, LedgerInv, Numbered
  <2>5. r \in L.grants /\ ~r.compacted /\ r.seq # g.seq /\ r.purpose = "recovery"
    BY <2>2, <2>3, <2>4 DEF Open, LedgerInv, Numbered
  <2>6. r \in S.grants /\ r \in Grant
    BY <1>1, <2>5 DEF LedgerInv, Ledger
  <2>7. h \in Grant /\ SameGrant(r, h) /\ ev.now \in Nat /\ h.status = "reconciled"
    BY <2>6 DEF Grant, SameGrant, Evident, Statuses
  <2> HIDE DEF h
  <2>8. \A j \in Compact(S, h, ev.now).grants :
          j \in S.grants \ {r} \/ (Later(r, j) /\ j.status = h.status)
    BY <1>1, <2>6, <2>7, CompactAged
  <2>9. \A j : Later(r, j) => j.purpose = "recovery" /\ j.seq # g.seq
    BY <2>5 DEF Later, SameGrant
  <2> QED BY <1>1, <2>1, <2>5, <2>7, <2>8, <2>9
<1> QED BY <1>2, <1>3

=============================================================================
