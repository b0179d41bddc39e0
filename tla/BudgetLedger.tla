---------------------------- MODULE BudgetLedger ----------------------------
(***************************************************************************)
(* The transitions of one budget ledger: the pure functions of             *)
(* src/apps/server/src/budgets/coordinator-state.ts.  A ledger is the      *)
(* record that file calls BudgetCoordinatorState.  The operators below are *)
(* composed into RPC handlers by module OwnerAggregate.                    *)
(*                                                                         *)
(* Abstractions.  A holder id together with its idempotency key is one     *)
(* element of Keys.  An allocation (dimension, allocation id, window id)   *)
(* is one element of Allocs.  A dimension a policy leaves out is one whose *)
(* limits are zero.  A ledger's list of capacity defects is the flag       *)
(* "defect": the code only asks whether the list is empty.  Charges are    *)
(* counted as sets of units, so that a total is the size of a set.         *)
(***************************************************************************)
EXTENDS Integers, FiniteSets

CONSTANTS
  Dims,             \* resource dimensions
  Allocs,           \* allocations (dimension, allocation id, window id)
  AllocInfo,        \* Allocs -> [dim, stock, startsAt, endsAt]
  Keys,             \* (holder id, idempotency key) identities
  MaxReservations,  \* concurrent reservation slots of an owner
  MaxRetained,      \* MAX_RETAINED_BUDGET_GRANTS
  MaxSeedAttempts   \* MAX_HOLDER_SEED_ATTEMPTS

Window == [dim : Dims, stock : BOOLEAN, startsAt : Nat, endsAt : Nat]

ASSUME AllocAssumption ==
  /\ IsFiniteSet(Dims)
  /\ AllocInfo \in [Allocs -> Window]

ASSUME BoundAssumption ==
  /\ MaxReservations \in Nat \ {0}
  /\ MaxRetained \in Nat \ {0}
  /\ MaxSeedAttempts \in Nat \ {0}

-----------------------------------------------------------------------------
(* Types.                                                                  *)

Purposes == {"new-work", "recovery"}
Statuses == {"reserved", "uncertain", "reconciled"}
Amounts == [Dims -> Nat]
Nothing == [d \in Dims |-> 0]

\* One budget line of a policy: the allocation it draws on and what each
\* purpose may hold of it.
Budget == [alloc : Allocs, limit : [Purposes -> Nat]]
Policy == [revision : Nat, restriction : Nat, lifetime : Nat,
           budgets : [Dims -> Budget]]

\* recovers is 0 when the grant recovers nothing.
Grant == [seq : Nat \ {0}, key : Keys, purpose : Purposes, recovers : Nat,
          policy : Nat, restriction : Nat, expiresAt : Nat,
          status : Statuses, compacted : BOOLEAN, attempts : Nat,
          envelope : Amounts, accounted : Amounts, alloc : [Dims -> Allocs]]

Ledger == [policy : Policy, next : Nat \ {0}, allocs : SUBSET Allocs,
           grants : SUBSET Grant, closed : [Allocs -> [Purposes -> Nat]],
           defect : BOOLEAN]

-----------------------------------------------------------------------------
(* Allocations and charges.                                                *)

\* The 80/20 split of a limit, rounded down for new work.
Partition(limit, recoveryPercent) ==
  LET newWork == (limit * (100 - recoveryPercent)) \div 100
  IN [p \in Purposes |-> IF p = "new-work" THEN newWork ELSE limit - newWork]

Ended(a, now) == ~AllocInfo[a].stock /\ now >= AllocInfo[a].endsAt

\* The roll-up a closed charge on allocation a belongs to: all the stock
\* allocations of a dimension share one, an interval has its own.
Account(a) ==
  IF AllocInfo[a].stock
  THEN CHOOSE b \in Allocs : AllocInfo[b].stock /\ AllocInfo[b].dim = AllocInfo[a].dim
  ELSE a

Refs(g) == {g.alloc[d] : d \in {e \in Dims : g.envelope[e] > 0}}

\* Mutant of Open: a compacted grant still counts.
OpenOrCompacted(L) == L.grants

Open(L) == {g \in L.grants : ~g.compacted}

ActiveAllocs(L) == {L.policy.budgets[d].alloc : d \in Dims}

\* The units open grants hold on allocation a, and those rolled up for it.
OpenUnits(L, a, p) ==
  UNION {{g.seq} \X (1 .. g.accounted[AllocInfo[a].dim]) :
           g \in {h \in Open(L) : h.purpose = p /\ a \in Refs(h)}}

ClosedUnits(L, a, p) == {0} \X (1 .. L.closed[Account(a)][p])

Charged(L, a, p) == Cardinality(OpenUnits(L, a, p) \cup ClosedUnits(L, a, p))

-----------------------------------------------------------------------------
(* Housekeeping: pruning, expiry, compaction.                              *)

NewLedger(policy) ==
  [policy |-> policy, next |-> 1,
   allocs |-> {policy.budgets[d].alloc : d \in Dims}, grants |-> {},
   closed |-> [a \in Allocs |-> [p \in Purposes |-> 0]], defect |-> FALSE]

\* Mutant of Prune: allocations that grants still draw on are dropped.
PruneReferenced(L, now) ==
  [L EXCEPT
    !.closed = [a \in Allocs |-> [p \in Purposes |->
                  IF Ended(a, now) THEN 0 ELSE L.closed[a][p]]],
    !.allocs = {a \in L.allocs :
                  a \in ActiveAllocs(L) \/ (~AllocInfo[a].stock /\ ~Ended(a, now))},
    !.grants = {g \in L.grants :
                  ~g.compacted \/ g.status # "reconciled" \/ now < g.expiresAt}]

Prune(L, now) ==
  [L EXCEPT
    !.closed = [a \in Allocs |-> [p \in Purposes |->
                  IF Ended(a, now) THEN 0 ELSE L.closed[a][p]]],
    !.allocs = {a \in L.allocs :
                  \/ a \in ActiveAllocs(L)
                  \/ \E g \in L.grants : a \in Refs(g)
                  \/ ~AllocInfo[a].stock /\ ~Ended(a, now)},
    !.grants = {g \in L.grants :
                  ~g.compacted \/ g.status # "reconciled" \/ now < g.expiresAt}]

ExpireGrant(g, now) ==
  IF g.status = "reserved" /\ now >= g.expiresAt
  THEN [g EXCEPT !.status = "uncertain"] ELSE g

\* Expiry is never evidence that the credits were unused: they stay charged.
Expire(L, now) ==
  Prune([L EXCEPT !.grants = {ExpireGrant(g, now) : g \in L.grants}], now)

Replace(L, g) ==
  [L EXCEPT !.grants = {h \in L.grants : h.seq # g.seq} \cup {g}]

\* Mutant of Compact: what was not used is refunded from the roll-up.
CompactRefunding(L, g, now) ==
  LET touched == {Account(a) : a \in Refs(g)}
      rolled  == [a \in Allocs |-> [p \in Purposes |->
                    L.closed[a][p] + IF p = g.purpose /\ a \in touched
                                     THEN g.accounted[AllocInfo[a].dim] - g.envelope[AllocInfo[a].dim]
                                     ELSE 0]]
  IN Prune([Replace(L, [g EXCEPT !.compacted = TRUE]) EXCEPT !.closed = rolled], now)

\* g, in the version given, gives up its slot and its charge is rolled up.
Compact(L, g, now) ==
  LET touched == {Account(a) : a \in Refs(g)}
      rolled  == [a \in Allocs |-> [p \in Purposes |->
                    L.closed[a][p] + IF p = g.purpose /\ a \in touched
                                     THEN g.accounted[AllocInfo[a].dim] ELSE 0]]
  IN Prune([Replace(L, [g EXCEPT !.compacted = TRUE]) EXCEPT !.closed = rolled], now)

\* Mutant of Retirable: nothing but a reservation can mark a grant expired.
RetirableUncertain(L, now) ==
  {g \in Open(L) : /\ g.purpose = "new-work"
                   /\ now >= g.expiresAt
                   /\ g.status = "uncertain"
                   /\ g.accounted = g.envelope}

\* Expired new work whose whole envelope is still charged may be closed
\* without evidence.  (accounted = envelope until a reconciliation.)
Retirable(L, now) ==
  {g \in Open(L) : /\ g.purpose = "new-work"
                   /\ now >= g.expiresAt
                   /\ g.status \in {"reserved", "uncertain"}
                   /\ g.accounted = g.envelope}

-----------------------------------------------------------------------------
(* reserveBudgetGrant.  A request carries the revisions its caller read.   *)

SameIdentity(g, req) == g.key = req.key /\ g.purpose = req.purpose

\* Mutant of Prior: a compacted grant is forgotten.
OpenPrior(L, req) == {g \in Open(L) : SameIdentity(g, req)}

Prior(L, req) == {g \in L.grants : SameIdentity(g, req)}

Stale(L, req) ==
  req.policy # L.policy.revision \/ req.restriction # L.policy.restriction

\* A recovery names an existing new-work grant of the same revisions.
RecoveryLinked(L, req) ==
  req.recovers # 0 =>
    /\ req.purpose = "recovery"
    /\ \E g \in L.grants : /\ g.seq = req.recovers
                           /\ g.purpose = "new-work"
                           /\ g.policy = req.policy
                           /\ g.restriction = req.restriction

Admissible(L, req) == ~Stale(L, req) /\ RecoveryLinked(L, req)

\* The code throws: the identity was used for something else.
Conflicts(L, req) ==
  /\ Admissible(L, req)
  /\ \E g \in Prior(L, req) : g.envelope # req.envelope \/ g.recovers # req.recovers

Redeliverable(L, req) ==
  /\ Admissible(L, req)
  /\ \E g \in Prior(L, req) : g.attempts < MaxSeedAttempts

Redeliver(L, req) ==
  [L EXCEPT !.grants =
     {IF SameIdentity(g, req) THEN [g EXCEPT !.attempts = g.attempts + 1] ELSE g :
        g \in L.grants}]

RecoveryOpen(L, req) ==
  req.recovers # 0 =>
    /\ \A g \in L.grants : g.seq = req.recovers => g.status # "reconciled"
    /\ Cardinality({g \in L.grants : g.recovers = req.recovers}) < 2

\* One of the slots is reserved for recovery.
SlotFree(L, req) ==
  /\ Cardinality(Open(L)) < MaxReservations
  /\ req.purpose = "new-work" =>
       Cardinality({g \in Open(L) : g.purpose = "new-work"}) < MaxReservations - 1
  /\ Cardinality(L.grants) < MaxRetained

Demanded(req) == {d \in Dims : req.envelope[d] > 0}

\* Mutant of Affordable: closed charges do not count.
AffordableOpen(L, req) ==
  \A d \in Demanded(req) :
    LET budget == L.policy.budgets[d]
    IN Cardinality(OpenUnits(L, budget.alloc, req.purpose)) + req.envelope[d]
         <= budget.limit[req.purpose]

Affordable(L, req) ==
  \A d \in Demanded(req) :
    LET budget == L.policy.budgets[d]
    IN Charged(L, budget.alloc, req.purpose) + req.envelope[d] <= budget.limit[req.purpose]

\* Every interval allocation drawn on is running at req.now.
InWindow(L, req) ==
  \A d \in Demanded(req) :
    LET w == AllocInfo[L.policy.budgets[d].alloc]
    IN w.stock \/ (w.startsAt <= req.now /\ req.now < w.endsAt)

\* The times at which a grant could expire; it expires at the earliest.
ExpiryLimits(L, req) ==
  {req.now + L.policy.lifetime} \cup
  {AllocInfo[a].endsAt : a \in {L.policy.budgets[d].alloc : d \in Demanded(req)}
                               \ {b \in Allocs : AllocInfo[b].stock}}

Earliest(S) == CHOOSE t \in S : \A u \in S : t <= u

Grantable(L, req) ==
  /\ Admissible(L, req)
  /\ Prior(L, req) = {}
  /\ RecoveryOpen(L, req)
  /\ ~L.defect
  /\ SlotFree(L, req)
  /\ Affordable(L, req)
  /\ InWindow(L, req)
  /\ Earliest(ExpiryLimits(L, req)) > req.now

\* clip is the lease end of the authority that approves the grant.
NewGrant(L, req, clip) ==
  [seq |-> L.next, key |-> req.key, purpose |-> req.purpose,
   recovers |-> req.recovers, policy |-> L.policy.revision,
   restriction |-> L.policy.restriction,
   expiresAt |-> Earliest(ExpiryLimits(L, req) \cup clip),
   status |-> "reserved", compacted |-> FALSE, attempts |-> 1,
   envelope |-> req.envelope, accounted |-> req.envelope,
   alloc |-> [d \in Dims |-> L.policy.budgets[d].alloc]]

AddGrant(L, req, clip) ==
  [L EXCEPT !.grants = L.grants \cup {NewGrant(L, req, clip)}, !.next = L.next + 1]

\* L is already expired at req.now; every rejection returns it unchanged.
Reserve(L, req, clip) ==
  IF Redeliverable(L, req) THEN Redeliver(L, req)
  ELSE IF Grantable(L, req) THEN AddGrant(L, req, clip)
  ELSE L

-----------------------------------------------------------------------------
(* reconcileBudgetGrant.  ev is the evidence: the grant it closes, the     *)
(* terminal evidence id, what was observed (measured plus uncertain),      *)
(* whether the closure journal certified it, whether it only acknowledges  *)
(* an expiry, and the recovery grant it retires (0 for none).              *)

ExpiryAccounted(g) == g.compacted /\ g.status = "uncertain"

RecoveryMatches(L, g, ev) ==
  ev.recovery # 0 =>
    \E r \in Open(L) : /\ r.seq = ev.recovery
                       /\ r.purpose = "recovery"
                       /\ r.status = "reserved"
                       /\ r.recovers = g.seq
                       /\ g.purpose = "new-work"
                       /\ r.key = ev.key
                       /\ r.policy = g.policy
                       /\ r.restriction = g.restriction

\* L is already expired at ev.now.
Closable(L, g, ev) ==
  /\ g.status # "reconciled"
  /\ ev.certified /\ ~ev.acknowledges => ev.now < g.expiresAt
  /\ ev.acknowledges => ev.now >= g.expiresAt /\ ev.observed = g.envelope
  /\ ExpiryAccounted(g) => ev.acknowledges
  /\ RecoveryMatches(L, g, ev)

Overruns(g, ev) == \E d \in Dims : ev.observed[d] > g.envelope[d]

\* Mutant of Settle: acknowledging an expiry rolls its charge up again.
SettleTwice(L, g, ev) ==
  LET settled == [g EXCEPT !.status = "reconciled", !.accounted = ev.observed]
  IN IF Overruns(g, ev) THEN [Replace(L, settled) EXCEPT !.defect = TRUE]
     ELSE IF ev.certified THEN Compact(L, settled, ev.now)
     ELSE Replace(L, settled)

Settle(L, g, ev) ==
  LET settled == [g EXCEPT !.status = "reconciled", !.accounted = ev.observed]
  IN IF Overruns(g, ev) THEN [Replace(L, settled) EXCEPT !.defect = TRUE]
     ELSE IF ExpiryAccounted(g) THEN Prune(Replace(L, settled), ev.now)
     ELSE IF ev.certified THEN Compact(L, settled, ev.now)
     ELSE Replace(L, settled)

\* The paired recovery grant retires in the same step, fully charged.
Reconcile(L, g, ev) ==
  LET settled == Settle(L, g, ev)
      recovery == CHOOSE r \in Open(L) : r.seq = ev.recovery
  IN IF ev.recovery = 0 \/ Overruns(g, ev)
     THEN settled
     ELSE Compact(settled,
                  [recovery EXCEPT !.status = "reconciled", !.accounted = recovery.envelope],
                  ev.now)

-----------------------------------------------------------------------------
(* applyTrustedCoordinatorAuthority: a later policy fences what was        *)
(* granted before it, without releasing a charge.                          *)

\* Mutant of Fence: earlier grants stay spendable.
Unfenced(g) == g

Fence(g) == IF g.status = "reserved" THEN [g EXCEPT !.status = "uncertain"] ELSE g

Adopt(L, policy, now) ==
  LET current == Expire(L, now)
  IN Prune([current EXCEPT
              !.policy = policy,
              !.allocs = current.allocs \cup {policy.budgets[d].alloc : d \in Dims},
              !.grants = {Fence(g) : g \in current.grants}], now)

=============================================================================
