-------------------------- MODULE MCOwnerAggregate --------------------------
(***************************************************************************)
(* Instances of OwnerAggregate for TLC: one dimension, two intervals that  *)
(* follow each other and two stock allocations, and authorities of one or  *)
(* two revisions over them.                                                *)
(***************************************************************************)
EXTENDS OwnerAggregate, TLC

CONSTANTS
  Width,        \* length of an interval
  Lifetime,     \* maxGrantLifetimeMs
  OwnerLimit,   \* units the owner allows each purpose
  TenantLimit   \* units a tenant allows each purpose

OneDim == {"d"}
Units(n) == [d \in OneDim |-> n]
UpTo1 == {Units(u) : u \in 0 .. 1}
UpTo2 == {Units(u) : u \in 0 .. 2}

Want(k, p, n) == [key |-> k, purpose |-> p, envelope |-> Units(n)]

\* Demand, by ledger.
NoDemand == {}
NewWorkEach ==
  [l \in 0 .. NumTenants |-> {Want(IF l = 0 THEN "i" ELSE "a", "new-work", 1)}]
TwoUnits ==
  (0 :> {}) @@ (1 :> {Want("a", "new-work", 2), Want("b", "new-work", 1),
                      Want("r", "recovery", 1)})
TwoTenants ==
  (0 :> {}) @@ (1 :> {Want("a", "new-work", 1), Want("r", "recovery", 1)}) @@
  (2 :> {Want("b", "new-work", 1)})
IngressBlocks ==
  (0 :> {Want("i", "new-work", 2)}) @@ (1 :> {Want("a", "new-work", 2)})
TwoTenantKeys == (0 :> {}) @@ (1 :> {Want("a", "new-work", 1), Want("b", "new-work", 1)})
OneAnonymous == {Want("x", "new-work", 1)}
UnevenAnonymous == {Want("x", "new-work", 2), Want("y", "new-work", 1)}

AllocIds == {"day1", "day2", "stockA", "stockB"}
AllocWindows ==
  [a \in AllocIds |->
    [dim |-> "d", stock |-> a \in {"stockA", "stockB"},
     startsAt |-> IF a = "day2" THEN Width ELSE 0,
     endsAt |-> IF a = "day2" THEN 2 * Width ELSE Width]]

\* A policy that keeps half of each budget for recovery.
PolicyOn(a, revision, restriction, limit) ==
  [revision |-> revision, restriction |-> restriction, lifetime |-> Lifetime,
   budgets |-> [d \in OneDim |->
                 [alloc |-> a, limit |-> Partition(2 * limit, 50)]]]

AuthorityOn(a, revision, restriction) ==
  [revoked |-> FALSE,
   policies |-> [l \in 0 .. NumTenants |->
     PolicyOn(a, revision, IF l = 0 THEN 1 ELSE restriction,
              IF l = 0 THEN OwnerLimit ELSE TenantLimit)]]

\* One authority for good; the next interval; a revocation lifted by a third
\* revision; a revision that keeps the allocation, and one that replaces it.
Steady == <<AuthorityOn("day1", 1, 1)>>
NextDay == <<AuthorityOn("day1", 1, 1), AuthorityOn("day2", 2, 1)>>
Suspended == <<AuthorityOn("day1", 1, 1),
               [AuthorityOn("day1", 1, 1) EXCEPT !.revoked = TRUE],
               AuthorityOn("day1", 1, 1)>>
NextStock == <<AuthorityOn("stockA", 1, 1), AuthorityOn("stockA", 2, 1)>>
Restocked == <<AuthorityOn("stockA", 1, 1), AuthorityOn("stockB", 2, 1)>>

=============================================================================
