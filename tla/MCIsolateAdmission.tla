------------------------- MODULE MCIsolateAdmission -------------------------
(* One scope of one isolate, one tenant and one dimension. *)
EXTENDS IsolateAdmission, TLC

CONSTANTS
  Lifetime,     \* maxGrantLifetimeMs
  Limit         \* units for new work, and as many for recovery

OneDim == {"d"}
Units(n) == [d \in OneDim |-> n]
OneUnit == Units(1)

\* Two intervals of two ticks each.
Days == {"day1", "day2"}
DayWindows ==
  [a \in Days |-> [dim |-> "d", stock |-> FALSE, startsAt |-> IF a = "day1" THEN 0 ELSE 2,
                   endsAt |-> IF a = "day1" THEN 2 ELSE 4]]

BlockKeys == (1 .. MaxHolders) \X (0 .. BlockSize)

PolicyOn(day, revision, restriction) ==
  [revision |-> revision, restriction |-> restriction, lifetime |-> Lifetime,
   budgets |-> [d \in OneDim |-> [alloc |-> day, limit |-> Partition(2 * Limit, 50)]]]

AuthorityOn(day, revision) ==
  [revoked |-> FALSE, policies |-> [l \in 0 .. 1 |-> PolicyOn(day, revision, 1)]]

NextDay == <<AuthorityOn("day1", 1), AuthorityOn("day2", 2)>>

\* What goes wrong in one behaviour.
Quiet == [losses |-> 0, evictions |-> 0, edits |-> 0, rivals |-> 0]
FewFaults == {[Quiet EXCEPT !.losses = 1], [Quiet EXCEPT !.evictions = 1],
              [Quiet EXCEPT !.edits = 1], [Quiet EXCEPT !.rivals = 1]}

NoDemand == [l \in 0 .. 1 |-> {}]

\* Two attempts of one operation, and one of another.
TwoOps == {"x", "y"}
CONSTANTS a1, a2, b
ThreeAttempts == {a1, a2, b}
RetryAndOther == (a1 :> "x") @@ (a2 :> "x") @@ (b :> "y")
Alike == Permutations({a1, a2})
=============================================================================
