------------------------- MODULE BudgetAuditProofs -------------------------
(***************************************************************************)
(* The auditor's books and the coordinator's accounts agree, for any       *)
(* number of tenants, any sequence of authorities, any callers and bounds. *)
(* The books of one ledger are a set B of charged units.                   *)
(***************************************************************************)
EXTENDS BudgetAudit, OwnerLimitsProofs

-----------------------------------------------------------------------------
(* The invariant of a ledger and its books.                                *)

\* The allocations the owner ever publishes for a dimension.
Offered(d) == {Authority[r].policies[Ingress].budgets[d].alloc : r \in Revisions}

\* The owner does not replace the stock allocation of a dimension by another.
OneStock ==
  \A d \in Dims : \A a, b \in Offered(d) : AllocInfo[a].stock /\ AllocInfo[b].stock => a = b

\* A grant is charged its envelope until evidence settles it, and one that is
\* closed cannot be spent.
Unsettled(L) ==
  \A g \in L.grants : /\ g.status # "reconciled" => g.accounted = g.envelope
                      /\ g.compacted => g.status # "reserved"

\* A ledger's terms, and what its grants draw on, were published.
OnTerms(l, L) ==
  /\ \E r \in Revisions : L.policy = Authority[r].policies[l]
  /\ \A g \in L.grants, d \in Dims : g.alloc[d] \in Offered(d)

Sound(l, L) == LedgerInv(L) /\ Unsettled(L) /\ OnTerms(l, L)

\* Version h of grant g is charged what g is.
Billed(g, h) ==
  /\ h.seq = g.seq /\ h.purpose = g.purpose
  /\ h.envelope = g.envelope /\ h.alloc = g.alloc /\ h.accounted = g.accounted

\* The books once the charges of ledger l are those of M.
BookOf(l, B, M) ==
  {e \in B : \A g \in M.grants : g.seq # e[2]} \cup UNION {UnitsOf(l, g) : g \in M.grants}

\* The units on account b whose grant was closed, or is forgotten.
Gone(L, B, b, p) ==
  {e \in B : e[4] = b /\ e[5] = p /\ \A g \in L.grants : g.seq = e[2] => g.compacted}

\* The books hold what each grant is charged, and of the grants that are closed
\* or forgotten as much as was rolled up.
Balanced(l, L, B, t) ==
  /\ \A g \in L.grants : {e \in B : e[2] = g.seq} = UnitsOf(l, g)
  /\ \A e \in B : e[1] = l /\ e[2] \in Nat /\ e[2] < L.next
  /\ \A b \in Allocs, p \in Purposes :
       ~Ended(b, t) => /\ IsFiniteSet(Gone(L, B, b, p))
                       /\ Cardinality(Gone(L, B, b, p)) = L.closed[b][p]

\* Transition L -> M, made at time now, keeps the books balanced.
Goes(l, L, M, now) ==
  \A B : \A t \in Nat :
    now <= t /\ Balanced(l, L, B, t) => Balanced(l, M, BookOf(l, B, M), t)
-----------------------------------------------------------------------------
(* Units.                                                                  *)

\* The rows of a grant name its ledger, its number and its purpose.
LEMMA UnitsForm ==
  ASSUME NEW l, NEW g, NEW e \in UnitsOf(l, g)
  PROVE  /\ e[1] = l /\ e[2] = g.seq /\ e[5] = g.purpose
         /\ \E a \in Refs(g) : \E u \in 1 .. g.accounted[AllocInfo[a].dim] :
              e = <<l, g.seq, u, Account(a), g.purpose>>
<1>1. PICK a \in Refs(g) : \E u \in 1 .. g.accounted[AllocInfo[a].dim] :
             e = <<l, g.seq, u, Account(a), g.purpose>>
  BY DEF UnitsOf
<1>2. PICK u \in 1 .. g.accounted[AllocInfo[a].dim] : e = <<l, g.seq, u, Account(a), g.purpose>>
  BY <1>1
<1> QED BY <1>2

\* Versions with one bill have the same rows.
LEMMA BilledUnits == ASSUME NEW l, NEW g, NEW h, Billed(g, h) PROVE UnitsOf(l, h) = UnitsOf(l, g)
<1>1. Refs(h) = Refs(g)
  BY DEF Billed, Refs
<1> QED BY <1>1 DEF Billed, UnitsOf

\* An account is an allocation of the same dimension; the account of an interval
\* is itself, that of a stock allocation a stock allocation.
LEMMA AccountForm ==
  ASSUME NEW a \in Allocs
  PROVE  /\ Account(a) \in Allocs
         /\ AllocInfo[Account(a)].dim = AllocInfo[a].dim
         /\ AllocInfo[Account(a)].stock = AllocInfo[a].stock
         /\ ~AllocInfo[a].stock => Account(a) = a
<1>1. CASE ~AllocInfo[a].stock
  BY <1>1 DEF Account
<1>2. CASE AllocInfo[a].stock
  <2> DEFINE Same(b) == AllocInfo[b].stock /\ AllocInfo[b].dim = AllocInfo[a].dim
             c == CHOOSE b \in Allocs : Same(b)
  <2>1. c \in Allocs /\ Same(c)
    <3>1. \E b \in Allocs : Same(b)
      BY <1>2
    <3> HIDE DEF Same
    <3> QED BY <3>1
  <2>2. Account(a) = c
    BY <1>2 DEF Account
  <2> HIDE DEF c
  <2>3. AllocInfo[c].stock = TRUE /\ AllocInfo[a].stock = TRUE
    BY <1>2, <2>1, AllocAssumption DEF Window
  <2> QED BY <1>2, <2>1, <2>2, <2>3
<1> QED BY <1>1, <1>2

\* What a grant refers to are allocations.
LEMMA RefsType == ASSUME NEW g \in Grant PROVE Refs(g) \subseteq Allocs
BY DEF Refs, Grant

-----------------------------------------------------------------------------
(* Transitions that move no charge to the roll-up, and the one that does.  *)

\* An allocation that is running later was running before.
LEMMA EndedLater ==
  ASSUME NEW b \in Allocs, NEW now \in Nat, NEW t \in Nat, now <= t, ~Ended(b, t)
  PROVE  ~Ended(b, now)
<1>1. AllocInfo[b].endsAt \in Nat
  BY AllocAssumption DEF Window
<1> QED BY <1>1 DEF Ended

\* The rows of a grant in the books are its own.
LEMMA BookRows ==
  ASSUME NEW l, NEW M, LedgerInv(M), NEW B, NEW g \in M.grants
  PROVE  {e \in BookOf(l, B, M) : e[2] = g.seq} = UnitsOf(l, g)
<1>1. \A h \in M.grants : h.seq = g.seq => h = g
  BY DEF LedgerInv, Numbered
<1>2. \A h \in M.grants : \A e \in UnitsOf(l, h) : e[2] = h.seq
  BY UnitsForm
<1>3. ASSUME NEW e \in BookOf(l, B, M), e[2] = g.seq
      PROVE  e \in UnitsOf(l, g)
  BY <1>1, <1>2, <1>3 DEF BookOf
<1>4. ASSUME NEW e \in UnitsOf(l, g)
      PROVE  e \in BookOf(l, B, M) /\ e[2] = g.seq
  BY <1>2 DEF BookOf
<1> QED BY <1>3, <1>4

\* The rows of the books are the ledger's, of grants that were made.
LEMMA BookForm ==
  ASSUME NEW l, NEW L, NEW M, LedgerInv(M), L.next \in Nat, L.next <= M.next, NEW B,
         \A e \in B : e[1] = l /\ e[2] \in Nat /\ e[2] < L.next
  PROVE  \A e \in BookOf(l, B, M) : e[1] = l /\ e[2] \in Nat /\ e[2] < M.next
<1> SUFFICES ASSUME NEW e \in BookOf(l, B, M)
             PROVE  e[1] = l /\ e[2] \in Nat /\ e[2] < M.next
  OBVIOUS
<1>1. M.next \in Nat
  BY DEF LedgerInv, Ledger
<1>2. CASE e \in B
  BY <1>1, <1>2
<1>3. CASE e \notin B
  <2>1. PICK g \in M.grants : e \in UnitsOf(l, g)
    BY <1>3 DEF BookOf
  <2>2. g.seq \in Nat /\ g.seq < M.next
    BY DEF LedgerInv, Ledger, Numbered, Grant
  <2> QED BY <2>1, <2>2, UnitsForm
<1> QED BY <1>2, <1>3

\* New grants are open, old ones stay open or closed; what is closed is billed
\* as before, what is dropped was closed, and the roll-ups of running
\* allocations are left alone.
Even(L, M, now) ==
  /\ L.next <= M.next
  /\ \A b \in Allocs, p \in Purposes : ~Ended(b, now) => M.closed[b][p] = L.closed[b][p]
  /\ \A h \in M.grants :
       \/ h.seq >= L.next /\ ~h.compacted
       \/ \E g \in L.grants : /\ g.seq = h.seq
                              /\ g.compacted <=> h.compacted
                              /\ g.compacted => Billed(g, h)
  /\ \A g \in L.grants : ~g.compacted => \E h \in M.grants : h.seq = g.seq

LEMMA EvenGoes ==
  ASSUME NEW l, NEW L, LedgerInv(L), NEW M, LedgerInv(M), NEW now \in Nat, Even(L, M, now)
  PROVE  Goes(l, L, M, now)
<1> SUFFICES ASSUME NEW B, NEW t \in Nat, now <= t, Balanced(l, L, B, t)
             PROVE  Balanced(l, M, BookOf(l, B, M), t)
  BY DEF Goes
<1> DEFINE C == BookOf(l, B, M)
<1>1. L.next \in Nat /\ L.next <= M.next
  BY DEF LedgerInv, Ledger, Even
<1>2. \A g \in M.grants : {e \in C : e[2] = g.seq} = UnitsOf(l, g)
  BY BookRows
<1>3. \A e \in C : e[1] = l /\ e[2] \in Nat /\ e[2] < M.next
  BY <1>1, BookForm DEF Balanced
<1>4. ASSUME NEW b \in Allocs, NEW p \in Purposes
      PROVE  Gone(M, C, b, p) = Gone(L, B, b, p)
  <2>1. ASSUME NEW e \in Gone(M, C, b, p)
        PROVE  e \in Gone(L, B, b, p)
    <3>1. e \in C /\ e[4] = b /\ e[5] = p /\ \A h \in M.grants : h.seq = e[2] => h.compacted
      BY <2>1 DEF Gone
    <3>2. CASE e \in B /\ \A h \in M.grants : h.seq # e[2]
      <4>1. \A g \in L.grants : g.seq = e[2] => g.compacted
        BY <3>2 DEF Even
      <4> QED BY <3>1, <3>2, <4>1 DEF Gone
    <3>3. CASE \E h \in M.grants : e \in UnitsOf(l, h)
      <4>1. PICK h \in M.grants : e \in UnitsOf(l, h)
        BY <3>3
      <4>2. h.seq = e[2] /\ h.compacted
        BY <3>1, <4>1, UnitsForm
      <4>3. PICK g \in L.grants : g.seq = h.seq /\ g.compacted /\ Billed(g, h)
        BY <4>2 DEF Even
      <4>4. e \in UnitsOf(l, g)
        BY <4>1, <4>3, BilledUnits
      <4>5. e \in B
        BY <4>4 DEF Balanced
      <4>6. \A k \in L.grants : k.seq = e[2] => k.compacted
        BY <4>2, <4>3 DEF LedgerInv, Numbered
      <4> QED BY <3>1, <4>5, <4>6 DEF Gone
    <3> QED BY <3>1, <3>2, <3>3 DEF BookOf
  <2>2. ASSUME NEW e \in Gone(L, B, b, p)
        PROVE  e \in Gone(M, C, b, p)
    <3>1. e \in B /\ e[4] = b /\ e[5] = p /\ \A g \in L.grants : g.seq = e[2] => g.compacted
      BY <2>2 DEF Gone
    <3>2. e[2] \in Nat /\ e[2] < L.next
      BY <3>1 DEF Balanced
    <3>3. CASE \A h \in M.grants : h.seq # e[2]
      BY <3>1, <3>3 DEF BookOf, Gone
    <3>4. CASE \E h \in M.grants : h.seq = e[2]
      <4>1. PICK h \in M.grants : h.seq = e[2]
        BY <3>4
      <4>2. ~(h.seq >= L.next)
        BY <1>1, <3>2, <4>1
      <4>3. PICK g \in L.grants : g.seq = h.seq /\ (g.compacted <=> h.compacted)
                                  /\ (g.compacted => Billed(g, h))
        BY <4>2 DEF Even
      <4>4. g.compacted /\ h.compacted /\ Billed(g, h)
        BY <3>1, <4>1, <4>3
      <4>5. e \in UnitsOf(l, g)
        BY <3>1, <4>1, <4>3 DEF Balanced
      <4>6. e \in C
        BY <4>4, <4>5, BilledUnits DEF BookOf
      <4>7. \A k \in M.grants : k.seq = e[2] => k.compacted
        BY <4>1, <4>4 DEF LedgerInv, Numbered
      <4> HIDE DEF C
      <4> QED BY <3>1, <4>6, <4>7 DEF Gone
    <3> QED BY <3>3, <3>4
  <2> QED BY <2>1, <2>2
<1>5. \A b \in Allocs, p \in Purposes : ~Ended(b, t) => M.closed[b][p] = L.closed[b][p]
  BY EndedLater DEF Even
<1> HIDE DEF C
<1>6. Balanced(l, M, C, t)
  BY <1>2, <1>3, <1>4, <1>5 DEF Balanced
<1> QED BY <1>6 DEF C

-----------------------------------------------------------------------------
(* Counting units.                                                         *)

\* Sets with nothing in common.
LEMMA DisjointCount ==
  ASSUME NEW S, NEW T, IsFiniteSet(S), IsFiniteSet(T), S \cap T = {}
  PROVE  IsFiniteSet(S \cup T) /\ Cardinality(S \cup T) = Cardinality(S) + Cardinality(T)
<1>1. /\ IsFiniteSet(S \cup T)
      /\ Cardinality(S \cup T) = Cardinality(S) + Cardinality(T) - Cardinality(S \cap T)
  BY FS_Union
<1>2. Cardinality(S \cap T) = 0
  BY FS_EmptySet
<1>3. Cardinality(S) \in Nat /\ Cardinality(T) \in Nat
  BY FS_CardinalityType
<1> QED BY <1>1, <1>2, <1>3

\* The pairs of grant and unit that rows are about.
Pairs(E) == {<<e[2], e[3]>> : e \in E}

\* Rows of one ledger, account and purpose are as many as their pairs.
LEMMA PairsCount ==
  ASSUME NEW E, NEW l, NEW b, NEW p, \A e \in E : e = <<l, e[2], e[3], b, p>>,
         IsFiniteSet(Pairs(E))
  PROVE  IsFiniteSet(E) /\ Cardinality(E) = Cardinality(Pairs(E))
<1> DEFINE f == [e \in E |-> <<e[2], e[3]>>]
<1>1. f \in [E -> Pairs(E)]
  BY DEF Pairs
<1>2. \A e, d \in E : f[e] = f[d] => e = d
  <2> SUFFICES ASSUME NEW e \in E, NEW d \in E, f[e] = f[d] PROVE e = d
    OBVIOUS
  <2>1. e[2] = d[2] /\ e[3] = d[3]
    OBVIOUS
  <2>2. e = <<l, e[2], e[3], b, p>> /\ d = <<l, d[2], d[3], b, p>>
    OBVIOUS
  <2> QED BY <2>1, <2>2
<1>3. \A x \in Pairs(E) : \E e \in E : f[e] = x
  BY DEF Pairs
<1> HIDE DEF f
<1>4. f \in Injection(E, Pairs(E)) /\ f \in Surjection(E, Pairs(E))
  BY <1>1, <1>2, <1>3 DEF Injection, Surjection, IsInjective
<1> QED BY <1>4, FS_Injection

\* The rows of grant g on account b.
RowsOn(l, g, b, p) == {e \in UnitsOf(l, g) : e[4] = b /\ e[5] = p}

\* The accounts of grant g.
Touched(g) == {Account(a) : a \in Refs(g)}

\* A grant is charged on each of its accounts what it accounts for there.
LEMMA RowsCount ==
  ASSUME NEW l, NEW g \in Grant, NEW b \in Allocs, NEW p \in Purposes
  PROVE  /\ IsFiniteSet(RowsOn(l, g, b, p))
         /\ Cardinality(RowsOn(l, g, b, p))
              = IF p = g.purpose /\ b \in Touched(g) THEN g.accounted[AllocInfo[b].dim] ELSE 0
<1> DEFINE R == RowsOn(l, g, b, p)
           n == g.accounted[AllocInfo[b].dim]
<1>1. n \in Nat
  BY AllocAssumption DEF Window, Grant, Amounts
<1>2. CASE p = g.purpose /\ b \in Touched(g)
  <2>1. \A e \in R : \E u \in 1 .. n : e = <<l, g.seq, u, b, p>>
    <3> SUFFICES ASSUME NEW e \in R PROVE \E u \in 1 .. n : e = <<l, g.seq, u, b, p>>
      OBVIOUS
    <3>1. e \in UnitsOf(l, g) /\ e[4] = b
      BY DEF RowsOn
    <3>2. PICK a \in Refs(g) : \E u \in 1 .. g.accounted[AllocInfo[a].dim] :
                 e = <<l, g.seq, u, Account(a), g.purpose>>
      BY <3>1, UnitsForm
    <3>3. PICK u \in 1 .. g.accounted[AllocInfo[a].dim] :
                 e = <<l, g.seq, u, Account(a), g.purpose>>
      BY <3>2
    <3>4. Account(a) = b
      BY <3>1, <3>3
    <3>5. AllocInfo[a].dim = AllocInfo[b].dim
      BY <3>4, AccountForm, RefsType
    <3> QED BY <1>2, <3>3, <3>4, <3>5
  <2>2. \A u \in 1 .. n : <<l, g.seq, u, b, p>> \in R
    <3> SUFFICES ASSUME NEW u \in 1 .. n PROVE <<l, g.seq, u, b, p>> \in R
      OBVIOUS
    <3>1. PICK a \in Refs(g) : Account(a) = b
      BY <1>2 DEF Touched
    <3>2. AllocInfo[a].dim = AllocInfo[b].dim
      BY <3>1, AccountForm, RefsType
    <3>3. <<l, g.seq, u, b, p>> \in UnitsOf(l, g)
      BY <1>2, <3>1, <3>2 DEF UnitsOf
    <3> QED BY <3>3 DEF RowsOn
  <2>3. \A e \in R : e = <<l, e[2], e[3], b, p>> /\ e[2] = g.seq /\ e[3] \in 1 .. n
    <3> SUFFICES ASSUME NEW e \in R
                 PROVE  e = <<l, e[2], e[3], b, p>> /\ e[2] = g.seq /\ e[3] \in 1 .. n
      OBVIOUS
    <3>1. PICK u \in 1 .. n : e = <<l, g.seq, u, b, p>>
      BY <2>1
    <3> QED BY <3>1
  <2> HIDE DEF R, n
  <2>4. Pairs(R) = {g.seq} \X (1 .. n)
    <3>1. ASSUME NEW x \in Pairs(R) PROVE x \in {g.seq} \X (1 .. n)
      BY <2>3 DEF Pairs
    <3>2. ASSUME NEW x \in {g.seq} \X (1 .. n) PROVE x \in Pairs(R)
      <4>1. PICK u \in 1 .. n : x = <<g.seq, u>>
        OBVIOUS
      <4>2. <<l, g.seq, u, b, p>> \in R
        BY <2>2
      <4> DEFINE e == <<l, g.seq, u, b, p>>
      <4>3. e \in R /\ <<e[2], e[3]>> = x
        BY <4>1, <4>2
      <4> HIDE DEF e
      <4> QED BY <4>3 DEF Pairs
    <3> QED BY <3>1, <3>2
  <2>5. IsFiniteSet(1 .. n) /\ Cardinality(1 .. n) = n
    BY <1>1, FS_Interval
  <2>6. IsFiniteSet({g.seq}) /\ Cardinality({g.seq}) = 1
    BY FS_Singleton
  <2>7. IsFiniteSet(Pairs(R)) /\ Cardinality(Pairs(R)) = n
    <3>1. /\ IsFiniteSet({g.seq} \X (1 .. n))
          /\ Cardinality({g.seq} \X (1 .. n)) = Cardinality({g.seq}) * Cardinality(1 .. n)
      BY <2>5, <2>6, FS_Product
    <3>2. Cardinality({g.seq} \X (1 .. n)) = 1 * n
      BY <2>5, <2>6, <3>1
    <3> QED BY <1>1, <2>4, <3>1, <3>2
  <2>8. IsFiniteSet(R) /\ Cardinality(R) = n
    BY <2>3, <2>7, PairsCount
  <2> QED BY <1>2, <2>8 DEF R, n
<1>3. CASE ~(p = g.purpose /\ b \in Touched(g))
  <2>1. R = {}
    <3> SUFFICES ASSUME NEW e \in R PROVE FALSE
      OBVIOUS
    <3>1. e \in UnitsOf(l, g) /\ e[4] = b /\ e[5] = p
      BY DEF RowsOn
    <3>2. PICK a \in Refs(g) : \E u \in 1 .. g.accounted[AllocInfo[a].dim] :
                 e = <<l, g.seq, u, Account(a), g.purpose>>
      BY <3>1, UnitsForm
    <3>3. e[4] = Account(a) /\ e[5] = g.purpose
      BY <3>2
    <3> QED BY <1>3, <3>1, <3>3 DEF Touched
  <2> QED BY <1>3, <2>1, FS_EmptySet
<1> QED BY <1>2, <1>3

\* The charge of an open grant is rolled up.
Rolls(L, g, c, M) ==
  /\ g \in L.grants /\ ~g.compacted
  /\ c \in Grant /\ c.seq = g.seq /\ c.compacted
  /\ M.grants = {k \in L.grants : k.seq # c.seq} \cup {c}
  /\ M.next = L.next
  /\ \A b \in Allocs, p \in Purposes :
       M.closed[b][p] = L.closed[b][p] + IF p = c.purpose /\ b \in Touched(c)
                                         THEN c.accounted[AllocInfo[b].dim] ELSE 0

\* What is rolled up is what joins the units of closed grants.
LEMMA RollGoes ==
  ASSUME NEW l, NEW L, LedgerInv(L), NEW M, LedgerInv(M), NEW now \in Nat,
         NEW g, NEW c, Rolls(L, g, c, M)
  PROVE  Goes(l, L, M, now)
<1> SUFFICES ASSUME NEW B, NEW t \in Nat, now <= t, Balanced(l, L, B, t)
             PROVE  Balanced(l, M, BookOf(l, B, M), t)
  BY DEF Goes
<1> DEFINE C == BookOf(l, B, M)
<1>1. L.next \in Nat /\ L.next <= M.next
  BY DEF LedgerInv, Ledger, Rolls
<1>2. \A k \in M.grants : {e \in C : e[2] = k.seq} = UnitsOf(l, k)
  BY BookRows
<1>3. \A e \in C : e[1] = l /\ e[2] \in Nat /\ e[2] < M.next
  BY <1>1, BookForm DEF Balanced
<1>4. ASSUME NEW b \in Allocs, NEW p \in Purposes
      PROVE  /\ Gone(M, C, b, p) = Gone(L, B, b, p) \cup RowsOn(l, c, b, p)
             /\ Gone(L, B, b, p) \cap RowsOn(l, c, b, p) = {}
  <2>1. ASSUME NEW e \in Gone(M, C, b, p), e \notin RowsOn(l, c, b, p)
        PROVE  e \in Gone(L, B, b, p)
    <3>1. e \in C /\ e[4] = b /\ e[5] = p /\ \A h \in M.grants : h.seq = e[2] => h.compacted
      BY <2>1 DEF Gone
    <3>2. e \notin UnitsOf(l, c)
      BY <2>1, <3>1 DEF RowsOn
    <3>3. c \in M.grants
      BY DEF Rolls
    <3>4. e[2] # c.seq
      BY <1>2, <3>1, <3>2, <3>3
    <3>5. e \in B
      <4>1. CASE \E h \in M.grants : e \in UnitsOf(l, h)
        <5>1. PICK h \in M.grants : e \in UnitsOf(l, h)
          BY <4>1
        <5>2. h \in L.grants
          BY <3>2, <5>1 DEF Rolls
        <5> QED BY <5>1, <5>2 DEF Balanced
      <4> QED BY <3>1, <4>1 DEF BookOf
    <3>6. \A k \in L.grants : k.seq = e[2] => k.compacted
      BY <3>1, <3>4 DEF Rolls
    <3> QED BY <3>1, <3>5, <3>6 DEF Gone
  <2>2. ASSUME NEW e \in RowsOn(l, c, b, p)
        PROVE  e \in Gone(M, C, b, p) /\ e \notin Gone(L, B, b, p)
    <3>1. e \in UnitsOf(l, c) /\ e[4] = b /\ e[5] = p /\ e[2] = c.seq /\ c \in M.grants
      BY <2>2, UnitsForm DEF RowsOn, Rolls
    <3>2. e \in C
      BY <3>1 DEF BookOf
    <3>3. \A k \in M.grants : k.seq = e[2] => k.compacted
      BY <3>1 DEF Rolls
    <3>4. e \notin Gone(L, B, b, p)
      BY <3>1 DEF Gone, Rolls
    <3> HIDE DEF C
    <3> QED BY <3>1, <3>2, <3>3, <3>4 DEF Gone
  <2>3. ASSUME NEW e \in Gone(L, B, b, p)
        PROVE  e \in Gone(M, C, b, p)
    <3>1. e \in B /\ e[4] = b /\ e[5] = p /\ \A k \in L.grants : k.seq = e[2] => k.compacted
      BY <2>3 DEF Gone
    <3>2. e[2] # c.seq
      BY <3>1 DEF Rolls
    <3>3. \A h \in M.grants : h.seq = e[2] => h \in L.grants
      BY <3>2 DEF Rolls
    <3>4. e \in C
      <4>1. CASE \E h \in M.grants : h.seq = e[2]
        <5>1. PICK h \in M.grants : h.seq = e[2]
          BY <4>1
        <5>2. e \in UnitsOf(l, h)
          BY <3>1, <3>3, <5>1 DEF Balanced
        <5> QED BY <5>1, <5>2 DEF BookOf
      <4> QED BY <3>1, <4>1 DEF BookOf
    <3> HIDE DEF C
    <3> QED BY <3>1, <3>3, <3>4 DEF Gone
  <2> QED BY <2>1, <2>2, <2>3
<1> HIDE DEF C
<1>5. ASSUME NEW b \in Allocs, NEW p \in Purposes, ~Ended(b, t)
      PROVE  IsFiniteSet(Gone(M, C, b, p)) /\ Cardinality(Gone(M, C, b, p)) = M.closed[b][p]
  <2> DEFINE G == Gone(L, B, b, p)
             R == RowsOn(l, c, b, p)
             n == IF p = c.purpose /\ b \in Touched(c) THEN c.accounted[AllocInfo[b].dim] ELSE 0
  <2>1. IsFiniteSet(G) /\ Cardinality(G) = L.closed[b][p]
    BY <1>5 DEF Balanced
  <2>2. IsFiniteSet(R) /\ Cardinality(R) = n
    BY <1>5, RowsCount DEF Rolls
  <2>3. Gone(M, C, b, p) = G \cup R /\ G \cap R = {}
    BY <1>4
  <2>4. M.closed[b][p] = L.closed[b][p] + n
    BY DEF Rolls
  <2> HIDE DEF G, R, n
  <2>5. IsFiniteSet(G \cup R) /\ Cardinality(G \cup R) = Cardinality(G) + Cardinality(R)
    BY <2>1, <2>2, <2>3, DisjointCount
  <2> QED BY <2>1, <2>2, <2>3, <2>4, <2>5
<1>6. Balanced(l, M, C, t)
  BY <1>2, <1>3, <1>5 DEF Balanced
<1> QED BY <1>6 DEF C

-----------------------------------------------------------------------------
(* Transitions within a call, which has one time.                          *)

\* At time now, grant g is not dropped: it has not expired, or it was settled
\* without a certificate.
Held(g, now) == now < g.expiresAt \/ (g.status = "reconciled" /\ ~g.compacted)

\* Every grant is new or was there; without a defect no charge grows.
Origin(l, L, M) ==
  \A h \in M.grants :
    \/ h.seq >= L.next
    \/ \E g \in L.grants : g.seq = h.seq /\ (M.defect \/ UnitsOf(l, h) \subseteq UnitsOf(l, g))

\* A transition L -> M of a call made at time now.  A charge changes only of a
\* grant that is held, so that no transition to come drops it before it is booked.
Posts(l, L, M, now) ==
  /\ Sound(l, M)
  /\ L.next <= M.next
  /\ L.defect => M.defect
  /\ \A g \in L.grants : Held(g, now) => \E h \in M.grants : h.seq = g.seq /\ Held(h, now)
  /\ \A h \in M.grants : Held(h, now) \/ \E g \in L.grants : Billed(g, h)
  /\ Origin(l, L, M)
  /\ Goes(l, L, M, now)

\* The books after two transitions are those after the second.
LEMMA BooksOfTwo ==
  ASSUME NEW l, NEW L, NEW M, NEW N, NEW B, NEW t, Balanced(l, L, B, t), LedgerInv(M),
         \A g \in M.grants : \/ \E h \in N.grants : h.seq = g.seq
                             \/ \E k \in L.grants : Billed(k, g)
  PROVE  BookOf(l, BookOf(l, B, M), N) = BookOf(l, B, N)
<1> DEFINE C == BookOf(l, B, M)
<1>1. ASSUME NEW e, \A h \in N.grants : h.seq # e[2]
      PROVE  e \in C <=> e \in B
  <2>1. CASE \A g \in M.grants : g.seq # e[2]
    <3>1. \A g \in M.grants : e \notin UnitsOf(l, g)
      BY <2>1, UnitsForm
    <3> QED BY <2>1, <3>1 DEF BookOf
  <2>2. CASE \E g \in M.grants : g.seq = e[2]
    <3>1. PICK g \in M.grants : g.seq = e[2]
      BY <2>2
    <3>2. PICK k \in L.grants : Billed(k, g)
      BY <1>1, <3>1
    <3>3. {d \in C : d[2] = g.seq} = UnitsOf(l, g)
      BY BookRows
    <3>4. {d \in B : d[2] = g.seq} = UnitsOf(l, g)
      BY <3>2, BilledUnits DEF Balanced, Billed
    <3> QED BY <3>1, <3>3, <3>4
  <2> QED BY <2>1, <2>2
<1> HIDE DEF C
<1>2. BookOf(l, C, N) = BookOf(l, B, N)
  BY <1>1 DEF BookOf
<1> QED BY <1>2 DEF C

\* Transitions of one call add up.
LEMMA PostsTransitive ==
  ASSUME NEW l, NEW L, Sound(l, L), NEW M, NEW N, NEW now \in Nat,
         Posts(l, L, M, now), Posts(l, M, N, now)
  PROVE  Posts(l, L, N, now)
<1>1. LedgerInv(L) /\ LedgerInv(M) /\ LedgerInv(N)
  BY DEF Sound, Posts
<1>2. L.next \in Nat /\ M.next \in Nat /\ N.next \in Nat
  BY <1>1 DEF LedgerInv, Ledger
<1>3. L.next <= N.next
  BY <1>2 DEF Posts
<1>4. \A g \in L.grants : Held(g, now) => \E h \in N.grants : h.seq = g.seq /\ Held(h, now)
  <2> SUFFICES ASSUME NEW g \in L.grants, Held(g, now)
               PROVE  \E h \in N.grants : h.seq = g.seq /\ Held(h, now)
    OBVIOUS
  <2>1. PICK k \in M.grants : k.seq = g.seq /\ Held(k, now)
    BY DEF Posts
  <2>2. PICK h \in N.grants : h.seq = k.seq /\ Held(h, now)
    BY <2>1 DEF Posts
  <2> QED BY <2>1, <2>2
<1>5. \A k \in N.grants : Held(k, now) \/ \E g \in L.grants : Billed(g, k)
  <2> SUFFICES ASSUME NEW k \in N.grants, ~Held(k, now) PROVE \E g \in L.grants : Billed(g, k)
    OBVIOUS
  <2>1. PICK h \in M.grants : Billed(h, k)
    BY DEF Posts
  <2>2. ~Held(h, now)
    <3> SUFFICES ASSUME Held(h, now) PROVE FALSE
      OBVIOUS
    <3>1. PICK j \in N.grants : j.seq = h.seq /\ Held(j, now)
      BY DEF Posts
    <3>2. j = k
      BY <1>1, <2>1, <3>1 DEF LedgerInv, Numbered, Billed
    <3> QED BY <3>1, <3>2
  <2>3. PICK g \in L.grants : Billed(g, h)
    BY <2>2 DEF Posts
  <2>4. Billed(g, k)
    BY <2>1, <2>3 DEF Billed
  <2> QED BY <2>4
<1>6. Origin(l, L, N)
  <2> SUFFICES ASSUME NEW k \in N.grants, ~(k.seq >= L.next)
               PROVE  \E g \in L.grants :
                        g.seq = k.seq /\ (N.defect \/ UnitsOf(l, k) \subseteq UnitsOf(l, g))
    BY DEF Origin
  <2>1. k.seq \in Nat
    BY <1>1 DEF LedgerInv, Ledger, Grant
  <2>2. ~(k.seq >= M.next)
    BY <1>2, <2>1 DEF Posts
  <2>3. PICK h \in M.grants : h.seq = k.seq /\ (N.defect \/ UnitsOf(l, k) \subseteq UnitsOf(l, h))
    BY <2>2 DEF Posts, Origin
  <2>4. PICK g \in L.grants : g.seq = h.seq /\ (M.defect \/ UnitsOf(l, h) \subseteq UnitsOf(l, g))
    BY <2>3 DEF Posts, Origin
  <2>5. M.defect => N.defect
    BY DEF Posts
  <2>6. N.defect \/ UnitsOf(l, k) \subseteq UnitsOf(l, g)
    BY <2>3, <2>4, <2>5
  <2> QED BY <2>3, <2>4, <2>6
<1>7. Goes(l, L, N, now)
  <2> SUFFICES ASSUME NEW B, NEW t \in Nat, now <= t, Balanced(l, L, B, t)
               PROVE  Balanced(l, N, BookOf(l, B, N), t)
    BY DEF Goes
  <2> DEFINE C == BookOf(l, B, M)
  <2>1. Balanced(l, M, C, t)
    BY DEF Posts, Goes
  <2>2. Balanced(l, N, BookOf(l, C, N), t)
    BY <2>1 DEF Posts, Goes
  <2>3. \A g \in M.grants : \/ \E h \in N.grants : h.seq = g.seq
                            \/ \E k \in L.grants : Billed(k, g)
    BY DEF Posts
  <2>4. BookOf(l, C, N) = BookOf(l, B, N)
    BY <1>1, <2>3, BooksOfTwo
  <2> QED BY <2>2, <2>4
<1>8. Sound(l, N) /\ (L.defect => N.defect)
  BY DEF Posts
<1> QED BY <1>3, <1>4, <1>5, <1>6, <1>7, <1>8 DEF Posts

\* Version h of grant g keeps its charge, its status as far as it is settled, and
\* its place.
Mildly(g, h) ==
  /\ Billed(g, h)
  /\ g.compacted <=> h.compacted
  /\ g.status = "reconciled" <=> h.status = "reconciled"
  /\ h.status = "reserved" => g.status = "reserved"
  /\ h.expiresAt = g.expiresAt

\* A transition of housekeeping: no charge changes and none is rolled up.
Mild(L, M, now) ==
  /\ M.next = L.next
  /\ L.defect <=> M.defect
  /\ \A b \in Allocs, p \in Purposes : ~Ended(b, now) => M.closed[b][p] = L.closed[b][p]
  /\ \A h \in M.grants : \E g \in L.grants : Mildly(g, h)
  /\ \A g \in L.grants : ~g.compacted \/ now < g.expiresAt => \E h \in M.grants : h.seq = g.seq

\* Housekeeping keeps what a grant draws on and that it is charged in full.
LEMMA MildSound ==
  ASSUME NEW l, NEW L, Sound(l, L), NEW M, NEW now, LedgerInv(M), Mild(L, M, now),
         M.policy = L.policy \/ \E r \in Revisions : M.policy = Authority[r].policies[l]
  PROVE  Sound(l, M)
<1>1. Unsettled(M)
  <2> SUFFICES ASSUME NEW h \in M.grants
               PROVE  /\ h.status # "reconciled" => h.accounted = h.envelope
                      /\ h.compacted => h.status # "reserved"
    BY DEF Unsettled
  <2>1. PICK g \in L.grants : Mildly(g, h)
    BY DEF Mild
  <2> QED BY <2>1 DEF Mildly, Billed, Sound, Unsettled
<1>2. \A h \in M.grants, d \in Dims : h.alloc[d] \in Offered(d)
  <2> SUFFICES ASSUME NEW h \in M.grants, NEW d \in Dims PROVE h.alloc[d] \in Offered(d)
    OBVIOUS
  <2>1. PICK g \in L.grants : Mildly(g, h)
    BY DEF Mild
  <2>2. g.alloc[d] \in Offered(d)
    BY DEF Sound, OnTerms
  <2> QED BY <2>1, <2>2 DEF Mildly, Billed
<1>3. \E r \in Revisions : M.policy = Authority[r].policies[l]
  BY DEF Sound, OnTerms
<1> QED BY <1>1, <1>2, <1>3 DEF Sound, OnTerms

\* Housekeeping keeps the books.
LEMMA MildPosts ==
  ASSUME NEW l, NEW L, Sound(l, L), NEW M, Sound(l, M), NEW now \in Nat, Mild(L, M, now)
  PROVE  Posts(l, L, M, now)
<1>1. LedgerInv(L) /\ LedgerInv(M) /\ M.next = L.next /\ L.next \in Nat
  BY DEF Sound, Mild, LedgerInv, Ledger
<1>2. \A g \in L.grants : Held(g, now) => \E h \in M.grants : h.seq = g.seq /\ Held(h, now)
  <2> SUFFICES ASSUME NEW g \in L.grants, Held(g, now)
               PROVE  \E h \in M.grants : h.seq = g.seq /\ Held(h, now)
    OBVIOUS
  <2>1. PICK h \in M.grants : h.seq = g.seq
    BY DEF Mild, Held
  <2>2. PICK k \in L.grants : Mildly(k, h)
    BY DEF Mild
  <2>3. k = g
    BY <1>1, <2>1, <2>2 DEF Mildly, Billed, LedgerInv, Numbered
  <2>4. Held(h, now)
    BY <2>2, <2>3 DEF Mildly, Held
  <2> QED BY <2>1, <2>4
<1>3. \A h \in M.grants : \E g \in L.grants : Billed(g, h)
  BY DEF Mild, Mildly
<1>4. Origin(l, L, M)
  <2> SUFFICES ASSUME NEW h \in M.grants
               PROVE  \E g \in L.grants : g.seq = h.seq /\ UnitsOf(l, h) \subseteq UnitsOf(l, g)
    BY DEF Origin
  <2>1. PICK g \in L.grants : Billed(g, h)
    BY <1>3
  <2> QED BY <2>1, BilledUnits DEF Billed
<1>5. Even(L, M, now)
  <2>1. \A h \in M.grants : \E g \in L.grants :
          g.seq = h.seq /\ (g.compacted <=> h.compacted) /\ (g.compacted => Billed(g, h))
    BY DEF Mild, Mildly, Billed
  <2>2. \A g \in L.grants : ~g.compacted => \E h \in M.grants : h.seq = g.seq
    BY DEF Mild
  <2>3. \A b \in Allocs, p \in Purposes : ~Ended(b, now) => M.closed[b][p] = L.closed[b][p]
    BY DEF Mild
  <2> QED BY <1>1, <2>1, <2>2, <2>3 DEF Even
<1>6. Goes(l, L, M, now)
  BY <1>1, <1>5, EvenGoes
<1>7. L.defect => M.defect
  BY DEF Mild
<1> QED BY <1>1, <1>2, <1>3, <1>4, <1>6, <1>7 DEF Posts

\* A call that changes nothing.
LEMMA PostsReflexive ==
  ASSUME NEW l, NEW L, Sound(l, L), NEW now \in Nat
  PROVE  Posts(l, L, L, now)
<1>1. Mild(L, L, now)
  BY DEF Mild, Mildly, Billed
<1> QED BY <1>1, MildPosts

-----------------------------------------------------------------------------
(* Housekeeping: pruning, expiry, a delivery repeated, a new policy.       *)

\* What pruning leaves.
LEMMA PruneForm ==
  ASSUME NEW L \in Ledger, NEW now
  PROVE  /\ Prune(L, now).policy = L.policy /\ Prune(L, now).next = L.next
         /\ Prune(L, now).defect = L.defect
         /\ Prune(L, now).grants =
              {g \in L.grants : ~g.compacted \/ g.status # "reconciled" \/ now < g.expiresAt}
         /\ \A b \in Allocs, p \in Purposes :
              ~Ended(b, now) => Prune(L, now).closed[b][p] = L.closed[b][p]
BY DEF Prune, Ledger

\* A version of a ledger, pruned, is a mild change of it.
LEMMA PrunedMild ==
  ASSUME NEW L \in Ledger, NEW M \in Ledger, NEW now \in Nat,
         M.next = L.next, M.defect = L.defect, M.closed = L.closed,
         \A h \in M.grants : \E g \in L.grants : Mildly(g, h),
         \A g \in L.grants : \E h \in M.grants : Mildly(g, h)
  PROVE  Mild(L, Prune(M, now), now)
<1> DEFINE P == Prune(M, now)
<1>1. /\ P.next = L.next /\ P.defect = L.defect
      /\ P.grants = {g \in M.grants : ~g.compacted \/ g.status # "reconciled" \/ now < g.expiresAt}
      /\ \A b \in Allocs, p \in Purposes : ~Ended(b, now) => P.closed[b][p] = L.closed[b][p]
  BY PruneForm
<1> HIDE DEF P
<1>2. \A g \in L.grants : ~g.compacted \/ now < g.expiresAt => \E h \in P.grants : h.seq = g.seq
  <2> SUFFICES ASSUME NEW g \in L.grants, ~g.compacted \/ now < g.expiresAt
               PROVE  \E h \in P.grants : h.seq = g.seq
    OBVIOUS
  <2>1. PICK h \in M.grants : Mildly(g, h)
    OBVIOUS
  <2>2. h \in P.grants /\ h.seq = g.seq
    BY <1>1, <2>1 DEF Mildly, Billed
  <2> QED BY <2>2
<1>3. \A h \in P.grants : \E g \in L.grants : Mildly(g, h)
  BY <1>1
<1>4. Mild(L, P, now)
  BY <1>1, <1>2, <1>3 DEF Mild
<1> QED BY <1>4 DEF P

LEMMA MildlySelf == ASSUME NEW g PROVE Mildly(g, g)
BY DEF Mildly, Billed

\* Pruning keeps the books.
LEMMA PrunePosts ==
  ASSUME NEW l, NEW L, Sound(l, L), NEW now \in Nat
  PROVE  Posts(l, L, Prune(L, now), now)
<1>1. LedgerInv(L) /\ L \in Ledger
  BY DEF Sound, LedgerInv
<1>2. Mild(L, Prune(L, now), now)
  BY <1>1, MildlySelf, PrunedMild
<1>3. LedgerInv(Prune(L, now)) /\ Prune(L, now).policy = L.policy
  BY <1>1, PruneInv
<1> QED BY <1>2, <1>3, MildSound, MildPosts

\* Expiry keeps the books.
LEMMA ExpirePosts ==
  ASSUME NEW l, NEW L, Sound(l, L), NEW now \in Nat
  PROVE  Posts(l, L, Expire(L, now), now)
<1> DEFINE G == {ExpireGrant(g, now) : g \in L.grants}
           M == [L EXCEPT !.grants = G]
<1>1. LedgerInv(L) /\ L \in Ledger
  BY DEF Sound, LedgerInv
<1>2. \A g \in L.grants : ExpireGrant(g, now) \in Grant /\ Mildly(g, ExpireGrant(g, now))
  BY <1>1 DEF ExpireGrant, Ledger, Grant, Statuses, Mildly, Billed
<1>3. G \in SUBSET Grant
  BY <1>2
<1>4. \A h \in G : \E g \in L.grants : Mildly(g, h)
  BY <1>2
<1>5. \A g \in L.grants : \E h \in G : Mildly(g, h)
  BY <1>2
<1> HIDE DEF G
<1>6. /\ M \in Ledger /\ M.next = L.next /\ M.defect = L.defect /\ M.closed = L.closed
      /\ M.grants = G
  BY <1>1, <1>3 DEF Ledger
<1>7. Expire(L, now) = Prune(M, now)
  BY DEF Expire, G
<1> HIDE DEF M
<1>8. Mild(L, Expire(L, now), now)
  BY <1>1, <1>4, <1>5, <1>6, <1>7, PrunedMild
<1>9. LedgerInv(Expire(L, now)) /\ Expire(L, now).policy = L.policy
  BY <1>1, ExpireInv DEF Continues
<1> QED BY <1>8, <1>9, MildSound, MildPosts

\* So does a delivery repeated.
LEMMA RedeliverPosts ==
  ASSUME NEW l, NEW L, Sound(l, L), NEW req \in Request, NEW now \in Nat
  PROVE  Posts(l, L, Redeliver(L, req), now)
<1> DEFINE again(g) == IF SameIdentity(g, req) THEN [g EXCEPT !.attempts = g.attempts + 1] ELSE g
           G == {again(g) : g \in L.grants}
           M == Redeliver(L, req)
<1>1. LedgerInv(L) /\ L \in Ledger
  BY DEF Sound, LedgerInv
<1>2. \A g \in L.grants : Mildly(g, again(g))
  BY <1>1 DEF Ledger, Grant, Mildly, Billed
<1>3. \A h \in G : \E g \in L.grants : Mildly(g, h)
  BY <1>2
<1>4. \A g \in L.grants : \E h \in G : h.seq = g.seq
  <2>1. \A g \in L.grants : again(g) \in G /\ again(g).seq = g.seq
    BY <1>2 DEF Mildly, Billed
  <2> HIDE DEF again, G
  <2> QED BY <2>1
<1>5. M = [L EXCEPT !.grants = G]
  BY DEF Redeliver
<1> HIDE DEF G
<1>6. /\ M.next = L.next /\ M.defect = L.defect /\ M.closed = L.closed /\ M.grants = G
      /\ M.policy = L.policy
  BY <1>1, <1>5 DEF Ledger
<1>7. LedgerInv(M)
  BY <1>1, RedeliverInv
<1> HIDE DEF M
<1>8. Mild(L, M, now)
  BY <1>3, <1>4, <1>6 DEF Mild
<1>9. Posts(l, L, M, now)
  BY <1>6, <1>7, <1>8, MildSound, MildPosts
<1> QED BY <1>9 DEF M

\* And a new policy, which fences.
LEMMA AdoptPosts ==
  ASSUME NEW l \in Ledgers, NEW L, Sound(l, L), NEW r \in Revisions, NEW now \in Nat
  PROVE  Posts(l, L, Adopt(L, Authority[r].policies[l], now), now)
<1> DEFINE policy == Authority[r].policies[l]
           E == Expire(L, now)
           F == {Fence(g) : g \in E.grants}
           A == E.allocs \cup {policy.budgets[d].alloc : d \in Dims}
           M == [E EXCEPT !.policy = policy, !.allocs = A, !.grants = F]
           N == Adopt(L, policy, now)
<1>1. policy \in Policy /\ LedgerInv(L)
  BY PoliciesType DEF Sound
<1>2. LedgerInv(N) /\ N.policy = policy
  BY <1>1, AdoptInv
<1>3. N = Prune(M, now)
  BY DEF Adopt
<1>4. Posts(l, L, E, now)
  BY ExpirePosts
<1> HIDE DEF E, N
<1>5. Sound(l, E) /\ E \in Ledger
  BY <1>4 DEF Posts, Sound, LedgerInv
<1>6. \A g \in E.grants : Fence(g) \in Grant /\ Mildly(g, Fence(g))
  BY <1>5 DEF Fence, Ledger, Grant, Statuses, Mildly, Billed
<1>7. F \in SUBSET Grant /\ A \in SUBSET Allocs
  BY <1>1, <1>5, <1>6 DEF Ledger, Policy, Budget
<1>8. \A h \in F : \E g \in E.grants : Mildly(g, h)
  BY <1>6
<1>9. \A g \in E.grants : \E h \in F : Mildly(g, h)
  BY <1>6
<1> HIDE DEF F, A
<1>10. /\ M \in Ledger /\ M.next = E.next /\ M.defect = E.defect /\ M.closed = E.closed
       /\ M.grants = F
  BY <1>1, <1>5, <1>7 DEF Ledger
<1> HIDE DEF M
<1>11. Mild(E, N, now)
  BY <1>3, <1>5, <1>8, <1>9, <1>10, PrunedMild
<1>12. Sound(l, N)
  BY <1>2, <1>5, <1>11, MildSound
<1>13. Posts(l, E, N, now)
  BY <1>5, <1>11, <1>12, MildPosts
<1>14. Posts(l, L, N, now)
  BY <1>4, <1>13, PostsTransitive
<1> QED BY <1>14 DEF N

-----------------------------------------------------------------------------
(* A new grant.                                                            *)

\* It expires after the call that made it.
LEMMA NewGrantHeld ==
  ASSUME NEW L \in Ledger, NEW req \in Request, Grantable(L, req), NEW clip \in SUBSET Nat,
         \A c \in clip : req.now < c
  PROVE  req.now < NewGrant(L, req, clip).expiresAt
<1> DEFINE now == req.now + L.policy.lifetime
           Ends == {AllocInfo[a].endsAt :
                      a \in {L.policy.budgets[d].alloc : d \in Demanded(req)}
                            \ {b \in Allocs : AllocInfo[b].stock}}
           S == {now} \cup Ends
<1>1. now \in Nat
  BY DEF Ledger, Policy, Request
<1>2. \A d \in Demanded(req) : L.policy.budgets[d].alloc \in Allocs
  BY DEF Demanded, Ledger, Policy, Budget
<1>3. Ends \in SUBSET Nat
  BY <1>2, AllocInfoType DEF Window
<1>4. S = ExpiryLimits(L, req)
  BY DEF ExpiryLimits
<1> HIDE DEF now, Ends
<1>5. S \subseteq Nat /\ S # {} /\ req.now \in Nat
  BY <1>1, <1>3 DEF Request
<1> HIDE DEF S
<1>6. Earliest(S) \in Nat /\ \A u \in S : Earliest(S) <= u
  BY <1>5, EarliestIsMinimal
<1>7. Earliest(S) > req.now
  BY <1>4 DEF Grantable
<1>8. \A u \in S \cup clip : u \in Nat /\ req.now < u
  BY <1>5, <1>6, <1>7
<1>9. Earliest(S \cup clip) \in S \cup clip
  BY <1>5, <1>8, EarliestIsMinimal
<1>10. NewGrant(L, req, clip).expiresAt = Earliest(S \cup clip)
  BY <1>4 DEF NewGrant
<1> QED BY <1>8, <1>9, <1>10

\* A tenant's budget draws on the owner's allocation, which is of the dimension,
\* and never beyond the owner's limit.
LEMMA OfferedTerms ==
  ASSUME NEW r \in Revisions, NEW l \in Ledgers, NEW d \in Dims
  PROVE  LET budget == Authority[r].policies[l].budgets[d]
         IN  budget.alloc \in Offered(d) /\ budget.alloc \in Allocs /\ AllocInfo[budget.alloc].dim = d
<1> DEFINE own == Authority[r].policies[l]
           owner == Authority[r].policies[Ingress]
<1>1. \A e \in Dims : own.budgets[e].alloc = owner.budgets[e].alloc
                      /\ AllocInfo[own.budgets[e].alloc].dim = e
  BY AuthorityAssumption
<1>2. own.budgets[d].alloc \in Allocs
  BY PoliciesType DEF Policy, Budget
<1> QED BY <1>1, <1>2 DEF Offered

\* A ledger with one more open grant.
LEMMA AddGrantPosts ==
  ASSUME NEW l \in Ledgers, NEW L, Sound(l, L), NEW req \in Request, Grantable(L, req),
         NEW clip \in SUBSET Nat, \A c \in clip : req.now < c
  PROVE  Posts(l, L, AddGrant(L, req, clip), req.now)
<1> DEFINE n == NewGrant(L, req, clip)
           M == AddGrant(L, req, clip)
           now == req.now
<1>1. LedgerInv(L) /\ L \in Ledger /\ L.next \in Nat /\ now \in Nat
  BY DEF Sound, LedgerInv, Ledger, Request
<1>2. LedgerInv(M)
  BY <1>1, AddGrantInv DEF Grantable
<1>3. /\ n.seq = L.next /\ n.status = "reserved" /\ ~n.compacted /\ n.accounted = n.envelope
      /\ n.alloc = [d \in Dims |-> L.policy.budgets[d].alloc] /\ now < n.expiresAt
  BY <1>1, NewGrantHeld DEF NewGrant
<1>4. /\ M.grants = L.grants \cup {n} /\ M.policy = L.policy /\ M.next = L.next + 1
      /\ M.defect = L.defect /\ M.closed = L.closed
  <2> HIDE DEF n
  <2> QED BY <1>1 DEF AddGrant, Ledger, n
<1> HIDE DEF n, M, now
<1>5. Sound(l, M)
  <2>1. Unsettled(M)
    BY <1>3, <1>4 DEF Unsettled, Sound
  <2>2. PICK r \in Revisions : L.policy = Authority[r].policies[l]
    BY DEF Sound, OnTerms
  <2>3. \A d \in Dims : L.policy.budgets[d].alloc \in Offered(d)
    BY <2>2, OfferedTerms
  <2>4. OnTerms(l, M)
    BY <1>3, <1>4, <2>2, <2>3 DEF OnTerms, Sound
  <2> QED BY <1>2, <2>1, <2>4 DEF Sound
<1>6. \A h \in M.grants : Held(h, now) \/ \E g \in L.grants : Billed(g, h)
  BY <1>3, <1>4 DEF Held, Billed
<1>7. Origin(l, L, M)
  BY <1>1, <1>3, <1>4 DEF Origin
<1>8. Even(L, M, now)
  <2>1. \A h \in M.grants :
          \/ h.seq >= L.next /\ ~h.compacted
          \/ \E g \in L.grants : /\ g.seq = h.seq
                                 /\ g.compacted <=> h.compacted
                                 /\ g.compacted => Billed(g, h)
    BY <1>1, <1>3, <1>4 DEF Billed
  <2> QED BY <1>1, <1>4, <2>1 DEF Even
<1>9. Goes(l, L, M, now)
  BY <1>1, <1>2, <1>8, EvenGoes
<1>10. L.next <= M.next /\ (L.defect => M.defect)
  BY <1>1, <1>4
<1>11. Posts(l, L, M, now)
  BY <1>4, <1>5, <1>6, <1>7, <1>9, <1>10 DEF Posts
<1> QED BY <1>11 DEF M, now

\* A reservation is delivered again, granted or refused.
LEMMA ReservePosts ==
  ASSUME NEW l \in Ledgers, NEW L, Sound(l, L), NEW req \in Request,
         NEW clip \in SUBSET Nat, \A c \in clip : req.now < c
  PROVE  Posts(l, L, Reserve(L, req, clip), req.now)
<1>1. req.now \in Nat
  BY DEF Request
<1>2. CASE Redeliverable(L, req)
  BY <1>1, <1>2, RedeliverPosts DEF Reserve
<1>3. CASE ~Redeliverable(L, req) /\ Grantable(L, req)
  BY <1>3, AddGrantPosts DEF Reserve
<1>4. CASE ~Redeliverable(L, req) /\ ~Grantable(L, req)
  BY <1>1, <1>4, PostsReflexive DEF Reserve
<1> QED BY <1>2, <1>3, <1>4

-----------------------------------------------------------------------------
(* Closing a grant.                                                        *)

\* Less accounted for is fewer units.
LEMMA UnitsFewer ==
  ASSUME NEW l, NEW g \in Grant, NEW h \in Grant, h.seq = g.seq, h.purpose = g.purpose,
         Refs(h) = Refs(g), \A d \in Dims : h.accounted[d] <= g.accounted[d]
  PROVE  UnitsOf(l, h) \subseteq UnitsOf(l, g)
<1> SUFFICES ASSUME NEW e \in UnitsOf(l, h) PROVE e \in UnitsOf(l, g)
  OBVIOUS
<1>1. PICK a \in Refs(h) : \E u \in 1 .. h.accounted[AllocInfo[a].dim] :
             e = <<l, h.seq, u, Account(a), h.purpose>>
  BY UnitsForm
<1>2. PICK u \in 1 .. h.accounted[AllocInfo[a].dim] : e = <<l, h.seq, u, Account(a), h.purpose>>
  BY <1>1
<1> DEFINE d == AllocInfo[a].dim
<1>3. d \in Dims
  BY RefsType, AllocAssumption DEF Window
<1>4. h.accounted[d] \in Nat /\ g.accounted[d] \in Nat /\ h.accounted[d] <= g.accounted[d]
  BY <1>3 DEF Grant, Amounts
<1>5. u \in 1 .. g.accounted[d]
  BY <1>4
<1> QED BY <1>2, <1>5 DEF UnitsOf

\* What one version of a grant changes in the books: its charge may only go
\* down unless a defect is recorded, and only while the grant stays.
Amends(l, g, h, now, defect) ==
  /\ h \in Grant /\ SameGrant(g, h) /\ h.expiresAt = g.expiresAt
  /\ g.status # "reconciled" /\ h.status # "reserved"
  /\ h.status # "reconciled" => h.accounted = h.envelope
  /\ defect \/ UnitsOf(l, h) \subseteq UnitsOf(l, g)

\* What the ledger owes to its grants survives the replacement of one.
LEMMA AmendSound ==
  ASSUME NEW l, NEW L, Sound(l, L), NEW g \in L.grants, NEW h, NEW now, NEW defect,
         Amends(l, g, h, now, defect), NEW M, LedgerInv(M), M.policy = L.policy,
         \A k \in M.grants : k \in L.grants \/ (SameGrant(h, k) /\ k.status = h.status /\ k.accounted = h.accounted)
  PROVE  Sound(l, M)
<1>1. Unsettled(M)
  BY DEF Unsettled, Sound, Amends, SameGrant
<1>2. \A k \in M.grants, d \in Dims : k.alloc[d] \in Offered(d)
  BY DEF Sound, OnTerms, Amends, SameGrant
<1> QED BY <1>1, <1>2 DEF Sound, OnTerms

\* A grant is settled and keeps its slot, or was closed before and keeps its charge.
LEMMA ReplacePosts ==
  ASSUME NEW l, NEW L, Sound(l, L), NEW g \in L.grants, NEW h, NEW now \in Nat,
         NEW defect \in BOOLEAN, Amends(l, g, h, now, defect),
         h.status = "reconciled", h.compacted = g.compacted, ~g.compacted \/ Billed(g, h),
         NEW M, LedgerInv(M), M.policy = L.policy, M.next = L.next, M.closed = L.closed,
         M.defect = (L.defect \/ defect),
         M.grants = {k \in L.grants : k.seq # h.seq} \cup {h}
  PROVE  Posts(l, L, M, now)
<1>1. LedgerInv(L) /\ L.next \in Nat /\ h.seq = g.seq
  BY DEF Sound, LedgerInv, Ledger, Amends, SameGrant
<1>2. \A k \in L.grants : k.seq = g.seq => k = g
  BY <1>1 DEF LedgerInv, Numbered
<1>3. Sound(l, M)
  <2>1. \A k \in M.grants : k \in L.grants \/ (SameGrant(h, k) /\ k.status = h.status
                                               /\ k.accounted = h.accounted)
    BY DEF SameGrant
  <2> QED BY <2>1, AmendSound
<1>4. \A k \in L.grants : Held(k, now) => \E j \in M.grants : j.seq = k.seq /\ Held(j, now)
  <2> SUFFICES ASSUME NEW k \in L.grants, Held(k, now)
               PROVE  \E j \in M.grants : j.seq = k.seq /\ Held(j, now)
    OBVIOUS
  <2>1. CASE k.seq # h.seq
    BY <2>1
  <2>2. CASE k.seq = h.seq
    <3>1. k = g
      BY <1>1, <1>2, <2>2
    <3>2. Held(h, now)
      BY <3>1 DEF Held, Amends
    <3> QED BY <2>2, <3>2
  <2> QED BY <2>1, <2>2
<1>5. \A k \in M.grants : Held(k, now) \/ \E j \in L.grants : Billed(j, k)
  BY DEF Held, Billed
<1>6. Origin(l, L, M)
  BY <1>1 DEF Origin, Amends
<1>7. Even(L, M, now)
  <2>1. \A k \in M.grants :
          \E j \in L.grants : /\ j.seq = k.seq
                              /\ j.compacted <=> k.compacted
                              /\ j.compacted => Billed(j, k)
    BY <1>1 DEF Billed
  <2>2. \A k \in L.grants : ~k.compacted => \E j \in M.grants : j.seq = k.seq
    BY <1>1
  <2> QED BY <1>1, <2>1, <2>2 DEF Even
<1>8. Goes(l, L, M, now)
  BY <1>1, <1>7, EvenGoes
<1>9. L.defect => M.defect
  OBVIOUS
<1>10. L.next <= M.next
  BY <1>1
<1> QED BY <1>3, <1>4, <1>5, <1>6, <1>8, <1>9, <1>10 DEF Posts

\* A grant gives up its slot; its charge is rolled up.
LEMMA CompactPosts ==
  ASSUME NEW l, NEW L, Sound(l, L), NEW g \in L.grants, NEW h, NEW now \in Nat,
         Amends(l, g, h, now, FALSE), ~g.compacted, now < g.expiresAt \/ Billed(g, h)
  PROVE  Posts(l, L, Compact(L, h, now), now)
<1> DEFINE c == [h EXCEPT !.compacted = TRUE]
           touched == {Account(a) : a \in Refs(h)}
           rolled == [a \in Allocs |-> [p \in Purposes |->
                        L.closed[a][p] + IF p = h.purpose /\ a \in touched
                                         THEN h.accounted[AllocInfo[a].dim] ELSE 0]]
           R == Replace(L, c)
           M == [R EXCEPT !.closed = rolled]
<1>1. LedgerInv(L) /\ L \in Ledger /\ L.next \in Nat /\ h \in Grant /\ SameGrant(g, h)
  BY DEF Sound, LedgerInv, Ledger, Amends
<1>2. c \in Grant /\ SameGrant(g, c) /\ SameGrant(h, c) /\ c.seq = g.seq /\ c.compacted
      /\ c.status = h.status /\ c.accounted = h.accounted /\ c.expiresAt = g.expiresAt
      /\ c.purpose = h.purpose
  BY <1>1 DEF SameGrant, Grant, Amends
<1>3. rolled \in [Allocs -> [Purposes -> Nat]]
  <2> SUFFICES ASSUME NEW a \in Allocs, NEW p \in Purposes
               PROVE  L.closed[a][p] + (IF p = h.purpose /\ a \in touched
                        THEN h.accounted[AllocInfo[a].dim] ELSE 0) \in Nat
    OBVIOUS
  <2>1. L.closed[a][p] \in Nat
    BY <1>1 DEF Ledger
  <2>2. h.accounted[AllocInfo[a].dim] \in Nat
    BY <1>1, AllocInfoType DEF Window, Grant, Amounts
  <2> HIDE DEF touched
  <2> QED BY <2>1, <2>2
<1>4. touched = Touched(c)
  BY <1>1, <1>2 DEF Touched, Refs, SameGrant
<1>5. \A b \in Allocs, p \in Purposes :
        rolled[b][p] = L.closed[b][p] + IF p = c.purpose /\ b \in Touched(c)
                                        THEN c.accounted[AllocInfo[b].dim] ELSE 0
  BY <1>2, <1>4
<1>6. UnitsOf(l, c) = UnitsOf(l, h)
  <2>1. Billed(h, c)
    BY <1>2 DEF Billed, SameGrant
  <2> QED BY <2>1, BilledUnits
<1>7. Compact(L, h, now) = Prune(M, now)
  BY DEF Compact
<1> HIDE DEF c, rolled
<1>8. LedgerInv(R) /\ R \in Ledger
  BY <1>1, <1>2, ReplaceInv DEF LedgerInv
<1>9. /\ R.grants = {k \in L.grants : k.seq # c.seq} \cup {c} /\ R.next = L.next
      /\ R.policy = L.policy /\ R.defect = L.defect
  BY <1>1 DEF Replace, Ledger
<1> HIDE DEF R
<1>10. LedgerInv(M)
  BY <1>3, <1>8, ClosedInv
<1>11. /\ M.grants = {k \in L.grants : k.seq # c.seq} \cup {c} /\ M.next = L.next
       /\ M.policy = L.policy /\ M.defect = L.defect /\ M.closed = rolled
  BY <1>8, <1>9 DEF Ledger
<1> HIDE DEF M
<1>12. Rolls(L, g, c, M)
  BY <1>2, <1>5, <1>11 DEF Rolls
<1>13. Sound(l, M)
  <2>1. \A k \in M.grants : k \in L.grants \/ (SameGrant(h, k) /\ k.status = h.status
                                               /\ k.accounted = h.accounted)
    BY <1>2, <1>11
  <2> QED BY <1>10, <1>11, <2>1, AmendSound
<1>14. \A k \in L.grants : k.seq = g.seq => k = g
  BY <1>1 DEF LedgerInv, Numbered
<1>15. \A k \in L.grants : Held(k, now) => \E j \in M.grants : j.seq = k.seq /\ Held(j, now)
  <2> SUFFICES ASSUME NEW k \in L.grants, Held(k, now)
               PROVE  \E j \in M.grants : j.seq = k.seq /\ Held(j, now)
    OBVIOUS
  <2>1. CASE k.seq # c.seq
    BY <1>11, <2>1
  <2>2. CASE k.seq = c.seq
    <3>1. k = g
      BY <1>2, <1>14, <2>2
    <3>2. Held(c, now)
      BY <1>2, <3>1 DEF Held, Amends
    <3> QED BY <1>11, <2>2, <3>2
  <2> QED BY <2>1, <2>2
<1>16. \A k \in M.grants : Held(k, now) \/ \E j \in L.grants : Billed(j, k)
  <2>1. Held(c, now) \/ Billed(g, c)
    BY <1>2 DEF Held, Billed, SameGrant
  <2> QED BY <1>11, <2>1 DEF Billed
<1>17. Origin(l, L, M)
  <2>1. UnitsOf(l, c) \subseteq UnitsOf(l, g)
    BY <1>6 DEF Amends
  <2> QED BY <1>2, <1>11, <2>1 DEF Origin
<1>18. Goes(l, L, M, now)
  BY <1>1, <1>10, <1>12, RollGoes
<1>19. Posts(l, L, M, now)
  BY <1>1, <1>11, <1>13, <1>15, <1>16, <1>17, <1>18 DEF Posts
<1>20. Posts(l, M, Prune(M, now), now)
  BY <1>13, PrunePosts
<1> QED BY <1>7, <1>19, <1>20, PostsTransitive


-----------------------------------------------------------------------------
(* Evidence.                                                               *)

Settled(g, ev) == [g EXCEPT !.status = "reconciled", !.accounted = ev.observed]

\* The settled version of a grant, and what it is charged.
LEMMA SettledAmends ==
  ASSUME NEW l, NEW L, Sound(l, L), NEW g \in L.grants, NEW ev \in Evident, Closable(L, g, ev),
         NEW now
  PROVE  /\ Amends(l, g, Settled(g, ev), now, Overruns(g, ev))
         /\ Settled(g, ev).status = "reconciled"
         /\ Settled(g, ev).compacted = g.compacted /\ Settled(g, ev).seq = g.seq
         /\ ev.acknowledges => Billed(g, Settled(g, ev))
<1> DEFINE h == Settled(g, ev)
<1>1. g \in Grant /\ g.accounted = g.envelope /\ g.status # "reconciled"
  BY DEF Sound, LedgerInv, Ledger, Unsettled, Closable
<1>2. h \in Grant /\ h.status = "reconciled" /\ h.compacted = g.compacted /\ h.seq = g.seq
      /\ h.purpose = g.purpose /\ h.envelope = g.envelope /\ h.alloc = g.alloc
      /\ h.key = g.key /\ h.policy = g.policy /\ h.restriction = g.restriction
      /\ h.expiresAt = g.expiresAt /\ h.accounted = ev.observed
  BY <1>1 DEF Grant, Statuses, Evident, Settled
<1> HIDE DEF h
<1>3. SameGrant(g, h)
  BY <1>2 DEF SameGrant
<1>4. CASE Overruns(g, ev)
  <2>1. Amends(l, g, h, now, Overruns(g, ev))
    BY <1>1, <1>2, <1>3, <1>4 DEF Amends
  <2>2. ev.acknowledges => Billed(g, h)
    BY <1>1, <1>2 DEF Closable, Billed
  <2> QED BY <1>2, <2>1, <2>2 DEF h
<1>5. CASE ~Overruns(g, ev)
  <2>1. \A d \in Dims : h.accounted[d] <= g.accounted[d]
    <3> SUFFICES ASSUME NEW d \in Dims PROVE h.accounted[d] <= g.accounted[d]
      OBVIOUS
    <3>1. ~(ev.observed[d] > g.envelope[d])
      BY <1>5 DEF Overruns
    <3>2. ev.observed[d] \in Nat /\ g.envelope[d] \in Nat
      BY <1>1 DEF Evident, Grant, Amounts
    <3> QED BY <1>1, <1>2, <3>1, <3>2
  <2>2. Refs(h) = Refs(g)
    BY <1>2 DEF Refs
  <2>3. UnitsOf(l, h) \subseteq UnitsOf(l, g)
    BY <1>1, <1>2, <2>1, <2>2, UnitsFewer
  <2>4. Amends(l, g, h, now, Overruns(g, ev))
    BY <1>1, <1>2, <1>3, <2>3 DEF Amends
  <2>5. ev.acknowledges => Billed(g, h)
    BY <1>1, <1>2 DEF Closable, Billed
  <2> QED BY <1>2, <2>4, <2>5 DEF h
<1> QED BY <1>4, <1>5

\* Evidence settles a grant and keeps the books.
LEMMA SettlePosts ==
  ASSUME NEW l, NEW L, Sound(l, L), NEW g \in L.grants, NEW ev \in Evident, Closable(L, g, ev)
  PROVE  Posts(l, L, Settle(L, g, ev), ev.now)
<1> DEFINE h == Settled(g, ev)
           R == Replace(L, h)
           D == [R EXCEPT !.defect = TRUE]
           now == ev.now
<1>1. /\ Amends(l, g, h, now, Overruns(g, ev)) /\ h.status = "reconciled"
      /\ h.compacted = g.compacted /\ h.seq = g.seq /\ (ev.acknowledges => Billed(g, h))
  BY SettledAmends
<1>2. LedgerInv(L) /\ L \in Ledger /\ now \in Nat /\ h \in Grant /\ SameGrant(g, h)
  BY <1>1 DEF Sound, LedgerInv, Evident, Amends
<1>3. Settle(L, g, ev) = IF Overruns(g, ev) THEN D
                         ELSE IF ExpiryAccounted(g) THEN Prune(R, now)
                         ELSE IF ev.certified THEN Compact(L, h, now)
                         ELSE R
  BY DEF Settle, Settled
<1>4. g.compacted => ExpiryAccounted(g) /\ ev.acknowledges /\ Billed(g, h)
  <2>1. SUFFICES ASSUME g.compacted PROVE ExpiryAccounted(g)
    BY <1>1 DEF Closable
  <2> QED BY <1>1, <2>1 DEF ExpiryAccounted, Closable, Sound, LedgerInv,
                            Ledger, Grant, Statuses, Unsettled
<1> HIDE DEF h
<1>5. /\ R.grants = {k \in L.grants : k.seq # h.seq} \cup {h} /\ R.next = L.next
      /\ R.policy = L.policy /\ R.defect = L.defect /\ R.closed = L.closed
  BY <1>2 DEF Replace, Ledger
<1>6. LedgerInv(R) /\ R \in Ledger
  BY <1>2, ReplaceInv DEF LedgerInv
<1> HIDE DEF R, now
<1>7. CASE Overruns(g, ev)
  <2>1. LedgerInv(D)
    BY <1>6, DefectInv
  <2>2. /\ D.grants = {k \in L.grants : k.seq # h.seq} \cup {h} /\ D.next = L.next
        /\ D.policy = L.policy /\ D.defect = TRUE /\ D.closed = L.closed
    BY <1>5, <1>6 DEF Ledger
  <2> HIDE DEF D
  <2>3. Amends(l, g, h, now, TRUE)
    BY <1>1 DEF Amends
  <2>4. D.defect = (L.defect \/ TRUE)
    BY <2>2
  <2>5. Posts(l, L, D, now)
    BY <1>1, <1>2, <1>4, <2>1, <2>2, <2>3, <2>4, ReplacePosts
  <2> QED BY <1>3, <1>7, <2>5 DEF now
<1>8. CASE ~Overruns(g, ev)
  <2>1. Amends(l, g, h, now, FALSE)
    BY <1>1, <1>8 DEF Amends
  <2>2. R.defect = (L.defect \/ FALSE)
    BY <1>2, <1>5 DEF Ledger
  <2>3. Posts(l, L, R, now)
    BY <1>1, <1>2, <1>4, <1>5, <1>6, <2>1, <2>2, ReplacePosts
  <2>4. Posts(l, R, Prune(R, now), now)
    BY <1>2, <2>3, PrunePosts DEF Posts
  <2>5. Posts(l, L, Prune(R, now), now)
    BY <1>2, <2>3, <2>4, PostsTransitive
  <2>6. ASSUME ~ExpiryAccounted(g), ev.certified
        PROVE  Posts(l, L, Compact(L, h, now), now)
    <3>1. ~g.compacted
      BY <1>4, <2>6
    <3>2. now < g.expiresAt \/ Billed(g, h)
      BY <1>1, <2>6 DEF Closable, now
    <3> QED BY <1>2, <2>1, <3>1, <3>2, CompactPosts
  <2> QED BY <1>3, <1>8, <2>3, <2>5, <2>6 DEF now
<1> QED BY <1>7, <1>8

\* So does evidence that closes a recovery with the grant it recovered.
LEMMA ReconcilePosts ==
  ASSUME NEW l, NEW L, Sound(l, L), NEW g \in L.grants, NEW ev \in Evident, Closable(L, g, ev)
  PROVE  Posts(l, L, Reconcile(L, g, ev), ev.now)
<1> DEFINE S == Settle(L, g, ev)
           r == CHOOSE k \in Open(L) : k.seq = ev.recovery
           c == [r EXCEPT !.status = "reconciled", !.accounted = r.envelope]
<1>1. Posts(l, L, S, ev.now)
  BY SettlePosts
<1>2. ev.now \in Nat
  BY DEF Evident
<1>3. CASE ev.recovery = 0 \/ Overruns(g, ev)
  BY <1>1, <1>3 DEF Reconcile
<1>4. CASE ~(ev.recovery = 0 \/ Overruns(g, ev))
  <2>1. PICK k \in Open(L) : /\ k.seq = ev.recovery /\ k.purpose = "recovery"
                             /\ k.status = "reserved" /\ g.purpose = "new-work"
    BY <1>4 DEF Closable, RecoveryMatches
  <2>2. LedgerInv(L)
    BY DEF Sound
  <2>3. r \in Open(L) /\ r.seq = ev.recovery
    BY <2>1
  <2>4. r = k
    BY <2>1, <2>2, <2>3 DEF LedgerInv, Numbered, Open
  <2> HIDE DEF r
  <2>5. r \in L.grants /\ ~r.compacted /\ r.status = "reserved" /\ r \in Grant
    BY <2>1, <2>2, <2>4 DEF Open, LedgerInv, Ledger
  <2>6. r.seq # g.seq
    BY <2>1, <2>2, <2>4, <2>5 DEF LedgerInv, Numbered
  <2>7. r \in S.grants
    BY <2>2, <2>5, <2>6, SettleInv
  <2> HIDE DEF S
  <2>8. Sound(l, S)
    BY <1>1 DEF Posts
  <2>9. r.accounted = r.envelope
    BY <2>5 DEF Sound, Unsettled
  <2>10. c = [r EXCEPT !.status = "reconciled"]
    BY <2>5, <2>9 DEF Grant
  <2>11. c \in Grant /\ SameGrant(r, c) /\ Billed(r, c) /\ c.expiresAt = r.expiresAt
         /\ c.status = "reconciled"
    BY <2>5, <2>10 DEF Grant, Statuses, SameGrant, Billed
  <2> HIDE DEF c
  <2>12. UnitsOf(l, c) \subseteq UnitsOf(l, r)
    BY <2>11, BilledUnits
  <2>13. Amends(l, r, c, ev.now, FALSE)
    BY <2>5, <2>11, <2>12 DEF Amends
  <2>14. Posts(l, S, Compact(S, c, ev.now), ev.now)
    BY <1>2, <2>5, <2>7, <2>8, <2>11, <2>13, CompactPosts
  <2>15. Reconcile(L, g, ev) = Compact(S, c, ev.now)
    BY <1>4 DEF Reconcile, S, r, c
  <2> QED BY <1>1, <1>2, <2>14, <2>15, PostsTransitive
<1> QED BY <1>3, <1>4

-----------------------------------------------------------------------------
(* The transitions of the aggregate.                                       *)

Solid(S) == AggInv(S) /\ \A l \in Ledgers : Sound(l, S.ledger[l])

\* A transition of a call made at time now keeps the books of every ledger.
Booked(S, T, now) ==
  AggInv(T) /\ \A l \in Ledgers : Posts(l, S.ledger[l], T.ledger[l], now)

LEMMA BookedSolid == ASSUME NEW S, NEW T, NEW now, Booked(S, T, now) PROVE Solid(T)
BY DEF Booked, Solid, Posts

LEMMA BookedReflexive ==
  ASSUME NEW S, Solid(S), NEW now \in Nat
  PROVE  Booked(S, S, now)
BY PostsReflexive DEF Booked, Solid

LEMMA BookedTransitive ==
  ASSUME NEW S, Solid(S), NEW T, NEW U, NEW now \in Nat, Booked(S, T, now), Booked(T, U, now)
  PROVE  Booked(S, U, now)
<1> SUFFICES ASSUME NEW l \in Ledgers PROVE Posts(l, S.ledger[l], U.ledger[l], now)
  BY DEF Booked
<1>1. Sound(l, S.ledger[l]) /\ Posts(l, S.ledger[l], T.ledger[l], now)
      /\ Posts(l, T.ledger[l], U.ledger[l], now)
  BY DEF Booked, Solid
<1> QED BY <1>1, PostsTransitive

\* One ledger moves.
LEMMA WithLedgerBooked ==
  ASSUME NEW S, Solid(S), NEW l \in Ledgers, NEW L, NEW now \in Nat,
         Posts(l, S.ledger[l], L, now)
  PROVE  Booked(S, WithLedger(S, l, L), now)
<1> DEFINE T == WithLedger(S, l, L)
<1>1. LedgerInv(L) /\ L \in Ledger
  BY DEF Posts, Sound, LedgerInv
<1>2. S \in Aggregate
  BY DEF Solid, AggInv
<1>3. T \in Aggregate /\ T.ledger[l] = L /\ \A k \in Ledgers \ {l} : T.ledger[k] = S.ledger[k]
  BY <1>1, <1>2 DEF WithLedger, Aggregate
<1> HIDE DEF T
<1>4. AggInv(T)
  BY <1>1, <1>3 DEF AggInv, Solid
<1>5. \A k \in Ledgers \ {l} : Posts(k, S.ledger[k], T.ledger[k], now)
  BY <1>3, PostsReflexive DEF Solid
<1>6. Booked(S, T, now)
  BY <1>3, <1>4, <1>5 DEF Booked
<1> QED BY <1>6 DEF T

LEMMA ExpireOneBooked ==
  ASSUME NEW S, Solid(S), NEW l \in Ledgers, NEW now \in Nat
  PROVE  Booked(S, WithLedger(S, l, Expire(S.ledger[l], now)), now)
BY ExpirePosts, WithLedgerBooked DEF Solid

LEMMA ExpireAllBooked ==
  ASSUME NEW S, Solid(S), NEW now \in Nat
  PROVE  Booked(S, ExpireAll(S, now), now)
<1> DEFINE T == ExpireAll(S, now)
<1>1. AggInv(T)
  BY ExpireAllKeeps DEF Solid, Keeps
<1>2. \A l \in Ledgers : T.ledger[l] = Expire(S.ledger[l], now)
  BY DEF ExpireAll, Solid, AggInv, Aggregate
<1> HIDE DEF T
<1>3. \A l \in Ledgers : Posts(l, S.ledger[l], T.ledger[l], now)
  BY <1>2, ExpirePosts DEF Solid
<1>4. Booked(S, T, now)
  BY <1>1, <1>3 DEF Booked
<1> QED BY <1>4 DEF T

\* A retirement charges the grant as it was.
LEMMA RetireOneBooked ==
  ASSUME NEW S, Solid(S), NEW now \in Nat
  PROVE  Booked(S, RetireOne(S, now), now)
<1>1. CASE RetireOne(S, now) = S
  BY <1>1, BookedReflexive
<1>2. CASE RetireOne(S, now) # S
  <2>1. PICK l \in Ledgers : \E g \in Retirable(S.ledger[l], now) :
               RetireOne(S, now) = RetireSome(S, l, g, now)
    BY <1>2, RetireOneCloses DEF Solid
  <2>2. PICK g \in Retirable(S.ledger[l], now) : RetireOne(S, now) = RetireSome(S, l, g, now)
    BY <2>1
  <2> DEFINE L == S.ledger[l]
             h == [g EXCEPT !.status = "uncertain"]
  <2>3. Sound(l, L) /\ LedgerInv(L)
    BY DEF Solid, Sound
  <2>4. g \in L.grants /\ g \in Grant /\ ~g.compacted /\ g.accounted = g.envelope
        /\ g.status # "reconciled"
    BY <2>2, <2>3 DEF Retirable, Open, LedgerInv, Ledger
  <2>5. h \in Grant /\ SameGrant(g, h) /\ Billed(g, h) /\ h.expiresAt = g.expiresAt
        /\ h.status = "uncertain" /\ h.accounted = h.envelope
    BY <2>4 DEF Grant, Statuses, SameGrant, Billed
  <2> HIDE DEF h, L
  <2>6. UnitsOf(l, h) \subseteq UnitsOf(l, g)
    BY <2>5, BilledUnits
  <2>7. Amends(l, g, h, now, FALSE)
    BY <2>4, <2>5, <2>6 DEF Amends
  <2>8. Posts(l, L, Compact(L, h, now), now)
    BY <2>3, <2>4, <2>5, <2>7, CompactPosts
  <2>9. RetireOne(S, now) = WithLedger(S, l, Compact(L, h, now))
    BY <2>2 DEF RetireSome, L, h
  <2> QED BY <2>8, <2>9, WithLedgerBooked DEF L
<1> QED BY <1>1, <1>2

LEMMA RetireExpiredBooked ==
  ASSUME NEW S, Solid(S), NEW now \in Nat, NEW T \in RetireExpired(S, now)
  PROVE  Booked(S, T, now)
<1> DEFINE R == RetireOne(S, now)
<1>1. T = RetireOne(R, now)
  BY DEF RetireExpired
<1>2. Booked(S, R, now)
  BY RetireOneBooked
<1> HIDE DEF R
<1>3. Booked(R, T, now)
  BY <1>1, <1>2, BookedSolid, RetireOneBooked
<1> QED BY <1>2, <1>3, BookedTransitive

\* A renewed lease, with a new policy or the same.
LEMMA RenewBooked ==
  ASSUME NEW S, Solid(S), NEW r \in Revisions, NEW at \in Nat
  PROVE  Booked(S, Renew(S, r, at), at)
<1> DEFINE T == Renew(S, r, at)
           policies == Authority[r].policies
<1>1. AggInv(T)
  BY RenewInv DEF Solid
<1>2. \A l \in Ledgers : T.ledger[l] = IF SameTerms(policies[l], S.ledger[l].policy)
                                      THEN S.ledger[l] ELSE Adopt(S.ledger[l], policies[l], at)
  BY DEF Renew, Solid, AggInv, Aggregate
<1> HIDE DEF T
<1>3. ASSUME NEW l \in Ledgers PROVE Posts(l, S.ledger[l], T.ledger[l], at)
  BY <1>2, AdoptPosts, PostsReflexive DEF Solid
<1>4. Booked(S, T, at)
  BY <1>1, <1>3 DEF Booked
<1> QED BY <1>4 DEF T

LEMMA RevokedBooked ==
  ASSUME NEW S, Solid(S), NEW r \in Revisions, NEW at \in Nat
  PROVE  Booked(S, Revoked(S, r, at), at)
<1> DEFINE T == Revoked(S, r, at)
<1>1. AggInv(T)
  BY RevokedInv DEF Solid
<1>2. T.ledger = S.ledger
  BY DEF Revoked, Solid, AggInv, Aggregate
<1> HIDE DEF T
<1>3. Booked(S, T, at)
  BY <1>1, <1>2, PostsReflexive DEF Booked, Solid
<1> QED BY <1>3 DEF T

\* Evidence, or what is no evidence.
LEMMA CloseGrantBooked ==
  ASSUME NEW S, Solid(S), NEW l \in Ledgers, NEW s, NEW ev \in Evident
  PROVE  Booked(S, CloseGrant(S, l, s, ev), ev.now)
<1> DEFINE L == S.ledger[l]
           X == Expire(L, ev.now)
           closing == ClosedBy(S, l, s, ev)
           g == CHOOSE h \in closing : TRUE
<1>1. ev.now \in Nat /\ Sound(l, L)
  BY DEF Solid, Evident
<1>2. Posts(l, L, X, ev.now)
  BY <1>1, ExpirePosts
<1>3. CASE closing = {}
  BY <1>1, <1>3, ExpireOneBooked DEF CloseGrant
<1>4. CASE closing # {}
  <2>1. CloseGrant(S, l, s, ev) = WithLedger(S, l, Reconcile(X, g, ev))
    BY <1>4 DEF CloseGrant
  <2>2. g \in X.grants /\ Closable(X, g, ev)
    BY <1>4 DEF ClosedBy
  <2> HIDE DEF X, g
  <2>3. Posts(l, X, Reconcile(X, g, ev), ev.now)
    BY <1>2, <2>2, ReconcilePosts DEF Posts
  <2>4. Posts(l, L, Reconcile(X, g, ev), ev.now)
    BY <1>1, <1>2, <2>3, PostsTransitive
  <2> QED BY <1>1, <2>1, <2>4, WithLedgerBooked
<1> QED BY <1>3, <1>4

-----------------------------------------------------------------------------
(* Reservations.                                                           *)

\* A call made at time now grants nothing.
Idles(S, T, now) == Booked(S, T, now) /\ NothingGranted(S, T)

\* The one grant of a call passed the checks of its owner and of its ledger.
Allowed(M, T, l, req) ==
  /\ T = WithLedger(M, l, AddGrant(M.ledger[l], req, {M.expiresAt}))
  /\ LeaseHeld(M, req.now)
  /\ Grantable(M.ledger[l], req)
  /\ OwnerAffordable(M, l, req)

\* A reservation grants nothing, or what was allowed after what grants nothing.
Reserves(S, T, l, req) ==
  \E M : Idles(S, M, req.now) /\ (T = M \/ Allowed(M, T, l, req))

LEMMA IdlesTransitive ==
  ASSUME NEW S, Solid(S), NEW T, NEW U, NEW now \in Nat, Idles(S, T, now), Idles(T, U, now)
  PROVE  Idles(S, U, now)
BY BookedTransitive DEF Idles, NothingGranted

LEMMA IdlesThenReserves ==
  ASSUME NEW S, Solid(S), NEW R, NEW T, NEW l, NEW req \in Request, Idles(S, R, req.now),
         Reserves(R, T, l, req)
  PROVE  Reserves(S, T, l, req)
<1>1. req.now \in Nat
  BY DEF Request
<1>2. PICK M : Idles(R, M, req.now) /\ (T = M \/ Allowed(M, T, l, req))
  BY DEF Reserves
<1>3. Idles(S, M, req.now)
  BY <1>1, <1>2, IdlesTransitive
<1> QED BY <1>2, <1>3 DEF Reserves

LEMMA QuietIdles ==
  ASSUME NEW S, NEW T, NEW now, Booked(S, T, now), Quiet(S, T)
  PROVE  Idles(S, T, now)
BY DEF Idles, Quiet, NothingGranted

\* What is granted within the lease is booked.
LEMMA ReserveNewBooked ==
  ASSUME NEW S, Solid(S), NEW l \in Ledgers, NEW req \in Request, LeaseHeld(S, req.now)
  PROVE  Booked(S, ReserveNew(S, l, req), req.now)
<1> DEFINE L == S.ledger[l]
           N == Reserve(L, req, {S.expiresAt})
<1>1. req.now \in Nat /\ S.expiresAt \in Nat /\ req.now < S.expiresAt
  BY DEF Request, Solid, AggInv, Aggregate, LeaseHeld
<1>2. Sound(l, L)
  BY DEF Solid
<1> HIDE DEF L
<1>3. Posts(l, L, N, req.now)
  BY <1>1, <1>2, ReservePosts
<1> HIDE DEF N
<1>4. Booked(S, WithLedger(S, l, N), req.now)
  BY <1>1, <1>3, WithLedgerBooked DEF L
<1>5. CASE OwnerGrantable(S, l, req)
  BY <1>4, <1>5 DEF ReserveNew, N, L
<1>6. CASE ~OwnerGrantable(S, l, req)
  BY <1>1, <1>6, BookedReflexive DEF ReserveNew
<1> QED BY <1>5, <1>6

LEMMA ReserveNewReserves ==
  ASSUME NEW S, Solid(S), NEW l \in Ledgers, NEW req \in Request, LeaseHeld(S, req.now)
  PROVE  Reserves(S, ReserveNew(S, l, req), l, req)
<1> DEFINE L == S.ledger[l]
           T == ReserveNew(S, l, req)
<1>1. Booked(S, T, req.now) /\ req.now \in Nat
  BY ReserveNewBooked DEF Request
<1>2. Idles(S, S, req.now)
  BY <1>1, BookedReflexive DEF Idles, NothingGranted
<1>3. CASE OwnerGrantable(S, l, req) /\ ~Redeliverable(L, req) /\ Grantable(L, req)
  <2>1. Allowed(S, T, l, req)
    BY <1>3 DEF Allowed, ReserveNew, Reserve, OwnerGrantable
  <2> QED BY <1>2, <2>1 DEF Reserves
<1>4. CASE ~(OwnerGrantable(S, l, req) /\ ~Redeliverable(L, req) /\ Grantable(L, req))
  <2>1. CASE OwnerGrantable(S, l, req)
    <3> DEFINE N == Reserve(L, req, {S.expiresAt})
    <3>1. N = L \/ N = Redeliver(L, req)
      BY <1>4, <2>1 DEF Reserve
    <3>2. N.next = L.next
      BY <3>1 DEF Redeliver, Solid, AggInv, LedgerInv, Ledger
    <3>3. T = WithLedger(S, l, N)
      BY <2>1 DEF ReserveNew
    <3> HIDE DEF N, T
    <3>4. NothingGranted(S, T)
      BY <3>2, <3>3 DEF NothingGranted, WithLedger, Solid, AggInv, Aggregate
    <3> QED BY <1>1, <3>4 DEF Reserves, Idles, T
  <2>2. CASE ~OwnerGrantable(S, l, req)
    BY <1>2, <2>2 DEF Reserves, ReserveNew
  <2> QED BY <2>1, <2>2
<1> QED BY <1>3, <1>4

\* The lease lasts through expiry.
LEMMA ExpiredLease ==
  ASSUME NEW S, Solid(S), NEW now \in Nat, NEW at, LeaseHeld(S, at)
  PROVE  LeaseHeld(ExpireAll(S, now), at)
BY ExpireAllKeeps DEF LeaseHeld, Solid, Keeps

LEMMA ReserveTenantBooked ==
  ASSUME NEW S, Solid(S), NEW l \in Ledgers, NEW req \in Request
  PROVE  Booked(S, ReserveTenant(S, l, req), req.now)
<1> DEFINE L == S.ledger[l]
           X == Expire(L, req.now)
           A == ExpireAll(S, req.now)
           N == Reserve(X, req, {})
<1>1. req.now \in Nat
  BY DEF Request
<1>2. CASE ~LeaseHeld(S, req.now)
  BY <1>1, <1>2, ExpireOneBooked DEF ReserveTenant
<1>3. CASE LeaseHeld(S, req.now) /\ (Stale(L, req) \/ Prior(L, req) # {})
  <2>1. Posts(l, L, X, req.now) /\ Sound(l, L) /\ Sound(l, X)
    BY <1>1, ExpirePosts DEF Solid, Posts
  <2> HIDE DEF X
  <2>2. Posts(l, X, N, req.now)
    BY <2>1, ReservePosts
  <2> HIDE DEF N
  <2>3. Posts(l, L, N, req.now)
    BY <1>1, <2>1, <2>2, PostsTransitive
  <2>4. Booked(S, WithLedger(S, l, N), req.now)
    BY <1>1, <2>3, WithLedgerBooked
  <2> QED BY <1>3, <2>4 DEF ReserveTenant, N, X
<1>4. CASE LeaseHeld(S, req.now) /\ ~(Stale(L, req) \/ Prior(L, req) # {})
  <2>1. ReserveTenant(S, l, req) = ReserveNew(A, l, req)
    BY <1>4 DEF ReserveTenant
  <2>2. Booked(S, A, req.now) /\ Solid(A) /\ LeaseHeld(A, req.now)
    BY <1>1, <1>4, ExpireAllBooked, BookedSolid, ExpiredLease
  <2> HIDE DEF A
  <2>3. Booked(A, ReserveNew(A, l, req), req.now)
    BY <2>2, ReserveNewBooked
  <2> QED BY <1>1, <2>1, <2>2, <2>3, BookedTransitive
<1> QED BY <1>2, <1>3, <1>4

LEMMA ReserveOnIngressBooked ==
  ASSUME NEW S, Solid(S), NEW req \in Request
  PROVE  Booked(S, ReserveOnIngress(S, req), req.now)
<1> DEFINE A == ExpireAll(S, req.now)
           L == A.ledger[Ingress]
           N == Reserve(L, req, {})
<1>1. req.now \in Nat /\ Ingress \in Ledgers
  BY LedgersType DEF Request
<1>2. Booked(S, A, req.now) /\ Solid(A)
  BY <1>1, ExpireAllBooked, BookedSolid
<1>3. CASE ~LeaseHeld(S, req.now)
  BY <1>2, <1>3 DEF ReserveOnIngress
<1>4. CASE LeaseHeld(S, req.now) /\ (Stale(L, req) \/ Prior(L, req) # {})
  <2>1. ReserveOnIngress(S, req) = WithLedger(A, Ingress, N)
    BY <1>4 DEF ReserveOnIngress
  <2> HIDE DEF A
  <2>2. Posts(Ingress, L, N, req.now)
    BY <1>1, <1>2, ReservePosts DEF Solid
  <2> HIDE DEF N
  <2>3. Booked(A, WithLedger(A, Ingress, N), req.now)
    BY <1>1, <1>2, <2>2, WithLedgerBooked
  <2> QED BY <1>1, <1>2, <2>1, <2>3, BookedTransitive
<1>5. CASE LeaseHeld(S, req.now) /\ ~(Stale(L, req) \/ Prior(L, req) # {})
  <2>1. ReserveOnIngress(S, req) = ReserveNew(A, Ingress, req)
    BY <1>5 DEF ReserveOnIngress
  <2>2. LeaseHeld(A, req.now)
    BY <1>1, <1>5, ExpiredLease
  <2> HIDE DEF A
  <2>3. Booked(A, ReserveNew(A, Ingress, req), req.now)
    BY <1>1, <1>2, <2>2, ReserveNewBooked
  <2> QED BY <1>1, <1>2, <2>1, <2>3, BookedTransitive
<1> QED BY <1>3, <1>4, <1>5

\* A caller whose grant is not forgotten is granted nothing, or what is allowed.
LEMMA ReserveTenantReserves ==
  ASSUME NEW S, Solid(S), NEW l \in Ledgers, NEW req \in Request, ~Late(S.ledger[l], req)
  PROVE  Reserves(S, ReserveTenant(S, l, req), l, req)
<1> DEFINE L == S.ledger[l]
           X == Expire(L, req.now)
           A == ExpireAll(S, req.now)
           T == ReserveTenant(S, l, req)
<1>1. req.now \in Nat /\ LedgerInv(L) /\ AggInv(S)
  BY DEF Request, Solid, AggInv
<1>2. LedgerInv(X) /\ Continues(L, X)
  BY <1>1, ExpireInv
<1>3. Booked(S, T, req.now)
  BY ReserveTenantBooked
<1>4. CASE ~LeaseHeld(S, req.now)
  <2>1. T = WithLedger(S, l, X)
    BY <1>4 DEF ReserveTenant
  <2> HIDE DEF T
  <2>2. Idles(S, T, req.now)
    BY <1>1, <1>3, <2>1, ExpireOneQuiet, QuietIdles
  <2> QED BY <2>2 DEF Reserves, T
<1>5. CASE LeaseHeld(S, req.now) /\ (Stale(L, req) \/ Prior(L, req) # {})
  <2> DEFINE N == Reserve(X, req, {})
  <2>1. T = WithLedger(S, l, N)
    BY <1>5 DEF ReserveTenant
  <2>2. Stale(X, req) \/ Prior(X, req) # {}
    <3> HIDE DEF X
    <3>1. Stale(L, req) => Stale(X, req)
      BY <1>2 DEF Stale, Continues
    <3> QED BY <1>1, <1>5, <3>1, KnownAfterExpiry DEF X
  <2> HIDE DEF X, T
  <2>3. N.next = L.next
    BY <1>2, <2>2, ReserveAged DEF Continues
  <2> HIDE DEF N
  <2>4. NothingGranted(S, T)
    BY <1>1, <2>1, <2>3 DEF NothingGranted, WithLedger, AggInv, Aggregate
  <2> QED BY <1>3, <2>4 DEF Reserves, Idles, T
<1>6. CASE LeaseHeld(S, req.now) /\ ~(Stale(L, req) \/ Prior(L, req) # {})
  <2>1. T = ReserveNew(A, l, req)
    BY <1>6 DEF ReserveTenant
  <2>2. Booked(S, A, req.now) /\ Solid(A) /\ LeaseHeld(A, req.now)
    BY <1>1, <1>6, ExpireAllBooked, BookedSolid, ExpiredLease
  <2>3. Quiet(S, A)
    BY <1>1, ExpireAllQuiet
  <2> HIDE DEF A, T
  <2>4. Reserves(A, T, l, req)
    BY <2>1, <2>2, ReserveNewReserves
  <2>5. Idles(S, A, req.now)
    BY <2>2, <2>3, QuietIdles
  <2> QED BY <2>4, <2>5, IdlesThenReserves DEF T
<1> QED BY <1>4, <1>5, <1>6

LEMMA ReserveOnIngressReserves ==
  ASSUME NEW S, Solid(S), NEW req \in Request
  PROVE  Reserves(S, ReserveOnIngress(S, req), Ingress, req)
<1> DEFINE A == ExpireAll(S, req.now)
           L == A.ledger[Ingress]
           N == Reserve(L, req, {})
           T == ReserveOnIngress(S, req)
<1>1. req.now \in Nat /\ Ingress \in Ledgers /\ AggInv(S)
  BY LedgersType DEF Request, Solid
<1>2. Booked(S, A, req.now) /\ Solid(A) /\ Quiet(S, A)
  BY <1>1, ExpireAllBooked, BookedSolid, ExpireAllQuiet
<1>3. Booked(S, T, req.now)
  BY ReserveOnIngressBooked
<1>4. CASE ~LeaseHeld(S, req.now)
  <2>1. T = A
    BY <1>4 DEF ReserveOnIngress
  <2> HIDE DEF T, A
  <2> QED BY <1>2, <2>1, QuietIdles DEF Reserves, T
<1>5. CASE LeaseHeld(S, req.now) /\ (Stale(L, req) \/ Prior(L, req) # {})
  <2>1. T = WithLedger(A, Ingress, N)
    BY <1>5 DEF ReserveOnIngress
  <2> HIDE DEF A, T
  <2>2. LedgerInv(L) /\ A \in Aggregate
    BY <1>1, <1>2 DEF Solid, AggInv
  <2>3. N.next = L.next
    BY <1>5, <2>2, ReserveAged
  <2> HIDE DEF N
  <2>4. NothingGranted(S, T)
    BY <1>1, <1>2, <2>1, <2>2, <2>3 DEF NothingGranted, Quiet, WithLedger, Aggregate
  <2> QED BY <1>3, <2>4 DEF Reserves, Idles, T
<1>6. CASE LeaseHeld(S, req.now) /\ ~(Stale(L, req) \/ Prior(L, req) # {})
  <2>1. T = ReserveNew(A, Ingress, req)
    BY <1>6 DEF ReserveOnIngress
  <2>2. LeaseHeld(A, req.now)
    BY <1>1, <1>6, ExpiredLease
  <2> HIDE DEF A, T
  <2>3. Reserves(A, T, Ingress, req)
    BY <1>1, <1>2, <2>1, <2>2, ReserveNewReserves
  <2>4. Idles(S, A, req.now)
    BY <1>2, QuietIdles
  <2> QED BY <2>3, <2>4, IdlesThenReserves DEF T
<1> QED BY <1>4, <1>5, <1>6

-----------------------------------------------------------------------------
(* What a ledger believes is charged, and what is booked.                  *)

\* The rows of the books E of a ledger on account b.
RowsAt(E, b, p) == {e \in E : e[4] = b /\ e[5] = p}

\* A ledger has finitely many grants.
LEMMA GrantsFinite == ASSUME NEW L, LedgerInv(L) PROVE IsFiniteSet(L.grants)
<1> DEFINE f == [g \in L.grants |-> g.seq]
<1>1. L.next \in Nat /\ \A g \in L.grants : g.seq \in Nat /\ g.seq < L.next
  BY DEF LedgerInv, Ledger, Grant, Numbered
<1>2. IsFiniteSet(0 .. L.next)
  BY <1>1, FS_Interval
<1>3. \A g \in L.grants : g.seq \in 0 .. L.next
  BY <1>1
<1>4. \A g, h \in L.grants : f[g] = f[h] => g = h
  BY DEF LedgerInv, Numbered
<1>5. f \in Injection(L.grants, 0 .. L.next)
  BY <1>3, <1>4 DEF Injection, IsInjective
<1> QED BY <1>2, <1>5, FS_Injection

\* What is offered for a dimension is of that dimension.
LEMMA OfferedForm ==
  ASSUME NEW d \in Dims, NEW a \in Offered(d)
  PROVE  a \in Allocs /\ AllocInfo[a].dim = d
<1>1. PICK r \in Revisions : a = Authority[r].policies[Ingress].budgets[d].alloc
  BY DEF Offered
<1> QED BY <1>1, OfferedTerms, LedgersType

\* The units open grants hold are finitely many, and none is a closed one.
LEMMA OpenFinite ==
  ASSUME NEW L, LedgerInv(L), NEW b \in Allocs, NEW p \in Purposes
  PROVE  IsFiniteSet(OpenUnits(L, b, p)) /\ \A x \in OpenUnits(L, b, p) : x[1] # 0
<1> DEFINE G == {h \in Open(L) : h.purpose = p /\ b \in Refs(h)}
           unit(g) == {g.seq} \X (1 .. g.accounted[AllocInfo[b].dim])
           Units == {unit(g) : g \in G}
           f == [g \in G |-> unit(g)]
<1>1. IsFiniteSet(L.grants) /\ G \in SUBSET L.grants
  BY GrantsFinite DEF Open
<1>2. \A g \in G : g.seq \in Nat /\ g.seq # 0 /\ g.accounted[AllocInfo[b].dim] \in Nat
  BY <1>1, AllocInfoType DEF LedgerInv, Ledger, Grant, Amounts, Window
<1>3. OpenUnits(L, b, p) = UNION Units
  BY DEF OpenUnits
<1> HIDE DEF G
<1>4. IsFiniteSet(G)
  BY <1>1, FS_Subset
<1>5. \A g \in G : IsFiniteSet(unit(g))
  <2> SUFFICES ASSUME NEW g \in G PROVE IsFiniteSet(unit(g))
    OBVIOUS
  <2> DEFINE n == g.accounted[AllocInfo[b].dim]
  <2>1. n \in Int /\ 1 \in Int
    BY <1>2
  <2> HIDE DEF n
  <2>2. IsFiniteSet({g.seq}) /\ IsFiniteSet(1 .. n)
    BY <2>1, FS_Singleton, FS_Interval
  <2>3. IsFiniteSet({g.seq} \X (1 .. n))
    BY <2>2, FS_Product
  <2> QED BY <2>3 DEF n
<1>6. \A g \in G : \A x \in unit(g) : x[1] # 0
  BY <1>2
<1>7. f \in Surjection(G, Units)
  BY DEF Surjection
<1>8. \A U \in Units : IsFiniteSet(U) /\ \A x \in U : x[1] # 0
  BY <1>5, <1>6
<1> HIDE DEF f, Units, unit
<1>9. IsFiniteSet(Units)
  BY <1>4, <1>7, FS_Surjection
<1>10. IsFiniteSet(UNION Units)
  BY <1>8, <1>9, FS_UNION
<1> QED BY <1>3, <1>8, <1>10

\* A grant that is charged on the account of an offered allocation draws on it.
LEMMA DrawsOnAccount ==
  ASSUME OneStock, NEW l, NEW L, Sound(l, L), NEW g \in L.grants, NEW a \in Refs(g),
         NEW b \in Allocs, b \in Offered(AllocInfo[b].dim), Account(a) = Account(b)
  PROVE  a = b
<1>1. PICK d \in Dims : a = g.alloc[d] /\ a \in Offered(d)
  BY DEF Refs, Sound, OnTerms
<1>2. a \in Allocs /\ AllocInfo[a].dim = d
  BY <1>1, OfferedForm
<1>3. AllocInfo[b].dim = d
  BY <1>2, AccountForm
<1>4. AllocInfo[a].stock = AllocInfo[b].stock
  BY <1>2, AccountForm
<1>5. CASE AllocInfo[a].stock
  BY <1>1, <1>3, <1>4, <1>5 DEF OneStock
<1>6. CASE ~AllocInfo[a].stock
  BY <1>2, <1>4, <1>6, AccountForm
<1> QED BY <1>5, <1>6

\* The rows of open grants on the account of an offered allocation are the units
\* that open grants hold of it.
LEMMA OpenRows ==
  ASSUME OneStock, NEW l, NEW L, Sound(l, L), NEW E, NEW t, Balanced(l, L, E, t),
         NEW b \in Allocs, b \in Offered(AllocInfo[b].dim), NEW p \in Purposes
  PROVE  LET O == {e \in RowsAt(E, Account(b), p) : \E g \in Open(L) : g.seq = e[2]}
         IN  /\ \A e \in O : e = <<l, e[2], e[3], Account(b), p>>
             /\ Pairs(O) = OpenUnits(L, b, p)
<1> DEFINE O == {e \in RowsAt(E, Account(b), p) : \E g \in Open(L) : g.seq = e[2]}
           n(g) == g.accounted[AllocInfo[b].dim]
<1>1. ASSUME NEW e \in O
      PROVE  \E g \in Open(L) : /\ g.purpose = p /\ b \in Refs(g)
                                /\ \E u \in 1 .. n(g) : e = <<l, g.seq, u, Account(b), p>>
  <2>1. PICK g \in Open(L) : g.seq = e[2]
    OBVIOUS
  <2>2. g \in L.grants /\ e \in E /\ e[4] = Account(b) /\ e[5] = p
    BY <2>1 DEF Open, RowsAt
  <2>3. e \in UnitsOf(l, g)
    BY <2>1, <2>2 DEF Balanced
  <2>4. PICK a \in Refs(g) : \E u \in 1 .. g.accounted[AllocInfo[a].dim] :
               e = <<l, g.seq, u, Account(a), g.purpose>>
    BY <2>3, UnitsForm
  <2>5. PICK u \in 1 .. g.accounted[AllocInfo[a].dim] : e = <<l, g.seq, u, Account(a), g.purpose>>
    BY <2>4
  <2>6. Account(a) = Account(b) /\ g.purpose = p
    BY <2>2, <2>5
  <2>7. a = b
    BY <2>2, <2>6, DrawsOnAccount
  <2> QED BY <2>1, <2>4, <2>5, <2>6, <2>7
<1>2. ASSUME NEW g \in Open(L), g.purpose = p, b \in Refs(g), NEW u \in 1 .. n(g)
      PROVE  <<l, g.seq, u, Account(b), p>> \in O
  <2>1. <<l, g.seq, u, Account(b), p>> \in UnitsOf(l, g)
    BY <1>2 DEF UnitsOf
  <2>2. <<l, g.seq, u, Account(b), p>> \in E
    BY <2>1 DEF Balanced, Open
  <2> QED BY <2>2 DEF RowsAt
<1>3. \A e \in O : e = <<l, e[2], e[3], Account(b), p>>
  <2> SUFFICES ASSUME NEW e \in O PROVE e = <<l, e[2], e[3], Account(b), p>>
    OBVIOUS
  <2>1. PICK g \in Open(L) : \E u \in 1 .. n(g) : e = <<l, g.seq, u, Account(b), p>>
    BY <1>1
  <2> QED BY <2>1
<1>4. ASSUME NEW x \in Pairs(O) PROVE x \in OpenUnits(L, b, p)
  <2>1. PICK e \in O : x = <<e[2], e[3]>>
    BY <1>4 DEF Pairs
  <2>2. PICK g \in Open(L) : /\ g.purpose = p /\ b \in Refs(g)
                             /\ \E u \in 1 .. n(g) : e = <<l, g.seq, u, Account(b), p>>
    BY <1>1
  <2>3. PICK u \in 1 .. n(g) : e = <<l, g.seq, u, Account(b), p>>
    BY <2>2
  <2>4. x \in {g.seq} \X (1 .. n(g))
    BY <2>1, <2>3
  <2> QED BY <2>2, <2>4 DEF OpenUnits
<1>5. ASSUME NEW x \in OpenUnits(L, b, p) PROVE x \in Pairs(O)
  <2>1. PICK g \in Open(L) : g.purpose = p /\ b \in Refs(g) /\ x \in {g.seq} \X (1 .. n(g))
    BY <1>5 DEF OpenUnits
  <2>2. PICK u \in 1 .. n(g) : x = <<g.seq, u>>
    BY <2>1
  <2> DEFINE e == <<l, g.seq, u, Account(b), p>>
  <2>3. e \in O
    BY <1>2, <2>1
  <2>4. x = <<e[2], e[3]>>
    BY <2>2
  <2> HIDE DEF e, O
  <2> QED BY <2>3, <2>4 DEF Pairs
<1> HIDE DEF O
<1>6. Pairs(O) = OpenUnits(L, b, p)
  BY <1>4, <1>5
<1> QED BY <1>3, <1>6 DEF O

\* A ledger's charge on a running, offered allocation is what the books hold.
LEMMA ChargedBooked ==
  ASSUME OneStock, NEW l, NEW L, Sound(l, L), NEW E, NEW t, Balanced(l, L, E, t),
         NEW b \in Allocs, b \in Offered(AllocInfo[b].dim), ~Ended(b, t), NEW p \in Purposes
  PROVE  /\ IsFiniteSet(RowsAt(E, Account(b), p))
         /\ IsFiniteSet(OpenUnits(L, b, p) \cup ClosedUnits(L, b, p))
         /\ Cardinality(RowsAt(E, Account(b), p)) = Charged(L, b, p)
<1> DEFINE c == Account(b)
           R == RowsAt(E, c, p)
           O == {e \in R : \E g \in Open(L) : g.seq = e[2]}
           G == Gone(L, E, c, p)
           U == OpenUnits(L, b, p)
           n == L.closed[c][p]
           C == ClosedUnits(L, b, p)
<1>1. LedgerInv(L) /\ c \in Allocs
  BY AccountForm DEF Sound
<1>2. n \in Nat
  BY <1>1 DEF LedgerInv, Ledger
<1>3. ~Ended(c, t)
  <2>1. CASE AllocInfo[b].stock
    BY <2>1, AccountForm DEF Ended
  <2>2. CASE ~AllocInfo[b].stock
    BY <2>2, AccountForm
  <2> QED BY <2>1, <2>2
<1>4. IsFiniteSet(U) /\ \A x \in U : x[1] # 0
  BY <1>1, OpenFinite
<1>5. (\A e \in O : e = <<l, e[2], e[3], c, p>>) /\ Pairs(O) = U
  BY OpenRows
<1>6. R = G \cup O /\ G \cap O = {}
  BY DEF RowsAt, Gone, Open
<1>7. C = {0} \X (1 .. n)
  BY DEF ClosedUnits
<1>8. Charged(L, b, p) = Cardinality(U \cup C)
  BY DEF Charged
<1>9. IsFiniteSet(G) /\ Cardinality(G) = n
  BY <1>1, <1>3 DEF Balanced
<1> HIDE DEF O, G, U, C, n, c
<1>10. IsFiniteSet(O) /\ Cardinality(O) = Cardinality(U)
  BY <1>4, <1>5, PairsCount
<1>11. IsFiniteSet(C) /\ Cardinality(C) = n
  <2>1. IsFiniteSet(1 .. n) /\ Cardinality(1 .. n) = n
    BY <1>2, FS_Interval
  <2>2. IsFiniteSet({0}) /\ Cardinality({0}) = 1
    BY FS_Singleton
  <2>3. IsFiniteSet({0} \X (1 .. n)) /\ Cardinality({0} \X (1 .. n)) = 1 * n
    BY <2>1, <2>2, FS_Product
  <2> QED BY <1>2, <1>7, <2>3
<1>12. U \cap C = {}
  BY <1>4, <1>7
<1>13. IsFiniteSet(U \cup C) /\ Cardinality(U \cup C) = Cardinality(U) + Cardinality(C)
  BY <1>4, <1>11, <1>12, DisjointCount
<1>14. IsFiniteSet(G \cup O) /\ Cardinality(G \cup O) = Cardinality(G) + Cardinality(O)
  BY <1>6, <1>9, <1>10, DisjointCount
<1>15. Cardinality(U) \in Nat
  BY <1>4, FS_CardinalityType
<1>16. Cardinality(U \cup C) = Cardinality(G \cup O)
  BY <1>2, <1>9, <1>10, <1>11, <1>13, <1>14, <1>15
<1> QED BY <1>6, <1>8, <1>13, <1>14, <1>16 DEF U, C, c

-----------------------------------------------------------------------------
(* The calls.                                                              *)

\* A call makes at most one grant, which was allowed, between transitions that
\* grant nothing.
GrantsOnce(S, T, now) ==
  \E M, N : /\ Idles(S, M, now) /\ Idles(N, T, now)
            /\ N = M \/ \E l \in Ledgers, req \in Request : req.now = now /\ Allowed(M, N, l, req)

\* A call made at time now is booked, and grants at most once as long as no
\* caller uses an identity again that the aggregate has forgotten.
Enters(S, T, now) == Booked(S, T, now) /\ (StaleRetries \/ GrantsOnce(S, T, now))

LEMMA IdlesEnters ==
  ASSUME NEW S, Solid(S), NEW T, NEW now \in Nat, Idles(S, T, now)
  PROVE  Enters(S, T, now)
<1>1. Idles(T, T, now)
  BY BookedSolid, BookedReflexive DEF Idles, NothingGranted
<1> QED BY <1>1 DEF Enters, GrantsOnce, Idles

LEMMA ReservesEnters ==
  ASSUME NEW S, Solid(S), NEW T, NEW l \in Ledgers, NEW req \in Request,
         Booked(S, T, req.now), StaleRetries \/ Reserves(S, T, l, req)
  PROVE  Enters(S, T, req.now)
<1>1. req.now \in Nat
  BY DEF Request
<1>2. Idles(T, T, req.now)
  BY <1>1, BookedSolid, BookedReflexive DEF Idles, NothingGranted
<1>3. CASE Reserves(S, T, l, req)
  <2>1. PICK M : Idles(S, M, req.now) /\ (T = M \/ Allowed(M, T, l, req))
    BY <1>3 DEF Reserves
  <2> QED BY <1>2, <2>1 DEF Enters, GrantsOnce
<1> QED BY <1>3 DEF Enters

LEMMA SolidAgg == ASSUME NEW S, Solid(S) PROVE AggInv(S)
BY DEF Solid

LEMMA CloseGrantIdles ==
  ASSUME NEW S, Solid(S), NEW l \in Ledgers, NEW s, NEW ev \in Evident
  PROVE  Idles(S, CloseGrant(S, l, s, ev), ev.now)
BY SolidAgg, CloseGrantBooked, CloseGrantQuiet, QuietIdles

LEMMA RenewIdles ==
  ASSUME NEW S, Solid(S), NEW r \in Revisions, NEW at \in Nat
  PROVE  Idles(S, Renew(S, r, at), at)
BY SolidAgg, RenewBooked, RenewQuiet, QuietIdles

LEMMA RetireExpiredIdles ==
  ASSUME NEW S, Solid(S), NEW now \in Nat, NEW T \in RetireExpired(S, now)
  PROVE  Idles(S, T, now)
BY SolidAgg, RetireExpiredBooked, RetireExpiredQuiet, QuietIdles

\* A handoff closes, reserves and closes.
LEMMA HandoffEntersStates ==
  ASSUME NEW S, Solid(S), NEW l \in Tenants, NEW g \in Grant, NEW r \in Revisions,
         NEW now \in Nat, NEW T \in HandoffStates(S, l, g, Authority[r].policies[l], now),
         StaleRetries \/ ~Late(S.ledger[l], MovedRequest(g, Authority[r].policies[l].revision,
                                         Authority[r].policies[l].restriction, now))
  PROVE  Enters(S, T, now)
<1> DEFINE terms == Authority[r].policies[l]
           ev == Certificate(g, Nothing, now)
           req == MovedRequest(g, terms.revision, terms.restriction, now)
           closed == CloseGrant(S, Ingress, g.seq, ev)
           reserved == ReserveTenant(closed, l, req)
           full == Certificate(g, g.envelope, now)
<1>1. l \in Ledgers /\ Ingress \in Ledgers /\ l # Ingress
  BY LedgersType, AuthorityAssumption DEF Tenants, Ingress
<1>2. ev \in Evident /\ full \in Evident /\ ev.now = now /\ full.now = now
  BY CertificateType DEF Nothing, Amounts, Grant, Certificate
<1>3. req \in Request /\ req.now = now
  BY <1>1, PoliciesType DEF MovedRequest, Request, Grant, Policy
<1>4. T = CloseGrant(reserved, l, closed.ledger[l].next, full)
  BY DEF HandoffStates
<1>5. closed.ledger[l] = S.ledger[l]
  BY <1>1 DEF CloseGrant, WithLedger, Solid, AggInv, Aggregate
<1> HIDE DEF ev, req, full
<1>6. Idles(S, closed, now) /\ Solid(closed)
  BY <1>1, <1>2, CloseGrantIdles, BookedSolid DEF Idles
<1>7. StaleRetries \/ ~Late(closed.ledger[l], req)
  BY <1>5 DEF req
<1> HIDE DEF closed
<1>8. Booked(closed, reserved, now) /\ Solid(reserved)
  BY <1>1, <1>3, <1>6, ReserveTenantBooked, BookedSolid
<1>9. StaleRetries \/ Reserves(closed, reserved, l, req)
  BY <1>1, <1>3, <1>6, <1>7, ReserveTenantReserves
<1> HIDE DEF reserved
<1>10. Idles(reserved, T, now)
  BY <1>1, <1>2, <1>4, <1>8, CloseGrantIdles
<1>11. Booked(S, T, now)
  BY <1>6, <1>8, <1>10, BookedTransitive DEF Idles
<1>12. CASE Reserves(closed, reserved, l, req)
  <2>1. Reserves(S, reserved, l, req)
    BY <1>3, <1>6, <1>12, IdlesThenReserves
  <2>2. PICK M : Idles(S, M, now) /\ (reserved = M \/ Allowed(M, reserved, l, req))
    BY <1>3, <2>1 DEF Reserves
  <2>3. GrantsOnce(S, T, now)
    BY <1>1, <1>3, <1>10, <2>2 DEF GrantsOnce
  <2> QED BY <1>11, <2>3 DEF Enters
<1> QED BY <1>9, <1>11, <1>12 DEF Enters

\* Repeated, it expires two ledgers.
LEMMA HandoffRepeatedIdles ==
  ASSUME NEW S, Solid(S), NEW l \in Tenants, NEW g, NEW now \in Nat,
         NEW T \in HandoffRepeated(S, l, g, now)
  PROVE  Idles(S, T, now)
<1> DEFINE M == WithLedger(S, Ingress, Expire(S.ledger[Ingress], now))
           N == WithLedger(M, l, Expire(M.ledger[l], now))
<1>1. l \in Ledgers /\ Ingress \in Ledgers /\ l # Ingress
  BY LedgersType, AuthorityAssumption DEF Tenants, Ingress
<1>2. T = N
  BY <1>1 DEF HandoffRepeated, WithLedger, Solid, AggInv, Aggregate
<1>3. Booked(S, M, now) /\ Solid(M)
  BY <1>1, ExpireOneBooked, BookedSolid
<1> HIDE DEF M
<1>4. Booked(M, N, now)
  BY <1>1, <1>3, ExpireOneBooked
<1>5. Booked(S, T, now)
  BY <1>2, <1>3, <1>4, BookedTransitive
<1> QED BY <1>5, SolidAgg, HandoffRepeatedQuiet, QuietIdles

\* So does every call.
LEMMA CallEnters ==
  ASSUME IInv, Solid(agg), NEW now \in Times, VerifiedCall(now) \/ UnverifiedCall(now)
  PROVE  clock' = clock /\ Enters(agg, agg', now)
<1>1. AggInv(agg) /\ now \in Nat
  BY TimesType DEF IInv, TypeOK
<1>2. CASE \E r \in Revisions : RefreshRPC(r, now)
  <2>1. PICK r \in Revisions : RefreshRPC(r, now)
    BY <1>2
  <2> DEFINE R == Renew(agg, r, now)
  <2>2. agg' \in RetireExpired(R, now) /\ clock' = clock
    BY <2>1 DEF RefreshRPC, Env
  <2>3. Idles(agg, R, now) /\ Solid(R)
    BY <1>1, RenewIdles, BookedSolid DEF Idles
  <2> HIDE DEF R
  <2>4. Idles(agg, agg', now)
    BY <1>1, <2>2, <2>3, RetireExpiredIdles, IdlesTransitive
  <2> QED BY <1>1, <2>2, <2>4, IdlesEnters
<1>3. CASE \E r \in Revisions : RevokeRPC(r, now)
  <2>1. PICK r \in Revisions : RevokeRPC(r, now)
    BY <1>3
  <2>2. agg' = Revoked(agg, r, now) /\ clock' = clock
    BY <2>1 DEF RevokeRPC, Env
  <2>3. Idles(agg, agg', now)
    BY <1>1, <2>2, RevokedBooked, RevokedInv DEF Idles
  <2> QED BY <1>1, <2>2, <2>3, IdlesEnters
<1>4. CASE \E l \in Tenants : \E req \in Requests(l, Demand[l], now) : ReserveRPC(l, req)
  <2>1. PICK l \in Tenants : \E req \in Requests(l, Demand[l], now) : ReserveRPC(l, req)
    BY <1>4
  <2>2. PICK req \in Requests(l, Demand[l], now) : ReserveRPC(l, req)
    BY <2>1
  <2>3. l \in Ledgers
    BY LedgersType
  <2>4. req \in Request /\ req.now \in Nat /\ req.now = now
    BY <2>3, RequestsType, LimitAssumption DEF Request
  <2>5. (StaleRetries \/ ~Late(agg.ledger[l], req))
    BY DEF Requests
  <2>6. PICK S \in RetireExpired(agg, req.now) : agg' = ReserveTenant(S, l, req) \/ agg' = S
    BY <2>2 DEF ReserveRPC
  <2>7. clock' = clock
    BY <2>2 DEF ReserveRPC, Env
  <2>8. Idles(agg, S, req.now) /\ Solid(S)
    BY <2>4, RetireExpiredIdles, BookedSolid DEF Idles
  <2>9. \A h \in S.ledger[l].grants : h.status = "reconciled" => h \in agg.ledger[l].grants
    BY <1>1, <2>3, <2>4, RetireExpiredQuiet
  <2>10. StaleRetries \/ ~Late(S.ledger[l], req)
    BY <2>5, <2>9 DEF Late, Prior
  <2>11. CASE agg' = S
    BY <2>4, <2>5, <2>7, <2>8, <2>11, IdlesEnters
  <2>12. CASE agg' = ReserveTenant(S, l, req)
    <3>1. Booked(S, agg', req.now) /\ (StaleRetries \/ Reserves(S, agg', l, req))
      BY <2>3, <2>4, <2>8, <2>10, <2>12, ReserveTenantBooked, ReserveTenantReserves
    <3>2. Booked(agg, agg', req.now) /\ (StaleRetries \/ Reserves(agg, agg', l, req))
      BY <2>4, <2>8, <3>1, BookedTransitive, IdlesThenReserves DEF Idles
    <3> QED BY <2>3, <2>4, <2>5, <2>7, <3>2, ReservesEnters
  <2> QED BY <2>6, <2>11, <2>12
<1>5. CASE \E req \in Requests(Ingress, Demand[Ingress], now) : ReserveIngressRPC(req)
  <2>1. PICK req \in Requests(Ingress, Demand[Ingress], now) : ReserveIngressRPC(req)
    BY <1>5
  <2>2. req \in Request /\ req.now \in Nat /\ Ingress \in Ledgers
    BY LedgersType, RequestsType, LimitAssumption DEF Request
  <2>3. req.now = now
    BY LedgersType, RequestsType, LimitAssumption
  <2>4. (agg' = ReserveOnIngress(agg, req) \/ agg' = agg) /\ clock' = clock
    BY <2>1 DEF ReserveIngressRPC, Env
  <2>5. CASE agg' = agg
    <3>1. Idles(agg, agg', now)
      BY <1>1, <2>5, BookedReflexive DEF Idles, NothingGranted
    <3> QED BY <1>1, <2>4, <3>1, IdlesEnters
  <2>6. CASE agg' = ReserveOnIngress(agg, req)
    <3>1. Booked(agg, agg', req.now) /\ Reserves(agg, agg', Ingress, req)
      BY <2>2, <2>6, ReserveOnIngressBooked, ReserveOnIngressReserves
    <3> QED BY <2>2, <2>3, <2>4, <3>1, ReservesEnters
  <2> QED BY <2>4, <2>5, <2>6
<1>6. CASE \E l \in Ledgers : \E g \in agg.ledger[l].grants :
              \E ev \in Evidence(l, g, now) : ReconcileRPC(l, g.seq, ev)
  <2>1. PICK l \in Ledgers : \E g \in agg.ledger[l].grants :
               \E ev \in Evidence(l, g, now) : ReconcileRPC(l, g.seq, ev)
    BY <1>6
  <2>2. PICK g \in agg.ledger[l].grants : \E ev \in Evidence(l, g, now) : ReconcileRPC(l, g.seq, ev)
    BY <2>1
  <2>3. PICK ev \in Evidence(l, g, now) : ReconcileRPC(l, g.seq, ev)
    BY <2>2
  <2>4. ev \in Evident /\ ev.now \in Nat
    BY EvidenceType DEF Evident
  <2>5. ev.now = now
    BY EvidenceType
  <2>6. agg' = CloseGrant(agg, l, g.seq, ev) /\ clock' = clock
    BY <2>3 DEF ReconcileRPC, Env
  <2>7. Idles(agg, agg', ev.now)
    BY <2>4, <2>6, CloseGrantIdles
  <2> QED BY <2>4, <2>5, <2>6, <2>7, IdlesEnters
<1>7. CASE \E r \in Revisions, l \in Tenants, g \in agg.ledger[Ingress].grants :
             "single" \in Handoffs /\ HandoffRPC(r, l, g, now)
  <2>1. PICK r \in Revisions, l \in Tenants, g \in agg.ledger[Ingress].grants :
               HandoffRPC(r, l, g, now)
    BY <1>7
  <2> DEFINE R == Renew(agg, r, now)
             terms == Authority[r].policies[l]
             req == MovedRequest(g, terms.revision, terms.restriction, now)
  <2>2. now \in Nat /\ g \in Grant
    BY <1>1, LedgersType, GrantsType
  <2>3. Idles(agg, R, now) /\ Solid(R)
    BY <2>2, RenewIdles, BookedSolid DEF Idles
  <2>4. \/ agg' = R
        \/ agg' \in HandoffStates(R, l, g, terms, now) /\ (StaleRetries \/ ~Late(R.ledger[l], req))
        \/ agg' \in HandoffRepeated(R, l, g, now)
    BY <2>1 DEF HandoffRPC
  <2>5. clock' = clock
    BY <2>1 DEF HandoffRPC, Env
  <2> HIDE DEF R
  <2>6. CASE agg' = R
    BY <2>2, <2>3, <2>5, <2>6, IdlesEnters
  <2>7. CASE agg' \in HandoffStates(R, l, g, terms, now) /\ (StaleRetries \/ ~Late(R.ledger[l], req))
    <3>1. Enters(R, agg', now)
      BY <2>2, <2>3, <2>7, HandoffEntersStates
    <3>2. Booked(agg, agg', now)
      BY <2>2, <2>3, <3>1, BookedTransitive DEF Enters, Idles
    <3>3. CASE GrantsOnce(R, agg', now)
      <4>1. PICK M, N : /\ Idles(R, M, now) /\ Idles(N, agg', now)
                        /\ N = M \/ \E k \in Ledgers, q \in Request :
                                      q.now = now /\ Allowed(M, N, k, q)
        BY <3>3 DEF GrantsOnce
      <4>2. Idles(agg, M, now)
        BY <2>2, <2>3, <4>1, IdlesTransitive
      <4>3. GrantsOnce(agg, agg', now)
        BY <4>1, <4>2 DEF GrantsOnce
      <4> QED BY <2>5, <3>2, <4>3 DEF Enters
    <3> QED BY <2>5, <3>1, <3>2, <3>3 DEF Enters
  <2>8. CASE agg' \in HandoffRepeated(R, l, g, now)
    <3>1. Idles(agg, agg', now)
      BY <2>2, <2>3, <2>8, HandoffRepeatedIdles, IdlesTransitive
    <3> QED BY <2>2, <2>5, <3>1, IdlesEnters
  <2> QED BY <2>4, <2>6, <2>7, <2>8
<1>8. CASE \E g \in agg.ledger[Ingress].grants, r \in Known :
              \E transfers \in Transfers(r) :
                "batch" \in Handoffs /\ HandoffBatchRPC(g, transfers, now)
  <2>1. PICK g \in agg.ledger[Ingress].grants, r \in Known :
               \E transfers \in Transfers(r) : HandoffBatchRPC(g, transfers, now)
    BY <1>8
  <2>2. PICK transfers \in Transfers(r) : HandoffBatchRPC(g, transfers, now)
    BY <2>1
  <2> DEFINE left == [d \in Dims |-> g.envelope[d] - Moved(transfers, d)]
             ev == Certificate(g, left, now)
  <2>3. now \in Nat /\ g \in Grant /\ Ingress \in Ledgers
    BY <1>1, LedgersType, GrantsType
  <2>4. clock' = clock
    BY <2>2 DEF HandoffBatchRPC, Env
  <2>5. CASE agg' = WithLedger(agg, Ingress, Expire(agg.ledger[Ingress], now))
    <3>1. Idles(agg, agg', now)
      BY <1>1, <2>3, <2>5, ExpireOneBooked, ExpireOneQuiet, QuietIdles
    <3> QED BY <2>3, <2>4, <3>1, IdlesEnters
  <2>6. CASE agg' \in BatchStates(agg, g, transfers, now)
    <3>1. agg' = CloseGrant(agg, Ingress, g.seq, ev) /\ \A d \in Dims : left[d] >= 0
      BY <2>6 DEF BatchStates
    <3>2. \A d \in Dims : g.envelope[d] \in Nat /\ Moved(transfers, d) \in Nat
      BY <2>3, MovedType DEF Grant, Amounts
    <3>3. left \in Amounts
      BY <3>1, <3>2 DEF Amounts
    <3> HIDE DEF left
    <3>4. ev \in Evident /\ ev.now = now
      BY <2>3, <3>3, CertificateType DEF Certificate
    <3> HIDE DEF ev
    <3>5. Idles(agg, agg', now)
      BY <2>3, <3>1, <3>4, CloseGrantIdles
    <3> QED BY <2>3, <2>4, <3>5, IdlesEnters
  <2>7. \/ agg' \in BatchStates(agg, g, transfers, now)
        \/ agg' = WithLedger(agg, Ingress, Expire(agg.ledger[Ingress], now))
    BY <2>2 DEF HandoffBatchRPC
  <2> QED BY <2>5, <2>6, <2>7
<1>9. CASE UnverifiedCall(now)
  <2>1. PICK r \in Revisions, req \in Requests(Ingress, AnonDemand, now) : ReserveUnverifiedRPC(r, req)
    BY <1>9 DEF UnverifiedCall
  <2> DEFINE R == Renew(agg, r, req.now)
  <2>2. req \in Request /\ req.now \in Nat /\ Ingress \in Ledgers
    BY LedgersType, RequestsType, LimitAssumption DEF Request
  <2>3. req.now = now
    BY LedgersType, RequestsType, LimitAssumption
  <2>4. agg' = ReserveOnIngress(R, req) /\ clock' = clock
    BY <2>1 DEF ReserveUnverifiedRPC, Env
  <2>5. Idles(agg, R, req.now) /\ Solid(R)
    BY <2>2, RenewIdles, BookedSolid DEF Idles
  <2> HIDE DEF R
  <2>6. Booked(R, agg', req.now) /\ Reserves(R, agg', Ingress, req)
    BY <2>2, <2>4, <2>5, ReserveOnIngressBooked, ReserveOnIngressReserves
  <2>7. Booked(agg, agg', req.now) /\ Reserves(agg, agg', Ingress, req)
    BY <2>2, <2>5, <2>6, BookedTransitive, IdlesThenReserves DEF Idles
  <2> QED BY <2>2, <2>3, <2>4, <2>7, ReservesEnters
<1> QED BY <1>2, <1>3, <1>4, <1>5, <1>6, <1>7, <1>8, <1>9 DEF VerifiedCall

-----------------------------------------------------------------------------
(* The auditor keeps balanced books.                                       *)

\* The books of ledger l.
Part(l) == {e \in spent : e[1] = l}

AuditInv ==
  /\ IInv /\ Solid(agg)
  /\ \A e \in spent : e[1] \in Ledgers
  /\ heard \in Nat /\ heard <= clock
  /\ \A l \in Ledgers : Balanced(l, agg.ledger[l], Part(l), heard)

\* The auditor takes what the ledgers charge into the books of each.
LEMMA BookParts ==
  ASSUME \A e \in spent : e[1] \in Ledgers, Book
  PROVE  /\ \A l \in Ledgers : Part(l)' = BookOf(l, Part(l), agg'.ledger[l])
         /\ \A e \in spent' : e[1] \in Ledgers
<1>1. spent' = {t \in spent : \A g \in agg'.ledger[t[1]].grants : g.seq # t[2]}
               \cup UNION {UNION {UnitsOf(l, g) : g \in agg'.ledger[l].grants} : l \in Ledgers}
  BY DEF Book
<1>2. \A l \in Ledgers : \A g \in agg'.ledger[l].grants : \A e \in UnitsOf(l, g) : e[1] = l
  BY UnitsForm
<1>3. \A e \in spent' : \/ e \in spent /\ \A g \in agg'.ledger[e[1]].grants : g.seq # e[2]
                        \/ \E l \in Ledgers : \E g \in agg'.ledger[l].grants : e \in UnitsOf(l, g)
  BY <1>1
<1>4. /\ \A e \in spent : (\A g \in agg'.ledger[e[1]].grants : g.seq # e[2]) => e \in spent'
      /\ \A l \in Ledgers : \A g \in agg'.ledger[l].grants : UnitsOf(l, g) \subseteq spent'
  BY <1>1
<1>5. ASSUME NEW l \in Ledgers PROVE Part(l)' = BookOf(l, Part(l), agg'.ledger[l])
  <2> DEFINE G == agg'.ledger[l].grants
  <2>1. Part(l)' = {e \in spent' : e[1] = l}
    BY DEF Part
  <2>2. ASSUME NEW e, e \in spent', e[1] = l
        PROVE  \/ e \in Part(l) /\ \A g \in G : g.seq # e[2]
               \/ \E g \in G : e \in UnitsOf(l, g)
    <3>1. CASE e \in spent /\ \A g \in agg'.ledger[e[1]].grants : g.seq # e[2]
      BY <2>2, <3>1 DEF Part
    <3>2. CASE \E k \in Ledgers : \E g \in agg'.ledger[k].grants : e \in UnitsOf(k, g)
      BY <1>2, <2>2, <3>2
    <3> QED BY <1>3, <2>2, <3>1, <3>2
  <2>3. ASSUME NEW e \in Part(l), \A g \in G : g.seq # e[2] PROVE e \in spent' /\ e[1] = l
    BY <1>4, <2>3 DEF Part
  <2>4. ASSUME NEW g \in G, NEW e \in UnitsOf(l, g) PROVE e \in spent' /\ e[1] = l
    BY <1>2, <1>4
  <2> QED BY <2>1, <2>2, <2>3, <2>4 DEF BookOf
<1>6. \A e \in spent' : e[1] \in Ledgers
  BY <1>2, <1>3
<1> QED BY <1>5, <1>6

\* Books that are balanced stay so as time passes: fewer allocations run.
LEMMA BalancedLater ==
  ASSUME NEW l, NEW L, NEW B, NEW s \in Nat, NEW t \in Nat, s <= t, Balanced(l, L, B, s)
  PROVE  Balanced(l, L, B, t)
BY EndedLater DEF Balanced

\* A new object has charged nothing.
LEMMA InitAudit == AuditInit => AuditInv
<1> SUFFICES ASSUME AuditInit PROVE AuditInv
  OBVIOUS
<1>1. /\ IInv /\ AggInv(agg) /\ agg = NewAggregate(1, 0) /\ spent = {} /\ 1 \in Revisions
      /\ heard = 0 /\ clock = 0
  BY InitIInv, AuthorityAssumption DEF AuditInit, Init, IInv, Revisions
<1>2. ASSUME NEW l \in Ledgers
      PROVE  Sound(l, agg.ledger[l]) /\ Balanced(l, agg.ledger[l], Part(l), heard)
  <2> DEFINE L == agg.ledger[l]
  <2>1. L = NewLedger(Authority[1].policies[l])
    BY <1>1 DEF NewAggregate
  <2>2. LedgerInv(L)
    BY <1>1 DEF AggInv
  <2>3. /\ L.policy = Authority[1].policies[l] /\ L.grants = {}
        /\ \A b \in Allocs, p \in Purposes : L.closed[b][p] = 0
    BY <2>1 DEF NewLedger
  <2> HIDE DEF L
  <2>4. Sound(l, L)
    BY <1>1, <2>2, <2>3 DEF Sound, Unsettled, OnTerms
  <2>5. Part(l) = {}
    BY <1>1 DEF Part
  <2>6. \A b, p : Gone(L, Part(l), b, p) = {}
    BY <2>5 DEF Gone
  <2>7. Balanced(l, L, Part(l), heard)
    BY <2>3, <2>5, <2>6, FS_EmptySet DEF Balanced
  <2> QED BY <2>4, <2>7 DEF L
<1> QED BY <1>1, <1>2 DEF AuditInv, Solid

\* What a call does to the books.
LEMMA BookedBalanced ==
  ASSUME AuditInv, NEW now \in Nat, Booked(agg, agg', now), Book,
         NEW t \in Nat, heard <= t, now <= t
  PROVE  \A l \in Ledgers : Balanced(l, agg'.ledger[l], Part(l)', t)
<1> SUFFICES ASSUME NEW l \in Ledgers PROVE Balanced(l, agg'.ledger[l], Part(l)', t)
  OBVIOUS
<1>1. Part(l)' = BookOf(l, Part(l), agg'.ledger[l])
  BY BookParts DEF AuditInv
<1>2. Goes(l, agg.ledger[l], agg'.ledger[l], now)
  BY DEF Booked, Posts
<1>3. Balanced(l, agg.ledger[l], Part(l), heard) /\ heard \in Nat
  BY DEF AuditInv
<1>4. Balanced(l, agg.ledger[l], Part(l), t)
  BY <1>3, BalancedLater
<1> QED BY <1>1, <1>2, <1>4 DEF Goes

LEMMA AuditNextNext ==
  ASSUME AuditNext
  PROVE  Next
BY DEF AuditNext, Next

\* A call is heard no earlier than it was made.
LEMMA HeardLater ==
  ASSUME heard \in Nat, NEW now \in Nat, Hear(now)
  PROVE  heard' = Greater(heard, now) /\ heard' \in Nat /\ heard <= heard' /\ now <= heard'
BY DEF Hear, Greater

\* Every step keeps the books balanced.
LEMMA StepAudit == AuditInv /\ [AuditNext]_auditVars => AuditInv'
<1> SUFFICES ASSUME AuditInv, [AuditNext]_auditVars PROVE AuditInv'
  OBVIOUS
<1>1. CASE UNCHANGED auditVars
  <2>1. /\ spent' = spent /\ agg' = agg /\ clock' = clock /\ published' = published /\ anon' = anon
        /\ heard' = heard
    BY <1>1 DEF auditVars
  <2>2. IInv'
    BY <2>1, StepIInv DEF AuditInv, vars
  <2>3. \A l \in Ledgers : Part(l)' = Part(l)
    BY <2>1 DEF Part
  <2> QED BY <2>1, <2>2, <2>3 DEF AuditInv
<1>2. CASE AuditNext
  <2>1. IInv /\ Solid(agg) /\ clock \in Nat /\ IInv'
    BY <1>2, AuditNextNext, NextAdvances DEF AuditInv, IInv, TypeOK
  <2>2. CASE (Tick \/ Publish) /\ UNCHANGED <<books, anonBooks>>
    <3>1. agg' = agg /\ (clock' = clock \/ clock' = clock + 1) /\ spent' = spent /\ heard' = heard
      BY <2>2 DEF Tick, Publish, books
    <3>2. \A l \in Ledgers : Part(l)' = Part(l)
      BY <3>1 DEF Part
    <3>3. heard' <= clock'
      BY <2>1, <3>1 DEF AuditInv
    <3> QED BY <2>1, <3>1, <3>2, <3>3 DEF AuditInv
  <2>3. ASSUME NEW now \in Times, VerifiedCall(now) \/ UnverifiedCall(now), Book, Hear(now)
        PROVE  AuditInv'
    <3>1. now \in Nat /\ now <= clock
      BY <2>1 DEF Times
    <3>2. clock' = clock /\ Booked(agg, agg', now) /\ Solid(agg')
      BY <2>1, <2>3, <3>1, CallEnters, BookedSolid DEF Enters
    <3>3. heard' \in Nat /\ heard <= heard' /\ now <= heard'
      BY <2>3, <3>1, HeardLater DEF AuditInv
    <3>4. heard' <= clock'
      BY <2>1, <2>3, <3>1, <3>2 DEF AuditInv, Hear, Greater
    <3>5. \A l \in Ledgers : Balanced(l, agg'.ledger[l], Part(l)', heard')
      BY <2>3, <3>1, <3>2, <3>3, BookedBalanced
    <3>6. \A e \in spent' : e[1] \in Ledgers
      BY <2>3, BookParts DEF AuditInv
    <3> QED BY <2>1, <3>2, <3>3, <3>4, <3>5, <3>6 DEF AuditInv
  <2> QED BY <1>2, <2>2, <2>3 DEF AuditNext
<1> QED BY <1>1, <1>2

\* The books of every ledger are balanced in every reachable state: the number of
\* units of closed and forgotten grants is what coordinator-state.ts has rolled up.
THEOREM BooksBalance == AuditSpec => []AuditInv
BY InitAudit, StepAudit, PTL DEF AuditSpec

\* What a ledger believes is charged on a running allocation is what its grants
\* were really charged, for any number of tenants and any sequence of
\* authorities that keeps to one stock allocation per dimension: no compaction,
\* pruning, expiry, retirement or handoff of coordinator-state.ts loses a unit
\* or counts one twice.
THEOREM ChargesMatch == ASSUME OneStock PROVE AuditSpec => []ChargesMatchAudit
<1>1. AuditInv => ChargesMatchAudit
  <2> SUFFICES ASSUME AuditInv, NEW l \in Ledgers, NEW p \in Purposes,
                      NEW a \in ActiveAllocs(agg.ledger[l]), Current(a)
               PROVE  Charged(agg.ledger[l], a, p)
                        = Cardinality({t \in SpentOn(a, p) : t[1] = l})
    BY DEF ChargesMatchAudit
  <2> DEFINE L == agg.ledger[l]
  <2>1. Sound(l, L) /\ Balanced(l, L, Part(l), heard) /\ heard \in Nat
    BY DEF AuditInv, Solid
  <2>2. PICK r \in Revisions : L.policy = Authority[r].policies[l]
    BY <2>1 DEF Sound, OnTerms
  <2>3. PICK d \in Dims : a = L.policy.budgets[d].alloc
    BY DEF ActiveAllocs
  <2> HIDE DEF L
  <2>4. a \in Allocs /\ a \in Offered(d) /\ AllocInfo[a].dim = d
    <3> DEFINE budget == Authority[r].policies[l].budgets[d]
    <3>1. budget.alloc \in Offered(d) /\ budget.alloc \in Allocs
          /\ AllocInfo[budget.alloc].dim = d
      BY OfferedTerms
    <3>2. a = budget.alloc
      BY <2>2, <2>3
    <3> HIDE DEF budget
    <3> QED BY <3>1, <3>2
  <2>5. ~Ended(a, heard)
    <3>1. AllocInfo[a].endsAt \in Nat
      BY <2>4, AllocInfoType DEF Window
    <3> QED BY <2>1, <3>1 DEF Current, Ended
  <2>6. Cardinality(RowsAt(Part(l), Account(a), p)) = Charged(L, a, p)
    BY <2>1, <2>4, <2>5, ChargedBooked
  <2>7. RowsAt(Part(l), Account(a), p) = {t \in SpentOn(a, p) : t[1] = l}
    BY DEF RowsAt, Part, SpentOn
  <2> QED BY <2>6, <2>7 DEF L
<1> QED BY <1>1, BooksBalance, PTL

-----------------------------------------------------------------------------
(* The ceilings.  B maps each ledger to its books.                         *)

Evenly(S, B, t) == \A l \in Ledgers : Balanced(l, S.ledger[l], B[l], t)

BooksOf(B, S) == [l \in Ledgers |-> BookOf(l, B[l], S.ledger[l])]

\* The rows of all ledgers on account b.
AllRows(B, b, p) == UNION {RowsAt(B[l], b, p) : l \in Ledgers}

\* What is booked on the allocations A is within the largest limits ever published.
Capped(A, B) ==
  \A a \in A, p \in Purposes :
    /\ IsFiniteSet(AllRows(B, Account(a), p))
    /\ \E n \in OwnerLimitOf(a, p) : Cardinality(AllRows(B, Account(a), p)) <= n
    /\ \A l \in Ledgers : \E n \in TenantLimitOf(l, a, p) :
         Cardinality(RowsAt(B[l], Account(a), p)) <= n

\* No interval of A that runs at time now has ended by t.
Spans(A, now, t) ==
  \A a \in A : ~AllocInfo[a].stock /\ now < AllocInfo[a].endsAt => t < AllocInfo[a].endsAt

\* The limits are numbers.
LEMMA LimitsType ==
  ASSUME NEW a \in Allocs, NEW p \in Purposes
  PROVE  /\ OwnerLimitOf(a, p) \subseteq Nat /\ OwnerLimitOf(a, p) # {}
         /\ \A l \in Ledgers : TenantLimitOf(l, a, p) \subseteq Nat /\ TenantLimitOf(l, a, p) # {}
<1> DEFINE d == AllocInfo[a].dim
<1>1. d \in Dims
  BY AllocInfoType DEF Window
<1> HIDE DEF d
<1>2. \A r \in Revisions, l \in Ledgers : Authority[r].policies[l].budgets[d].limit[p] \in Nat
  BY <1>1, PoliciesType DEF Policy, Budget
<1>3. 1 \in Revisions
  BY AuthorityAssumption DEF Revisions
<1>4. OwnerLimitOf(a, p) = {Authority[r].policies[Ingress].budgets[d].limit[p] : r \in Revisions}
  BY DEF OwnerLimitOf, d
<1>6. OwnerLimitOf(a, p) \subseteq Nat /\ OwnerLimitOf(a, p) # {}
  BY <1>2, <1>3, <1>4, LedgersType
<1>7. ASSUME NEW l \in Ledgers
      PROVE  TenantLimitOf(l, a, p) \subseteq Nat /\ TenantLimitOf(l, a, p) # {}
  <2>1. TenantLimitOf(l, a, p) = {Authority[r].policies[l].budgets[d].limit[p] : r \in Revisions}
    BY DEF TenantLimitOf, d
  <2>2. \A r \in Revisions : Authority[r].policies[l].budgets[d].limit[p] \in Nat
    BY <1>2
  <2>3. Authority[1].policies[l].budgets[d].limit[p] \in TenantLimitOf(l, a, p)
    BY <1>3, <2>1
  <2>4. TenantLimitOf(l, a, p) \subseteq Nat
    BY <2>1, <2>2
  <2> QED BY <2>3, <2>4
<1> QED BY <1>6, <1>7

\* Fewer rows are within the limits too.
LEMMA FewerCapped ==
  ASSUME NEW A \in SUBSET Allocs, NEW B, NEW C, \A l \in Ledgers : C[l] \subseteq B[l],
         Capped(A, B)
  PROVE  Capped(A, C)
<1> SUFFICES ASSUME NEW a \in A, NEW p \in Purposes
             PROVE  /\ IsFiniteSet(AllRows(C, Account(a), p))
                    /\ \E n \in OwnerLimitOf(a, p) : Cardinality(AllRows(C, Account(a), p)) <= n
                    /\ \A l \in Ledgers : \E n \in TenantLimitOf(l, a, p) :
                         Cardinality(RowsAt(C[l], Account(a), p)) <= n
  BY DEF Capped
<1> DEFINE c == Account(a)
<1>0. a \in Allocs
  OBVIOUS
<1>1. IsFiniteSet(AllRows(B, c, p))
  BY DEF Capped
<1>2. \A l \in Ledgers : RowsAt(C[l], c, p) \subseteq RowsAt(B[l], c, p)
  BY DEF RowsAt
<1>3. AllRows(C, c, p) \subseteq AllRows(B, c, p)
        /\ \A l \in Ledgers : RowsAt(B[l], c, p) \subseteq AllRows(B, c, p)
  BY <1>2 DEF AllRows
<1>4. PICK n \in OwnerLimitOf(a, p) : Cardinality(AllRows(B, c, p)) <= n
  BY DEF Capped
<1>5. /\ IsFiniteSet(AllRows(C, c, p))
      /\ Cardinality(AllRows(C, c, p)) <= Cardinality(AllRows(B, c, p))
  BY <1>1, <1>3, FS_Subset
<1>6. Cardinality(AllRows(C, c, p)) <= n
  BY <1>0, <1>1, <1>4, <1>5, LimitsType, FS_CardinalityType
<1>7. ASSUME NEW l \in Ledgers
      PROVE  \E m \in TenantLimitOf(l, a, p) : Cardinality(RowsAt(C[l], c, p)) <= m
  <2>1. PICK m \in TenantLimitOf(l, a, p) : Cardinality(RowsAt(B[l], c, p)) <= m
    BY DEF Capped
  <2>2. IsFiniteSet(RowsAt(B[l], c, p))
    BY <1>1, <1>3, FS_Subset
  <2>3. /\ IsFiniteSet(RowsAt(C[l], c, p))
        /\ Cardinality(RowsAt(C[l], c, p)) <= Cardinality(RowsAt(B[l], c, p))
    BY <1>2, <2>2, FS_Subset
  <2>4. Cardinality(RowsAt(C[l], c, p)) <= m
    BY <1>0, <2>1, <2>2, <2>3, LimitsType, FS_CardinalityType
  <2> QED BY <2>4
<1> QED BY <1>5, <1>6, <1>7

\* Books that are balanced change nothing when they are taken again.
LEMMA BookAgain ==
  ASSUME NEW l, NEW L, NEW B, NEW t, Balanced(l, L, B, t)
  PROVE  BookOf(l, B, L) = B
BY DEF Balanced, BookOf

\* The books after two transitions of a call.
LEMMA BooksTwice ==
  ASSUME NEW S, Solid(S), NEW M, NEW N, NEW B, NEW now \in Nat,
         Booked(S, M, now), Booked(M, N, now), NEW t \in Nat, now <= t, Evenly(S, B, t)
  PROVE  BooksOf(BooksOf(B, M), N) = BooksOf(B, N) /\ Evenly(M, BooksOf(B, M), t)
<1> DEFINE C == BooksOf(B, M)
<1>1. ASSUME NEW l \in Ledgers
      PROVE  /\ BookOf(l, C[l], N.ledger[l]) = BookOf(l, B[l], N.ledger[l])
             /\ Balanced(l, M.ledger[l], C[l], t)
  <2>1. /\ Posts(l, S.ledger[l], M.ledger[l], now) /\ Posts(l, M.ledger[l], N.ledger[l], now)
        /\ Balanced(l, S.ledger[l], B[l], t) /\ C[l] = BookOf(l, B[l], M.ledger[l])
    BY DEF Booked, Evenly, BooksOf
  <2>2. LedgerInv(M.ledger[l])
    BY <2>1 DEF Posts, Sound
  <2>3. \A g \in M.ledger[l].grants : \/ \E h \in N.ledger[l].grants : h.seq = g.seq
                                      \/ \E k \in S.ledger[l].grants : Billed(k, g)
    BY <2>1 DEF Posts
  <2>4. Balanced(l, M.ledger[l], BookOf(l, B[l], M.ledger[l]), t)
    BY <2>1 DEF Posts, Goes
  <2> HIDE DEF C
  <2> QED BY <2>1, <2>2, <2>3, <2>4, BooksOfTwo
<1> HIDE DEF C
<1>2. BooksOf(C, N) = BooksOf(B, N) /\ Evenly(M, C, t)
  BY <1>1 DEF BooksOf, Evenly
<1> QED BY <1>2 DEF C

\* Without a defect, what grants nothing charges nothing more.
LEMMA IdlesCapped ==
  ASSUME NEW S, Solid(S), NEW T, NEW now \in Nat, Idles(S, T, now), NEW B,
         NEW t, Evenly(S, B, t), NEW A \in SUBSET Allocs, Capped(A, B), ~Defective(T)
  PROVE  Capped(A, BooksOf(B, T))
<1>1. ASSUME NEW l \in Ledgers, NEW e \in BookOf(l, B[l], T.ledger[l]) PROVE e \in B[l]
  <2> DEFINE L == S.ledger[l]
             M == T.ledger[l]
  <2>1. Posts(l, L, M, now) /\ M.next = L.next /\ ~M.defect /\ Balanced(l, L, B[l], t)
    BY DEF Idles, Booked, NothingGranted, Defective, Evenly
  <2> HIDE DEF L, M
  <2>2. CASE \E h \in M.grants : e \in UnitsOf(l, h)
    <3>1. PICK h \in M.grants : e \in UnitsOf(l, h)
      BY <2>2
    <3>2. h.seq \in Nat /\ h.seq < M.next /\ M.next \in Nat
      BY <2>1 DEF Posts, Sound, LedgerInv, Ledger, Grant, Numbered
    <3>3. ~(h.seq >= L.next)
      BY <2>1, <3>2
    <3>4. PICK g \in L.grants : g.seq = h.seq /\ UnitsOf(l, h) \subseteq UnitsOf(l, g)
      BY <2>1, <3>3 DEF Posts, Origin
    <3> QED BY <2>1, <3>1, <3>4 DEF Balanced
  <2>3. e \in B[l] \/ \E h \in M.grants : e \in UnitsOf(l, h)
    BY DEF BookOf, M
  <2> QED BY <2>2, <2>3
<1>2. \A l \in Ledgers : BooksOf(B, T)[l] \subseteq B[l]
  BY <1>1 DEF BooksOf
<1> HIDE DEF BooksOf
<1> QED BY <1>2, FewerCapped

\* The charge of all ledgers on a running, offered allocation is what their
\* books hold together.
LEMMA OwnerBooked ==
  ASSUME OneStock, NEW S, Solid(S), NEW B, NEW t, Evenly(S, B, t),
         NEW x \in Allocs, x \in Offered(AllocInfo[x].dim), ~Ended(x, t), NEW p \in Purposes,
         IsFiniteSet(AllRows(B, Account(x), p))
  PROVE  Cardinality(AllRows(B, Account(x), p)) = Cardinality(OwnerUnits(S, x, p))
<1> DEFINE X(l) == RowsAt(B[l], Account(x), p)
           Y(l) == OpenUnits(S.ledger[l], x, p) \cup ClosedUnits(S.ledger[l], x, p)
           F == [l \in Ledgers |-> CHOOSE f : f \in Bijection(X(l), Y(l))]
           A == AllRows(B, Account(x), p)
           O == OwnerUnits(S, x, p)
           G == [e \in A |-> <<e[1], F[e[1]][e]>>]
<1>1. \A l \in Ledgers : F[l] \in Bijection(X(l), Y(l))
  <2> SUFFICES ASSUME NEW l \in Ledgers PROVE F[l] \in Bijection(X(l), Y(l))
    OBVIOUS
  <2>1. Sound(l, S.ledger[l]) /\ Balanced(l, S.ledger[l], B[l], t)
    BY DEF Solid, Evenly
  <2>2. IsFiniteSet(X(l)) /\ IsFiniteSet(Y(l)) /\ Cardinality(X(l)) = Cardinality(Y(l))
    BY <2>1, ChargedBooked DEF Charged
  <2> HIDE DEF X, Y
  <2>3. Bijection(X(l), Y(l)) # {}
    BY <2>2, FS_SameCardinalityBij DEF ExistsBijection
  <2>4. F[l] = CHOOSE f : f \in Bijection(X(l), Y(l))
    OBVIOUS
  <2> HIDE DEF F
  <2>5. PICK f : f \in Bijection(X(l), Y(l))
    BY <2>3
  <2> QED BY <2>4, <2>5
<1>2. \A e \in A : e[1] \in Ledgers /\ e \in X(e[1])
  BY DEF AllRows, RowsAt, Evenly, Balanced
<1>3. \A l \in Ledgers : \A e \in X(l) : e \in A /\ e[1] = l
  BY DEF AllRows, RowsAt, Evenly, Balanced
<1>4. \A o \in O : \E l \in Ledgers : \E y \in Y(l) : o = <<l, y>>
  BY DEF OwnerUnits
<1>5. \A l \in Ledgers : \A y \in Y(l) : <<l, y>> \in O
  BY DEF OwnerUnits
<1> HIDE DEF X, Y, F, A, O
<1>6. \A l \in Ledgers : /\ \A e \in X(l) : F[l][e] \in Y(l)
                         /\ \A e, d \in X(l) : F[l][e] = F[l][d] => e = d
                         /\ \A y \in Y(l) : \E e \in X(l) : F[l][e] = y
  BY <1>1 DEF Bijection, Injection, Surjection, IsInjective
<1>7. G \in [A -> O]
  BY <1>2, <1>5, <1>6
<1>8. \A e, d \in A : G[e] = G[d] => e = d
  <2> SUFFICES ASSUME NEW e \in A, NEW d \in A, G[e] = G[d] PROVE e = d
    OBVIOUS
  <2>1. e[1] = d[1] /\ F[e[1]][e] = F[d[1]][d]
    OBVIOUS
  <2> HIDE DEF G
  <2> QED BY <1>2, <1>6, <2>1
<1>9. \A o \in O : \E e \in A : G[e] = o
  <2> SUFFICES ASSUME NEW o \in O PROVE \E e \in A : G[e] = o
    OBVIOUS
  <2>1. PICK l \in Ledgers : \E y \in Y(l) : o = <<l, y>>
    BY <1>4
  <2>2. PICK y \in Y(l) : o = <<l, y>>
    BY <2>1
  <2>3. PICK e \in X(l) : F[l][e] = y
    BY <1>6
  <2>4. e \in A /\ G[e] = o
    BY <1>3, <2>2, <2>3
  <2> QED BY <2>4
<1> HIDE DEF G
<1>10. G \in Bijection(A, O)
  BY <1>7, <1>8, <1>9 DEF Bijection, Injection, Surjection, IsInjective
<1>11. ExistsBijection(A, O)
  BY <1>10 DEF ExistsBijection
<1>12. Cardinality(O) = Cardinality(A)
  BY <1>11, FS_Bijection DEF A
<1> QED BY <1>12 DEF A, O

-----------------------------------------------------------------------------
(* A grant that is allowed stays within the limits.                        *)

\* What an allowed grant is, and that nothing else changes.
GrantedAs(M, N, l, req, n) ==
  /\ n \in Grant
  /\ n.seq = M.ledger[l].next /\ n.purpose = req.purpose
  /\ n.envelope = req.envelope /\ n.accounted = req.envelope
  /\ n.alloc = [d \in Dims |-> M.ledger[l].policy.budgets[d].alloc]
  /\ N.ledger[l].grants = M.ledger[l].grants \cup {n}
  /\ \A k \in Ledgers \ {l} : N.ledger[k] = M.ledger[k]

LEMMA AllowedBooked ==
  ASSUME NEW M, Solid(M), NEW N, NEW l \in Ledgers, NEW req \in Request, Allowed(M, N, l, req)
  PROVE  Booked(M, N, req.now) /\ \E n : GrantedAs(M, N, l, req, n)
<1> DEFINE L == M.ledger[l]
           clip == {M.expiresAt}
           n == NewGrant(L, req, clip)
           K == AddGrant(L, req, clip)
<1>1. M \in Aggregate /\ M.expiresAt \in Nat /\ req.now \in Nat /\ req.now < M.expiresAt
  BY DEF Request, Solid, AggInv, Aggregate, Allowed, LeaseHeld
<1>2. Sound(l, L) /\ LedgerInv(L) /\ L \in Ledger /\ Grantable(L, req) /\ Prior(L, req) = {}
  BY DEF Solid, Sound, LedgerInv, Allowed, Grantable
<1>3. /\ n.seq = L.next /\ n.purpose = req.purpose
      /\ n.envelope = req.envelope /\ n.accounted = req.envelope
      /\ n.alloc = [d \in Dims |-> L.policy.budgets[d].alloc]
  BY DEF NewGrant
<1>4. K.grants = L.grants \cup {n}
  <2> HIDE DEF n
  <2> QED BY <1>2 DEF AddGrant, Ledger, n
<1>5. N = WithLedger(M, l, K)
  BY DEF Allowed
<1> HIDE DEF L
<1>6. clip \in SUBSET Nat /\ \A c \in clip : req.now < c
  BY <1>1
<1> HIDE DEF clip, n, K
<1>7. Posts(l, L, K, req.now)
  BY <1>2, <1>6, AddGrantPosts DEF K
<1>8. n \in Grant
  <2>1. LedgerInv(K)
    BY <1>7 DEF Posts, Sound
  <2> QED BY <1>4, <2>1 DEF LedgerInv, Ledger
<1>9. Booked(M, N, req.now)
  BY <1>1, <1>5, <1>7, WithLedgerBooked DEF L
<1>10. N.ledger[l] = K /\ \A k \in Ledgers \ {l} : N.ledger[k] = M.ledger[k]
  BY <1>1, <1>5 DEF WithLedger, Aggregate
<1>11. GrantedAs(M, N, l, req, n)
  BY <1>3, <1>4, <1>8, <1>10 DEF GrantedAs, L
<1> QED BY <1>9, <1>11

\* The budget line d of ledger l that account Account(a) is charged through.
Charging(M, l, req, a, d) ==
  LET x == M.ledger[l].policy.budgets[d].alloc
  IN /\ d \in Demanded(req) /\ AllocInfo[a].dim = d
     /\ x \in Allocs /\ x \in Offered(d) /\ AllocInfo[x].dim = d /\ Account(x) = Account(a)

LEMMA TouchedLine ==
  ASSUME NEW M, Solid(M), NEW N, NEW l \in Ledgers, NEW req \in Request, NEW n,
         GrantedAs(M, N, l, req, n), NEW a \in Allocs, Account(a) \in Touched(n)
  PROVE  \E d \in Dims : Charging(M, l, req, a, d)
<1> DEFINE L == M.ledger[l]
<1>1. PICK x \in Refs(n) : Account(x) = Account(a)
  BY DEF Touched
<1>2. PICK d \in Dims : n.envelope[d] > 0 /\ x = n.alloc[d]
  BY DEF Refs
<1>3. d \in Demanded(req) /\ x = L.policy.budgets[d].alloc
  BY <1>2 DEF GrantedAs, Demanded
<1>4. PICK r \in Revisions : L.policy = Authority[r].policies[l]
  BY DEF Solid, Sound, OnTerms
<1> HIDE DEF L
<1>5. x \in Offered(d)
  <2> DEFINE budget == Authority[r].policies[l].budgets[d]
  <2>1. budget.alloc \in Offered(d)
    BY OfferedTerms
  <2>2. x = budget.alloc
    BY <1>3, <1>4
  <2> HIDE DEF budget
  <2> QED BY <2>1, <2>2
<1>6. x \in Allocs /\ AllocInfo[x].dim = d
  BY <1>5, OfferedForm
<1>7. AllocInfo[a].dim = d
  <2>1. AllocInfo[Account(x)].dim = d /\ AllocInfo[Account(a)].dim = AllocInfo[a].dim
    BY <1>6, AccountForm
  <2> QED BY <1>1, <2>1
<1> QED BY <1>1, <1>3, <1>5, <1>6, <1>7 DEF Charging, L

\* An allocation that runs at the time of the request has not ended.
LEMMA RunningLine ==
  ASSUME NEW L, NEW req \in Request, InWindow(L, req), NEW d \in Demanded(req),
         L.policy.budgets[d].alloc \in Allocs
  PROVE  ~Ended(L.policy.budgets[d].alloc, req.now)
<1> DEFINE x == L.policy.budgets[d].alloc
<1>1. AllocInfo[x].stock \/ req.now < AllocInfo[x].endsAt
  BY DEF InWindow
<1>2. AllocInfo[x].endsAt \in Nat /\ req.now \in Nat
  BY AllocInfoType DEF Window, Request
<1> HIDE DEF x
<1>3. ~Ended(x, req.now)
  BY <1>1, <1>2 DEF Ended
<1> QED BY <1>3 DEF x

\* What the ledger and the owner have booked leaves room for the envelope.
LEMMA RoomFor ==
  ASSUME OneStock, NEW M, Solid(M), NEW N, NEW l \in Ledgers, NEW req \in Request,
         Allowed(M, N, l, req), NEW B, NEW t \in Nat, Evenly(M, B, t),
         NEW A \in SUBSET Allocs, Spans(A, req.now, t), NEW a \in A, NEW d \in Dims, Charging(M, l, req, a, d),
         IsFiniteSet(AllRows(B, Account(a), req.purpose))
  PROVE  /\ Cardinality(RowsAt(B[l], Account(a), req.purpose)) + req.envelope[d]
              <= M.ledger[l].policy.budgets[d].limit[req.purpose]
         /\ Cardinality(AllRows(B, Account(a), req.purpose)) + req.envelope[d]
              <= M.ledger[Ingress].policy.budgets[d].limit[req.purpose]
<1> DEFINE L == M.ledger[l]
           x == L.policy.budgets[d].alloc
           p == req.purpose
<1>1. /\ d \in Demanded(req) /\ x \in Allocs /\ x \in Offered(AllocInfo[x].dim)
      /\ Account(x) = Account(a)
  BY DEF Charging
<1>2. p \in Purposes /\ req.now \in Nat
  BY DEF Request
<1>3. ~Ended(x, t)
  <2>1. ~Ended(x, req.now)
    BY <1>1, RunningLine DEF Allowed, Grantable
  <2> HIDE DEF x
  <2>2. AllocInfo[x].stock = AllocInfo[a].stock
    <3>1. AllocInfo[Account(x)].stock = AllocInfo[x].stock
      BY <1>1, AccountForm
    <3>2. AllocInfo[Account(a)].stock = AllocInfo[a].stock
      BY AccountForm
    <3> QED BY <1>1, <3>1, <3>2
  <2>3. CASE AllocInfo[x].stock
    BY <2>3 DEF Ended
  <2>4. CASE ~AllocInfo[x].stock
    <3>1. x = a
      BY <1>1, <2>2, <2>4, AccountForm
    <3>2. AllocInfo[a].endsAt \in Nat
      BY AllocInfoType DEF Window
    <3> QED BY <1>2, <2>1, <2>2, <2>4, <3>1, <3>2 DEF Spans, Ended
  <2> QED BY <2>3, <2>4
<1>4. Sound(l, L) /\ Balanced(l, L, B[l], t)
  BY DEF Solid, Evenly
<1>5. Charged(L, x, p) + req.envelope[d] <= L.policy.budgets[d].limit[p]
  BY <1>1 DEF Allowed, Grantable, Affordable
<1>6. Cardinality(OwnerUnits(M, x, p)) + req.envelope[d]
        <= M.ledger[Ingress].policy.budgets[d].limit[p]
  BY <1>1 DEF Allowed, OwnerAffordable
<1> DEFINE E == B[l]
<1>7. /\ Sound(l, L) /\ Balanced(l, L, E, t) /\ x \in Allocs /\ x \in Offered(AllocInfo[x].dim)
      /\ ~Ended(x, t) /\ p \in Purposes
  BY <1>1, <1>2, <1>3, <1>4
<1> HIDE DEF L, x, p, E
<1>8. Cardinality(RowsAt(B[l], Account(x), p)) = Charged(L, x, p)
  <2>1. Cardinality(RowsAt(E, Account(x), p)) = Charged(L, x, p)
    BY <1>7, ChargedBooked, ZenonT(30)
  <2> QED BY <2>1 DEF E
<1>9. Cardinality(AllRows(B, Account(x), p)) = Cardinality(OwnerUnits(M, x, p))
  BY <1>1, <1>2, <1>3, OwnerBooked DEF p
<1> QED BY <1>1, <1>5, <1>6, <1>8, <1>9 DEF L, p

\* The books with one more grant.
LEMMA GrantedRows ==
  ASSUME NEW M, Solid(M), NEW N, NEW l \in Ledgers, NEW req \in Request, NEW n,
         GrantedAs(M, N, l, req, n), NEW B, NEW t, Evenly(M, B, t)
  PROVE  /\ BooksOf(B, N)[l] = B[l] \cup UnitsOf(l, n)
         /\ B[l] \cap UnitsOf(l, n) = {}
         /\ \A k \in Ledgers \ {l} : BooksOf(B, N)[k] = B[k]
         /\ \A k \in Ledgers \ {l} : B[k] \cap UnitsOf(l, n) = {}
<1> DEFINE L == M.ledger[l]
<1>1. Balanced(l, L, B[l], t) /\ L.next \in Nat
  BY DEF Evenly, Solid, Sound, LedgerInv, Ledger
<1>2. n.seq = L.next /\ N.ledger[l].grants = L.grants \cup {n}
  BY DEF GrantedAs
<1> HIDE DEF L
<1>3. \A e \in UnitsOf(l, n) : e[1] = l /\ e[2] = n.seq
  BY UnitsForm
<1>4. \A e \in B[l] : e[2] # n.seq
  BY <1>1, <1>2 DEF Balanced
<1>5. BookOf(l, B[l], N.ledger[l]) = B[l] \cup UnitsOf(l, n)
  <2>1. ASSUME NEW e \in B[l] PROVE e \in BookOf(l, B[l], N.ledger[l])
    <3>1. CASE \E g \in L.grants : g.seq = e[2]
      <4>1. PICK g \in L.grants : g.seq = e[2]
        BY <3>1
      <4>2. e \in UnitsOf(l, g)
        BY <1>1, <4>1 DEF Balanced
      <4> QED BY <1>2, <4>2 DEF BookOf
    <3>2. CASE \A g \in L.grants : g.seq # e[2]
      BY <1>2, <1>4, <3>2 DEF BookOf
    <3> QED BY <3>1, <3>2
  <2>2. UnitsOf(l, n) \subseteq BookOf(l, B[l], N.ledger[l])
    BY <1>2 DEF BookOf
  <2>3. ASSUME NEW g \in L.grants PROVE UnitsOf(l, g) \subseteq B[l]
    BY <1>1 DEF Balanced
  <2>4. BookOf(l, B[l], N.ledger[l]) \subseteq B[l] \cup UnitsOf(l, n)
    BY <1>2, <2>3 DEF BookOf
  <2> QED BY <2>1, <2>2, <2>4
<1>6. ASSUME NEW k \in Ledgers \ {l}
      PROVE  BookOf(k, B[k], N.ledger[k]) = B[k] /\ \A e \in B[k] : e[1] = k
  <2>1. Balanced(k, M.ledger[k], B[k], t) /\ N.ledger[k] = M.ledger[k]
    BY DEF Evenly, GrantedAs
  <2>2. BookOf(k, B[k], M.ledger[k]) = B[k]
    BY <2>1, BookAgain
  <2> QED BY <2>1, <2>2 DEF Balanced
<1>7. \A k \in Ledgers : BooksOf(B, N)[k] = BookOf(k, B[k], N.ledger[k])
  BY DEF BooksOf
<1>8. B[l] \cap UnitsOf(l, n) = {}
  BY <1>3, <1>4
<1>9. \A k \in Ledgers \ {l} : B[k] \cap UnitsOf(l, n) = {}
  BY <1>3, <1>6
<1> QED BY <1>5, <1>6, <1>7, <1>8, <1>9

LEMMA AllowedCapped ==
  ASSUME OneStock, NEW M, Solid(M), NEW N, NEW l \in Ledgers, NEW req \in Request,
         Allowed(M, N, l, req), NEW B, NEW t \in Nat, Evenly(M, B, t),
         NEW A \in SUBSET Allocs, Spans(A, req.now, t), Capped(A, B)
  PROVE  Capped(A, BooksOf(B, N))
<1> DEFINE C == BooksOf(B, N)
<1>1. PICK n : GrantedAs(M, N, l, req, n)
  BY AllowedBooked
<1>2. /\ C[l] = B[l] \cup UnitsOf(l, n) /\ B[l] \cap UnitsOf(l, n) = {}
      /\ \A k \in Ledgers \ {l} : C[k] = B[k]
      /\ \A k \in Ledgers \ {l} : B[k] \cap UnitsOf(l, n) = {}
  <2> HIDE DEF C
  <2>1. /\ BooksOf(B, N)[l] = B[l] \cup UnitsOf(l, n)
        /\ B[l] \cap UnitsOf(l, n) = {}
        /\ \A k \in Ledgers \ {l} : BooksOf(B, N)[k] = B[k]
        /\ \A k \in Ledgers \ {l} : B[k] \cap UnitsOf(l, n) = {}
    BY <1>1, GrantedRows
  <2> QED BY <2>1 DEF C
<1> HIDE DEF C
<1> SUFFICES ASSUME NEW a \in A, NEW p \in Purposes
             PROVE  /\ IsFiniteSet(AllRows(C, Account(a), p))
                    /\ \E m \in OwnerLimitOf(a, p) : Cardinality(AllRows(C, Account(a), p)) <= m
                    /\ \A k \in Ledgers : \E m \in TenantLimitOf(k, a, p) :
                         Cardinality(RowsAt(C[k], Account(a), p)) <= m
  BY DEF Capped, C
<1> a \in Allocs
  OBVIOUS
<1> DEFINE c == Account(a)
           R == RowsOn(l, n, c, p)
           v == IF p = n.purpose /\ c \in Touched(n) THEN n.accounted[AllocInfo[c].dim] ELSE 0
<1>3. /\ IsFiniteSet(AllRows(B, c, p))
      /\ \E m \in OwnerLimitOf(a, p) : Cardinality(AllRows(B, c, p)) <= m
      /\ \A k \in Ledgers : \E m \in TenantLimitOf(k, a, p) : Cardinality(RowsAt(B[k], c, p)) <= m
  BY DEF Capped
<1>4. IsFiniteSet(R) /\ Cardinality(R) = v
  BY <1>1, AccountForm, RowsCount DEF GrantedAs
<1>5. /\ RowsAt(C[l], c, p) = RowsAt(B[l], c, p) \cup R
      /\ RowsAt(B[l], c, p) \cap R = {}
      /\ \A k \in Ledgers \ {l} : RowsAt(C[k], c, p) = RowsAt(B[k], c, p)
                                  /\ RowsAt(B[k], c, p) \cap R = {}
  BY <1>2 DEF RowsAt, RowsOn
<1>6. /\ AllRows(C, c, p) = AllRows(B, c, p) \cup R
      /\ AllRows(B, c, p) \cap R = {}
  BY <1>5 DEF AllRows
<1>7. IsFiniteSet(RowsAt(B[l], c, p))
  <2>1. RowsAt(B[l], c, p) \subseteq AllRows(B, c, p)
    BY DEF AllRows
  <2> QED BY <1>3, <2>1, FS_Subset
<1>8. CASE v = 0
  <2>1. R = {}
    BY <1>4, <1>8, FS_EmptySet
  <2>2. AllRows(C, c, p) = AllRows(B, c, p) /\ \A k \in Ledgers : RowsAt(C[k], c, p) = RowsAt(B[k], c, p)
    BY <1>5, <1>6, <2>1
  <2> QED BY <1>3, <2>2
<1>9. CASE v # 0
  <2>1. p = n.purpose /\ c \in Touched(n)
    BY <1>9
  <2>2. p = req.purpose
    BY <1>1, <2>1 DEF GrantedAs
  <2>3. PICK d \in Dims : Charging(M, l, req, a, d)
    BY <1>1, <2>1, TouchedLine
  <2>4. AllocInfo[c].dim = d /\ AllocInfo[a].dim = d
    BY <2>3, AccountForm DEF Charging
  <2>5. v = req.envelope[d]
    BY <1>1, <2>1, <2>4 DEF GrantedAs
  <2> DEFINE tenant == M.ledger[l].policy.budgets[d].limit[p]
             owner == M.ledger[Ingress].policy.budgets[d].limit[p]
  <2> HIDE DEF R, v, c
  <2>6. /\ Cardinality(RowsAt(B[l], c, p)) + v <= tenant
        /\ Cardinality(AllRows(B, c, p)) + v <= owner
    BY <1>3, <2>2, <2>3, <2>5, RoomFor DEF c
  <2>7. tenant \in TenantLimitOf(l, a, p)
    <3>1. PICK r \in Revisions : M.ledger[l].policy = Authority[r].policies[l]
      BY DEF Solid, Sound, OnTerms
    <3> QED BY <2>4, <3>1 DEF TenantLimitOf
  <2>8. owner \in OwnerLimitOf(a, p)
    <3>1. PICK r \in Revisions : M.ledger[Ingress].policy = Authority[r].policies[Ingress]
      BY LedgersType DEF Solid, Sound, OnTerms
    <3> QED BY <2>4, <3>1 DEF OwnerLimitOf
  <2>9. /\ IsFiniteSet(AllRows(C, c, p))
        /\ Cardinality(AllRows(C, c, p)) = Cardinality(AllRows(B, c, p)) + v
    BY <1>3, <1>4, <1>6, DisjointCount
  <2>10. Cardinality(RowsAt(C[l], c, p)) = Cardinality(RowsAt(B[l], c, p)) + v
    BY <1>4, <1>5, <1>7, DisjointCount
  <2> HIDE DEF tenant, owner
  <2>11. \E m \in OwnerLimitOf(a, p) : Cardinality(AllRows(C, c, p)) <= m
    BY <2>6, <2>8, <2>9
  <2>12. ASSUME NEW k \in Ledgers
         PROVE  \E m \in TenantLimitOf(k, a, p) : Cardinality(RowsAt(C[k], c, p)) <= m
    <3>1. CASE k = l
      BY <2>6, <2>7, <2>10, <3>1
    <3>2. CASE k # l
      BY <1>3, <1>5, <3>2
    <3> QED BY <3>1, <3>2
  <2> QED BY <2>9, <2>11, <2>12 DEF c
<1> QED BY <1>8, <1>9

-----------------------------------------------------------------------------
(* The ceilings hold.                                                      *)

\* A defect stays through what is booked.
LEMMA BookedDefective ==
  ASSUME NEW S, NEW T, NEW now, Booked(S, T, now), ~Defective(T)
  PROVE  ~Defective(S)
BY DEF Booked, Posts, Defective

\* Fewer allocations are within the limits too.
LEMMA CappedFewer ==
  ASSUME NEW A, NEW B, Capped(A, B), NEW C, C \subseteq A
  PROVE  Capped(C, B)
BY DEF Capped

\* What is allowed is granted a number of its own.
LEMMA AllowedGrants ==
  ASSUME NEW M, Solid(M), NEW N, Solid(N), NEW l \in Ledgers, NEW req \in Request,
         Allowed(M, N, l, req)
  PROVE  M.ledger[l].next < N.ledger[l].next
<1>1. PICK n : GrantedAs(M, N, l, req, n)
  BY AllowedBooked
<1>2. n.seq = M.ledger[l].next /\ n \in N.ledger[l].grants
  BY <1>1 DEF GrantedAs
<1>3. LedgerInv(N.ledger[l])
  BY DEF Solid, Sound
<1> QED BY <1>2, <1>3 DEF LedgerInv, Numbered

\* A call that grants at most once, and that once what is allowed, keeps the
\* books within the limits: on every allocation, if it grants nothing.
LEMMA GrantsOnceCapped ==
  ASSUME OneStock, NEW S, Solid(S), NEW T, NEW now \in Nat, GrantsOnce(S, T, now), NEW B,
         NEW t \in Nat, now <= t, Evenly(S, B, t), ~Defective(T),
         NEW A \in SUBSET Allocs, Capped(A, B),
         Spans(A, now, t) \/ \A l \in Ledgers : ~Granted(S, T, l)
  PROVE  Capped(A, BooksOf(B, T))
<1>1. PICK M, N : /\ Idles(S, M, now) /\ Idles(N, T, now)
                  /\ N = M \/ \E l \in Ledgers, req \in Request : req.now = now /\ Allowed(M, N, l, req)
  BY DEF GrantsOnce
<1>2. Booked(S, M, now) /\ Booked(N, T, now) /\ Solid(M)
  BY <1>1, BookedSolid DEF Idles
<1>3. Booked(M, N, now)
  BY <1>1, <1>2, AllowedBooked, BookedReflexive
<1>4. Solid(N) /\ Booked(S, N, now) /\ ~Defective(N) /\ ~Defective(M)
  BY <1>2, <1>3, BookedSolid, BookedTransitive, BookedDefective
<1> DEFINE C == BooksOf(B, M)
           D == BooksOf(B, N)
<1>5. Capped(A, C)
  BY <1>1, <1>4, IdlesCapped
<1>6. BooksOf(C, N) = D /\ Evenly(M, C, t)
  BY <1>2, <1>3, BooksTwice
<1>7. BooksOf(D, T) = BooksOf(B, T) /\ Evenly(N, D, t)
  BY <1>2, <1>4, BooksTwice
<1>8. Capped(A, D)
  <2>1. CASE N = M
    BY <1>5, <2>1
  <2>2. CASE \E l \in Ledgers, req \in Request : req.now = now /\ Allowed(M, N, l, req)
    <3>1. PICK l \in Ledgers, req \in Request : req.now = now /\ Allowed(M, N, l, req)
      BY <2>2
    <3> HIDE DEF C, D
    <3>2. Granted(S, T, l)
      <4>1. M.ledger[l].next < N.ledger[l].next
        BY <1>2, <1>4, <3>1, AllowedGrants
      <4>2. M.ledger[l].next = S.ledger[l].next /\ T.ledger[l].next = N.ledger[l].next
        BY <1>1 DEF Idles, NothingGranted
      <4>3. M.ledger[l].next \in Nat /\ N.ledger[l].next \in Nat
        BY <1>2, <1>4 DEF Solid, Sound, LedgerInv, Ledger
      <4> QED BY <4>1, <4>2, <4>3 DEF Granted
    <3>3. Spans(A, req.now, t)
      BY <3>1, <3>2
    <3>4. Capped(A, BooksOf(C, N))
      BY <1>2, <1>5, <1>6, <3>1, <3>3, AllowedCapped
    <3> QED BY <1>6, <3>4
  <2> QED BY <1>1, <2>1, <2>2
<1> HIDE DEF C, D
<1>9. Capped(A, BooksOf(D, T))
  BY <1>1, <1>4, <1>7, <1>8, IdlesCapped
<1> QED BY <1>7, <1>9

Books == [l \in Ledgers |-> Part(l)]

\* The allocations that no late call was granted anything of.
Steadfast == Allocs \ overtaken

CapInv ==
  /\ AuditInv
  /\ \A a \in overtaken : ~AllocInfo[a].stock
  /\ Defective(agg) \/ Capped(Steadfast, Books)

LEMMA BooksNext == ASSUME AuditInv, Book PROVE Books' = BooksOf(Books, agg')
BY BookParts DEF AuditInv, Books, BooksOf

LEMMA BooksEven == ASSUME AuditInv, NEW t \in Nat, heard <= t PROVE Evenly(agg, Books, t)
BY BalancedLater DEF AuditInv, Books, Evenly

LEMMA InitCapped == AuditInit => CapInv
<1> SUFFICES ASSUME AuditInit PROVE CapInv
  OBVIOUS
<1>1. AuditInv /\ spent = {} /\ overtaken = {}
  BY InitAudit DEF AuditInit
<1>2. \A l \in Ledgers : Books[l] = {}
  BY <1>1 DEF Books, Part
<1>3. ASSUME NEW a \in Allocs, NEW p \in Purposes
      PROVE  /\ IsFiniteSet(AllRows(Books, Account(a), p))
             /\ \E n \in OwnerLimitOf(a, p) : Cardinality(AllRows(Books, Account(a), p)) <= n
             /\ \A l \in Ledgers : \E n \in TenantLimitOf(l, a, p) :
                  Cardinality(RowsAt(Books[l], Account(a), p)) <= n
  <2>1. \A l \in Ledgers : RowsAt(Books[l], Account(a), p) = {}
    BY <1>2 DEF RowsAt
  <2>2. AllRows(Books, Account(a), p) = {}
    BY <2>1 DEF AllRows
  <2>3. IsFiniteSet({}) /\ Cardinality({}) = 0
    BY FS_EmptySet
  <2>4. PICK n \in OwnerLimitOf(a, p) : n \in Nat
    BY LimitsType
  <2>5. \A l \in Ledgers : \E m \in TenantLimitOf(l, a, p) : m \in Nat
    BY LimitsType
  <2>6. 0 <= n /\ \A l \in Ledgers : \E m \in TenantLimitOf(l, a, p) : 0 <= m
    BY <2>4, <2>5
  <2> QED BY <2>1, <2>2, <2>3, <2>6
<1> QED BY <1>1, <1>3 DEF CapInv, Capped, Steadfast

\* A call that is granted something keeps to what has not ended for the calls
\* before it, on the allocations it does not overtake.
LEMMA HearSpans ==
  ASSUME heard \in Nat, NEW now \in Nat, Hear(now)
  PROVE  /\ Steadfast' \subseteq Steadfast
         /\ \A a \in overtaken' : a \in overtaken \/ ~AllocInfo[a].stock
         /\ Spans(Steadfast', now, heard') \/ \A l \in Ledgers : ~Granted(agg, agg', l)
<1> DEFINE Behind == {a \in Allocs : /\ ~AllocInfo[a].stock
                                     /\ now < AllocInfo[a].endsAt /\ AllocInfo[a].endsAt <= heard
                                     /\ \E l \in Ledgers : Granted(agg, agg', l)}
<1>1. overtaken' = overtaken \cup Behind /\ heard' = IF heard < now THEN now ELSE heard
  BY DEF Hear, Greater
<1>2. ASSUME NEW l \in Ledgers, Granted(agg, agg', l) PROVE Spans(Steadfast', now, heard')
  <2> SUFFICES ASSUME NEW a \in Allocs, a \notin overtaken', ~AllocInfo[a].stock,
                      now < AllocInfo[a].endsAt
               PROVE  heard' < AllocInfo[a].endsAt
    BY DEF Spans, Steadfast
  <2>1. AllocInfo[a].endsAt \in Nat
    BY AllocInfoType DEF Window
  <2>2. ~(AllocInfo[a].endsAt <= heard)
    BY <1>1, <1>2
  <2> QED BY <1>1, <2>1, <2>2
<1> QED BY <1>1, <1>2 DEF Steadfast

\* Every step keeps the books within the limits.
LEMMA StepCapped ==
  ASSUME OneStock, ~StaleRetries
  PROVE  CapInv /\ [AuditNext]_auditVars => CapInv'
<1> SUFFICES ASSUME CapInv, [AuditNext]_auditVars PROVE CapInv'
  OBVIOUS
<1>1. AuditInv /\ AuditInv' /\ IInv /\ Solid(agg) /\ clock \in Nat /\ heard \in Nat
  BY StepAudit DEF CapInv, AuditInv, IInv, TypeOK
<1>2. ASSUME agg' = agg, spent' = spent, overtaken' = overtaken PROVE CapInv'
  <2>1. Books' = Books /\ Steadfast' = Steadfast
    BY <1>2 DEF Books, Part, Steadfast
  <2> QED BY <1>1, <1>2, <2>1 DEF CapInv
<1>3. ASSUME NEW now \in Times, VerifiedCall(now) \/ UnverifiedCall(now), Book, Hear(now)
      PROVE  CapInv'
  <2>1. now \in Nat /\ heard' \in Nat /\ heard <= heard' /\ now <= heard'
    BY <1>1, <1>3, TimesType, HeardLater
  <2>2. Booked(agg, agg', now) /\ GrantsOnce(agg, agg', now)
    BY <1>1, <1>3, CallEnters DEF Enters
  <2>3. Books' = BooksOf(Books, agg') /\ Evenly(agg, Books, heard')
    BY <1>1, <1>3, <2>1, BooksNext, BooksEven
  <2>4. /\ Steadfast' \subseteq Steadfast
        /\ Spans(Steadfast', now, heard') \/ \A l \in Ledgers : ~Granted(agg, agg', l)
        /\ \A a \in overtaken' : ~AllocInfo[a].stock
    BY <1>1, <1>3, <2>1, HearSpans DEF CapInv
  <2>5. CASE Defective(agg')
    BY <1>1, <2>4, <2>5 DEF CapInv
  <2>6. CASE ~Defective(agg')
    <3>1. Capped(Steadfast, Books)
      BY <2>2, <2>6, BookedDefective DEF CapInv
    <3> DEFINE A == Steadfast'
    <3>2. A \in SUBSET Allocs /\ Capped(A, Books)
      BY <2>4, <3>1, CappedFewer DEF Steadfast
    <3>3. Spans(A, now, heard') \/ \A l \in Ledgers : ~Granted(agg, agg', l)
      BY <2>4
    <3> HIDE DEF A
    <3>4. Capped(A, BooksOf(Books, agg'))
      BY <1>1, <2>1, <2>2, <2>3, <2>6, <3>2, <3>3, GrantsOnceCapped
    <3> QED BY <1>1, <2>3, <2>4, <3>4 DEF CapInv, A
  <2> QED BY <2>5, <2>6
<1>4. CASE UNCHANGED auditVars
  BY <1>2, <1>4 DEF auditVars
<1>5. CASE AuditNext
  <2>1. CASE (Tick \/ Publish) /\ UNCHANGED <<books, anonBooks>>
    BY <1>2, <2>1 DEF Tick, Publish, books
  <2> QED BY <1>3, <1>5, <2>1 DEF AuditNext
<1> QED BY <1>4, <1>5

\* Everything ever charged to the allocations A is within the limits.
WithinLimits(A) ==
  Defective(agg) \/
  \A a \in A, p \in Purposes :
    /\ \E n \in OwnerLimitOf(a, p) : Cardinality(SpentOn(a, p)) <= n
    /\ \A l \in Ledgers : \E n \in TenantLimitOf(l, a, p) :
         Cardinality({t \in SpentOn(a, p) : t[1] = l}) <= n

LEMMA CappedWithin == CapInv => WithinLimits(Steadfast)
<1> SUFFICES ASSUME CapInv, ~Defective(agg), NEW a \in Steadfast, NEW p \in Purposes
             PROVE  /\ \E n \in OwnerLimitOf(a, p) : Cardinality(SpentOn(a, p)) <= n
                    /\ \A l \in Ledgers : \E n \in TenantLimitOf(l, a, p) :
                         Cardinality({t \in SpentOn(a, p) : t[1] = l}) <= n
  BY DEF WithinLimits
<1>1. Capped(Steadfast, Books) /\ \A e \in spent : e[1] \in Ledgers
  BY DEF CapInv, AuditInv
<1>2. \A l \in Ledgers : RowsAt(Books[l], Account(a), p) = {t \in SpentOn(a, p) : t[1] = l}
  BY DEF RowsAt, Books, Part, SpentOn
<1>3. AllRows(Books, Account(a), p) = SpentOn(a, p)
  <2>1. \A t \in SpentOn(a, p) : t[1] \in Ledgers
    BY <1>1 DEF SpentOn
  <2>2. AllRows(Books, Account(a), p) = UNION {{t \in SpentOn(a, p) : t[1] = l} : l \in Ledgers}
    BY <1>2 DEF AllRows
  <2> QED BY <2>1, <2>2
<1> QED BY <1>1, <1>2, <1>3 DEF Capped

\* Over the life of a stock allocation, everything ever charged to it, by all
\* tenants together and by each alone, stays within the largest limit the owner
\* ever published for it, unless evidence reported an overrun, however late calls
\* arrive: the checks of reserveBudgetGrant and reserveOwnerAggregate bound what
\* closing, compacting, pruning and handing over leave behind.  It rests on one
\* stock allocation per dimension, and on callers that do not use an identity
\* again that the coordinator has forgotten.
THEOREM StockCeilings ==
  ASSUME OneStock, ~StaleRetries
  PROVE  AuditSpec => []WithinLimits({a \in Allocs : AllocInfo[a].stock})
<1>1. CapInv => WithinLimits({a \in Allocs : AllocInfo[a].stock})
  BY CappedWithin DEF WithinLimits, Steadfast, CapInv
<1> QED BY <1>1, InitCapped, StepCapped, PTL DEF AuditSpec

\* The same of every interval too, however late calls arrive, as long as no call
\* is granted anything after a later one has found an interval ended that runs at
\* the time of the call: the later call prunes what was closed, and the other
\* finds room again (pruneBudgetGrants, coordinator-state.ts).  An interval that
\* ends between no two such calls keeps its ceiling, whatever happens at others.
THEOREM CeilingsHold ==
  ASSUME OneStock, ~StaleRetries
  PROVE  AuditSpec => []CeilingHolds
<1>1. CapInv => CeilingHolds
  BY CappedWithin DEF WithinLimits, Steadfast, CeilingHolds
<1> QED BY <1>1, InitCapped, StepCapped, PTL DEF AuditSpec

-----------------------------------------------------------------------------
(* Unverified admissions.                                                  *)

\* A new policy settles nothing.
LEMMA AdoptSettled ==
  ASSUME NEW L, LedgerInv(L), NEW policy \in Policy, NEW now \in Nat,
         NEW h \in Adopt(L, policy, now).grants, h.status = "reconciled"
  PROVE  h \in L.grants
<1> DEFINE G == {ExpireGrant(g, now) : g \in L.grants}
           K == [L EXCEPT !.grants = G]
           E == Expire(L, now)
           F == {Fence(g) : g \in E.grants}
           A == E.allocs \cup {policy.budgets[d].alloc : d \in Dims}
           M == [E EXCEPT !.policy = policy, !.allocs = A, !.grants = F]
<1>1. L \in Ledger /\ E = Prune(K, now) /\ Adopt(L, policy, now) = Prune(M, now)
  BY DEF Expire, Adopt, LedgerInv
<1>2. E \in Ledger
  BY ExpireInv DEF LedgerInv
<1>3. E.grants \subseteq G
  <2> HIDE DEF G
  <2>1. K \in [policy : {L.policy}, next : {L.next}, allocs : {L.allocs}, grants : {G},
               closed : {L.closed}, defect : {L.defect}]
    BY <1>1 DEF Ledger
  <2> HIDE DEF K, E
  <2> QED BY <1>1, <2>1 DEF Prune
<1>4. Adopt(L, policy, now).grants \subseteq F
  <2> HIDE DEF E, F, A
  <2>1. M \in [policy : {policy}, next : {E.next}, allocs : {A}, grants : {F},
               closed : {E.closed}, defect : {E.defect}]
    BY <1>2 DEF Ledger
  <2> HIDE DEF M
  <2> QED BY <1>1, <2>1 DEF Prune
<1>5. \A g \in L.grants : ExpireGrant(g, now).status = "reconciled" => ExpireGrant(g, now) = g
  BY <1>1 DEF ExpireGrant, Ledger, Grant
<1>6. \A g \in E.grants : Fence(g).status = "reconciled" => Fence(g) = g
  <2> HIDE DEF E
  <2> QED BY <1>2 DEF Fence, Ledger, Grant
<1>7. PICK g \in E.grants : h = Fence(g)
  BY <1>4
<1>8. h \in E.grants
  BY <1>6, <1>7
<1>9. PICK k \in L.grants : h = ExpireGrant(k, now)
  BY <1>3, <1>8
<1> QED BY <1>5, <1>9

\* Nor does a renewed lease: an identity that could be used still can be.
LEMMA RenewLate ==
  ASSUME NEW S, AggInv(S), NEW r \in Revisions, NEW at \in Nat, NEW l \in Ledgers, NEW req,
         ~Late(S.ledger[l], req)
  PROVE  ~Late(Renew(S, r, at).ledger[l], req)
<1> DEFINE M == Renew(S, r, at).ledger[l]
           policy == Authority[r].policies[l]
<1>1. M = IF SameTerms(policy, S.ledger[l].policy) THEN S.ledger[l]
          ELSE Adopt(S.ledger[l], policy, at)
  BY DEF Renew, AggInv, Aggregate
<1>2. policy \in Policy /\ LedgerInv(S.ledger[l])
  BY PoliciesType DEF AggInv
<1> HIDE DEF M, policy
<1>3. \A h \in M.grants : h.status = "reconciled" => h \in S.ledger[l].grants
  BY <1>1, <1>2, AdoptSettled
<1>4. ~Late(M, req)
  BY <1>3 DEF Late, Prior
<1> QED BY <1>4 DEF M

\* A replay of a known identity is granted nothing.
LEMMA ReplayGrantsNothing ==
  ASSUME NEW S, AggInv(S), NEW req \in Request,
         Prior(S.ledger[Ingress], req) # {}, ~Late(S.ledger[Ingress], req)
  PROVE  ReserveOnIngress(S, req).ledger[Ingress].next = S.ledger[Ingress].next
<1> DEFINE E == ExpireAll(S, req.now)
           X == E.ledger[Ingress]
           N == Reserve(X, req, {})
<1>1. req.now \in Nat /\ Ingress \in Ledgers /\ LedgerInv(S.ledger[Ingress])
  BY LedgersType DEF Request, AggInv
<1>2. X = Expire(S.ledger[Ingress], req.now)
  BY <1>1 DEF ExpireAll, AggInv, Aggregate
<1>3. AggInv(E)
  BY <1>1, ExpireAllKeeps DEF Keeps
<1>4. E \in Aggregate
  BY <1>3 DEF AggInv
<1> HIDE DEF E
<1>5. LedgerInv(X) /\ X.next = S.ledger[Ingress].next /\ Prior(X, req) # {}
  <2> HIDE DEF X
  <2> QED BY <1>1, <1>2, ExpireInv, KnownAfterExpiry DEF Continues
<1>6. N.next = X.next
  <2> HIDE DEF X
  <2> QED BY <1>5, ReserveAged
<1>7. ReserveOnIngress(S, req) = E \/ ReserveOnIngress(S, req) = WithLedger(E, Ingress, N)
  BY <1>5 DEF ReserveOnIngress, E
<1> HIDE DEF N
<1> QED BY <1>1, <1>4, <1>5, <1>6, <1>7 DEF WithLedger, Aggregate

\* The admissions A of window w.
In(A, w) == {t \in A : t[1] = w}

\* No window after the latest has admissions; one that was not reopened has no
\* more than the limit, and the latest no more than its count.
AnonInv ==
  /\ IInv
  /\ latest \in Nat
  /\ \A t \in admitted : t[1] \in Nat /\ t[1] <= latest
  /\ \A w \in Nat : IsFiniteSet(In(admitted, w))
  /\ \A w \in Nat \ reopened : Cardinality(In(admitted, w)) <= AnonLimit
  /\ latest \notin reopened =>
       anon.window = latest /\ Cardinality(In(admitted, latest)) <= anon.count

LEMMA InitAnon == AuditInit => AnonInv
<1> SUFFICES ASSUME AuditInit PROVE AnonInv
  OBVIOUS
<1>1. IInv /\ admitted = {} /\ latest = 0 /\ anon.window = 0 /\ anon.count = 0
  BY InitIInv DEF AuditInit, Init
<1>2. \A w : In(admitted, w) = {}
  BY <1>1 DEF In
<1>3. IsFiniteSet({}) /\ Cardinality({}) = 0 /\ AnonLimit \in Nat
  BY FS_EmptySet, LimitAssumption
<1>4. \A w : IsFiniteSet(In(admitted, w)) /\ Cardinality(In(admitted, w)) = 0
  BY <1>2, <1>3
<1>5. \A t \in admitted : t[1] \in Nat /\ t[1] <= latest
  BY <1>1
<1>6. Cardinality(In(admitted, latest)) <= anon.count
  BY <1>1, <1>4
<1>7. \A w \in Nat : IsFiniteSet(In(admitted, w))
  BY <1>4
<1>8. \A w \in Nat \ reopened : Cardinality(In(admitted, w)) <= AnonLimit
  BY <1>3, <1>4
<1> QED BY <1>1, <1>5, <1>6, <1>7, <1>8 DEF AnonInv

\* No other call moves the count.
LEMMA VerifiedQuiet == ASSUME NEW now, VerifiedCall(now) PROVE anon' = anon
BY DEF VerifiedCall, RefreshRPC, RevokeRPC, ReserveRPC, ReserveIngressRPC,
       ReconcileRPC, HandoffRPC, HandoffBatchRPC

\* What an unverified reservation adds.
LEMMA UnverifiedAdmits ==
  ASSUME ~StaleRetries, IInv, NEW r \in Revisions, NEW now \in Times,
         NEW req \in Requests(Ingress, AnonDemand, now),
         ReserveUnverifiedRPC(r, req), Count(now)
  PROVE  LET w == WindowOf(now)
         IN /\ anon'.window = w
            /\ \/ admitted' = admitted /\ anon'.count = Admitted(now)
               \/ /\ Admitted(now) < AnonLimit /\ anon'.count = Admitted(now) + 1
                  /\ admitted' = admitted \/ \E s : admitted' = admitted \cup {<<w, s>>}
            /\ latest' = Greater(latest, w)
            /\ reopened' = reopened \cup IF w < latest THEN w .. latest ELSE {}
<1> DEFINE R == Renew(agg, r, now)
           w == WindowOf(now)
           replay == Prior(R.ledger[Ingress], req) # {}
<1>1. AggInv(agg) /\ Ingress \in Ledgers /\ now \in Nat
  BY LedgersType, TimesType DEF IInv, TypeOK
<1>2. req \in Request /\ req.now = now /\ ~Late(agg.ledger[Ingress], req)
  BY <1>1, RequestsType, LimitAssumption DEF Requests
<1>3. /\ anon' = [window |-> w, count |-> Admitted(now) + IF replay THEN 0 ELSE 1]
      /\ replay \/ Admitted(now) < AnonLimit
      /\ agg' = ReserveOnIngress(R, req)
  BY <1>2 DEF ReserveUnverifiedRPC
<1>4. /\ \/ admitted' = admitted
         \/ Granted(agg, agg', Ingress)
            /\ admitted' = admitted \cup {<<w, agg.ledger[Ingress].next>>}
      /\ latest' = Greater(latest, w)
      /\ reopened' = reopened \cup IF w < latest THEN w .. latest ELSE {}
  BY DEF Count, WindowOf
<1>5. AggInv(R) /\ ~Late(R.ledger[Ingress], req) /\ R.ledger[Ingress].next = agg.ledger[Ingress].next
  BY <1>1, <1>2, RenewInv, RenewLate, RenewQuiet DEF Quiet
<1>6. Admitted(now) \in Nat
  BY DEF Admitted, IInv, TypeOK
<1> HIDE DEF R, w
<1>7. CASE replay
  <2>1. agg'.ledger[Ingress].next = agg.ledger[Ingress].next
    BY <1>2, <1>3, <1>5, <1>7, ReplayGrantsNothing
  <2>2. agg.ledger[Ingress].next \in Nat
    BY <1>1 DEF AggInv, LedgerInv, Ledger
  <2>3. ~Granted(agg, agg', Ingress)
    BY <2>1, <2>2 DEF Granted
  <2>4. anon'.window = w /\ anon'.count = Admitted(now)
    BY <1>3, <1>6, <1>7
  <2> QED BY <1>4, <2>3, <2>4 DEF w
<1>8. CASE ~replay
  <2>1. anon'.window = w /\ anon'.count = Admitted(now) + 1 /\ Admitted(now) < AnonLimit
    BY <1>3, <1>8
  <2> QED BY <1>4, <2>1 DEF w
<1> QED BY <1>7, <1>8

\* A window that its count still holds is admitted no more than the limit.
LEMMA WindowCounted ==
  ASSUME AnonInv, NEW w \in Nat, NEW c \in Nat, anon.window = w => c = anon.count,
         anon'.window = w,
         \/ admitted' = admitted /\ anon'.count = c
         \/ /\ c < AnonLimit /\ anon'.count = c + 1
            /\ admitted' = admitted \/ \E s : admitted' = admitted \cup {<<w, s>>},
         latest' = Greater(latest, w),
         reopened' = reopened \cup IF w < latest THEN w .. latest ELSE {}
  PROVE  /\ latest' \in Nat
         /\ \A t \in admitted' : t[1] \in Nat /\ t[1] <= latest'
         /\ \A v \in Nat : IsFiniteSet(In(admitted', v))
         /\ \A v \in Nat \ reopened' : Cardinality(In(admitted', v)) <= AnonLimit
         /\ latest' \notin reopened' =>
              anon'.window = latest' /\ Cardinality(In(admitted', latest')) <= anon'.count
<1>1. latest \in Nat /\ AnonLimit \in Nat /\ latest' = IF latest < w THEN w ELSE latest
  BY LimitAssumption DEF AnonInv, Greater
<1>2. PICK X : /\ admitted' = admitted \cup X
               /\ X = {} \/ \E s : X = {<<w, s>>}
               /\ X # {} => c < AnonLimit
               /\ anon'.count = c \/ anon'.count = c + 1
               /\ X # {} => anon'.count = c + 1
  <2>1. CASE admitted' = admitted
    <3>1. admitted' = admitted \cup {}
      BY <2>1
    <3> QED BY <3>1
  <2>2. CASE /\ c < AnonLimit /\ anon'.count = c + 1
             /\ \E s : admitted' = admitted \cup {<<w, s>>}
    BY <2>2
  <2> QED BY <2>1, <2>2
<1>3. \A v : In(admitted', v) = IF v = w THEN In(admitted, w) \cup X ELSE In(admitted, v)
  BY <1>2 DEF In
<1>4. latest' \in Nat /\ w <= latest' /\ latest <= latest'
  BY <1>1
<1>5. \A t \in admitted' : t[1] \in Nat /\ t[1] <= latest'
  <2>1. \A t \in admitted : t[1] \in Nat /\ t[1] <= latest'
    BY <1>1, <1>4 DEF AnonInv
  <2>2. \A t \in X : t[1] \in Nat /\ t[1] <= latest'
    BY <1>2, <1>4
  <2> QED BY <1>2, <2>1, <2>2
<1> DEFINE A == In(admitted, w)
<1>6. IsFiniteSet(A) /\ Cardinality(A) \in Nat
  BY FS_CardinalityType DEF AnonInv
<1>7. /\ IsFiniteSet(A \cup X) /\ Cardinality(A \cup X) \in Nat
      /\ Cardinality(A \cup X) <= IF X = {} THEN Cardinality(A) ELSE Cardinality(A) + 1
  <2> HIDE DEF A
  <2>1. CASE X = {}
    <3>1. A \cup X = A
      BY <2>1
    <3> QED BY <1>6, <2>1, <3>1
  <2>2. CASE X # {}
    <3>1. PICK x : X = {x}
      BY <1>2, <2>2
    <3>2. /\ IsFiniteSet(A \cup {x})
          /\ Cardinality(A \cup {x}) = Cardinality(A) \/ Cardinality(A \cup {x}) = Cardinality(A) + 1
      BY <1>6, FS_AddElement
    <3>3. Cardinality(A \cup X) \in Nat /\ Cardinality(A \cup X) <= Cardinality(A) + 1
      BY <1>6, <3>1, <3>2
    <3> QED BY <2>2, <3>1, <3>2, <3>3
  <2> QED BY <2>1, <2>2
<1>8. \A v \in Nat : IsFiniteSet(In(admitted', v))
  BY <1>3, <1>7 DEF AnonInv
<1>9. w \notin reopened' => ~(w < latest) /\ w \notin reopened
  <2>1. w < latest => w \in w .. latest
    BY <1>1
  <2> QED BY <2>1
<1>10. w \notin reopened' => Cardinality(A) <= c
  <2> SUFFICES ASSUME w \notin reopened' PROVE Cardinality(A) <= c
    OBVIOUS
  <2>1. CASE w = latest
    BY <1>9, <2>1 DEF AnonInv
  <2>2. CASE latest < w
    <3>1. A = {}
      BY <1>1, <2>2 DEF AnonInv, In
    <3> QED BY <3>1, FS_EmptySet
  <2> QED BY <1>1, <1>9, <2>1, <2>2
<1>11. w \notin reopened' =>
         Cardinality(A \cup X) <= anon'.count /\ Cardinality(A \cup X) <= AnonLimit
  <2> SUFFICES ASSUME w \notin reopened'
               PROVE  Cardinality(A \cup X) <= anon'.count /\ Cardinality(A \cup X) <= AnonLimit
    OBVIOUS
  <2>1. Cardinality(A) <= AnonLimit /\ Cardinality(A) <= c
    BY <1>9, <1>10 DEF AnonInv
  <2> HIDE DEF A
  <2>2. CASE X = {}
    BY <1>2, <1>6, <1>7, <2>1, <2>2
  <2>3. CASE X # {}
    BY <1>1, <1>2, <1>6, <1>7, <2>1, <2>3
  <2> QED BY <2>2, <2>3
<1>12. ASSUME NEW v \in Nat \ reopened' PROVE Cardinality(In(admitted', v)) <= AnonLimit
  <2>1. CASE v = w
    BY <1>3, <1>11, <2>1
  <2>2. CASE v # w
    BY <1>3, <2>2 DEF AnonInv
  <2> QED BY <2>1, <2>2
<1>13. ASSUME latest' \notin reopened'
       PROVE  anon'.window = latest' /\ Cardinality(In(admitted', latest')) <= anon'.count
  <2>1. latest' = w
    <3>1. w < latest => latest' \in w .. latest
      BY <1>1
    <3> QED BY <1>1, <1>13, <3>1
  <2>2. Cardinality(A \cup X) <= anon'.count
    BY <1>11, <1>13, <2>1
  <2> QED BY <1>3, <2>1, <2>2
<1> QED BY <1>4, <1>5, <1>8, <1>12, <1>13

\* Every step admits within the window's limit.
LEMMA StepAnon ==
  ASSUME ~StaleRetries
  PROVE  AnonInv /\ [AuditNext]_auditVars => AnonInv'
<1> SUFFICES ASSUME AnonInv, [AuditNext]_auditVars PROVE AnonInv'
  OBVIOUS
<1>1. IInv /\ clock \in Nat
  BY DEF AnonInv, IInv, TypeOK
<1>2. IInv'
  <2>1. CASE UNCHANGED auditVars
    <3>1. UNCHANGED vars
      BY <2>1 DEF auditVars, vars
    <3> QED BY <1>1, <3>1, StepIInv
  <2>2. CASE AuditNext
    BY <1>1, <2>2, AuditNextNext, StepIInv
  <2> QED BY <2>1, <2>2
<1>3. CASE UNCHANGED <<anon, anonBooks>>
  <2>1. anon' = anon /\ admitted' = admitted /\ latest' = latest /\ reopened' = reopened
    BY <1>3 DEF anonBooks
  <2> QED BY <1>2, <2>1 DEF AnonInv
<1>4. ASSUME NEW now \in Times, UnverifiedCall(now), Count(now) PROVE AnonInv'
  <2> DEFINE w == WindowOf(now)
             c == Admitted(now)
  <2>1. PICK r \in Revisions, req \in Requests(Ingress, AnonDemand, now) :
               ReserveUnverifiedRPC(r, req)
    BY <1>4 DEF UnverifiedCall
  <2>2. /\ anon'.window = w
        /\ \/ admitted' = admitted /\ anon'.count = c
           \/ /\ c < AnonLimit /\ anon'.count = c + 1
              /\ admitted' = admitted \/ \E s : admitted' = admitted \cup {<<w, s>>}
        /\ latest' = Greater(latest, w)
        /\ reopened' = reopened \cup IF w < latest THEN w .. latest ELSE {}
    BY <1>1, <1>4, <2>1, UnverifiedAdmits
  <2>3. w \in Nat
    BY <1>1, TimesType, LimitAssumption DEF WindowOf
  <2>4. c \in Nat /\ (anon.window = w => c = anon.count)
    BY <1>1 DEF Admitted, IInv, TypeOK
  <2> HIDE DEF w, c
  <2>5. /\ latest' \in Nat
        /\ \A t \in admitted' : t[1] \in Nat /\ t[1] <= latest'
        /\ \A v \in Nat : IsFiniteSet(In(admitted', v))
        /\ \A v \in Nat \ reopened' : Cardinality(In(admitted', v)) <= AnonLimit
        /\ latest' \notin reopened' =>
             anon'.window = latest' /\ Cardinality(In(admitted', latest')) <= anon'.count
    BY <2>2, <2>3, <2>4, WindowCounted
  <2> QED BY <1>2, <2>5 DEF AnonInv
<1>5. CASE UNCHANGED auditVars
  BY <1>3, <1>5 DEF auditVars, anonBooks
<1>6. CASE AuditNext
  <2>1. CASE (Tick \/ Publish) /\ UNCHANGED <<books, anonBooks>>
    BY <1>3, <2>1 DEF Tick, Publish
  <2>2. ASSUME NEW now \in Times, VerifiedCall(now), UNCHANGED anonBooks PROVE AnonInv'
    BY <1>3, <2>2, VerifiedQuiet
  <2> QED BY <1>4, <1>6, <2>1, <2>2 DEF AuditNext
<1> QED BY <1>5, <1>6

\* "A new anonymous request cannot create any reservation after the shared window
\* is full" (BudgetCoordinatorDO.ts), for any limit and window, however late calls
\* arrive: a replay is not counted, and is granted nothing.  The object keeps the
\* count of one window only; a window whose reservations it handled before or after
\* those of an earlier one, out of order, is not bound.  Callers do not use an
\* identity again that the ingress ledger has forgotten.
THEOREM AnonymousWithinLimit ==
  ASSUME ~StaleRetries
  PROVE  AuditSpec => []AnonWithinLimit
<1>1. AnonInv => AnonWithinLimit
  BY DEF AnonInv, AnonWithinLimit, AdmittedIn, In
<1> QED BY <1>1, InitAnon, StepAnon, PTL DEF AuditSpec
=============================================================================
