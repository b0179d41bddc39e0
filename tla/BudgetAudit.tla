---------------------------- MODULE BudgetAudit ----------------------------
(***************************************************************************)
(* An auditor beside the coordinator.  It keeps the last charge of every   *)
(* grant ever issued, unit by unit, and forgets none when the coordinator  *)
(* compacts or prunes; and it counts every unverified admission.  It       *)
(* changes nothing: the properties compare the coordinator's own accounts  *)
(* with the auditor's books.                                               *)
(***************************************************************************)
EXTENDS OwnerAggregate

VARIABLES
  spent,      \* units charged: <<ledger, grant, unit, account, purpose>>
  admitted,   \* unverified admissions: <<window, grant>>
  heard,      \* the latest time a call carried
  overtaken,  \* allocations a late call was granted something of
  latest,     \* the latest window an unverified reservation fell in
  reopened    \* windows an unverified reservation of an earlier one came after

books == <<spent, heard, overtaken>>
anonBooks == <<admitted, latest, reopened>>
auditVars == <<clock, published, agg, anon, spent, admitted, heard, overtaken, latest, reopened>>

\* The units grant g of ledger l is charged for.
UnitsOf(l, g) ==
  UNION {{<<l, g.seq, u, Account(a), g.purpose>> : u \in 1 .. g.accounted[AllocInfo[a].dim]} :
           a \in Refs(g)}

Book ==
  spent' = {t \in spent : \A g \in agg'.ledger[t[1]].grants : g.seq # t[2]}
           \cup UNION {UNION {UnitsOf(l, g) : g \in agg'.ledger[l].grants} : l \in Ledgers}

Greater(s, t) == IF s < t THEN t ELSE s

\* A call of time now that is granted something, after calls made once an
\* allocation had ended, although at its own time the allocation was running.
Hear(now) ==
  /\ heard' = Greater(heard, now)
  /\ overtaken' = overtaken \cup
       {a \in Allocs : /\ ~AllocInfo[a].stock
                       /\ now < AllocInfo[a].endsAt /\ AllocInfo[a].endsAt <= heard
                       /\ \E l \in Ledgers : Granted(agg, agg', l)}

\* A fresh unverified admission is the ingress grant that moved the count.
Count(now) ==
  LET w == now \div AnonWindow
  IN /\ admitted' = IF Granted(agg, agg', Ingress)
                    THEN admitted \cup {<<w, agg.ledger[Ingress].next>>}
                    ELSE admitted
     /\ latest' = Greater(latest, w)
     /\ reopened' = reopened \cup IF w < latest THEN w .. latest ELSE {}

AuditInit ==
  /\ Init
  /\ spent = {} /\ heard = 0 /\ overtaken = {}
  /\ admitted = {} /\ latest = 0 /\ reopened = {}

AuditNext ==
  \/ (Tick \/ Publish) /\ UNCHANGED <<books, anonBooks>>
  \/ \E now \in Times :
       /\ \/ VerifiedCall(now) /\ UNCHANGED anonBooks
          \/ UnverifiedCall(now) /\ Count(now)
       /\ Book /\ Hear(now)

AuditSpec == AuditInit /\ [][AuditNext]_auditVars

-----------------------------------------------------------------------------

SpentOn(a, p) == {t \in spent : t[4] = Account(a) /\ t[5] = p}

Current(a) == AllocInfo[a].stock \/ heard < AllocInfo[a].endsAt

\* What a ledger believes is charged on a running allocation is what its
\* grants were really charged: no compaction, pruning, expiry or handoff loses
\* a unit or counts one twice.
ChargesMatchAudit ==
  \A l \in Ledgers, p \in Purposes : \A a \in ActiveAllocs(agg.ledger[l]) :
    Current(a) => Charged(agg.ledger[l], a, p) = Cardinality({t \in SpentOn(a, p) : t[1] = l})

OwnerLimitOf(a, p) ==
  {Authority[r].policies[Ingress].budgets[AllocInfo[a].dim].limit[p] : r \in Revisions}

TenantLimitOf(l, a, p) ==
  {Authority[r].policies[l].budgets[AllocInfo[a].dim].limit[p] : r \in Revisions}

\* Over the life of an allocation, everything ever charged to it, by every
\* tenant together and by each alone, stays within the largest limit the owner
\* ever published, unless evidence reported an overrun, or a call was granted
\* something of an interval that had ended for the calls before it.
CeilingHolds ==
  Defective(agg) \/
  \A a \in Allocs \ overtaken, p \in Purposes :
    /\ \E n \in OwnerLimitOf(a, p) : Cardinality(SpentOn(a, p)) <= n
    /\ \A l \in Ledgers : \E n \in TenantLimitOf(l, a, p) :
         Cardinality({t \in SpentOn(a, p) : t[1] = l}) <= n

AdmittedIn(w) == {t \in admitted : t[1] = w}

\* "A new anonymous request cannot create any reservation after the shared
\* window is full" (BudgetCoordinatorDO.ts), unless reservations of this window
\* and of another came out of order, so that its count was forgotten.
AnonWithinLimit ==
  \A w \in {t[1] : t \in admitted} \ reopened : Cardinality(AdmittedIn(w)) <= AnonLimit

=============================================================================
