---------------------------- MODULE GrantJournal ----------------------------
(***************************************************************************)
(* What D1 keeps of the operations paid for by prepaid grants:             *)
(* src/apps/server/src/repositories/budget-commit-fence.ts and             *)
(* budget-grant-closure.repository.ts.  A canonical batch writes its       *)
(* business rows, its replay receipt and one link from the operation to    *)
(* the reservation that paid for it.  A closure is the durable proof that  *)
(* a reservation is linked to an exact set of operations and will never be *)
(* linked to another.                                                      *)
(*                                                                         *)
(* Abstractions.  A reservation and its holder are the reservation's       *)
(* number.  The evidence id of a closure is determined by the reservation: *)
(* a holder is sealed once.  Replay receipts do not expire here.           *)
(***************************************************************************)
EXTENDS Integers, FiniteSets

NewJournal == [links |-> {}, closures |-> {}, done |-> {}, receipts |-> {}]

\* The operations linked to reservation s.
Linked(J, s) == {t[2] : t \in {u \in J.links : u[1] = s}}

ClosuresOf(J, s) == {c \in J.closures : c.seq = s}

\* The batch asserts that its reservation is not closed, and a unique receipt
\* rolls back the loser of two batches for one operation.
Accepts(J, s, op) == ClosuresOf(J, s) = {} /\ op \notin J.receipts

\* "done" stands for the business rows: unlike the links they are never pruned.
CommitBatch(J, s, op) ==
  [J EXCEPT !.links = @ \cup {<<s, op>>}, !.done = @ \cup {<<s, op>>},
            !.receipts = @ \cup {op}]

Closure(s, ops, until) == [seq |-> s, ops |-> ops, until |-> until, reconciled |-> FALSE]

\* An existing closure must be the same one; a new one is inserted only if the
\* reservation still has as many links as were read.
Closeable(J, s, ops, until) ==
  IF ClosuresOf(J, s) # {}
  THEN \A c \in ClosuresOf(J, s) : c.ops = ops /\ c.until = until
  ELSE Cardinality(Linked(J, s)) = Cardinality(ops)

InsertClosure(J, s, ops, until) ==
  IF ClosuresOf(J, s) # {} THEN J
  ELSE [J EXCEPT !.closures = @ \cup {Closure(s, ops, until)}]

MarkReconciled(J, s, until) ==
  [J EXCEPT !.closures =
     {IF c.seq = s /\ c.until = until THEN [c EXCEPT !.reconciled = TRUE] ELSE c :
        c \in J.closures}]

Prunable(J, now) == {c \in J.closures : c.reconciled /\ now >= c.until}

\* At most two closures, the earliest first, with their links.
PruneJournal(J, now) ==
  LET ripe == Prunable(J, now)
      older(c) == {d \in ripe : d.until < c.until \/ (d.until = c.until /\ d.seq < c.seq)}
      gone == {c \in ripe : Cardinality(older(c)) < 2}
      seqs == {c.seq : c \in gone}
  IN [J EXCEPT !.closures = @ \ gone, !.links = {t \in @ : t[1] \notin seqs}]

=============================================================================
