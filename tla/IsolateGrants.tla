--------------------------- MODULE IsolateGrants ---------------------------
(***************************************************************************)
(* What one Worker isolate keeps in memory for one admission scope: an     *)
(* entry of src/apps/server/src/budgets/isolate-admission.service.ts and   *)
(* the holders (isolate-grant-holder.ts) of the prepaid blocks allocated   *)
(* for it.  The operators below are the synchronous parts of that code:    *)
(* JavaScript runs each of them without interruption.                      *)
(*                                                                         *)
(* Abstractions.  An authority is [rev, at, exp]: the D1 revision, when    *)
(* the read began, and when the lease ends; a revision stands for every    *)
(* policy field of the epoch and of the source snapshot.  A holder's       *)
(* balance is counted in operations: the control cost of an operation has  *)
(* no cold part, so a block of k operations pays for exactly k.            *)
(***************************************************************************)
EXTENDS Integers, FiniteSets

CONSTANTS
  Ops,            \* operations (operation id and fingerprint)
  OpAttempts,     \* MAX_ISOLATE_OPERATION_ATTEMPTS
  MaxRefills,     \* MAX_ISOLATE_SCOPE_REFILLS
  MaxRecoveries,  \* MAX_ISOLATE_GRANT_RECOVERY_ATTEMPTS
  IdleMs          \* API_GRANT_IDLE_SEAL_MS

ASSUME IsolateAssumption ==
  /\ IsFiniteSet(Ops)
  /\ OpAttempts \in Nat \ {0} /\ MaxRefills \in Nat \ {0}
  /\ MaxRecoveries \in Nat \ {0} /\ IdleMs \in Nat \ {0}

OpStates == {"none", "in-flight", "committed", "unknown"}
HeldOperation == [tries : 0 .. OpAttempts, active : 0 .. OpAttempts, state : OpStates]

\* settled is -1 until an operation was settled as committed.
Holder == [n : Nat \ {0}, seq : Nat \ {0}, size : Nat \ {0}, rev : Nat \ {0},
           until : Nat, checked : Nat, retired : BOOLEAN, sealed : BOOLEAN,
           recoveries : 0 .. MaxRecoveries, settled : Int,
           ops : [Ops -> HeldOperation]]

Entry == [live : BOOLEAN, gen : Nat, blocked : BOOLEAN, refills : 0 .. MaxRefills,
          rev : Nat, until : Nat, checked : Nat, floor : Nat, first : Nat,
          pending : Nat, route : [Ops -> Nat], holders : SUBSET Holder]

NoEntry ==
  [live |-> FALSE, gen |-> 0, blocked |-> FALSE, refills |-> 0, rev |-> 0, until |-> 0,
   checked |-> 0, floor |-> 0, first |-> 0, pending |-> 0,
   route |-> [o \in Ops |-> 0], holders |-> {}]

\* The next holder allocated for the entry has number first.
NewEntry(auth, until, first) ==
  [NoEntry EXCEPT !.live = TRUE, !.rev = auth.rev, !.until = until,
                  !.checked = auth.at, !.floor = auth.rev, !.first = first]

HolderOf(E, n) == {h \in E.holders : h.n = n}
Latest(E) == {h \in E.holders : \A k \in E.holders : k.n <= h.n}
ReplaceHolder(E, h) == [E EXCEPT !.holders = {k \in @ : k.n # h.n} \cup {h}]
Operations(h) == {o \in Ops : h.ops[o].tries > 0}

-----------------------------------------------------------------------------
(* The entry: retirement, renewal, what it has observed.                   *)

RetireEntry(E) ==
  [E EXCEPT !.gen = IF E.blocked THEN @ ELSE @ + 1, !.blocked = TRUE,
            !.holders = {[h EXCEPT !.retired = TRUE] : h \in @}]

\* A replacement generation keeps the refills and the floor, and no balance.
RenewEntry(E, auth, until) ==
  [E EXCEPT !.rev = auth.rev, !.checked = auth.at,
            !.until = IF until > @ THEN until ELSE @,
            !.holders = {}, !.route = [o \in Ops |-> 0], !.blocked = FALSE]

CurrentGeneration(E, gen) == ~E.blocked /\ E.gen = gen

\* Mutant of Observable: an older revision is accepted again.
ObservableByTime(E, auth) == auth.at >= E.checked

Observable(E, auth) == auth.at >= E.checked /\ auth.rev >= E.floor

Observed(E, auth) == [E EXCEPT !.checked = auth.at, !.floor = auth.rev]

-----------------------------------------------------------------------------
(* The holder.                                                             *)

NewHolder(n, size, auth, seq, until) ==
  [n |-> n, seq |-> seq, size |-> size, rev |-> auth.rev, until |-> until,
   checked |-> auth.at, retired |-> FALSE, sealed |-> FALSE, recoveries |-> 0,
   settled |-> -1,
   ops |-> [o \in Ops |-> [tries |-> 0, active |-> 0, state |-> "none"]]]

\* Outcome of spending operation o on holder h at time now.
Outcome(h, o, auth, now) ==
  CASE h.sealed -> "exhausted"
    [] ~h.sealed /\ (h.retired \/ auth.at < h.checked \/ now >= auth.exp
                     \/ auth.rev # h.rev \/ now >= h.until) -> "stale"
    [] OTHER ->
       CASE h.ops[o].tries >= OpAttempts -> "replay-exhausted"
         [] h.ops[o].tries \in 1 .. OpAttempts - 1 -> "idempotent"
         [] h.ops[o].tries = 0 /\ Cardinality(Operations(h)) >= h.size -> "exhausted"
         [] OTHER -> "spent"

\* The balance is taken and the attempt counted before any further await.  A
\* current holder found under another epoch or past its expiry is invalidated.
Spend(h, o, auth, now) ==
  LET outcome == Outcome(h, o, auth, now)
      prior == h.ops[o]
  IN CASE outcome \in {"spent", "idempotent"} ->
            [h EXCEPT !.checked = auth.at,
                      !.ops[o] = [tries |-> prior.tries + 1, active |-> prior.active + 1,
                                  state |-> IF prior.state = "unknown" THEN "unknown"
                                            ELSE "in-flight"]]
       [] outcome = "stale" ->
            [h EXCEPT !.retired = @ \/ (auth.at >= h.checked /\ now < auth.exp)]
       [] OTHER -> IF h.sealed THEN h ELSE [h EXCEPT !.checked = auth.at]

\* Mutant of SettleHolder: one settled attempt settles the operation.
SettleHolderEarly(h, o, outcome, now) ==
  IF outcome = "unknown"
  THEN [h EXCEPT !.ops[o].active = @ - 1, !.ops[o].state = "unknown"]
  ELSE [h EXCEPT !.ops[o] = [@ EXCEPT !.active = 0, !.state = "committed"], !.settled = now]

\* settleOperation, once per admitted attempt, on a holder that is not sealed.
\* An operation is committed when its last attempt is; an unknown result
\* poisons it for good.
SettleHolder(h, o, outcome, now) ==
  LET left == h.ops[o].active - 1
      op == [h.ops[o] EXCEPT !.active = left]
  IN IF outcome = "unknown"
     THEN [h EXCEPT !.ops[o] = [op EXCEPT !.state = "unknown"]]
     ELSE IF op.state = "in-flight" /\ left = 0
     THEN [h EXCEPT !.ops[o] = [op EXCEPT !.state = "committed"], !.settled = now]
     ELSE [h EXCEPT !.ops[o] = op]

SettleEntry(E, n, o, outcome, now) ==
  [E EXCEPT !.holders = {IF h.n = n /\ ~h.sealed THEN SettleHolder(h, o, outcome, now) ELSE h :
                           h \in @}]

-----------------------------------------------------------------------------
(* Sealing.                                                                *)

Quiescent(h, now) ==
  /\ ~h.sealed
  /\ Operations(h) # {}
  /\ h.settled >= 0 /\ now - h.settled >= IdleMs
  /\ \A o \in Operations(h) : h.ops[o].state = "committed" /\ h.ops[o].active = 0

Retryable(h) == h.sealed /\ h.recoveries < MaxRecoveries

\* sealIdleApiGrant: the first holder, unexpired, to seal or to try again.
SealTargets(E, now) ==
  LET open == {h \in E.holders : now < h.until /\ (Retryable(h) \/ Quiescent(h, now))}
  IN {h \in open : \A k \in open : h.n <= k.n}

SealHolder(E, h) ==
  ReplaceHolder(E, [h EXCEPT !.sealed = TRUE, !.recoveries = @ + 1])

\* hasBlockedApiGrantRecovery.
BlockedRecovery(E, now) ==
  \E h \in E.holders : now < h.until /\ h.sealed /\ h.recoveries >= MaxRecoveries

\* Mutant of CompleteRecovery: a second completion returns a second credit.
CompleteTwice(E, n) ==
  [E EXCEPT !.holders = @ \ HolderOf(E, n),
            !.route = [o \in Ops |-> IF @[o] = n THEN 0 ELSE @[o]],
            !.refills = IF @ > 0 THEN @ - 1 ELSE 0]

\* completeApiGrantRecovery: the holder goes, once, and returns one credit.
CompleteRecovery(E, n) ==
  IF HolderOf(E, n) = {} THEN E
  ELSE [E EXCEPT !.holders = @ \ HolderOf(E, n),
                 !.route = [o \in Ops |-> IF @[o] = n THEN 0 ELSE @[o]],
                 !.refills = IF @ > 0 THEN @ - 1 ELSE 0]

=============================================================================
