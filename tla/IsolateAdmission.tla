-------------------------- MODULE IsolateAdmission --------------------------
(***************************************************************************)
(* The life of an API ticket mutation's budget, end to end: one isolate    *)
(* admits attempts from prepaid blocks (isolate-admission.service.ts), the *)
(* canonical batch in D1 links each paid operation                         *)
(* (ticket-mutation-replay.service.ts, module GrantJournal), an idle block *)
(* is sealed, its links are closed and the coordinator is told             *)
(* (budget-grant-recovery.service.ts).  The coordinator is the one of      *)
(* module OwnerAggregate, serving tenant 1.                                *)
(*                                                                         *)
(* An action is what runs between two awaits.  A read of D1 that an await  *)
(* waits for returns some revision that was current between the call and   *)
(* the continuation.  An RPC executes at the coordinator in one action,    *)
(* which may lose the answer; what the isolate does with the answer may    *)
(* come later.  The isolate may be evicted at any time, and then every     *)
(* attempt in it is gone, but not a batch that is already on its way to D1.*)
(*                                                                         *)
(* Left out: several scopes in one isolate and the recovery of one by      *)
(* another, recovery on the cold path, and the ingress handoff.            *)
(***************************************************************************)
EXTENDS OwnerAggregate, IsolateGrants, GrantJournal

CONSTANTS
  Attempts,      \* HTTP attempts
  OpOf,          \* the operation each attempt carries
  BlockSize,     \* MAX_ISOLATE_BLOCK_OPERATIONS
  OpCost,        \* isolateWarmReservedEnvelope of one operation
  ColdCost,      \* ISOLATE_COLD_ENVELOPE
  RecoveryCost,  \* API_GRANT_CLOSURE_RECOVERY_ENVELOPE
  MaxHolders,    \* bound on the blocks asked for
  FaultPlans     \* how many answers are lost, isolates evicted, authorities
                 \* published and operations won by others in one behaviour

ASSUME AdmissionAssumption ==
  /\ NumTenants = 1
  /\ OpOf \in [Attempts -> Ops]
  /\ BlockSize \in Nat \ {0}
  /\ OpCost \in Amounts /\ ColdCost \in Amounts /\ RecoveryCost \in Amounts
  /\ MaxHolders \in Nat
  /\ (1 .. MaxHolders) \X (0 .. BlockSize) \subseteq Keys
  /\ FaultPlans \subseteq [losses : Nat, evictions : Nat, edits : Nat, rivals : Nat]

VARIABLES
  d1,        \* the journal of module GrantJournal
  flight,    \* canonical batches sent to D1 and not executed yet
  entry,     \* the isolate's entry for the scope
  alloc,     \* its allocation in progress
  call,      \* where each attempt is
  issued,    \* how many blocks were asked for
  faults     \* what may still go wrong

admissionVars == <<d1, flight, entry, alloc, call, issued, faults>>
allVars == <<vars, admissionVars>>

\* The envelope of a block that pays for k operations.
Envelope(k) == [d \in Dims |-> k * OpCost[d] + ColdCost[d]]

\* selectIsolateBlockSize.
Sizes(r) ==
  {k \in 1 .. BlockSize : \A l \in Ledgers, d \in Dims :
     Envelope(k)[d] <= Authority[r].policies[l].budgets[d].limit["new-work"]}

\* When the last running interval of authority r ends.
IntervalEnd(r) ==
  LET ends == {AllocInfo[Authority[r].policies[1].budgets[d].alloc] : d \in Dims}
      until == {w.endsAt : w \in {v \in ends : ~v.stock}}
  IN IF until = {} THEN MaxTime + 1 ELSE Earliest(until)

NoAlloc == [stage |-> "none", n |-> 0, gen |-> 0, auth |-> [rev |-> 0, at |-> 0, exp |-> 0],
            size |-> 0, try |-> 0, seq |-> 0, until |-> 0]

\* at and lo: when the read under way began and the revision then current.
NewCall == [pc |-> "new", at |-> 0, lo |-> 0, gen |-> -1, pend |-> 0, hold |-> 0,
            seq |-> 0, rev |-> 0, exp |-> 0, ops |-> {}, rseq |-> 0]
Finished == [NewCall EXCEPT !.pc = "done"]

In(pcs) == {a \in Attempts : call[a].pc \in pcs}

CallStates == {"new", "recover", "rec-refresh", "rec-reserve", "rec-read", "rec-close",
               "rec-reconcile", "rec-mark", "resolve", "wait", "woken", "resolve2",
               "admitted", "commit", "ok", "failed", "done"}

AdmissionInit ==
  /\ Init
  /\ d1 = NewJournal /\ flight = {}
  /\ entry = NoEntry /\ alloc = NoAlloc
  /\ call = [a \in Attempts |-> NewCall]
  /\ issued = 0 /\ faults \in FaultPlans

Goto(a, c) == call' = [call EXCEPT ![a] = c]
Finish(a) == Goto(a, Finished)

\* An answer is lost, or the call never reached the other side.
Lost == faults.losses > 0 /\ faults' = [faults EXCEPT !.losses = @ - 1]
Answered == UNCHANGED faults

\* What a read begun in state c of a call may return: a revision, or 0 for no
\* usable authority (revoked, or the read failed).
ReadAuthority(c) ==
  {r \in c.lo .. Len(published) : ~Authority[r].revoked} \cup {0}

AuthOf(c, r) == [rev |-> r, at |-> c.at, exp |-> c.at + MaxAge]

-----------------------------------------------------------------------------
(* Admission: admit().                                                     *)

\* Attempts whose lease keeps the entry registered (activeAdmissions).
Leasing ==
  In({"wait", "woken", "resolve2"}) \cup {a \in In({"resolve"}) : call[a].gen # -1}

\* The expiry sweep: an entry past its horizon is retired, and kept only while
\* something still runs on it.
Swept(E) ==
  IF ~E.live \/ clock < E.until THEN E
  ELSE IF E.pending # 0 \/ Leasing # {} THEN RetireEntry(E)
  ELSE NoEntry

Resolving(a, pc, c) == Goto(a, [c EXCEPT !.pc = pc, !.at = clock, !.lo = Len(published)])

\* Entering admit() with the entry in state E.
StartAdmit(a, E) ==
  IF BlockedRecovery(E, clock)
  THEN entry' = E /\ Finish(a)
  ELSE /\ entry' = Swept(E)
       /\ Resolving(a, "resolve",
            [NewCall EXCEPT !.gen = IF Swept(E).live THEN Swept(E).gen ELSE -1])

\* admitApiBudget: a known receipt is replayed; an idle block is sealed and
\* recovered before anything is admitted.
Begin(a) ==
  /\ call[a].pc = "new"
  /\ \/ /\ OpOf[a] \in d1.receipts
        /\ Finish(a) /\ UNCHANGED entry
     \/ /\ OpOf[a] \notin d1.receipts
        /\ SealTargets(entry, clock) = {}
        /\ StartAdmit(a, entry)
     \/ /\ OpOf[a] \notin d1.receipts
        /\ \E h \in SealTargets(entry, clock) :
             /\ entry' = SealHolder(entry, h)
             /\ Resolving(a, "recover",
                  [NewCall EXCEPT !.hold = h.n, !.seq = h.seq, !.rev = h.rev,
                                  !.exp = h.until, !.ops = Operations(h)])
  /\ UNCHANGED <<vars, d1, flight, alloc, issued, faults>>

\* Spending on holder h of entry E.
AdmittedOn(h) == [NewCall EXCEPT !.pc = "admitted", !.hold = h.n, !.seq = h.seq, !.rev = h.rev]

Deliver(a, E, h, auth) ==
  LET outcome == Outcome(h, OpOf[a], auth, clock)
      paid == ReplaceHolder(E, Spend(h, OpOf[a], auth, clock))
  IN /\ entry' = IF outcome = "spent" THEN [paid EXCEPT !.route[OpOf[a]] = h.n] ELSE paid
     /\ IF outcome \in {"spent", "idempotent"}
        THEN Goto(a, [AdmittedOn(h) EXCEPT !.exp = IF h.until < auth.exp THEN h.until ELSE auth.exp])
        ELSE Finish(a)

\* The latest holder cannot pay: a new block is worth asking for.
Dry(h, o, auth) ==
  \/ Outcome(h, o, auth, clock) = "exhausted"
  \/ Outcome(h, o, auth, clock) = "stale" /\ clock >= h.until

\* Waiting for a block: the one on its way, or a new one within the refills.
Await(a, E, auth) ==
  IF E.pending # 0
  THEN /\ entry' = E
       /\ Goto(a, [NewCall EXCEPT !.pc = "wait", !.gen = E.gen, !.pend = E.pending])
       /\ UNCHANGED <<alloc, issued>>
  ELSE IF E.refills >= MaxRefills
  THEN entry' = E /\ Finish(a) /\ UNCHANGED <<alloc, issued>>
  ELSE IF Sizes(auth.rev) = {}
  THEN entry' = [E EXCEPT !.refills = @ + 1] /\ Finish(a) /\ UNCHANGED <<alloc, issued>>
  ELSE /\ issued < MaxHolders
       /\ issued' = issued + 1
       /\ entry' = [E EXCEPT !.refills = @ + 1, !.pending = issued + 1]
       /\ alloc' = [NoAlloc EXCEPT !.stage = "refresh", !.n = issued + 1, !.gen = E.gen,
                      !.auth = auth, !.try = 1,
                      !.size = CHOOSE k \in Sizes(auth.rev) : \A j \in Sizes(auth.rev) : j <= k]
       /\ Goto(a, [NewCall EXCEPT !.pc = "wait", !.gen = E.gen, !.pend = issued + 1])

\* The part of admit() after its first await, on an entry of the right epoch.
AdmitOn(a, E, auth) ==
  LET routed == HolderOf(E, E.route[OpOf[a]])
      latest == IF routed # {} THEN {} ELSE Latest(E)
      dry == {h \in latest : Dry(h, OpOf[a], auth)}
  IN \/ \E h \in routed \cup (latest \ dry) :
          Deliver(a, E, h, auth) /\ UNCHANGED <<alloc, issued>>
     \/ \E h \in dry : Await(a, ReplaceHolder(E, Spend(h, OpOf[a], auth, clock)), auth)
     \/ routed = {} /\ latest = {} /\ Await(a, E, auth)

\* admit() finds the entry again, and judges what it read against it.
Judge(a, E, auth) ==
  LET seen == Observed(E, auth)
      renewed == RenewEntry(seen, auth, IntervalEnd(auth.rev))
  IN \/ /\ ~Observable(E, auth)
        /\ entry' = E /\ Finish(a) /\ UNCHANGED <<alloc, issued>>
     \/ /\ Observable(E, auth) /\ E.blocked
        /\ IF E.pending # 0 \/ E.refills >= MaxRefills
           THEN entry' = seen /\ Finish(a) /\ UNCHANGED <<alloc, issued>>
           ELSE AdmitOn(a, renewed, auth)
     \/ /\ Observable(E, auth) /\ ~E.blocked
        /\ IF E.rev = auth.rev
           THEN AdmitOn(a, seen, auth)
           ELSE entry' = RetireEntry(seen) /\ Finish(a) /\ UNCHANGED <<alloc, issued>>

Resolve(a) ==
  LET c == call[a]
      replaced == entry.live /\ c.gen # -1 /\ c.gen # entry.gen
  IN /\ c.pc = "resolve"
     /\ \/ /\ replaced
           /\ Finish(a) /\ UNCHANGED <<entry, alloc, issued>>
        \/ /\ ~replaced
           /\ \E r \in ReadAuthority(c) :
                IF r = 0
                THEN /\ entry' = IF entry.live THEN RetireEntry(entry) ELSE entry
                     /\ Finish(a) /\ UNCHANGED <<alloc, issued>>
                ELSE IF entry.live
                THEN Judge(a, entry, AuthOf(c, r))
                ELSE AdmitOn(a, NewEntry(AuthOf(c, r), IntervalEnd(r), issued + 1), AuthOf(c, r))
     /\ UNCHANGED <<vars, d1, flight, faults>>

-----------------------------------------------------------------------------
(* Allocation: allocate().                                                 *)

\* Everyone waiting for the allocation wakes, with holder n or with none (0).
WakeAll(n) ==
  /\ alloc' = NoAlloc
  /\ call' = [a \in Attempts |->
       IF call[a].pc = "wait" /\ call[a].pend = alloc.n
       THEN [call[a] EXCEPT !.pc = "woken", !.hold = n] ELSE call[a]]

\* Only the same holder and identity is retried, and only once.
Retry ==
  IF alloc.try = 1
  THEN alloc' = [alloc EXCEPT !.stage = "refresh", !.try = 2] /\ UNCHANGED call
  ELSE WakeAll(0)

AllocOpen == CurrentGeneration(entry, alloc.gen)

AllocRefresh ==
  /\ alloc.stage = "refresh"
  /\ \/ /\ ~AllocOpen \/ clock >= alloc.auth.exp
        /\ WakeAll(0) /\ Answered /\ UNCHANGED vars
     \/ /\ AllocOpen /\ clock < alloc.auth.exp
        /\ RefreshRPC(alloc.auth.rev, alloc.auth.at)
        /\ \/ alloc' = [alloc EXCEPT !.stage = "reserve"] /\ Answered /\ UNCHANGED call
           \/ Retry /\ Lost
     \/ /\ AllocOpen /\ clock < alloc.auth.exp
        /\ Retry /\ UNCHANGED vars
        /\ IF Renewable(agg, alloc.auth.rev, alloc.auth.at) THEN Lost ELSE Answered
  /\ UNCHANGED <<d1, flight, entry, issued>>

BlockRequest ==
  [key |-> <<alloc.n, alloc.size>>, purpose |-> "new-work", envelope |-> Envelope(alloc.size),
   recovers |-> 0, policy |-> Authority[alloc.auth.rev].policies[1].revision,
   restriction |-> Authority[alloc.auth.rev].policies[1].restriction, now |-> clock]

\* The grant a reservation call delivered: a new one or one delivered again.
Delivered(key) ==
  {g \in agg'.ledger[1].grants :
     g.key = key /\ \A h \in agg.ledger[1].grants : h.seq = g.seq => h.attempts # g.attempts}

\* The coordinator answers "exhausted": what it lacks are units or time.
Exhausted(req) ==
  \A S \in RetireExpired(agg, req.now) :
    LET E == ExpireAll(S, req.now)
    IN /\ LeaseHeld(S, req.now) /\ ~Stale(S.ledger[1], req) /\ Prior(S.ledger[1], req) = {}
       /\ ~Defective(S) /\ OwnerSlotFree(E, req) /\ SlotFree(E.ledger[1], req)
       /\ ~(OwnerAffordable(E, 1, req) /\ Grantable(E.ledger[1], req))

\* An exhausted block is asked for again as a block of one.
AllocReserve ==
  /\ alloc.stage = "reserve"
  /\ \/ /\ ~AllocOpen
        /\ WakeAll(0) /\ Answered /\ UNCHANGED vars
     \/ /\ AllocOpen
        /\ ReserveRPC(1, BlockRequest)
        /\ \/ /\ Answered
              /\ \/ \E g \in Delivered(BlockRequest.key) :
                      /\ alloc' = [alloc EXCEPT !.stage = g.status, !.seq = g.seq,
                                                !.until = g.expiresAt]
                      /\ UNCHANGED call
                 \/ /\ Delivered(BlockRequest.key) = {}
                    /\ IF Exhausted(BlockRequest) /\ alloc.size > 1
                       THEN /\ alloc' = [alloc EXCEPT !.stage = "refresh", !.size = 1, !.try = 1]
                            /\ UNCHANGED call
                       ELSE WakeAll(0)
           \/ Retry /\ Lost
     \/ AllocOpen /\ Retry /\ Lost /\ UNCHANGED vars
  /\ UNCHANGED <<d1, flight, entry, issued>>

\* The grant arrives.  It is installed only into the generation that asked for
\* it, while the authority that asked is current.
AllocInstall ==
  LET fits == /\ AllocOpen
              /\ alloc.stage = "reserved"
              /\ clock < alloc.auth.exp /\ clock < alloc.until
  IN /\ alloc.stage \in Statuses
     /\ entry' = IF fits
                 THEN [entry EXCEPT !.holders = @ \cup
                         {NewHolder(alloc.n, alloc.size, alloc.auth, alloc.seq, alloc.until)}]
                 ELSE entry
     /\ WakeAll(IF fits THEN alloc.n ELSE 0)
     /\ UNCHANGED <<vars, d1, flight, issued, faults>>

\* A waiting attempt continues; the first to do so clears the allocation.  It
\* then checks its own credentials and authority again.
Woken(a) ==
  LET c == call[a]
  IN /\ c.pc = "woken"
     /\ entry' = IF entry.pending = c.pend THEN [entry EXCEPT !.pending = 0] ELSE entry
     /\ IF c.hold = 0 THEN Finish(a) ELSE Resolving(a, "resolve2", c)
     /\ UNCHANGED <<vars, d1, flight, alloc, issued, faults>>

\* A holder that was recovered meanwhile is sealed and pays for nothing.
ResolveAgain(a) ==
  LET c == call[a]
  IN /\ c.pc = "resolve2"
     /\ \/ ~CurrentGeneration(entry, c.gen) /\ Finish(a) /\ UNCHANGED entry
        \/ /\ CurrentGeneration(entry, c.gen)
           /\ \E r \in ReadAuthority(c) :
                IF r = 0
                THEN entry' = RetireEntry(entry) /\ Finish(a)
                ELSE LET auth == AuthOf(c, r)
                         seen == Observed(entry, auth)
                     IN IF ~Observable(entry, auth)
                        THEN UNCHANGED entry /\ Finish(a)
                        ELSE IF entry.rev # r
                        THEN entry' = RetireEntry(seen) /\ Finish(a)
                        ELSE \/ \E h \in HolderOf(seen, c.hold) : Deliver(a, seen, h, auth)
                             \/ HolderOf(seen, c.hold) = {} /\ entry' = seen /\ Finish(a)
     /\ UNCHANGED <<vars, d1, flight, alloc, issued, faults>>

-----------------------------------------------------------------------------
(* The canonical commit: TicketMutationReplayService.commit.               *)

\* Mutant of Settled: the attempt goes on to its error path and settles again.
SettledAgain(a, outcome) ==
  /\ entry' = SettleEntry(entry, call[a].hold, OpOf[a], outcome, clock)
  /\ Goto(a, IF call[a].pc = "failed" THEN Finished ELSE [call[a] EXCEPT !.pc = "failed"])

\* Attempt a is over; its share of the operation is settled.
Settled(a, outcome) ==
  /\ entry' = SettleEntry(entry, call[a].hold, OpOf[a], outcome, clock)
  /\ Finish(a)

\* Before the batch is sent: another attempt may have won; the authority may
\* have expired, or the attempt may die, and then nothing is ever settled.
SendBatch(a) ==
  /\ call[a].pc = "admitted"
  /\ \/ OpOf[a] \in d1.receipts /\ Settled(a, "committed") /\ UNCHANGED flight
     \/ Finish(a) /\ UNCHANGED <<flight, entry>>
     \/ /\ OpOf[a] \notin d1.receipts /\ clock < call[a].exp
        /\ flight' = flight \cup {[attempt |-> a, seq |-> call[a].seq, rev |-> call[a].rev,
                                   exp |-> call[a].exp]}
        /\ Goto(a, [call[a] EXCEPT !.pc = "commit"])
        /\ UNCHANGED entry
  /\ UNCHANGED <<vars, d1, alloc, issued, faults>>

\* budgetCommitConstraint: the admitted policy is still the one D1 holds.
Fenced(b) ==
  b.rev = Len(published) /\ ~Authority[b.rev].revoked /\ clock < b.exp

\* D1 executes the batch, all or nothing, whoever still waits for the answer.
ExecuteBatch(b) ==
  LET a == b.attempt
      lands == Fenced(b) /\ Accepts(d1, b.seq, OpOf[a])
  IN /\ flight' = flight \ {b}
     /\ d1' = IF lands THEN CommitBatch(d1, b.seq, OpOf[a]) ELSE d1
     /\ IF call[a].pc = "commit"
        THEN \/ Goto(a, [call[a] EXCEPT !.pc = IF lands THEN "ok" ELSE "failed"]) /\ Answered
             \/ Goto(a, [call[a] EXCEPT !.pc = "failed"]) /\ Lost
        ELSE UNCHANGED call /\ Answered
     /\ UNCHANGED <<vars, entry, alloc, issued>>

\* The isolate gives up on a batch that may still execute.
GiveUp(a) ==
  /\ call[a].pc = "commit" /\ Lost
  /\ Goto(a, [call[a] EXCEPT !.pc = "failed"])
  /\ UNCHANGED <<vars, d1, flight, entry, alloc, issued>>

\* After an error only a receipt proves a commit, the attempt's own or another
\* one's; without it the result is unknown.  Looking for it may fail too.
Conclude(a) ==
  /\ \/ call[a].pc = "ok" /\ Settled(a, "committed")
     \/ /\ call[a].pc = "failed"
        /\ \/ Settled(a, IF OpOf[a] \in d1.receipts THEN "committed" ELSE "unknown")
           \/ Finish(a) /\ UNCHANGED entry
  /\ UNCHANGED <<vars, d1, flight, alloc, issued, faults>>

\* Another isolate, with a block of its own, commits the operation.
CommitElsewhere(o) ==
  /\ faults.rivals > 0 /\ faults' = [faults EXCEPT !.rivals = @ - 1]
  /\ o \notin d1.receipts
  /\ d1' = [d1 EXCEPT !.receipts = @ \cup {o}]
  /\ UNCHANGED <<vars, flight, entry, alloc, call, issued>>

-----------------------------------------------------------------------------
(* Recovery of a sealed block: BudgetGrantRecoveryService.recover.  A call *)
(* carries what was sealed: holder, reservation, revision, expiry,         *)
(* operations.  Whatever stops it leaves the block sealed and charged.     *)

RecoverResolve(a) ==
  LET c == call[a]
  IN /\ c.pc = "recover"
     /\ \E r \in ReadAuthority(c) :
          IF r = c.rev THEN Goto(a, [c EXCEPT !.pc = "rec-refresh"]) ELSE Finish(a)
     /\ UNCHANGED <<vars, d1, flight, entry, alloc, issued, faults>>

RecoverRefresh(a) ==
  LET c == call[a]
  IN /\ c.pc = "rec-refresh"
     /\ \/ /\ RefreshRPC(c.rev, c.at)
           /\ \/ Goto(a, [c EXCEPT !.pc = "rec-reserve"]) /\ Answered
              \/ Finish(a) /\ Lost
        \/ ~Renewable(agg, c.rev, c.at) /\ Finish(a) /\ Answered /\ UNCHANGED vars
     /\ UNCHANGED <<d1, flight, entry, alloc, issued>>

RecoveryRequest(c) ==
  [key |-> <<c.hold, 0>>, purpose |-> "recovery", envelope |-> RecoveryCost,
   recovers |-> c.seq, policy |-> Authority[c.rev].policies[1].revision,
   restriction |-> Authority[c.rev].policies[1].restriction, now |-> c.at]

RecoverReserve(a) ==
  LET c == call[a]
      req == RecoveryRequest(c)
  IN /\ c.pc = "rec-reserve"
     /\ ReserveRPC(1, req)
     /\ \/ /\ Answered
           /\ IF Delivered(req.key) = {} THEN Finish(a)
              ELSE \E g \in Delivered(req.key) :
                     Goto(a, [c EXCEPT !.pc = "rec-read", !.rseq = g.seq])
        \/ Finish(a) /\ Lost
     /\ UNCHANGED <<d1, flight, entry, alloc, issued>>

\* "The independent durable rows, not the local receipt map, are the closure
\* proof": the links must be exactly the sealed operations.
RecoverRead(a) ==
  LET c == call[a]
  IN /\ c.pc = "rec-read"
     /\ IF Linked(d1, c.seq) = c.ops
        THEN Goto(a, [c EXCEPT !.pc = "rec-close"]) ELSE Finish(a)
     /\ UNCHANGED <<vars, d1, flight, entry, alloc, issued, faults>>

RecoverClose(a) ==
  LET c == call[a]
  IN /\ c.pc = "rec-close"
     /\ IF Closeable(d1, c.seq, c.ops, c.exp)
        THEN /\ d1' = InsertClosure(d1, c.seq, c.ops, c.exp)
             /\ \/ Goto(a, [c EXCEPT !.pc = "rec-reconcile"]) /\ Answered
                \/ Finish(a) /\ Lost
        ELSE UNCHANGED d1 /\ Finish(a) /\ Answered
     /\ UNCHANGED <<vars, flight, entry, alloc, issued>>

\* Mutant of Observation: the cost of allocating the block is forgotten.
ObservationOfOperations(k) == [d \in Dims |-> k * OpCost[d]]

\* What a closure reports of a block that k operations used.
Observation(k) == Envelope(k)

ClosureEvidence(c) ==
  [key |-> <<c.hold, 0>>, observed |-> Observation(Cardinality(c.ops)), certified |-> TRUE,
   acknowledges |-> FALSE, recovery |-> c.rseq, now |-> c.at]

\* The coordinator accepts the closure, now or when it was told before.
Accepted(c) ==
  \/ ClosedBy(agg, 1, c.seq, ClosureEvidence(c)) # {}
  \/ \E g \in Expire(agg.ledger[1], c.at).grants : g.seq = c.seq /\ g.status = "reconciled"

RecoverReconcile(a) ==
  LET c == call[a]
  IN /\ c.pc = "rec-reconcile"
     /\ ReconcileRPC(1, c.seq, ClosureEvidence(c))
     /\ \/ /\ Answered
           /\ IF Accepted(c) THEN Goto(a, [c EXCEPT !.pc = "rec-mark"]) ELSE Finish(a)
        \/ Finish(a) /\ Lost
     /\ UNCHANGED <<d1, flight, entry, alloc, issued>>

\* Marking and pruning may fail and nobody minds.  The holder goes, and the
\* attempt is admitted at last.
RecoverMark(a) ==
  LET c == call[a]
      marked == MarkReconciled(d1, c.seq, c.exp)
  IN /\ c.pc = "rec-mark"
     /\ \/ d1' = PruneJournal(marked, c.at) /\ Answered
        \/ d1' \in {d1, marked} /\ Lost
     /\ StartAdmit(a, CompleteRecovery(entry, c.hold))
     /\ UNCHANGED <<vars, flight, alloc, issued>>

-----------------------------------------------------------------------------

\* The isolate is evicted: nothing in its memory survives.
Restart ==
  /\ faults.evictions > 0
  /\ faults' = [faults EXCEPT !.evictions = @ - 1]
  /\ entry' = NoEntry /\ alloc' = NoAlloc
  /\ call' = [a \in Attempts |-> IF call[a].pc = "new" THEN NewCall ELSE Finished]
  /\ UNCHANGED <<vars, d1, flight, issued>>

Step(a) ==
  \/ Begin(a) \/ Resolve(a) \/ Woken(a) \/ ResolveAgain(a)
  \/ SendBatch(a) \/ Conclude(a)
  \/ RecoverResolve(a) \/ RecoverRefresh(a) \/ RecoverReserve(a)
  \/ RecoverRead(a) \/ RecoverClose(a) \/ RecoverReconcile(a) \/ RecoverMark(a)

Allocate == AllocRefresh \/ AllocReserve \/ AllocInstall

PublishEdit ==
  /\ faults.edits > 0 /\ faults' = [faults EXCEPT !.edits = @ - 1]
  /\ Publish
  /\ UNCHANGED <<d1, flight, entry, alloc, call, issued>>

AdmissionNext ==
  \/ Tick /\ UNCHANGED admissionVars
  \/ PublishEdit
  \/ \E a \in Attempts : Step(a)
  \/ Allocate
  \/ \E b \in flight : ExecuteBatch(b)
  \/ \E a \in Attempts : GiveUp(a)
  \/ \E o \in Ops : CommitElsewhere(o)
  \/ Restart

AdmissionSpec == AdmissionInit /\ [][AdmissionNext]_allVars

-----------------------------------------------------------------------------
(* Properties.                                                             *)

AdmissionTypeOK ==
  /\ \A t \in d1.links \cup d1.done : t[1] \in Nat \ {0} /\ t[2] \in Ops
  /\ d1.receipts \subseteq Ops
  /\ \A b \in flight : b.attempt \in Attempts /\ b.seq \in Nat \ {0}
  /\ entry \in [live : BOOLEAN, gen : Nat, blocked : BOOLEAN, refills : 0 .. MaxRefills,
                rev : Nat, until : Nat, checked : Nat, floor : Nat, first : Nat,
                pending : 0 .. MaxHolders, route : [Ops -> 0 .. MaxHolders],
                holders : SUBSET entry.holders]
  /\ \A h \in entry.holders : h \in Holder /\ h.n <= issued
  /\ \A a \in Attempts : call[a].pc \in CallStates

\* The operations reservation s ever paid for.
Work(s) == {t[2] : t \in {u \in d1.done : u[1] = s}}

\* However a block ends, by closure, expiry or eviction, by answers lost or
\* batches that land late, what the coordinator keeps charged for it covers
\* its allocation and every operation D1 ever committed on it
\* (budget-grant-closure.repository.ts).
ChargeCoversWork ==
  \A g \in agg.ledger[1].grants :
    g.purpose = "new-work" /\ Work(g.seq) # {} =>
      \A d \in Dims : Envelope(Cardinality(Work(g.seq)))[d] <= g.accounted[d]

\* Once a block is sealed nothing more can be linked to it: no attempt admitted
\* on it is left in the isolate, and a batch given up on that is still on its
\* way loses to a receipt.
SealedIsQuiescent ==
  \A h \in entry.holders :
    h.sealed => /\ \A a \in In({"admitted", "commit", "ok", "failed"}) : call[a].hold # h.n
                /\ \A b \in flight : b.seq = h.seq => OpOf[b.attempt] \in d1.receipts

\* The blocks of a live entry that the coordinator still charges in full never
\* outnumber its refills ("four unreconciled prepaid blocks per entry/window
\* across all policy generations"): a credit comes back only for a block that
\* was reconciled, and only once.
UnreconciledBlocks ==
  {g \in agg.ledger[1].grants :
     g.purpose = "new-work" /\ g.key[1] >= entry.first /\ g.status # "reconciled"}

RefillsCoverBlocks ==
  entry.live => Cardinality(UnreconciledBlocks) <= entry.refills

\* Once any attempt has shown its entry a newer revision, the entry neither
\* starts a generation nor admits an attempt under an older one
\* ("Retirement cannot erase a newer revision already observed locally").
NothingOlder ==
  [][entry.live =>
       /\ entry'.live /\ entry'.rev # entry.rev => entry'.rev >= entry.floor
       /\ \A a \in Attempts :
            call'[a].pc = "admitted" /\ call[a].pc # "admitted" => call'[a].rev >= entry.floor
    ]_allVars

=============================================================================
