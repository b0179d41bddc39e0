# A verification of Tocyn

Tocyn is a multi-tenant helpdesk that runs on Cloudflare: a Worker
(`src/apps/server`) over D1, R2, Vectorize and three kinds of Durable Object,
and three front ends. This directory holds TLA+ models of the parts of the
server where order, concurrency, loss and time decide whether it is correct,
the TLC runs that check them and the TLAPS proofs about them. Four parts are
modelled end to end: the budget of a unit of work, from the isolate that admits
it over the coordinator to the journal in D1 and back; the life of a
knowledge document, from its staging to its deletion; the receipts of
inbound mail; and the leases of realtime connections.

In the paths below `S/` stands for `src/apps/server/src/`.

## 1. The system

### Budget control (`S/budgets`, `S/durable_objects/Budget*`)

An owner gives a deployment resource allocations (D1 rows, R2 bytes, AI units
and so on), each either for an interval of time or a stock that never resets.
Tenants share them. Each unit of work is admitted against them before it runs.

| component | state it keeps | operations | hard behaviour, and what makes it correct |
|---|---|---|---|
| **Budget ledger** `S/budgets/coordinator-state.ts` | policy revisions, allocations, grants (reserved, uncertain, reconciled; compacted or not), roll-ups of closed charges, capacity defects | reserve, expire, retire, reconcile, compact, prune, adopt a policy | redelivery, late evidence, pruning by time. Each unit is charged once until evidence says otherwise; one identity has one grant; a closed charge is never lost while its allocation lives |
| **Owner aggregate** `S/budgets/owner-aggregate.ts`, `S/durable_objects/BudgetCoordinatorDO.ts` | one ingress ledger, one ledger per tenant, the authority lease, a count of unverified admissions | refresh, revoke, reserve (tenant, ingress, unverified), reconcile (tenant, ingress), handoff (single, batch) | calls from many Workers in any order, carrying old times and revisions. Slots and ceilings hold across ledgers; a revocation sticks; no grant outlives the authority that approved it |
| **Authority repository** `S/repositories/budget-authority.repository.ts` | rows in D1 | resolve an authority or a revocation | its answer may be old when it arrives |
| **Coordinator service** `S/budgets/budget-coordinator.service.ts` | none | authorise, refresh, reserve, seed a holder; spend warm | four awaits under one time |
| **Grant holder** `S/durable_objects/BudgetGrantHolderDO.ts` | a seeded grant, receipts | seed, refresh, spend | lost acknowledgements must not refill the balance |
| **Isolate holder and admission** `S/budgets/isolate-grant-holder.ts`, `isolate-admission.service.ts` | per scope: blocks held by the isolate, their operations and state, refills, the newest authority seen | allocate, admit, settle, seal, recover, retire, renew | one allocation shared by all who wait for it, with its generation checked after each await; sealing only what is quiescent; what is charged covers what was committed |
| **Closure journal and recovery** `S/repositories/budget-grant-closure.repository.ts`, `S/budgets/budget-grant-recovery.service.ts` | closure rows, operation rows | close, mark reconciled, prune | a crash between closure and reconciliation; a late operation row |
| **Owner ingress admission** `S/budgets/owner-ingress-admission.service.ts` | ingress blocks of one isolate, failures | admit, prove, finish, retire | seal before the proofs are read; bounded retries |

The interaction: a Worker reads the authority from D1 and the time, then calls
the coordinator to refresh and to reserve, seeds a holder, runs the work,
records its operations in D1 in the work's own batch, and finally closes the
grant with a certificate from the journal. Each arrow is a call that may be
late, lost, repeated or never made.

### The rest of the server

| component | state | what is hard |
|---|---|---|
| **Notification object** `S/durable_objects/NotificationDO.ts`, `S/budgets/realtime-admission.service.ts` | leases with prepaid counters, their index and receipts, sockets, pending cleanups, one alarm | claims presented again, fanouts that fail, restarts at any point, one alarm recomputed by every handler: frames stay prepaid, sockets and leases agree, neither a cleanup nor an idle socket is forgotten |
| **Ticket mutation replay** `S/services/ticket-mutation-replay.service.ts` | receipts | two deliveries racing to commit; the loser answers with the winner's result |
| **Snooze scheduler** `S/repositories/snooze-due-checkpoint.repository.ts` | a checkpoint with a generation | overlapping runs, deadlines that move |
| **Inbound email** `S/repositories/inbound-email-receipt.repository.ts` | receipts, attempts, artifacts | take-over after expiry, late answers, artifacts stored in part: a message has one outcome, its effects are applied at most once and whole |
| **Knowledge index** `S/repositories/knowledge-index.repository.ts`, `S/services/tenant-knowledge.service.ts`, `S/workflows` | versions, jobs with a cursor, chunks, cleanup targets in D1; sources in R2; vectors | duplicate workflows, lost answers of providers, leases: a chunk is sent once, a version is indexed whole, what is published is current |
| **Knowledge deletion** `S/repositories/knowledge-delete.repository.ts` | a deletion job, its items of work, a tombstone | producers still at work when it begins, steps that die with a claim: it ends, and nothing is left |
| **Balanced assignment** `S/services/balanced-assignment.service.ts` | assignment rows | a decision taken again in the transaction that commits it |
| **SLA clock, support state** `S/domain/sla-clock.ts`, `S/repositories/support-state.repository.ts` | clocks, pauses, a revision | everything fenced by the revision just written |
| authentication, middleware, handlers, other services and repositories, storage, observability | rows | single statements and per-request composition |
| `src/packages/shared`, the front ends, migrations, scripts, deployment | none | no concurrency |

`PROJECT.json` lists all of them with their status, and under `hazards` each
behaviour that a test would hardly reach, at its line.

## 2. The modules

| module | what it is |
|---|---|
| `BudgetLedger` | The pure transitions of one ledger, as operators on a record. No state of its own |
| `OwnerAggregate` | The coordinator: state, one action per RPC, the callers' freedom, fairness and properties |
| `BudgetAudit` | `OwnerAggregate` with an auditor that records what each grant was charged and never forgets |
| `GrantJournal` | What D1 keeps of paid operations: links, closures, receipts. Operators on a record |
| `IsolateGrants` | What an isolate keeps in memory for a scope: an entry and its holders. Operators on records |
| `IsolateAdmission` | `OwnerAggregate` with `IsolateGrants` and `GrantJournal`: admission, allocation, commit and recovery, one action between two awaits |
| `KnowledgeIndex` | One document: staging, preparation, indexing, publication, withdrawal, cleanup. One action per D1 batch or provider call |
| `KnowledgeDeletion` | The deletion of that document against all of the above; the specification of both, fairness and properties |
| `InboundDelivery` | What is promised of each inbound message: abstract, without receipts |
| `InboundEmail` | The receipts of inbound mail: receipts, attempts, artifacts and claims, one action per D1 batch; implements `InboundDelivery` |
| `NotificationLease` | The notification object with realtime admission: leases, sockets, the alarm and restarts, one action between two awaits of D1 |
| `MCOwnerAggregate`, `MCBudgetAudit`, `MCIsolateAdmission`, `MCKnowledge`, `MCInboundEmail`, `MCNotificationLease` | Instances for TLC |
| `BudgetLedgerProofs` | The invariant of a ledger, and that every transition keeps it |
| `OwnerAggregateProofs` | The invariant of the coordinator, and its theorems |
| `OwnerLimitsProofs` | What the coordinator's limits hold back: slots, defects, the lease of an authority |
| `BudgetAuditProofs` | That the coordinator's accounts and the auditor's books balance, and the ceilings that follow |
| `IsolateProofs` | What every step of an isolate does to blocks, ledger and entry; all properties of `IsolateAdmission` |
| `KnowledgeProofs` | The types of a document's stores, that a chunk is sent to the index once, that an indexed version is whole, and that a finished deletion has left nothing |
| `InboundEmailProofs` | The invariant of the receipts, and that they implement `InboundDelivery` |
| `NotificationProofs` | The invariant of the leases, and its theorems |

### How state corresponds to the code

* `agg` is `BudgetOwnerAggregateState`, the one value the object stores.
  `agg.ledger[0]` is `ownerIngress`, `agg.ledger[l]` the `l`-th of
  `tenantStates`; `revision`, `checkedAt`, `expiresAt` and `blocked` are
  `authorityRevision`, `authorityCheckedAt`, `authorityExpiresAt` and
  `newAdmissionsBlocked`. The aggregate's list of capacity defects is
  `Defective`: some ledger has one. The two are written together, and the code
  asks only whether the list is empty.
* `anon` is the value under `UNVERIFIED_INGRESS_KEY`. The window is its index,
  where the code has its start.
* A grant's `seq` is the sequence number in its reservation id; `key` is its
  holder id with its idempotency key. `remaining`, `createdAt` and the
  reconciliation record are left out: no modelled transition reads the first
  two, and a repeated reconciliation changes nothing but what expiry changes.
* Amounts are functions on dimensions; a dimension the envelope leaves out has
  0. Charges are added up as sizes of sets of units, so that no recursion is
  needed in a module with proofs.
* Owner allocations are those of the ingress ledger's policy, as `trusted
  authority` makes them; the historic ones the code keeps in `ownerAllocations`
  are never read when a grant is made.
* `clock` is the present and `published` the time at which D1 got each
  authority revision. They belong to the callers' world, as does everything
  under "What callers send".

In `IsolateAdmission`:

* `entry` is the `CacheEntry` of one scope in `IsolateBudgetAdmissionCache`, with
  its `RevisionFloor` (`floor`, `checked`). `holders` are its `HeldGrant`s with
  their `IsolateBudgetGrantHolder` (`checked`, `retired`) and the receipts, merged
  with the held operations into `ops`; `route` says which holder an operation
  belongs to. `alloc` is the allocation behind `pending`.
* `call[a]` is where the attempt `a` of a request is; `pc` names the await it is
  in. `at` and `lo` are the time and the authority revision when a read began.
* `d1` is the journal. `links` are the rows of the operation table, `closures`
  those of the closure table, `receipts` the replay receipts; `done` is history,
  the business rows, which nothing prunes. `flight` are batches sent to D1: they
  execute later, whoever still waits.
* A block is counted in operations: `Envelope(k)` is the cost of `k` of them and
  of the allocation.

In `KnowledgeIndex` and `KnowledgeDeletion`:

* `version`, `chunk`, `target`, `del`, `work` are the tables of migrations 0051
  and 0061 for one document: a version with its job (`next` is the cursor), its
  chunks, the cleanup job, the deletion job and its items. `r2` and `vectors` are
  what the providers hold. Path 0 and vector (0, 0) are those of a document from
  before the manifests.
* `stager`, `indexer`, `cleaner`, `withdrawal`, `deleter` are the processes
  between their steps. `effects` is history. A preparation step may throw while it
  reads or decodes the source (`FailRead`), and the step that completes the manifest
  writes the document's row once more, in a statement of its own and without a fence
  (`MarkReady`).
* `LegacyCount` is what `revoke` records of the vectors of a document from before
  the manifests: its count, "unknown" while it is published uncounted, else 0.
* A provider lease of five minutes is a mark in `lapsed` (`work[i].lapsed`) that
  appears at any time.

In `InboundEmail`:

* `receipt[s]` and `attempt[s][n]` are the rows of migration 0069 for a source
  hash; an attempt holds its artifacts, `planned` and, of these, `stored`. A part
  is known by its content.
* A claim is one delivery with its token, grant and authority. `held[c]` says
  under which authority revision it was admitted, whether its time has passed and
  whether its grant has been closed. `expires_at` of an attempt is that time, as in the code.
* `objects` is R2, `answers` what R2 answered to whom. `applied` is history: how
  often the effects that `finish` carries were executed.
* No handler calls the repository yet (its head says so), so its callers are
  free: any claim calls any operation, in any order, however late, except that it
  confirms only what the store has answered for, as `confirmArtifact` demands.
* `InboundDelivery` knows, of a message, only its outcome, the content it was seen
  with and how often its effects were applied. The mapping (`Outcome`, `Content`)
  reads them off the receipts; `processing` and `uncertain` are both open.

In `NotificationLease`:

* A lease is the number of its claim. `row[l]` is its `LeaseRecord`, with `state`
  for `cleanup` and two of its counters; the lease index names the rows that are
  present. `receipts` is the receipt index. `sock[l]` is the WebSocket whose
  attachment names the lease, `open`, `closing` (closed here or there, its close
  event still to come) or `gone` from `getWebSockets()`.
* `cleaning` are close callbacks that await their fanout; `alarmPc` and `sweep` say
  where the alarm handler is. `used` is history: the frames a claim that still runs was
  served, and those given up when its row was closed. Nothing
  reads the counters of a closed lease, nor a receipt once its claim is over
  (`leaseReceipts` drops it before it reads the others), so they are not kept.
* Time is relative, so it has no end. `alarm` is how long the alarm in storage has
  still to run (0: due, `Never`: none) and `remaining[l]` how long a claim has. Each
  handler that ends sets the alarm anew (`Scheduled`), whatever it had still to run,
  and nothing caps it: it may be postponed for ever.
* The number of a claim of which nothing is left (`Forgotten`) is given to a later
  one, so the stream of sockets has no end either.
* `Close` is free: a client may leave at any time, and any event may revalidate
  any socket and find its session revoked or its lease over.
* A restart loses sockets and handlers and keeps storage. `RestartWithin` is one
  between two writes of a close or of a recovery.

### Atomicity

`BudgetCoordinatorDO` reads its storage, computes and writes without awaiting
anything else; the digest of a certificate is computed before the read. The
object's input gate lets no other event in while storage is read or written. So
one RPC is one action. A call that throws writes nothing and is not a step. A
call that is rejected may still write: expiry, retirement and refresh are
inside the action, as they are inside the handler.

The same gate holds for `NotificationDO`, whose handlers also read D1, to
revalidate the sockets they send to. There the gate is open: a close callback
and an alarm are split where a live socket is revalidated, and nowhere else.

In the isolate, JavaScript runs without interruption between two awaits: what
runs there is one action. An RPC takes effect at the coordinator in one action,
in which its answer may be lost; a D1 batch is sent in one action and takes
effect in another. In the knowledge modules each D1 batch and each effect of a
provider is an action, and a process may die before or after any of them. Two
reads followed by a batch are merged where only the processes of that module
could intervene, and do so idempotently; the heads of the modules say where.

What callers do is as free as the code allows: any number of Workers, calls
lost, repeated, and delivered after others. A lost call is one never taken; a
repeated call is one taken again. A call carries the time its caller read
(`Times`, at most `Skew` old) and the terms of any authority that was once
current. An authority read begun at a time returns the revision current then
or a later one (`Readable`).

### Choices

* Whether a grant fits the storage headroom (`assertGrowthCapacity`) depends on
  the byte length of the state. `ReserveRPC`, `ReserveIngressRPC` and
  `HandoffRPC` may refuse for it at will. A refresh refused for it throws, like
  any call that is not delivered.
* `StaleRetries` says whether a caller uses an identity again, for a reservation
  or a handoff, once its grant was closed and has expired (`Late`). The present
  callers take a fresh random identity for each reservation and give up long
  before, so it is `FALSE` in every run.
* `Skew` is at least 1 where the order of calls around the end of an interval, of a
  window or of a lease matters: a call made before it is overtaken by one made after.
  It is 0 in `slots`, whose liveness keeps the instance small (`suspended` has the same
  ceiling with late calls), and in `restocked`, which needs none.
* Caps for TLC only: `MaxTime` on the clock, `MaxGrants` on the grants of a
  ledger, `MaxTransfers` on the moves of a batch. `MaxReservations`,
  `MaxRetained`, `MaxSeedAttempts` and `AnonLimit` are the code's limits, made
  small so that they are reached. In `NotificationLease`, `NumLeases` bounds the
  claims that are known at one time, and `MaxFaults` failed fanouts and restarts.

## 3. The runs

| run | question | bounds, and why they are enough |
|---|---|---|
| `slots` | Do the slots hold across ledgers, does an overrun stop every ledger, and does expired work free its slot without evidence? | two tenants race for two slots, one of them for recovery; observations reach two units of an envelope of one, so that overruns occur; three ticks outlast every lifetime; liveness with the fairness below |
| `suspended` | Does a revocation stick, and does a grant die with its authority? Do the slots hold? | three revisions: active, revoked, active again; reads delivered late and out of order; a tenant, ingress, anonymous admissions, which refresh by themselves, and handoffs compete for one slot of new work |
| `evidence` | Is every unit charged exactly once, under the ceiling? Are grants of earlier terms fenced, and can they still be closed? | all kinds of evidence, two units, recoveries with it, two revisions over consecutive intervals, calls a tick late around their border |
| `handoff` | Does moving a charge keep totals? Are anonymous windows kept? | single and batch handoffs of up to two moves, of verified and anonymous blocks of one and two units; two anonymous identities for one place, so that one fills the window and the other is refused, or belongs to the next; two windows; redeliveries, of which a late one moves the window; two revisions over one stock allocation, calls a tick late |
| `spend` | Does the charge of a prepaid block cover what was committed on it, however it ends? Does an isolate seal only what is quiescent, get refills back only for reconciled blocks, and admit under nothing older than it has seen? | two attempts of one operation and one of another, so that attempts share an allocation, a holder and an operation; blocks of two; two blocks, two refills, two attempts of recovery; three ticks, so that blocks get idle and expire; in each behaviour one of: a lost answer, an eviction, an edit of the authority, a rival isolate |
| `knowledge` | Is a chunk sent to the index once, is an indexed version whole, does a deletion end and leave nothing? | one document of up to two versions and two chunks; ten scenarios, in each of which one or two things disturb it: a lost answer (or a read that throws), two crashes, an update (with two workflow instances, or with a deletion), an unpublication, a repeated DELETE, a slow step beside a second one, a document from before the manifests, also unpublished |
| `inbound` | Does a message keep one history through racing, lapsing and late deliveries? Are its effects applied once and whole? Is the abstract promise kept? | two deliveries race for the first attempt, in different envelopes, a third recovers from one of them; two contents, one attachment, two authority revisions, a mailbox that moves away and back. One message: messages share only their number, which no property is about |
| `realtime` | Are frames prepaid whatever is presented again, do sockets and leases agree? Is a failed cleanup recovered, in time without end? | an endless stream of leases, three at one time for two sockets, so that one is turned away and a slot is used again; two receipts, so that they run out; one frame; leases of one or two ticks, so that they end together and apart; one failed fanout or restart, at any point |
| `restocked`, `idle_open`, `legacy_leftovers`, `superseded` | Where the code does not do what its comments say | see 5 |

What the properties mean is written above each in `OwnerAggregate` and
`BudgetAudit`. `ChargesMatchAudit` is the conservation law: the auditor records
the charge of every grant, unit by unit, and the ledger's own account of an
allocation, spread over open grants, roll-ups and expired work, has the same
size. `CeilingHolds` compares the auditor's books with the limits the owner
published.

Calls that arrive late make two of the code's limits give way, and the properties
except exactly those cases. The auditor notes them: `heard` is the latest time a
call carried, and an interval is `overtaken` once a call is granted something while
it still runs for that call and has ended for `heard`; `latest` is the latest window
of an unverified reservation, and a reservation of an earlier one makes the windows
from there to the latest `reopened`. `CeilingHolds` is about all other intervals,
and about every stock allocation; `AnonWithinLimit` about all other windows. Both
exceptions occur in the runs: without them TLC finds each property violated, in `evidence`
and in `handoff` (5). Whatever else lateness does, on either side of the same borders,
is covered.

At the bounds of `spend` two branches are never taken: the refusal after two
failed recoveries of one block (`BlockedRecovery`: the faults of one behaviour
are too few), and a policy too small for any block (`Sizes` is never empty).

**Fairness.** `slots` assumes that time passes (`WF` on `Tick`) and that
an aggregate that stays refreshable is refreshed with the newest authority at
the present time (`WF` on `FreshRefresh`). Every admission does that before it
reserves (`reserveForVerifiedScope`, line 85 of the coordinator service;
`allocate` of the ingress cache), so it holds as long as requests keep coming.
Nothing is assumed of holders or of evidence, which may never arrive: that is
the point of retirement. The property allows a defect, because the code retires
nothing once there is one, and is about new work only, because recoveries are
never retired.

`realtime` and `idle_open` assume what the runtime promises: time passes, a due alarm
is delivered, close events are delivered and closed sockets released, and the answers
that handlers await arrive. That close callbacks go on, whichever goes first, is enough:
they are finitely many unless sockets come for ever. An alarm that is due and then
set anew was not due for good, so weak fairness owes it nothing. Clients may do nothing for ever.
Restarts and failed fanouts are bounded, for a cleanup whose fanout fails each time never settles.
`PendingSettles` starts from an alarm that is set or running: a restart may leave a
cleanup without one (5). It claims nothing of behaviours in which upgrades are
accepted for ever (`Endless`): each sets the alarm anew, and nothing in the code makes
them rare. So does every close; but sockets that close for ever are accepted for ever.

`knowledge` assumes that the scheduled runner keeps running (`WF` on the steps of
a deleter: `pending` lists active jobs and every cron tick runs a bounded number of steps of
them), that the provider leases of indexing run out, and that the lease of a
deletion step that died runs out; both are times in D1. Steps that die, answers that
are lost and live steps slower than their lease are bounded by the scenario, for
a step that fails each time never ends a deletion. Nothing is assumed of
editors, of workflow instances or of cleaners: they may stop for ever, which is
why the property allows `producer_unresolved`.

**Mutants.** `PROJECT.json` names, for each property of a passing run, a change
of the model like a bug in the code (a dropped guard, a forgotten case) under
which TLC finds the property violated. They stand next to the definitions they
change.

## 4. The proofs

`OwnerAggregateProofs` proves, for any dimensions, allocations, tenants,
sequence of authorities, demands, evidence and limits, and however late a call
may be:

| theorem | property |
|---|---|
| `TypeCorrect` | `TypeOK` |
| `IdentityUnique` | `OneGrantPerIdentity` |
| `EarlierTermsFenced` | `ReservedUnderCurrentTerms` |
| `CompactionNeverFails` | `CompactionAvailable` |
| `RevocationHolds` | `RevocationSticks` |

`OwnerLimitsProofs` proves, for the same constants, of callers that do not use an
identity after its grant was closed and has expired (`~StaleRetries`):

| theorem | property |
|---|---|
| `SlotsHold` | `SlotCeiling` |
| `DefectsFreeze` | `DefectFreezes` |
| `AuthorityBoundsGrants` | `GrantsDieWithAuthority` |

`BudgetAuditProofs` proves, for the same constants:

| theorem | property | hypotheses |
|---|---|---|
| `BooksBalance` | the invariant `AuditInv` | |
| `ChargesMatch` | `ChargesMatchAudit` | `OneStock` |
| `StockCeilings` | `CeilingHolds` of stock allocations | `OneStock`, `~StaleRetries` |
| `CeilingsHold` | `CeilingHolds` | `OneStock`, `~StaleRetries` |
| `AnonymousWithinLimit` | `AnonWithinLimit` | `~StaleRetries` |

All of them hold for any `Skew`: however late a call arrives.

`IsolateProofs` proves, for any attempts and operations, sizes and costs of blocks,
refills, attempts of recovery, authorities, lost answers, evictions and rivals:

| theorem | property |
|---|---|
| `AdmissionTyped` | `AdmissionTypeOK` |
| `SealedQuiet` | `SealedIsQuiescent` |
| `ObservedNewer` | `NothingOlder` |
| `WorkIsCharged` | `ChargeCoversWork` |
| `BlocksWithinRefills` | `RefillsCoverBlocks` |

`KnowledgeProofs` proves, for any number of versions, chunks, workflow instances
and deletion steps, and any scenarios:

| theorem | property | hypotheses |
|---|---|---|
| `KnowledgeTyped` | `KnowledgeTypeOK` | |
| `OnceOnly` | `NeverSecondEffect` | |
| `IndexedWhole` | `IndexedIsWhole` | |
| `DeletionErases` | a finished deletion has left no source, vector or row of any version | |
| `DeletedWhole` | `DeletedLeavesNothing` | `NeverEdited`: no update of a document from before the manifests, no unpublication of one that was never counted |

`InboundEmailProofs` proves, for any messages, contents, attachments, deliveries and
bounds:

| theorem | property |
|---|---|
| `InboundTyped` | `TypeOK` |
| `HistoryIsKept` | `HistoryKept` |
| `EffectsAreWhole` | `AppliedWhole` |
| `DeliveryImplemented` | `Delivered`, that is `InboundDelivery` under the mapping |

`NotificationProofs` proves, for any number of leases and any limits:

| theorem | property |
|---|---|
| `LeasesTyped` | `TypeOK` |
| `FramesArePrepaid` | `FramesPrepaid` |
| `RegistryIsBounded` | `RegistryBounded` |

The theorems of `OwnerAggregateProofs` and `IsolateProofs` hold with `StaleRetries`
either way, so for `IdentityUnique` even with callers that retry identities the
present ones do not. Those of `OwnerLimitsProofs`, the ceilings and
`AnonymousWithinLimit` need it to be `FALSE`: such a retry passes neither the
owner's checks nor the clip (5).

**The argument.** None of these is inductive alone. `LedgerInv` joins, for one
ledger: its type; `Numbered` (a grant's number is below the next one and
unique), so that replacing a grant replaces one grant; `Identified` (one grant
for an identity and purpose); `TermsCurrent` (what is still reserved has the
current terms); and `Drawable` (an open grant's allocations, and the policy's,
are kept). `Identified` needs `Numbered` when a grant is replaced by a later
version of itself; `Drawable` needs that pruning keeps what is referenced, that
a new grant draws only on the policy's allocations, and that these are kept.
`BudgetLedgerProofs` shows each transition of the ledger to keep `LedgerInv`.
There, a grant only ever changes into a later version of itself (`SameGrant`),
and a transition changes neither policy nor numbering unless it is a
reservation or a new policy (`Continues`).

For the aggregate, `Keeps` says of a transition under one authority that it
keeps every ledger's invariant and the lease, and grants nothing while blocked;
it composes, so a handler made of several transitions keeps too. `Advances`
adds the renewal of the authority. Each action advances the aggregate, which
gives the inductive invariant `IInv` (with: D1 has published no revision
without an authority) and `RevocationSticks` in one pass.

The limits rest on a second division of the transitions. Most are `Quiet`: in
each ledger every grant is a later version of one there was (`Aged`), nothing is
numbered anew and a defect stays. A handler `MayGrant`: it is a quiet transition,
followed by at most `OneGrant`, which the owner checked against the slots and
clipped to the lease. Slots are counted as pairs of a ledger and a number
(`SlotsOf`), because grants change while they hold one; a quiet transition shrinks
that set and a grant adds one element to it below the ceiling (`Within`).
`DefectFreezes` follows because a grant is made only with no defect anywhere.
`GrantsDieWithAuthority` needs `Leased`: the lease in force ends within `MaxAge` of
any later publication, since the read behind it began before. A retry of a live
identity is quiet, because it finds its grant; of a dead one it is not, hence the
hypothesis.

The auditor's books are kept by double entry. A row of `spent` is a unit that some
grant was charged; the ledger knows the same unit from the grant, or, once the
grant was closed, from the roll-up of its account. `Balanced` says, for one ledger:
the rows of a kept grant are its units, and on an account that still runs at `heard`,
the latest time a call carried, the rows of closed and forgotten grants (`Gone`)
number what is rolled up. It is inductive
with `Sound`: `LedgerInv`, `Unsettled` (a grant is charged its envelope until
evidence settles it) and `OnTerms` (a ledger's policy, and what its grants draw
on, were published).

* Each transition of the ledger `Posts`: it stays sound, and its books balance once
  the auditor has noted the result (`Goes`). The auditor notes a call's result
  only, and a call may make several transitions. So a second transition must not
  change what the first one posted: a grant's charge changes only while it is
  `Held`, live or settled without being closed, and such a grant is kept
  (`BooksOfTwo`, `PostsTransitive`). Pruning
  forgets only grants whose rows were rolled up, and only roll-ups of accounts that
  have ended.
* `ChargesMatch`: a running allocation is charged the rows of its account, by a
  bijection between units and rows (`ChargedBooked`). Open charges follow the
  exact allocation and closed ones its account; `OneStock` makes them the same.
* For the ceilings each call `GrantsOnce`: it is idle, then makes at most one grant,
  then is idle, where what is idle books nothing new but corrections of evidence.
  A grant is `Allowed` when it found room for the tenant and, over all ledgers, for
  the owner; with `ChargesMatch` that is room in the books (`RoomFor`), so they
  stay `Capped`. Evidence above the envelope is a defect, and with a defect nothing is
  claimed. A call that comes late sees a stock allocation as it is. An interval that
  runs for the call was not pruned if it runs at `heard` too (`Spans`); if it has ended
  there, a call that is granted anything marks it `overtaken`, so those that are left
  (`Steadfast`) stay capped (`HearSpans`).
* `AnonInv`: no window after `latest` has admitted anything; one that was not reopened
  not more than the limit; and the latest, unless reopened, is the one that is counted,
  and has admitted not more than its count. An unverified reservation falls in a new
  latest window, of which nothing was admitted, in the latest, whose count is the
  stored one, or in an earlier one, and then both are reopened (`WindowCounted`). A
  replay, which is not counted, is granted nothing, because its identity is still known
  after expiry and adoption (`ReplayGrantsNothing`); of a forgotten identity that is
  false.

For the isolate, each action of `IsolateAdmission` is classified three times
(`StepOK`): by what it does to the blocks in memory and to the journal (`Effect`: it
is `Idle`, or `Delivers` a payment, `Seals`, `Settles`, `Sends`, `Executes` or
`Installs`), to the ledger (`LedgerEffect`: nothing is granted or settled, or just
the block or the recovery that was asked for is granted, or just the block that was
closed is settled at what was observed) and to the entry's books (`BooksEffect`).
The invariants are then proved against the classes, not against the actions.

* `MemoryInv` is about names and counts. `Fresh`: nothing names the number or the
  reservation of a block still being asked for, nor a reservation not made yet.
  `Distinct`: number and reservation of a named block determine each other.
  `Counted`: whoever pays for an operation is active on it, what is committed has
  a receipt, what is sealed is committed and has nobody active. `Sent`: a batch on
  its way was counted as a try. `Proven`: a commit that is believed has a receipt.
  `SealedIsQuiescent` is a consequence. `Fresh` is what keeps an answer that comes
  late from meeting a holder that it was not meant for, and `Counted` needs
  `Distinct` to know that a payer's holder is the one that gets sealed.
* `ChargeInv` relates the coordinator's charge to the journal. `Shaped`: a block not
  reconciled is charged in full for its size. `Tracked`: a name stands for one grant,
  and a holder, or the allocation, has that grant's size. `Sized`: the operations
  that were committed on a reservation, those on their way and those admitted
  (`Claims`) are within its size, which a holder knows because it counts all of
  them. `Settling`: what is being recovered, and what was reconciled, is `Over`:
  nobody pays on it, what is still on its way loses to a receipt, its holder is
  sealed and it will not be installed. So its work is final, is among the sealed
  operations, and the observation covers it. This is the theorem for which sealing,
  the unique receipt, the fencing of allocations and the closure are there.
* `Credits` counts: every block of an entry that is `Owed` (in memory, being asked
  for, or charged and not reconciled) has taken a refill. A refill comes back when
  a holder is removed after `rec-mark`, and then its grant is reconciled
  (`Settling`), its number is not being asked for (`Fresh`) and the holder is gone,
  so one block less is owed. Blocks are then mapped to their numbers, which
  `Tracked` makes one-to-one.

`NothingOlder` needs none of these: an entry's revision or an attempt's changes
only through `Observable`, which compares it with the floor, and an attempt that
is admitted was not before (`StaysAt`).

For a document, `NeverSecondEffect` rests on `Once`: a chunk that is `pending`,
or that the manifest has not come to yet (`Unmade`), has not been sent and is in
nobody's hands, and a chunk in an instance's hands (`Holds`) is in no other's
and has not been sent. The cursor makes a chunk `pending` at most once, which
needs its type (`CursorInside`) and that a version is not staged again.
The latter needs `Quiet`: a deletion takes the document's row with its first
batch, and its job never looks unstarted again, so that a version whose row the
deletion has removed is not taken for one that never was.

`IndexedIsWhole` rests on `Whole`. A version without rows has no job, one that is
indexed has its source's count and every chunk of it confirmed, and while its job is
`Served` every chunk behind the cursor is confirmed (`Manifest`). An instance with a
chunk in hand works for a job that is served (`Serves`). Above the cleanup target a
chunk that was sent or confirmed has its vector, and a cleaner holds only vectors at
or below the target (`Stored`, `Sent`, `Vectored`). `WholeInv` requires `Whole` as
long as no deletion has begun; from then on the rows go away, and a deletion that is
done has left no staged version. It takes `OnceInv` along, the invariant of
`NeverSecondEffect`.

`DeletedLeavesNothing` rests on `DeletionInv`: `WholeInv`, `Placed` (where stagers and
deleters can be) and five parts.

* `Phased`: sources before vectors before finalization, up to a version (`del.max`)
  above which nothing is staged. `Rowed`: only a version with a row has a job or
  chunks, so the manifest, which is laid out from the rows, misses none.
* Once the manifest of the sources is begun (`SourcesClosed`) no source is being
  stored, and likewise for the vectors (`VectorsClosed`). This is what
  `ProducersSettled` is for: a source that is being stored has the job
  `source_pending` (`Sourced`), and a chunk in hand before its answer has the row
  `claimed`, in one instance only (`Embedded`), so either is a producer the deletion
  waits for. Afterwards a late process is not authorized: while the deletion runs
  because of its job, later because the row is gone.
* Until then a source that is stored has a row, and a vector a row that was
  `Touched`. So when the manifest passes a key, either it lists what is stored or
  nothing is. `Working` keeps the other end: what is in the manifest is `Open` work or
  `Gone`; work is only on what is closed, so what is gone stays gone; a step that
  is about to confirm has erased its item, and complete work is gone. Two
  steps on one item do no harm: who owns the claim matters only for finalization, where a
  lost claim removes no rows.
* The last batch is written when no other work is left, so everything in the
  manifest is gone; the manifests are complete, and `EndsEmpty` says the rows are
  gone too.
* A document from before the manifests has no row to find it by. `Legacy` says that
  until it is updated it has no version, so `revoke` sees its path and its count;
  that one of unknown count stays published, so that `revoke` records it as unknown;
  that these survive until the manifest turns them into open work; and that a
  deletion with an unknown count never comes to its end. An update breaks the first
  of these, an unpublication the second, hence the hypothesis.

For inbound mail, `Inv` says of each message that its receipt and its attempts
agree (`Numbered`, `Current`, `Past`, `Future`), that an attempt was made by a
claim of its number (`Claimed`), of the first bytes (`SameBytes`), and that what it
holds for stored is in the store (`InStore`, from `Answered`). A step of a claim
touches one message and one attempt of it, or two when it recovers (`Change`); all
others are left as they are (`Frame`, `OtherAttempt`). The refinement follows action by
action: `Prepare` is a `See` the first time, `Finish` a `Commit` or a `Reject` unless the
outcome is uncertain, and every other step stutters. It needs `Inv` for what it
cannot see in a step: that a message without a receipt has no content and a
continued one is open.

For realtime leases, `LeaseOK` says of each lease that what was used and what
is left stay within what was paid (`Spent`); that a lease which has a row, or
was ever served, has a receipt while its claim still runs (`Traced`), so that it is
installed once, with nothing served before; that only a claim that runs was served
(`Running`), so the next one of its number starts from nothing; and that an open socket has an
active row (`Leased`). `Bounded` is about the sizes of registry and index: every
step but an installation shrinks them (`Shrinks`), and an installation adds one
to each below its limit (`OneMore`). It needs both checks, because a closed
socket may leave the registry before or after its row leaves the index.

**From which assumptions.** `BoundsAssumption` types the limits of the notification
object. `ClaimAssumption` types the bounds and the claims, as
`validate` does. `KnowledgeAssumption` only types the bounds and the
scenarios. `AllocAssumption` (finitely many dimensions, each
allocation has a window), `BoundAssumption` and `LimitAssumption` (limits are
positive where the code requires it) and `AuthorityAssumption`: what
`createBudgetOwnerAggregateState` and the D1 schema enforce, namely that
revisions do not fall, that a change of terms has a new revision, that tenants'
policies derive from the owner's and that `authority_max_age_ms` is at most the
grant lifetime. `IsolateAssumption` and `AdmissionAssumption` type the isolate's
bounds, costs and attempts, and say that the coordinator accepts the identities the
isolate makes (`Keys`: a block's number with its size, or with 0 for its recovery).
TLC evaluates all of them in each run that uses them. There are two hypotheses
besides, of `OwnerLimitsProofs` and `BudgetAuditProofs`, and one of `KnowledgeProofs`:

* `~StaleRetries`: callers do not use an identity again once its grant was closed and
  has expired. The present ones do not.
* `OneStock`: the owner does not replace the stock allocation of a dimension by
  another. `ChargesMatchAudit` is false without it: that is what `restocked` shows
  (5). The code asks for nothing of the kind, so it is a condition on the operator
  who publishes policies. It holds of `handoff` and `evidence`.
* `NeverEdited`: no scenario updates a document from before the manifests, or
  unpublishes one whose vectors were never counted (`DeletedWhole`).
  `DeletedLeavesNothing` is false of each: that is what the two scenarios of
  `legacy_leftovers` show (5). The hypothesis holds of the scenarios of `knowledge`,
  three of which have such a document, one of them counted and unpublished.
  `DeletionErases` says what stays true without it.

**Only model-checked.** `ExpiredWorkFreesSlot`, `DeletionEnds` and `PendingSettles`:
they are liveness, which the prover does not handle. Every safety property of a passing
run is the statement of a theorem. The ceilings are proved of the
coordinator alone; what an isolate or a holder does with a grant is not part of
`BudgetAudit`.

## 5. Where code and comments disagree

* **A replaced stock allocation starts afresh while grants are open**
  (`restocked`, `coordinator-state.ts:374`). Closed charges follow the stock
  dimension, open ones the exact allocation id. The comment at line 311
  promises that a new id is no fresh balance.
* **An idle socket outlives its lease** (`idle_open`, `NotificationDO.ts:353`).
  `scheduleAlarm` reads only expiries to come and deletes the alarm when there is
  none. A close handled when the leases are over, but before the alarm that is
  due, deletes it; so does an alarm that awaits a revalidation past the end of a
  lease. The socket stays open, and in the registry, until another event concerns
  it. Line 51 promises a revalidation every 30 s, a test the expiry of idle
  connections.
* **A deletion forgets what an edited document had before the manifests**
  (`legacy_leftovers`, `knowledge-delete.repository.ts:43` and `:47`). `revoke` records
  what such a document has by what its row says now. Vectors that were never counted
  are recorded as unknown, so that the deletion waits for an operator, only while the
  document is published; `unpublishDocument` sets it `pending`
  (`tenant-knowledge.service.ts:291`) and, without a version, withdraws nothing. The
  deletion then records none, finishes, and the vectors stay. That is the trace of the
  run. Its other scenario, an update, violates the property too (narrow `Leftovers` to
  it): the old source is recorded only while no version has the document's path, and
  the old vectors only while there is no version, so after an update both stay.
  Migration 0061 promises a manifest of every artefact.
* **A superseded version publishes the document** (`superseded`,
  `knowledge-index.repository.ts:360`). `completeIfFinished` answers whether the
  job was completed. An update captured meanwhile has made its source the
  document's; the comment at `tenant-knowledge.service.ts:207` promises that the
  check prevents this.

Seen while modelling, with no run of their own:

* `scheduleAlarm` replaces the alarm that is set by one 30 s from now, or at an earlier
  expiry, and every upgrade and every close calls it (`NotificationDO.ts:357`). Where
  sockets come and go more often than that the alarm never becomes due, and a cleanup
  whose fanout failed is never recovered. Line 195 speaks of "one bounded alarm recovery
  attempt", and `docs/security/acceptance-2026-09-08.md:60` promises of idle sessions
  that alarms close them at expiry or within 30 seconds. `PendingSettles` and
  `ExpiredSocketsClose` except this case, as `Endless`. It occurs: without the exception
  TLC finds `PendingSettles` violated, even where an alarm that is due again and again
  is delivered (`SF` on `FireAlarm`).
* A full window is forgotten when the next one is asked for too early
  (`BudgetCoordinatorDO.ts:175`). The object keeps the count of one window. A request's
  time is read before its authority, and an authority that was checked earlier is
  refused only if it is of the same revision. When a revision is published in between,
  a request of the next window with the old revision is handled before one of the full
  window with the new revision, which is then admitted. The comment at line 154
  promises that no new one is. TLC finds it in `handoff` when `AnonWithinLimit` does not
  except the window as `reopened`.
* A later call prunes an interval that an earlier one still draws on
  (`coordinator-state.ts:348`): the closed charges of the interval are gone, and
  the earlier call is granted on it anew. Line 62 says charges stay until trusted
  evidence changes them. One tick of reordering around an interval's end is
  enough: TLC finds it in `evidence` when `CeilingHolds` does not except the interval
  as `overtaken`.
* An upgrade that is refused for capacity has stored its lease before
  (`NotificationDO.ts:395`), and so has one that stops in between. The row stays
  `active` in the index and nothing removes it: only a close does, or the
  recovery of a pending one. Each takes a place of the index for good, though the
  answer, "temporarily unavailable", invites a retry after 30 s.
* An alarm debits the one alarm of every socket (`NotificationDO.ts:365`), whichever
  socket it was set for. The next one closes all that paid and are still
  connected, as "Realtime lease expired", before the end of their lease.
* Line 195 speaks of "one bounded alarm recovery attempt", but a cleanup that
  fails is tried again at every alarm.
* A restart within a close can leave a pending cleanup and no alarm, until
  another connection sets one; and, within `settleCleanup`, a `settled` row that
  stays in the index.
* A stale retry is not clipped (`owner-aggregate.ts:356`). A known identity is
  recognised before expiry prunes it, then granted as new by the ledger, past the
  owner's checks and the clip; the comment at line 328 promises that no grant
  outlives the lease. Present callers never retry so late. TLC finds it with
  `StaleRetries = TRUE`, certificates, and a policy revised after the closure.
* A deletion can stay parked. A step reads an expired producer, the producer
  fails its source while the job is still `active` and so wakes nothing, and the
  step then parks the job as `producer_unresolved`, which `pending` never lists.
  A repeated DELETE takes it up. `knowledge-delete-composition.ts:8` calls the
  runner a fallback for a lost continuation. `DeletionEnds` allows that state.
* `0061:67` says a deletion waits for a producer "to settle or expire"; after
  expiry it still waits, until the producer is settled.
* `knowledge-index.repository.ts:94` says old sources stay visible until a new
  manifest is indexed, but `updateArticle` makes the document `pending` at once.
* A process that dies between the last `indexed` and `completeIfFinished` leaves
  a version that later completes (`CompleteOnly`) but is never published; a
  cleaner that dies leaves its chunks `cleanup_claimed` for ever; `withdrawAll` on
  a version whose source is pending leaves its job `source_pending`.
* An attempt that lost to another isolate's receipt settles as `committed`, though
  its own link is not durable (`ticket-mutation-replay.service.ts:456`), against
  `isolate-admission.service.ts:462`. Its block can be sealed but its closure
  never finds the links it asks for; the block stays charged until it expires.

## 6. Not modelled

Of the coordinator: the validation of inputs and of stored state, safe-integer
overflow (the code throws), the caps on accounting metadata (it throws too), the
packed storage encoding, and `consumeBudgetGrant` and `markBudgetGrantUncertain`,
which only tests call. Changing the set of tenants or the coordinator's name
throws in the code, so the set is constant.

Of the isolate: several scopes in one isolate and the recovery of one by
another, recovery on the cold path, the session and realtime variants, and the
handoff of ingress blocks. Of the replay service: the mutation itself and the
expiry of receipts. Of knowledge: the articles of tickets as sources, dispatch
counters, the budget admission of each step (it is that of `IsolateAdmission`),
search and generation.

Of the notification object: the receipts of canonical broadcasts (their own bounded
list, `consumeCanonicalBroadcast`), who pays for a close, the throttle of typing,
the texts of presence, registries over capacity from older versions, and the mode
without admission.

The other components of 1 are not modelled; `PROJECT.json` says why for each.
Much of the repository (front ends, the design system, scripts, handlers,
rendering) keeps no state that two actors share, so the share of all lines that
these modules cover stays small.

## 7. Plan

1. `GrantHolder`: the holder object and the coordinator service's awaits, with
   lost seeds and answers, over `OwnerAggregate`. What all holders can spend
   stays within what was granted.
2. `IngressBlock`: the isolate's blocks over the batch handoff, with durable
   proofs. Several moves that name one tenant grant belong here.
3. `SnoozeDue`, then `SlaClock` and `BalancedAssignment`; the receipts of canonical
   broadcasts in `NotificationLease`.
4. Several scopes in `IsolateAdmission`.
