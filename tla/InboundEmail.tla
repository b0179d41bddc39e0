---------------------------- MODULE InboundEmail ----------------------------
(***************************************************************************)
(* The receipts of inbound mail of one tenant:                             *)
(* src/apps/server/src/repositories/inbound-email-receipt.repository.ts    *)
(* and the tables of migrations/0069_inbound_email_receipts.sql.           *)
(*                                                                         *)
(* An action is one D1 batch: its assertion is the guard, and a batch      *)
(* whose assertion or effects fail changes nothing.  No handler calls the  *)
(* repository yet, so its callers are free: any claim calls any operation  *)
(* in any order, any number of times, however late.  They keep to the one  *)
(* contract the repository cannot check, that an object is confirmed only  *)
(* after the store has answered for it.                                    *)
(*                                                                         *)
(* Abstractions.  The envelope stands for the recipient as well.  A part   *)
(* of a message is known by its content.  The revision of the authority    *)
(* stands for the whole snapshot the budget constraint compares.           *)
(***************************************************************************)
EXTENDS Integers, FiniteSets

CONSTANTS
  Sources, Raws, NoRaw,
  Envelopes,
  Parts,         \* attachments
  Claims,        \* deliveries, each with a token of its own
  ClaimInfo,     \* what a claim says: [source, attempt, envelope]
  Nobody,        \* no claim
  MaxAttempts,   \* MAX_INBOUND_ATTEMPTS
  MaxReceipts,   \* MAX_INBOUND_RECEIPTS_PER_TENANT
  MaxRevision    \* bound on the revisions of the authority

Attempts == 1 .. MaxAttempts

ASSUME ClaimAssumption ==
  /\ MaxAttempts \in Nat \ {0} /\ MaxReceipts \in Nat /\ MaxRevision \in Nat \ {0}
  /\ NoRaw \notin Raws /\ Nobody \notin Claims
  /\ ClaimInfo \in [Claims -> [source : Sources, attempt : Attempts, envelope : Envelopes]]

VARIABLES
  receipt,   \* inbound_email_receipts, by source
  attempt,   \* inbound_email_attempts and their artifacts, by source and number
  held,      \* the budget authority each claim holds
  revision,  \* the authority revision in D1
  routed,    \* the recipient is an address of the tenant
  objects,   \* the objects stored, by source, attempt and content
  answers,   \* objects whose storing was answered to a claim
  applied    \* history: how often the effects of a message were applied

vars == <<receipt, attempt, held, revision, routed, objects, answers, applied>>

Open == {"processing", "uncertain"}
Terminal == {"committed", "rejected"}
States == {"none"} \cup Open \cup Terminal

Receipts == [state : States, envelope : Envelopes \cup {"none"},
             current : 0 .. MaxAttempts, raw : Raws \cup {NoRaw}]

Tries == [state : States, by : Claims \cup {Nobody}, raw : Raws \cup {NoRaw}, ready : BOOLEAN,
          planned : SUBSET Parts, stored : SUBSET Parts]

NoReceipt == [state |-> "none", envelope |-> "none", current |-> 0, raw |-> NoRaw]
NoAttempt == [state |-> "none", by |-> Nobody, raw |-> NoRaw, ready |-> FALSE,
              planned |-> {}, stored |-> {}]

Init ==
  /\ receipt = [s \in Sources |-> NoReceipt]
  /\ attempt = [s \in Sources |-> [n \in Attempts |-> NoAttempt]]
  /\ held = [c \in Claims |-> [revision |-> 0, lapsed |-> FALSE, closed |-> FALSE]]
  /\ revision = 1 /\ routed = TRUE
  /\ objects = {} /\ answers = {}
  /\ applied = [s \in Sources |-> 0]

SourceOf(c) == ClaimInfo[c].source
Number(c) == ClaimInfo[c].attempt
Row(c) == attempt[SourceOf(c)][Number(c)]

-----------------------------------------------------------------------------
(* The authority of a claim.                                               *)

\* The budget admission of a claim, under the current authority.
Admit(c) ==
  /\ held[c].revision = 0
  /\ held' = [held EXCEPT ![c].revision = revision]
  /\ UNCHANGED <<receipt, attempt, revision, routed, objects, answers, applied>>

\* Its time runs out, or its grant is closed by the recovery of its holder.
Lapse(c) ==
  /\ held[c].revision > 0 /\ ~held[c].lapsed
  /\ held' = [held EXCEPT ![c].lapsed = TRUE]
  /\ UNCHANGED <<receipt, attempt, revision, routed, objects, answers, applied>>

CloseGrant(c) ==
  /\ held[c].revision > 0 /\ ~held[c].closed
  /\ held' = [held EXCEPT ![c].closed = TRUE]
  /\ UNCHANGED <<receipt, attempt, revision, routed, objects, answers, applied>>

Revise ==
  /\ revision < MaxRevision /\ revision' = revision + 1
  /\ UNCHANGED <<receipt, attempt, held, routed, objects, answers, applied>>

\* The mailbox moves to another tenant, or back.
Reroute ==
  /\ routed' = ~routed
  /\ UNCHANGED <<receipt, attempt, held, revision, objects, answers, applied>>

\* assertion: the current policy, in time, an open grant, and the recipient.
Funded(c) ==
  /\ held[c].revision = revision /\ ~held[c].lapsed /\ ~held[c].closed
  /\ routed

\* continuation: the receipt and its attempt are still this claim's.
Continues(c) ==
  LET r == receipt[SourceOf(c)]
  IN /\ Funded(c)
     /\ r.state = "processing" /\ r.envelope = ClaimInfo[c].envelope /\ r.current = Number(c)
     /\ Row(c).state = "processing" /\ Row(c).by = c

-----------------------------------------------------------------------------
(* The operations.                                                         *)

Known == {s \in Sources : receipt[s].state # "none"}

\* Mutants of Replaceable: only the expiry of the last attempt is looked at, or
\* only its outcome.
ReplaceableTerminal(r, row) == r.state # "none" /\ held[row.by].lapsed
ReplaceableLive(r, row) == r.state \in Open /\ row.state \in Open

Replaceable(r, row) ==
  r.state \in Open /\ row.state \in Open /\ held[row.by].lapsed

NewAttempt(c) ==
  [state |-> "processing", by |-> c, raw |-> NoRaw, ready |-> FALSE, planned |-> {}, stored |-> {}]

BeginFirst(c) ==
  LET s == SourceOf(c)
  IN /\ Number(c) = 1 /\ Funded(c)
     /\ receipt[s].state = "none" /\ Cardinality(Known) < MaxReceipts
     /\ receipt' = [receipt EXCEPT ![s] =
          [state |-> "processing", envelope |-> ClaimInfo[c].envelope, current |-> 1, raw |-> NoRaw]]
     /\ attempt' = [attempt EXCEPT ![s][1] = NewAttempt(c)]
     /\ UNCHANGED <<held, revision, routed, objects, answers, applied>>

\* A recovery takes over from the attempt before it, once that has expired.
BeginRecovery(c) ==
  LET s == SourceOf(c)
      n == Number(c)
  IN /\ n > 1 /\ Funded(c)
     /\ receipt[s].envelope = ClaimInfo[c].envelope /\ receipt[s].current = n - 1
     /\ Replaceable(receipt[s], attempt[s][n - 1])
     /\ receipt' = [receipt EXCEPT ![s].current = n, ![s].state = "processing"]
     /\ attempt' = [attempt EXCEPT ![s][n - 1].state = "uncertain", ![s][n] = NewAttempt(c)]
     /\ UNCHANGED <<held, revision, routed, objects, answers, applied>>

\* Mutant of SameContent: a recovery is free to bind other bytes.
AnyContent(s, raw) == TRUE

SameContent(s, raw) == receipt[s].raw \in {NoRaw, raw}

Prepare(c, raw) ==
  LET s == SourceOf(c)
  IN /\ Continues(c) /\ SameContent(s, raw)
     /\ receipt' = [receipt EXCEPT ![s].raw = raw]
     /\ attempt' = [attempt EXCEPT ![s][Number(c)].raw = raw]
     /\ UNCHANGED <<held, revision, routed, objects, answers, applied>>

\* The whole manifest is written before any object is.
PlanArtifacts(c, parts) ==
  /\ Continues(c) /\ Row(c).raw # NoRaw /\ ~Row(c).ready
  /\ attempt' = [attempt EXCEPT ![SourceOf(c)][Number(c)].ready = TRUE,
                                ![SourceOf(c)][Number(c)].planned = parts]
  /\ UNCHANGED <<receipt, held, revision, routed, objects, answers, applied>>

\* The holder of a plan stores a part, perhaps long after its attempt; the
\* answer may be lost.
StoreObject(c, part) ==
  /\ Row(c).by = c /\ part \in Row(c).planned
  /\ objects' = objects \cup {<<SourceOf(c), Number(c), part>>}
  /\ answers' \in {answers, answers \cup {<<c, part>>}}
  /\ UNCHANGED <<receipt, attempt, held, revision, routed, applied>>

ConfirmArtifact(c, part) ==
  /\ Continues(c) /\ part \in Row(c).planned /\ <<c, part>> \in answers
  /\ attempt' = [attempt EXCEPT ![SourceOf(c)][Number(c)].stored = @ \cup {part}]
  /\ UNCHANGED <<receipt, held, revision, routed, objects, answers, applied>>

\* Mutant of Committable: objects whose storing is uncertain count.
CommittableUncertain(c) ==
  LET row == Row(c)
      r == receipt[SourceOf(c)]
  IN r.raw # NoRaw /\ row.raw = r.raw /\ row.ready

Committable(c) ==
  LET row == Row(c)
      r == receipt[SourceOf(c)]
  IN r.raw # NoRaw /\ row.raw = r.raw /\ row.ready /\ row.planned = row.stored

Finish(c, state) ==
  LET s == SourceOf(c)
  IN /\ Continues(c)
     /\ state = "committed" => Committable(c)
     /\ receipt' = [receipt EXCEPT ![s].state = state]
     /\ attempt' = [attempt EXCEPT ![s][Number(c)].state = state]
     /\ applied' = [applied EXCEPT ![s] = IF state = "committed" THEN @ + 1 ELSE @]
     /\ UNCHANGED <<held, revision, routed, objects, answers>>

Next ==
  \/ \E c \in Claims :
       \/ Admit(c) \/ Lapse(c) \/ CloseGrant(c)
       \/ BeginFirst(c) \/ BeginRecovery(c)
       \/ \E raw \in Raws : Prepare(c, raw)
       \/ \E parts \in SUBSET Parts : PlanArtifacts(c, parts)
       \/ \E part \in Parts : StoreObject(c, part) \/ ConfirmArtifact(c, part)
       \/ \E state \in {"committed", "rejected", "uncertain"} : Finish(c, state)
  \/ Revise \/ Reroute

Spec == Init /\ [][Next]_vars

-----------------------------------------------------------------------------
(* Properties.                                                             *)

TypeOK ==
  /\ receipt \in [Sources -> Receipts]
  /\ attempt \in [Sources -> [Attempts -> Tries]]
  /\ held \in [Claims -> [revision : 0 .. MaxRevision, lapsed : BOOLEAN, closed : BOOLEAN]]
  /\ revision \in 1 .. MaxRevision /\ routed \in BOOLEAN
  /\ objects \subseteq Sources \X Attempts \X Parts
  /\ answers \subseteq Claims \X Parts
  /\ applied \in [Sources -> 0 .. 1]

\* The receipt and its attempts are two tables that tell one story: the current
\* attempt is in the receipt's state, every earlier one is kept as uncertain,
\* by a claim that could not have gone on ("cannot replace a terminal receipt
\* or a live worker", begin()), no attempt was of other bytes than the message
\* was first seen with, and there is no later one.
HistoryKept ==
  \A s \in Sources :
    /\ receipt[s].state # "none" => receipt[s].current \in Attempts
    /\ \A n \in Attempts : attempt[s][n].raw \in {NoRaw, receipt[s].raw}
    /\ \A n \in Attempts :
         CASE n = receipt[s].current -> attempt[s][n].state = receipt[s].state
           [] n < receipt[s].current -> attempt[s][n].state = "uncertain" /\ held[attempt[s][n].by].lapsed
           [] OTHER -> attempt[s][n] = NoAttempt

\* The effects of a message are applied when it is committed, once, and then
\* every attachment of the attempt that was committed is in the store ("A
\* planned artifact means the R2 outcome may be unknown", planArtifacts()).
AppliedWhole ==
  \A s \in Sources :
    /\ applied[s] = IF receipt[s].state = "committed" THEN 1 ELSE 0
    /\ receipt[s].state = "committed" =>
         \A p \in attempt[s][receipt[s].current].planned : <<s, receipt[s].current, p>> \in objects

\* The receipts keep what InboundDelivery promises.
Outcome == [s \in Sources |-> IF receipt[s].state \in Terminal THEN receipt[s].state ELSE "open"]
Content == [s \in Sources |-> receipt[s].raw]
Delivery == INSTANCE InboundDelivery WITH outcome <- Outcome, content <- Content

Delivered == Delivery!DeliverySpec

=============================================================================
