--------------------------- MODULE InboundDelivery ---------------------------
(***************************************************************************)
(* What the receipts of inbound mail promise of each message, whoever      *)
(* delivers it, how often, and whoever dies on the way: it is open until   *)
(* it is committed or rejected for good, its effects are applied at most   *)
(* once, and for the bytes that were first seen.                           *)
(* "Keep terminal identities: expiring a receipt must never silently       *)
(* replay mail." (migrations/0069_inbound_email_receipts.sql)              *)
(***************************************************************************)
EXTENDS Naturals

CONSTANTS
  Sources,   \* messages, by source hash
  Raws,      \* contents, by digest
  NoRaw      \* the content has not been seen

VARIABLES
  outcome,   \* "open", "committed" or "rejected"
  content,   \* what was seen
  applied    \* how often the effects of the message were applied

deliveryVars == <<outcome, content, applied>>

DeliveryInit ==
  /\ outcome = [s \in Sources |-> "open"]
  /\ content = [s \in Sources |-> NoRaw]
  /\ applied = [s \in Sources |-> 0]

See(s, raw) ==
  /\ outcome[s] = "open" /\ content[s] = NoRaw
  /\ content' = [content EXCEPT ![s] = raw]
  /\ UNCHANGED <<outcome, applied>>

Commit(s) ==
  /\ outcome[s] = "open" /\ content[s] # NoRaw
  /\ outcome' = [outcome EXCEPT ![s] = "committed"]
  /\ applied' = [applied EXCEPT ![s] = @ + 1]
  /\ UNCHANGED content

Reject(s) ==
  /\ outcome[s] = "open"
  /\ outcome' = [outcome EXCEPT ![s] = "rejected"]
  /\ UNCHANGED <<content, applied>>

DeliveryNext ==
  \E s \in Sources : Commit(s) \/ Reject(s) \/ \E raw \in Raws : See(s, raw)

DeliverySpec == DeliveryInit /\ [][DeliveryNext]_deliveryVars

=============================================================================
