---------------------------- MODULE MCBudgetAudit ----------------------------
(* The instances of MCOwnerAggregate, with the auditor beside them. *)
EXTENDS BudgetAudit, MCOwnerAggregate
=============================================================================
