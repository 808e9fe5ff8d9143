------------------------------ MODULE MCLedger ------------------------------
(* Nodes that reward and punish the same peers (AUDIT_REWARD = 1,           *)
(* AUDIT_PENALTY = 5).                                                      *)
EXTENDS Ledger

AuditAmounts == {1, -5}
=============================================================================
