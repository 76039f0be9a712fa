--------------------------- MODULE MCPaymentRecovery ---------------------------
(***************************************************************************)
(* Liveness: two replicas, one payment with two events, and two faults, so *)
(* that the replica which takes over from a dead one may fail as well.     *)
(***************************************************************************)
EXTENDS PaymentReconciliation

CONSTANTS e1, e2, p1

MCPay == [e \in Events |-> p1]
================================================================================
