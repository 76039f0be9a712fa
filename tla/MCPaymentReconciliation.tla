------------------------ MODULE MCPaymentReconciliation ------------------------
(***************************************************************************)
(* Two replicas; a first payment with two events, e1 and e2, and a second  *)
(* payment of the same subscription with one, e3; one fault.  Everything   *)
(* is safety, so the replicas and the two events may be interchanged.      *)
(***************************************************************************)
EXTENDS PaymentReconciliation, TLC

CONSTANTS e1, e2, e3, p1, p2

MCPay == [e \in Events |-> IF e = e3 THEN p2 ELSE p1]

Symmetry == Permutations({e1, e2}) \cup Permutations(Workers)
================================================================================
