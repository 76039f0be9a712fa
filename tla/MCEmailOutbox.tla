----------------------------- MODULE MCEmailOutbox -----------------------------
(***************************************************************************)
(* Two replicas and two rows: a checkout invitation whose mail cannot go   *)
(* out and a healthy activation.  A batch takes both, so the lease of one  *)
(* can lapse, and be taken over, while the other is being served; two      *)
(* attempts, so the limit is reached with a lease taken over.              *)
(***************************************************************************)
EXTENDS EmailOutbox

================================================================================
