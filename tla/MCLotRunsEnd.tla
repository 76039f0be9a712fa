----------------------------- MODULE MCLotRunsEnd -----------------------------
(***************************************************************************)
(* Liveness: two executions of one job or of two, on two lots, so that     *)
(* each can hold the row the other waits for.  Which bids the lots have    *)
(* makes no difference here.                                               *)
(***************************************************************************)
EXTENDS LotCollection
===============================================================================
