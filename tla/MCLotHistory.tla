----------------------------- MODULE MCLotHistory -----------------------------
(***************************************************************************)
(* One lot with bids of one and two, and two overlapping batches.          *)
(***************************************************************************)
EXTENDS LotCollection
===============================================================================
