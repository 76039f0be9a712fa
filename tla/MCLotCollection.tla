--------------------------- MODULE MCLotCollection ---------------------------
(***************************************************************************)
(* Two lots, two jobs of the site and two executions, so that the second   *)
(* one is a successor at the same job or a rival with another; bids go     *)
(* from none to one.  Everything is safety, so the lots, the jobs and the  *)
(* executions may be interchanged.                                         *)
(***************************************************************************)
EXTENDS LotCollection, TLC

Symmetry == Permutations(Lots) \cup Permutations(Jobs) \cup Permutations(Execs)
===============================================================================
