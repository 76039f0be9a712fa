----------------------------- MODULE MCAlertWindow -----------------------------
(***************************************************************************)
(* One alert told by e-mail only, three lots and three daily executions:   *)
(* one that tells, one that finds the window closed, and one after it.     *)
(***************************************************************************)
EXTENDS AlertDelivery, TLC

CONSTANT o1
MCOwnerOf == [a \in Alerts |-> o1]
MCWindow  == [ch \in Channels |-> 1]

(* Daily executions do not overlap (concurrency 1), these bring a lot each,  *)
(* and none of them breaks.                                                  *)
OneAtATime ==
  /\ \A e \in Execs : pc[e] = "idle" \/ (limited[e] /\ \E l \in Lots : novos[e] = {l})
  /\ \A e \in Execs : pc[e] # "broken"
  /\ \A e, f \in Execs : e # f => {pc[e], pc[f]} \cap {"idle", "ended"} # {}

Symmetry  == Permutations(Lots) \cup Permutations(Execs)
================================================================================
