---------------------------- MODULE MCAlertDelivery ----------------------------
(***************************************************************************)
(* One alert on two channels, two lots and two executions that overlap,    *)
(* each with either lot or both; a device of the alert's owner, which may  *)
(* go to another and die at its second failure.  The windows differ (the   *)
(* push opens again at 1, the e-mail does not), so that one channel of an  *)
(* alert is closed while the other is open.                                *)
(***************************************************************************)
EXTENDS AlertDelivery, TLC

CONSTANTS o1
MCOwnerOf  == [a \in Alerts |-> o1]
MCWindow   == [ch \in Channels |-> IF ch = "push" THEN 1 ELSE 2]
Symmetry   == Permutations(Lots) \cup Permutations(Alerts) \cup Permutations(Execs)
================================================================================
