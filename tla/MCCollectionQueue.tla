--------------------------- MODULE MCCollectionQueue ---------------------------
(***************************************************************************)
(* Two collections and a refresh of one source and a daily collection with *)
(* a browser, one slot of each kind, in serial and in parallel mode.  The  *)
(* first collection has a connector that never answers; a failed run slows *)
(* the source down for a unit of time, and the process dies once.          *)
(***************************************************************************)
EXTENDS CollectionQueue

CONSTANTS c1, c2, r1, d1

MCKindOf   == [j \in Jobs |-> IF j = d1 THEN "daily" ELSE IF j = r1 THEN "refresh" ELSE "collect"]
MCSourceOf == [j \in Jobs |-> IF j = d1 THEN "daily site" ELSE "source"]
MCSources  == {"source", "daily site"}
MCSlots    == [k \in Kinds |-> 1]
================================================================================
