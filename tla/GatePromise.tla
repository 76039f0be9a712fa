------------------------------ MODULE GatePromise ------------------------------
(***************************************************************************)
(* What the gate of the worker promises to the operations it is given,     *)
(* without the chain of promises, slots or runs.  One is inside at a time. *)
(* An operation is let in, or turned away, when all that were there before *)
(* it have left, however they left: nobody is overtaken.  The promise ends *)
(* with the process, and begins again with the next one.                   *)
(***************************************************************************)
CONSTANT Operations

VARIABLES
  stage,   (* where an operation stands                                      *)
  ahead    (* those that were there before it, of which it waits for the end *)

gvars == <<stage, ahead>>

GInit ==
  /\ stage = [o \in Operations |-> "out"]
  /\ ahead = [o \in Operations |-> {}]

Ask(o) ==
  /\ stage[o] = "out"
  /\ stage' = [stage EXCEPT ![o] = "waiting"]
  /\ ahead' = [ahead EXCEPT ![o] = {p \in Operations : stage[p] \in {"waiting", "in"}}]

Admit(o) ==
  /\ stage[o] = "waiting"
  /\ ahead[o] = {}
  /\ \A p \in Operations : stage[p] # "in"
  /\ stage' = [stage EXCEPT ![o] = "in"]
  /\ UNCHANGED ahead

(* It is done or has thrown, or it is turned away at its turn.               *)
Leave(o) ==
  /\ stage[o] = "in" \/ (stage[o] = "waiting" /\ ahead[o] = {})
  /\ stage' = [stage EXCEPT ![o] = "left"]
  /\ ahead' = [p \in Operations |-> ahead[p] \ {o}]

Restart ==
  /\ stage' = [o \in Operations |-> "out"]
  /\ ahead' = [o \in Operations |-> {}]

GNext == Restart \/ \E o \in Operations : Ask(o) \/ Admit(o) \/ Leave(o)

GSpec == GInit /\ [][GNext]_gvars
================================================================================
