---------------------------- MODULE MCCheckoutMail ----------------------------
(***************************************************************************)
(* Two replicas, two registrations on the allowlist and one off it, and up *)
(* to two faults while checkouts are made: enough for a worker to die or   *)
(* be overtaken while it holds an attempt the other one writes off, and    *)
(* for both registrations to be in dispatch at once.  Two attempts at a    *)
(* mail and one fault reach the attempt past the limit, by a claim that    *)
(* ended in nothing.  The mail of one registration cannot be written.      *)
(***************************************************************************)
EXTENDS CheckoutMail

===============================================================================
