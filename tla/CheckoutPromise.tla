--------------------------- MODULE CheckoutPromise ---------------------------
(***************************************************************************)
(* What the checkout dispatcher promises, without workers, leases, crashes *)
(* or time.  A registration is charged through at most one checkout at the *)
(* payment provider; "created" is said only of a checkout that exists, and *)
(* "rejected" only when none exists and none will ever be made.  A verdict *)
(* of "unknown" stands for a human to look at; the provider may still be   *)
(* making the checkout, and a late answer may turn it into "created".      *)
(***************************************************************************)
EXTENDS Naturals

CONSTANT Registrations   (* rows of `cadastros' that asked for a checkout *)

VARIABLES
  verdict,   (* what the database says of the registration's checkout   *)
  orders     (* how many checkouts the provider holds for it            *)

pvars == <<verdict, orders>>

Verdicts == {"pending", "created", "rejected", "unknown"}

PInit ==
  /\ verdict = [r \in Registrations |-> "pending"]
  /\ orders  = [r \in Registrations |-> 0]

(* The provider makes the checkout: at most once, and never after "rejected". *)
Order(r) ==
  /\ verdict[r] \in {"pending", "unknown"}
  /\ orders[r] = 0
  /\ orders' = [orders EXCEPT ![r] = 1]
  /\ UNCHANGED verdict

Confirm(r) ==
  /\ verdict[r] \in {"pending", "unknown"}
  /\ orders[r] = 1
  /\ verdict' = [verdict EXCEPT ![r] = "created"]
  /\ UNCHANGED orders

Refuse(r) ==
  /\ verdict[r] = "pending"
  /\ orders[r] = 0
  /\ verdict' = [verdict EXCEPT ![r] = "rejected"]
  /\ UNCHANGED orders

(* Recovery gives up on every overdue dispatch in one statement, so several *)
(* registrations may fall in doubt at once.                                 *)
Doubt(S) ==
  /\ \A r \in S : verdict[r] = "pending"
  /\ verdict' = [r \in Registrations |->
                   IF r \in S THEN "unknown" ELSE verdict[r]]
  /\ UNCHANGED orders

PNext ==
  \/ \E r \in Registrations : Order(r) \/ Confirm(r) \/ Refuse(r)
  \/ \E S \in SUBSET Registrations : Doubt(S)

PSpec == PInit /\ [][PNext]_pvars
==============================================================================
