----------------------------- MODULE AccessPromise -----------------------------
(***************************************************************************)
(* What the processing of payments promises to a subscriber, without       *)
(* webhooks, queues, leases, snapshots or replicas.  The registration is   *)
(* bound once, to a confirmed payment of its own checkout, and with it     *)
(* comes the one activation.  While it is bound, confirmed payments of the *)
(* subscription are granted, for good.  Bad news of a payment of the       *)
(* checkout, or a second confirmed one, puts it under review: nothing more *)
(* is granted or bound until a human has looked.                           *)
(***************************************************************************)
EXTENDS Naturals

CONSTANTS
  Payments,    (* payments of the subscription                               *)
  Nobody       (* no payment                                                 *)

VARIABLES
  confirmed,   (* payments the provider has confirmed at some time, and ...  *)
  complained,  (* ... of which it has had bad news                           *)
  chosen,      (* payments that carry the session of the checkout            *)
  owner,       (* the payment the registration is bound by                   *)
  standing,    (* "none", "paid_pending_activation" or "review"              *)
  invited,     (* activations handed out                                     *)
  granted      (* payments that count as paid access                         *)

avars == <<confirmed, complained, chosen, owner, standing, invited, granted>>

AInit ==
  /\ confirmed  = {}
  /\ complained = {}
  /\ chosen \in SUBSET Payments
  /\ owner      = Nobody
  /\ standing   = "none"
  /\ invited    = 0
  /\ granted    = {}

(* The provider; what it has said once it has said.                          *)
Say(p) ==
  /\ \/ confirmed' = confirmed \cup {p} /\ UNCHANGED complained
     \/ complained' = complained \cup {p} /\ UNCHANGED confirmed
  /\ UNCHANGED <<chosen, owner, standing, invited, granted>>

Bind(p) ==
  /\ standing = "none"
  /\ p \in chosen \cap confirmed
  /\ owner'    = p
  /\ standing' = "paid_pending_activation"
  /\ invited'  = invited + 1
  /\ UNCHANGED <<confirmed, complained, chosen, granted>>

(* The first that is heard of the checkout is bad.                           *)
Reject(p) ==
  /\ standing = "none"
  /\ p \in chosen \cap complained
  /\ owner'    = p
  /\ standing' = "review"
  /\ UNCHANGED <<confirmed, complained, chosen, invited, granted>>

Withdraw(p) ==
  /\ standing = "paid_pending_activation"
  /\ p \in chosen
  /\ p \in complained \/ (p \in confirmed /\ p # owner)
  /\ standing' = "review"
  /\ UNCHANGED <<confirmed, complained, chosen, owner, invited, granted>>

Grant(p) ==
  /\ standing = "paid_pending_activation"
  /\ p \in confirmed
  /\ granted' = granted \cup {p}
  /\ UNCHANGED <<confirmed, complained, chosen, owner, standing, invited>>

ANext == \E p \in Payments : Say(p) \/ Bind(p) \/ Reject(p) \/ Withdraw(p) \/ Grant(p)

ASpec == AInit /\ [][ANext]_avars
================================================================================
