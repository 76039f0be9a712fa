------------------------- MODULE PaymentReconciliation -------------------------
(***************************************************************************)
(* From the payment provider's webhooks to paid access.                    *)
(*                                                                         *)
(* A webhook only puts an event into the inbox.  Replicas poll the inbox,  *)
(* ask the provider for the canonical payment and subscription, and then   *)
(* bind the first eligible payment to the registration (the initial        *)
(* payment, with an activation invitation and its e-mail), or record a     *)
(* payment of a bound subscription in the ledger of paid access, or send   *)
(* the event to review.  Each await is a step of its own: the provider     *)
(* changes its mind, leases lapse, replicas die and the other replicas     *)
(* work on the same or on other events between any two of them.            *)
(*                                                                         *)
(* One subscriber is modelled: one registration on the allowlist, one      *)
(* checkout attempt in state `created', one subscription.  Subscribers     *)
(* share no row.  The two GETs of a payment and its subscription are one   *)
(* step, and what they say is abstracted to the verdict the code reads off *)
(* them (an eligible payment has its date of confirmation, which does not  *)
(* change).  An event may be taken whenever it is in the queue: the thirty *)
(* seconds between two attempts may pass between any two steps.            *)
(*                                                                         *)
(* A name with an underscore and a suffix is the definition before the     *)
(* underscore with a plausible mistake in it; no behaviour uses it.        *)
(***************************************************************************)
EXTENDS Naturals

CONSTANTS
  Events,      (* webhook events of kind `payment'                           *)
  Payments,    (* payments of the subscription                               *)
  Pay,         (* the payment each event is about                            *)
  Workers,     (* replicas that run the processing loop                      *)
  Nothing,     (* no event, no payment or no worker                          *)
  MaxFaults    (* bound: crashes, stalls and failed calls in a behaviour     *)

ASSUME PayAssumption       == Pay \in [Events -> Payments]
ASSUME NothingAssumption   == Nothing \notin Events \cup Payments \cup Workers
ASSUME PayFaultsAssumption == MaxFaults \in Nat

VARIABLES
  evidence,      (* what the provider would answer about a payment           *)
  everEligible,  (* payments that once were eligible, and ...                *)
  everReview,    (* ... that once gave cause for review                      *)
  session,       (* payments that carry the checkout's session               *)
  inbox,         (* asaas_webhook_inbox.status                               *)
  initial,       (* onboarding_initial_payments.payment_id                   *)
  initialEvent,  (* .source_event_id                                         *)
  initialState,  (* .state                                                   *)
  invitations,   (* activation invitations made, each with its outbox row    *)
  ledger,        (* source_event_id of a payment's row of paid access        *)
  lease,         (* the attempt's reconciliation lease                       *)
  holder,        (* the worker that knows the lease's token                  *)
  pc, event,     (* where each worker stands, and the event it processes     *)
  seen,          (* the verdict on the snapshots it holds                    *)
  faults         (* crashes, stalls and failed calls so far                  *)

provider == <<evidence, everEligible, everReview, session>>
binding  == <<initial, initialEvent, initialState, invitations>>
leasing  == <<lease, holder>>
worker   == <<pc, event, seen>>
vars     == <<provider, inbox, binding, ledger, leasing, worker, faults>>

Verdicts == {"pending", "eligible", "review"}
Places   == {"idle", "taken", "evidence", "owner", "reconcile", "claim", "leased",
             "commit", "committed", "owner_again", "record", "finish", "review"}

TypeOK ==
  /\ evidence     \in [Payments -> Verdicts]
  /\ everEligible \in SUBSET Payments
  /\ everReview   \in SUBSET Payments
  /\ session      \in SUBSET Payments
  /\ inbox        \in [Events -> {"absent", "pending", "reconciled", "review"}]
  /\ initial      \in Payments \cup {Nothing}
  /\ initialEvent \in Events \cup {Nothing}
  /\ initialState \in {"none", "paid_pending_activation", "review"}
  /\ invitations  \in Nat
  /\ ledger       \in [Payments -> Events \cup {Nothing}]
  /\ lease        \in {"free", "live", "lapsed"}
  /\ holder       \in Workers \cup {Nothing}
  /\ pc           \in [Workers -> Places]
  /\ event        \in [Workers -> Events \cup {Nothing}]
  /\ seen         \in [Workers -> Verdicts \cup {"none"}]
  /\ faults       \in 0..MaxFaults

Init ==
  /\ evidence     = [p \in Payments |-> "pending"]
  /\ everEligible = {}
  /\ everReview   = {}
  /\ session      \in SUBSET Payments
  /\ inbox        = [e \in Events |-> "absent"]
  /\ initial      = Nothing
  /\ initialEvent = Nothing
  /\ initialState = "none"
  /\ invitations  = 0
  /\ ledger       = [p \in Payments |-> Nothing]
  /\ lease        = "free"
  /\ holder       = Nothing
  /\ pc           = [w \in Workers |-> "idle"]
  /\ event        = [w \in Workers |-> Nothing]
  /\ seen         = [w \in Workers |-> "none"]
  /\ faults       = 0

-----------------------------------------------------------------------------
(* The provider and the clock.                                               *)

(* A payment is confirmed, falls overdue or is refunded; the subscription is *)
(* cancelled or comes back.  A payment does not become `PENDING' again.      *)
Turn(p) ==
  /\ \E v \in {"eligible", "review"} \ {evidence[p]} :
       /\ evidence'     = [evidence EXCEPT ![p] = v]
       /\ everEligible' = IF v = "eligible" THEN everEligible \cup {p} ELSE everEligible
       /\ everReview'   = IF v = "review" THEN everReview \cup {p} ELSE everReview
  /\ UNCHANGED <<session, inbox, binding, ledger, leasing, worker, faults>>

(* Webhooks come late, in any order and more than once; the repeated ones    *)
(* find the event's row and leave it alone.                                  *)
Receive(e) ==
  /\ inbox[e] = "absent"
  /\ inbox' = [inbox EXCEPT ![e] = "pending"]
  /\ UNCHANGED <<provider, binding, ledger, leasing, worker, faults>>

(* The lease of a worker that died lapses.                                   *)
Lapse ==
  /\ lease = "live"
  /\ holder = Nothing
  /\ lease' = "lapsed"
  /\ UNCHANGED <<provider, inbox, binding, ledger, holder, worker, faults>>

-----------------------------------------------------------------------------
(* The worker's bookkeeping.                                                 *)

Payment(w) == Pay[event[w]]

Go(w, place) == pc' = [pc EXCEPT ![w] = place] /\ UNCHANGED <<event, seen>>

Rest(w) ==
  /\ pc'    = [pc    EXCEPT ![w] = "idle"]
  /\ event' = [event EXCEPT ![w] = Nothing]
  /\ seen'  = [seen  EXCEPT ![w] = "none"]

InQueue_PendingOnly(e) == inbox[e] = "pending"

(* takeBatch and readCandidate: an event that bound the initial payment      *)
(* stays in the queue until the payment is in the ledger.                    *)
InQueue(e) ==
  \/ inbox[e] = "pending"
  \/ /\ inbox[e] = "reconciled"
     /\ initialEvent = e
     /\ initialState = "paid_pending_activation"
     /\ ledger[initial] = Nothing

Owned == initialState = "paid_pending_activation"

HoldsLease(w) == holder = w /\ lease = "live"

FreeLease == lease' = "free" /\ holder' = Nothing

-----------------------------------------------------------------------------
(* OnboardingPaidPaymentCoordinator.process, up to the reconciler.           *)

TakeBatch(w, e) ==
  /\ pc[w] = "idle"
  /\ InQueue(e)
  /\ pc'    = [pc    EXCEPT ![w] = "taken"]
  /\ event' = [event EXCEPT ![w] = e]
  /\ UNCHANGED <<provider, inbox, binding, ledger, leasing, seen, faults>>

ReadCandidate(w) ==
  /\ pc[w] = "taken"
  /\ IF InQueue(event[w]) THEN Go(w, "evidence") ELSE Rest(w)
  /\ UNCHANGED <<provider, inbox, binding, ledger, leasing, faults>>

AfterEvidence(place) ==
  CASE place = "evidence"  -> "owner"
    [] place = "leased"    -> "commit"
    [] place = "committed" -> "owner_again"

(* retrievePayment and retrieveSubscription.                                 *)
Retrieve(w) ==
  /\ pc[w] \in {"evidence", "leased", "committed"}
  /\ pc'   = [pc   EXCEPT ![w] = AfterEvidence(pc[w])]
  /\ seen' = [seen EXCEPT ![w] = evidence[Payment(w)]]
  /\ UNCHANGED <<provider, inbox, binding, ledger, leasing, event, faults>>

FindOwner(w) ==
  /\ pc[w] = "owner"
  /\ IF Owned THEN Go(w, "record")
     ELSE IF Payment(w) \in session THEN Go(w, "reconcile")
     ELSE Rest(w)
  /\ UNCHANGED <<provider, inbox, binding, ledger, leasing, faults>>

FindOwnerAgain(w) ==
  /\ pc[w] = "owner_again"
  /\ IF Owned THEN Go(w, "record") ELSE Rest(w)
  /\ UNCHANGED <<provider, inbox, binding, ledger, leasing, faults>>

-----------------------------------------------------------------------------
(* OnboardingPaymentReconciler.reconcile.                                    *)

ReadPending(w) ==
  /\ pc[w] = "reconcile"
  /\ IF inbox[event[w]] = "pending" THEN Go(w, "claim") ELSE Rest(w)
  /\ UNCHANGED <<provider, inbox, binding, ledger, leasing, faults>>

ClaimReconciliation_NoTakeover(w) ==
  /\ pc[w] = "claim"
  /\ IF lease = "free"
     THEN lease' = "live" /\ holder' = w /\ Go(w, "leased")
     ELSE Rest(w) /\ UNCHANGED leasing
  /\ UNCHANGED <<provider, inbox, binding, ledger, faults>>

ClaimReconciliation(w) ==
  /\ pc[w] = "claim"
  /\ IF lease # "live"
     THEN /\ lease'  = "live"
          /\ holder' = w
          /\ Go(w, "leased")
     ELSE Rest(w) /\ UNCHANGED leasing
  /\ UNCHANGED <<provider, inbox, binding, ledger, faults>>

(* commitReconciliation: the lease fences everything it writes.              *)
CommitStale(w) ==
  /\ pc[w] = "commit"
  /\ ~HoldsLease(w)
  /\ Rest(w)
  /\ UNCHANGED <<provider, inbox, binding, ledger, leasing, faults>>

(* Another event of the payment, or another worker, got there first.         *)
CommitDecided(w) ==
  /\ pc[w] = "commit"
  /\ HoldsLease(w)
  /\ inbox[event[w]] \in {"reconciled", "review"}
  /\ IF /\ inbox[event[w]] = "reconciled"
        /\ initialEvent = event[w]
        /\ seen[w] = "eligible"
     THEN Go(w, "committed")
     ELSE Rest(w)
  /\ FreeLease
  /\ UNCHANGED <<provider, inbox, binding, ledger, faults>>

(* The transaction that holds the lease and finds the event undecided.       *)
Committing(w) ==
  /\ pc[w] = "commit"
  /\ HoldsLease(w)
  /\ inbox[event[w]] = "pending"

CommitPending(w) ==
  /\ Committing(w)
  /\ seen[w] = "pending"
  /\ Rest(w)
  /\ FreeLease
  /\ UNCHANGED <<provider, inbox, binding, ledger, faults>>

BindsSame_AnyPayment(w) == seen[w] = "eligible" /\ Owned

BindsSame(w) == initial = Payment(w) /\ seen[w] = "eligible" /\ Owned

CommitReplay(w) ==
  /\ Committing(w)
  /\ BindsSame(w)
  /\ inbox' = [inbox EXCEPT ![event[w]] = "reconciled"]
  /\ Go(w, "committed")
  /\ FreeLease
  /\ UNCHANGED <<provider, binding, ledger, faults>>

Conflicts_AnyEvent(w) == initial # Nothing

Conflicts(w) == initial # Nothing /\ ~BindsSame(w)

(* A second payment of the checkout, or bad news about the first: the        *)
(* subscription loses its owner.                                             *)
CommitConflict(w) ==
  /\ Committing(w)
  /\ seen[w] # "pending"
  /\ Conflicts(w)
  /\ inbox'        = [inbox EXCEPT ![event[w]] = "review"]
  /\ initialState' = "review"
  /\ Rest(w)
  /\ FreeLease
  /\ UNCHANGED <<provider, initial, initialEvent, invitations, ledger, faults>>

CommitReview(w) ==
  /\ Committing(w)
  /\ seen[w] = "review"
  /\ initial = Nothing
  /\ inbox'        = [inbox EXCEPT ![event[w]] = "review"]
  /\ initial'      = Payment(w)
  /\ initialEvent' = event[w]
  /\ initialState' = "review"
  /\ Rest(w)
  /\ FreeLease
  /\ UNCHANGED <<provider, invitations, ledger, faults>>

Binds_NoLookup(w) == seen[w] = "eligible"

Binds(w) == seen[w] = "eligible" /\ initial = Nothing

CommitEligible(w) ==
  /\ Committing(w)
  /\ Binds(w)
  /\ inbox'        = [inbox EXCEPT ![event[w]] = "reconciled"]
  /\ initial'      = Payment(w)
  /\ initialEvent' = event[w]
  /\ initialState' = "paid_pending_activation"
  /\ invitations'  = invitations + 1
  /\ Go(w, "committed")
  /\ FreeLease
  /\ UNCHANGED <<provider, ledger, faults>>

-----------------------------------------------------------------------------
(* recordCanonicalPayment, and the event's last update.                      *)

Undecided(e) == inbox[e] \in {"pending", "reconciled"}

(* No owner any more, or the provider still says `PENDING'.                  *)
RecordNothing(w) ==
  /\ pc[w] = "record"
  /\ ~Owned \/ (Undecided(event[w]) /\ seen[w] = "pending")
  /\ Rest(w)
  /\ UNCHANGED <<provider, inbox, binding, ledger, leasing, faults>>

Refused(w) ==
  \/ ~Undecided(event[w])
  \/ seen[w] = "review"
  \/ /\ seen[w] = "eligible"
     /\ Payment(w) = initial /\ Payment(w) \notin session

RecordRefused(w) ==
  /\ pc[w] = "record"
  /\ Owned
  /\ Refused(w)
  /\ Go(w, "review")
  /\ UNCHANGED <<provider, inbox, binding, ledger, leasing, faults>>

Records_Unverified(w) == pc[w] = "record" /\ Owned /\ ~Refused(w)

(* Trusts the owner it found before, and does not lock its row.              *)
Records_OwnerFoundBefore(w) ==
  /\ pc[w] = "record" /\ ~Refused(w) /\ seen[w] = "eligible"

Records(w) == pc[w] = "record" /\ Owned /\ ~Refused(w) /\ seen[w] = "eligible"

RecordReplay(w) ==
  /\ Records(w)
  /\ ledger[Payment(w)] # Nothing
  /\ Go(w, "finish")
  /\ UNCHANGED <<provider, inbox, binding, ledger, leasing, faults>>

(* The event has backed no other payment: it is about this one only.         *)
RecordNew(w) ==
  /\ Records(w)
  /\ ledger[Payment(w)] = Nothing
  /\ ledger' = [ledger EXCEPT ![Payment(w)] = event[w]]
  /\ Go(w, "finish")
  /\ UNCHANGED <<provider, inbox, binding, leasing, faults>>

FinishReconciled_AnyStatus(w) ==
  /\ pc[w] = "finish"
  /\ inbox' = [inbox EXCEPT ![event[w]] = "reconciled"]
  /\ Rest(w)
  /\ UNCHANGED <<provider, binding, ledger, leasing, faults>>

FinishReconciled(w) ==
  /\ pc[w] = "finish"
  /\ inbox' = IF Undecided(event[w]) /\ ledger[Payment(w)] # Nothing
              THEN [inbox EXCEPT ![event[w]] = "reconciled"] ELSE inbox
  /\ Rest(w)
  /\ UNCHANGED <<provider, binding, ledger, leasing, faults>>

FinishReview(w) ==
  /\ pc[w] = "review"
  /\ inbox' = IF Undecided(event[w])
              THEN [inbox EXCEPT ![event[w]] = "review"] ELSE inbox
  /\ Rest(w)
  /\ UNCHANGED <<provider, binding, ledger, leasing, faults>>

-----------------------------------------------------------------------------
(* Failures.                                                                 *)

Fault == faults < MaxFaults /\ faults' = faults + 1

(* A replica stalls for longer than its lease of two minutes, in which it    *)
(* makes two calls of at most ten seconds and one transaction.               *)
Stall(w) ==
  /\ Fault
  /\ HoldsLease(w)
  /\ lease' = "lapsed"
  /\ UNCHANGED <<provider, inbox, binding, ledger, holder, worker>>

(* The provider does not answer: the event stays where it is, and a lease    *)
(* that is still ours is given back.                                         *)
RetrieveFails(w) ==
  /\ Fault
  /\ pc[w] \in {"evidence", "claim", "leased", "committed"}
  /\ Rest(w)
  /\ IF pc[w] = "leased" /\ HoldsLease(w) THEN FreeLease ELSE UNCHANGED leasing
  /\ UNCHANGED <<provider, inbox, binding, ledger>>

(* The process dies, or a statement throws (a deadlock between the locks of  *)
(* commitReconciliation and recordCanonicalPayment is broken that way): the  *)
(* token of a lease it held is lost.                                         *)
Abandon(w) ==
  /\ Fault
  /\ pc[w] # "idle"
  /\ Rest(w)
  /\ holder' = IF holder = w THEN Nothing ELSE holder
  /\ UNCHANGED <<provider, inbox, binding, ledger, lease>>

Process(w) ==
  \/ ReadCandidate(w) \/ Retrieve(w) \/ FindOwner(w) \/ FindOwnerAgain(w)
  \/ ReadPending(w) \/ ClaimReconciliation(w)
  \/ CommitStale(w) \/ CommitDecided(w) \/ CommitPending(w) \/ CommitReplay(w)
  \/ CommitConflict(w) \/ CommitReview(w) \/ CommitEligible(w)
  \/ RecordNothing(w) \/ RecordRefused(w) \/ RecordReplay(w) \/ RecordNew(w)
  \/ FinishReconciled(w) \/ FinishReview(w)

Next ==
  \/ \E p \in Payments : Turn(p)
  \/ \E e \in Events : Receive(e)
  \/ Lapse
  \/ \E w \in Workers :
       \/ \E e \in Events : TakeBatch(w, e)
       \/ Process(w) \/ Stall(w) \/ RetrieveFails(w) \/ Abandon(w)

(* Every call returns or times out and the loop reschedules itself; the      *)
(* queue is served by the age of the last attempt, so no event is passed     *)
(* over for ever.                                                            *)
Fairness ==
  /\ \A w \in Workers : WF_vars(Process(w))
  /\ \A e \in Events : SF_vars(\E w \in Workers : TakeBatch(w, e))
  /\ WF_vars(Lapse)

Spec     == Init /\ [][Next]_vars
FairSpec == Spec /\ Fairness

-----------------------------------------------------------------------------
(* Properties.                                                               *)

(* Paid access is recorded only for a payment the provider has confirmed, by *)
(* an event about that payment, once the registration has been bound to the  *)
(* subscription.                                                             *)
LedgerIsPaid ==
  \A p \in Payments : ledger[p] # Nothing =>
    p \in everEligible /\ Pay[ledger[p]] = p /\ initial # Nothing

(* However many events, replicas and retries, one registration gets one      *)
(* activation invitation, and gets it with its paid initial payment.         *)
OneActivation ==
  /\ invitations <= 1
  /\ initialState = "paid_pending_activation" => invitations = 1
  /\ invitations = 1 => initial \in everEligible

(* An event is closed as reconciled only if its payment is the bound one or  *)
(* is in the ledger.                                                         *)
ReconciledIsBacked ==
  \A e \in Events : inbox[e] = "reconciled" =>
    Pay[e] = initial \/ ledger[Pay[e]] # Nothing

Arrived(p) == \E e \in Events : Pay[e] = p /\ inbox[e] # "absent"

Cause ==
  \/ everReview # {}
  \/ \E p, q \in session : p # q /\ Arrived(p) /\ Arrived(q)

(* Duplicated, reordered and concurrently processed events of a healthy      *)
(* payment send nothing to review: behind a review there is bad news from    *)
(* the provider, or a second payment of the same checkout.                   *)
ReviewHasCause ==
  (initialState = "review" \/ \E e \in Events : inbox[e] = "review") => Cause

(* Review is for a human to lift: no replica reopens an event in review, and *)
(* none puts a reconciled event back to pending or a lost owner back.        *)
DecisionsStand ==
  [][/\ \A e \in Events :
          /\ inbox[e] = "review" => inbox'[e] = "review"
          /\ inbox[e] = "reconciled" => inbox'[e] # "pending"
     /\ initialState = "review" => initialState' = "review"]_vars

Promise == INSTANCE AccessPromise WITH
  Nobody <- Nothing, confirmed <- everEligible, complained <- everReview, chosen <- session,
  owner <- initial, standing <- initialState, invited <- invitations,
  granted <- {p \in Payments : ledger[p] # Nothing}

(* Seen from the subscriber, whatever the events, replicas and faults: bound *)
(* once and by a confirmed payment of the checkout, activated once, granted  *)
(* only while bound and never without confirmation; put under review only    *)
(* for what the provider has said of a payment of this checkout, and from    *)
(* then on granted nothing.                                                  *)
KeepsAccessPromise == Promise!ASpec

(* Once the provider confirms every payment for good.                        *)
Healthy == <>[](\A p \in Payments : evidence[p] = "eligible")

(* The customer whose payment was bound gets the paid period, although a     *)
(* replica died between the two transactions.                                *)
BoundPaymentIsRecorded ==
  Healthy =>
    (initialState = "paid_pending_activation" ~>
       \/ initialState = "review"
       \/ \E e \in Events : e = initialEvent /\ inbox[e] = "review"
       \/ \E p \in Payments : p = initial /\ ledger[p] # Nothing)

(* An event of a payment that carries the checkout session does not stay     *)
(* pending for ever.                                                         *)
PendingIsDecided ==
  Healthy =>
    \A e \in Events :
      (inbox[e] = "pending" /\ Pay[e] \in session) ~> inbox[e] # "pending"

-----------------------------------------------------------------------------
(* Why they hold: the inductive invariant.                                   *)

(* What the provider says now it has said.                                   *)
EvidenceIsHistory ==
  \A p \in Payments :
    /\ evidence[p] = "eligible" => p \in everEligible
    /\ evidence[p] = "review" => p \in everReview

(* The initial payment's row is all there or not at all.                     *)
BindingIsWhole ==
  /\ initialState = "none" <=> initial = Nothing
  /\ initialState = "none" <=> initialEvent = Nothing
  /\ initialState = "none" => invitations = 0
  /\ initial # Nothing =>
       /\ initial \in session
       /\ Pay[initialEvent] = initial
       /\ inbox[initialEvent] # "absent"

(* What a worker believes was true once, and what it relies on still is.     *)
WorkerOK(w) ==
  /\ pc[w] = "idle" <=> event[w] = Nothing
  /\ event[w] # Nothing => inbox[event[w]] # "absent"
  /\ seen[w] = "eligible" => event[w] # Nothing /\ Payment(w) \in everEligible
  /\ seen[w] = "review" => event[w] # Nothing /\ Payment(w) \in everReview
  /\ seen[w] = "none" => pc[w] \in {"idle", "taken", "evidence"}
  /\ pc[w] \in {"reconcile", "claim", "leased", "commit"} => Payment(w) \in session
  /\ pc[w] = "finish" => ledger[Payment(w)] # Nothing
  /\ pc[w] = "review" => Cause

IInv ==
  /\ TypeOK
  /\ EvidenceIsHistory
  /\ BindingIsWhole
  /\ \A w \in Workers : WorkerOK(w)
  /\ LedgerIsPaid
  /\ OneActivation
  /\ ReconciledIsBacked
  /\ ReviewHasCause
================================================================================
