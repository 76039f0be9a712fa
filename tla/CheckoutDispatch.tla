--------------------------- MODULE CheckoutDispatch ---------------------------
(***************************************************************************)
(* From a registration's invitation to a checkout at the payment provider. *)
(*                                                                         *)
(* Confirming the e-mailed invitation queues one checkout attempt, a row   *)
(* of onboarding_checkout_attempts.  Every API replica polls the queue     *)
(* (OnboardingCheckoutDispatcher.dispatchOnce): it writes off the attempts *)
(* left "dispatching" for more than two minutes, claims one "requested"    *)
(* attempt, asks the provider for a checkout and records the answer.  The  *)
(* replicas share nothing but the row; each awaited statement is a step of *)
(* its own here, so crashes, database errors and the other replicas come   *)
(* between any two of them.                                                *)
(*                                                                         *)
(* createPendingInvitationAtomic makes one checkout invitation for each    *)
(* registration, so registration, invitation and attempt share one index.  *)
(* A worker is a replica's dispatch loop; its in-flight guard allows it    *)
(* one dispatchOnce at a time.                                             *)
(*                                                                         *)
(* validSnapshot and the TypeErrors of createCheckout are left out: the    *)
(* table's CHECK constraints and the configuration loader rule them out.   *)
(*                                                                         *)
(* A name with an underscore and a suffix is the definition before the     *)
(* underscore with a plausible mistake in it.  No behaviour uses it: it is *)
(* there to see that a property would notice.                              *)
(***************************************************************************)
EXTENDS Naturals

CONSTANTS
  Registrations,   (* rows of `cadastros'                                   *)
  Allowed,         (* those whose e-mail address is on the allowlist        *)
  Workers,         (* replicas that run the dispatch loop                   *)
  NoJob,           (* a worker that holds no attempt                        *)
  MaxFaults        (* bound: crashes and database errors in a behaviour     *)

ASSUME AllowedAssumption == Allowed \subseteq Registrations
ASSUME NoJobAssumption   == NoJob \notin Registrations
ASSUME FaultsAssumption  == MaxFaults \in Nat

VARIABLES
  invitation,  (* the checkout invitation                                   *)
  attempt,     (* onboarding_checkout_attempts.state                        *)
  errorCode,   (* .safe_error_code                                          *)
  linked,      (* .checkout_id and .checkout_link are filled in             *)
  overdue,     (* .updated_at is more than STALE_DISPATCH_MS ago            *)
  orders,      (* checkouts the provider made for the attempt               *)
  pc,          (* where each worker stands in dispatchOnce                  *)
  job,         (* the attempt a worker claimed                              *)
  answer,      (* how createCheckout ended                                  *)
  faults       (* crashes and database errors so far                        *)

rows == <<invitation, attempt, errorCode, linked, overdue>>
vars == <<invitation, attempt, errorCode, linked, overdue, orders,
          pc, job, answer, faults>>

States  == {"requested", "dispatching", "created", "rejected", "unknown"}
Active  == States \ {"rejected"}
Codes   == {"none", "provider_request_rejected", "provider_outcome_unknown",
            "dispatch_outcome_unknown"}
Answers == {"none", "created", "rejected", "unknown"}
Places  == {"idle", "recovered", "claimed", "answered", "store_failed"}

TypeOK ==
  /\ invitation \in [Registrations -> {"none", "open", "expired", "consumed"}]
  /\ attempt   \in [Registrations -> States \cup {"none"}]
  /\ errorCode \in [Registrations -> Codes]
  /\ linked    \in [Registrations -> BOOLEAN]
  /\ overdue   \in [Registrations -> BOOLEAN]
  /\ orders    \in [Registrations -> Nat]
  /\ pc        \in [Workers -> Places]
  /\ job       \in [Workers -> Registrations \cup {NoJob}]
  /\ answer    \in [Workers -> Answers]
  /\ faults    \in 0..MaxFaults

Init ==
  /\ invitation = [r \in Registrations |-> "none"]
  /\ attempt    = [r \in Registrations |-> "none"]
  /\ errorCode  = [r \in Registrations |-> "none"]
  /\ linked     = [r \in Registrations |-> FALSE]
  /\ overdue    = [r \in Registrations |-> FALSE]
  /\ orders     = [r \in Registrations |-> 0]
  /\ pc         = [w \in Workers |-> "idle"]
  /\ job        = [w \in Workers |-> NoJob]
  /\ answer     = [w \in Workers |-> "none"]
  /\ faults     = 0

-----------------------------------------------------------------------------
(* The registration's side.                                                  *)

(* createPendingInvitationAtomic: the second call for the same person finds  *)
(* the row and inserts nothing.                                              *)
Invite(r) ==
  /\ invitation[r] = "none"
  /\ invitation' = [invitation EXCEPT ![r] = "open"]
  /\ UNCHANGED <<attempt, errorCode, linked, overdue, orders, pc, job, answer, faults>>

(* The 24 hours of the invitation pass.                                      *)
Expire(r) ==
  /\ invitation[r] = "open"
  /\ invitation' = [invitation EXCEPT ![r] = "expired"]
  /\ UNCHANGED <<attempt, errorCode, linked, overdue, orders, pc, job, answer, faults>>

(* consumeInvitationAtomic: one transaction under row locks.                 *)
Consume(r) ==
  /\ invitation[r] = "open"
  /\ attempt[r] \notin Active
  /\ invitation' = [invitation EXCEPT ![r] = "consumed"]
  /\ attempt'    = [attempt EXCEPT ![r] = "requested"]
  /\ UNCHANGED <<errorCode, linked, overdue, orders, pc, job, answer, faults>>

(* Two minutes pass over a row that is being dispatched.                     *)
Age(r) ==
  /\ attempt[r] = "dispatching"
  /\ ~overdue[r]
  /\ overdue' = [overdue EXCEPT ![r] = TRUE]
  /\ UNCHANGED <<invitation, attempt, errorCode, linked, orders, pc, job, answer, faults>>

-----------------------------------------------------------------------------
(* The conditional updates of the repository, as what they do to row r.      *)

Overdue_Never == {r \in Allowed : attempt[r] = "requested" /\ overdue[r]}

Overdue == {r \in Allowed : attempt[r] = "dispatching" /\ overdue[r]}

(* Retries what may have been sent already.                                  *)
RecoverStaleDispatches_Requeue ==
  /\ attempt'   = [r \in Registrations |->
                     IF r \in Overdue THEN "requested" ELSE attempt[r]]
  /\ overdue'   = [r \in Registrations |-> overdue[r] /\ r \notin Overdue]
  /\ UNCHANGED errorCode

RecoverStaleDispatches ==
  /\ attempt'   = [r \in Registrations |->
                     IF r \in Overdue THEN "unknown" ELSE attempt[r]]
  /\ errorCode' = [r \in Registrations |->
                     IF r \in Overdue THEN "dispatch_outcome_unknown" ELSE errorCode[r]]
  /\ overdue'   = [r \in Registrations |-> overdue[r] /\ r \notin Overdue]

SetState(r, state, code) ==
  /\ attempt'   = [attempt   EXCEPT ![r] = state]
  /\ errorCode' = [errorCode EXCEPT ![r] = code]
  /\ overdue'   = [overdue   EXCEPT ![r] = FALSE]

AcceptsCheckout_DispatchingOnly(r) == attempt[r] = "dispatching"

(* A recovered attempt may still be turned into "created" by a late answer;  *)
(* one whose outcome the provider itself left unknown may not.               *)
AcceptsCheckout(r) ==
  \/ attempt[r] = "dispatching"
  \/ attempt[r] = "unknown" /\ errorCode[r] = "dispatch_outcome_unknown"

MarkCreated(r) ==
  IF AcceptsCheckout(r)
  THEN /\ SetState(r, "created", "none")
       /\ linked' = [linked EXCEPT ![r] = TRUE]
  ELSE UNCHANGED <<attempt, errorCode, overdue, linked>>

MarkRejected_Unguarded(r) ==
  SetState(r, "rejected", "provider_request_rejected") /\ UNCHANGED linked

MarkRejected(r) ==
  IF attempt[r] = "dispatching"
  THEN SetState(r, "rejected", "provider_request_rejected") /\ UNCHANGED linked
  ELSE UNCHANGED <<attempt, errorCode, overdue, linked>>

MarkUnknown(r) ==
  IF attempt[r] = "dispatching"
  THEN SetState(r, "unknown", "provider_outcome_unknown") /\ UNCHANGED linked
  ELSE UNCHANGED <<attempt, errorCode, overdue, linked>>

-----------------------------------------------------------------------------
(* A worker's dispatchOnce, one awaited call at a time.                      *)

(* The stage of the poll loop returns, or is abandoned: nothing is kept.     *)
Rest(w) ==
  /\ pc'     = [pc     EXCEPT ![w] = "idle"]
  /\ job'    = [job    EXCEPT ![w] = NoJob]
  /\ answer' = [answer EXCEPT ![w] = "none"]

Recover(w) ==
  /\ pc[w] = "idle"
  /\ RecoverStaleDispatches
  /\ pc' = [pc EXCEPT ![w] = "recovered"]
  /\ UNCHANGED <<invitation, linked, orders, job, answer, faults>>

(* claimNext skips rows another replica is claiming; which of the queued     *)
(* rows is the oldest is left open.                                          *)
Claim(w) ==
  /\ pc[w] = "recovered"
  /\ \E r \in Allowed :
       /\ attempt[r] = "requested"
       /\ attempt' = [attempt EXCEPT ![r] = "dispatching"]
       /\ overdue' = [overdue EXCEPT ![r] = FALSE]
       /\ job'     = [job EXCEPT ![w] = r]
  /\ pc' = [pc EXCEPT ![w] = "claimed"]
  /\ UNCHANGED <<invitation, errorCode, linked, orders, answer, faults>>

FindNothing(w) ==
  /\ pc[w] = "recovered"
  /\ \A r \in Allowed : attempt[r] # "requested"
  /\ Rest(w)
  /\ UNCHANGED <<rows, orders, faults>>

(* Takes any 2xx for a checkout.                                             *)
Outcomes_AnyBodyIsCheckout == {<<1, "created">>, <<0, "created">>, <<0, "rejected">>}

(* How POST /checkouts may end: <<checkouts made, error class the caller     *)
(* sees>>.  Only a 4xx other than 408 and 429 is taken for a refusal.  A     *)
(* timeout, a broken connection, a 5xx and an unreadable body all leave open *)
(* whether the provider made the checkout.                                   *)
Outcomes == {<<1, "created">>, <<1, "unknown">>, <<0, "rejected">>, <<0, "unknown">>}

CreateCheckout(w) ==
  /\ pc[w] = "claimed"
  /\ \E o \in Outcomes :
       /\ orders' = [orders EXCEPT ![job[w]] = @ + o[1]]
       /\ answer' = [answer EXCEPT ![w] = o[2]]
  /\ pc' = [pc EXCEPT ![w] = "answered"]
  /\ UNCHANGED <<rows, job, faults>>

StoreCreated(w) ==
  /\ pc[w] = "answered"
  /\ answer[w] = "created"
  /\ MarkCreated(job[w])
  /\ Rest(w)
  /\ UNCHANGED <<invitation, orders, faults>>

StoreRejected(w) ==
  /\ pc[w] = "answered"
  /\ answer[w] = "rejected"
  /\ MarkRejected(job[w])
  /\ Rest(w)
  /\ UNCHANGED <<invitation, orders, faults>>

(* Either the provider's answer said nothing, or markCreated threw.          *)
StoreUnknown(w) ==
  /\ \/ pc[w] = "answered" /\ answer[w] = "unknown"
     \/ pc[w] = "store_failed"
  /\ MarkUnknown(job[w])
  /\ Rest(w)
  /\ UNCHANGED <<invitation, orders, faults>>

Fault ==
  /\ faults < MaxFaults
  /\ faults' = faults + 1

(* markCreated throws: the update was not made, or it was committed and the  *)
(* connection broke before the result came back.                             *)
FailToStoreCreated(w) ==
  /\ Fault
  /\ pc[w] = "answered"
  /\ answer[w] = "created"
  /\ \/ MarkCreated(job[w])
     \/ UNCHANGED <<attempt, errorCode, overdue, linked>>
  /\ pc' = [pc EXCEPT ![w] = "store_failed"]
  /\ UNCHANGED <<invitation, orders, job, answer>>

(* The process dies, or a statement other than markCreated throws and        *)
(* dispatchOnce with it: the row stays as it is.                             *)
Abandon(w) ==
  /\ Fault
  /\ pc[w] # "idle"
  /\ Rest(w)
  /\ UNCHANGED <<rows, orders>>

Dispatch(w) ==
  \/ Recover(w) \/ Claim(w) \/ FindNothing(w) \/ CreateCheckout(w)
  \/ StoreCreated(w) \/ StoreRejected(w) \/ StoreUnknown(w)

Next ==
  \/ \E r \in Registrations : Invite(r) \/ Expire(r) \/ Consume(r) \/ Age(r)
  \/ \E w \in Workers : Dispatch(w) \/ FailToStoreCreated(w) \/ Abandon(w)

Spec == Init /\ [][Next]_vars

-----------------------------------------------------------------------------
(* Properties.                                                               *)

(* No registration is ever given two checkouts to pay, whatever crashes,     *)
(* overtakes or is retried: a claimed attempt is never put back in the queue *)
(* (onboarding-checkout-dispatcher.ts:64).                                   *)
AtMostOneOrder == \A r \in Registrations : orders[r] <= 1

(* "created" is said of, and only of, a checkout that the provider has and   *)
(* whose link is stored for the payment e-mail.                              *)
CreatedIsPayable ==
  \A r \in Registrations :
    /\ attempt[r] = "created" => linked[r] /\ orders[r] = 1
    /\ linked[r] => attempt[r] = "created"

(* A rejected attempt releases the registration (the unique index on active  *)
(* attempts leaves it out), so no checkout may exist for it, and no worker   *)
(* may still be about to make one.                                           *)
RejectedIsSafeToRetry ==
  \A r \in Registrations : attempt[r] = "rejected" =>
    /\ orders[r] = 0
    /\ \A w \in Workers : job[w] # r

(* A settled attempt never changes again, except that a recovered one may    *)
(* become "created".                                                         *)
SettledIsFinal ==
  [][\A r \in Registrations :
       /\ attempt[r] \in {"created", "rejected"} => attempt'[r] = attempt[r]
       /\ attempt[r] = "unknown" =>
            \/ attempt'[r] = "unknown" /\ errorCode'[r] = errorCode[r]
            \/ attempt'[r] = "created" /\ errorCode[r] = "dispatch_outcome_unknown"]_vars

(* A checkout a live worker heard of is never dropped: when it records the   *)
(* answer without an error the attempt is "created", even if a replica had   *)
(* written the attempt off in the meantime.                                  *)
LateAnswerIsKept ==
  [][\A w \in Workers :
       (pc[w] = "answered" /\ answer[w] = "created" /\ pc'[w] = "idle" /\ faults' = faults)
         => attempt'[job[w]] = "created"]_vars

-----------------------------------------------------------------------------
(* Why they hold: the inductive invariant.                                   *)

(* A worker holds an attempt exactly between the claim and its last write,   *)
(* and knows an answer exactly after the call.                               *)
Bookkeeping ==
  \A w \in Workers :
    /\ job[w] = NoJob <=> pc[w] \in {"idle", "recovered"}
    /\ answer[w] # "none" <=> pc[w] \in {"answered", "store_failed"}
    /\ pc[w] = "store_failed" => answer[w] = "created"

ClaimsAreExclusive ==
  \A v, w \in Workers : job[v] = job[w] /\ job[v] # NoJob => v = w

QueuedIsUntouched ==
  \A r \in Registrations :
    /\ invitation[r] # "consumed" => attempt[r] = "none"
    /\ attempt[r] \in {"none", "requested"} =>
         orders[r] = 0 /\ \A w \in Workers : job[w] # r

(* While a worker holds an attempt its row can still take a checkout, and    *)
(* what the worker believes of the provider is true.                         *)
HeldIsOpen ==
  \A w \in Workers : job[w] # NoJob =>
    /\ AcceptsCheckout(job[w]) \/ (pc[w] = "store_failed" /\ attempt[job[w]] = "created")
    /\ pc[w] = "claimed" \/ answer[w] = "rejected" => orders[job[w]] = 0
    /\ answer[w] = "created" => orders[job[w]] = 1

IInv ==
  /\ TypeOK
  /\ Bookkeeping
  /\ ClaimsAreExclusive
  /\ QueuedIsUntouched
  /\ HeldIsOpen
  /\ AtMostOneOrder
  /\ CreatedIsPayable
  /\ RejectedIsSafeToRetry

-----------------------------------------------------------------------------
(* The abstract promise.                                                     *)

verdict == [r \in Registrations |->
              IF attempt[r] \in {"created", "rejected", "unknown"}
              THEN attempt[r] ELSE "pending"]

Promise == INSTANCE CheckoutPromise WITH
             Registrations <- Registrations,
             verdict       <- verdict,
             orders        <- orders

KeepsPromise == Promise!PSpec
=============================================================================
