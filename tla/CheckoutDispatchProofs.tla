------------------------ MODULE CheckoutDispatchProofs ------------------------
(***************************************************************************)
(* Proofs about CheckoutDispatch, for any number of registrations,         *)
(* replicas and faults.  Everything follows from IInv: one lemma for each  *)
(* action shows that it keeps IInv, and the theorems read their property   *)
(* off it.  Then the mails: CheckoutMail is shown to behave, in what it    *)
(* shares with CheckoutDispatch, as that does, so that all this holds      *)
(* there; MailIInv is what its own variables add.                          *)
(***************************************************************************)
EXTENDS CheckoutMail, TLAPS

LEMMA InitIInv == Init => IInv
  BY AllowedAssumption, NoJobAssumption, FaultsAssumption
  DEF Init, IInv, TypeOK, Bookkeeping, ClaimsAreExclusive, QueuedIsUntouched,
      HeldIsOpen, AtMostOneOrder, CreatedIsPayable, RejectedIsSafeToRetry,
      States, Codes, Answers, Places

(* The steps of the registration and of the clock touch no worker.           *)
LEMMA RegistrationIInv ==
  ASSUME IInv, NEW r \in Registrations,
         Invite(r) \/ Expire(r) \/ Consume(r) \/ Age(r)
  PROVE  IInv'
  <1> USE DEF IInv, TypeOK, Bookkeeping, ClaimsAreExclusive, QueuedIsUntouched,
              HeldIsOpen, AtMostOneOrder, CreatedIsPayable, RejectedIsSafeToRetry,
              AcceptsCheckout, States, Codes, Answers, Places
  <1>1. CASE Invite(r)  BY <1>1 DEF Invite
  <1>2. CASE Expire(r)  BY <1>2 DEF Expire
  <1>3. CASE Consume(r) BY <1>3 DEF Consume, Active
  <1>4. CASE Age(r)     BY <1>4 DEF Age
  <1>5. QED BY <1>1, <1>2, <1>3, <1>4

LEMMA RecoverIInv ==
  ASSUME IInv, NEW w \in Workers, Recover(w)
  PROVE  IInv'
  BY AllowedAssumption
  DEF Recover, RecoverStaleDispatches, Overdue, IInv, TypeOK, Bookkeeping,
      ClaimsAreExclusive, QueuedIsUntouched, HeldIsOpen, AtMostOneOrder,
      CreatedIsPayable, RejectedIsSafeToRetry, AcceptsCheckout,
      States, Codes, Answers, Places

LEMMA ClaimIInv ==
  ASSUME IInv, NEW w \in Workers, Claim(w)
  PROVE  IInv'
  BY AllowedAssumption, NoJobAssumption
  DEF Claim, IInv, TypeOK, Bookkeeping,
      ClaimsAreExclusive, QueuedIsUntouched, HeldIsOpen, AtMostOneOrder,
      CreatedIsPayable, RejectedIsSafeToRetry, AcceptsCheckout,
      States, Codes, Answers, Places

LEMMA RestIInv ==
  ASSUME IInv, NEW w \in Workers, Rest(w), UNCHANGED <<rows, orders>>,
         faults' \in 0..MaxFaults
  PROVE  IInv'
  BY NoJobAssumption
  DEF Rest, rows, IInv, TypeOK, Bookkeeping,
      ClaimsAreExclusive, QueuedIsUntouched, HeldIsOpen, AtMostOneOrder,
      CreatedIsPayable, RejectedIsSafeToRetry, AcceptsCheckout,
      States, Codes, Answers, Places

LEMMA CreateCheckoutIInv ==
  ASSUME IInv, NEW w \in Workers, CreateCheckout(w)
  PROVE  IInv'
  BY NoJobAssumption
  DEF CreateCheckout, Outcomes, rows, IInv, TypeOK, Bookkeeping,
      ClaimsAreExclusive, QueuedIsUntouched, HeldIsOpen, AtMostOneOrder,
      CreatedIsPayable, RejectedIsSafeToRetry, AcceptsCheckout,
      States, Codes, Answers, Places

(* What the three conditional updates have in common: row r, held by w, goes *)
(* to a state that agrees with what the provider did, and w lets go of it.   *)
LEMMA SettleIInv ==
  ASSUME IInv, NEW w \in Workers, NEW r \in Registrations, r = job[w],
         NEW state \in {"created", "rejected", "unknown"}, NEW code \in Codes,
         SetState(r, state, code), Rest(w), UNCHANGED <<invitation, orders, faults>>,
         linked' = [linked EXCEPT ![r] = state = "created"],
         AcceptsCheckout(r),
         state = "created" => orders[r] = 1,
         state = "rejected" => orders[r] = 0
  PROVE  IInv'
  <1> USE NoJobAssumption DEF SetState, Rest
  <1>1. TypeOK'
    BY DEF IInv, TypeOK, States, Answers, Places
  <1>2. Bookkeeping'
    BY DEF IInv, TypeOK, Bookkeeping
  <1>3. ClaimsAreExclusive'
    BY DEF IInv, TypeOK, ClaimsAreExclusive
  <1>4. QueuedIsUntouched'
    BY DEF IInv, TypeOK, QueuedIsUntouched, AcceptsCheckout
  <1>5. HeldIsOpen'
    <2> SUFFICES ASSUME NEW v \in Workers, job'[v] # NoJob
                 PROVE  /\ AcceptsCheckout(job[v])' \/ (pc'[v] = "store_failed" /\ attempt'[job'[v]] = "created")
                        /\ pc'[v] = "claimed" \/ answer'[v] = "rejected" => orders'[job'[v]] = 0
                        /\ answer'[v] = "created" => orders'[job'[v]] = 1
      BY DEF HeldIsOpen
    <2>1. v # w /\ job'[v] = job[v] /\ pc'[v] = pc[v] /\ answer'[v] = answer[v]
      BY DEF IInv, TypeOK
    <2>2. job[v] # r /\ job[v] \in Registrations
      BY <2>1 DEF IInv, TypeOK, ClaimsAreExclusive
    <2>3. attempt'[job[v]] = attempt[job[v]] /\ errorCode'[job[v]] = errorCode[job[v]]
      BY <2>2 DEF IInv, TypeOK
    <2>4. QED BY <2>1, <2>2, <2>3 DEF IInv, HeldIsOpen, AcceptsCheckout
  <1>6. AtMostOneOrder'
    BY DEF IInv, AtMostOneOrder
  <1>7. CreatedIsPayable'
    BY DEF IInv, TypeOK, CreatedIsPayable
  <1>8. RejectedIsSafeToRetry'
    BY DEF IInv, TypeOK, RejectedIsSafeToRetry, ClaimsAreExclusive
  <1>9. QED BY <1>1, <1>2, <1>3, <1>4, <1>5, <1>6, <1>7, <1>8 DEF IInv

(* A worker that settles a row whose guard refuses it just lets go.          *)
LEMMA StoreIInv ==
  ASSUME IInv, NEW w \in Workers,
         StoreCreated(w) \/ StoreRejected(w) \/ StoreUnknown(w)
  PROVE  IInv'
  <1> DEFINE r == job[w]
  <1>1. r \in Registrations /\ r # NoJob
    BY NoJobAssumption DEF StoreCreated, StoreRejected, StoreUnknown, IInv, TypeOK, Bookkeeping
  <1>2. linked[r] => attempt[r] = "created"
    BY <1>1 DEF IInv, CreatedIsPayable
  <1> HIDE DEF r
  <1>3. ASSUME Rest(w), UNCHANGED <<invitation, orders, faults>>,
               UNCHANGED <<attempt, errorCode, overdue, linked>>
        PROVE  IInv'
    BY <1>3, RestIInv DEF rows, IInv, TypeOK
  <1>4. CASE StoreCreated(w)
    <2>1. AcceptsCheckout(r) /\ orders[r] = 1
      BY <1>1, <1>4 DEF StoreCreated, IInv, HeldIsOpen, r
    <2>2. SetState(r, "created", "none") /\ linked' = [linked EXCEPT ![r] = TRUE]
      BY <1>4, <2>1 DEF StoreCreated, MarkCreated, r
    <2>3. QED
      BY <1>1, <1>4, <2>1, <2>2, SettleIInv DEF StoreCreated, Codes, r
  <1>5. CASE StoreRejected(w)
    <2>1. orders[r] = 0
      BY <1>1, <1>5 DEF StoreRejected, IInv, HeldIsOpen, r
    <2>2. CASE attempt[r] = "dispatching"
      <3>1. SetState(r, "rejected", "provider_request_rejected") /\ linked' = linked
        BY <1>5, <2>2 DEF StoreRejected, MarkRejected, r
      <3>2. linked' = [linked EXCEPT ![r] = FALSE]
        BY <1>1, <1>2, <2>2, <3>1 DEF IInv, TypeOK
      <3>3. QED
        BY <1>1, <1>5, <2>1, <2>2, <3>1, <3>2, SettleIInv
        DEF StoreRejected, Codes, AcceptsCheckout, r
    <2>3. CASE attempt[r] # "dispatching"
      BY <1>3, <1>5, <2>3 DEF StoreRejected, MarkRejected, r
    <2>4. QED BY <2>2, <2>3
  <1>6. CASE StoreUnknown(w)
    <2>1. CASE attempt[r] = "dispatching"
      <3>1. SetState(r, "unknown", "provider_outcome_unknown") /\ linked' = linked
        BY <1>6, <2>1 DEF StoreUnknown, MarkUnknown, r
      <3>2. linked' = [linked EXCEPT ![r] = FALSE]
        BY <1>1, <1>2, <2>1, <3>1 DEF IInv, TypeOK
      <3>3. QED
        BY <1>1, <1>6, <2>1, <3>1, <3>2, SettleIInv
        DEF StoreUnknown, Codes, AcceptsCheckout, r
    <2>2. CASE attempt[r] # "dispatching"
      BY <1>3, <1>6, <2>2 DEF StoreUnknown, MarkUnknown, r
    <2>3. QED BY <2>1, <2>2
  <1>7. QED BY <1>4, <1>5, <1>6

(* The commit whose acknowledgement was lost keeps the attempt held.         *)
LEMMA FailToStoreCreatedIInv ==
  ASSUME IInv, NEW w \in Workers, FailToStoreCreated(w)
  PROVE  IInv'
  <1> DEFINE r == job[w]
  <1>1. r \in Registrations /\ r # NoJob /\ pc[w] = "answered" /\ answer[w] = "created"
    BY NoJobAssumption DEF FailToStoreCreated, IInv, TypeOK, Bookkeeping
  <1>2. AcceptsCheckout(r) /\ orders[r] = 1
    BY <1>1 DEF IInv, HeldIsOpen
  <1> HIDE DEF r
  <1>3. /\ pc' = [pc EXCEPT ![w] = "store_failed"]
        /\ UNCHANGED <<invitation, orders, job, answer>>
        /\ faults' \in 0..MaxFaults
    BY FaultsAssumption DEF FailToStoreCreated, Fault, IInv, TypeOK
  <1>4. CASE UNCHANGED <<attempt, errorCode, overdue, linked>>
    BY <1>1, <1>2, <1>3, <1>4
    DEF IInv, TypeOK, Bookkeeping, ClaimsAreExclusive, QueuedIsUntouched,
        HeldIsOpen, AtMostOneOrder, CreatedIsPayable, RejectedIsSafeToRetry,
        AcceptsCheckout, Places, r
  <1>5. CASE MarkCreated(r)
    <2>1. SetState(r, "created", "none") /\ linked' = [linked EXCEPT ![r] = TRUE]
      BY <1>2, <1>5 DEF MarkCreated
    <2> USE <1>1, <1>2, <1>3, <2>1 DEF SetState
    <2>2. TypeOK'
      BY DEF IInv, TypeOK, States, Codes, Places
    <2>3. Bookkeeping' /\ ClaimsAreExclusive'
      BY DEF IInv, TypeOK, Bookkeeping, ClaimsAreExclusive
    <2>4. QueuedIsUntouched'
      BY DEF IInv, TypeOK, QueuedIsUntouched, AcceptsCheckout
    <2>5. HeldIsOpen'
      <3> SUFFICES ASSUME NEW v \in Workers, job[v] # NoJob
                   PROVE  /\ AcceptsCheckout(job[v])' \/ (pc'[v] = "store_failed" /\ attempt'[job[v]] = "created")
                          /\ pc'[v] = "claimed" \/ answer[v] = "rejected" => orders[job[v]] = 0
                          /\ answer[v] = "created" => orders[job[v]] = 1
        BY DEF HeldIsOpen
      <3>1. CASE v = w
        BY <3>1 DEF IInv, TypeOK, r
      <3>2. CASE v # w
        <4>1. job[v] # r /\ job[v] \in Registrations /\ pc'[v] = pc[v]
          BY <3>2 DEF IInv, TypeOK, ClaimsAreExclusive, r
        <4>2. attempt'[job[v]] = attempt[job[v]] /\ errorCode'[job[v]] = errorCode[job[v]]
          BY <4>1 DEF IInv, TypeOK
        <4>3. QED BY <4>1, <4>2 DEF IInv, HeldIsOpen, AcceptsCheckout
      <3>3. QED BY <3>1, <3>2
    <2>6. AtMostOneOrder' /\ CreatedIsPayable' /\ RejectedIsSafeToRetry'
      BY DEF IInv, TypeOK, AtMostOneOrder, CreatedIsPayable, RejectedIsSafeToRetry
    <2>7. QED BY <2>2, <2>3, <2>4, <2>5, <2>6 DEF IInv
  <1>6. QED BY <1>4, <1>5 DEF FailToStoreCreated, r

LEMMA NextIInv == IInv /\ [Next]_vars => IInv'
  <1> SUFFICES ASSUME IInv, [Next]_vars PROVE IInv'
    OBVIOUS
  <1>1. ASSUME NEW r \in Registrations, Invite(r) \/ Expire(r) \/ Consume(r) \/ Age(r)
        PROVE  IInv'
    BY <1>1, RegistrationIInv
  <1>2. ASSUME NEW w \in Workers, Dispatch(w) PROVE IInv'
    <2>1. CASE Recover(w) BY <2>1, RecoverIInv
    <2>2. CASE Claim(w)   BY <2>2, ClaimIInv
    <2>3. CASE FindNothing(w)
      BY <2>3, RestIInv DEF FindNothing, IInv, TypeOK
    <2>4. CASE CreateCheckout(w) BY <2>4, CreateCheckoutIInv
    <2>5. CASE StoreCreated(w) \/ StoreRejected(w) \/ StoreUnknown(w)
      BY <2>5, StoreIInv
    <2>6. QED BY <1>2, <2>1, <2>2, <2>3, <2>4, <2>5 DEF Dispatch
  <1>3. ASSUME NEW w \in Workers, FailToStoreCreated(w) PROVE IInv'
    BY <1>3, FailToStoreCreatedIInv
  <1>4. ASSUME NEW w \in Workers, Abandon(w) PROVE IInv'
    <2>1. faults' \in 0..MaxFaults
      BY <1>4, FaultsAssumption DEF Abandon, Fault, IInv, TypeOK
    <2>2. QED BY <1>4, <2>1, RestIInv DEF Abandon
  <1>5. CASE UNCHANGED vars
    BY <1>5
    DEF vars, IInv, TypeOK, Bookkeeping, ClaimsAreExclusive, QueuedIsUntouched,
        HeldIsOpen, AtMostOneOrder, CreatedIsPayable, RejectedIsSafeToRetry,
        AcceptsCheckout
  <1>6. QED BY <1>1, <1>2, <1>3, <1>4, <1>5 DEF Next

THEOREM Invariance == Spec => []IInv
  BY InitIInv, NextIInv, PTL DEF Spec

-----------------------------------------------------------------------------

(* Type correctness of the rows, the workers and the fault budget.           *)
THEOREM TypeCorrect == Spec => []TypeOK
  <1>1. IInv => TypeOK BY DEF IInv
  <1>2. QED BY <1>1, Invariance, PTL

(* No registration is ever given two checkouts to pay.                       *)
THEOREM OneOrder == Spec => []AtMostOneOrder
  <1>1. IInv => AtMostOneOrder BY DEF IInv
  <1>2. QED BY <1>1, Invariance, PTL

(* "created" is said of, and only of, a checkout whose link is stored.       *)
THEOREM CreatedPayable == Spec => []CreatedIsPayable
  <1>1. IInv => CreatedIsPayable BY DEF IInv
  <1>2. QED BY <1>1, Invariance, PTL

(* No checkout exists, or is about to be made, for a rejected attempt.       *)
THEOREM RejectedSafe == Spec => []RejectedIsSafeToRetry
  <1>1. IInv => RejectedIsSafeToRetry BY DEF IInv
  <1>2. QED BY <1>1, Invariance, PTL
-----------------------------------------------------------------------------
(* The action properties.                                                    *)

(* A row's state changes only under the guard of the statement that changes  *)
(* it.  The five ways a state can change, for every row at once.             *)
LEMMA RowSteps ==
  ASSUME IInv, [Next]_vars, NEW r \in Registrations
  PROVE  \/ attempt'[r] = attempt[r] /\ errorCode'[r] = errorCode[r]
         \/ attempt[r] = "none" /\ attempt'[r] = "requested"
         \/ attempt[r] = "requested" /\ attempt'[r] = "dispatching"
         \/ AcceptsCheckout(r) /\ attempt'[r] = "created" /\ orders[r] = 1 /\ orders'[r] = 1
         \/ attempt[r] = "dispatching" /\ attempt'[r] = "rejected" /\ orders[r] = 0 /\ orders'[r] = 0
         \/ attempt[r] = "dispatching" /\ attempt'[r] = "unknown" /\ orders'[r] = orders[r]
  <1> USE DEF IInv, TypeOK
  <1>1. ASSUME NEW q \in Registrations, Invite(q) \/ Expire(q) \/ Age(q)
        PROVE  attempt'[r] = attempt[r] /\ errorCode'[r] = errorCode[r]
    BY <1>1 DEF Invite, Expire, Age
  <1>2. ASSUME NEW q \in Registrations, Consume(q)
        PROVE  \/ attempt'[r] = attempt[r] /\ errorCode'[r] = errorCode[r]
               \/ attempt[r] = "none" /\ attempt'[r] = "requested"
    BY <1>2 DEF Consume, QueuedIsUntouched
  <1>3. ASSUME NEW w \in Workers, Recover(w)
        PROVE  \/ attempt'[r] = attempt[r] /\ errorCode'[r] = errorCode[r]
               \/ attempt[r] = "dispatching" /\ attempt'[r] = "unknown" /\ orders'[r] = orders[r]
    BY <1>3 DEF Recover, RecoverStaleDispatches, Overdue
  <1>4. ASSUME NEW w \in Workers, Claim(w)
        PROVE  \/ attempt'[r] = attempt[r] /\ errorCode'[r] = errorCode[r]
               \/ attempt[r] = "requested" /\ attempt'[r] = "dispatching"
    BY <1>4, AllowedAssumption DEF Claim
  <1>5. ASSUME NEW w \in Workers, FindNothing(w) \/ CreateCheckout(w) \/ Abandon(w)
        PROVE  attempt'[r] = attempt[r] /\ errorCode'[r] = errorCode[r]
    BY <1>5 DEF FindNothing, CreateCheckout, Abandon, rows
  <1>6. ASSUME NEW w \in Workers, StoreCreated(w) \/ FailToStoreCreated(w)
        PROVE  \/ attempt'[r] = attempt[r] /\ errorCode'[r] = errorCode[r]
               \/ AcceptsCheckout(r) /\ attempt'[r] = "created" /\ orders[r] = 1 /\ orders'[r] = 1
    <2>1. orders[job[w]] = 1 /\ job[w] \in Registrations
      BY <1>6, NoJobAssumption DEF StoreCreated, FailToStoreCreated, Bookkeeping, HeldIsOpen
    <2>2. MarkCreated(job[w]) \/ UNCHANGED <<attempt, errorCode, overdue, linked>>
      BY <1>6 DEF StoreCreated, FailToStoreCreated
    <2>3. orders' = orders
      BY <1>6 DEF StoreCreated, FailToStoreCreated
    <2>4. QED BY <2>1, <2>2, <2>3 DEF MarkCreated, SetState
  <1>7. ASSUME NEW w \in Workers, StoreRejected(w)
        PROVE  \/ attempt'[r] = attempt[r] /\ errorCode'[r] = errorCode[r]
               \/ attempt[r] = "dispatching" /\ attempt'[r] = "rejected" /\ orders[r] = 0 /\ orders'[r] = 0
    <2>1. orders[job[w]] = 0 /\ job[w] \in Registrations
      BY <1>7, NoJobAssumption DEF StoreRejected, Bookkeeping, HeldIsOpen
    <2>2. QED BY <1>7, <2>1 DEF StoreRejected, MarkRejected, SetState
  <1>8. ASSUME NEW w \in Workers, StoreUnknown(w)
        PROVE  \/ attempt'[r] = attempt[r] /\ errorCode'[r] = errorCode[r]
               \/ attempt[r] = "dispatching" /\ attempt'[r] = "unknown" /\ orders'[r] = orders[r]
    BY <1>8 DEF StoreUnknown, MarkUnknown, SetState
  <1>9. CASE UNCHANGED vars
    BY <1>9 DEF vars
  <1>10. QED
    BY <1>1, <1>2, <1>3, <1>4, <1>5, <1>6, <1>7, <1>8, <1>9 DEF Next, Dispatch

(* A settled attempt never changes again, except that a recovered one may    *)
(* become "created".                                                         *)
THEOREM SettledFinal == Spec => SettledIsFinal
  <1>1. ASSUME IInv, [Next]_vars, NEW r \in Registrations
        PROVE  /\ attempt[r] \in {"created", "rejected"} => attempt'[r] = attempt[r]
               /\ attempt[r] = "unknown" =>
                    \/ attempt'[r] = "unknown" /\ errorCode'[r] = errorCode[r]
                    \/ attempt'[r] = "created" /\ errorCode[r] = "dispatch_outcome_unknown"
    BY <1>1, RowSteps DEF AcceptsCheckout
  <1>2. IInv /\ [Next]_vars =>
          [\A r \in Registrations :
             /\ attempt[r] \in {"created", "rejected"} => attempt'[r] = attempt[r]
             /\ attempt[r] = "unknown" =>
                  \/ attempt'[r] = "unknown" /\ errorCode'[r] = errorCode[r]
                  \/ attempt'[r] = "created" /\ errorCode[r] = "dispatch_outcome_unknown"]_vars
    BY <1>1
  <1>3. QED BY <1>2, Invariance, PTL DEF Spec, SettledIsFinal

(* A checkout a live worker heard of is never dropped.                       *)
THEOREM LateAnswerKept == Spec => LateAnswerIsKept
  <1>1. ASSUME IInv, Next, NEW w \in Workers,
               pc[w] = "answered", answer[w] = "created", pc'[w] = "idle", faults' = faults
        PROVE  attempt'[job[w]] = "created"
    <2> USE <1>1 DEF IInv, TypeOK
    <2>1. ASSUME NEW q \in Registrations, Invite(q) \/ Expire(q) \/ Consume(q) \/ Age(q)
          PROVE  FALSE
      BY <2>1 DEF Invite, Expire, Consume, Age
    <2>2. ASSUME NEW v \in Workers, Dispatch(v)
          PROVE  StoreCreated(w)
      BY <2>2
      DEF Dispatch, Recover, Claim, FindNothing, CreateCheckout, StoreCreated,
          StoreRejected, StoreUnknown, Rest
    <2>3. ASSUME NEW v \in Workers, FailToStoreCreated(v) \/ Abandon(v)
          PROVE  FALSE
      BY <2>3, FaultsAssumption DEF FailToStoreCreated, Abandon, Fault
    <2>4. StoreCreated(w)
      BY <2>1, <2>2, <2>3 DEF Next
    <2>5. AcceptsCheckout(job[w]) /\ job[w] \in Registrations
      BY NoJobAssumption DEF Bookkeeping, HeldIsOpen
    <2>6. QED BY <2>4, <2>5 DEF StoreCreated, MarkCreated, SetState
  <1>2. IInv /\ [Next]_vars =>
          [\A w \in Workers :
             (pc[w] = "answered" /\ answer[w] = "created" /\ pc'[w] = "idle" /\ faults' = faults)
               => attempt'[job[w]] = "created"]_vars
    BY <1>1
  <1>3. QED BY <1>2, Invariance, PTL DEF Spec, LateAnswerIsKept
-----------------------------------------------------------------------------
(* The dispatcher implements its promise.                                    *)

(* A write that moves one row to `state' moves its verdict there.            *)
LEMMA VerdictOfRow ==
  ASSUME TypeOK, NEW r \in Registrations, NEW state \in {"created", "rejected", "unknown"},
         attempt' = [attempt EXCEPT ![r] = state]
  PROVE  verdict' = [verdict EXCEPT ![r] = state]
  BY DEF TypeOK, verdict

THEOREM StepKeepsPromise ==
  ASSUME IInv, [Next]_vars
  PROVE  [Promise!PNext]_Promise!pvars
  <1> USE DEF IInv, TypeOK
  <1> DEFINE Still == verdict' = verdict /\ orders' = orders
  <1>0. Still => [Promise!PNext]_Promise!pvars
    BY DEF Promise!pvars
  <1> HIDE DEF Still
  <1>1. ASSUME NEW q \in Registrations, Invite(q) \/ Expire(q) \/ Age(q)
        PROVE  Still
    BY <1>1 DEF Invite, Expire, Age, verdict, Still
  <1>2. ASSUME NEW q \in Registrations, Consume(q)
        PROVE  Still
    BY <1>2 DEF Consume, QueuedIsUntouched, verdict, Still
  <1>3. ASSUME NEW w \in Workers, Recover(w)
        PROVE  Promise!PNext
    <2>1. \A r \in Overdue : r \in Registrations /\ verdict[r] = "pending"
      BY AllowedAssumption DEF Overdue, verdict
    <2>2. verdict' = [r \in Registrations |-> IF r \in Overdue THEN "unknown" ELSE verdict[r]]
      BY <1>3 DEF Recover, RecoverStaleDispatches, verdict
    <2>3. orders' = orders
      BY <1>3 DEF Recover
    <2>4. Promise!Doubt(Overdue)
      BY <2>1, <2>2, <2>3 DEF Promise!Doubt
    <2>5. Overdue \in SUBSET Registrations
      BY <2>1
    <2>6. QED BY <2>4, <2>5 DEF Promise!PNext
  <1>4. ASSUME NEW w \in Workers, Claim(w)
        PROVE  Still
    BY <1>4, AllowedAssumption DEF Claim, verdict, Still
  <1>5. ASSUME NEW w \in Workers, FindNothing(w) \/ Abandon(w)
        PROVE  Still
    BY <1>5 DEF FindNothing, Abandon, rows, verdict, Still
  <1>6. ASSUME NEW w \in Workers, CreateCheckout(w)
        PROVE  Promise!PNext \/ Still
    <2>1. PICK o \in Outcomes : orders' = [orders EXCEPT ![job[w]] = @ + o[1]]
      BY <1>6 DEF CreateCheckout
    <2>2. job[w] \in Registrations /\ orders[job[w]] = 0 /\ AcceptsCheckout(job[w])
      BY <1>6, NoJobAssumption DEF CreateCheckout, Bookkeeping, HeldIsOpen
    <2>3. verdict' = verdict
      BY <1>6 DEF CreateCheckout, rows, verdict
    <2>4. verdict[job[w]] \in {"pending", "unknown"}
      BY <2>2 DEF AcceptsCheckout, verdict
    <2>5. CASE o[1] = 0
      BY <2>1, <2>2, <2>3, <2>5 DEF Still
    <2>6. CASE o[1] = 1
      <3>1. orders' = [orders EXCEPT ![job[w]] = 1]
        BY <2>1, <2>2, <2>6
      <3>2. Promise!Order(job[w])
        BY <2>2, <2>3, <2>4, <3>1 DEF Promise!Order
      <3>3. QED BY <2>2, <3>2 DEF Promise!PNext
    <2>7. QED BY <2>1, <2>5, <2>6 DEF Outcomes
  <1>7. ASSUME NEW w \in Workers, StoreCreated(w) \/ FailToStoreCreated(w)
        PROVE  Promise!PNext \/ Still
    <2>1. job[w] \in Registrations /\ orders[job[w]] = 1 /\ AcceptsCheckout(job[w])
      BY <1>7, NoJobAssumption
      DEF StoreCreated, FailToStoreCreated, Bookkeeping, HeldIsOpen
    <2>2. orders' = orders
      BY <1>7 DEF StoreCreated, FailToStoreCreated
    <2>3. CASE attempt' = attempt
      BY <2>2, <2>3 DEF verdict, Still
    <2>4. CASE MarkCreated(job[w])
      <3>1. verdict' = [verdict EXCEPT ![job[w]] = "created"]
        BY <2>1, <2>4, VerdictOfRow DEF MarkCreated, SetState
      <3>2. verdict[job[w]] \in {"pending", "unknown"}
        BY <2>1 DEF AcceptsCheckout, verdict
      <3>3. Promise!Confirm(job[w])
        BY <2>1, <2>2, <3>1, <3>2 DEF Promise!Confirm
      <3>4. QED BY <2>1, <3>3 DEF Promise!PNext
    <2>5. QED BY <1>7, <2>3, <2>4 DEF StoreCreated, FailToStoreCreated
  <1>8. ASSUME NEW w \in Workers, StoreRejected(w)
        PROVE  Promise!PNext \/ Still
    <2>1. job[w] \in Registrations /\ orders[job[w]] = 0 /\ orders' = orders
      BY <1>8, NoJobAssumption DEF StoreRejected, Bookkeeping, HeldIsOpen
    <2>2. CASE attempt[job[w]] = "dispatching"
      <3>1. verdict' = [verdict EXCEPT ![job[w]] = "rejected"]
        BY <1>8, <2>1, <2>2, VerdictOfRow DEF StoreRejected, MarkRejected, SetState
      <3>2. Promise!Refuse(job[w])
        BY <2>1, <2>2, <3>1 DEF Promise!Refuse, verdict
      <3>3. QED BY <2>1, <3>2 DEF Promise!PNext
    <2>3. CASE attempt[job[w]] # "dispatching"
      BY <1>8, <2>1, <2>3 DEF StoreRejected, MarkRejected, verdict, Still
    <2>4. QED BY <2>2, <2>3
  <1>9. ASSUME NEW w \in Workers, StoreUnknown(w)
        PROVE  Promise!PNext \/ Still
    <2>1. job[w] \in Registrations /\ orders' = orders
      BY <1>9, NoJobAssumption DEF StoreUnknown, Bookkeeping
    <2>2. CASE attempt[job[w]] = "dispatching"
      <3>1. verdict' = [verdict EXCEPT ![job[w]] = "unknown"]
        BY <1>9, <2>1, <2>2, VerdictOfRow DEF StoreUnknown, MarkUnknown, SetState
      <3>2. verdict' = [r \in Registrations |-> IF r \in {job[w]} THEN "unknown" ELSE verdict[r]]
        BY <3>1 DEF verdict
      <3>3. Promise!Doubt({job[w]})
        BY <2>1, <2>2, <3>2 DEF Promise!Doubt, verdict
      <3>4. QED BY <2>1, <3>3 DEF Promise!PNext
    <2>3. CASE attempt[job[w]] # "dispatching"
      BY <1>9, <2>1, <2>3 DEF StoreUnknown, MarkUnknown, verdict, Still
    <2>4. QED BY <2>2, <2>3
  <1>10. CASE UNCHANGED vars
    BY <1>0, <1>10 DEF vars, verdict, Still
  <1>11. QED
    BY <1>0, <1>1, <1>2, <1>3, <1>4, <1>5, <1>6, <1>7, <1>8, <1>9, <1>10
    DEF Next, Dispatch

(* Whatever crashes, times out or overtakes, a registration is charged       *)
(* through one checkout at most and the verdict about it is true.            *)
THEOREM Implementation == Spec => KeepsPromise
  <1>1. Init => Promise!PInit
    BY DEF Init, Promise!PInit, verdict
  <1>2. QED
    BY <1>1, StepKeepsPromise, Invariance, PTL DEF Spec, KeepsPromise, Promise!PSpec
-----------------------------------------------------------------------------
(* The mails: every step is one of the dispatcher's or leaves it alone.      *)

LEMMA StepInside ==
  ASSUME [MailNext]_allVars
  PROVE  [Next]_vars
  <1>1. ASSUME NEW r \in Registrations,
               RegistrationStep(r) \/ Pay(r) \/ Lapse(r) \/ Overrun(r) \/ ComesDue(r)
        PROVE  [Next]_vars
    BY <1>1 DEF RegistrationStep, Pay, Lapse, Overrun, LapseOf, ComesDue, Next
  <1>2. ASSUME NEW w \in Workers, CheckoutStage(w) \/ CheckoutFault(w)
        PROVE  [Next]_vars
    BY <1>2 DEF CheckoutStage, CheckoutFault, Next
  <1>3. ASSUME NEW w \in Workers, MailStage(w) \/ AbandonMail(w)
        PROVE  UNCHANGED vars
    BY <1>3 DEF MailStage, ClaimMail, FindNoMail, PauseUndeliverable, CheckLease,
                SendMail, MarkSent, StoreRefusal, AbandonMail
  <1>4. CASE UNCHANGED allVars
    BY <1>4 DEF allVars
  <1>5. QED BY <1>1, <1>2, <1>3, <1>4 DEF MailNext

(* What the dispatcher does alone it does with the mails beside it: each of  *)
(* the theorems above holds of MailSpec too.                                 *)
THEOREM DispatchInside == MailSpec => Spec
  <1>1. MailInit => Init
    BY DEF MailInit
  <1>2. QED BY <1>1, StepInside, PTL DEF MailSpec, Spec

-----------------------------------------------------------------------------
(* The invariant of the mails.                                               *)

LEMMA MailInitIInv == MailInit => MailIInv
  <1> SUFFICES ASSUME MailInit PROVE MailIInv
    OBVIOUS
  <1>1. IInv
    BY InitIInv DEF MailInit
  <1>2. MailTypeOK
    BY MailFaultsAssumption, AttemptsAssumption DEF MailInit, MailTypeOK, Troubles, MailPlaces
  <1>3. LeasesAreNumbered /\ UnsentLeases /\ CopiesAreBounded
    BY NoJobAssumption DEF MailInit, LeasesAreNumbered, UnsentLeases, CopiesAreBounded
  <1>4. MailedIsCreated /\ PauseHasCause
    BY NoJobAssumption DEF MailInit, MailedIsCreated, PauseHasCause
  <1>5. QED BY <1>1, <1>2, <1>3, <1>4 DEF MailIInv

(* A created attempt stays created.                                          *)
LEMMA CreatedStays ==
  ASSUME IInv, [Next]_vars, NEW r \in Registrations, attempt[r] = "created"
  PROVE  attempt'[r] = "created"
  BY RowSteps DEF AcceptsCheckout

(* A step of the dispatcher, and any that only turns the loop.               *)
LEMMA BesideIInv ==
  ASSUME MailIInv, [MailNext]_allVars, UNCHANGED mailVars,
         stage' \in [Workers -> {"checkout", "mail"}]
  PROVE  MailIInv'
  <1> USE DEF mailVars, mailRow, hand
  <1>1. IInv'
    BY StepInside, NextIInv DEF MailIInv
  <1>2. MailTypeOK'
    BY DEF MailIInv, MailTypeOK
  <1>3. LeasesAreNumbered' /\ UnsentLeases' /\ CopiesAreBounded' /\ PauseHasCause'
    BY DEF MailIInv, LeasesAreNumbered, UnsentLeases, CopiesAreBounded, PauseHasCause
  <1>4. MailedIsCreated'
    BY StepInside, CreatedStays DEF MailIInv, MailedIsCreated
  <1>5. QED BY <1>1, <1>2, <1>3, <1>4 DEF MailIInv

(* The clock, the payments and the stalls touch no number and no worker.     *)
LEMMA ClockIInv ==
  ASSUME MailIInv, NEW r \in Registrations,
         Pay(r) \/ Lapse(r) \/ Overrun(r) \/ ComesDue(r)
  PROVE  MailIInv'
  <1>1. UNCHANGED <<vars, stage, tries, trouble, sent, sends, hand>>
    BY DEF Pay, Lapse, Overrun, LapseOf, ComesDue, mailRow
  <1>2. IInv'
    BY <1>1, NextIInv DEF MailIInv
  <1>3. MailTypeOK'
    <2> USE DEF mailRow, hand, MailIInv, MailTypeOK
    <2>1. CASE Pay(r)
      BY <2>1 DEF Pay
    <2>2. CASE Lapse(r)
      BY <2>2 DEF Lapse, LapseOf
    <2>3. CASE Overrun(r)
      BY <2>3, MailFaultsAssumption DEF Overrun, LapseOf, MailFault
    <2>4. CASE ComesDue(r)
      BY <2>4 DEF ComesDue
    <2>5. QED BY <2>1, <2>2, <2>3, <2>4
  <1>4. LeasesAreNumbered' /\ UnsentLeases' /\ CopiesAreBounded' /\ PauseHasCause'
    BY <1>1
    DEF hand, MailIInv, LeasesAreNumbered, UnsentLeases, CopiesAreBounded, PauseHasCause
  <1>5. MailedIsCreated'
    BY <1>1 DEF hand, vars, MailIInv, MailedIsCreated
  <1>6. QED BY <1>2, <1>3, <1>4, <1>5 DEF MailIInv

(* A claim makes a lease with a number that nobody has and nothing was sent  *)
(* under.                                                                    *)
LEMMA ClaimMailIInv ==
  ASSUME MailIInv, NEW w \in Workers, ClaimMail(w)
  PROVE  MailIInv'
  <1>1. PICK r \in Claimable :
          /\ tries'   = [tries   EXCEPT ![r] = @ + 1]
          /\ lease'   = [lease   EXCEPT ![r] = "held"]
          /\ trouble' = [trouble EXCEPT ![r] = "none"]
          /\ place'   = [place  EXCEPT ![w] = "leased"]
          /\ letter'  = [letter EXCEPT ![w] = r]
          /\ number'  = [number EXCEPT ![w] = tries[r] + 1]
    BY DEF ClaimMail, Put
  <1>2. UNCHANGED <<vars, stage, due, sent, paid, sends, mailFaults>>
    BY DEF ClaimMail
  <1>3. r \in Registrations /\ r # NoJob /\ attempt[r] = "created"
    BY AllowedAssumption, NoJobAssumption DEF Claimable
  <1>4. tries[r] \in Nat
    BY <1>3 DEF MailIInv, MailTypeOK
  <1>5. IInv'
    BY <1>2, NextIInv DEF MailIInv
  <1>6. MailTypeOK'
    BY <1>1, <1>2, <1>3, <1>4 DEF MailIInv, MailTypeOK, Troubles, MailPlaces
  <1>7. LeasesAreNumbered'
    <2>1. ASSUME NEW v \in Workers
          PROVE  /\ place'[v] = "none" <=> letter'[v] = NoJob
                 /\ letter'[v] # NoJob => number'[v] \in 1..tries'[letter'[v]]
                 /\ place'[v] \notin {"none", "leased"} => number'[v] <= MaxAttempts
      <3>1. CASE v = w
        BY <1>1, <1>3, <1>4, <3>1 DEF MailIInv, MailTypeOK
      <3>2. CASE v # w
        <4>1. place'[v] = place[v] /\ letter'[v] = letter[v] /\ number'[v] = number[v]
          BY <1>1, <3>2 DEF MailIInv, MailTypeOK
        <4>2. letter[v] # NoJob => tries[letter[v]] \in Nat /\ tries'[letter[v]] \in Nat
                                   /\ tries[letter[v]] <= tries'[letter[v]]
          BY <1>1, <1>4 DEF MailIInv, MailTypeOK
        <4>3. number[v] \in Nat
          BY DEF MailIInv, MailTypeOK
        <4>4. QED BY <4>1, <4>2, <4>3 DEF MailIInv, LeasesAreNumbered
      <3>3. QED BY <3>1, <3>2
    <2>2. ASSUME NEW v \in Workers, v # w, letter[v] = r
          PROVE  number[v] # tries[r] + 1
      BY <1>3, <1>4, <2>2 DEF MailIInv, LeasesAreNumbered
    <2>3. ASSUME NEW u \in Workers, NEW v \in Workers,
                 letter'[u] = letter'[v], letter'[u] # NoJob, number'[u] = number'[v]
          PROVE  u = v
      BY <1>1, <2>2, <2>3 DEF MailIInv, MailTypeOK, LeasesAreNumbered
    <2>4. QED BY <2>1, <2>3 DEF LeasesAreNumbered
  <1>8. tries[r] + 1 \notin sends[r]
    BY <1>3, <1>4 DEF MailIInv, UnsentLeases
  <1>9. UnsentLeases'
    <2>1. ASSUME NEW q \in Registrations PROVE sends'[q] \subseteq 1..tries'[q]
      BY <1>1, <1>2, <1>4 DEF MailIInv, MailTypeOK, UnsentLeases
    <2>2. ASSUME NEW v \in Workers, place'[v] \in {"leased", "checked"}
          PROVE  number'[v] \notin sends'[letter'[v]]
      BY <1>1, <1>2, <1>8, <2>2 DEF MailIInv, MailTypeOK, UnsentLeases
    <2>3. QED BY <2>1, <2>2 DEF UnsentLeases
  <1>10. MailedIsCreated'
    BY <1>1, <1>2, <1>3 DEF vars, MailIInv, MailTypeOK, MailedIsCreated
  <1>11. CopiesAreBounded'
    BY <1>1, <1>2 DEF MailIInv, MailTypeOK, CopiesAreBounded
  <1>12. PauseHasCause'
    BY <1>1, <1>4 DEF MailIInv, MailTypeOK, PauseHasCause
  <1>13. QED BY <1>5, <1>6, <1>7, <1>9, <1>10, <1>11, <1>12 DEF MailIInv

(* What a worker that lets go of its lease may leave behind: rows that are   *)
(* paused only with a cause.                                                 *)
LEMMA EndPassIInv ==
  ASSUME MailIInv, NEW w \in Workers, EndPass(w),
         UNCHANGED <<vars, tries, paid, sends>>, mailFaults' \in 0..MaxMailFaults,
         lease'   \in [Registrations -> {"none", "held", "lapsed"}],
         trouble' \in [Registrations -> Troubles],
         due'     \in [Registrations -> BOOLEAN],
         sent'    \in [Registrations -> BOOLEAN],
         \A r \in Registrations : trouble'[r] = "paused" =>
           trouble[r] = "paused" \/ r \in Unmailable \/ tries[r] >= MaxAttempts
  PROVE  MailIInv'
  <1>1. /\ place'  = [place  EXCEPT ![w] = "none"]
        /\ letter' = [letter EXCEPT ![w] = NoJob]
        /\ number' = [number EXCEPT ![w] = 0]
        /\ stage'  = [stage  EXCEPT ![w] = "checkout"]
    BY DEF EndPass, Put
  <1>2. IInv'
    BY NextIInv DEF MailIInv
  <1>3. MailTypeOK'
    BY <1>1 DEF MailIInv, MailTypeOK, MailPlaces
  <1>4. LeasesAreNumbered'
    BY <1>1 DEF MailIInv, MailTypeOK, LeasesAreNumbered
  <1>5. UnsentLeases' /\ CopiesAreBounded'
    BY <1>1 DEF MailIInv, MailTypeOK, UnsentLeases, CopiesAreBounded
  <1>6. MailedIsCreated'
    BY <1>1, NoJobAssumption DEF vars, MailIInv, MailTypeOK, MailedIsCreated
  <1>7. PauseHasCause'
    BY DEF MailIInv, PauseHasCause
  <1>8. QED BY <1>2, <1>3, <1>4, <1>5, <1>6, <1>7 DEF MailIInv

(* The worker's attempt, while it has one.                                   *)
LEMMA LetterOfWorker ==
  ASSUME MailIInv, NEW w \in Workers, place[w] # "none"
  PROVE  /\ letter[w] \in Registrations
         /\ number[w] \in Nat /\ tries[letter[w]] \in Nat
         /\ number[w] \in 1..tries[letter[w]]
  BY DEF MailIInv, MailTypeOK, LeasesAreNumbered

LEMMA ReleaseIInv ==
  ASSUME MailIInv, NEW w \in Workers, place[w] # "none", EndPass(w),
         UNCHANGED <<vars, paid, sends, mailFaults>>,
         NEW code \in Troubles, NEW again \in BOOLEAN, Release(w, code, again),
         code = "paused" => letter[w] \in Unmailable \/ number[w] >= MaxAttempts
  PROVE  MailIInv'
  <1> DEFINE r == letter[w]
  <1>1. r \in Registrations /\ number[w] \in Nat /\ tries[r] \in Nat
    BY LetterOfWorker
  <1> HIDE DEF r
  <1>2. mailFaults' \in 0..MaxMailFaults
    BY DEF MailIInv, MailTypeOK
  <1>3. CASE Current(w)
    <2>1. /\ lease'   = [lease   EXCEPT ![r] = "none"]
          /\ trouble' = [trouble EXCEPT ![r] = code]
          /\ due'     = [due     EXCEPT ![r] = again]
          /\ UNCHANGED <<tries, sent>>
      BY <1>3 DEF Release, r
    <2>2. code = "paused" => r \in Unmailable \/ tries[r] >= MaxAttempts
      BY <1>3 DEF Current, r
    <2>3. /\ lease'   \in [Registrations -> {"none", "held", "lapsed"}]
          /\ trouble' \in [Registrations -> Troubles]
          /\ due'     \in [Registrations -> BOOLEAN]
          /\ sent'    \in [Registrations -> BOOLEAN]
      BY <1>1, <2>1 DEF MailIInv, MailTypeOK
    <2>4. \A q \in Registrations : trouble'[q] = "paused" =>
            trouble[q] = "paused" \/ q \in Unmailable \/ tries[q] >= MaxAttempts
      BY <1>1, <2>1, <2>2 DEF MailIInv, MailTypeOK
    <2>5. QED BY <1>2, <2>1, <2>3, <2>4, EndPassIInv
  <1>4. CASE ~Current(w)
    <2>1. UNCHANGED mailRow
      BY <1>4 DEF Release
    <2>2. QED BY <1>2, <2>1, EndPassIInv DEF mailRow, MailIInv, MailTypeOK
  <1>5. QED BY <1>3, <1>4

(* A step along deliver, by a worker that keeps its lease.                   *)
LEMMA GotoIInv ==
  ASSUME MailIInv, NEW w \in Workers, place[w] # "none",
         NEW p \in {"checked", "taken", "refused"}, Goto(w, p),
         UNCHANGED <<vars, mailRow, paid, mailFaults>>,
         number[w] <= MaxAttempts,
         \/ p = "checked" /\ place[w] = "leased" /\ sends' = sends
         \/ p # "checked" /\ sends' = [sends EXCEPT ![letter[w]] = @ \cup {number[w]}]
  PROVE  MailIInv'
  <1>1. /\ place' = [place EXCEPT ![w] = p]
        /\ UNCHANGED <<letter, number, stage>>
        /\ UNCHANGED <<tries, lease, trouble, due, sent>>
    BY DEF Goto, mailRow
  <1>2. /\ letter[w] \in Registrations
        /\ number[w] \in Nat /\ tries[letter[w]] \in Nat
        /\ number[w] \in 1..tries[letter[w]]
    BY LetterOfWorker
  <1>3. \A r \in Registrations :
          sends[r] \subseteq sends'[r]
          /\ \A n \in sends'[r] : n \in sends[r] \/ (p # "checked" /\ r = letter[w] /\ n = number[w])
    BY <1>2 DEF MailIInv, MailTypeOK
  <1>4. IInv'
    BY NextIInv DEF MailIInv
  <1>5. MailTypeOK'
    BY <1>1, <1>2 DEF MailIInv, MailTypeOK, MailPlaces
  <1>6. LeasesAreNumbered'
    BY <1>1 DEF MailIInv, MailTypeOK, LeasesAreNumbered
  <1>7. ASSUME NEW v \in Workers, place'[v] \in {"leased", "checked"}
        PROVE  number'[v] \notin sends'[letter'[v]]
    <2>1. place[v] \in {"leased", "checked"} /\ letter[v] \in Registrations
      <3>1. place[v] \in {"leased", "checked"}
        BY <1>1, <1>7 DEF MailIInv, MailTypeOK
      <3>2. QED BY <3>1, LetterOfWorker
    <2>2. number[v] \notin sends[letter[v]]
      BY <2>1 DEF MailIInv, UnsentLeases
    <2>3. v = w => p = "checked"
      BY <1>1, <1>7 DEF MailIInv, MailTypeOK
    <2>4. letter[v] = letter[w] /\ number[v] = number[w] => v = w
      BY <1>2, NoJobAssumption DEF MailIInv, LeasesAreNumbered
    <2>5. QED BY <1>1, <1>3, <2>1, <2>2, <2>3, <2>4
  <1>8. UnsentLeases'
    <2>1. ASSUME NEW r \in Registrations PROVE sends'[r] \subseteq 1..tries'[r]
      BY <1>1, <1>2, <1>3 DEF MailIInv, UnsentLeases
    <2>2. QED BY <1>7, <2>1 DEF UnsentLeases
  <1>9. MailedIsCreated'
    <2>1. attempt[letter[w]] = "created"
      BY <1>2 DEF MailIInv, MailedIsCreated
    <2>2. QED BY <1>1, <1>3, <2>1 DEF vars, MailIInv, MailedIsCreated
  <1>10. CopiesAreBounded'
    <2>1. number[w] \in 1..MaxAttempts
      BY <1>2, AttemptsAssumption
    <2>2. ASSUME NEW r \in Registrations PROVE sends'[r] \subseteq 1..MaxAttempts
      BY <1>3, <2>1 DEF MailIInv, CopiesAreBounded
    <2>3. QED BY <1>7, <2>2 DEF CopiesAreBounded
  <1>11. PauseHasCause'
    BY <1>1 DEF MailIInv, PauseHasCause
  <1>12. QED BY <1>4, <1>5, <1>6, <1>8, <1>9, <1>10, <1>11 DEF MailIInv

LEMMA MailStageIInv ==
  ASSUME MailIInv, NEW w \in Workers, MailStage(w) \/ AbandonMail(w)
  PROVE  MailIInv'
  <1>1. CASE ClaimMail(w)
    BY <1>1, ClaimMailIInv
  <1>2. CASE FindNoMail(w)
    BY <1>2, EndPassIInv DEF FindNoMail, mailRow, MailIInv, MailTypeOK
  <1>3. CASE PauseUndeliverable(w)
    <2>1. place[w] # "none"
      BY <1>3 DEF PauseUndeliverable, At
    <2>2. letter[w] \in Unmailable \/ number[w] >= MaxAttempts
      BY <1>3, <2>1, LetterOfWorker, AttemptsAssumption DEF PauseUndeliverable, Deliverable
    <2>3. QED BY <1>3, <2>1, <2>2, ReleaseIInv DEF PauseUndeliverable, Troubles
  <1>4. CASE CheckLease(w)
    <2>1. place[w] = "leased" /\ number[w] <= MaxAttempts
      BY <1>4 DEF CheckLease, At, Deliverable
    <2>2. CASE Goto(w, "checked")
      BY <1>4, <2>1, <2>2, GotoIInv DEF CheckLease
    <2>3. CASE EndPass(w)
      BY <1>4, <2>3, EndPassIInv DEF CheckLease, mailRow, MailIInv, MailTypeOK
    <2>4. QED BY <1>4, <2>2, <2>3 DEF CheckLease
  <1>5. CASE SendMail(w)
    <2>1. place[w] = "checked"
      BY <1>5 DEF SendMail, At
    <2>2. number[w] <= MaxAttempts
      BY <2>1 DEF MailIInv, LeasesAreNumbered
    <2>3. PICK p \in {"taken", "refused"} : Goto(w, p)
      BY <1>5 DEF SendMail
    <2>4. QED BY <1>5, <2>1, <2>2, <2>3, GotoIInv DEF SendMail
  <1>6. CASE MarkSent(w)
    <2>1. letter[w] \in Registrations
      BY <1>6, LetterOfWorker DEF MarkSent, At
    <2>2. tries' = tries /\ due' = due
      BY <1>6 DEF MarkSent, mailRow
    <2>3. /\ lease'   \in [Registrations -> {"none", "held", "lapsed"}]
          /\ trouble' \in [Registrations -> Troubles]
          /\ sent'    \in [Registrations -> BOOLEAN]
          /\ \A r \in Registrations : trouble'[r] = "paused" => trouble[r] = "paused"
      BY <1>6, <2>1 DEF MarkSent, mailRow, MailIInv, MailTypeOK, Troubles
    <2>4. QED BY <1>6, <2>2, <2>3, EndPassIInv DEF MarkSent, MailIInv, MailTypeOK
  <1>7. CASE StoreRefusal(w)
    <2>1. place[w] # "none"
      BY <1>7 DEF StoreRefusal, At
    <2>2. QED
      BY <1>7, <2>1, ReleaseIInv DEF StoreRefusal, AfterRefusal, Troubles
  <1>8. CASE AbandonMail(w)
    <2>1. mailFaults' \in 0..MaxMailFaults
      BY <1>8, MailFaultsAssumption DEF AbandonMail, MailFault, MailIInv, MailTypeOK
    <2>2. QED BY <1>8, <2>1, EndPassIInv DEF AbandonMail, mailRow, MailIInv, MailTypeOK
  <1>9. QED BY <1>1, <1>2, <1>3, <1>4, <1>5, <1>6, <1>7, <1>8 DEF MailStage

LEMMA MailNextIInv == MailIInv /\ [MailNext]_allVars => MailIInv'
  <1> SUFFICES ASSUME MailIInv, [MailNext]_allVars PROVE MailIInv'
    OBVIOUS
  <1>1. ASSUME NEW r \in Registrations, RegistrationStep(r) PROVE MailIInv'
    BY <1>1, BesideIInv DEF RegistrationStep, MailIInv, MailTypeOK
  <1>2. ASSUME NEW r \in Registrations, Pay(r) \/ Lapse(r) \/ Overrun(r) \/ ComesDue(r)
        PROVE  MailIInv'
    BY <1>2, ClockIInv
  <1>3. ASSUME NEW w \in Workers, CheckoutStage(w) PROVE MailIInv'
    <2>1. stage' \in [Workers -> {"checkout", "mail"}]
      BY <1>3 DEF CheckoutStage, MailIInv, MailTypeOK
    <2>2. QED BY <1>3, <2>1, BesideIInv DEF CheckoutStage
  <1>4. ASSUME NEW w \in Workers, CheckoutFault(w) PROVE MailIInv'
    <2>1. stage' \in [Workers -> {"checkout", "mail"}]
      BY <1>4 DEF CheckoutFault, MailIInv, MailTypeOK
    <2>2. QED BY <1>4, <2>1, BesideIInv DEF CheckoutFault
  <1>5. ASSUME NEW w \in Workers, MailStage(w) \/ AbandonMail(w) PROVE MailIInv'
    BY <1>5, MailStageIInv
  <1>6. CASE UNCHANGED allVars
    BY <1>6, BesideIInv DEF allVars, MailIInv, MailTypeOK
  <1>7. QED BY <1>1, <1>2, <1>3, <1>4, <1>5, <1>6 DEF MailNext

THEOREM MailInvariance == MailSpec => []MailIInv
  BY MailInitIInv, MailNextIInv, PTL DEF MailSpec

-----------------------------------------------------------------------------

(* Type correctness of the row's part for the mails, and of the stages.      *)
THEOREM MailTypeCorrect == MailSpec => []MailTypeOK
  <1>1. MailIInv => MailTypeOK BY DEF MailIInv
  <1>2. QED BY <1>1, MailInvariance, PTL

(* No attempt is mailed more often than the limit, however many claims end   *)
(* in nothing.                                                               *)
THEOREM CopiesBounded == MailSpec => []CopiesAreBounded
  <1>1. MailIInv => CopiesAreBounded BY DEF MailIInv
  <1>2. QED BY <1>1, MailInvariance, PTL

(* Whoever is mailed can pay the one checkout there is.                      *)
THEOREM MailedPayable == MailSpec => []MailedIsPayable
  <1>1. MailIInv => MailedIsPayable
    BY DEF MailIInv, MailedIsCreated, MailedIsPayable, IInv, CreatedIsPayable
  <1>2. QED BY <1>1, MailInvariance, PTL

(* A pause has its cause.                                                    *)
THEOREM PauseExplained == MailSpec => []PauseHasCause
  <1>1. MailIInv => PauseHasCause BY DEF MailIInv
  <1>2. QED BY <1>1, MailInvariance, PTL
===============================================================================
