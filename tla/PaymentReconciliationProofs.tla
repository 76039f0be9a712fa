---------------------- MODULE PaymentReconciliationProofs ----------------------
(***************************************************************************)
(* Proofs about PaymentReconciliation, for any number of events, payments  *)
(* and replicas.  Everything follows from IInv.  A step changes the data   *)
(* (DataInv), one worker, or both: Rests and Goes say that a worker's step *)
(* preserves IInv once its step of the data preserves DataInv and forgets  *)
(* nothing the workers rely on (Grows).                                    *)
(***************************************************************************)
EXTENDS PaymentReconciliation, TLAPS

DataTypeOK ==
  /\ evidence     \in [Payments -> Verdicts]
  /\ everEligible \in SUBSET Payments
  /\ everReview   \in SUBSET Payments
  /\ session      \in SUBSET Payments
  /\ inbox        \in [Events -> {"absent", "pending", "reconciled", "review"}]
  /\ initial      \in Payments \cup {Nothing}
  /\ initialEvent \in Events \cup {Nothing}
  /\ initialState \in {"none", "paid_pending_activation", "review"}
  /\ invitations  \in Nat
  /\ ledger       \in [Payments -> Events \cup {Nothing}]
  /\ lease        \in {"free", "live", "lapsed"}
  /\ holder       \in Workers \cup {Nothing}

DataInv ==
  /\ DataTypeOK
  /\ EvidenceIsHistory
  /\ BindingIsWhole
  /\ LedgerIsPaid
  /\ OneActivation
  /\ ReconciledIsBacked
  /\ ReviewHasCause

(* What the workers rely on is not taken back.                               *)
Grows ==
  /\ everEligible \subseteq everEligible'
  /\ everReview \subseteq everReview'
  /\ session' = session
  /\ \A e \in Events : inbox[e] # "absent" => inbox'[e] # "absent"
  /\ \A p \in Payments : ledger[p] # Nothing => ledger'[p] # Nothing

(* What the place a worker goes to asks of what it holds.                    *)
Fits(w, place) ==
  /\ place \in Places \ {"idle"}
  /\ seen[w] = "none" => place = "evidence"
  /\ place \in {"reconcile", "claim", "leased", "commit"} => Payment(w) \in session
  /\ place = "finish" => ledger'[Payment(w)] # Nothing
  /\ place = "review" => Cause'

LEMMA IInvIsData == IInv => DataInv
  BY DEF IInv, TypeOK, DataInv, DataTypeOK

LEMMA InitIInv == Init => IInv
  <1> SUFFICES ASSUME Init PROVE IInv  OBVIOUS
  <1> USE PayAssumption, NothingAssumption, PayFaultsAssumption DEF Init
  <1>1. TypeOK              BY DEF TypeOK, Verdicts, Places
  <1>2. EvidenceIsHistory /\ BindingIsWhole
    BY DEF EvidenceIsHistory, BindingIsWhole
  <1>3. \A w \in Workers : WorkerOK(w)
    BY DEF WorkerOK
  <1>4. LedgerIsPaid        BY DEF LedgerIsPaid
  <1>5. OneActivation       BY DEF OneActivation
  <1>6. ReconciledIsBacked  BY DEF ReconciledIsBacked
  <1>7. ReviewHasCause      BY DEF ReviewHasCause
  <1>8. QED BY <1>1, <1>2, <1>3, <1>4, <1>5, <1>6, <1>7 DEF IInv

-----------------------------------------------------------------------------
(* Workers.                                                                  *)

LEMMA CauseGrows ==
  ASSUME Grows, Cause
  PROVE  Cause'
  <1>1. CASE everReview # {}
    BY <1>1 DEF Grows, Cause
  <1>2. CASE \E p, q \in session : p # q /\ Arrived(p) /\ Arrived(q)
    <2>1. PICK p, q \in session : p # q /\ Arrived(p) /\ Arrived(q)
      BY <1>2
    <2>2. Arrived(p)' /\ Arrived(q)'
      BY <2>1 DEF Grows, Arrived
    <2>3. QED BY <2>1, <2>2 DEF Grows, Cause
  <1>3. QED BY <1>1, <1>2 DEF Cause

LEMMA PaymentIsPayment ==
  ASSUME IInv, NEW w \in Workers, pc[w] # "idle"
  PROVE  event[w] \in Events /\ Payment(w) \in Payments
  BY PayAssumption DEF IInv, TypeOK, WorkerOK, Payment

(* The other workers do not notice.                                          *)
LEMMA OtherWorkers ==
  ASSUME IInv, Grows, NEW w \in Workers,
         pc'[w] = pc[w], event'[w] = event[w], seen'[w] = seen[w]
  PROVE  WorkerOK(w)'
  <1>1. WorkerOK(w)
    BY DEF IInv
  <1>2. pc[w] # "idle" => event[w] \in Events /\ Payment(w) \in Payments
    BY PaymentIsPayment
  <1>3. Payment(w)' = Payment(w)
    BY DEF Payment
  <1>4. pc[w] = "review" => Cause'
    BY <1>1, CauseGrows DEF WorkerOK
  <1>5. QED BY <1>1, <1>2, <1>3, <1>4 DEF WorkerOK, Grows

LEMMA UnchangedWorkers ==
  ASSUME IInv, Grows, DataInv', UNCHANGED worker, faults' \in 0..MaxFaults
  PROVE  IInv'
  <1>1. \A w \in Workers : WorkerOK(w)'
    BY OtherWorkers DEF worker
  <1>2. TypeOK'
    BY DEF IInv, TypeOK, DataInv, DataTypeOK, worker
  <1>3. QED BY <1>1, <1>2 DEF IInv, DataInv

LEMMA Rests ==
  ASSUME IInv, Grows, DataInv', NEW w \in Workers, Rest(w), faults' \in 0..MaxFaults
  PROVE  IInv'
  <1>1. /\ pc' \in [Workers -> Places]
        /\ event' \in [Workers -> Events \cup {Nothing}]
        /\ seen' \in [Workers -> Verdicts \cup {"none"}]
        /\ pc'[w] = "idle" /\ event'[w] = Nothing /\ seen'[w] = "none"
        /\ \A v \in Workers : v # w =>
             pc'[v] = pc[v] /\ event'[v] = event[v] /\ seen'[v] = seen[v]
    BY DEF Rest, IInv, TypeOK, Places
  <1>2. TypeOK'
    BY <1>1 DEF TypeOK, DataInv, DataTypeOK
  <1>3. WorkerOK(w)'
    BY <1>1 DEF WorkerOK
  <1>4. \A v \in Workers : v # w => WorkerOK(v)'
    BY <1>1, OtherWorkers
  <1>5. QED BY <1>2, <1>3, <1>4 DEF IInv, DataInv

LEMMA Goes ==
  ASSUME IInv, Grows, DataInv', NEW w \in Workers, NEW place, pc[w] # "idle",
         Go(w, place), Fits(w, place), faults' \in 0..MaxFaults
  PROVE  IInv'
  <1>1. /\ pc' \in [Workers -> Places]
        /\ event' = event /\ seen' = seen
        /\ pc'[w] = place /\ place # "idle"
        /\ \A v \in Workers : v # w => pc'[v] = pc[v]
    BY DEF Go, Fits, IInv, TypeOK
  <1>2. TypeOK'
    BY <1>1 DEF IInv, TypeOK, DataInv, DataTypeOK
  <1>3. WorkerOK(w)'
    <2>1. event[w] \in Events /\ Payment(w) \in Payments /\ Payment(w)' = Payment(w)
      BY <1>1, PaymentIsPayment DEF Payment
    <2>2. WorkerOK(w) /\ event[w] # Nothing
      BY <2>1, NothingAssumption DEF IInv
    <2>3. QED BY <1>1, <2>1, <2>2 DEF WorkerOK, Grows, Fits
  <1>4. \A v \in Workers : v # w => WorkerOK(v)'
    BY <1>1, OtherWorkers
  <1>5. QED BY <1>2, <1>3, <1>4 DEF IInv, DataInv

-----------------------------------------------------------------------------
(* Data.                                                                     *)

LEMMA SameData ==
  ASSUME DataInv, UNCHANGED <<provider, inbox, binding, ledger>>,
         lease' \in {"free", "live", "lapsed"}, holder' \in Workers \cup {Nothing}
  PROVE  Grows /\ DataInv'
  <1>1. UNCHANGED <<evidence, everEligible, everReview, session, inbox, initial,
                    initialEvent, initialState, invitations, ledger>>
    BY DEF provider, binding
  <1>2. \A p \in Payments : Arrived(p)' = Arrived(p)
    BY <1>1 DEF Arrived
  <1>3. Cause' = Cause
    BY <1>1 DEF Cause, Arrived
  <1>4. DataTypeOK' /\ Grows
    BY <1>1 DEF DataInv, DataTypeOK, Grows
  <1>5. EvidenceIsHistory' /\ BindingIsWhole' /\ LedgerIsPaid' /\ OneActivation'
        /\ ReconciledIsBacked'
    BY <1>1 DEF DataInv, EvidenceIsHistory, BindingIsWhole, LedgerIsPaid, OneActivation,
                ReconciledIsBacked
  <1>6. ReviewHasCause'
    BY <1>1, <1>3 DEF DataInv, ReviewHasCause
  <1>7. QED BY <1>4, <1>5, <1>6 DEF DataInv

LEMMA LeaseSteps ==
  ASSUME DataInv
  PROVE  /\ UNCHANGED leasing =>
              lease' \in {"free", "live", "lapsed"} /\ holder' \in Workers \cup {Nothing}
         /\ FreeLease =>
              lease' \in {"free", "live", "lapsed"} /\ holder' \in Workers \cup {Nothing}
  BY DEF leasing, FreeLease, DataInv, DataTypeOK

LEMMA TurnIInv ==
  ASSUME IInv, NEW p \in Payments, Turn(p)
  PROVE  IInv'
  <1>1. /\ evidence' \in [Payments -> Verdicts]
        /\ everEligible \subseteq everEligible' /\ everEligible' \in SUBSET Payments
        /\ everReview \subseteq everReview' /\ everReview' \in SUBSET Payments
    BY DEF Turn, IInv, TypeOK, Verdicts
  <1>2. /\ UNCHANGED <<session, inbox, initial, initialEvent, initialState, invitations,
                       ledger, lease, holder, faults>>
        /\ UNCHANGED worker
    BY DEF Turn, binding, leasing
  <1>3. Grows
    BY <1>1, <1>2 DEF Grows
  <1>4. Cause => Cause'
    BY <1>3, CauseGrows
  <1>5. DataTypeOK'
    BY <1>1, <1>2 DEF IInv, TypeOK, DataTypeOK
  <1>6. BindingIsWhole' /\ LedgerIsPaid' /\ OneActivation' /\ ReconciledIsBacked'
    BY <1>1, <1>2 DEF IInv, BindingIsWhole, LedgerIsPaid, OneActivation, ReconciledIsBacked
  <1>7. ReviewHasCause'
    BY <1>2, <1>4 DEF IInv, ReviewHasCause
  <1>8. faults' \in 0..MaxFaults
    BY <1>2 DEF IInv, TypeOK
  <1>9. EvidenceIsHistory'
    BY DEF Turn, IInv, TypeOK, EvidenceIsHistory
  <1>10. QED BY <1>2, <1>3, <1>5, <1>6, <1>7, <1>8, <1>9, UnchangedWorkers DEF DataInv

(* An event's row changes, and nothing else.                                 *)
EventStep(e, status) ==
  /\ inbox' = [inbox EXCEPT ![e] = status]
  /\ status \in {"pending", "reconciled", "review"}
  /\ status = "reconciled" => Pay[e] = initial \/ ledger[Pay[e]] # Nothing
  /\ status = "review" => Cause
  /\ UNCHANGED <<provider, binding, ledger>>
  /\ lease' \in {"free", "live", "lapsed"}
  /\ holder' \in Workers \cup {Nothing}

LEMMA EventSteps ==
  ASSUME DataInv, NEW e \in Events, NEW status, EventStep(e, status)
  PROVE  Grows /\ DataInv'
  <1>1. /\ UNCHANGED <<evidence, everEligible, everReview, session, initial,
                       initialEvent, initialState, invitations, ledger>>
        /\ inbox' \in [Events -> {"absent", "pending", "reconciled", "review"}]
        /\ inbox'[e] = status
        /\ \A f \in Events : f # e => inbox'[f] = inbox[f]
    BY DEF EventStep, DataInv, DataTypeOK, provider, binding
  <1>2. Grows
    BY <1>1 DEF Grows, EventStep
  <1>3. Cause => Cause'
    BY <1>2, CauseGrows
  <1>4. DataTypeOK'
    BY <1>1 DEF DataInv, DataTypeOK, EventStep
  <1>5. BindingIsWhole'
    <2>1. initial # Nothing => initialEvent \in Events
      BY DEF DataInv, DataTypeOK, BindingIsWhole
    <2>2. QED BY <1>1, <1>2, <2>1 DEF DataInv, BindingIsWhole, Grows
  <1>6. EvidenceIsHistory' /\ LedgerIsPaid' /\ OneActivation'
    BY <1>1 DEF DataInv, EvidenceIsHistory, LedgerIsPaid, OneActivation
  <1>7. ReconciledIsBacked'
    BY <1>1 DEF DataInv, ReconciledIsBacked, EventStep
  <1>8. ReviewHasCause'
    BY <1>1, <1>3 DEF DataInv, ReviewHasCause, EventStep
  <1>9. QED BY <1>2, <1>4, <1>5, <1>6, <1>7, <1>8 DEF DataInv

LEMMA ReceiveIInv ==
  ASSUME IInv, NEW e \in Events, Receive(e)
  PROVE  IInv'
  <1>1. EventStep(e, "pending")
    BY DEF Receive, EventStep, leasing, IInv, TypeOK
  <1>2. Grows /\ DataInv'
    BY <1>1, EventSteps, IInvIsData
  <1>3. UNCHANGED worker /\ faults' \in 0..MaxFaults
    BY DEF Receive, IInv, TypeOK
  <1>4. QED BY <1>2, <1>3, UnchangedWorkers

LEMMA LapseIInv ==
  ASSUME IInv, Lapse
  PROVE  IInv'
  <1>1. Grows /\ DataInv'
    BY SameData, IInvIsData DEF Lapse, IInv, TypeOK
  <1>2. UNCHANGED worker /\ faults' \in 0..MaxFaults
    BY DEF Lapse, IInv, TypeOK
  <1>3. QED BY <1>1, <1>2, UnchangedWorkers

(* The steps that leave the data alone, but for the lease.                   *)
LEMMA ReadingIInv ==
  ASSUME IInv, NEW w \in Workers,
         \/ ReadCandidate(w) \/ FindOwner(w) \/ FindOwnerAgain(w)
         \/ ReadPending(w) \/ ClaimReconciliation(w)
         \/ CommitStale(w) \/ CommitDecided(w) \/ CommitPending(w)
         \/ RecordNothing(w) \/ RecordRefused(w) \/ RecordReplay(w)
  PROVE  IInv'
  <1>1. /\ UNCHANGED <<provider, inbox, binding, ledger>>
        /\ faults' \in 0..MaxFaults
        /\ lease' \in {"free", "live", "lapsed"}
        /\ holder' \in Workers \cup {Nothing}
    BY DEF ReadCandidate, FindOwner, FindOwnerAgain, ReadPending, ClaimReconciliation,
           CommitStale, CommitDecided, CommitPending, Committing, RecordNothing,
           RecordRefused, RecordReplay, Records, FreeLease, leasing, IInv, TypeOK
  <1>2. Grows /\ DataInv'
    BY <1>1, SameData, IInvIsData
  <1>3. /\ pc[w] # "idle" /\ Payment(w) \in Payments /\ event[w] \in Events
        /\ WorkerOK(w) /\ event[w] # Nothing
    BY PaymentIsPayment, NothingAssumption
    DEF ReadCandidate, FindOwner, FindOwnerAgain, ReadPending, ClaimReconciliation,
        CommitStale, CommitDecided, CommitPending, Committing, RecordNothing,
        RecordRefused, RecordReplay, Records, IInv
  <1>4. CASE Rest(w)
    BY <1>1, <1>2, <1>4, Rests
  <1>5. ASSUME NEW place \in Places, Go(w, place), Fits(w, place)
        PROVE  IInv'
    BY <1>1, <1>2, <1>3, <1>5, Goes
  <1>6. ASSUME RecordRefused(w) PROVE Cause
    <2>1. CASE ~Undecided(event[w])
      <3>1. inbox[event[w]] = "review"
        BY <1>3, <2>1 DEF Undecided, IInv, TypeOK, WorkerOK
      <3>2. QED BY <1>3, <3>1 DEF IInv, ReviewHasCause
    <2>2. CASE seen[w] = "review"
      BY <1>3, <2>2 DEF WorkerOK, Cause
    <2>3. CASE Payment(w) = initial /\ Payment(w) \notin session
      <3>1. initial # Nothing
        BY <1>6 DEF RecordRefused, Owned, IInv, BindingIsWhole
      <3>2. QED BY <2>3, <3>1 DEF IInv, BindingIsWhole
    <2>4. QED BY <1>6, <2>1, <2>2, <2>3 DEF RecordRefused, Refused
  <1>7. CASE Go(w, "evidence") /\ ReadCandidate(w)
    BY <1>5, <1>7 DEF Fits, Places
  <1>8. CASE FindOwner(w) \/ FindOwnerAgain(w)
    <2>1. CASE Go(w, "record")
      BY <1>3, <1>5, <1>8, <2>1 DEF FindOwner, FindOwnerAgain, Fits, Places, WorkerOK
    <2>2. CASE Go(w, "reconcile") /\ Payment(w) \in session
      BY <1>3, <1>5, <1>8, <2>2 DEF FindOwner, FindOwnerAgain, Fits, Places, WorkerOK
    <2>3. QED BY <1>4, <1>8, <2>1, <2>2 DEF FindOwner, FindOwnerAgain
  <1>9. CASE Go(w, "claim") /\ ReadPending(w)
    BY <1>3, <1>5, <1>9 DEF ReadPending, Fits, Places, WorkerOK
  <1>10. CASE Go(w, "leased") /\ ClaimReconciliation(w)
    BY <1>3, <1>5, <1>10 DEF ClaimReconciliation, Fits, Places, WorkerOK
  <1>11. CASE Go(w, "committed") /\ CommitDecided(w)
    BY <1>3, <1>5, <1>11 DEF CommitDecided, Fits, Places, WorkerOK
  <1>12. CASE RecordRefused(w)
    <2>1. Cause'
      BY <1>2, <1>6, <1>12, CauseGrows
    <2>2. Fits(w, "review") /\ Go(w, "review")
      BY <1>3, <1>12, <2>1 DEF RecordRefused, Fits, Places, WorkerOK
    <2>3. QED BY <1>5, <2>2 DEF Places
  <1>13. CASE RecordReplay(w)
    <2>1. Fits(w, "finish") /\ Go(w, "finish")
      BY <1>3, <1>13 DEF RecordReplay, Records, Fits, Places, WorkerOK
    <2>2. QED BY <1>5, <2>1 DEF Places
  <1>14. QED
    BY <1>4, <1>7, <1>8, <1>9, <1>10, <1>11, <1>12, <1>13
    DEF ReadCandidate, ReadPending, ClaimReconciliation, CommitStale, CommitDecided,
        CommitPending, RecordNothing

(* The steps that write the event's row only.                                *)
LEMMA ClosingIInv ==
  ASSUME IInv, NEW w \in Workers,
         CommitReplay(w) \/ FinishReconciled(w) \/ FinishReview(w)
  PROVE  IInv'
  <1>1. /\ pc[w] # "idle" /\ Payment(w) \in Payments /\ event[w] \in Events
        /\ WorkerOK(w) /\ faults' \in 0..MaxFaults
    BY PaymentIsPayment
    DEF CommitReplay, Committing, FinishReconciled, FinishReview, IInv, TypeOK
  <1>2. CASE CommitReplay(w)
    <2>1. EventStep(event[w], "reconciled")
      BY <1>2 DEF CommitReplay, BindsSame, EventStep, FreeLease, Payment
    <2>2. Fits(w, "committed") /\ Go(w, "committed")
      BY <1>1, <1>2 DEF CommitReplay, Committing, Fits, Places, WorkerOK
    <2>3. QED BY <1>1, <2>1, <2>2, EventSteps, IInvIsData, Goes
  <1>3. CASE FinishReconciled(w) \/ FinishReview(w)
    <2>1. Rest(w) /\ UNCHANGED <<provider, binding, ledger, leasing>>
      BY <1>3 DEF FinishReconciled, FinishReview
    <2>2. CASE inbox' = inbox
      <3>1. Grows /\ DataInv'
        BY <2>1, <2>2, SameData, LeaseSteps, IInvIsData
      <3>2. QED BY <1>1, <2>1, <3>1, Rests
    <2>3. CASE inbox' # inbox
      <3>1. PICK status \in {"reconciled", "review"} :
              /\ inbox' = [inbox EXCEPT ![event[w]] = status]
              /\ status = "reconciled" => ledger[Payment(w)] # Nothing
              /\ status = "review" => Cause
        BY <1>1, <1>3, <2>3 DEF FinishReconciled, FinishReview, WorkerOK
      <3>2. lease' \in {"free", "live", "lapsed"} /\ holder' \in Workers \cup {Nothing}
        BY <2>1, LeaseSteps, IInvIsData
      <3>3. EventStep(event[w], status)
        BY <2>1, <3>1, <3>2 DEF EventStep, Payment
      <3>4. QED BY <1>1, <2>1, <3>3, EventSteps, IInvIsData, Rests
    <2>4. QED BY <2>2, <2>3
  <1>4. QED BY <1>2, <1>3

(* A second payment of the checkout, or bad news about the first.            *)
LEMMA ConflictHasCause ==
  ASSUME IInv, NEW w \in Workers, CommitConflict(w)
  PROVE  Cause
  <1>1. /\ Payment(w) \in session /\ event[w] \in Events
        /\ inbox[event[w]] # "absent"
        /\ seen[w] \in {"eligible", "review"}
        /\ initial # Nothing /\ ~BindsSame(w)
        /\ WorkerOK(w)
    BY PaymentIsPayment
    DEF CommitConflict, Committing, Conflicts, IInv, TypeOK, Verdicts, WorkerOK
  <1>2. CASE seen[w] = "review"
    BY <1>1, <1>2 DEF WorkerOK, Cause
  <1>3. CASE ~Owned
    <2>1. initialState = "review"
      BY <1>1, <1>3 DEF Owned, IInv, TypeOK, BindingIsWhole
    <2>2. QED BY <2>1 DEF IInv, ReviewHasCause
  <1>4. CASE initial # Payment(w)
    <2>1. Arrived(Payment(w))
      BY <1>1 DEF Arrived, Payment
    <2>2. initial \in session /\ initialEvent \in Events /\ Pay[initialEvent] = initial
          /\ inbox[initialEvent] # "absent"
      BY <1>1 DEF IInv, TypeOK, BindingIsWhole
    <2>3. Arrived(initial)
      BY <2>2 DEF Arrived
    <2>4. QED BY <1>1, <1>4, <2>1, <2>2, <2>3 DEF Cause
  <1>5. QED BY <1>1, <1>2, <1>3, <1>4 DEF BindsSame

(* The steps that write the initial payment's row and the event's row.       *)
LEMMA BindingIInv ==
  ASSUME IInv, NEW w \in Workers,
         CommitConflict(w) \/ CommitReview(w) \/ CommitEligible(w)
  PROVE  IInv'
  <1>1. /\ pc[w] = "commit" /\ Payment(w) \in Payments /\ event[w] \in Events
        /\ WorkerOK(w) /\ faults' \in 0..MaxFaults
        /\ Pay[event[w]] = Payment(w) /\ Payment(w) # Nothing /\ event[w] # Nothing
    BY PaymentIsPayment, NothingAssumption
    DEF CommitConflict, CommitReview, CommitEligible, Committing, IInv, TypeOK, Payment
  <1>2. /\ UNCHANGED <<evidence, everEligible, everReview, session, ledger>>
        /\ lease' \in {"free", "live", "lapsed"}
        /\ holder' \in Workers \cup {Nothing}
    BY DEF CommitConflict, CommitReview, CommitEligible, FreeLease, provider
  <1>3. PICK status \in {"reconciled", "review"} :
          inbox' = [inbox EXCEPT ![event[w]] = status]
    BY DEF CommitConflict, CommitReview, CommitEligible
  <1>4. /\ inbox' \in [Events -> {"absent", "pending", "reconciled", "review"}]
        /\ inbox'[event[w]] = status
        /\ \A e \in Events : e # event[w] => inbox'[e] = inbox[e]
    BY <1>1, <1>3 DEF IInv, TypeOK
  <1>5. Grows
    BY <1>2, <1>4 DEF Grows
  <1> EvidenceIsHistory'
    BY <1>2 DEF IInv, EvidenceIsHistory
  <1>6. CASE CommitConflict(w)
    <2>1. /\ initialState' = "review" /\ inbox'[event[w]] = "review"
          /\ UNCHANGED <<initial, initialEvent, invitations>>
          /\ initial # Nothing
      BY <1>1, <1>6 DEF CommitConflict, Conflicts, IInv, TypeOK
    <2>2. Cause'
      BY <1>5, <1>6, ConflictHasCause, CauseGrows
    <2>3. DataTypeOK'
      BY <1>2, <1>4, <2>1 DEF IInv, TypeOK, DataTypeOK
    <2>4. BindingIsWhole'
      <3>1. initialEvent \in Events
        BY <2>1 DEF IInv, TypeOK, BindingIsWhole
      <3>2. QED BY <1>2, <1>5, <2>1, <3>1 DEF IInv, BindingIsWhole, Grows
    <2>5. LedgerIsPaid' /\ OneActivation'
      BY <1>2, <2>1 DEF IInv, LedgerIsPaid, OneActivation
    <2>6. ReconciledIsBacked'
      BY <1>2, <1>4, <2>1 DEF IInv, ReconciledIsBacked
    <2>7. ReviewHasCause'
      BY <2>2 DEF ReviewHasCause
    <2>8. Rest(w)
      BY <1>6 DEF CommitConflict
    <2>9. QED BY <1>1, <1>5, <2>3, <2>4, <2>5, <2>6, <2>7, <2>8, Rests DEF DataInv
  <1>7. CASE CommitReview(w) \/ CommitEligible(w)
    <2>1. /\ initial = Nothing /\ initialState = "none" /\ invitations = 0
          /\ initial' = Payment(w) /\ initialEvent' = event[w]
          /\ Payment(w) \in session
      BY <1>1, <1>7 DEF CommitReview, CommitEligible, Binds, IInv, BindingIsWhole, WorkerOK
    <2>2. \/ /\ initialState' = "review" /\ invitations' = 0
             /\ inbox'[event[w]] = "review" /\ seen[w] = "review" /\ Rest(w)
          \/ /\ initialState' = "paid_pending_activation" /\ invitations' = 1
             /\ inbox'[event[w]] = "reconciled" /\ seen[w] = "eligible"
             /\ Go(w, "committed")
      BY <1>1, <1>7, <2>1 DEF CommitReview, CommitEligible, Binds, IInv, TypeOK
    <2>3. DataTypeOK'
      BY <1>1, <1>2, <1>4, <2>1, <2>2 DEF IInv, TypeOK, DataTypeOK
    <2>4. BindingIsWhole'
      BY <1>1, <1>2, <2>1, <2>2 DEF BindingIsWhole
    <2>5. LedgerIsPaid'
      BY <1>1, <1>2, <2>1 DEF IInv, LedgerIsPaid
    <2>6. OneActivation'
      BY <1>1, <1>2, <2>1, <2>2 DEF WorkerOK, OneActivation
    <2>7. ReconciledIsBacked'
      <3> SUFFICES ASSUME NEW e \in Events, inbox'[e] = "reconciled"
                   PROVE  Pay[e] = initial' \/ ledger'[Pay[e]] # Nothing
        BY DEF ReconciledIsBacked
      <3>1. CASE e = event[w]
        BY <1>1, <2>1, <3>1
      <3>2. CASE e # event[w]
        <4>1. inbox[e] = "reconciled" /\ Pay[e] \in Payments
          BY <1>4, <3>2, PayAssumption
        <4>2. Pay[e] # Nothing
          BY <4>1, NothingAssumption
        <4>3. QED BY <1>2, <2>1, <4>1, <4>2 DEF IInv, ReconciledIsBacked
      <3>3. QED BY <3>1, <3>2
    <2>8. ReviewHasCause'
      <3>1. CASE seen[w] = "review"
        <4>1. Cause
          BY <1>1, <3>1 DEF WorkerOK, Cause
        <4>2. QED BY <1>5, <4>1, CauseGrows DEF ReviewHasCause
      <3>2. CASE initialState' = "paid_pending_activation" /\ inbox'[event[w]] = "reconciled"
        <4>1. Cause => Cause'
          BY <1>5, CauseGrows
        <4>2. \A e \in Events : inbox'[e] = "review" => inbox[e] = "review"
          BY <1>4, <3>2
        <4>3. QED BY <3>2, <4>1, <4>2 DEF IInv, ReviewHasCause
      <3>3. QED BY <2>2, <3>1, <3>2
    <2>9. DataInv'
      BY <2>3, <2>4, <2>5, <2>6, <2>7, <2>8 DEF DataInv
    <2>10. CASE Rest(w)
      BY <1>1, <1>5, <2>9, <2>10, Rests
    <2>11. CASE Go(w, "committed") /\ seen[w] = "eligible"
      <3>1. Fits(w, "committed")
        BY <2>11 DEF Fits, Places
      <3>2. QED BY <1>1, <1>5, <2>9, <2>11, <3>1, Goes
    <2>12. QED BY <2>2, <2>10, <2>11
  <1>8. QED BY <1>6, <1>7

LEMMA RecordNewIInv ==
  ASSUME IInv, NEW w \in Workers, RecordNew(w)
  PROVE  IInv'
  <1>1. /\ pc[w] = "record" /\ Payment(w) \in Payments /\ event[w] \in Events
        /\ WorkerOK(w) /\ faults' \in 0..MaxFaults
        /\ Pay[event[w]] = Payment(w) /\ event[w] # Nothing
        /\ seen[w] = "eligible" /\ Owned
    BY PaymentIsPayment, NothingAssumption
    DEF RecordNew, Records, IInv, TypeOK, Payment
  <1>2. /\ UNCHANGED <<evidence, everEligible, everReview, session, inbox, initial,
                       initialEvent, initialState, invitations, lease, holder>>
        /\ ledger' \in [Payments -> Events \cup {Nothing}]
        /\ ledger'[Payment(w)] = event[w]
        /\ \A p \in Payments : p # Payment(w) => ledger'[p] = ledger[p]
    BY <1>1 DEF RecordNew, IInv, TypeOK, provider, binding, leasing
  <1>3. Grows
    BY <1>1, <1>2 DEF Grows
  <1>4. Cause => Cause'
    BY <1>3, CauseGrows
  <1>5. DataTypeOK'
    BY <1>2 DEF IInv, TypeOK, DataTypeOK
  <1>6. EvidenceIsHistory' /\ BindingIsWhole' /\ OneActivation'
    BY <1>2 DEF IInv, EvidenceIsHistory, BindingIsWhole, OneActivation
  <1>7. LedgerIsPaid'
    <2>1. initial # Nothing /\ Payment(w) \in everEligible
      BY <1>1 DEF Owned, IInv, BindingIsWhole, WorkerOK
    <2>2. QED BY <1>1, <1>2, <2>1 DEF IInv, LedgerIsPaid
  <1>8. ReconciledIsBacked'
    <2>1. \A e \in Events : Pay[e] \in Payments
      BY PayAssumption
    <2>2. QED BY <1>2, <1>3, <2>1 DEF IInv, ReconciledIsBacked, Grows
  <1>9. ReviewHasCause'
    BY <1>2, <1>4 DEF IInv, ReviewHasCause
  <1>10. Fits(w, "finish") /\ Go(w, "finish")
    BY <1>1, <1>2 DEF RecordNew, Fits, Places
  <1>11. DataInv'
    BY <1>5, <1>6, <1>7, <1>8, <1>9 DEF DataInv
  <1>12. QED BY <1>1, <1>3, <1>10, <1>11, Goes

(* Retrieve, and the failures.                                               *)
LEMMA RetrieveIInv ==
  ASSUME IInv, NEW w \in Workers, Retrieve(w)
  PROVE  IInv'
  <1>1. /\ pc[w] \in {"evidence", "leased", "committed"} /\ Payment(w) \in Payments
        /\ event[w] \in Events /\ WorkerOK(w) /\ event[w] # Nothing
        /\ Payment(w)' = Payment(w)
    BY PaymentIsPayment, NothingAssumption DEF Retrieve, IInv, Payment
  <1>2. UNCHANGED <<provider, inbox, binding, ledger, leasing, event, faults>>
    BY DEF Retrieve
  <1>3. Grows /\ DataInv'
    BY <1>2, SameData, LeaseSteps, IInvIsData
  <1>4. /\ pc' \in [Workers -> Places]
        /\ seen' \in [Workers -> Verdicts \cup {"none"}]
        /\ pc'[w] \in {"owner", "commit", "owner_again"}
        /\ pc'[w] = "commit" => pc[w] = "leased"
        /\ seen'[w] = evidence[Payment(w)]
        /\ \A v \in Workers : v # w => pc'[v] = pc[v] /\ seen'[v] = seen[v]
    BY <1>1 DEF Retrieve, AfterEvidence, IInv, TypeOK, Places
  <1>5. /\ evidence[Payment(w)] \in Verdicts
        /\ evidence[Payment(w)] = "eligible" => Payment(w) \in everEligible
        /\ evidence[Payment(w)] = "review" => Payment(w) \in everReview
    BY <1>1 DEF IInv, TypeOK, EvidenceIsHistory
  <1>6. TypeOK'
    BY <1>2, <1>3, <1>4 DEF IInv, TypeOK, DataInv, DataTypeOK
  <1>7. WorkerOK(w)'
    <2>1. UNCHANGED <<everEligible, everReview, session, inbox>>
      BY <1>2 DEF provider
    <2>2. QED BY <1>1, <1>2, <1>4, <1>5, <2>1 DEF WorkerOK, Verdicts
  <1>8. \A v \in Workers : v # w => WorkerOK(v)'
    BY <1>2, <1>3, <1>4, OtherWorkers
  <1>9. QED BY <1>3, <1>6, <1>7, <1>8 DEF IInv, DataInv

LEMMA TakeBatchIInv ==
  ASSUME IInv, NEW w \in Workers, NEW e \in Events, TakeBatch(w, e)
  PROVE  IInv'
  <1>1. UNCHANGED <<provider, inbox, binding, ledger, leasing, seen, faults>>
    BY DEF TakeBatch
  <1>2. Grows /\ DataInv'
    BY <1>1, SameData, LeaseSteps, IInvIsData
  <1>3. /\ pc' \in [Workers -> Places]
        /\ event' \in [Workers -> Events \cup {Nothing}]
        /\ pc'[w] = "taken" /\ event'[w] = e
        /\ \A v \in Workers : v # w => pc'[v] = pc[v] /\ event'[v] = event[v]
    BY DEF TakeBatch, IInv, TypeOK, Places
  <1>4. TypeOK'
    BY <1>1, <1>2, <1>3 DEF IInv, TypeOK, DataInv, DataTypeOK
  <1>5. WorkerOK(w)'
    <2>1. inbox'[e] # "absent" /\ e # Nothing /\ pc[w] = "idle" /\ event[w] = Nothing
      BY <1>1, NothingAssumption DEF TakeBatch, InQueue, IInv, WorkerOK
    <2>2. seen[w] \notin {"eligible", "review"}
      BY <2>1 DEF IInv, WorkerOK
    <2>3. QED BY <1>1, <1>3, <2>1, <2>2 DEF WorkerOK
  <1>6. \A v \in Workers : v # w => WorkerOK(v)'
    BY <1>1, <1>2, <1>3, OtherWorkers
  <1>7. QED BY <1>2, <1>4, <1>5, <1>6 DEF IInv, DataInv

LEMMA FailureIInv ==
  ASSUME IInv, NEW w \in Workers, Stall(w) \/ RetrieveFails(w) \/ Abandon(w)
  PROVE  IInv'
  <1>1. /\ UNCHANGED <<provider, inbox, binding, ledger>>
        /\ lease' \in {"free", "live", "lapsed"}
        /\ holder' \in Workers \cup {Nothing}
    BY LeaseSteps DEF Stall, RetrieveFails, Abandon, FreeLease, leasing, IInv, TypeOK
  <1>2. Grows /\ DataInv'
    BY <1>1, SameData, IInvIsData
  <1>3. faults' \in 0..MaxFaults
    BY PayFaultsAssumption DEF Stall, RetrieveFails, Abandon, Fault, IInv, TypeOK
  <1>4. CASE Stall(w)
    BY <1>2, <1>3, <1>4, UnchangedWorkers DEF Stall
  <1>5. CASE RetrieveFails(w) \/ Abandon(w)
    BY <1>2, <1>3, <1>5, Rests DEF RetrieveFails, Abandon
  <1>6. QED BY <1>4, <1>5

LEMMA NextIInv == IInv /\ [Next]_vars => IInv'
  <1> SUFFICES ASSUME IInv, [Next]_vars PROVE IInv'  OBVIOUS
  <1>1. ASSUME NEW w \in Workers, Process(w) PROVE IInv'
    BY <1>1, ReadingIInv, RetrieveIInv, ClosingIInv, BindingIInv, RecordNewIInv DEF Process
  <1>2. CASE UNCHANGED vars
    <2>1. UNCHANGED <<provider, inbox, binding, ledger, leasing>> /\ UNCHANGED worker
          /\ faults' = faults
      BY <1>2 DEF vars
    <2>2. Grows /\ DataInv'
      BY <2>1, SameData, LeaseSteps, IInvIsData
    <2>3. faults' \in 0..MaxFaults
      BY <2>1 DEF IInv, TypeOK
    <2>4. QED BY <2>1, <2>2, <2>3, UnchangedWorkers
  <1>3. QED
    BY <1>1, <1>2, TurnIInv, ReceiveIInv, LapseIInv, TakeBatchIInv, FailureIInv DEF Next

-----------------------------------------------------------------------------

(* The inductive invariant holds of every behaviour.                         *)
THEOREM Invariance == Spec => []IInv
  BY InitIInv, NextIInv, PTL DEF Spec

(* The variables keep their types: no step writes a status the tables do not *)
(* know, although claims, commits and crashes interleave.                    *)
THEOREM TypeCorrect == Spec => []TypeOK
  BY Invariance, PTL DEF IInv

(* Access is recorded only for a payment the provider has confirmed, by an   *)
(* event about it, after the registration was bound.                         *)
THEOREM LedgerPaid == Spec => []LedgerIsPaid
  BY Invariance, PTL DEF IInv

(* A registration gets one activation invitation at most, with its paid      *)
(* initial payment, whatever the number of events, replicas and retries.     *)
THEOREM ActivationOnce == Spec => []OneActivation
  BY Invariance, PTL DEF IInv

(* An event closed as reconciled has its payment bound or recorded.          *)
THEOREM ReconciledBacked == Spec => []ReconciledIsBacked
  BY Invariance, PTL DEF IInv

(* Nothing goes to review without bad news or a second payment of the same   *)
(* checkout: duplicates and races between replicas alone never send it.      *)
THEOREM ReviewCaused == Spec => []ReviewHasCause
  BY Invariance, PTL DEF IInv

Stand ==
  /\ \A e \in Events :
       /\ inbox[e] = "review" => inbox'[e] = "review"
       /\ inbox[e] = "reconciled" => inbox'[e] # "pending"
  /\ initialState = "review" => initialState' = "review"

(* No step of any process takes back a review or reopens a closed event.     *)
LEMMA StepStands == IInv /\ [Next]_vars => Stand
  <1> SUFFICES ASSUME IInv, [Next]_vars PROVE Stand  OBVIOUS
  <1>1. CASE inbox' = inbox /\ initialState' = initialState
    BY <1>1 DEF Stand
  <1>2. ASSUME NEW e \in Events, Receive(e) PROVE Stand
    BY <1>2 DEF Receive, binding, IInv, TypeOK, Stand
  <1>3. ASSUME NEW w \in Workers,
               \/ CommitReplay(w) \/ CommitConflict(w) \/ CommitReview(w)
               \/ CommitEligible(w) \/ FinishReconciled(w) \/ FinishReview(w)
        PROVE  Stand
    <2>1. pc[w] # "idle"
      BY <1>3 DEF CommitReplay, CommitConflict, CommitReview, CommitEligible, Committing,
                  FinishReconciled, FinishReview
    <2>2. event[w] \in Events
      BY <2>1, PaymentIsPayment
    <2>3. CASE CommitReplay(w) \/ CommitConflict(w) \/ CommitReview(w) \/ CommitEligible(w)
      <3>1. PICK status \in {"reconciled", "review"} :
              inbox' = [inbox EXCEPT ![event[w]] = status]
        BY <2>3 DEF CommitReplay, CommitConflict, CommitReview, CommitEligible
      <3>2. inbox[event[w]] = "pending"
        BY <2>3 DEF CommitReplay, CommitConflict, CommitReview, CommitEligible, Committing
      <3>3. initialState = "review" => initialState' = "review"
        BY <2>3 DEF CommitReplay, CommitConflict, CommitReview, CommitEligible, Binds, binding,
                    IInv, BindingIsWhole
      <3>4. QED BY <2>2, <3>1, <3>2, <3>3 DEF IInv, TypeOK, Stand
    <2>4. CASE FinishReconciled(w) \/ FinishReview(w)
      <3>1. initialState' = initialState
        BY <2>4 DEF FinishReconciled, FinishReview, binding
      <3>2. CASE inbox' = inbox
        BY <3>1, <3>2 DEF Stand
      <3>3. CASE inbox' # inbox
        <4>1. PICK status \in {"reconciled", "review"} :
                inbox' = [inbox EXCEPT ![event[w]] = status]
          BY <2>4, <3>3 DEF FinishReconciled, FinishReview
        <4>2. inbox[event[w]] \in {"pending", "reconciled"}
          BY <2>4, <3>3 DEF FinishReconciled, FinishReview, Undecided
        <4>3. QED BY <2>2, <3>1, <4>1, <4>2 DEF IInv, TypeOK, Stand
      <3>4. QED BY <3>2, <3>3
    <2>5. QED BY <1>3, <2>3, <2>4
  <1>4. ASSUME NEW w \in Workers, Process(w) PROVE Stand
    BY <1>1, <1>3, <1>4
    DEF Process, ReadCandidate, Retrieve, FindOwner, FindOwnerAgain, ReadPending,
        ClaimReconciliation, CommitStale, CommitDecided, CommitPending, RecordNothing,
        RecordRefused, RecordReplay, RecordNew, binding
  <1>5. QED
    BY <1>1, <1>2, <1>4
    DEF Next, vars, Turn, Lapse, TakeBatch, Stall, RetrieveFails, Abandon, binding

(* What was sent to review, or closed, stays so until a human acts.          *)
THEOREM DecisionsAreFinal == Spec => DecisionsStand
  <1>1. IInv /\ [Next]_vars => [Stand]_vars
    BY StepStands
  <1>2. QED BY <1>1, Invariance, PTL DEF Spec, DecisionsStand, Stand

-----------------------------------------------------------------------------
(* The processing of payments implements AccessPromise.                      *)

LEMMA InitPromise == Init => Promise!AInit
  BY DEF Init, Promise!AInit

(* The transactions that write the binding: a snapshot may be stale, but     *)
(* what it said of the payment was said once.                                *)
LEMMA CommitKeepsPromise ==
  ASSUME IInv, NEW w \in Workers,
         CommitConflict(w) \/ CommitReview(w) \/ CommitEligible(w)
  PROVE  [Promise!ANext]_Promise!avars
  <1> DEFINE p == Payment(w)
  <1>1. /\ p \in session /\ p \in Payments
        /\ seen[w] = "eligible" => p \in everEligible
        /\ seen[w] = "review" => p \in everReview
        /\ seen[w] \in {"pending", "eligible", "review"}
    BY PaymentIsPayment
    DEF CommitConflict, CommitReview, CommitEligible, Committing, IInv, TypeOK, Verdicts, WorkerOK
  <1>2. UNCHANGED <<everEligible, everReview, session, ledger>>
    BY DEF CommitConflict, CommitReview, CommitEligible, provider
  <1>3. CASE CommitConflict(w)
    <2>1. /\ initialState' = "review" /\ UNCHANGED <<initial, invitations>>
          /\ initial # Nothing /\ seen[w] \in {"eligible", "review"}
          /\ ~(initial = p /\ seen[w] = "eligible" /\ Owned)
      BY <1>1, <1>3 DEF CommitConflict, Conflicts, BindsSame
    <2>2. initialState \in {"paid_pending_activation", "review"}
      BY <2>1 DEF IInv, TypeOK, BindingIsWhole
    <2>3. CASE initialState = "review"
      BY <1>2, <2>1, <2>3 DEF Promise!avars
    <2>4. CASE initialState = "paid_pending_activation"
      <3>1. p \in everReview \/ (p \in everEligible /\ p # initial)
        BY <1>1, <2>1, <2>4 DEF Owned
      <3>2. Promise!Withdraw(p)
        BY <1>1, <1>2, <2>1, <2>4, <3>1 DEF Promise!Withdraw
      <3>3. QED BY <1>1, <3>2 DEF Promise!ANext
    <2>5. QED BY <2>2, <2>3, <2>4
  <1>4. CASE CommitReview(w)
    <2>1. initialState = "none"
      BY <1>4 DEF CommitReview, IInv, BindingIsWhole
    <2>2. Promise!Reject(p)
      BY <1>1, <1>2, <1>4, <2>1 DEF CommitReview, Promise!Reject
    <2>3. QED BY <1>1, <2>2 DEF Promise!ANext
  <1>5. CASE CommitEligible(w)
    <2>1. initialState = "none"
      BY <1>5 DEF CommitEligible, Binds, IInv, BindingIsWhole
    <2>2. Promise!Bind(p)
      BY <1>1, <1>2, <1>5, <2>1 DEF CommitEligible, Binds, Promise!Bind
    <2>3. QED BY <1>1, <2>2 DEF Promise!ANext
  <1>6. QED BY <1>3, <1>4, <1>5

LEMMA RecordKeepsPromise ==
  ASSUME IInv, NEW w \in Workers, RecordNew(w)
  PROVE  Promise!ANext
  <1>1. PICK p \in Payments : p = Payment(w)
    BY PaymentIsPayment DEF RecordNew, Records
  <1>2. event[w] \in Events /\ event[w] # Nothing /\ p \in everEligible /\ Owned
    BY <1>1, PaymentIsPayment, NothingAssumption DEF RecordNew, Records, IInv, WorkerOK
  <1>3. /\ UNCHANGED <<everEligible, everReview, session, initial, initialState, invitations>>
        /\ ledger' = [ledger EXCEPT ![p] = event[w]]
    BY <1>1 DEF RecordNew, provider, binding
  <1>4. {q \in Payments : ledger'[q] # Nothing} = {q \in Payments : ledger[q] # Nothing} \cup {p}
    BY <1>2, <1>3 DEF IInv, TypeOK
  <1>5. Promise!Grant(p)
    BY <1>2, <1>3, <1>4 DEF Owned, Promise!Grant
  <1>6. QED BY <1>5 DEF Promise!ANext

(* Every step of the provider, the replicas and the faults is a step of the  *)
(* promise, or one it does not know of.                                      *)
THEOREM StepKeepsAccessPromise ==
  ASSUME IInv, [Next]_vars
  PROVE  [Promise!ANext]_Promise!avars
  <1>1. ASSUME UNCHANGED <<provider, binding, ledger>>
        PROVE  [Promise!ANext]_Promise!avars
    BY <1>1 DEF provider, binding, Promise!avars
  <1>2. ASSUME NEW p \in Payments, Turn(p)
        PROVE  [Promise!ANext]_Promise!avars
    <2>1. /\ \/ everEligible' = everEligible \cup {p} /\ everReview' = everReview
             \/ everReview' = everReview \cup {p} /\ everEligible' = everEligible
          /\ UNCHANGED <<session, initial, initialState, invitations, ledger>>
      BY <1>2 DEF Turn, binding
    <2>2. Promise!Say(p)
      BY <2>1 DEF Promise!Say
    <2>3. QED BY <2>2 DEF Promise!ANext
  <1>3. ASSUME NEW w \in Workers, Process(w)
        PROVE  [Promise!ANext]_Promise!avars
    <2>1. CASE CommitConflict(w) \/ CommitReview(w) \/ CommitEligible(w)
      BY <2>1, CommitKeepsPromise
    <2>2. CASE RecordNew(w)
      BY <2>2, RecordKeepsPromise
    <2>3. QED
      BY <1>1, <1>3, <2>1, <2>2
      DEF Process, ReadCandidate, Retrieve, FindOwner, FindOwnerAgain, ReadPending,
          ClaimReconciliation, CommitStale, CommitDecided, CommitPending, CommitReplay,
          RecordNothing, RecordRefused, RecordReplay, FinishReconciled, FinishReview
  <1>4. CASE UNCHANGED vars
    BY <1>1, <1>4 DEF vars
  <1>5. QED
    BY <1>1, <1>2, <1>3, <1>4
    DEF Next, Receive, Lapse, TakeBatch, Stall, RetrieveFails, Abandon

(* However webhooks are repeated and reordered and replicas overtake one     *)
(* another, what the subscriber sees is AccessPromise: one binding, one      *)
(* activation, access for confirmed payments only, none granted once under   *)
(* review.                                                                   *)
THEOREM PaymentsKeepPromise == Spec => KeepsAccessPromise
  <1>1. Init => Promise!AInit
    BY InitPromise
  <1>2. IInv /\ [Next]_vars => [Promise!ANext]_Promise!avars
    BY StepKeepsAccessPromise
  <1>3. QED
    BY <1>1, <1>2, Invariance, PTL DEF Spec, KeepsAccessPromise, Promise!ASpec
================================================================================
