--------------------------- MODULE EmailOutboxProofs ---------------------------
(***************************************************************************)
(* Proofs about EmailOutbox, for any number of rows and replicas, any      *)
(* batch size and any limit of attempts.  Everything follows from IInv.  A *)
(* step changes rows, workers or both: FencedRows says what the fenced     *)
(* statements do to the rows, LetGoIInv what letting go of a lease does to *)
(* the workers.                                                            *)
(***************************************************************************)
EXTENDS EmailOutbox, TLAPS

RowTypeOK ==
  /\ sent     \in [Invitations -> BOOLEAN]
  /\ token    \in [Invitations -> BOOLEAN]
  /\ attempts \in [Invitations -> 0..MaxAttempts]
  /\ lease    \in [Invitations -> {"none", "live", "lapsed"}]
  /\ due      \in [Invitations -> {"now", "later", "never"}]

AttemptsGrow == \A i \in Invitations : attempts[i] <= attempts'[i]

(* What every step does to the rows.                                         *)
RowsStep == RowTypeOK' /\ AttemptsGrow /\ TokenRetention'

(* Worker w keeps no more leases than it had; the one it is about to send is *)
(* taken from its batch.                                                     *)
LetGo(w, p, T, s) ==
  /\ p \in {"idle", "batch", "sending"}
  /\ s \in Leases \cup {Idle}
  /\ pc'      = [pc      EXCEPT ![w] = p]
  /\ todo'    = [todo    EXCEPT ![w] = T]
  /\ serving' = [serving EXCEPT ![w] = s]
  /\ T \subseteq todo[w]
  /\ p = "idle" => T = {}
  /\ p = "sending" <=> s # Idle
  /\ p = "sending" => s \in todo[w] \ T

LEMMA InitIInv == Init => IInv
  <1> SUFFICES ASSUME Init PROVE IInv  OBVIOUS
  <1> USE AttemptsAssumption, MailFaultsAssumption DEF Init
  <1>1. TypeOK             BY DEF TypeOK
  <1>2. WorkerPlaces       BY DEF WorkerPlaces
  <1>3. \A w \in Workers : Held(w) = {}
    BY DEF Held
  <1>4. LeasesAreNumbered /\ LeasesAreExclusive
    BY <1>3 DEF LeasesAreNumbered, LeasesAreExclusive
  <1>5. SendsAreNumbered   BY DEF SendsAreNumbered
  <1>6. UnsentLeases       BY DEF UnsentLeases
  <1>7. TokenRetention     BY DEF TokenRetention
  <1>8. QED BY <1>1, <1>2, <1>4, <1>5, <1>6, <1>7 DEF IInv

(* The steps of the clock and of the rest of the system touch no worker.     *)
LEMMA WorldIInv ==
  ASSUME IInv, NEW i \in Invitations,
         Lapse(i) \/ ComesDue(i) \/ Expire(i) \/ Consume(i) \/ Revoke(i)
  PROVE  IInv'
  <1>1. UNCHANGED <<worker, attempts, sends, mailed, sent, token, faults, defect>>
    BY DEF Lapse, ComesDue, Expire, Consume, Revoke, world, worker, row
  <1>2. TypeOK'
    BY <1>1 DEF IInv, TypeOK, Lapse, ComesDue, Expire, Consume, Revoke, world, worker, row
  <1>3. TokenRetention'
    <2>1. \A j \in Invitations : invitation[j] # "open" => invitation'[j] # "open"
      BY DEF IInv, TypeOK, Lapse, ComesDue, Expire, Consume, Revoke, world, row
    <2>2. QED BY <1>1, <2>1 DEF IInv, TokenRetention
  <1>4. QED
    BY <1>1, <1>2, <1>3
    DEF IInv, worker, WorkerPlaces, LeasesAreNumbered, LeasesAreExclusive,
        SendsAreNumbered, UnsentLeases, Held

LEMMA ClaimIInv ==
  ASSUME IInv, NEW w \in Workers, ClaimPending(w)
  PROVE  IInv'
  <1>1. PICK S \in SUBSET Claimable :
          /\ token'    = [i \in Invitations |-> token[i] /\ i \notin Dead]
          /\ attempts' = Numbered(S)
          /\ lease'    = [i \in Invitations |->
                           IF i \in S THEN "live"
                           ELSE IF i \in Dead THEN "none" ELSE lease[i]]
          /\ todo'     = [todo EXCEPT ![w] = {<<i, attempts'[i]>> : i \in S}]
          /\ pc'       = [pc EXCEPT ![w] = IF S = {} THEN "idle" ELSE "batch"]
    BY DEF ClaimPending
  <1>2. UNCHANGED <<defect, invitation, revoked, sent, due, mailed, sends, serving, faults>>
    BY DEF ClaimPending, world
  <1>3. /\ pc[w] = "idle" /\ serving[w] = Idle
        /\ \A v \in Workers : v # w => todo'[v] = todo[v] /\ pc'[v] = pc[v]
        /\ pc'[w] \in {"idle", "batch"}
    BY <1>1 DEF ClaimPending, IInv, TypeOK, WorkerPlaces
  <1>4. \A i \in S : i \in Invitations /\ attempts[i] < MaxAttempts
    BY DEF Claimable
  <1>5. /\ attempts' \in [Invitations -> 0..MaxAttempts]
        /\ \A i \in Invitations : attempts[i] <= attempts'[i]
        /\ \A i \in S : attempts'[i] = attempts[i] + 1
    BY <1>1, <1>4, AttemptsAssumption DEF Numbered, IInv, TypeOK
  <1>6. todo'[w] = {<<i, attempts[i] + 1>> : i \in S}
    BY <1>1, <1>5 DEF IInv, TypeOK
  <1>7. todo'[w] \in SUBSET Leases
    BY <1>4, <1>6 DEF Leases, IInv, TypeOK
  <1>8. TypeOK'
    BY <1>1, <1>2, <1>3, <1>5, <1>7 DEF IInv, TypeOK
  <1>9. WorkerPlaces'
    <2>1. S = {} => todo'[w] = {}
      BY <1>6
    <2>2. pc'[w] = "idle" => S = {}
      BY <1>1 DEF IInv, TypeOK
    <2>3. Idle \notin todo'[w]
      BY <1>7, IdleAssumption DEF Leases
    <2>4. QED BY <1>2, <1>3, <2>1, <2>2, <2>3 DEF IInv, TypeOK, WorkerPlaces
  <1>10. Held(w)' = todo'[w]
    BY <1>2, <1>3 DEF Held
  <1>11. \A v \in Workers : v # w => Held(v)' = Held(v)
    BY <1>2, <1>3 DEF Held
  <1>12. \A v \in Workers : Held(v) \subseteq Leases
    BY DEF Held, IInv, TypeOK, WorkerPlaces
  <1>13. \A l \in todo'[w] : /\ l[1] \in S /\ l[1] \in Invitations
                             /\ l[2] = attempts[l[1]] + 1
                             /\ l[2] = attempts'[l[1]]
    BY <1>4, <1>5, <1>6
  <1>14. LeasesAreNumbered'
    <2> SUFFICES ASSUME NEW v \in Workers, NEW l \in Held(v)'
                 PROVE  l[2] \in 1..attempts'[l[1]]
      BY DEF LeasesAreNumbered
    <2>1. CASE v = w
      BY <2>1, <1>10, <1>13, <1>5 DEF IInv, TypeOK
    <2>2. CASE v # w
      <3>1. l \in Held(v) /\ l \in Leases
        BY <2>2, <1>11, <1>12
      <3>2. l[1] \in Invitations /\ l[2] \in 1..attempts[l[1]]
        BY <3>1 DEF Leases, IInv, LeasesAreNumbered
      <3>3. attempts[l[1]] \in Nat /\ attempts'[l[1]] \in Nat /\ attempts[l[1]] <= attempts'[l[1]]
        BY <3>2, <1>5 DEF IInv, TypeOK
      <3>4. QED BY <3>2, <3>3
    <2>3. QED BY <2>1, <2>2
  <1>15. \A v \in Workers : v # w => todo'[w] \cap Held(v) = {}
    <2> SUFFICES ASSUME NEW v \in Workers, NEW l \in todo'[w], l \in Held(v)
                 PROVE  FALSE
      OBVIOUS
    <2>1. l[2] \in 1..attempts[l[1]]
      BY DEF IInv, LeasesAreNumbered
    <2>2. l[2] = attempts[l[1]] + 1 /\ attempts[l[1]] \in Nat
      BY <1>13 DEF IInv, TypeOK
    <2>3. QED BY <2>1, <2>2
  <1>16. LeasesAreExclusive'
    BY <1>10, <1>11, <1>15 DEF IInv, LeasesAreExclusive
  <1>17. SendsAreNumbered'
    <2> SUFFICES ASSUME NEW i \in Invitations
                 PROVE  sends[i] \subseteq 1..attempts'[i]
      BY <1>2 DEF SendsAreNumbered
    <2>1. attempts[i] \in Nat /\ attempts'[i] \in Nat /\ attempts[i] <= attempts'[i]
      BY <1>5 DEF IInv, TypeOK
    <2>2. QED BY <2>1 DEF IInv, SendsAreNumbered
  <1>18. UnsentLeases'
    <2>1. \A l \in todo'[w] : l[2] \notin sends[l[1]]
      <3> SUFFICES ASSUME NEW l \in todo'[w], l[2] \in sends[l[1]] PROVE FALSE
        OBVIOUS
      <3>1. l[2] = attempts[l[1]] + 1 /\ attempts[l[1]] \in Nat
        BY <1>13 DEF IInv, TypeOK
      <3>2. l[2] \in 1..attempts[l[1]]
        BY <1>13 DEF IInv, SendsAreNumbered
      <3>3. QED BY <3>1, <3>2
    <2>2. QED BY <2>1, <1>2, <1>3 DEF IInv, UnsentLeases
  <1>19. TokenRetention'
    <2>1. \A i \in Dead : i \in Invitations /\ invitation[i] # "open"
      BY DEF Dead
    <2>2. QED BY <1>1, <1>2, <2>1 DEF IInv, TypeOK, TokenRetention
  <1>20. QED BY <1>8, <1>9, <1>14, <1>16, <1>17, <1>18, <1>19 DEF IInv

(* What any of the fenced statements may do to the rows.                     *)
LEMMA FencedRows ==
  ASSUME IInv, NEW l \in Leases, UNCHANGED <<world, mailed>>,
         \/ MarkSent(l) /\ mailed[l[1]]
         \/ ScheduleRetry(l)
         \/ ClearExpired(l) /\ invitation[l[1]] # "open"
         \/ PauseForRepair(l)
  PROVE  RowsStep
  <1> USE DEF RowsStep
  <1>1. l[1] \in Invitations
    BY DEF Leases
  <1>2. RowTypeOK /\ TokenRetention /\ UNCHANGED <<invitation, mailed>>
    BY DEF IInv, TypeOK, RowTypeOK, world
  <1>3. CASE UNCHANGED row
    BY <1>2, <1>3 DEF RowTypeOK, AttemptsGrow, TokenRetention, row
  <1>4. CASE MarkSent(l) /\ mailed[l[1]] /\ Holds(l)
    <2>1. RowTypeOK' /\ AttemptsGrow
      <3>1. /\ sent'  = [sent  EXCEPT ![l[1]] = TRUE]
            /\ token' = [token EXCEPT ![l[1]] = FALSE]
            /\ lease' = [lease EXCEPT ![l[1]] = "none"]
            /\ attempts' = attempts /\ due' = due
        BY <1>4 DEF MarkSent
      <3>2. sent' \in [Invitations -> BOOLEAN] /\ token' \in [Invitations -> BOOLEAN]
        BY <1>2, <3>1 DEF RowTypeOK
      <3>3. lease' \in [Invitations -> {"none", "live", "lapsed"}]
        BY <1>2, <3>1 DEF RowTypeOK
      <3>4. QED BY <1>2, <3>1, <3>2, <3>3 DEF RowTypeOK, AttemptsGrow
    <2>2. ASSUME NEW i \in Invitations
          PROVE  /\ sent'[i] => ~token'[i] /\ mailed'[i]
                 /\ ~sent'[i] /\ ~token'[i] => invitation'[i] # "open"
      <3>1. CASE i = l[1]
        BY <1>1, <1>2, <1>4, <3>1 DEF MarkSent, RowTypeOK
      <3>2. CASE i # l[1]
        <4>1. sent'[i] = sent[i] /\ token'[i] = token[i]
          BY <1>1, <1>2, <1>4, <3>2 DEF MarkSent, RowTypeOK
        <4>2. QED BY <1>2, <4>1 DEF TokenRetention
      <3>3. QED BY <3>1, <3>2
    <2>3. QED BY <2>1, <2>2 DEF TokenRetention
  <1>5. CASE ScheduleRetry(l) /\ Holds(l)
    BY <1>1, <1>2, <1>5 DEF ScheduleRetry, RowTypeOK, AttemptsGrow, TokenRetention
  <1>6. CASE ClearExpired(l) /\ invitation[l[1]] # "open" /\ Holds(l)
    <2>1. RowTypeOK' /\ AttemptsGrow
      <3>1. /\ token' = [token EXCEPT ![l[1]] = FALSE]
            /\ lease' = [lease EXCEPT ![l[1]] = "none"]
            /\ sent' = sent /\ attempts' = attempts /\ due' = due
        BY <1>6 DEF ClearExpired
      <3>2. token' \in [Invitations -> BOOLEAN]
        BY <1>2, <3>1 DEF RowTypeOK
      <3>3. lease' \in [Invitations -> {"none", "live", "lapsed"}]
        BY <1>2, <3>1 DEF RowTypeOK
      <3>4. QED BY <1>2, <3>1, <3>2, <3>3 DEF RowTypeOK, AttemptsGrow
    <2>2. ASSUME NEW i \in Invitations
          PROVE  /\ sent'[i] => ~token'[i] /\ mailed'[i]
                 /\ ~sent'[i] /\ ~token'[i] => invitation'[i] # "open"
      <3>1. CASE i = l[1]
        <4>1. ~sent'[i] /\ invitation'[i] # "open"
          BY <1>1, <1>2, <1>6, <3>1 DEF ClearExpired, Holds, RowTypeOK
        <4>2. QED BY <4>1
      <3>2. CASE i # l[1]
        <4>1. sent'[i] = sent[i] /\ token'[i] = token[i]
          BY <1>1, <1>2, <1>6, <3>2 DEF ClearExpired, RowTypeOK
        <4>2. QED BY <1>2, <4>1 DEF TokenRetention
      <3>3. QED BY <3>1, <3>2
    <2>3. QED BY <2>1, <2>2 DEF TokenRetention
  <1>7. CASE PauseForRepair(l) /\ Holds(l)
    BY <1>1, <1>2, <1>7, AttemptsAssumption
    DEF PauseForRepair, RowTypeOK, AttemptsGrow, TokenRetention
  <1>8. QED
    BY <1>3, <1>4, <1>5, <1>6, <1>7 DEF MarkSent, ScheduleRetry, ClearExpired, PauseForRepair

LEMMA LetGoIInv ==
  ASSUME IInv, NEW w \in Workers, NEW p, NEW T, NEW s, LetGo(w, p, T, s),
         UNCHANGED <<world, mailed, sends>>, faults' \in 0..MaxFaults, RowsStep
  PROVE  IInv'
  <1> USE DEF LetGo, RowsStep
  <1>1. /\ pc'[w] = p /\ todo'[w] = T /\ serving'[w] = s
        /\ \A v \in Workers : v # w =>
             pc'[v] = pc[v] /\ todo'[v] = todo[v] /\ serving'[v] = serving[v]
        /\ T \in SUBSET Leases
    BY DEF IInv, TypeOK
  <1>2. UNCHANGED <<defect, invitation, revoked, mailed, sends>>
    BY DEF world
  <1>3. TypeOK'
    BY <1>1, <1>2 DEF IInv, TypeOK, RowTypeOK
  <1>4. WorkerPlaces'
    <2>1. s \notin T
      BY <1>1, IdleAssumption DEF Leases
    <2>2. QED BY <1>1, <1>2, <2>1 DEF IInv, WorkerPlaces
  <1>5. \A v \in Workers : Held(v)' \subseteq Held(v)
    BY <1>1 DEF Held
  <1>6. \A v \in Workers : Held(v) \subseteq Leases
    BY DEF Held, IInv, TypeOK, WorkerPlaces
  <1>7. LeasesAreNumbered'
    <2> SUFFICES ASSUME NEW v \in Workers, NEW l \in Held(v)'
                 PROVE  l[2] \in 1..attempts'[l[1]]
      BY DEF LeasesAreNumbered
    <2>1. l \in Held(v) /\ l \in Leases
      BY <1>5, <1>6
    <2>2. l[1] \in Invitations /\ l[2] \in 1..attempts[l[1]]
      BY <2>1 DEF Leases, IInv, LeasesAreNumbered
    <2>3. attempts[l[1]] \in Nat /\ attempts'[l[1]] \in Nat /\ attempts[l[1]] <= attempts'[l[1]]
      BY <2>2 DEF IInv, TypeOK, RowTypeOK, AttemptsGrow
    <2>4. QED BY <2>2, <2>3
  <1>8. LeasesAreExclusive'
    BY <1>5 DEF IInv, LeasesAreExclusive
  <1>9. SendsAreNumbered'
    <2> SUFFICES ASSUME NEW i \in Invitations
                 PROVE  sends[i] \subseteq 1..attempts'[i]
      BY <1>2 DEF SendsAreNumbered
    <2>1. attempts[i] \in Nat /\ attempts'[i] \in Nat /\ attempts[i] <= attempts'[i]
      BY DEF IInv, TypeOK, RowTypeOK, AttemptsGrow
    <2>2. QED BY <2>1 DEF IInv, SendsAreNumbered
  <1>10. UnsentLeases'
    BY <1>1, <1>2 DEF IInv, UnsentLeases
  <1>11. QED BY <1>3, <1>4, <1>7, <1>8, <1>9, <1>10 DEF IInv

LEMMA UnchangedRows ==
  ASSUME IInv, UNCHANGED <<world, row, mailed>>
  PROVE  RowsStep
  BY DEF RowsStep, IInv, TypeOK, RowTypeOK, AttemptsGrow, TokenRetention, row, world

LEMMA ServeIInv ==
  ASSUME IInv, NEW w \in Workers,
         FinishBatch(w) \/ TakeExpired(w) \/ TakeRefused(w) \/ Take(w)
  PROVE  IInv'
  <1>1. /\ pc[w] = "batch" /\ serving[w] = Idle
        /\ UNCHANGED <<world, mailed, sends, faults>>
        /\ faults' \in 0..MaxFaults
        /\ todo[w] \subseteq Leases
        /\ pc = [pc EXCEPT ![w] = "batch"]
        /\ todo = [todo EXCEPT ![w] = todo[w]]
        /\ serving = [serving EXCEPT ![w] = Idle]
    BY DEF FinishBatch, TakeExpired, TakeRefused, Take, IInv, TypeOK, WorkerPlaces
  <1>2. CASE FinishBatch(w)
    <2>1. RowsStep
      BY <1>2, UnchangedRows DEF FinishBatch
    <2>2. todo[w] = {}
      BY <1>2 DEF FinishBatch
    <2>3. LetGo(w, "idle", {}, Idle)
      BY <1>1, <1>2, <2>2 DEF FinishBatch, LetGo
    <2>4. QED BY <1>1, <2>1, <2>3, LetGoIInv
  <1>3. CASE TakeExpired(w)
    <2>1. PICK l \in todo[w] : /\ invitation[l[1]] # "open" /\ ClearExpired(l)
                               /\ todo' = [todo EXCEPT ![w] = @ \ {l}]
      BY <1>3 DEF TakeExpired
    <2>2. RowsStep
      BY <1>1, <2>1, FencedRows
    <2>3. LetGo(w, "batch", todo[w] \ {l}, Idle)
      BY <1>1, <1>3, <2>1 DEF TakeExpired, LetGo
    <2>4. QED BY <1>1, <2>2, <2>3, LetGoIInv
  <1>4. CASE TakeRefused(w)
    <2>1. PICK l \in todo[w] : /\ PauseForRepair(l)
                               /\ todo' = [todo EXCEPT ![w] = @ \ {l}]
      BY <1>4 DEF TakeRefused
    <2>2. RowsStep
      BY <1>1, <2>1, FencedRows
    <2>3. LetGo(w, "batch", todo[w] \ {l}, Idle)
      BY <1>1, <1>4, <2>1 DEF TakeRefused, LetGo
    <2>4. QED BY <1>1, <2>2, <2>3, LetGoIInv
  <1>5. CASE Take(w)
    <2>1. PICK l \in todo[w] :
            /\ todo' = [todo EXCEPT ![w] = @ \ {l}]
            /\ \/ pc' = [pc EXCEPT ![w] = "sending"] /\ serving' = [serving EXCEPT ![w] = l]
               \/ UNCHANGED <<pc, serving>>
      BY <1>5 DEF Take
    <2>2. RowsStep
      BY <1>5, UnchangedRows DEF Take
    <2>3. l \in Leases /\ l # Idle
      BY <1>1, IdleAssumption DEF Leases
    <2>4. CASE UNCHANGED <<pc, serving>>
      <3>1. LetGo(w, "batch", todo[w] \ {l}, Idle)
        BY <1>1, <2>1, <2>4 DEF LetGo
      <3>2. QED BY <1>1, <2>2, <3>1, LetGoIInv
    <2>5. CASE pc' = [pc EXCEPT ![w] = "sending"] /\ serving' = [serving EXCEPT ![w] = l]
      <3>1. LetGo(w, "sending", todo[w] \ {l}, l)
        BY <1>1, <2>1, <2>3, <2>5 DEF LetGo
      <3>2. QED BY <1>1, <2>2, <3>1, LetGoIInv
    <2>6. QED BY <2>1, <2>4, <2>5
  <1>6. QED BY <1>2, <1>3, <1>4, <1>5

LEMMA AnswerIInv ==
  ASSUME IInv, NEW w \in Workers,
         GiveUpDecrypting(w) \/ Acknowledge(w) \/ Abandon(w)
  PROVE  IInv'
  <1>1. todo = [todo EXCEPT ![w] = todo[w]]
    BY DEF IInv, TypeOK
  <1>2. CASE Abandon(w)
    <2>1. RowsStep
      BY <1>2, UnchangedRows DEF Abandon
    <2>2. faults' \in 0..MaxFaults
      BY <1>2, MailFaultsAssumption DEF Abandon, IInv, TypeOK
    <2>3. LetGo(w, "idle", {}, Idle) /\ UNCHANGED <<world, mailed, sends>>
      BY <1>2 DEF Abandon, LetGo
    <2>4. QED BY <2>1, <2>2, <2>3, LetGoIInv
  <1>3. CASE GiveUpDecrypting(w) \/ Acknowledge(w)
    <2>1. serving[w] \in Leases /\ faults' \in 0..MaxFaults
      BY <1>3 DEF GiveUpDecrypting, Acknowledge, IInv, TypeOK, WorkerPlaces
    <2>2. pc[w] = "accepted" => mailed[serving[w][1]]
      BY DEF IInv, WorkerPlaces
    <2>3. RowsStep
      BY <1>3, <2>1, <2>2, FencedRows DEF GiveUpDecrypting, Acknowledge
    <2>4. LetGo(w, "batch", todo[w], Idle) /\ UNCHANGED <<world, mailed, sends>>
      BY <1>1, <1>3 DEF GiveUpDecrypting, Acknowledge, LetGo
    <2>5. QED BY <2>1, <2>3, <2>4, LetGoIInv
  <1>4. QED BY <1>2, <1>3

LEMMA SendMailIInv ==
  ASSUME IInv, NEW w \in Workers, SendMail(w)
  PROVE  IInv'
  <1> DEFINE l == serving[w]
  <1>1. /\ l \in Leases /\ l[1] \in Invitations /\ l \in Held(w)
        /\ l \notin todo[w]
        /\ l[2] \in 1..attempts[l[1]]
    BY DEF SendMail, IInv, TypeOK, WorkerPlaces, LeasesAreNumbered, Held, Leases
  <1>2. /\ sends' = [sends EXCEPT ![l[1]] = @ \cup {l[2]}]
        /\ UNCHANGED <<defect, invitation, revoked, sent, token, attempts, lease, due,
                       todo, serving, faults>>
        /\ \A v \in Workers : v # w => pc'[v] = pc[v]
        /\ pc'[w] \in {"accepted", "failed"} /\ pc[w] = "sending"
        /\ pc' \in [Workers -> {"idle", "batch", "sending", "accepted", "failed"}]
    BY <1>1 DEF SendMail, IInv, TypeOK, world, row
  <1>3. PICK b \in BOOLEAN : /\ mailed' = [mailed EXCEPT ![l[1]] = @ \/ b]
                             /\ pc'[w] = "accepted" => b = TRUE
    <2>1. CASE pc' = [pc EXCEPT ![w] = "accepted"] /\ mailed' = [mailed EXCEPT ![l[1]] = TRUE]
      <3>1. mailed' = [mailed EXCEPT ![l[1]] = @ \/ TRUE]
        BY <2>1
      <3>2. QED BY <3>1
    <2>2. CASE /\ pc' = [pc EXCEPT ![w] = "failed"]
               /\ \E taken \in BOOLEAN : mailed' = [mailed EXCEPT ![l[1]] = @ \/ taken]
      <3>1. pc'[w] # "accepted"
        BY <2>2 DEF IInv, TypeOK
      <3>2. QED BY <2>2, <3>1
    <2>3. QED BY <2>1, <2>2 DEF SendMail
  <1>4. /\ mailed' \in [Invitations -> BOOLEAN]
        /\ \A i \in Invitations : mailed[i] => mailed'[i]
        /\ pc'[w] = "accepted" => mailed'[l[1]]
    <2>1. mailed \in [Invitations -> BOOLEAN]
      BY DEF IInv, TypeOK
    <2>2. mailed' \in [Invitations -> BOOLEAN]
      BY <1>3, <2>1
    <2>3. ASSUME NEW i \in Invitations, mailed[i] PROVE mailed'[i]
      BY <1>3, <2>1, <2>3
    <2>4. pc'[w] = "accepted" => mailed'[l[1]]
      BY <1>1, <1>3, <2>1
    <2>5. QED BY <2>2, <2>3, <2>4
  <1> HIDE DEF l
  <1>5. TypeOK'
    BY <1>1, <1>2, <1>4 DEF IInv, TypeOK, Leases
  <1>6. WorkerPlaces'
    <2> SUFFICES ASSUME NEW v \in Workers
                 PROVE  /\ pc'[v] = "idle" => todo'[v] = {}
                        /\ pc'[v] \in {"idle", "batch"} <=> serving'[v] = Idle
                        /\ serving'[v] \notin todo'[v]
                        /\ pc'[v] = "accepted" => mailed'[serving'[v][1]]
      BY DEF WorkerPlaces
    <2>1. CASE v = w
      BY <1>1, <1>2, <1>4, <2>1 DEF IInv, WorkerPlaces, l
    <2>2. CASE v # w
      <3>1. pc[v] = "accepted" => serving[v][1] \in Invitations
        BY DEF IInv, TypeOK, WorkerPlaces, Leases
      <3>2. QED BY <1>2, <1>4, <2>2, <3>1 DEF IInv, WorkerPlaces
    <2>3. QED BY <2>1, <2>2
  <1>7. \A v \in Workers : Held(v)' = Held(v)
    BY <1>2 DEF Held
  <1>8. LeasesAreNumbered' /\ LeasesAreExclusive'
    BY <1>2, <1>7 DEF IInv, LeasesAreNumbered, LeasesAreExclusive
  <1>9. SendsAreNumbered'
    BY <1>1, <1>2 DEF IInv, TypeOK, SendsAreNumbered
  <1>10. UnsentLeases'
    <2>1. \A k \in Leases : k # l /\ k[2] \notin sends[k[1]] => k[2] \notin sends'[k[1]]
      BY <1>1, <1>2 DEF IInv, TypeOK, Leases
    <2>2. \A v \in Workers : \A k \in todo[v] : k # l /\ k \in Leases
      BY <1>1 DEF IInv, TypeOK, LeasesAreExclusive, Held
    <2>3. \A v \in Workers : pc'[v] = "sending" => pc[v] = "sending" /\ serving[v] # l /\ serving[v] \in Leases
      <3> SUFFICES ASSUME NEW v \in Workers, pc'[v] = "sending"
                   PROVE  pc[v] = "sending" /\ serving[v] # l /\ serving[v] \in Leases
        OBVIOUS
      <3>1. v # w /\ pc[v] = "sending"
        BY <1>2
      <3>2. serving[v] \in Held(v)
        BY <3>1 DEF Held
      <3>3. QED BY <1>1, <3>1, <3>2 DEF IInv, TypeOK, WorkerPlaces, LeasesAreExclusive
    <2>4. QED BY <1>2, <2>1, <2>2, <2>3 DEF IInv, UnsentLeases
  <1>11. TokenRetention'
    BY <1>2, <1>4 DEF IInv, TokenRetention
  <1>12. QED BY <1>5, <1>6, <1>8, <1>9, <1>10, <1>11 DEF IInv

LEMMA NextIInv == IInv /\ [Next]_vars => IInv'
  <1> SUFFICES ASSUME IInv, [Next]_vars PROVE IInv'  OBVIOUS
  <1>1. ASSUME NEW i \in Invitations,
               Lapse(i) \/ ComesDue(i) \/ Expire(i) \/ Consume(i) \/ Revoke(i)
        PROVE  IInv'
    BY <1>1, WorldIInv
  <1>2. ASSUME NEW w \in Workers, Dispatch(w) \/ Abandon(w)
        PROVE  IInv'
    BY <1>2, ClaimIInv, ServeIInv, AnswerIInv, SendMailIInv DEF Dispatch
  <1>3. CASE UNCHANGED vars
    BY <1>3 DEF vars, row, world, worker, IInv, TypeOK, WorkerPlaces, LeasesAreNumbered,
                LeasesAreExclusive, SendsAreNumbered, UnsentLeases, TokenRetention, Held
  <1>4. QED BY <1>1, <1>2, <1>3 DEF Next

-----------------------------------------------------------------------------

(* The inductive invariant holds of every behaviour.                         *)
THEOREM Invariance == Spec => []IInv
  BY InitIInv, NextIInv, PTL DEF Spec

(* The variables keep their types: the attempts of a row stay within the     *)
(* limit, whatever lapses, crashes and repairs claimPending meets.           *)
THEOREM TypeCorrect == Spec => []TypeOK
  BY Invariance, PTL DEF IInv

(* No two replicas can pass the fence of the same lease.                     *)
THEOREM ExclusiveLeases == Spec => []LeasesAreExclusive
  BY Invariance, PTL DEF IInv

(* The mail of a row goes to the transport once under each claim, and at     *)
(* most MaxAttempts times.                                                   *)
THEOREM BoundedSends == Spec => []SendsAreBounded
  <1>1. IInv => SendsAreBounded
    <2> SUFFICES ASSUME IInv PROVE SendsAreBounded  OBVIOUS
    <2>1. ASSUME NEW i \in Invitations PROVE sends[i] \subseteq 1..MaxAttempts
      <3>1. sends[i] \subseteq 1..attempts[i] /\ attempts[i] \in 0..MaxAttempts
        BY DEF IInv, TypeOK, SendsAreNumbered
      <3>2. QED BY <3>1, AttemptsAssumption
    <2>2. QED BY <2>1 DEF IInv, UnsentLeases, SendsAreBounded
  <1>2. QED BY <1>1, Invariance, PTL

(* A token is erased with the success of its mail, or after its invitation   *)
(* has died.                                                                 *)
THEOREM TokensRetained == Spec => []TokenRetention
  BY Invariance, PTL DEF IInv

-----------------------------------------------------------------------------
(* The outbox implements MailPromise.                                        *)

LEMMA InitPromise == Init => PromiseInv /\ Promise!MInit
  <1> SUFFICES ASSUME Init PROVE PromiseInv /\ Promise!MInit  OBVIOUS
  <1> USE DEF Init
  <1>1. ServedLeases /\ DefectsStand
    BY DEF ServedLeases, DefectsStand
  <1>2. standing = [i \in Invitations |-> "waiting"]
    BY DEF standing
  <1>3. QED BY <1>1, <1>2 DEF PromiseInv, Promise!MInit

(* A fenced statement pauses a row and frees its lease in one.               *)
LEMMA FencedDefects ==
  ASSUME IInv, DefectsStand, NEW l \in Leases, UNCHANGED world,
         MarkSent(l) \/ ScheduleRetry(l) \/ ClearExpired(l) \/ PauseForRepair(l)
  PROVE  DefectsStand'
  <1>1. l[1] \in Invitations
    BY DEF Leases
  <1>2. defect' = defect
    BY DEF world
  <1>3. ASSUME NEW i \in Invitations PROVE due'[i] = "never" => lease'[i] = "none"
    <2>1. due[i] = "never" => lease[i] = "none"
      BY DEF DefectsStand
    <2>2. QED
      BY <1>1, <2>1 DEF MarkSent, ScheduleRetry, ClearExpired, PauseForRepair, row, IInv, TypeOK
  <1>4. QED BY <1>2, <1>3 DEF DefectsStand, Defects

(* Worker w keeps what was said of it if it serves nothing; the others keep  *)
(* it since a number sent stays sent.                                        *)
LEMMA OthersServe ==
  ASSUME ServedLeases, NEW w \in Workers, defect' = defect,
         \A v \in Workers : v # w =>
           /\ pc'[v] = pc[v] /\ serving'[v] = serving[v]
           /\ pc[v] \in {"accepted", "failed"} => sends[serving[v][1]] \subseteq sends'[serving[v][1]],
         pc'[w] = "sending" => defect[serving'[w][1]] # "refused",
         pc'[w] \in {"accepted", "failed"} => serving'[w][2] \in sends'[serving'[w][1]]
  PROVE  ServedLeases'
  BY DEF ServedLeases

LEMMA NextPromiseInv ==
  ASSUME IInv, PromiseInv, [Next]_vars
  PROVE  PromiseInv'
  <1> USE DEF PromiseInv
  <1>1. CASE UNCHANGED vars
    BY <1>1 DEF vars, row, world, worker, ServedLeases, DefectsStand, Defects
  <1>2. ASSUME NEW i \in Invitations,
               Lapse(i) \/ ComesDue(i) \/ Expire(i) \/ Consume(i) \/ Revoke(i)
        PROVE  PromiseInv'
    <2>1. UNCHANGED <<worker, sends, defect>>
      BY <1>2 DEF Lapse, ComesDue, Expire, Consume, Revoke, world, worker, row
    <2>2. ASSUME NEW j \in Invitations PROVE due'[j] = "never" => lease'[j] = "none"
      <3>1. due[j] = "never" => lease[j] = "none"
        BY DEF DefectsStand
      <3>2. QED BY <1>2, <3>1 DEF Lapse, ComesDue, Expire, Consume, Revoke, row, IInv, TypeOK
    <2>3. QED BY <2>1, <2>2 DEF worker, ServedLeases, DefectsStand, Defects
  <1>3. ASSUME NEW w \in Workers, ClaimPending(w)
        PROVE  PromiseInv'
    <2>1. UNCHANGED <<defect, due, sends, serving>>
      BY <1>3 DEF ClaimPending, world
    <2>2. pc'[w] \in {"idle", "batch"} /\ \A v \in Workers : v # w => pc'[v] = pc[v]
      BY <1>3 DEF ClaimPending, IInv, TypeOK
    <2>3. ServedLeases'
      BY <2>1, <2>2, OthersServe
    <2>4. ASSUME NEW j \in Invitations, due[j] = "never" PROVE lease'[j] = "none"
      BY <1>3, <2>4 DEF ClaimPending, Claimable, DefectsStand
    <2>5. QED BY <2>1, <2>3, <2>4 DEF DefectsStand, Defects
  <1>4. ASSUME NEW w \in Workers,
               \/ FinishBatch(w) \/ TakeExpired(w) \/ TakeRefused(w)
               \/ GiveUpDecrypting(w) \/ Acknowledge(w) \/ Abandon(w)
        PROVE  PromiseInv'
    <2>1. /\ UNCHANGED <<sends, defect, world>>
          /\ pc'[w] \in {"idle", "batch"}
          /\ \A v \in Workers : v # w => pc'[v] = pc[v] /\ serving'[v] = serving[v]
      BY <1>4 DEF FinishBatch, TakeExpired, TakeRefused, GiveUpDecrypting, Acknowledge, Abandon,
                  world, IInv, TypeOK
    <2>2. ServedLeases'
      BY <2>1, OthersServe
    <2>3. UNCHANGED row => DefectsStand'
      BY <2>1 DEF row, DefectsStand, Defects
    <2>4. ASSUME NEW l \in Leases,
                 MarkSent(l) \/ ScheduleRetry(l) \/ ClearExpired(l) \/ PauseForRepair(l)
          PROVE  DefectsStand'
      BY <2>1, <2>4, FencedDefects
    <2>5. todo[w] \subseteq Leases /\ (pc[w] \in {"sending", "accepted", "failed"} => serving[w] \in Leases)
      BY DEF IInv, TypeOK, WorkerPlaces
    <2>6. UNCHANGED row \/ \E l \in Leases : MarkSent(l) \/ ScheduleRetry(l) \/ ClearExpired(l) \/ PauseForRepair(l)
      BY <1>4, <2>5 DEF FinishBatch, TakeExpired, TakeRefused, GiveUpDecrypting, Acknowledge, Abandon
    <2>7. DefectsStand'
      BY <2>3, <2>4, <2>6
    <2>8. QED BY <2>2, <2>7
  <1>5. ASSUME NEW w \in Workers, Take(w)
        PROVE  PromiseInv'
    <2>1. PICK l \in todo[w] :
            /\ defect[l[1]] # "refused"
            /\ \/ pc' = [pc EXCEPT ![w] = "sending"] /\ serving' = [serving EXCEPT ![w] = l]
               \/ UNCHANGED <<pc, serving>>
      BY <1>5 DEF Take
    <2>2. UNCHANGED <<sends, defect, row>> /\ pc[w] = "batch"
      BY <1>5 DEF Take, world
    <2>3. /\ pc'[w] \in {"sending", "batch"}
          /\ pc'[w] = "sending" => serving'[w] = l
          /\ \A v \in Workers : v # w => pc'[v] = pc[v] /\ serving'[v] = serving[v]
      BY <2>1, <2>2 DEF IInv, TypeOK
    <2>4. ServedLeases'
      BY <2>1, <2>2, <2>3, OthersServe
    <2>5. QED BY <2>2, <2>4 DEF DefectsStand, Defects, row
  <1>6. ASSUME NEW w \in Workers, SendMail(w)
        PROVE  PromiseInv'
    <2>1. serving[w] \in Leases /\ serving[w][1] \in Invitations
      BY <1>6 DEF SendMail, IInv, TypeOK, WorkerPlaces, Leases
    <2>2. /\ UNCHANGED <<defect, row, serving>>
          /\ sends' = [sends EXCEPT ![serving[w][1]] = @ \cup {serving[w][2]}]
          /\ pc'[w] \in {"accepted", "failed"}
          /\ \A v \in Workers : v # w => pc'[v] = pc[v]
      BY <1>6 DEF SendMail, world, IInv, TypeOK
    <2>3. \A i \in Invitations : sends[i] \subseteq sends'[i]
      BY <2>2 DEF IInv, TypeOK
    <2>4. \A v \in Workers : pc[v] \in {"accepted", "failed"} => serving[v][1] \in Invitations
      BY DEF IInv, TypeOK, WorkerPlaces, Leases
    <2>5. serving'[w][2] \in sends'[serving'[w][1]]
      BY <2>1, <2>2 DEF IInv, TypeOK
    <2>6. ServedLeases'
      BY <2>2, <2>3, <2>4, <2>5, OthersServe
    <2>7. QED BY <2>2, <2>6 DEF DefectsStand, Defects, row
  <1>7. QED BY <1>1, <1>2, <1>3, <1>4, <1>5, <1>6 DEF Next, Dispatch

(* A fenced statement confirms, erases or pauses the mail it holds, or does  *)
(* nothing that the promise knows of.                                        *)
LEMMA FencedKeepsPromise ==
  ASSUME IInv, DefectsStand, NEW l \in Leases, UNCHANGED <<world, mailed, sends>>,
         \/ MarkSent(l) /\ mailed[l[1]] /\ l[2] \in sends[l[1]]
         \/ ScheduleRetry(l)
         \/ ClearExpired(l) /\ invitation[l[1]] # "open"
         \/ PauseForRepair(l) /\ l[1] \in Defective
  PROVE  [Promise!MNext]_Promise!mvars
  <1> DEFINE i == l[1]
  <1>1. /\ i \in Invitations
        /\ UNCHANGED <<defect, invitation, revoked, mailed, sends>>
        /\ sent \in [Invitations -> BOOLEAN] /\ token \in [Invitations -> BOOLEAN]
        /\ due \in [Invitations -> {"now", "later", "never"}]
        /\ attempts \in [Invitations -> 0..MaxAttempts]
    BY DEF Leases, world, IInv, TypeOK
  <1> HIDE DEF i
  <1>2. CASE ~Holds(l)
    <2>1. UNCHANGED row
      BY <1>2 DEF MarkSent, ScheduleRetry, ClearExpired, PauseForRepair
    <2>2. QED BY <1>1, <2>1 DEF row, standing, Promise!mvars
  <1>3. CASE Holds(l)
    <2>1. standing[i] = "waiting" /\ attempts[i] = l[2]
      BY <1>1, <1>3 DEF Holds, DefectsStand, standing, i
    <2>2. standing = [j \in Invitations |-> standing[j]] /\ standing' = [j \in Invitations |-> standing'[j]]
      BY DEF standing
    <2>3. CASE MarkSent(l) /\ mailed[i] /\ l[2] \in sends[i]
      <3>1. sent' = [sent EXCEPT ![i] = TRUE] /\ token' = [token EXCEPT ![i] = FALSE] /\ UNCHANGED <<attempts, due>>
        BY <1>3, <2>3 DEF MarkSent, i
      <3>2. standing'[i] = "sent" /\ \A j \in Invitations : j # i => standing'[j] = standing[j]
        BY <1>1, <3>1 DEF standing
      <3>3. standing' = [standing EXCEPT ![i] = "sent"]
        BY <2>2, <3>2
      <3>4. QED BY <1>1, <2>1, <2>3, <3>1, <3>3 DEF Promise!Confirm, Promise!MNext
    <2>4. CASE ScheduleRetry(l)
      <3>1. due' = [due EXCEPT ![i] = "later"] /\ UNCHANGED <<sent, token, attempts>>
        BY <1>3, <2>4 DEF ScheduleRetry, i
      <3>2. \A j \in Invitations : due'[j] = "never" <=> due[j] = "never"
        BY <1>1, <2>1, <3>1 DEF standing
      <3>3. standing' = standing
        BY <3>1, <3>2 DEF standing
      <3>4. QED BY <1>1, <3>1, <3>3 DEF Promise!mvars
    <2>5. CASE ClearExpired(l) /\ invitation[i] # "open"
      <3>1. token' = [token EXCEPT ![i] = FALSE] /\ UNCHANGED <<sent, attempts, due>> /\ ~sent[i]
        BY <1>3, <2>5 DEF ClearExpired, Holds, i
      <3>2. standing' = [j \in Invitations |-> IF j \in {i} THEN "erased" ELSE standing[j]]
        BY <1>1, <3>1 DEF standing
      <3>3. Promise!Pass({}, {i})
        BY <1>1, <2>1, <2>5, <3>1, <3>2 DEF Promise!Pass
      <3>4. {} \in SUBSET Invitations /\ {i} \in SUBSET Invitations
        BY <1>1
      <3>5. QED BY <3>3, <3>4 DEF Promise!MNext
    <2>6. CASE PauseForRepair(l) /\ i \in Defective
      <3>1. /\ attempts' = [attempts EXCEPT ![i] = MaxAttempts]
            /\ due' = [due EXCEPT ![i] = "never"]
            /\ UNCHANGED <<sent, token>> /\ ~sent[i] /\ token[i]
        BY <1>3, <2>6 DEF PauseForRepair, Holds, i
      <3>2. standing'[i] = "paused" /\ \A j \in Invitations : j # i => standing'[j] = standing[j]
        BY <1>1, <3>1 DEF standing
      <3>3. standing' = [standing EXCEPT ![i] = "paused"]
        BY <2>2, <3>2
      <3>4. QED BY <1>1, <2>1, <2>6, <3>1, <3>3 DEF Promise!Pause, Promise!MNext
    <2>7. QED BY <2>3, <2>4, <2>5, <2>6 DEF i
  <1>4. QED BY <1>2, <1>3

(* Every step of the outbox is a step of the promise, or one it does not     *)
(* know of.                                                                  *)
THEOREM StepKeepsMailPromise ==
  ASSUME IInv, PromiseInv, [Next]_vars
  PROVE  [Promise!MNext]_Promise!mvars
  <1> USE DEF PromiseInv
  <1>1. ASSUME UNCHANGED <<row, world, mailed, sends>>
        PROVE  [Promise!MNext]_Promise!mvars
    BY <1>1 DEF row, world, standing, Promise!mvars
  <1>2. ASSUME NEW i \in Invitations,
               Lapse(i) \/ ComesDue(i) \/ Expire(i) \/ Consume(i) \/ Revoke(i)
        PROVE  [Promise!MNext]_Promise!mvars
    <2>1. UNCHANGED <<attempts, sends, mailed, sent, token>>
      BY <1>2 DEF Lapse, ComesDue, Expire, Consume, Revoke, world, row
    <2>2. \A j \in Invitations : due'[j] = "never" <=> due[j] = "never"
      BY <1>2 DEF Lapse, ComesDue, Expire, Consume, Revoke, row, IInv, TypeOK
    <2>3. standing' = standing
      BY <2>1, <2>2 DEF standing
    <2>4. CASE Lapse(i) \/ ComesDue(i)
      BY <2>1, <2>3, <2>4 DEF Lapse, ComesDue, world, Promise!mvars
    <2>5. CASE Expire(i) \/ Consume(i) \/ Revoke(i)
      <3>1. \/ /\ invitation[i] = "open" /\ revoked' = revoked
               /\ \/ invitation' = [invitation EXCEPT ![i] = "expired"]
                  \/ mailed[i] /\ invitation' = [invitation EXCEPT ![i] = "consumed"]
            \/ revoked' = [revoked EXCEPT ![i] = TRUE] /\ invitation' = invitation
        BY <2>5 DEF Expire, Consume, Revoke
      <3>2. Promise!Change(i)
        BY <2>1, <2>3, <3>1 DEF Promise!Change
      <3>3. QED BY <3>2 DEF Promise!MNext
    <2>6. QED BY <1>2, <2>4, <2>5
  <1>3. ASSUME NEW w \in Workers, ClaimPending(w)
        PROVE  [Promise!MNext]_Promise!mvars
    <2>1. PICK S \in SUBSET Claimable :
            /\ token'    = [i \in Invitations |-> token[i] /\ i \notin Dead]
            /\ attempts' = Numbered(S)
      BY <1>3 DEF ClaimPending
    <2>2. UNCHANGED <<invitation, revoked, sent, due, mailed, sends>>
      BY <1>3 DEF ClaimPending, world
    <2>3. /\ S \in SUBSET Invitations /\ Dead \in SUBSET Invitations
          /\ \A i \in S : /\ standing[i] = "waiting" /\ attempts[i] < MaxAttempts
                           /\ invitation[i] = "open" /\ ~revoked[i]
          /\ \A i \in Dead : /\ standing[i] \in {"waiting", "paused"}
                              /\ invitation[i] # "open" /\ ~sent[i]
      BY <2>1 DEF Claimable, Dead, Pending, Eligible, standing
    <2>4. standing' = [i \in Invitations |-> IF i \in Dead THEN "erased" ELSE standing[i]]
      <3>1. ASSUME NEW i \in Invitations
            PROVE  standing'[i] = IF i \in Dead THEN "erased" ELSE standing[i]
        <4>1. CASE i \in Dead
          BY <2>1, <2>2, <2>3, <4>1 DEF standing
        <4>2. CASE i \notin Dead
          <5>1. token'[i] = token[i]
            BY <2>1, <4>2 DEF IInv, TypeOK
          <5>2. QED BY <2>2, <4>2, <5>1 DEF standing
        <4>3. QED BY <4>1, <4>2
      <3>2. standing' = [i \in Invitations |-> standing'[i]]
        BY DEF standing
      <3>3. QED BY <3>1, <3>2
    <2>5. Promise!Pass(S, Dead)
      BY <2>1, <2>2, <2>3, <2>4 DEF Promise!Pass, Numbered
    <2>6. QED BY <2>3, <2>5 DEF Promise!MNext
  <1>4. ASSUME NEW w \in Workers,
               TakeExpired(w) \/ TakeRefused(w) \/ GiveUpDecrypting(w) \/ Acknowledge(w)
        PROVE  [Promise!MNext]_Promise!mvars
    <2>1. UNCHANGED <<world, mailed, sends>>
      BY <1>4 DEF TakeExpired, TakeRefused, GiveUpDecrypting, Acknowledge
    <2>2. \A i \in Invitations : defect[i] # "none" => i \in Defective
      BY DEF DefectsStand, Defects
    <2>3. CASE TakeExpired(w)
      <3>1. PICK l \in todo[w] : invitation[l[1]] # "open" /\ ClearExpired(l)
        BY <2>3 DEF TakeExpired
      <3>2. l \in Leases
        BY DEF IInv, TypeOK
      <3>3. QED BY <2>1, <3>1, <3>2, FencedKeepsPromise
    <2>4. CASE TakeRefused(w)
      <3>1. PICK l \in todo[w] : defect[l[1]] = "refused" /\ PauseForRepair(l)
        BY <2>4 DEF TakeRefused
      <3>2. l \in Leases /\ l[1] \in Invitations
        BY DEF IInv, TypeOK, Leases
      <3>3. l[1] \in Defective
        BY <2>2, <3>1, <3>2
      <3>4. QED BY <2>1, <3>1, <3>2, <3>3, FencedKeepsPromise
    <2>5. CASE GiveUpDecrypting(w) \/ Acknowledge(w)
      <3>1. serving[w] \in Leases /\ serving[w][1] \in Invitations
        BY <2>5 DEF GiveUpDecrypting, Acknowledge, IInv, TypeOK, WorkerPlaces, Leases
      <3>2. pc[w] = "accepted" => mailed[serving[w][1]] /\ serving[w][2] \in sends[serving[w][1]]
        BY DEF IInv, WorkerPlaces, ServedLeases
      <3>3. defect[serving[w][1]] = "undecryptable" => serving[w][1] \in Defective
        BY <2>2, <3>1
      <3>4. QED
        BY <2>1, <2>5, <3>1, <3>2, <3>3, FencedKeepsPromise DEF GiveUpDecrypting, Acknowledge
    <2>6. QED BY <1>4, <2>3, <2>4, <2>5
  <1>5. ASSUME NEW w \in Workers, SendMail(w)
        PROVE  [Promise!MNext]_Promise!mvars
    <2> DEFINE i == serving[w][1]
               n == serving[w][2]
    <2>1. /\ i \in Invitations /\ n \in 1..attempts[i] /\ n \notin sends[i]
          /\ defect[i] = "none" /\ serving[w] \in Held(w)
      BY <1>5 DEF SendMail, IInv, TypeOK, WorkerPlaces, LeasesAreNumbered, UnsentLeases, Held,
                  Leases, ServedLeases
    <2>2. i \notin Defective
      BY <2>1 DEF DefectsStand, Defects
    <2>3. /\ UNCHANGED <<row, world>>
          /\ sends' = [sends EXCEPT ![i] = @ \cup {n}]
      BY <1>5 DEF SendMail
    <2>4. \E taken \in BOOLEAN : mailed' = [mailed EXCEPT ![i] = @ \/ taken]
      <3>1. CASE mailed' = [mailed EXCEPT ![i] = TRUE]
        <4>1. mailed' = [mailed EXCEPT ![i] = @ \/ TRUE]
          BY <3>1
        <4>2. QED BY <4>1
      <3>2. QED BY <1>5, <3>1 DEF SendMail
    <2> HIDE DEF i, n
    <2>5. Promise!Copy(i, n)
      BY <2>1, <2>2, <2>3, <2>4 DEF row, world, standing, Promise!Copy
    <2>6. QED BY <2>1, <2>5 DEF Promise!MNext
  <1>6. CASE UNCHANGED vars
    BY <1>1, <1>6 DEF vars
  <1>7. ASSUME NEW w \in Workers, FinishBatch(w) \/ Take(w) \/ Abandon(w)
        PROVE  [Promise!MNext]_Promise!mvars
    BY <1>1, <1>7 DEF FinishBatch, Take, Abandon
  <1>8. QED BY <1>2, <1>3, <1>4, <1>5, <1>6, <1>7 DEF Next, Dispatch

(* The outbox, with its replicas, batches, leases and crashes, is a          *)
(* MailPromise: copies are bounded, only deliveries begun while the          *)
(* invitation could be used send one, defective mails never go out, and only *)
(* the latest delivery confirms.                                             *)
THEOREM OutboxKeepsPromise == Spec => KeepsMailPromise
  <1>1. Init => PromiseInv /\ Promise!MInit
    BY InitPromise
  <1>2. IInv /\ PromiseInv /\ [Next]_vars => PromiseInv'
    BY NextPromiseInv
  <1>3. IInv /\ PromiseInv /\ [Next]_vars => [Promise!MNext]_Promise!mvars
    BY StepKeepsMailPromise
  <1>4. QED
    BY <1>1, <1>2, <1>3, Invariance, PTL DEF Spec, KeepsMailPromise, Promise!MSpec
================================================================================
