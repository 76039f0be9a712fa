------------------------------ MODULE EmailOutbox ------------------------------
(***************************************************************************)
(* The outbox of onboarding e-mails (onboarding_email_outbox): one row for *)
(* each invitation, with the encrypted token the mail will carry.          *)
(*                                                                         *)
(* Every replica polls it (OnboardingEmailDispatcher.dispatchOnce): one    *)
(* transaction erases the tokens of dead invitations and leases a batch of *)
(* due rows for five minutes; the leases are then served one after the     *)
(* other, and every later statement is fenced by the lease.  Delivery is   *)
(* at-least-once: the transport may accept a mail and still report an      *)
(* error, a replica may die before it records the success, and a batch may *)
(* outlive its lease.                                                      *)
(*                                                                         *)
(* Clocks are abstracted to what the statements compare: a lease is live   *)
(* or has lapsed, a retry is due or not, an invitation has expired or not. *)
(* A lease is the row and the value of `attempts' it was taken at.         *)
(*                                                                         *)
(* The deployment has activation switched on.  The sanitised error text of *)
(* a row is left out.                                                      *)
(*                                                                         *)
(* A name with an underscore and a suffix is the definition before the     *)
(* underscore with a plausible mistake in it; no behaviour uses it.        *)
(***************************************************************************)
EXTENDS Naturals, FiniteSets

CONSTANTS
  Invitations,   (* invitations, each with its outbox row                   *)
  Activations,   (* those with purpose `activation'                         *)
  Defective,     (* those whose mail cannot go out                          *)
  Workers,       (* replicas that run the dispatch loop                     *)
  MaxAttempts,   (* ONBOARDING_EMAIL_MAX_ATTEMPTS                           *)
  BatchSize,     (* ONBOARDING_EMAIL_BATCH_SIZE                             *)
  Idle,          (* a worker that is not serving a lease                    *)
  MaxFaults      (* bound: crashes and database errors in a behaviour       *)

ASSUME ActivationsAssumption == Activations \subseteq Invitations
ASSUME DefectiveAssumption   == Defective \subseteq Invitations
ASSUME AttemptsAssumption    == MaxAttempts \in Nat \ {0}
ASSUME BatchAssumption       == BatchSize \in Nat \ {0}
ASSUME IdleAssumption        == Idle \notin Invitations \X Nat
ASSUME MailFaultsAssumption  == MaxFaults \in Nat

VARIABLES
  defect,      (* the recipient is not on the allowlist, or the token does  *)
               (* not decrypt under the configured key; never changes       *)
  invitation,  (* "open", "expired" or "consumed"                           *)
  revoked,     (* the payment behind an activation is no longer valid       *)
  sent,        (* .sent_at is set                                           *)
  token,       (* .encrypted_token is present                               *)
  attempts,    (* .attempts                                                 *)
  lease,       (* .lease_until: null, in the future, or in the past         *)
  due,         (* .available_at: has come, will come, or infinity           *)
  mailed,      (* the transport accepted the mail at least once             *)
  sends,       (* the attempts under which sendMail was called              *)
  pc, todo,    (* each worker's place and the leases it has yet to serve    *)
  serving,     (* the lease it is serving                                   *)
  faults       (* crashes and database errors so far                        *)

row    == <<sent, token, attempts, lease, due>>
world  == <<defect, invitation, revoked>>
worker == <<pc, todo, serving>>
vars   == <<row, world, mailed, sends, worker, faults>>

Leases == Invitations \X Nat

Defects(i) == IF i \in Defective THEN {"refused", "undecryptable"} ELSE {"none"}

TypeOK ==
  /\ defect     \in [Invitations -> {"none", "refused", "undecryptable"}]
  /\ invitation \in [Invitations -> {"open", "expired", "consumed"}]
  /\ revoked    \in [Invitations -> BOOLEAN]
  /\ sent       \in [Invitations -> BOOLEAN]
  /\ token      \in [Invitations -> BOOLEAN]
  /\ attempts   \in [Invitations -> 0..MaxAttempts]
  /\ lease      \in [Invitations -> {"none", "live", "lapsed"}]
  /\ due        \in [Invitations -> {"now", "later", "never"}]
  /\ mailed     \in [Invitations -> BOOLEAN]
  /\ sends      \in [Invitations -> SUBSET Nat]
  /\ pc         \in [Workers -> {"idle", "batch", "sending", "accepted", "failed"}]
  /\ todo       \in [Workers -> SUBSET Leases]
  /\ serving    \in [Workers -> Leases \cup {Idle}]
  /\ faults     \in 0..MaxFaults

Init ==
  /\ defect     \in [Invitations -> {"none", "refused", "undecryptable"}]
  /\ \A i \in Invitations : defect[i] \in Defects(i)
  /\ invitation = [i \in Invitations |-> "open"]
  /\ revoked    = [i \in Invitations |-> FALSE]
  /\ sent       = [i \in Invitations |-> FALSE]
  /\ token      = [i \in Invitations |-> TRUE]
  /\ attempts   = [i \in Invitations |-> 0]
  /\ lease      = [i \in Invitations |-> "none"]
  /\ due        = [i \in Invitations |-> "now"]
  /\ mailed     = [i \in Invitations |-> FALSE]
  /\ sends      = [i \in Invitations |-> {}]
  /\ pc         = [w \in Workers |-> "idle"]
  /\ todo       = [w \in Workers |-> {}]
  /\ serving    = [w \in Workers |-> Idle]
  /\ faults     = 0

-----------------------------------------------------------------------------
(* The clock and the rest of the system.                                     *)

Lapse(i) ==
  /\ lease[i] = "live"
  /\ lease' = [lease EXCEPT ![i] = "lapsed"]
  /\ UNCHANGED <<world, sent, token, attempts, due, mailed, sends, worker, faults>>

(* The back-off of a retry passes; a row paused for repair waits for ever.   *)
ComesDue(i) ==
  /\ due[i] = "later"
  /\ due' = [due EXCEPT ![i] = "now"]
  /\ UNCHANGED <<world, sent, token, attempts, lease, mailed, sends, worker, faults>>

Expire(i) ==
  /\ invitation[i] = "open"
  /\ invitation' = [invitation EXCEPT ![i] = "expired"]
  /\ UNCHANGED <<defect, revoked, row, mailed, sends, worker, faults>>

(* Only who has the mail knows the token.                                    *)
Consume(i) ==
  /\ invitation[i] = "open"
  /\ mailed[i]
  /\ invitation' = [invitation EXCEPT ![i] = "consumed"]
  /\ UNCHANGED <<defect, revoked, row, mailed, sends, worker, faults>>

(* Reconciliation sends the initial payment to review.                       *)
Revoke(i) ==
  /\ i \in Activations
  /\ ~revoked[i]
  /\ revoked' = [revoked EXCEPT ![i] = TRUE]
  /\ UNCHANGED <<defect, invitation, row, mailed, sends, worker, faults>>

-----------------------------------------------------------------------------
(* claimPending.                                                             *)

Free_NeverReleased(i) == lease[i] = "none"

Free(i) == lease[i] \in {"none", "lapsed"}

Pending(i) == ~sent[i] /\ token[i] /\ Free(i)

(* What the first statement erases; Dead_OnlyDue would leave the token of an *)
(* exhausted row in the database.                                            *)
Dead_OnlyDue == {i \in Invitations : Pending(i) /\ invitation[i] # "open" /\ attempts[i] < MaxAttempts}

Dead == {i \in Invitations : Pending(i) /\ invitation[i] # "open"}

Eligible(i) == invitation[i] = "open" /\ ~revoked[i]

Claimable_Unlimited == {i \in Invitations : Pending(i) /\ due[i] = "now" /\ Eligible(i)}

Claimable ==
  {i \in Invitations : Pending(i) /\ due[i] = "now" /\ attempts[i] < MaxAttempts /\ Eligible(i)}

(* Counts the deliveries that fail, not the claims.                          *)
Numbered_AtFailure(S) == attempts

Numbered(S) == [i \in Invitations |-> IF i \in S THEN attempts[i] + 1 ELSE attempts[i]]

(* One transaction.  Rows another replica has locked are skipped, so the     *)
(* batch is any part of the claimable rows, up to its size.                  *)
ClaimPending(w) ==
  /\ pc[w] = "idle"
  /\ \E S \in SUBSET Claimable :
       /\ Cardinality(S) <= BatchSize
       /\ S # {} \/ Dead # {}
       /\ token'     = [i \in Invitations |-> token[i] /\ i \notin Dead]
       /\ attempts'  = Numbered(S)
       /\ lease'     = [i \in Invitations |->
                          IF i \in S THEN "live"
                          ELSE IF i \in Dead THEN "none" ELSE lease[i]]
       /\ todo'      = [todo EXCEPT ![w] = {<<i, attempts'[i]>> : i \in S}]
       /\ pc'        = [pc EXCEPT ![w] = IF S = {} THEN "idle" ELSE "batch"]
  /\ UNCHANGED <<world, sent, due, mailed, sends, serving, faults>>

-----------------------------------------------------------------------------
(* The fenced statements, as what they do to the row of lease l.             *)

Holds(l) ==
  /\ attempts[l[1]] = l[2]
  /\ lease[l[1]] = "live"
  /\ ~sent[l[1]]
  /\ token[l[1]]

(* Without the fence a replica that was overtaken confirms what others hold. *)
MarkSent_Unfenced(l) ==
  /\ sent'  = [sent  EXCEPT ![l[1]] = TRUE]
  /\ token' = [token EXCEPT ![l[1]] = FALSE]
  /\ lease' = [lease EXCEPT ![l[1]] = "none"]
  /\ UNCHANGED <<attempts, due>>

MarkSent_KeepToken(l) ==
  IF Holds(l)
  THEN /\ sent'      = [sent      EXCEPT ![l[1]] = TRUE]
       /\ lease'     = [lease     EXCEPT ![l[1]] = "none"]
       /\ UNCHANGED <<token, attempts, due>>
  ELSE UNCHANGED row

MarkSent(l) ==
  IF Holds(l)
  THEN /\ sent'      = [sent      EXCEPT ![l[1]] = TRUE]
       /\ token'     = [token     EXCEPT ![l[1]] = FALSE]
       /\ lease'     = [lease     EXCEPT ![l[1]] = "none"]
       /\ UNCHANGED <<attempts, due>>
  ELSE UNCHANGED row

ScheduleRetry(l) ==
  IF Holds(l)
  THEN /\ due'       = [due       EXCEPT ![l[1]] = "later"]
       /\ lease'     = [lease     EXCEPT ![l[1]] = "none"]
       /\ UNCHANGED <<sent, token, attempts>>
  ELSE UNCHANGED row

ClearExpired(l) ==
  IF Holds(l)
  THEN /\ token'     = [token     EXCEPT ![l[1]] = FALSE]
       /\ lease'     = [lease     EXCEPT ![l[1]] = "none"]
       /\ UNCHANGED <<sent, attempts, due>>
  ELSE UNCHANGED row

PauseForRepair(l) ==
  IF Holds(l)
  THEN /\ attempts'  = [attempts  EXCEPT ![l[1]] = MaxAttempts]
       /\ due'       = [due       EXCEPT ![l[1]] = "never"]
       /\ lease'     = [lease     EXCEPT ![l[1]] = "none"]
       /\ UNCHANGED <<sent, token>>
  ELSE UNCHANGED row

-----------------------------------------------------------------------------
(* deliverOne, one awaited call at a time.                                   *)

FinishBatch(w) ==
  /\ pc[w] = "batch"
  /\ todo[w] = {}
  /\ pc' = [pc EXCEPT ![w] = "idle"]
  /\ UNCHANGED <<world, row, mailed, sends, todo, serving, faults>>

(* The invitation expired while the batch was being served; one that was     *)
(* consumed meanwhile may have expired as well.                              *)
TakeExpired(w) ==
  /\ pc[w] = "batch"
  /\ \E l \in todo[w] :
       /\ invitation[l[1]] # "open"
       /\ ClearExpired(l)
       /\ todo' = [todo EXCEPT ![w] = @ \ {l}]
  /\ UNCHANGED <<world, mailed, sends, pc, serving, faults>>

TakeRefused(w) ==
  /\ pc[w] = "batch"
  /\ \E l \in todo[w] :
       /\ invitation[l[1]] # "expired"
       /\ defect[l[1]] = "refused"
       /\ PauseForRepair(l)
       /\ todo' = [todo EXCEPT ![w] = @ \ {l}]
  /\ UNCHANGED <<world, mailed, sends, pc, serving, faults>>

(* leaseIsCurrent, just before the mail goes out.                            *)
LeaseIsCurrent(l) == Holds(l) /\ Eligible(l[1])

Take(w) ==
  /\ pc[w] = "batch"
  /\ \E l \in todo[w] :
       /\ invitation[l[1]] # "expired"
       /\ defect[l[1]] # "refused"
       /\ todo' = [todo EXCEPT ![w] = @ \ {l}]
       /\ IF LeaseIsCurrent(l)
          THEN /\ pc' = [pc EXCEPT ![w] = "sending"]
               /\ serving' = [serving EXCEPT ![w] = l]
          ELSE UNCHANGED <<pc, serving>>
  /\ UNCHANGED <<world, row, mailed, sends, faults>>

GiveUpDecrypting(w) ==
  /\ pc[w] = "sending"
  /\ defect[serving[w][1]] = "undecryptable"
  /\ PauseForRepair(serving[w])
  /\ pc' = [pc EXCEPT ![w] = "batch"]
  /\ serving' = [serving EXCEPT ![w] = Idle]
  /\ UNCHANGED <<world, mailed, sends, todo, faults>>

(* An error does not tell whether the transport took the mail.               *)
SendMail(w) ==
  /\ pc[w] = "sending"
  /\ defect[serving[w][1]] # "undecryptable"
  /\ sends' = [sends EXCEPT ![serving[w][1]] = @ \cup {serving[w][2]}]
  /\ \/ /\ pc' = [pc EXCEPT ![w] = "accepted"]
        /\ mailed' = [mailed EXCEPT ![serving[w][1]] = TRUE]
     \/ /\ pc' = [pc EXCEPT ![w] = "failed"]
        /\ \E taken \in BOOLEAN :
             mailed' = [mailed EXCEPT ![serving[w][1]] = @ \/ taken]
  /\ UNCHANGED <<world, row, todo, serving, faults>>

Acknowledge(w) ==
  /\ \/ pc[w] = "accepted" /\ MarkSent(serving[w])
     \/ pc[w] = "failed" /\ ScheduleRetry(serving[w])
  /\ pc' = [pc EXCEPT ![w] = "batch"]
  /\ serving' = [serving EXCEPT ![w] = Idle]
  /\ UNCHANGED <<world, mailed, sends, todo, faults>>

(* The process dies, or a statement throws and dispatchOnce with it: the     *)
(* rest of the batch is forgotten, its leases stay behind.                   *)
Abandon(w) ==
  /\ faults < MaxFaults
  /\ faults' = faults + 1
  /\ pc[w] # "idle"
  /\ pc'      = [pc      EXCEPT ![w] = "idle"]
  /\ todo'    = [todo    EXCEPT ![w] = {}]
  /\ serving' = [serving EXCEPT ![w] = Idle]
  /\ UNCHANGED <<world, row, mailed, sends>>

Dispatch(w) ==
  \/ ClaimPending(w) \/ FinishBatch(w) \/ TakeExpired(w) \/ TakeRefused(w)
  \/ Take(w) \/ GiveUpDecrypting(w) \/ SendMail(w) \/ Acknowledge(w)

Next ==
  \/ \E i \in Invitations :
       Lapse(i) \/ ComesDue(i) \/ Expire(i) \/ Consume(i) \/ Revoke(i)
  \/ \E w \in Workers : Dispatch(w) \/ Abandon(w)

(* The poll loop reschedules itself after every pass and the transport has a *)
(* timeout; clocks advance.                                                  *)
Fairness ==
  /\ \A w \in Workers : WF_vars(Dispatch(w))
  /\ \A i \in Invitations : WF_vars(Lapse(i)) /\ WF_vars(ComesDue(i))

Spec     == Init /\ [][Next]_vars
FairSpec == Spec /\ Fairness

-----------------------------------------------------------------------------
(* Properties.                                                               *)

Held(w) == todo[w] \cup (IF pc[w] \in {"sending", "accepted", "failed"} THEN {serving[w]} ELSE {})

(* A lease is in the hands of one replica only, however often leases lapse   *)
(* and are taken over: no two replicas can both pass the fence.              *)
LeasesAreExclusive ==
  \A v, w \in Workers : Held(v) \cap Held(w) # {} => v = w

(* Under one claim the transport is called at most once, and there are at    *)
(* most MaxAttempts claims: a person gets eight copies at the very worst.    *)
SendsAreBounded ==
  /\ \A i \in Invitations : sends[i] \subseteq 1..MaxAttempts
  /\ \A w \in Workers : pc[w] = "sending" => serving[w][2] \notin sends[serving[w][1]]

(* The token stays exactly as long as the mail may still have to go out: it  *)
(* is erased with the success, and otherwise only when the invitation died   *)
(* (the CHECK onboarding_email_outbox_cipher_retention_ck).                  *)
TokenRetention ==
  \A i \in Invitations :
    /\ sent[i] => ~token[i] /\ mailed[i]
    /\ ~sent[i] /\ ~token[i] => invitation[i] # "open"

standing ==
  [i \in Invitations |->
     IF sent[i] THEN "sent" ELSE IF ~token[i] THEN "erased"
     ELSE IF due[i] = "never" THEN "paused" ELSE "waiting"]

Promise == INSTANCE MailPromise WITH
  Mails <- Invitations, Faulty <- Defective, MaxBegun <- MaxAttempts,
  begun <- attempts, copies <- sends, reached <- mailed, life <- invitation,
  stopped <- revoked

(* Whatever lapses, crashes and is taken over, a mail goes out only in a     *)
(* delivery begun while its invitation could be used, once in each, never to *)
(* a recipient off the allowlist, and it is confirmed by its latest delivery *)
(* only; what is sent or erased stays so.                                    *)
KeepsMailPromise == Promise!MSpec

(* The token of a dead invitation does not stay in the database, not even    *)
(* that of a row whose attempts were used up by crashes.                     *)
DeadTokenErased ==
  \A i \in Invitations : invitation[i] # "open" ~> ~token[i]

(* A row never hangs: it is sent, erased, revoked, or all its attempts have  *)
(* been spent.                                                               *)
EveryMailEnds ==
  \A i \in Invitations :
    token[i] ~> (~token[i] \/ revoked[i] \/ attempts[i] = MaxAttempts)

-----------------------------------------------------------------------------
(* Why they hold: the inductive invariant.                                   *)

WorkerPlaces ==
  \A w \in Workers :
    /\ pc[w] = "idle" => todo[w] = {}
    /\ pc[w] \in {"idle", "batch"} <=> serving[w] = Idle
    /\ serving[w] \notin todo[w]
    /\ pc[w] = "accepted" => mailed[serving[w][1]]

(* The numbers of a row grow with every lease, so an old lease is never      *)
(* taken for a new one.                                                      *)
LeasesAreNumbered ==
  \A w \in Workers : \A l \in Held(w) : l[2] \in 1..attempts[l[1]]

SendsAreNumbered ==
  \A i \in Invitations : sends[i] \subseteq 1..attempts[i]

(* What a replica serves may go out, and was sent if there is an answer.     *)
ServedLeases ==
  \A w \in Workers :
    /\ pc[w] = "sending" => defect[serving[w][1]] # "refused"
    /\ pc[w] \in {"accepted", "failed"} => serving[w][2] \in sends[serving[w][1]]

(* What is wrong with a mail does not change, and a paused row is at rest.   *)
DefectsStand ==
  \A i \in Invitations :
    /\ defect[i] \in Defects(i)
    /\ due[i] = "never" => lease[i] = "none"

UnsentLeases ==
  \A w \in Workers :
    /\ \A l \in todo[w] : l[2] \notin sends[l[1]]
    /\ pc[w] = "sending" => serving[w][2] \notin sends[serving[w][1]]

IInv ==
  /\ TypeOK
  /\ WorkerPlaces
  /\ LeasesAreNumbered
  /\ LeasesAreExclusive
  /\ SendsAreNumbered
  /\ UnsentLeases
  /\ TokenRetention

(* What the steps of MailPromise rest on, besides.                           *)
PromiseInv == ServedLeases /\ DefectsStand
================================================================================
