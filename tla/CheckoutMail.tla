----------------------------- MODULE CheckoutMail -----------------------------
(***************************************************************************)
(* From a checkout at the provider to the e-mail with its payment link:    *)
(* the dispatcher of CheckoutDispatch and the one of the e-mails           *)
(* (OnboardingCheckoutEmailDispatcher), which are stages of one poll loop  *)
(* and write one row.                                                      *)
(*                                                                         *)
(* The row is its own outbox.  A claim takes a lease of five minutes,      *)
(* counts an attempt and clears the error of the last one; the number of   *)
(* the attempt is also the fencing token of every later write.  The bound  *)
(* on attempts in the query reads the error, so it is the dispatcher that  *)
(* must refuse what comes back without one.                                *)
(*                                                                         *)
(* Every step of CheckoutDispatch is a step here, in its stage, and no     *)
(* step of the mails touches a variable of it.  A name with an underscore  *)
(* and a suffix is as there.                                               *)
(***************************************************************************)
EXTENDS CheckoutDispatch

CONSTANTS
  Unmailable,     (* whose address, name or link deliver refuses            *)
  MaxAttempts,    (* bound of the code: 8                                   *)
  MaxMailFaults   (* bound: crashes, errors and stalls in the mails' stage  *)

ASSUME UnmailableAssumption == Unmailable \subseteq Registrations
ASSUME AttemptsAssumption   == MaxAttempts \in Nat \ {0}
ASSUME MailFaultsAssumption == MaxMailFaults \in Nat

VARIABLES
  tries,      (* .email_attempts                                            *)
  lease,      (* .email_lease_until: none, ahead or behind the clock        *)
  trouble,    (* .email_error_code                                          *)
  due,        (* .email_next_attempt_at is not ahead                        *)
  sent,       (* .email_sent_at is filled in                                *)
  paid,       (* onboarding_initial_payments has a row for the attempt      *)
  sends,      (* the leases under which the transport was given the mail    *)
  stage,      (* the stage of its loop a worker is in                       *)
  place,      (* where it stands in deliver                                 *)
  letter,     (* the attempt it leased                                      *)
  number,     (* the number of that lease                                   *)
  mailFaults  (* crashes, errors and stalls so far                          *)

mailRow  == <<tries, lease, trouble, due, sent>>
hand     == <<place, letter, number>>
mailVars == <<mailRow, paid, sends, hand, mailFaults>>
allVars  == <<vars, mailVars, stage>>

Troubles   == {"none", "smtp_failure", "paused"}
MailPlaces == {"none", "leased", "checked", "taken", "refused"}

MailTypeOK ==
  /\ tries      \in [Registrations -> Nat]
  /\ lease      \in [Registrations -> {"none", "held", "lapsed"}]
  /\ trouble    \in [Registrations -> Troubles]
  /\ due        \in [Registrations -> BOOLEAN]
  /\ sent       \in [Registrations -> BOOLEAN]
  /\ paid       \in [Registrations -> BOOLEAN]
  /\ sends      \in [Registrations -> SUBSET Nat]
  /\ stage      \in [Workers -> {"checkout", "mail"}]
  /\ place      \in [Workers -> MailPlaces]
  /\ letter     \in [Workers -> Registrations \cup {NoJob}]
  /\ number     \in [Workers -> Nat]
  /\ mailFaults \in 0..MaxMailFaults

MailInit ==
  /\ Init
  /\ tries      = [r \in Registrations |-> 0]
  /\ lease      = [r \in Registrations |-> "none"]
  /\ trouble    = [r \in Registrations |-> "none"]
  /\ due        = [r \in Registrations |-> TRUE]
  /\ sent       = [r \in Registrations |-> FALSE]
  /\ paid       = [r \in Registrations |-> FALSE]
  /\ sends      = [r \in Registrations |-> {}]
  /\ stage      = [w \in Workers |-> "checkout"]
  /\ place      = [w \in Workers |-> "none"]
  /\ letter     = [w \in Workers |-> NoJob]
  /\ number     = [w \in Workers |-> 0]
  /\ mailFaults = 0

-----------------------------------------------------------------------------
(* The stage before: a pass of the checkout dispatcher, then the mails.      *)

RegistrationStep(r) ==
  /\ Invite(r) \/ Expire(r) \/ Consume(r) \/ Age(r)
  /\ UNCHANGED <<mailVars, stage>>

CheckoutStage(w) ==
  /\ stage[w] = "checkout"
  /\ Dispatch(w)
  /\ stage' = [stage EXCEPT ![w] = IF pc'[w] = "idle" THEN "mail" ELSE @]
  /\ UNCHANGED mailVars

(* runStage catches what a stage throws and goes on; a process that died     *)
(* starts its loop again.                                                    *)
CheckoutFault(w) ==
  /\ stage[w] = "checkout"
  /\ \/ FailToStoreCreated(w) /\ UNCHANGED stage
     \/ Abandon(w) /\ \E s \in {"checkout", "mail"} : stage' = [stage EXCEPT ![w] = s]
  /\ UNCHANGED mailVars

-----------------------------------------------------------------------------
(* The clock and the payments.                                               *)

(* Reconciliation records a payment of the checkout, good or for review.     *)
Pay(r) ==
  /\ attempt[r] = "created" /\ linked[r] /\ ~paid[r]
  /\ paid' = [paid EXCEPT ![r] = TRUE]
  /\ UNCHANGED <<vars, stage, mailRow, sends, hand, mailFaults>>

LapseOf(r) ==
  /\ lease[r] = "held"
  /\ lease' = [lease EXCEPT ![r] = "lapsed"]
  /\ UNCHANGED <<vars, stage, tries, trouble, due, sent, paid, sends, hand>>

Holds(w, r) == letter[w] = r /\ number[w] = tries[r]

(* Whoever took the lease is gone.                                           *)
Lapse(r) ==
  /\ \A w \in Workers : ~Holds(w, r)
  /\ LapseOf(r)
  /\ UNCHANGED mailFaults

MailFault ==
  /\ mailFaults < MaxMailFaults
  /\ mailFaults' = mailFaults + 1

(* The transport's timeouts are far shorter than a lease: a worker that      *)
(* overruns it has stalled.                                                  *)
Overrun(r) ==
  /\ MailFault
  /\ \E w \in Workers : Holds(w, r)
  /\ LapseOf(r)

ComesDue(r) ==
  /\ ~due[r]
  /\ due' = [due EXCEPT ![r] = TRUE]
  /\ UNCHANGED <<vars, stage, tries, lease, trouble, sent, paid, sends, hand, mailFaults>>

-----------------------------------------------------------------------------
(* A worker's dispatchOnce.                                                  *)

Put(w, p, r, n) ==
  /\ place'  = [place  EXCEPT ![w] = p]
  /\ letter' = [letter EXCEPT ![w] = r]
  /\ number' = [number EXCEPT ![w] = n]

At(w, p) == stage[w] = "mail" /\ place[w] = p

Goto(w, p) == place' = [place EXCEPT ![w] = p] /\ UNCHANGED <<letter, number, stage>>

(* The pass ends, and with it the loop's: the next one starts over.          *)
EndPass(w) ==
  /\ Put(w, "none", NoJob, 0)
  /\ stage' = [stage EXCEPT ![w] = "checkout"]

(* Does not ask how the dispatch ended.                                      *)
Claimable_AnyState ==
  {r \in Allowed :
     /\ attempt[r] # "none" /\ ~sent[r] /\ ~paid[r]
     /\ due[r] /\ lease[r] # "held" /\ trouble[r] # "paused"}

Claimable ==
  {r \in Allowed :
     /\ attempt[r] = "created" /\ linked[r] /\ ~sent[r]
     /\ due[r] /\ lease[r] # "held"
     /\ trouble[r] = "none" \/ (trouble[r] = "smtp_failure" /\ tries[r] < MaxAttempts)
     /\ ~paid[r]}

ClaimMail(w) ==
  /\ At(w, "none")
  /\ \E r \in Claimable :
       /\ tries'   = [tries   EXCEPT ![r] = @ + 1]
       /\ lease'   = [lease   EXCEPT ![r] = "held"]
       /\ trouble' = [trouble EXCEPT ![r] = "none"]
       /\ Put(w, "leased", r, tries[r] + 1)
  /\ UNCHANGED <<vars, stage, due, sent, paid, sends, mailFaults>>

FindNoMail(w) ==
  /\ At(w, "none")
  /\ Claimable = {}
  /\ EndPass(w)
  /\ UNCHANGED <<vars, mailRow, paid, sends, mailFaults>>

(* What the writes after a claim ask of the row.                             *)
Current(w) ==
  LET r == letter[w] IN
    tries[r] = number[w] /\ lease[r] = "held" /\ ~sent[r] /\ attempt[r] = "created"

(* pauseCheckoutEmail or retryCheckoutEmail, on a lease that is still the    *)
(* worker's; on any other, no row is found.                                  *)
Release(w, code, again) ==
  LET r == letter[w] IN
    IF Current(w)
    THEN /\ lease'   = [lease   EXCEPT ![r] = "none"]
         /\ trouble' = [trouble EXCEPT ![r] = code]
         /\ due'     = [due     EXCEPT ![r] = again]
         /\ UNCHANGED <<tries, sent>>
    ELSE UNCHANGED mailRow

Deliverable_Unlimited(w) == letter[w] \notin Unmailable

Deliverable(w) == number[w] <= MaxAttempts /\ letter[w] \notin Unmailable

PauseUndeliverable(w) ==
  /\ At(w, "leased") /\ ~Deliverable(w)
  /\ Release(w, "paused", TRUE)
  /\ EndPass(w)
  /\ UNCHANGED <<vars, paid, sends, mailFaults>>

(* checkoutEmailLeaseCurrent, the last look before the transport.            *)
CheckLease(w) ==
  /\ At(w, "leased") /\ Deliverable(w)
  /\ IF Current(w) /\ ~paid[letter[w]] THEN Goto(w, "checked") ELSE EndPass(w)
  /\ UNCHANGED <<vars, mailRow, paid, sends, mailFaults>>

(* A transport that throws may have handed the mail over before: either way  *)
(* it counts.                                                                *)
SendMail(w) ==
  /\ At(w, "checked")
  /\ sends' = [sends EXCEPT ![letter[w]] = @ \cup {number[w]}]
  /\ \E p \in {"taken", "refused"} : Goto(w, p)
  /\ UNCHANGED <<vars, mailRow, paid, mailFaults>>

MarkSent(w) ==
  /\ At(w, "taken")
  /\ IF Current(w) /\ ~paid[letter[w]]
     THEN /\ sent'    = [sent    EXCEPT ![letter[w]] = TRUE]
          /\ lease'   = [lease   EXCEPT ![letter[w]] = "none"]
          /\ trouble' = [trouble EXCEPT ![letter[w]] = "none"]
          /\ UNCHANGED <<tries, due>>
     ELSE UNCHANGED mailRow
  /\ EndPass(w)
  /\ UNCHANGED <<vars, paid, sends, mailFaults>>

AfterRefusal_AlwaysPause(w) == Release(w, "paused", TRUE)

AfterRefusal(w) ==
  IF number[w] >= MaxAttempts
  THEN Release(w, "paused", TRUE)
  ELSE Release(w, "smtp_failure", FALSE)

StoreRefusal(w) ==
  /\ At(w, "refused")
  /\ AfterRefusal(w)
  /\ EndPass(w)
  /\ UNCHANGED <<vars, paid, sends, mailFaults>>

(* The process dies, or a statement throws: the row stays as it is.          *)
AbandonMail(w) ==
  /\ MailFault
  /\ stage[w] = "mail" /\ place[w] # "none"
  /\ EndPass(w)
  /\ UNCHANGED <<vars, mailRow, paid, sends>>

MailStage(w) ==
  \/ ClaimMail(w) \/ FindNoMail(w) \/ PauseUndeliverable(w) \/ CheckLease(w)
  \/ SendMail(w) \/ MarkSent(w) \/ StoreRefusal(w)

MailNext ==
  \/ \E r \in Registrations :
       RegistrationStep(r) \/ Pay(r) \/ Lapse(r) \/ Overrun(r) \/ ComesDue(r)
  \/ \E w \in Workers :
       CheckoutStage(w) \/ CheckoutFault(w) \/ MailStage(w) \/ AbandonMail(w)

Clock(r) == (RegistrationStep(r) /\ Age(r)) \/ Lapse(r) \/ ComesDue(r)

(* The poll loop reschedules itself after every pass, failed or not, the     *)
(* calls to the provider and to the transport give up after their timeouts,  *)
(* and clocks advance over the rows that have to be taken up again.  Nothing *)
(* makes a person confirm an invitation or pay.                              *)
MailFairness ==
  /\ \A w \in Workers : WF_allVars(CheckoutStage(w) \/ MailStage(w))
  /\ \A r \in Allowed : WF_allVars(Clock(r))

MailSpec     == MailInit /\ [][MailNext]_allVars
FairMailSpec == MailSpec /\ MailFairness

-----------------------------------------------------------------------------
(* Properties.                                                               *)

(* However often leases are lost, an attempt is mailed no more often than    *)
(* the dispatcher's limit, though the query's own bound does not hold for a  *)
(* claim that ended in nothing (onboarding-checkout.repository.ts:86).       *)
CopiesAreBounded ==
  /\ \A r \in Registrations : sends[r] \subseteq 1..MaxAttempts
  /\ \A w \in Workers : place[w] = "checked" => number[w] \notin sends[letter[w]]

(* Nobody is mailed a link that cannot be paid: what was mailed, or is about *)
(* to be, is the one checkout the provider has for the registration.         *)
MailedIsPayable ==
  \A r \in Registrations :
    (sends[r] # {} \/ \E w \in Workers : letter[w] = r)
      => attempt[r] = "created" /\ linked[r] /\ orders[r] = 1

(* A mail is given up only when it cannot be written or all its attempts are *)
(* used, whoever else was at work on the row.                                *)
PauseHasCause ==
  \A r \in Registrations : trouble[r] = "paused" =>
    r \in Unmailable \/ tries[r] >= MaxAttempts

(* No attempt of an allowed registration stays queued, in dispatch or        *)
(* created for ever, although workers die holding it or its mail: it comes   *)
(* to a refusal, to a doubt, to a mail that was sent, to a payment without   *)
(* it, or to a pause an operator finds.  From a doubt it may go on as a      *)
(* created one, and then must be told as well.                               *)
EveryAttemptIsTold ==
  \A r \in Allowed :
    attempt[r] # "none" ~>
      \/ attempt[r] \in {"rejected", "unknown"}
      \/ sent[r] \/ paid[r] \/ trouble[r] = "paused"

-----------------------------------------------------------------------------
(* Why they hold.                                                            *)

(* Leases are numbered by the attempts, and each is one worker's.            *)
LeasesAreNumbered ==
  /\ \A w \in Workers :
       /\ place[w] = "none" <=> letter[w] = NoJob
       /\ letter[w] # NoJob => number[w] \in 1..tries[letter[w]]
       /\ place[w] \notin {"none", "leased"} => number[w] <= MaxAttempts
  /\ \A v, w \in Workers :
       letter[v] = letter[w] /\ letter[v] # NoJob /\ number[v] = number[w] => v = w

(* A lease under which nothing was sent yet is not among those that were.    *)
UnsentLeases ==
  /\ \A r \in Registrations : sends[r] \subseteq 1..tries[r]
  /\ \A w \in Workers :
       place[w] \in {"leased", "checked"} => number[w] \notin sends[letter[w]]

(* What is mailed, or leased for it, has been created.                       *)
MailedIsCreated ==
  \A r \in Registrations :
    (sends[r] # {} \/ \E w \in Workers : letter[w] = r) => attempt[r] = "created"

MailIInv ==
  /\ IInv
  /\ MailTypeOK
  /\ LeasesAreNumbered
  /\ UnsentLeases
  /\ MailedIsCreated
  /\ CopiesAreBounded
  /\ PauseHasCause
===============================================================================
