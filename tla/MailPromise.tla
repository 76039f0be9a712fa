------------------------------ MODULE MailPromise ------------------------------
(***************************************************************************)
(* What the onboarding outbox promises about the mail of an invitation,    *)
(* without replicas, batches, leases or retries in time.  The mail waits   *)
(* until it is confirmed, erased, or paused for repair.  A delivery is     *)
(* begun only for an invitation that may still be used, and each one puts  *)
(* at most one copy into the transport, maybe late.  Only the copy of the  *)
(* latest delivery confirms the mail.                                      *)
(***************************************************************************)
EXTENDS Naturals

CONSTANTS
  Mails,       (* one for each invitation                                    *)
  Faulty,      (* those that must not go out, or cannot                      *)
  MaxBegun     (* deliveries that may be begun of one mail                   *)

VARIABLES
  standing,    (* "waiting", "paused", "sent" or "erased"                    *)
  begun,       (* deliveries begun; at the limit when it is paused           *)
  copies,      (* deliveries that put their copy into the transport          *)
  reached,     (* the transport took a copy, though it may not have said so  *)
  life,        (* the invitation is "open", "expired" or "consumed"          *)
  stopped      (* the payment behind it is no longer valid                   *)

mvars == <<standing, begun, copies, reached, life, stopped>>

MInit ==
  /\ standing = [m \in Mails |-> "waiting"]
  /\ begun    = [m \in Mails |-> 0]
  /\ copies   = [m \in Mails |-> {}]
  /\ reached  = [m \in Mails |-> FALSE]
  /\ life     = [m \in Mails |-> "open"]
  /\ stopped  = [m \in Mails |-> FALSE]

(* One pass begins the deliveries of S and erases the dead mails of D.       *)
Pass(S, D) ==
  /\ \A m \in S : standing[m] = "waiting" /\ begun[m] < MaxBegun /\ life[m] = "open" /\ ~stopped[m]
  /\ \A m \in D : standing[m] \in {"waiting", "paused"} /\ life[m] # "open"
  /\ begun'    = [m \in Mails |-> IF m \in S THEN begun[m] + 1 ELSE begun[m]]
  /\ standing' = [m \in Mails |-> IF m \in D THEN "erased" ELSE standing[m]]
  /\ UNCHANGED <<copies, reached, life, stopped>>

(* An error does not tell whether the transport took the copy.  The mail may *)
(* have been confirmed, paused or erased meanwhile.                          *)
Copy(m, n) ==
  /\ m \notin Faulty
  /\ n \in (1..begun[m]) \ copies[m]
  /\ copies' = [copies EXCEPT ![m] = @ \cup {n}]
  /\ \E taken \in BOOLEAN : reached' = [reached EXCEPT ![m] = @ \/ taken]
  /\ UNCHANGED <<standing, begun, life, stopped>>

Confirm(m) ==
  /\ standing[m] = "waiting"
  /\ begun[m] \in copies[m]
  /\ reached[m]
  /\ standing' = [standing EXCEPT ![m] = "sent"]
  /\ UNCHANGED <<begun, copies, reached, life, stopped>>

Pause(m) ==
  /\ m \in Faulty
  /\ standing[m] = "waiting"
  /\ begun'    = [begun EXCEPT ![m] = MaxBegun]
  /\ standing' = [standing EXCEPT ![m] = "paused"]
  /\ UNCHANGED <<copies, reached, life, stopped>>

(* The rest of the system: only who has the mail can use the invitation.     *)
Change(m) ==
  /\ \/ /\ life[m] = "open"
        /\ \E end \in {"expired"} \cup (IF reached[m] THEN {"consumed"} ELSE {}) :
             life' = [life EXCEPT ![m] = end]
        /\ UNCHANGED stopped
     \/ stopped' = [stopped EXCEPT ![m] = TRUE] /\ UNCHANGED life
  /\ UNCHANGED <<standing, begun, copies, reached>>

MNext ==
  \/ \E S, D \in SUBSET Mails : Pass(S, D)
  \/ \E m \in Mails : Confirm(m) \/ Pause(m) \/ Change(m)
  \/ \E m \in Mails : \E n \in 1..begun[m] : Copy(m, n)

MSpec == MInit /\ [][MNext]_mvars
================================================================================
