--------------------------- MODULE ActivationPromise ---------------------------
(***************************************************************************)
(* What the activation promises, without browsers, callbacks, clocks or    *)
(* transactions.  A registration is tried once.  It ends as the account of *)
(* an identity that no other registration has, and only while its payment  *)
(* is in order; or it fails.  Both are final.  Accounts come into being    *)
(* there or by the ordinary door, and never share an e-mail.               *)
(***************************************************************************)
CONSTANTS Cadastros, Subjects, Emails, EmailOf, None

VARIABLES
  paid,      (* the payment is in order                                      *)
  trial,     (* "none", "tried", "bound" or "failed"                         *)
  owner,     (* the identity a registration is bound to                      *)
  account    (* the e-mail of the account of an identity                     *)

tvars == <<paid, trial, owner, account>>

TInit ==
  /\ paid    = [c \in Cadastros |-> TRUE]
  /\ trial   = [c \in Cadastros |-> "none"]
  /\ owner   = [c \in Cadastros |-> None]
  /\ account = [s \in Subjects |-> None]

Suspend(c) ==
  /\ paid' = [paid EXCEPT ![c] = FALSE]
  /\ UNCHANGED <<trial, owner, account>>

(* An e-mail that no other identity has.                                     *)
MayHave(s, e) == \A t \in Subjects \ {s} : account[t] # e

Enter(s, e) ==
  /\ MayHave(s, e)
  /\ account' = [account EXCEPT ![s] = e]
  /\ UNCHANGED <<paid, trial, owner>>

Try(c) ==
  /\ trial[c] = "none"
  /\ paid[c]
  /\ trial' = [trial EXCEPT ![c] = "tried"]
  /\ UNCHANGED <<paid, owner, account>>

Bind(c, s) ==
  /\ trial[c] = "tried"
  /\ paid[c]
  /\ \A d \in Cadastros : owner[d] # s
  /\ \/ account[s] # None /\ UNCHANGED account
     \/ /\ account[s] = None
        /\ MayHave(s, EmailOf[c])
        /\ account' = [account EXCEPT ![s] = EmailOf[c]]
  /\ owner' = [owner EXCEPT ![c] = s]
  /\ trial' = [trial EXCEPT ![c] = "bound"]
  /\ UNCHANGED paid

Fail(c) ==
  /\ trial[c] = "tried"
  /\ trial' = [trial EXCEPT ![c] = "failed"]
  /\ UNCHANGED <<paid, owner, account>>

TNext ==
  \/ \E c \in Cadastros : Suspend(c) \/ Try(c) \/ Fail(c)
  \/ \E c \in Cadastros, s \in Subjects : Bind(c, s)
  \/ \E s \in Subjects, e \in Emails : Enter(s, e)

TSpec == TInit /\ [][TNext]_tvars
================================================================================
