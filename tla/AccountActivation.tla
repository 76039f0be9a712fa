--------------------------- MODULE AccountActivation ---------------------------
(***************************************************************************)
(* How a paid registration becomes the account of an identity.             *)
(*                                                                         *)
(* The link of the activation e-mail starts an intent, once, and sends the *)
(* browser to the identity provider.  When it comes back one callback      *)
(* claims the intent, asks the provider who the visitor is, and binds the  *)
(* registration to the visitor's account in a transaction that many may    *)
(* run at a time; whatever goes wrong fails the intent, for good.          *)
(*                                                                         *)
(* The provider is external: any identity, with any e-mail, may come back. *)
(* The transaction is seen as two steps, what it reads and what it writes: *)
(* the rows of its own registration are locked in between, and those who   *)
(* want the row it inserts wait for its end.  An account without e-mail    *)
(* and the change of the configuration are left out.                       *)
(*                                                                         *)
(* A name with an underscore and a suffix is the definition before the     *)
(* underscore with a plausible mistake in it; no behaviour uses it.        *)
(***************************************************************************)
CONSTANTS
  Cadastros,    (* registrations whose first payment was confirmed           *)
  Subjects,     (* identities of the provider                                *)
  Emails,
  EmailOf,      (* the e-mail of a registration, of which it is the only one *)
  None

ASSUME EmailAssumption ==
  /\ EmailOf \in [Cadastros -> Emails]
  /\ \A c, d \in Cadastros : EmailOf[c] = EmailOf[d] => c = d
ASSUME NoneAssumption  == None \notin Subjects \cup Emails

VARIABLES
  paid,         (* the payment is in order, not under review                 *)
  intent,       (* its state, "none" while the invitation is not consumed    *)
  expired,      (* its ten minutes are over                                  *)
  account,      (* the e-mail of the account of an identity                  *)
  binding,      (* the identity a registration is bound to                   *)
  pc,           (* where the callback that claimed the intent stands         *)
  principal,    (* the identity the provider answered with                   *)
  cut           (* what cut it off before its end, if anything did           *)

intents  == <<paid, intent, expired>>
callback == <<pc, principal>>
vars     == <<intents, account, binding, callback, cut>>

TypeOK ==
  /\ paid      \in [Cadastros -> BOOLEAN]
  /\ intent    \in [Cadastros -> {"none", "pending", "exchanging", "bound", "failed"}]
  /\ expired   \in [Cadastros -> BOOLEAN]
  /\ account   \in [Subjects -> Emails \cup {None}]
  /\ binding   \in [Cadastros -> Subjects \cup {None}]
  /\ pc        \in [Cadastros -> {"idle", "exchange", "bind", "open", "fail"}]
  /\ principal \in [Cadastros -> Subjects \cup {None}]
  /\ cut       \in [Cadastros -> {"nothing", "unheard", "death", "unrecorded"}]

Init ==
  /\ paid      = [c \in Cadastros |-> TRUE]
  /\ intent    = [c \in Cadastros |-> "none"]
  /\ expired   = [c \in Cadastros |-> FALSE]
  /\ account   = [s \in Subjects |-> None]
  /\ binding   = [c \in Cadastros |-> None]
  /\ pc        = [c \in Cadastros |-> "idle"]
  /\ principal = [c \in Cadastros |-> None]
  /\ cut       = [c \in Cadastros |-> "nothing"]

Set(c, state) == intent' = [intent EXCEPT ![c] = state]
Go(c, place)  == pc' = [pc EXCEPT ![c] = place]

(* The callback is gone, and nobody looks after its intent.                  *)
CutOff(c, why) ==
  /\ cut' = [cut EXCEPT ![c] = why]
  /\ Go(c, "idle")

-----------------------------------------------------------------------------
(* The rest of the system.                                                   *)

(* Does not wait for the transaction that has locked the payment's row.      *)
Review_Unlocked(c) ==
  /\ paid[c]
  /\ paid' = [paid EXCEPT ![c] = FALSE]
  /\ UNCHANGED <<intent, expired, account, binding, callback, cut>>

(* A later webhook puts the payment under review.                            *)
Review(c) ==
  /\ paid[c]
  /\ pc[c] # "open"
  /\ paid' = [paid EXCEPT ![c] = FALSE]
  /\ UNCHANGED <<intent, expired, account, binding, callback, cut>>

Expire(c) ==
  /\ intent[c] \in {"pending", "exchanging"}
  /\ expired' = [expired EXCEPT ![c] = TRUE]
  /\ UNCHANGED <<paid, intent, account, binding, callback, cut>>

Free(e, s) == \A t \in Subjects \ {s} : account[t] # e

(* A visitor logs in by the ordinary door.                                   *)
GarantirUsuario(s, e) ==
  /\ Free(e, s)
  /\ account' = [account EXCEPT ![s] = e]
  /\ UNCHANGED <<intents, binding, callback, cut>>

-----------------------------------------------------------------------------
(* The activation.                                                           *)

StartAtomic(c) ==
  /\ intent[c] = "none"
  /\ paid[c]
  /\ Set(c, "pending")
  /\ UNCHANGED <<paid, expired, account, binding, callback, cut>>

(* The claim is a transaction of its own.  When its commit is answered with  *)
(* an error, complete gives up at once: the intent is in exchange, and no    *)
(* failure is recorded, for the callback has not seen the intent's id.       *)
ClaimCallback(c) ==
  /\ intent[c] = "pending"
  /\ \/ expired[c] /\ Set(c, "failed") /\ UNCHANGED <<pc, cut>>
     \/ /\ ~expired[c] /\ paid[c]
        /\ Set(c, "exchanging")
        /\ \/ Go(c, "exchange") /\ UNCHANGED cut
           \/ CutOff(c, "unheard")
  /\ UNCHANGED <<paid, expired, account, binding, principal>>

Identified(c, s) ==
  /\ Go(c, "bind")
  /\ principal' = [principal EXCEPT ![c] = s]

Exchange_KeepsClaim(c) ==
  /\ pc[c] = "exchange"
  /\ \/ \E s \in Subjects : Identified(c, s)
     \/ Go(c, "idle") /\ UNCHANGED principal
  /\ UNCHANGED <<intents, account, binding, cut>>

(* The intent is checked once more and the code exchanged, or not.           *)
Exchange(c) ==
  /\ pc[c] = "exchange"
  /\ \/ \E s \in Subjects : Identified(c, s)
     \/ Go(c, "fail") /\ UNCHANGED principal
  /\ UNCHANGED <<intents, account, binding, cut>>

Bindable(c) == paid[c] /\ intent[c] = "exchanging" /\ ~expired[c]

Taken(c, s) == binding[c] # None \/ \E d \in Cadastros : binding[d] = s

(* The first half of bindAtomic: it locks the intent, compares the e-mails   *)
(* and looks for a binding.                                                  *)
BindLook(c) ==
  /\ pc[c] = "bind"
  /\ \E e \in Emails :
       LET fits == e = EmailOf[c] /\ ~Taken(c, principal[c])
       IN  /\ Go(c, IF Bindable(c) /\ fits THEN "open" ELSE "fail")
           /\ intent' = [intent EXCEPT ![c] = IF Bindable(c) /\ ~fits THEN "failed" ELSE @]
  /\ UNCHANGED <<paid, expired, account, binding, principal, cut>>

(* The account of the identity once the transaction has looked for it, and   *)
(* inserted it if the e-mail of the registration is nobody else's.           *)
AccountFor(c, s) ==
  IF account[s] = None /\ Free(EmailOf[c], s) THEN EmailOf[c] ELSE account[s]

Conflicts_Unchecked(c, s) == FALSE

Conflicts(c, s) == \E d \in Cadastros \ {c} : binding[d] = s

(* The second half.  A commit may be answered with an error.                 *)
BindCommit(c) ==
  /\ pc[c] = "open"
  /\ LET s == principal[c]
     IN  \/ /\ AccountFor(c, s) = None
            /\ Set(c, "failed")
            /\ Go(c, "fail")
            /\ UNCHANGED <<account, binding>>
         \/ /\ AccountFor(c, s) # None
            /\ Conflicts(c, s)
            /\ Go(c, "fail")
            /\ UNCHANGED <<intent, account, binding>>
         \/ /\ AccountFor(c, s) # None
            /\ ~Conflicts(c, s)
            /\ account' = [account EXCEPT ![s] = AccountFor(c, s)]
            /\ binding' = [binding EXCEPT ![c] = s]
            /\ Set(c, "bound")
            /\ \E place \in {"idle", "fail"} : Go(c, place)
  /\ UNCHANGED <<paid, expired, principal, cut>>

(* The transaction is rolled back: a deadline, a lost connection.            *)
BindThrows(c) ==
  /\ pc[c] \in {"bind", "open"}
  /\ Go(c, "fail")
  /\ UNCHANGED <<intents, account, binding, principal, cut>>

FailAtomic_AnyState(c) ==
  /\ pc[c] = "fail"
  /\ Set(c, "failed")
  /\ Go(c, "idle")
  /\ UNCHANGED <<paid, expired, account, binding, principal, cut>>

FailAtomic(c) ==
  /\ pc[c] = "fail"
  /\ intent' = [intent EXCEPT ![c] = IF @ \in {"pending", "exchanging"} THEN "failed" ELSE @]
  /\ Go(c, "idle")
  /\ UNCHANGED <<paid, expired, account, binding, principal, cut>>

(* The process dies.                                                         *)
Die(c) ==
  /\ pc[c] # "idle"
  /\ CutOff(c, "death")
  /\ UNCHANGED <<intents, account, binding, principal>>

(* The database fails the failure: failAtomic throws and changes nothing.    *)
FailUnrecorded(c) ==
  /\ pc[c] = "fail"
  /\ CutOff(c, "unrecorded")
  /\ UNCHANGED <<intents, account, binding, principal>>

Next ==
  \/ \E c \in Cadastros :
       \/ Review(c) \/ Expire(c) \/ StartAtomic(c) \/ ClaimCallback(c)
       \/ Exchange(c) \/ BindLook(c) \/ BindCommit(c) \/ BindThrows(c)
       \/ FailAtomic(c) \/ FailUnrecorded(c) \/ Die(c)
  \/ \E s \in Subjects, e \in Emails : GarantirUsuario(s, e)

Spec == Init /\ [][Next]_vars

-----------------------------------------------------------------------------
(* A registration is bound exactly when its intent says so, to an account    *)
(* that exists and is no other registration's, whatever callbacks interleave *)
(* in bindAtomic and whatever failAtomic does after a commit that was        *)
(* answered with an error.                                                   *)
BindingsAgree ==
  /\ \A c \in Cadastros : intent[c] = "bound" <=> binding[c] # None
  /\ \A c \in Cadastros : binding[c] # None => account[binding[c]] # None
  /\ \A c, d \in Cadastros : binding[c] # None /\ binding[c] = binding[d] => c = d

(* An intent is left in exchange, which no later callback can claim, only if *)
(* its own callback was cut off: its claim was committed but answered with   *)
(* an error, its process died, or its failure could not be recorded.  Every  *)
(* other way out of complete settles the intent.                             *)
NoneStranded ==
  \A c \in Cadastros :
    intent[c] = "exchanging" /\ pc[c] = "idle" => cut[c] # "nothing"

trial ==
  [c \in Cadastros |->
     IF intent[c] \in {"pending", "exchanging"} THEN "tried" ELSE intent[c]]

Promise == INSTANCE ActivationPromise WITH owner <- binding

(* Seen from the registration, however callbacks, reviews and logins         *)
(* interleave between what bindAtomic reads and what it writes: it is bound  *)
(* once, while its payment is in order, to an identity no other registration *)
(* has; what is bound or failed stays so, whatever failAtomic does late.     *)
KeepsActivationPromise == Promise!TSpec

-----------------------------------------------------------------------------
(* The inductive invariant: a callback at work keeps its claim.              *)
ClaimsHold ==
  \A c \in Cadastros :
    /\ pc[c] \in {"exchange", "bind", "open"} => intent[c] = "exchanging"
    /\ pc[c] \in {"bind", "open"} => principal[c] \in Subjects

(* The payment's row is locked from the look to the commit.                  *)
OpenIsPaid == \A c \in Cadastros : pc[c] = "open" => paid[c]

IInv == TypeOK /\ ClaimsHold /\ BindingsAgree /\ NoneStranded
================================================================================
