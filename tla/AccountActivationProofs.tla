------------------------ MODULE AccountActivationProofs ------------------------
(***************************************************************************)
(* Proofs about AccountActivation, for any registrations, identities and   *)
(* e-mails.  Everything follows from IInv.  Most steps change one intent   *)
(* or one callback and no binding; BindCommit alone binds, and what it     *)
(* needs is that its claim still stands (ClaimsHold).                      *)
(***************************************************************************)
EXTENDS AccountActivation, TLAPS

LEMMA InitIInv == Init => IInv
  <1> SUFFICES ASSUME Init PROVE IInv  OBVIOUS
  <1> USE DEF Init
  <1>1. TypeOK        BY DEF TypeOK
  <1>2. ClaimsHold    BY DEF ClaimsHold
  <1>3. BindingsAgree BY DEF BindingsAgree
  <1>4. NoneStranded  BY DEF NoneStranded
  <1>5. QED BY <1>1, <1>2, <1>3, <1>4 DEF IInv

(* What happens outside the activation.                                      *)
LEMMA WorldIInv ==
  ASSUME IInv,
         \/ \E c \in Cadastros : Review(c) \/ Expire(c)
         \/ \E s \in Subjects, e \in Emails : GarantirUsuario(s, e)
  PROVE  IInv'
  <1>1. UNCHANGED <<intent, binding, pc, principal, cut>>
    BY DEF Review, Expire, GarantirUsuario, intents, callback
  <1>2. TypeOK'
    BY <1>1 DEF IInv, TypeOK, Review, Expire, GarantirUsuario, intents, callback
  <1>3. \A s \in Subjects : account[s] # None => account'[s] # None
    BY NoneAssumption DEF IInv, TypeOK, Review, Expire, GarantirUsuario
  <1>4. BindingsAgree'
    BY <1>1, <1>3 DEF IInv, TypeOK, BindingsAgree
  <1>5. ClaimsHold' /\ NoneStranded'
    BY <1>1 DEF IInv, ClaimsHold, NoneStranded
  <1>6. QED BY <1>2, <1>4, <1>5 DEF IInv

(* A step of one activation that binds nothing: the intent and its callback  *)
(* move together.                                                            *)
Moves(c, state, place) ==
  /\ intent' = [intent EXCEPT ![c] = state]
  /\ pc'     = [pc EXCEPT ![c] = place]

LEMMA MovesIInv ==
  ASSUME IInv, NEW c \in Cadastros,
         NEW state \in {"pending", "exchanging", "failed"},
         NEW place \in {"idle", "exchange", "bind", "open", "fail"},
         Moves(c, state, place),
         intent[c] # "bound",
         place \in {"exchange", "bind", "open"} => state = "exchanging",
         principal' \in [Cadastros -> Subjects \cup {None}],
         \A d \in Cadastros : d # c => principal'[d] = principal[d],
         place \in {"bind", "open"} => principal'[c] \in Subjects,
         state = "exchanging" => place # "idle",
         UNCHANGED <<paid, expired, account, binding, cut>>
  PROVE  IInv'
  <1> USE DEF IInv, TypeOK, Moves
  <1>1. TypeOK'        OBVIOUS
  <1>2. \A d \in Cadastros : d # c => intent'[d] = intent[d] /\ pc'[d] = pc[d]
    OBVIOUS
  <1>3. intent'[c] = state /\ pc'[c] = place
    OBVIOUS
  <1>4. ClaimsHold'    BY <1>2, <1>3 DEF ClaimsHold
  <1>5. BindingsAgree' BY <1>2, <1>3 DEF BindingsAgree
  <1>6. NoneStranded'  BY <1>2, <1>3 DEF NoneStranded
  <1>7. QED BY <1>1, <1>4, <1>5, <1>6

(* The intent alone changes, and no callback holds it.                       *)
LEMMA StartIInv ==
  ASSUME IInv, NEW c \in Cadastros, StartAtomic(c)
  PROVE  IInv'
  <1> USE DEF IInv, TypeOK, StartAtomic, Set, callback
  <1>1. TypeOK'        OBVIOUS
  <1>2. ClaimsHold'    BY DEF ClaimsHold
  <1>3. BindingsAgree' BY DEF BindingsAgree
  <1>4. NoneStranded'  BY DEF NoneStranded
  <1>5. QED BY <1>1, <1>2, <1>3, <1>4

LEMMA ClaimIInv ==
  ASSUME IInv, NEW c \in Cadastros, ClaimCallback(c)
  PROVE  IInv'
  <1> USE DEF IInv, TypeOK, ClaimCallback, Set, Go, CutOff
  <1>1. TypeOK'        OBVIOUS
  <1>2. ClaimsHold'    BY DEF ClaimsHold
  <1>3. BindingsAgree' BY DEF BindingsAgree
  <1>4. NoneStranded'  BY DEF NoneStranded
  <1>5. QED BY <1>1, <1>2, <1>3, <1>4

LEMMA ExchangeIInv ==
  ASSUME IInv, NEW c \in Cadastros, Exchange(c)
  PROVE  IInv'
  <1> USE DEF IInv, TypeOK, Exchange, Identified, Go, intents
  <1>1. TypeOK'        OBVIOUS
  <1>2. ClaimsHold'    BY DEF ClaimsHold
  <1>3. BindingsAgree' BY DEF BindingsAgree
  <1>4. NoneStranded'  BY DEF NoneStranded
  <1>5. QED BY <1>1, <1>2, <1>3, <1>4

LEMMA BindLookIInv ==
  ASSUME IInv, NEW c \in Cadastros, BindLook(c)
  PROVE  IInv'
  <1>1. PICK e \in Emails :
          LET fits == e = EmailOf[c] /\ ~Taken(c, principal[c])
          IN  /\ Go(c, IF Bindable(c) /\ fits THEN "open" ELSE "fail")
              /\ intent' = [intent EXCEPT ![c] = IF Bindable(c) /\ ~fits THEN "failed" ELSE @]
    BY DEF BindLook
  <1>2. pc[c] = "bind" /\ UNCHANGED <<paid, expired, account, binding, principal, cut>>
    BY DEF BindLook
  <1>3. intent[c] = "exchanging" /\ principal[c] \in Subjects
    BY <1>2 DEF IInv, ClaimsHold
  <1>4. PICK state \in {"exchanging", "failed"}, place \in {"open", "fail"} :
          Moves(c, state, place) /\ (place = "open" => state = "exchanging")
    BY <1>1, <1>3 DEF Moves, Go, IInv, TypeOK
  <1>5. QED BY <1>2, <1>3, <1>4, MovesIInv DEF IInv, TypeOK

LEMMA BindCommitIInv ==
  ASSUME IInv, NEW c \in Cadastros, BindCommit(c)
  PROVE  IInv'
  <1> DEFINE s == principal[c]
  <1>1. pc[c] = "open" /\ UNCHANGED <<paid, expired, principal, cut>>
    BY DEF BindCommit
  <1>2. intent[c] = "exchanging" /\ s \in Subjects /\ binding[c] = None
    BY <1>1 DEF IInv, ClaimsHold, BindingsAgree
  <1>3. CASE /\ Go(c, "fail")
             /\ UNCHANGED <<account, binding>>
             /\ Set(c, "failed") \/ UNCHANGED intent
    <2>1. PICK state \in {"exchanging", "failed"} : Moves(c, state, "fail")
      BY <1>2, <1>3 DEF Moves, Set, Go, IInv, TypeOK
    <2>2. QED BY <1>1, <1>2, <1>3, <2>1, MovesIInv DEF IInv, TypeOK
  <1>4. CASE /\ AccountFor(c, s) # None
             /\ ~Conflicts(c, s)
             /\ account' = [account EXCEPT ![s] = AccountFor(c, s)]
             /\ binding' = [binding EXCEPT ![c] = s]
             /\ Set(c, "bound")
             /\ \E place \in {"idle", "fail"} : Go(c, place)
    <2> USE <1>1, <1>2, <1>4
    <2>1. /\ intent' = [intent EXCEPT ![c] = "bound"]
          /\ binding' = [binding EXCEPT ![c] = s]
          /\ pc'[c] \in {"idle", "fail"}
          /\ \A d \in Cadastros : d # c => pc'[d] = pc[d]
      BY DEF Set, Go, IInv, TypeOK
    <2>2. AccountFor(c, s) \in Emails
      BY EmailAssumption DEF AccountFor, IInv, TypeOK
    <2>3. TypeOK'
      BY <2>2 DEF Set, Go, IInv, TypeOK
    <2>4. ClaimsHold'
      BY <2>1 DEF ClaimsHold, IInv, TypeOK
    <2>5. \A t \in Subjects : account[t] # None \/ t = s => account'[t] # None
      BY <2>2 DEF IInv, TypeOK
    <2>6. BindingsAgree'
      <3>1. \A d \in Cadastros : d # c => binding[d] # s
        BY DEF Conflicts
      <3>2. s # None
        BY NoneAssumption
      <3>3. \A d \in Cadastros : d # c => binding'[d] = binding[d] /\ intent'[d] = intent[d]
        BY <2>1 DEF IInv, TypeOK
      <3>4. binding'[c] = s /\ intent'[c] = "bound"
        BY <2>1 DEF IInv, TypeOK
      <3>5. QED BY <2>5, <3>1, <3>2, <3>3, <3>4 DEF IInv, TypeOK, BindingsAgree
    <2>7. NoneStranded'
      BY <2>1 DEF IInv, TypeOK, NoneStranded
    <2>8. QED BY <2>3, <2>4, <2>6, <2>7 DEF IInv
  <1>5. QED BY <1>3, <1>4 DEF BindCommit

(* The ways out of a callback: a rollback, a failure recorded or not, a death. *)
LEMMA OutIInv ==
  ASSUME IInv, NEW c \in Cadastros,
         BindThrows(c) \/ FailAtomic(c) \/ FailUnrecorded(c) \/ Die(c)
  PROVE  IInv'
  <1>1. UNCHANGED <<paid, expired, account, binding, principal>> /\ pc[c] # "idle"
    BY DEF BindThrows, FailAtomic, FailUnrecorded, Die, intents
  <1>2. /\ pc' = [pc EXCEPT ![c] = pc'[c]]
        /\ pc'[c] \in {"idle", "fail"}
        /\ \A d \in Cadastros : d # c => pc'[d] = pc[d] /\ intent'[d] = intent[d]
    BY DEF BindThrows, FailAtomic, FailUnrecorded, Die, CutOff, Go, intents, IInv, TypeOK
  <1>3. /\ intent'[c] \in {intent[c], "failed"}
        /\ intent' = [intent EXCEPT ![c] = intent'[c]]
        /\ intent[c] = "bound" <=> intent'[c] = "bound"
    BY DEF BindThrows, FailAtomic, FailUnrecorded, Die, intents, IInv, TypeOK
  <1>4. /\ cut' \in [Cadastros -> {"nothing", "unheard", "death", "unrecorded"}]
        /\ \A d \in Cadastros : cut[d] # "nothing" => cut'[d] # "nothing"
    BY DEF BindThrows, FailAtomic, FailUnrecorded, Die, CutOff, IInv, TypeOK
  <1>5. intent'[c] = "exchanging" => pc'[c] # "idle" \/ cut'[c] # "nothing"
    BY DEF BindThrows, FailAtomic, FailUnrecorded, Die, CutOff, Go, IInv, TypeOK
  <1>6. TypeOK'
    <2>1. pc' \in [Cadastros -> {"idle", "exchange", "bind", "open", "fail"}]
      BY <1>2 DEF IInv, TypeOK
    <2>2. intent' \in [Cadastros -> {"none", "pending", "exchanging", "bound", "failed"}]
      BY <1>3 DEF IInv, TypeOK
    <2>3. QED BY <1>1, <1>4, <2>1, <2>2 DEF IInv, TypeOK
  <1>7. ClaimsHold'    BY <1>1, <1>2 DEF IInv, ClaimsHold
  <1>8. BindingsAgree' BY <1>1, <1>2, <1>3 DEF IInv, BindingsAgree
  <1>9. NoneStranded'  BY <1>2, <1>4, <1>5 DEF IInv, NoneStranded
  <1>10. QED BY <1>6, <1>7, <1>8, <1>9 DEF IInv

LEMMA NextIInv == IInv /\ [Next]_vars => IInv'
  <1> SUFFICES ASSUME IInv, [Next]_vars PROVE IInv'  OBVIOUS
  <1>1. CASE Next
    BY <1>1, WorldIInv, StartIInv, ClaimIInv, ExchangeIInv, BindLookIInv, BindCommitIInv, OutIInv
    DEF Next
  <1>2. CASE UNCHANGED vars
    BY <1>2
    DEF vars, intents, callback, IInv, TypeOK, ClaimsHold, BindingsAgree, NoneStranded
  <1>3. QED BY <1>1, <1>2

(* Types are kept, and the inductive invariant with them.                    *)
THEOREM InductiveInvariant == Spec => []IInv
  <1>1. QED BY InitIInv, NextIInv, PTL DEF Spec

(* The state of the activation, in the database and in the callbacks, is     *)
(* well formed at every step.                                                *)
THEOREM TypeCorrect == Spec => []TypeOK
  <1>1. IInv => TypeOK  BY DEF IInv
  <1>2. QED BY <1>1, InductiveInvariant, PTL

(* A registration is bound exactly when its intent says so, to an existing   *)
(* account that is no other registration's.                                  *)
THEOREM BindingsAlwaysAgree == Spec => []BindingsAgree
  <1>1. IInv => BindingsAgree  BY DEF IInv
  <1>2. QED BY <1>1, InductiveInvariant, PTL

(* Only a claim whose commit was answered with an error, a death or a        *)
(* failure that could not be recorded, of the intent's own callback, leaves  *)
(* it in exchange with nobody at work on it.                                 *)
THEOREM NoIntentStranded == Spec => []NoneStranded
  <1>1. IInv => NoneStranded  BY DEF IInv
  <1>2. QED BY <1>1, InductiveInvariant, PTL

-----------------------------------------------------------------------------
(* The activation implements ActivationPromise.                              *)

LEMMA InitPromise == Init => OpenIsPaid /\ Promise!TInit
  <1> SUFFICES ASSUME Init PROVE OpenIsPaid /\ Promise!TInit  OBVIOUS
  <1>1. OpenIsPaid /\ trial = [c \in Cadastros |-> "none"]
    BY DEF Init, OpenIsPaid, trial
  <1>2. QED BY <1>1 DEF Init, Promise!TInit

(* Nothing takes a payment out of order under a transaction that is open.    *)
LEMMA NextOpenIsPaid ==
  ASSUME IInv, OpenIsPaid, [Next]_vars
  PROVE  OpenIsPaid'
  <1>1. CASE UNCHANGED vars
    BY <1>1 DEF vars, intents, callback, OpenIsPaid
  <1>2. ASSUME NEW c \in Cadastros, Review(c) PROVE OpenIsPaid'
    BY <1>2 DEF Review, callback, IInv, TypeOK, OpenIsPaid
  <1>3. ASSUME NEW c \in Cadastros, BindLook(c) PROVE OpenIsPaid'
    <2>1. paid' = paid /\ \A d \in Cadastros : d # c => pc'[d] = pc[d]
      BY <1>3 DEF BindLook, Go, IInv, TypeOK
    <2>2. pc'[c] = "open" => paid[c]
      BY <1>3 DEF BindLook, Go, Bindable, IInv, TypeOK
    <2>3. QED BY <2>1, <2>2 DEF OpenIsPaid
  <1>4. ASSUME NEW c \in Cadastros,
               \/ ClaimCallback(c) \/ Exchange(c) \/ BindCommit(c) \/ BindThrows(c)
               \/ FailAtomic(c) \/ FailUnrecorded(c) \/ Die(c)
        PROVE  OpenIsPaid'
    <2>1. paid' = paid
      BY <1>4 DEF ClaimCallback, Exchange, BindCommit, BindThrows, FailAtomic,
                  FailUnrecorded, Die, intents
    <2>2. \/ pc' = pc
          \/ pc' = [pc EXCEPT ![c] = "exchange"] \/ pc' = [pc EXCEPT ![c] = "bind"]
          \/ pc' = [pc EXCEPT ![c] = "fail"] \/ pc' = [pc EXCEPT ![c] = "idle"]
      BY <1>4 DEF ClaimCallback, Exchange, Identified, BindCommit, BindThrows, FailAtomic,
                  FailUnrecorded, Die, CutOff, Go
    <2>3. \A d \in Cadastros : pc'[d] = "open" => pc[d] = "open"
      BY <2>2 DEF IInv, TypeOK
    <2>4. QED BY <2>1, <2>3 DEF OpenIsPaid
  <1>5. ASSUME NEW c \in Cadastros, Expire(c) \/ StartAtomic(c) PROVE OpenIsPaid'
    BY <1>5 DEF Expire, StartAtomic, callback, OpenIsPaid
  <1>6. ASSUME NEW s \in Subjects, NEW e \in Emails, GarantirUsuario(s, e) PROVE OpenIsPaid'
    BY <1>6 DEF GarantirUsuario, intents, callback, OpenIsPaid
  <1>7. QED BY <1>1, <1>2, <1>3, <1>4, <1>5, <1>6 DEF Next

(* How the state of an intent shows.                                         *)
LEMMA TrialSteps ==
  ASSUME TypeOK, NEW c \in Cadastros, NEW s, intent' = [intent EXCEPT ![c] = s]
  PROVE  trial' = [trial EXCEPT ![c] = IF s \in {"pending", "exchanging"} THEN "tried" ELSE s]
  <1>1. intent'[c] = s /\ \A d \in Cadastros : d # c => intent'[d] = intent[d]
    BY DEF TypeOK
  <1>2. /\ trial'[c] = (IF s \in {"pending", "exchanging"} THEN "tried" ELSE s)
        /\ \A d \in Cadastros : d # c => trial'[d] = trial[d]
    BY <1>1 DEF trial
  <1>3. trial = [d \in Cadastros |-> trial[d]] /\ trial' = [d \in Cadastros |-> trial'[d]]
    BY DEF trial
  <1>4. QED BY <1>2, <1>3

(* Whatever takes an intent from being tried to its failure.                 *)
LEMMA FailsPromise ==
  ASSUME TypeOK, NEW c \in Cadastros, intent[c] \in {"pending", "exchanging"},
         intent' = [intent EXCEPT ![c] = "failed"], UNCHANGED <<paid, binding, account>>
  PROVE  Promise!TNext
  <1>1. trial' = [trial EXCEPT ![c] = "failed"]
    BY TrialSteps
  <1>2. trial[c] = "tried"
    BY DEF trial
  <1>3. QED BY <1>1, <1>2 DEF Promise!Fail, Promise!TNext

LEMMA CommitKeepsPromise ==
  ASSUME IInv, OpenIsPaid, NEW c \in Cadastros, BindCommit(c)
  PROVE  [Promise!TNext]_Promise!tvars
  <1>1. /\ pc[c] = "open" /\ intent[c] = "exchanging" /\ paid[c] /\ paid' = paid
        /\ binding[c] = None
    BY DEF BindCommit, IInv, ClaimsHold, BindingsAgree, OpenIsPaid
  <1>2. PICK s \in Subjects : s = principal[c]
    BY <1>1 DEF IInv, ClaimsHold
  <1>3. CASE Set(c, "failed") /\ UNCHANGED <<account, binding>>
    BY <1>1, <1>3, FailsPromise DEF Set, IInv
  <1>4. CASE UNCHANGED <<intent, account, binding>>
    BY <1>1, <1>4 DEF trial, Promise!tvars
  <1>5. CASE /\ AccountFor(c, s) # None /\ ~Conflicts(c, s)
             /\ account' = [account EXCEPT ![s] = AccountFor(c, s)]
             /\ binding' = [binding EXCEPT ![c] = s]
             /\ Set(c, "bound")
    <2>1. trial[c] = "tried" /\ trial' = [trial EXCEPT ![c] = "bound"]
      BY <1>1, <1>5, TrialSteps DEF Set, trial, IInv
    <2>2. \A d \in Cadastros : binding[d] # s
      BY <1>1, <1>2, <1>5, NoneAssumption DEF Conflicts
    <2>3. \/ account[s] # None /\ account' = account
          \/ /\ account[s] = None /\ Promise!MayHave(s, EmailOf[c])
             /\ account' = [account EXCEPT ![s] = EmailOf[c]]
      BY <1>5 DEF AccountFor, Free, Promise!MayHave, IInv, TypeOK
    <2>4. Promise!Bind(c, s)
      BY <1>1, <1>5, <2>1, <2>2, <2>3 DEF Promise!Bind
    <2>5. QED BY <2>4 DEF Promise!TNext
  <1>6. QED BY <1>2, <1>3, <1>4, <1>5 DEF BindCommit

(* Every step of the activation is a step of the promise, or one it does not *)
(* know of.                                                                  *)
THEOREM StepKeepsActivationPromise ==
  ASSUME IInv, OpenIsPaid, [Next]_vars
  PROVE  [Promise!TNext]_Promise!tvars
  <1>0. TypeOK
    BY DEF IInv
  <1>1. ASSUME UNCHANGED <<paid, intent, account, binding>>
        PROVE  [Promise!TNext]_Promise!tvars
    BY <1>1 DEF trial, Promise!tvars
  <1>2. ASSUME NEW c \in Cadastros, Review(c)
        PROVE  [Promise!TNext]_Promise!tvars
    <2>1. Promise!Suspend(c)
      BY <1>2 DEF Review, trial, Promise!Suspend
    <2>2. QED BY <2>1 DEF Promise!TNext
  <1>3. ASSUME NEW c \in Cadastros, StartAtomic(c)
        PROVE  [Promise!TNext]_Promise!tvars
    <2>1. trial[c] = "none" /\ trial' = [trial EXCEPT ![c] = "tried"]
      BY <1>0, <1>3, TrialSteps DEF StartAtomic, Set, trial
    <2>2. Promise!Try(c)
      BY <1>3, <2>1 DEF StartAtomic, Promise!Try
    <2>3. QED BY <2>2 DEF Promise!TNext
  <1>4. ASSUME NEW c \in Cadastros, ClaimCallback(c)
        PROVE  [Promise!TNext]_Promise!tvars
    <2>1. intent[c] = "pending" /\ UNCHANGED <<paid, account, binding>>
      BY <1>4 DEF ClaimCallback
    <2>2. CASE Set(c, "failed")
      BY <1>0, <2>1, <2>2, FailsPromise DEF Set
    <2>3. CASE Set(c, "exchanging")
      <3>1. trial[c] = "tried" /\ trial' = [trial EXCEPT ![c] = "tried"]
        BY <1>0, <2>1, <2>3, TrialSteps DEF Set, trial
      <3>2. trial' = trial
        BY <3>1 DEF trial
      <3>3. QED BY <2>1, <3>2 DEF Promise!tvars
    <2>4. QED BY <1>4, <2>2, <2>3 DEF ClaimCallback
  <1>5. ASSUME NEW c \in Cadastros, BindLook(c) \/ FailAtomic(c)
        PROVE  [Promise!TNext]_Promise!tvars
    <2>1. /\ UNCHANGED <<paid, account, binding>>
          /\ \/ intent' = [intent EXCEPT ![c] = intent[c]]
             \/ /\ intent[c] \in {"pending", "exchanging"}
                /\ intent' = [intent EXCEPT ![c] = "failed"]
      BY <1>5 DEF BindLook, Bindable, FailAtomic
    <2>2. CASE intent' = [intent EXCEPT ![c] = intent[c]]
      BY <1>0, <1>1, <2>1, <2>2 DEF TypeOK
    <2>3. QED BY <1>0, <2>1, <2>2, FailsPromise
  <1>6. ASSUME NEW c \in Cadastros, BindCommit(c)
        PROVE  [Promise!TNext]_Promise!tvars
    BY <1>6, CommitKeepsPromise
  <1>7. ASSUME NEW s \in Subjects, NEW e \in Emails, GarantirUsuario(s, e)
        PROVE  [Promise!TNext]_Promise!tvars
    <2>1. Promise!Enter(s, e)
      BY <1>7 DEF GarantirUsuario, Free, intents, trial, Promise!MayHave, Promise!Enter
    <2>2. QED BY <2>1 DEF Promise!TNext
  <1>8. ASSUME NEW c \in Cadastros,
               Expire(c) \/ Exchange(c) \/ BindThrows(c) \/ FailUnrecorded(c) \/ Die(c)
        PROVE  [Promise!TNext]_Promise!tvars
    BY <1>1, <1>8 DEF Expire, Exchange, BindThrows, FailUnrecorded, Die, intents
  <1>9. CASE UNCHANGED vars
    BY <1>1, <1>9 DEF vars, intents
  <1>10. QED BY <1>2, <1>3, <1>4, <1>5, <1>6, <1>7, <1>8, <1>9 DEF Next

(* Callbacks, rivals, reviews and logins may interleave as they like: each   *)
(* registration is bound once, while its payment is in order, to an identity *)
(* of its own, or fails, and no two accounts come to share an e-mail.        *)
THEOREM ActivationKeepsPromise == Spec => KeepsActivationPromise
  <1>1. Init => OpenIsPaid /\ Promise!TInit
    BY InitPromise
  <1>2. IInv /\ OpenIsPaid /\ [Next]_vars => OpenIsPaid'
    BY NextOpenIsPaid
  <1>3. IInv /\ OpenIsPaid /\ [Next]_vars => [Promise!TNext]_Promise!tvars
    BY StepKeepsActivationPromise
  <1>4. QED
    BY <1>1, <1>2, <1>3, InductiveInvariant, PTL
    DEF Spec, KeepsActivationPromise, Promise!TSpec
================================================================================
