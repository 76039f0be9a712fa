-------------------------- MODULE AlertDeliveryProofs --------------------------
(***************************************************************************)
(* Proofs about AlertDelivery, for any alerts, lots, devices, windows and  *)
(* any number of executions that overlap.  That a subscriber hears of a    *)
(* lot once follows from ToldInv: a hit is of the execution that inserted  *)
(* it (HitsOwned), which tells it from a state in which it has not been    *)
(* told (CopiesCounted).  That it implements NoticePromise follows from    *)
(* NoticeInv: what was left out or given up is out of reach (FatesKept).   *)
(***************************************************************************)
EXTENDS AlertDelivery, TLAPS

Subscription == [owner : Owners, failures : Nat]

LEMMA AbsentIsNothing ==
  /\ Absent \notin Nat /\ Absent \notin Alerts /\ Absent \notin Owners
  /\ Absent \notin Subscription
  <1>1. QED BY AbsentAssumption DEF Subscription

LEMMA InitTypeOK == Init => TypeOK
  <1> SUFFICES ASSUME Init PROVE TypeOK  OBVIOUS
  <1>1. device \in [Devices -> [owner : Owners, failures : Nat] \cup {Absent}]
    <2>1. [owner : Owners, failures : {0}] \subseteq [owner : Owners, failures : Nat]
      OBVIOUS
    <2>2. QED BY <2>1 DEF Init
  <1>2. QED BY <1>1, LimitAssumption DEF Init, TypeOK, Places

LEMMA WorldType ==
  ASSUME TypeOK, Tick \/ \E d \in Devices, o \in Owners : Subscribe(d, o)
  PROVE  TypeOK'
  <1>1. CASE Tick
    BY <1>1, LimitAssumption DEF Tick, TypeOK, rows, work, notice, history
  <1>2. ASSUME NEW d \in Devices, NEW o \in Owners, Subscribe(d, o) PROVE TypeOK'
    <2>1. [owner |-> o, failures |-> 0] \in [owner : Owners, failures : Nat]
      OBVIOUS
    <2>2. device' \in [Devices -> [owner : Owners, failures : Nat] \cup {Absent}]
      BY <1>2, <2>1 DEF Subscribe, TypeOK
    <2>3. QED BY <1>2, <2>2 DEF Subscribe, TypeOK, work, notice, history
  <1>3. QED BY <1>1, <1>2

LEMMA EvaluationType ==
  ASSUME TypeOK, NEW e \in Execs,
         \/ \E S \in SUBSET Lots, daily \in BOOLEAN : Start(e, S, daily)
         \/ AvaliarAlertas(e) \/ AplicarLimites(e) \/ Break(e)
  PROVE  TypeOK'
  <1>1. ASSUME NEW S \in SUBSET Lots, NEW daily \in BOOLEAN, Start(e, S, daily) PROVE TypeOK'
    BY <1>1 DEF Start, Go, TypeOK, Places, rows, notice, history
  <1>2. ASSUME NEW a \in Alerts, Evaluate(e, a) PROVE TypeOK'
    <2>1. PICK found \in SUBSET novos[e] :
            /\ fired'   = [fired EXCEPT ![e] = @ \cup Fires(e, a, found)]
            /\ created' = [h \in Hits |-> IF h \in Fires(e, a, found) THEN now ELSE created[h]]
      BY <1>2 DEF Evaluate
    <2>2. Fires(e, a, found) \subseteq Hits
      BY DEF Fires, Hits, TypeOK
    <2>3. fired' \in [Execs -> SUBSET Hits] /\ created' \in [Hits -> (0..MaxTime) \cup {Absent}]
      BY <2>1, <2>2 DEF TypeOK
    <2>4. QED BY <1>2, <2>3 DEF Evaluate, TypeOK, notice, history
  <1>3. CASE Evaluated(e)
    <2>1. Asked(e) \subseteq Alerts \X Channels
      BY DEF Asked
    <2>2. QED BY <1>3, <2>1 DEF Evaluated, Go, TypeOK, Places, rows, notice, history
  <1>4. ASSUME NEW a \in Alerts, NEW ch \in Channels, Ask(e, a, ch) PROVE TypeOK'
    <2>1. Of(e, a) \subseteq Hits /\ <<a, ch>> \in Alerts \X Channels
      BY DEF Of, TypeOK
    <2>2. /\ asking' = [asking EXCEPT ![e] = asking[e] \ {<<a, ch>>}]
          /\ asking \in [Execs -> SUBSET (Alerts \X Channels)]
          /\ shut \in [Execs -> SUBSET (Alerts \X Channels)]
          /\ deferred \in [Channels -> SUBSET Hits]
      BY <1>4 DEF Ask, TypeOK
    <2>3. \/ UNCHANGED <<shut, deferred>>
          \/ /\ shut' = [shut EXCEPT ![e] = shut[e] \cup {<<a, ch>>}]
             /\ deferred' = [deferred EXCEPT ![ch] = deferred[ch] \cup Of(e, a)]
      BY <1>4 DEF Ask
    <2>4. asking' \in [Execs -> SUBSET (Alerts \X Channels)]
      BY <2>2
    <2>5. shut' \in [Execs -> SUBSET (Alerts \X Channels)]
      BY <2>1, <2>2, <2>3
    <2>6. deferred' \in [Channels -> SUBSET Hits]
      BY <2>1, <2>2, <2>3
    <2>7. QED BY <1>4, <2>4, <2>5, <2>6 DEF Ask, TypeOK, rows, notice
  <1>5. CASE Break(e)
    BY <1>5 DEF Break, Go, TypeOK, Places, rows, work, notice, history
  <1>6. QED BY <1>1, <1>2, <1>3, <1>4, <1>5 DEF AvaliarAlertas, AplicarLimites

LEMMA TellsType ==
  ASSUME TypeOK, NEW ch \in Channels, NEW S, Tells(ch, S)
  PROVE  copies' \in [Channels -> [Hits -> Nat]]
  <1>1. QED BY DEF Tells, TypeOK

LEMMA GivesUpType ==
  ASSUME TypeOK, NEW ch \in Channels, NEW S \in SUBSET Hits, GivesUp(ch, S)
  PROVE  givenUp' \in [Channels -> SUBSET Hits]
  <1>1. QED BY DEF GivesUp, TypeOK

LEMMA PushType ==
  ASSUME TypeOK, NEW e \in Execs, EnviarPush(e)
  PROVE  TypeOK'
  <1> USE DEF Channels
  <1>0. \A a \in Alerts \cup {Absent} : Of(e, a) \in SUBSET Hits
    BY DEF Of, TypeOK
  <1>1. CASE List(e)
    <2>1. [d \in Devices |-> IF device[d] # Absent /\ device[d].failures < FailureLimit
                             THEN device[d].owner ELSE Absent] \in [Devices -> Owners \cup {Absent}]
      BY DEF TypeOK
    <2>2. Open(e, "push") \subseteq Alerts
      BY DEF Open
    <2>3. QED BY <1>1, <2>1, <2>2 DEF List, Go, TypeOK, Places, rows, notice, history
  <1>2. ASSUME NEW a \in Alerts, BeginPush(e, a) PROVE TypeOK'
    <2>1. givenUp' \in [Channels -> SUBSET Hits]
      BY <1>0, <1>2, GivesUpType DEF BeginPush
    <2>2. QED BY <1>2, <2>1 DEF BeginPush, TypeOK, rows
  <1>3. ASSUME NEW d \in Devices, Push(e, d) PROVE TypeOK'
    <2>1. copies' \in [Channels -> [Hits -> Nat]]
      BY <1>3, TellsType DEF Push, TypeOK
    <2>2. QED BY <1>3, <2>1 DEF Push, Sent, TypeOK, work
  <1>4. ASSUME NEW d \in Devices, PushGone(e, d) \/ PushFails(e, d) PROVE TypeOK'
    <2>1. device' \in [Devices -> Subscription \cup {Absent}]
      <3>1. device \in [Devices -> Subscription \cup {Absent}]
        BY DEF Subscription, TypeOK
      <3>2. CASE PushGone(e, d)
        BY <3>1, <3>2 DEF PushGone
      <3>3. CASE PushFails(e, d)
        <4>1. device' = [device EXCEPT ![d] =
                IF device[d] = Absent THEN Absent
                ELSE [owner |-> device[d].owner, failures |-> device[d].failures + 1]]
          BY <3>3 DEF PushFails, IncrementarFalhas
        <4>2. device[d] # Absent =>
                [owner |-> device[d].owner, failures |-> device[d].failures + 1] \in Subscription
          BY <3>1 DEF Subscription
        <4>3. QED BY <3>1, <4>1, <4>2
      <3>4. QED BY <1>4, <3>2, <3>3
    <2>2. device' \in [Devices -> [owner : Owners, failures : Nat] \cup {Absent}]
      BY <2>1 DEF Subscription
    <2>3. left' = [left EXCEPT ![e] = left[e] \ {d}] /\ left \in [Execs -> SUBSET Devices]
      BY <1>4 DEF PushGone, PushFails, Sent, TypeOK
    <2>4. left' \in [Execs -> SUBSET Devices]
      BY <2>3
    <2>5. QED BY <1>4, <2>2, <2>4 DEF PushGone, PushFails, Sent, TypeOK, work
  <1>5. CASE EndPush(e)
    <2>1. alert[e] \in Alerts
      BY <1>5 DEF EndPush, TypeOK
    <2>2. givenUp' \in [Channels -> SUBSET Hits]
      BY <1>0, <1>5, <2>1, GivesUpType DEF EndPush, TypeOK
    <2>3. /\ unmarked \in [Execs -> SUBSET Hits] /\ Of(e, alert[e]) \in SUBSET Hits
          /\ alert \in [Execs -> Alerts \cup {Absent}] /\ reached \in [Execs -> BOOLEAN]
      BY <1>0, <2>1 DEF TypeOK
    <2>4. /\ reached' = [reached EXCEPT ![e] = FALSE]
          /\ \/ UNCHANGED unmarked
             \/ unmarked' = [unmarked EXCEPT ![e] = Of(e, alert[e])]
          /\ \/ UNCHANGED alert
             \/ alert' = [alert EXCEPT ![e] = Absent]
      BY <1>5 DEF EndPush
    <2>5. unmarked' \in [Execs -> SUBSET Hits]
      BY <2>3, <2>4
    <2>6. alert' \in [Execs -> Alerts \cup {Absent}] /\ reached' \in [Execs -> BOOLEAN]
      BY <2>3, <2>4
    <2>7. QED BY <1>5, <2>2, <2>5, <2>6 DEF EndPush, TypeOK, rows, work
  <1>6. CASE Pushed(e)
    <2>1. Open(e, "email") \subseteq Alerts
      BY DEF Open
    <2>2. QED BY <1>6, <2>1 DEF Pushed, Go, TypeOK, Places, rows, notice, history
  <1>7. QED BY <1>1, <1>2, <1>3, <1>4, <1>5, <1>6 DEF EnviarPush

LEMMA EmailType ==
  ASSUME TypeOK, NEW e \in Execs, EnviarEmail(e) \/ \E h \in Hits : Mark(e, h)
  PROVE  TypeOK'
  <1> USE DEF Channels
  <1>0. \A a \in Alerts : Of(e, a) \in SUBSET Hits
    BY DEF Of, TypeOK
  <1>1. ASSUME NEW a \in Alerts, Mail(e, a) PROVE TypeOK'
    <2>1. copies' \in [Channels -> [Hits -> Nat]]
      BY <1>1, TellsType DEF Mail
    <2>2. QED BY <1>0, <1>1, <2>1 DEF Mail, MailOf, TypeOK, rows
  <1>2. ASSUME NEW a \in Alerts, MailFails(e, a) PROVE TypeOK'
    <2>1. copies' \in [Channels -> [Hits -> Nat]]
      BY <1>2, TellsType DEF MailFails, TypeOK
    <2>2. givenUp' \in [Channels -> SUBSET Hits]
      BY <1>0, <1>2, GivesUpType DEF MailFails
    <2>3. QED BY <1>2, <2>1, <2>2 DEF MailFails, MailOf, TypeOK, rows
  <1>3. CASE MailMarkFails(e)
    <2>1. givenUp' \in [Channels -> SUBSET Hits]
      BY <1>3, GivesUpType DEF MailMarkFails, TypeOK
    <2>2. QED BY <1>3, <2>1 DEF MailMarkFails, TypeOK, rows, work
  <1>4. CASE Mailed(e)
    BY <1>4 DEF Mailed, Go, TypeOK, Places, rows, work, notice, history
  <1>5. ASSUME NEW h \in Hits, Mark(e, h) PROVE TypeOK'
    BY <1>5 DEF Mark, TypeOK, work, history
  <1>6. QED BY <1>1, <1>2, <1>3, <1>4, <1>5 DEF EnviarEmail

LEMMA NextTypeOK == TypeOK /\ [Next]_vars => TypeOK'
  <1> SUFFICES ASSUME TypeOK, [Next]_vars PROVE TypeOK'  OBVIOUS
  <1>1. CASE UNCHANGED vars
    BY <1>1 DEF vars, rows, work, notice, history, TypeOK
  <1>2. QED BY <1>1, WorldType, EvaluationType, PushType, EmailType DEF Next, ProcessarAposColeta

-----------------------------------------------------------------------------
(* What the executions and their hits are made of, without the rest.         *)
WorkTypeOK ==
  /\ pc       \in [Execs -> Places]
  /\ todo     \in [Execs -> SUBSET Alerts]
  /\ fired    \in [Execs -> SUBSET Hits]
  /\ shut     \in [Execs -> SUBSET (Alerts \X Channels)]
  /\ alert    \in [Execs -> Alerts \cup {Absent}]
  /\ left     \in [Execs -> SUBSET Devices]
  /\ reached  \in [Execs -> BOOLEAN]
  /\ unmarked \in [Execs -> SUBSET Hits]

LEMMA WorkTyped == TypeOK => WorkTypeOK
  <1>1. QED BY DEF TypeOK, WorkTypeOK

(* A step of one execution leaves the others as they are.                    *)
Others(e) ==
  \A f \in Execs \ {e} :
    /\ pc'[f] = pc[f] /\ todo'[f] = todo[f] /\ fired'[f] = fired[f] /\ shut'[f] = shut[f]
    /\ alert'[f] = alert[f] /\ left'[f] = left[f] /\ reached'[f] = reached[f]
    /\ unmarked'[f] = unmarked[f]

LEMMA OthersStay ==
  ASSUME WorkTypeOK, NEW e \in Execs, ProcessarAposColeta(e)
  PROVE  Others(e)
  <1> USE DEF WorkTypeOK, Others, Go, work, notice
  <1>1. CASE \E S \in SUBSET Lots, daily \in BOOLEAN : Start(e, S, daily)
    BY <1>1 DEF Start
  <1>2. CASE AvaliarAlertas(e)
    BY <1>2 DEF AvaliarAlertas, Evaluated, Evaluate
  <1>3. CASE AplicarLimites(e)
    BY <1>3 DEF AplicarLimites, Ask
  <1>4. CASE List(e) \/ Pushed(e) \/ EndPush(e)
    BY <1>4 DEF List, Pushed, EndPush
  <1>5. CASE \E a \in Alerts : BeginPush(e, a)
    BY <1>5 DEF BeginPush
  <1>6. CASE \E d \in Devices : Push(e, d) \/ PushGone(e, d) \/ PushFails(e, d)
    BY <1>6 DEF Push, PushGone, PushFails, Sent
  <1>7. CASE EnviarEmail(e)
    BY <1>7 DEF EnviarEmail, MailMarkFails, Mailed, Mail, MailFails, MailOf
  <1>8. CASE (\E h \in Hits : Mark(e, h)) \/ Break(e)
    BY <1>8 DEF Mark, Break
  <1>9. QED
    BY <1>1, <1>2, <1>3, <1>4, <1>5, <1>6, <1>7, <1>8 DEF ProcessarAposColeta, EnviarPush

LEMMA NoticeStep ==
  ASSUME WorkTypeOK, NoticeShape, NEW e \in Execs, ProcessarAposColeta(e)
  PROVE  NoticeShape'
  <1> DEFINE Shape(f) ==
        /\ pc[f] \in {"idle", "evaluating", "limiting"} => alert[f] = Absent
        /\ alert[f] = Absent => left[f] = {} /\ unmarked[f] = {} /\ ~reached[f]
        /\ left[f] # {} \/ reached[f] => unmarked[f] = {}
        /\ pc[f] = "email" => left[f] = {} /\ ~reached[f]
        /\ pc[f] \in Channels => alert[f] \notin todo[f]
  <1>1. Shape(e)
    BY DEF NoticeShape
  <1>2. \A f \in Execs \ {e} : Shape(f)'
    BY OthersStay DEF Others, NoticeShape
  <1>3. Shape(e)'
    <2> USE <1>1, AbsentIsNothing DEF WorkTypeOK, Go, work, notice, Channels
    <2>1. CASE \E S \in SUBSET Lots, daily \in BOOLEAN : Start(e, S, daily)
      BY <2>1 DEF Start
    <2>2. CASE AvaliarAlertas(e)
      BY <2>2 DEF AvaliarAlertas, Evaluated, Evaluate
    <2>3. CASE AplicarLimites(e)
      BY <2>3 DEF AplicarLimites, Ask
    <2>4. CASE List(e)
      BY <2>4 DEF List, Open
    <2>5. CASE Pushed(e)
      BY <2>5 DEF Pushed, Open
    <2>6. CASE EndPush(e)
      BY <2>6 DEF EndPush
    <2>7. ASSUME NEW a \in Alerts, BeginPush(e, a) PROVE Shape(e)'
      BY <2>7 DEF BeginPush
    <2>8. ASSUME NEW d \in Devices, Push(e, d) \/ PushGone(e, d) \/ PushFails(e, d) PROVE Shape(e)'
      BY <2>8 DEF Push, PushGone, PushFails, Sent
    <2>9. ASSUME NEW a \in Alerts, Mail(e, a) \/ MailFails(e, a) PROVE Shape(e)'
      BY <2>9 DEF Mail, MailFails, MailOf
    <2>10. CASE MailMarkFails(e) \/ Mailed(e)
      BY <2>10 DEF MailMarkFails, Mailed
    <2>11. ASSUME NEW h \in Hits, Mark(e, h) PROVE Shape(e)'
      BY <2>11 DEF Mark
    <2>12. CASE Break(e)
      BY <2>12 DEF Break
    <2>13. QED
      BY <2>1, <2>2, <2>3, <2>4, <2>5, <2>6, <2>7, <2>8, <2>9, <2>10, <2>11, <2>12
      DEF ProcessarAposColeta, EnviarPush, EnviarEmail
  <1>4. QED BY <1>2, <1>3 DEF NoticeShape

(* Only an evaluation inserts hits.                                          *)
LEMMA HitsKept ==
  ASSUME NEW e \in Execs, ProcessarAposColeta(e), \A a \in Alerts : ~Evaluate(e, a)
  PROVE  UNCHANGED <<fired, created>>
  <1> USE DEF rows, work
  <1>1. CASE (\E S \in SUBSET Lots, daily \in BOOLEAN : Start(e, S, daily)) \/ Evaluated(e) \/ AplicarLimites(e)
    BY <1>1 DEF Start, Evaluated, AplicarLimites, Ask
  <1>2. CASE EnviarPush(e)
    BY <1>2 DEF EnviarPush, List, Pushed, EndPush, BeginPush, Push, PushGone, PushFails, Sent
  <1>3. CASE EnviarEmail(e)
    BY <1>3 DEF EnviarEmail, MailMarkFails, Mailed, Mail, MailFails, MailOf
  <1>4. CASE (\E h \in Hits : Mark(e, h)) \/ Break(e)
    BY <1>4 DEF Mark, Break
  <1>5. QED BY <1>1, <1>2, <1>3, <1>4 DEF ProcessarAposColeta, AvaliarAlertas

(* No step leads back to where an execution has not begun.                   *)
LEMMA NoneBeginsAgain ==
  ASSUME WorkTypeOK, NEW e \in Execs, ProcessarAposColeta(e)
  PROVE  pc'[e] # "idle"
  <1> USE DEF WorkTypeOK, Go, work, Channels
  <1>1. CASE (\E S \in SUBSET Lots, daily \in BOOLEAN : Start(e, S, daily)) \/ AvaliarAlertas(e) \/ AplicarLimites(e)
    BY <1>1 DEF Start, AvaliarAlertas, Evaluated, Evaluate, AplicarLimites, Ask
  <1>2. CASE EnviarPush(e)
    BY <1>2 DEF EnviarPush, List, Pushed, EndPush, BeginPush, Push, PushGone, PushFails, Sent
  <1>3. CASE EnviarEmail(e)
    BY <1>3 DEF EnviarEmail, MailMarkFails, Mailed, Mail, MailFails, MailOf
  <1>4. CASE (\E h \in Hits : Mark(e, h)) \/ Break(e)
    BY <1>4 DEF Mark, Break
  <1>5. QED BY <1>1, <1>2, <1>3, <1>4 DEF ProcessarAposColeta

(* What an evaluation inserts was nobody's.                                  *)
LEMMA EvaluateInserts ==
  ASSUME TypeOK, HitsOwned, NEW e \in Execs, NEW a \in Alerts, Evaluate(e, a)
  PROVE  \E S \in SUBSET Hits :
           /\ \A h \in S : created[h] = Absent /\ \A f \in Execs : h \notin fired[f]
           /\ fired' = [fired EXCEPT ![e] = @ \cup S]
           /\ \A h \in Hits : created'[h] = IF h \in S THEN now ELSE created[h]
           /\ now # Absent /\ now \in Nat
  <1>1. PICK found \in SUBSET novos[e] :
          /\ fired'   = [fired EXCEPT ![e] = @ \cup Fires(e, a, found)]
          /\ created' = [h \in Hits |-> IF h \in Fires(e, a, found) THEN now ELSE created[h]]
    BY DEF Evaluate
  <1>2. Fires(e, a, found) \in SUBSET Hits /\ \A h \in Fires(e, a, found) : created[h] = Absent
    BY DEF Fires, Hits, TypeOK
  <1>3. now \in Nat /\ now # Absent
    BY AbsentIsNothing, LimitAssumption DEF TypeOK
  <1>4. \A h \in Fires(e, a, found) : \A f \in Execs : h \notin fired[f]
    BY <1>2 DEF HitsOwned
  <1>5. QED BY <1>1, <1>2, <1>3, <1>4

LEMMA HitsStep ==
  ASSUME TypeOK, HitsOwned, NEW e \in Execs, ProcessarAposColeta(e)
  PROVE  HitsOwned'
  <1>1. \A f \in Execs : pc'[f] = "idle" => f # e /\ pc[f] = "idle" /\ fired'[f] = fired[f]
    BY OthersStay, NoneBeginsAgain, WorkTyped DEF Others
  <1>2. CASE UNCHANGED <<fired, created>>
    BY <1>1, <1>2 DEF HitsOwned
  <1>3. ASSUME NEW a \in Alerts, Evaluate(e, a) PROVE HitsOwned'
    <2>1. PICK S \in SUBSET Hits :
            /\ \A h \in S : created[h] = Absent /\ \A f \in Execs : h \notin fired[f]
            /\ fired' = [fired EXCEPT ![e] = @ \cup S]
            /\ \A h \in Hits : created'[h] = IF h \in S THEN now ELSE created[h]
            /\ now # Absent /\ now \in Nat
      BY <1>3, EvaluateInserts
    <2>2. /\ fired'[e] = fired[e] \cup S
          /\ \A f \in Execs : f # e => fired'[f] = fired[f]
      BY <2>1, WorkTyped DEF WorkTypeOK
    <2>3. \A h \in Hits : created'[h] # Absent <=> \E f \in Execs : h \in fired'[f]
      BY <2>1, <2>2 DEF HitsOwned
    <2>4. \A f, g \in Execs : fired'[f] \cap fired'[g] # {} => f = g
      BY <2>1, <2>2 DEF HitsOwned
    <2>5. \A f \in Execs : pc'[f] = "idle" => fired'[f] = {}
      BY <1>1 DEF HitsOwned
    <2>6. QED BY <2>3, <2>4, <2>5 DEF HitsOwned
  <1>4. QED BY <1>2, <1>3, HitsKept

-----------------------------------------------------------------------------
(* What execution e may have in hand after a step, as far as copies go.      *)
InHandCounted(e) ==
  /\ pc[e] \in Channels => \A h \in unmarked[e] : copies[pc[e]][h] = 1
  /\ pc[e] = "push" /\ reached[e] => \A h \in Of(e, alert[e]) : copies["push"][h] = 1

(* A step that inserts, tells and marks nothing.                             *)
LEMMA QuietStep ==
  ASSUME WorkTypeOK, CopiesCounted, ToldOnce, NEW e \in Execs, Others(e),
         UNCHANGED <<fired, created, copies, notified>>,
         \A ch \in Channels : \A h \in fired[e] : Untold(e, ch, h[1])' => Untold(e, ch, h[1]),
         InHandCounted(e)'
  PROVE  CopiesCounted' /\ ToldOnce'
  <1>1. \A f \in Execs \ {e} : InHandCounted(f)'
    BY DEF Others, InHandCounted, CopiesCounted, Of
  <1>2. \A f \in Execs \ {e} : \A ch \in Channels, a \in Alerts : Untold(f, ch, a)' => Untold(f, ch, a)
    BY DEF Others, Untold
  <1>3. \A f \in Execs : \A h \in fired[f] : h[1] \in Alerts
    BY DEF WorkTypeOK, Hits
  <1>4. \A ch \in Channels, f \in Execs : \A h \in fired'[f] : Untold(f, ch, h[1])' => copies'[ch][h] = 0
    BY <1>2, <1>3 DEF CopiesCounted
  <1>5. CopiesCounted'
    BY <1>1, <1>4 DEF CopiesCounted, InHandCounted
  <1>6. ToldOnce'
    BY DEF ToldOnce
  <1>7. QED BY <1>5, <1>6

(* A step that tells the hits of alert a, which were not told before.        *)
LEMMA TellsStep ==
  ASSUME TypeOK, HitsOwned, CopiesCounted, ToldOnce, NEW e \in Execs, Others(e),
         NEW ch \in Channels, NEW a \in Alerts, Tells(ch, Of(e, a)),
         Untold(e, ch, a), ~Untold(e, ch, a)',
         UNCHANGED <<fired, created, notified>>,
         \A c \in Channels : \A h \in fired[e] : Untold(e, c, h[1])' => Untold(e, c, h[1]),
         InHandCounted(e)'
  PROVE  CopiesCounted' /\ ToldOnce'
  <1>0. WorkTypeOK  BY WorkTyped
  <1>1. /\ \A c \in Channels, h \in Hits : copies[c][h] \in Nat
        /\ \A h \in Hits : copies'[ch][h] = copies[ch][h] + (IF h \in Of(e, a) THEN 1 ELSE 0)
        /\ \A c \in Channels : c # ch => copies'[c] = copies[c]
    BY DEF Tells, TypeOK
  <1>2. \A h \in Of(e, a) : h \in fired[e] /\ h \in Hits /\ copies[ch][h] = 0 /\ h[1] = a
    BY <1>0 DEF Of, CopiesCounted, WorkTypeOK
  <1>3. \A c \in Channels, h \in Hits :
          copies'[c][h] # copies[c][h] => c = ch /\ h \in Of(e, a) /\ copies[c][h] = 0 /\ copies'[c][h] = 1
    BY <1>1, <1>2
  <1>4. \A c \in Channels, h \in Hits : copies[c][h] = 1 => copies'[c][h] = 1
    BY <1>3
  <1>5. ToldOnce'
    <2>1. \A c \in Channels, h \in Hits : copies'[c][h] <= 1
      BY <1>3 DEF ToldOnce
    <2>2. \A c \in Channels, h \in Hits : h \in notified'[c] => copies'[c][h] = 1
      BY <1>4 DEF ToldOnce
    <2>3. QED BY <2>1, <2>2 DEF ToldOnce
  <1>6. \A c \in Channels, h \in Hits : created'[h] = Absent => copies'[c][h] = 0
    <2>1. \A h \in Of(e, a) : created[h] # Absent
      BY <1>2 DEF HitsOwned
    <2>2. QED BY <1>3, <2>1 DEF CopiesCounted
  <1>7. \A f \in Execs \ {e} : fired[f] \cap fired[e] = {}
    BY DEF HitsOwned
  <1>8. \A c \in Channels, f \in Execs : \A h \in fired'[f] : Untold(f, c, h[1])' => copies'[c][h] = 0
    <2> SUFFICES ASSUME NEW c \in Channels, NEW f \in Execs, NEW h \in fired[f], Untold(f, c, h[1])'
                 PROVE  copies'[c][h] = 0
      OBVIOUS
    <2>1. h \in Hits  BY <1>0 DEF WorkTypeOK
    <2>2. CASE f = e
      <3>1. copies[c][h] = 0
        BY <2>2 DEF CopiesCounted
      <3>2. ~(c = ch /\ h[1] = a)
        BY <2>2
      <3>3. QED BY <1>2, <1>3, <2>1, <3>1, <3>2
    <2>3. CASE f # e
      <3>1. Untold(f, c, h[1])
        BY <2>3 DEF Others, Untold
      <3>2. copies[c][h] = 0
        BY <3>1 DEF CopiesCounted
      <3>3. h \notin Of(e, a)
        BY <1>2, <1>7, <2>3
      <3>4. QED BY <1>3, <2>1, <3>2, <3>3
    <2>4. QED BY <2>2, <2>3
  <1>9. \A f \in Execs \ {e} : InHandCounted(f)'
    <2> SUFFICES ASSUME NEW f \in Execs \ {e} PROVE InHandCounted(f)'
      OBVIOUS
    <2>1. /\ pc[f] \in Channels => \A h \in unmarked[f] : copies[pc[f]][h] = 1
          /\ pc[f] = "push" /\ reached[f] => \A h \in Of(f, alert[f]) : copies["push"][h] = 1
      BY DEF CopiesCounted
    <2>2. unmarked[f] \subseteq Hits /\ Of(f, alert[f]) \subseteq Hits /\ "push" \in Channels
      BY <1>0 DEF WorkTypeOK, Of, Channels
    <2>3. Of(f, alert[f])' = Of(f, alert[f]) /\ pc'[f] = pc[f] /\ reached'[f] = reached[f]
          /\ unmarked'[f] = unmarked[f]
      BY DEF Of, Others
    <2>4. QED BY <1>4, <2>1, <2>2, <2>3 DEF InHandCounted
  <1>10. CopiesCounted'
    BY <1>6, <1>8, <1>9 DEF CopiesCounted, InHandCounted
  <1>11. QED BY <1>5, <1>10

LEMMA EvaluateCopies ==
  ASSUME ToldInv, NEW e \in Execs, NEW a \in Alerts, Evaluate(e, a)
  PROVE  CopiesCounted' /\ ToldOnce'
  <1> USE DEF ToldInv
  <1>0. WorkTypeOK /\ Others(e)
    BY WorkTyped, OthersStay DEF ProcessarAposColeta, AvaliarAlertas
  <1>1. PICK S \in SUBSET Hits :
          /\ \A h \in S : created[h] = Absent /\ \A f \in Execs : h \notin fired[f]
          /\ fired' = [fired EXCEPT ![e] = @ \cup S]
          /\ \A h \in Hits : created'[h] = IF h \in S THEN now ELSE created[h]
          /\ now # Absent /\ now \in Nat
    BY EvaluateInserts
  <1>2. /\ UNCHANGED <<copies, notified, alert, reached, unmarked, pc>>
        /\ pc[e] = "evaluating"
    BY DEF Evaluate, notice, history
  <1>3. ToldOnce'
    BY <1>2 DEF ToldOnce
  <1>4. \A c \in Channels, h \in Hits : created'[h] = Absent => copies'[c][h] = 0
    BY <1>1, <1>2 DEF CopiesCounted
  <1>5. \A c \in Channels, f \in Execs : \A h \in fired'[f] : Untold(f, c, h[1])' => copies'[c][h] = 0
    <2> SUFFICES ASSUME NEW c \in Channels, NEW f \in Execs, NEW h \in fired'[f], Untold(f, c, h[1])'
                 PROVE  copies[c][h] = 0
      BY <1>2
    <2>1. CASE f # e
      BY <1>0, <2>1 DEF Others, Untold, CopiesCounted
    <2>2. CASE f = e /\ h \in S
      BY <1>1, <2>2 DEF CopiesCounted
    <2>3. CASE f = e /\ h \notin S
      <3>1. h \in fired[e]
        BY <1>0, <1>1, <2>3 DEF WorkTypeOK
      <3>2. QED BY <1>2, <2>3, <3>1 DEF CopiesCounted, Untold
    <2>4. QED BY <2>1, <2>2, <2>3
  <1>6. \A f \in Execs : InHandCounted(f)'
    <2>1. \A f \in Execs : pc[f] \in Channels => f # e
      BY <1>2 DEF Channels
    <2>2. "push" \in Channels
      BY DEF Channels
    <2>3. QED BY <1>0, <1>2, <2>1, <2>2 DEF Others, InHandCounted, CopiesCounted, Of
  <1>7. QED BY <1>3, <1>4, <1>5, <1>6 DEF CopiesCounted, InHandCounted

(* The steps before the first notice.                                        *)
LEMMA BeforeCopies ==
  ASSUME ToldInv, NEW e \in Execs,
         \/ \E S \in SUBSET Lots, daily \in BOOLEAN : Start(e, S, daily)
         \/ Evaluated(e) \/ AplicarLimites(e) \/ List(e) \/ Break(e)
  PROVE  CopiesCounted' /\ ToldOnce'
  <1> USE DEF ToldInv
  <1>0. WorkTypeOK /\ Others(e)
    BY WorkTyped, OthersStay DEF ProcessarAposColeta, AvaliarAlertas, EnviarPush
  <1>1. UNCHANGED <<fired, created, copies, notified, alert, reached, unmarked>>
    BY DEF Start, Evaluated, AplicarLimites, Ask, List, Break, rows, work, notice, history
  <1>2. \/ pc[e] = "idle" /\ fired[e] = {} /\ pc'[e] = "evaluating"
        \/ pc[e] \in {"evaluating", "limiting"} /\ pc'[e] \in {"ended", "limiting", "push"}
        \/ pc'[e] = "broken"
    BY <1>0 DEF Start, Evaluated, AplicarLimites, Ask, List, Break, Go, WorkTypeOK, HitsOwned
  <1>3. \A ch \in Channels : \A h \in fired[e] : Untold(e, ch, h[1])' => Untold(e, ch, h[1])
    BY <1>2 DEF Untold, Channels
  <1>4. pc'[e] = "push" => unmarked[e] = {} /\ ~reached[e]
    BY <1>2 DEF NoticeShape
  <1>5. InHandCounted(e)'
    BY <1>1, <1>2, <1>4 DEF InHandCounted, Channels
  <1>6. QED BY <1>0, <1>1, <1>3, <1>5, QuietStep

LEMMA PushCopies ==
  ASSUME ToldInv, NEW e \in Execs, EnviarPush(e), ~List(e)
  PROVE  CopiesCounted' /\ ToldOnce'
  <1> USE DEF ToldInv
  <1>0. WorkTypeOK /\ Others(e)
    BY WorkTyped, OthersStay DEF ProcessarAposColeta
  <1>1. pc[e] = "push" /\ UNCHANGED <<fired, created, notified>>
    BY DEF EnviarPush, EndPush, Pushed, BeginPush, Push, PushGone, PushFails, Sent, rows, work
  <1>2. CASE EndPush(e)
    <2>1. UNCHANGED <<copies, pc, todo>> /\ alert[e] \in Alerts /\ reached'[e] = FALSE
      BY <1>0, <1>2 DEF EndPush, work, WorkTypeOK
    <2>2. \/ reached[e] /\ unmarked'[e] = Of(e, alert[e]) /\ alert'[e] = alert[e]
          \/ unmarked'[e] = {} /\ alert'[e] = Absent
      BY <1>0, <1>2 DEF EndPush, WorkTypeOK
    <2>3. \A ch \in Channels : \A h \in fired[e] : Untold(e, ch, h[1])' => Untold(e, ch, h[1])
      <3>1. \A h \in fired[e] : h[1] \in Alerts /\ (h[1] = alert[e] => h \in Of(e, alert[e]))
        BY <1>0 DEF WorkTypeOK, Hits, Of
      <3>2. QED BY <2>1, <2>2, <3>1, AbsentIsNothing DEF Untold
    <2>4. InHandCounted(e)'
      BY <1>1, <2>1, <2>2 DEF InHandCounted, CopiesCounted
    <2>5. QED BY <1>0, <1>1, <2>1, <2>3, <2>4, QuietStep
  <1>3. CASE Pushed(e)
    <2>1. /\ UNCHANGED <<copies, alert, reached, unmarked>>
          /\ pc'[e] = "email" /\ alert[e] = Absent
      BY <1>0, <1>3 DEF Pushed, Go, notice, history, WorkTypeOK
    <2>2. unmarked[e] = {}
      BY <2>1 DEF NoticeShape
    <2>3. \A ch \in Channels : \A h \in fired[e] : Untold(e, ch, h[1])' => Untold(e, ch, h[1])
      BY <1>1, <2>1 DEF Untold
    <2>4. InHandCounted(e)'
      BY <2>1, <2>2 DEF InHandCounted
    <2>5. QED BY <1>0, <1>1, <2>1, <2>3, <2>4, QuietStep
  <1>4. ASSUME NEW a \in Alerts, BeginPush(e, a) PROVE CopiesCounted' /\ ToldOnce'
    <2>1. /\ UNCHANGED <<copies, pc, reached, unmarked>> /\ alert[e] = Absent
          /\ todo' = [todo EXCEPT ![e] = @ \ {a}] /\ a \in todo[e]
          /\ alert'[e] \in {Absent, a}
      BY <1>0, <1>4 DEF BeginPush, WorkTypeOK
    <2>2. unmarked[e] = {} /\ ~reached[e]
      BY <2>1 DEF NoticeShape
    <2>3. \A ch \in Channels : \A h \in fired[e] : Untold(e, ch, h[1])' => Untold(e, ch, h[1])
      <3>1. \A h \in fired[e] : h[1] # Absent
        BY <1>0, AbsentIsNothing DEF WorkTypeOK, Hits
      <3>2. todo'[e] \subseteq todo[e]
        BY <1>0, <2>1 DEF WorkTypeOK
      <3>3. QED BY <1>1, <2>1, <3>1, <3>2 DEF Untold
    <2>4. InHandCounted(e)'
      BY <2>1, <2>2 DEF InHandCounted
    <2>5. QED BY <1>0, <1>1, <2>1, <2>3, <2>4, QuietStep
  <1>5. ASSUME NEW d \in Devices, PushGone(e, d) \/ PushFails(e, d) \/ (Push(e, d) /\ reached[e])
        PROVE  CopiesCounted' /\ ToldOnce'
    <2>1. /\ UNCHANGED <<copies, pc, todo, alert, unmarked>>
          /\ reached'[e] = reached[e]
      BY <1>0, <1>5 DEF PushGone, PushFails, Push, Sent, work, WorkTypeOK
    <2>2. \A ch \in Channels : \A h \in fired[e] : Untold(e, ch, h[1])' => Untold(e, ch, h[1])
      BY <2>1 DEF Untold
    <2>3. InHandCounted(e)'
      BY <1>1, <2>1 DEF InHandCounted, CopiesCounted, Of
    <2>4. QED BY <1>0, <1>1, <2>1, <2>2, <2>3, QuietStep
  <1>6. ASSUME NEW d \in Devices, Push(e, d), ~reached[e] PROVE CopiesCounted' /\ ToldOnce'
    <2>1. /\ UNCHANGED <<pc, todo, alert, unmarked>> /\ reached'[e] = TRUE
          /\ Tells("push", Of(e, alert[e])) /\ left[e] # {}
      BY <1>0, <1>6 DEF Push, Sent, work, WorkTypeOK
    <2>2. unmarked[e] = {} /\ alert[e] \in Alerts /\ alert[e] \notin todo[e]
      BY <1>0, <1>1, <2>1 DEF NoticeShape, WorkTypeOK, Channels
    <2>3. Untold(e, "push", alert[e])
      BY <1>1, <1>6, <2>2 DEF Untold
    <2>4. /\ \A ch \in Channels : \A h \in fired[e] : Untold(e, ch, h[1])' => Untold(e, ch, h[1])
          /\ ~Untold(e, "push", alert[e])'
      BY <1>1, <1>6, <2>1, <2>2 DEF Untold
    <2>5. \A h \in Of(e, alert[e]) : copies'["push"][h] = 1
      <3>1. \A h \in Of(e, alert[e]) : h \in Hits /\ h \in fired[e] /\ h[1] = alert[e]
        BY <1>0 DEF Of, WorkTypeOK
      <3>2. "push" \in Channels  BY DEF Channels
      <3>3. \A h \in Of(e, alert[e]) : copies["push"][h] = 0
        BY <2>3, <3>1, <3>2 DEF CopiesCounted
      <3>4. \A h \in Of(e, alert[e]) : copies'["push"][h] = copies["push"][h] + 1
        BY <2>1, <3>1, <3>2 DEF Tells, TypeOK
      <3>5. QED BY <3>3, <3>4
    <2>6. InHandCounted(e)'
      BY <1>1, <2>1, <2>2, <2>5 DEF InHandCounted, Of
    <2>7. "push" \in Channels
      BY DEF Channels
    <2>8. \E b \in Alerts : Tells("push", Of(e, b)) /\ Untold(e, "push", b) /\ ~Untold(e, "push", b)'
      BY <2>1, <2>2, <2>3, <2>4
    <2>9. QED BY <1>0, <1>1, <2>4, <2>6, <2>7, <2>8, TellsStep
  <1>7. QED BY <1>2, <1>3, <1>4, <1>5, <1>6 DEF EnviarPush

LEMMA EmailCopies ==
  ASSUME ToldInv, NEW e \in Execs, EnviarEmail(e)
  PROVE  CopiesCounted' /\ ToldOnce'
  <1> USE DEF ToldInv
  <1>0. WorkTypeOK /\ Others(e)
    BY WorkTyped, OthersStay DEF ProcessarAposColeta
  <1>1. pc[e] = "email" /\ UNCHANGED <<fired, created, notified>> /\ "email" \in Channels
    BY DEF EnviarEmail, MailMarkFails, Mailed, Mail, MailFails, MailOf, rows, work, Channels
  <1>2. CASE MailMarkFails(e)
    <2>1. UNCHANGED <<copies, pc, todo>> /\ unmarked'[e] = {}
      BY <1>0, <1>2 DEF MailMarkFails, work, WorkTypeOK
    <2>2. \A ch \in Channels : \A h \in fired[e] : Untold(e, ch, h[1])' => Untold(e, ch, h[1])
      BY <1>1, <2>1 DEF Untold
    <2>3. InHandCounted(e)'
      BY <1>1, <2>1 DEF InHandCounted
    <2>4. QED BY <1>0, <1>1, <2>1, <2>2, <2>3, QuietStep
  <1>3. CASE Mailed(e)
    <2>1. UNCHANGED copies /\ pc'[e] = "ended"
      BY <1>0, <1>3 DEF Mailed, Go, history, WorkTypeOK
    <2>2. \A ch \in Channels : \A h \in fired[e] : Untold(e, ch, h[1])' => Untold(e, ch, h[1])
      BY <2>1 DEF Untold, Channels
    <2>3. InHandCounted(e)'
      BY <2>1 DEF InHandCounted, Channels
    <2>4. QED BY <1>0, <1>1, <2>1, <2>2, <2>3, QuietStep
  <1>4. ASSUME NEW a \in Alerts, MailOf(e, a), UNCHANGED copies, alert'[e] = Absent, unmarked'[e] = {}
        PROVE  CopiesCounted' /\ ToldOnce'
    <2>1. UNCHANGED pc /\ todo'[e] = todo[e] \ {a}
      BY <1>0, <1>4 DEF MailOf, WorkTypeOK
    <2>2. \A ch \in Channels : \A h \in fired[e] : Untold(e, ch, h[1])' => Untold(e, ch, h[1])
      BY <1>1, <2>1 DEF Untold
    <2>3. InHandCounted(e)'
      BY <1>1, <1>4, <2>1 DEF InHandCounted
    <2>4. QED BY <1>0, <1>1, <1>4, <2>2, <2>3, QuietStep
  <1>5. ASSUME NEW a \in Alerts, MailOf(e, a), Tells("email", Of(e, a)),
               unmarked'[e] \in {{}, Of(e, a)}
        PROVE  CopiesCounted' /\ ToldOnce'
    <2>1. UNCHANGED pc /\ todo'[e] = todo[e] \ {a} /\ a \in todo[e]
      BY <1>0, <1>5 DEF MailOf, WorkTypeOK
    <2>2. /\ \A ch \in Channels : \A h \in fired[e] : Untold(e, ch, h[1])' => Untold(e, ch, h[1])
          /\ Untold(e, "email", a) /\ ~Untold(e, "email", a)'
      BY <1>1, <2>1 DEF Untold
    <2>3. \A h \in Of(e, a) : copies'["email"][h] = 1
      <3>1. \A h \in Of(e, a) : h \in Hits /\ h \in fired[e] /\ h[1] = a
        BY <1>0 DEF Of, WorkTypeOK
      <3>2. \A h \in Of(e, a) : copies["email"][h] = 0
        BY <1>1, <2>2, <3>1 DEF CopiesCounted
      <3>3. \A h \in Of(e, a) : copies'["email"][h] = copies["email"][h] + 1
        BY <1>1, <1>5, <3>1 DEF Tells, TypeOK
      <3>4. QED BY <3>2, <3>3
    <2>4. InHandCounted(e)'
      BY <1>1, <1>5, <2>1, <2>3 DEF InHandCounted
    <2>5. QED BY <1>0, <1>1, <1>5, <2>2, <2>4, TellsStep
  <1>6. ASSUME NEW a \in Alerts, Mail(e, a) PROVE CopiesCounted' /\ ToldOnce'
    <2>1. unmarked'[e] = Of(e, a)
      BY <1>0, <1>6 DEF Mail, WorkTypeOK
    <2>2. QED BY <1>5, <1>6, <2>1 DEF Mail
  <1>7. ASSUME NEW a \in Alerts, MailFails(e, a) PROVE CopiesCounted' /\ ToldOnce'
    <2>1. alert[e] = Absent /\ UNCHANGED <<alert, unmarked>>
      BY <1>7 DEF MailFails, MailOf
    <2>2. unmarked[e] = {}
      BY <2>1 DEF NoticeShape
    <2>3. QED BY <1>4, <1>5, <1>7, <2>1, <2>2 DEF MailFails
  <1>8. QED BY <1>2, <1>3, <1>6, <1>7 DEF EnviarEmail

LEMMA MarkCopies ==
  ASSUME ToldInv, NEW e \in Execs, NEW h \in Hits, Mark(e, h)
  PROVE  CopiesCounted' /\ ToldOnce'
  <1> USE DEF ToldInv
  <1>0. WorkTypeOK /\ Others(e)
    BY WorkTyped, OthersStay DEF ProcessarAposColeta
  <1>1. /\ h \in unmarked[e] /\ pc[e] \in Channels
        /\ notified' = [notified EXCEPT ![pc[e]] = @ \cup {h}]
        /\ unmarked'[e] = unmarked[e] \ {h}
        /\ alert'[e] = IF unmarked[e] = {h} THEN Absent ELSE alert[e]
        /\ UNCHANGED <<created, fired, copies, pc, todo, reached>>
    BY <1>0 DEF Mark, work, history, WorkTypeOK
  <1>2. copies[pc[e]][h] = 1
    BY <1>1 DEF CopiesCounted
  <1>3. ToldOnce'
    BY <1>1, <1>2 DEF ToldOnce, TypeOK
  <1>4. \A ch \in Channels : \A g \in fired[e] : Untold(e, ch, g[1])' => Untold(e, ch, g[1])
    <2>1. \A g \in fired[e] : g[1] # Absent
      BY <1>0, AbsentIsNothing DEF WorkTypeOK, Hits
    <2>2. unmarked'[e] = {} => alert'[e] = Absent
      BY <1>1
    <2>3. QED BY <1>1, <2>1, <2>2 DEF Untold
  <1>5. InHandCounted(e)'
    <2>1. ~reached[e]
      BY <1>1 DEF NoticeShape
    <2>2. QED BY <1>1, <2>1 DEF InHandCounted, CopiesCounted
  <1>6. \A f \in Execs \ {e} : InHandCounted(f)'
    BY <1>0, <1>1 DEF Others, InHandCounted, CopiesCounted, Of
  <1>7. \A ch \in Channels, f \in Execs : \A g \in fired'[f] : Untold(f, ch, g[1])' => copies'[ch][g] = 0
    BY <1>0, <1>1, <1>4 DEF Others, Untold, CopiesCounted
  <1>8. CopiesCounted'
    BY <1>1, <1>5, <1>6, <1>7 DEF CopiesCounted, InHandCounted
  <1>9. QED BY <1>3, <1>8

-----------------------------------------------------------------------------
LEMMA InitToldInv == Init => ToldInv
  <1> SUFFICES ASSUME Init PROVE ToldInv  OBVIOUS
  <1>1. NoticeShape    BY DEF Init, NoticeShape, Channels
  <1>2. HitsOwned      BY DEF Init, HitsOwned
  <1>3. CopiesCounted  BY DEF Init, CopiesCounted, Channels
  <1>4. ToldOnce       BY DEF Init, ToldOnce
  <1>5. QED BY <1>1, <1>2, <1>3, <1>4, InitTypeOK DEF ToldInv

LEMMA NextToldInv == ToldInv /\ [Next]_vars => ToldInv'
  <1> SUFFICES ASSUME ToldInv, [Next]_vars PROVE ToldInv'  OBVIOUS
  <1>1. TypeOK' /\ WorkTypeOK
    BY NextTypeOK, WorkTyped DEF ToldInv
  <1>2. CASE Tick \/ (\E d \in Devices, o \in Owners : Subscribe(d, o)) \/ UNCHANGED vars
    <2>1. UNCHANGED <<created, notified, pc, work, notice, history>>
      BY <1>2 DEF Tick, Subscribe, vars, rows
    <2>2. QED
      BY <1>1, <2>1
      DEF ToldInv, NoticeShape, HitsOwned, CopiesCounted, ToldOnce, Untold, Of, work, notice, history
  <1>3. ASSUME NEW e \in Execs, ProcessarAposColeta(e) PROVE ToldInv'
    <2>1. NoticeShape' /\ HitsOwned'
      BY <1>1, <1>3, NoticeStep, HitsStep DEF ToldInv
    <2>2. CopiesCounted' /\ ToldOnce'
      BY <1>3, BeforeCopies, EvaluateCopies, PushCopies, EmailCopies, MarkCopies
      DEF ProcessarAposColeta, AvaliarAlertas, EnviarPush
    <2>3. QED BY <1>1, <2>1, <2>2 DEF ToldInv
  <1>4. QED BY <1>2, <1>3 DEF Next

THEOREM ToldInvariant == Spec => []ToldInv
  <1>1. QED BY InitToldInv, NextToldInv, PTL DEF Spec

(* The rows, the executions and the history of notices keep their types.     *)
THEOREM TypeCorrect == Spec => []TypeOK
  <1>1. ToldInv => TypeOK  BY DEF ToldInv
  <1>2. QED BY <1>1, ToldInvariant, PTL

(* A subscriber hears of a lot at most once on a channel, however many       *)
(* executions bring it as new; what is marked as told was told.              *)
THEOREM NobodyIsToldTwice == Spec => []ToldOnce
  <1>1. ToldInv => ToldOnce  BY DEF ToldInv
  <1>2. QED BY <1>1, ToldInvariant, PTL

-----------------------------------------------------------------------------
(* Why a hit was not told.  What is known of a hit is never forgotten.       *)
Remembered ==
  /\ UNCHANGED channels
  /\ \A ch \in Channels : /\ notified[ch] \subseteq notified'[ch]
                          /\ deferred[ch] \subseteq deferred'[ch]
                          /\ givenUp[ch] \subseteq givenUp'[ch]

LEMMA Grows ==
  ASSUME NEW f, f \in [Channels -> SUBSET Hits], NEW ch \in Channels, NEW S,
         NEW g, g = [f EXCEPT ![ch] = @ \cup S]
  PROVE  \A c \in Channels : f[c] \subseteq g[c]
  <1>1. QED OBVIOUS

LEMMA NothingForgotten ==
  ASSUME TypeOK, NEW e \in Execs, ProcessarAposColeta(e)
  PROVE  Remembered
  <1>1. "push" \in Channels /\ "email" \in Channels
    BY DEF Channels
  <1>2. /\ notified \in [Channels -> SUBSET Hits] /\ deferred \in [Channels -> SUBSET Hits]
        /\ givenUp \in [Channels -> SUBSET Hits]
    BY DEF TypeOK
  <1>3. UNCHANGED channels
    BY DEF ProcessarAposColeta, Start, AvaliarAlertas, Evaluated, Evaluate, AplicarLimites, Ask,
           EnviarPush, List, Pushed, EndPush, BeginPush, Push, PushGone, PushFails, Sent,
           EnviarEmail, MailMarkFails, Mailed, Mail, MailFails, MailOf, Mark, Break, rows
  <1>4. CASE \/ \E S \in SUBSET Lots, daily \in BOOLEAN : Start(e, S, daily)
             \/ AvaliarAlertas(e) \/ Break(e) \/ List(e) \/ Pushed(e) \/ Mailed(e)
             \/ \E d \in Devices : Push(e, d) \/ PushGone(e, d) \/ PushFails(e, d)
             \/ \E a \in Alerts : Mail(e, a)
    <2>1. UNCHANGED <<notified, deferred, givenUp>>
      BY <1>4 DEF Start, AvaliarAlertas, Evaluated, Evaluate, Break, List, Pushed, Mailed, Push,
                  PushGone, PushFails, Sent, Tells, Mail, MailOf, rows, history
    <2>2. QED BY <1>3, <2>1 DEF Remembered
  <1>5. ASSUME NEW a \in Alerts, NEW ch \in Channels, Ask(e, a, ch) PROVE Remembered
    <2>1. /\ UNCHANGED <<notified, givenUp>>
          /\ deferred' = [deferred EXCEPT ![ch] = @ \cup Of(e, a)] \/ deferred' = deferred
      BY <1>5 DEF Ask, rows
    <2>2. \A c \in Channels : deferred[c] \subseteq deferred'[c]
      BY <1>2, <2>1, Grows
    <2>3. QED BY <1>3, <2>1, <2>2 DEF Remembered
  <1>6. ASSUME NEW h \in Hits, Mark(e, h) PROVE Remembered
    <2>1. /\ UNCHANGED <<deferred, givenUp>> /\ pc[e] \in Channels
          /\ notified' = [notified EXCEPT ![pc[e]] = @ \cup {h}]
      BY <1>6 DEF Mark, history
    <2>2. \A c \in Channels : notified[c] \subseteq notified'[c]
      BY <1>2, <2>1, Grows
    <2>3. QED BY <1>3, <2>1, <2>2 DEF Remembered
  <1>7. CASE \/ EndPush(e) \/ MailMarkFails(e)
             \/ \E a \in Alerts : BeginPush(e, a) \/ MailFails(e, a)
    <2>1. /\ UNCHANGED <<notified, deferred>>
          /\ givenUp' = givenUp \/ \E ch \in Channels : \E S : GivesUp(ch, S)
      BY <1>1, <1>7 DEF EndPush, MailMarkFails, BeginPush, MailFails, MailOf, rows
    <2>2. \A c \in Channels : givenUp[c] \subseteq givenUp'[c]
      BY <1>2, <2>1, Grows DEF GivesUp
    <2>3. QED BY <1>3, <2>1, <2>2 DEF Remembered
  <1>8. QED
    BY <1>4, <1>5, <1>6, <1>7
    DEF ProcessarAposColeta, AplicarLimites, EnviarPush, EnviarEmail

(* It is enough to look at the execution that moved, and at what it passes.  *)
LEMMA CauseStep ==
  ASSUME WorkTypeOK, PassedHasCause, NEW e \in Execs, Others(e), Remembered, UNCHANGED fired,
         \A h \in fired[e] : \A ch \in Configured \cap channels[h[1]] :
           Passed(e, ch, h)' => \/ Passed(e, ch, h)
                               \/ h \in notified'[ch] \cup deferred'[ch] \cup givenUp'[ch]
  PROVE  PassedHasCause'
  <1> SUFFICES ASSUME NEW f \in Execs, NEW h \in fired[f],
                      NEW ch \in Configured \cap channels[h[1]], Passed(f, ch, h)'
               PROVE  h \in notified'[ch] \cup deferred'[ch] \cup givenUp'[ch]
    BY DEF PassedHasCause, Remembered
  <1>1. ch \in Channels
    BY ChannelAssumption
  <1>2. Passed(f, ch, h) => h \in notified'[ch] \cup deferred'[ch] \cup givenUp'[ch]
    BY <1>1 DEF PassedHasCause, Remembered
  <1>3. f # e => Passed(f, ch, h)
    BY DEF Others, Passed
  <1>4. QED BY <1>2, <1>3

LEMMA ClosedIsDeferred ==
  ASSUME TypeOK, DeferredByNotice, NEW e \in Execs, NEW h \in fired[e],
         NEW ch \in Configured \cap channels[h[1]], h[1] \notin Open(e, ch)
  PROVE  h \in deferred[ch]
  <1>1. h \in Hits /\ h[1] \in Alerts /\ h \in Of(e, h[1])
    BY DEF TypeOK, Hits, Of
  <1>2. <<h[1], ch>> \in shut[e]
    BY <1>1 DEF Open
  <1>3. QED BY <1>1, <1>2 DEF DeferredByNotice

LEMMA PassedStep ==
  ASSUME CauseInv, NEW e \in Execs, ProcessarAposColeta(e)
  PROVE  PassedHasCause'
  <1> USE DEF CauseInv, ToldInv
  <1>0. WorkTypeOK /\ Others(e) /\ Remembered
    BY WorkTyped, OthersStay, NothingForgotten
  <1> DEFINE Known(h, ch) == h \in notified'[ch] \cup deferred'[ch] \cup givenUp'[ch]
             Covered == \A h \in fired[e] : \A ch \in Configured \cap channels[h[1]] :
                          Passed(e, ch, h)' => Passed(e, ch, h) \/ Known(h, ch)
  <1>1. \A h \in fired[e] : h \in Hits /\ h[1] \in Alerts /\ h[1] # Absent
    BY <1>0, AbsentIsNothing DEF WorkTypeOK, Hits
  <1>2. \A h \in fired[e] : \A ch \in Configured \cap channels[h[1]] : ch \in {"push", "email"}
    BY ChannelAssumption DEF Channels
  <1>3. ASSUME UNCHANGED fired, Covered PROVE PassedHasCause'
    BY <1>0, <1>3, CauseStep
  <1>4. ASSUME NEW a \in Alerts, Evaluate(e, a) PROVE PassedHasCause'
    <2>1. pc[e] = "evaluating" /\ UNCHANGED pc
      BY <1>4 DEF Evaluate
    <2>2. \A ch \in Channels : \A h : ~Passed(e, ch, h)'
      BY <1>0, <2>1 DEF Passed, Channels, WorkTypeOK
    <2>3. \A f \in Execs \ {e} : \A ch \in Channels : \A h : Passed(f, ch, h)' => Passed(f, ch, h)
      BY <1>0 DEF Others, Passed
    <2>4. \A f \in Execs \ {e} : fired'[f] = fired[f]
      BY <1>0 DEF Others
    <2>5. QED BY <1>0, <2>2, <2>3, <2>4, ChannelAssumption DEF PassedHasCause, Remembered
  <1>5. CASE \/ \E S \in SUBSET Lots, daily \in BOOLEAN : Start(e, S, daily)
             \/ Evaluated(e) \/ AplicarLimites(e) \/ Break(e)
    <2>1. UNCHANGED fired
      BY <1>5 DEF Start, Evaluated, AplicarLimites, Ask, Break, work
    <2>2. pc'[e] \in {"evaluating", "limiting", "broken"} \/ fired[e] = {}
      BY <1>0, <1>5 DEF Start, Evaluated, AplicarLimites, Ask, Break, Go, WorkTypeOK
    <2>3. Covered
      BY <1>2, <2>2 DEF Passed
    <2>4. QED BY <1>3, <2>1, <2>3
  <1>6. CASE List(e)
    <2>1. /\ UNCHANGED <<fired, deferred>> /\ pc'[e] = "push"
          /\ todo'[e] = Open(e, "push")
      BY <1>0, <1>6 DEF List, Go, history, WorkTypeOK
    <2>2. Covered
      BY <1>2, <2>1, ClosedIsDeferred DEF Passed
    <2>3. QED BY <1>3, <2>1, <2>2
  <1>7. ASSUME NEW a \in Alerts, BeginPush(e, a) PROVE PassedHasCause'
    <2>1. /\ UNCHANGED <<fired, pc, unmarked>> /\ alert[e] = Absent /\ pc[e] = "push"
          /\ todo'[e] = todo[e] \ {a}
          /\ \/ alert'[e] = a
             \/ alert'[e] = Absent /\ GivesUp("push", Of(e, a))
      BY <1>0, <1>7 DEF BeginPush, WorkTypeOK
    <2>2. unmarked[e] = {}
      BY <2>1 DEF NoticeShape
    <2>3. ASSUME NEW h \in fired[e], h[1] = a, GivesUp("push", Of(e, a)) PROVE Known(h, "push")
      BY <1>1, <2>3 DEF GivesUp, Of, TypeOK, Channels
    <2>4. Covered
      <3> SUFFICES ASSUME NEW h \in fired[e], NEW ch \in Configured \cap channels[h[1]],
                          Passed(e, ch, h)'
                   PROVE  Passed(e, ch, h) \/ Known(h, ch)
        OBVIOUS
      <3>1. ch = "push"
        BY <1>2, <2>1 DEF Passed
      <3>2. CASE h[1] = a
        BY <2>1, <2>2, <2>3, <3>1, <3>2 DEF Passed
      <3>3. CASE h[1] # a
        BY <1>1, <2>1, <3>1, <3>3 DEF Passed
      <3>4. QED BY <3>2, <3>3
    <2>5. QED BY <1>3, <2>1, <2>4
  <1>8. ASSUME NEW d \in Devices, Push(e, d) \/ PushGone(e, d) \/ PushFails(e, d) PROVE PassedHasCause'
    <2>1. UNCHANGED <<fired, pc, todo, alert, unmarked>>
      BY <1>8 DEF Push, PushGone, PushFails, Sent, work
    <2>2. Covered
      BY <2>1 DEF Passed
    <2>3. QED BY <1>3, <2>1, <2>2
  <1>9. CASE EndPush(e)
    <2>1. /\ UNCHANGED <<fired, pc, todo>> /\ pc[e] = "push" /\ unmarked[e] = {}
          /\ \/ unmarked'[e] = Of(e, alert[e]) /\ alert'[e] = alert[e]
             \/ unmarked'[e] = {} /\ alert'[e] = Absent /\ GivesUp("push", Of(e, alert[e]))
      BY <1>0, <1>9 DEF EndPush, work, WorkTypeOK
    <2>2. ASSUME NEW h \in fired[e], h[1] = alert[e], GivesUp("push", Of(e, alert[e]))
          PROVE  Known(h, "push")
      BY <1>1, <2>2 DEF GivesUp, Of, TypeOK, Channels
    <2>3. \A h \in fired[e] : h[1] = alert[e] => h \in Of(e, alert[e])
      BY <1>1 DEF Of
    <2>4. Covered
      BY <1>2, <2>1, <2>2, <2>3 DEF Passed
    <2>5. QED BY <1>3, <2>1, <2>4
  <1>10. ASSUME NEW g \in Hits, Mark(e, g) PROVE PassedHasCause'
    <2>1. /\ UNCHANGED <<fired, pc, todo>> /\ g \in unmarked[e] /\ pc[e] \in Channels
          /\ g \in notified'[pc[e]]
          /\ unmarked'[e] = unmarked[e] \ {g}
          /\ alert'[e] = IF unmarked[e] = {g} THEN Absent ELSE alert[e]
      BY <1>0, <1>10 DEF Mark, work, WorkTypeOK, TypeOK
    <2>2. Covered
      BY <1>2, <2>1 DEF Passed
    <2>3. QED BY <1>3, <2>1, <2>2
  <1>11. CASE Pushed(e)
    <2>1. /\ UNCHANGED <<fired, deferred>> /\ pc[e] = "push" /\ pc'[e] = "email"
          /\ todo[e] = {} /\ alert[e] = Absent /\ todo'[e] = Open(e, "email")
      BY <1>0, <1>11 DEF Pushed, Go, history, WorkTypeOK
    <2>2. Covered
      BY <1>1, <1>2, <2>1, ClosedIsDeferred DEF Passed
    <2>3. QED BY <1>3, <2>1, <2>2
  <1>12. ASSUME NEW a \in Alerts, Mail(e, a) \/ MailFails(e, a) PROVE PassedHasCause'
    <2>1. /\ UNCHANGED <<fired, pc>> /\ pc[e] = "email" /\ alert[e] = Absent
          /\ todo'[e] = todo[e] \ {a}
          /\ \/ alert'[e] = a /\ unmarked'[e] = Of(e, a)
             \/ GivesUp("email", Of(e, a))
      BY <1>0, <1>12 DEF Mail, MailFails, MailOf, WorkTypeOK
    <2>2. ASSUME NEW h \in fired[e], h[1] = a, GivesUp("email", Of(e, a)) PROVE Known(h, "email")
      BY <1>1, <2>2 DEF GivesUp, Of, TypeOK, Channels
    <2>3. \A h \in fired[e] : h[1] = a => h \in Of(e, a)
      BY <1>1 DEF Of
    <2>4. Covered
      <3> SUFFICES ASSUME NEW h \in fired[e], NEW ch \in Configured \cap channels[h[1]],
                          Passed(e, ch, h)'
                   PROVE  Passed(e, ch, h) \/ Known(h, ch)
        OBVIOUS
      <3>1. CASE ch = "push"
        BY <2>1, <3>1 DEF Passed
      <3>2. CASE ch = "email" /\ h[1] = a
        BY <2>1, <2>2, <2>3, <3>2 DEF Passed
      <3>3. CASE ch = "email" /\ h[1] # a
        BY <1>1, <2>1, <3>3 DEF Passed
      <3>4. QED BY <1>2, <3>1, <3>2, <3>3
    <2>5. QED BY <1>3, <2>1, <2>4
  <1>13. CASE MailMarkFails(e)
    <2>1. /\ UNCHANGED <<fired, pc, todo>> /\ pc[e] = "email" /\ unmarked[e] # {}
          /\ alert'[e] = Absent /\ GivesUp("email", unmarked[e])
      BY <1>0, <1>13 DEF MailMarkFails, work, WorkTypeOK
    <2>2. \A h \in unmarked[e] : Known(h, "email")
      BY <2>1 DEF GivesUp, TypeOK, Channels
    <2>3. Covered
      BY <1>2, <2>1, <2>2 DEF Passed
    <2>4. QED BY <1>3, <2>1, <2>3
  <1>14. CASE Mailed(e)
    <2>1. /\ UNCHANGED fired /\ pc[e] = "email" /\ todo[e] = {} /\ alert[e] = Absent
      BY <1>14 DEF Mailed, work
    <2>2. Covered
      BY <1>1, <1>2, <2>1 DEF Passed
    <2>3. QED BY <1>3, <2>1, <2>2
  <1>15. QED
    BY <1>4, <1>5, <1>6, <1>7, <1>8, <1>9, <1>10, <1>11, <1>12, <1>13, <1>14
    DEF ProcessarAposColeta, AvaliarAlertas, EnviarPush, EnviarEmail

LEMMA DeferredStep ==
  ASSUME CauseInv, NEW e \in Execs, ProcessarAposColeta(e)
  PROVE  DeferredByNotice'
  <1> USE DEF CauseInv, ToldInv
  <1>0. WorkTypeOK /\ Others(e) /\ Remembered /\ UNCHANGED now /\ now \in 0..MaxTime
    <2>1. UNCHANGED now
      BY DEF ProcessarAposColeta, Start, AvaliarAlertas, Evaluated, Evaluate, AplicarLimites, Ask,
             EnviarPush, List, Pushed, EndPush, BeginPush, Push, PushGone, PushFails, Sent,
             EnviarEmail, MailMarkFails, Mailed, Mail, MailFails, MailOf, Mark, Break
    <2>2. QED BY <2>1, WorkTyped, OthersStay, NothingForgotten DEF TypeOK
  <1>1. ASSUME NEW a \in Alerts, Evaluate(e, a) PROVE DeferredByNotice'
    <2>1. PICK found \in SUBSET novos[e] :
            created' = [h \in Hits |-> IF h \in Fires(e, a, found) THEN now ELSE created[h]]
      BY <1>1 DEF Evaluate
    <2>2. /\ UNCHANGED <<notified, deferred, pc, shut>> /\ pc[e] = "evaluating"
          /\ \A f \in Execs \ {e} : fired'[f] = fired[f]
      BY <1>0, <1>1 DEF Evaluate, history, Others
    <2>3. \A h \in Hits : created'[h] = IF h \in Fires(e, a, found) THEN now ELSE created[h]
      BY <2>1
    <2>4. \A h \in Hits : created[h] # Absent => created'[h] = created[h]
      BY <2>3 DEF Fires
    <2>5. now # Absent /\ now \in Nat /\ now <= now
      BY <1>0, AbsentIsNothing, LimitAssumption
    <2>6. \A h \in Hits : created'[h] # Absent => created'[h] <= now'
      BY <1>0, <2>3, <2>4, <2>5 DEF DeferredByNotice
    <2>7. \A ch \in Channels : notified[ch] \subseteq Hits /\ deferred[ch] \subseteq Hits
      BY DEF TypeOK
    <2>8. /\ \A ch \in Channels : \A h \in notified'[ch] \cup deferred'[ch] : created'[h] # Absent
          /\ \A ch \in Channels : \A h \in deferred'[ch] :
               \E g \in notified'[ch] : g[1] = h[1] /\ created'[h] < created'[g] + Window[ch]
      BY <2>2, <2>4, <2>7 DEF DeferredByNotice
    <2>9. shut[e] = {}
      BY <2>2 DEF DeferredByNotice
    <2>10. \A f \in Execs : \A p \in shut'[f] : Of(f, p[1])' \subseteq deferred'[p[2]]
      BY <2>2, <2>9 DEF DeferredByNotice, Of
    <2>11. QED BY <2>2, <2>6, <2>8, <2>10 DEF DeferredByNotice
  <1>2. ASSUME NEW a \in Alerts, NEW ch \in Channels, Ask(e, a, ch) PROVE DeferredByNotice'
    <2>1. UNCHANGED <<created, notified, pc, fired>> /\ pc[e] = "limiting"
      BY <1>2 DEF Ask, rows
    <2>2. CASE UNCHANGED <<shut, deferred>>
      BY <1>0, <2>1, <2>2 DEF DeferredByNotice, Of
    <2>3. CASE /\ Closed(a, ch)
               /\ shut' = [shut EXCEPT ![e] = @ \cup {<<a, ch>>}]
               /\ deferred' = [deferred EXCEPT ![ch] = @ \cup Of(e, a)]
      <3>1. PICK g \in notified[ch] : g[1] = a /\ now < created[g] + Window[ch]
        BY <2>3 DEF Closed
      <3>2. \A h \in Of(e, a) : /\ h[1] = a /\ h \in Hits /\ created[h] # Absent
                                /\ created[h] \in Nat /\ created[h] <= now
        BY <1>0, LimitAssumption DEF Of, HitsOwned, WorkTypeOK, TypeOK, DeferredByNotice
      <3>3. now \in Nat /\ created[g] \in Nat /\ Window[ch] \in Nat
        BY <1>0, <3>1, LimitAssumption, WindowAssumption DEF TypeOK, DeferredByNotice
      <3>4. \A h \in Of(e, a) : created[h] < created[g] + Window[ch]
        BY <3>1, <3>2, <3>3
      <3>5. \A c \in Channels : \A h \in deferred'[c] : h \in deferred[c] \/ (c = ch /\ h \in Of(e, a))
        BY <2>3 DEF TypeOK
      <3>6. \A c \in Channels : \A h \in deferred'[c] :
               /\ created[h] # Absent
               /\ \E k \in notified[c] : k[1] = h[1] /\ created[h] < created[k] + Window[c]
        BY <3>1, <3>2, <3>4, <3>5 DEF DeferredByNotice
      <3>7. \A f \in Execs : \A p \in shut'[f] : p \in shut[f] \/ (f = e /\ p = <<a, ch>>)
        BY <1>0, <2>3 DEF WorkTypeOK
      <3>8. Of(e, a) \subseteq deferred'[ch]
        BY <2>3 DEF TypeOK
      <3>9. \A f \in Execs : \A p \in shut[f] : p[2] \in Channels
        BY <1>0 DEF WorkTypeOK
      <3>10. \A f \in Execs : \A p \in shut'[f] : Of(f, p[1]) \subseteq deferred'[p[2]]
        BY <1>0, <3>7, <3>8, <3>9 DEF DeferredByNotice, Remembered
      <3>11. \A f \in Execs : pc[f] \in {"idle", "evaluating"} => shut'[f] = {}
        BY <1>0, <2>1, <2>3 DEF DeferredByNotice, WorkTypeOK
      <3>12. QED BY <1>0, <2>1, <3>6, <3>10, <3>11 DEF DeferredByNotice, Of
    <2>4. QED BY <1>2, <2>2, <2>3 DEF Ask
  <1>3. ASSUME NEW h \in Hits, Mark(e, h) PROVE DeferredByNotice'
    <2>1. /\ UNCHANGED <<created, deferred, pc, fired, shut>>
          /\ h \in unmarked[e] /\ pc[e] \in Channels
          /\ notified' = [notified EXCEPT ![pc[e]] = @ \cup {h}]
      BY <1>3 DEF Mark, work, history
    <2>2. created[h] # Absent
      BY <2>1 DEF CopiesCounted
    <2>3. \A ch \in Channels : \A g \in notified'[ch] : g \in notified[ch] \/ g = h
      BY <2>1 DEF TypeOK
    <2>4. \A ch \in Channels : \A g \in notified'[ch] \cup deferred'[ch] : created'[g] # Absent
      BY <2>1, <2>2, <2>3 DEF DeferredByNotice
    <2>5. \A ch \in Channels : \A g \in deferred'[ch] :
            \E k \in notified'[ch] : k[1] = g[1] /\ created'[g] < created'[k] + Window[ch]
      BY <1>0, <2>1 DEF DeferredByNotice, Remembered
    <2>6. QED BY <1>0, <2>1, <2>4, <2>5 DEF DeferredByNotice, Of
  <1>4. CASE /\ UNCHANGED <<created, notified, deferred, fired, shut>>
             /\ pc'[e] \in {"idle", "evaluating"} => pc[e] \in {"idle", "evaluating"}
    <2>1. \A f \in Execs : pc'[f] \in {"idle", "evaluating"} => pc[f] \in {"idle", "evaluating"}
      BY <1>0, <1>4 DEF Others
    <2>2. QED BY <1>0, <1>4, <2>1 DEF DeferredByNotice, Of
  <1>5. CASE \/ \E S \in SUBSET Lots, daily \in BOOLEAN : Start(e, S, daily)
             \/ Evaluated(e) \/ Break(e) \/ List(e) \/ Pushed(e) \/ Mailed(e)
    <2>1. /\ UNCHANGED <<created, notified, deferred, fired, shut>>
          /\ pc'[e] \in {"idle", "evaluating"} => pc[e] \in {"idle", "evaluating"}
      BY <1>0, <1>5 DEF Start, Evaluated, Break, List, Pushed, Mailed, Go, rows, work, history, WorkTypeOK
    <2>2. QED BY <1>4, <2>1
  <1>6. CASE \/ EndPush(e) \/ MailMarkFails(e)
             \/ \E a \in Alerts : BeginPush(e, a) \/ Mail(e, a) \/ MailFails(e, a)
             \/ \E d \in Devices : Push(e, d) \/ PushGone(e, d) \/ PushFails(e, d)
    <2>1. UNCHANGED <<created, notified, deferred, fired, shut, pc>>
      BY <1>6 DEF EndPush, MailMarkFails, BeginPush, Mail, MailFails, MailOf, Push, PushGone,
                  PushFails, Sent, Tells, GivesUp, rows, work, history
    <2>2. QED BY <1>4, <2>1
  <1>7. QED
    BY <1>1, <1>2, <1>3, <1>5, <1>6
    DEF ProcessarAposColeta, AvaliarAlertas, AplicarLimites, EnviarPush, EnviarEmail

LEMMA InitCauseInv == Init => CauseInv
  <1> SUFFICES ASSUME Init PROVE CauseInv  OBVIOUS
  <1>1. PassedHasCause    BY DEF Init, PassedHasCause
  <1>2. DeferredByNotice  BY DEF Init, DeferredByNotice
  <1>3. QED BY <1>1, <1>2, InitToldInv DEF CauseInv

LEMMA NextCauseInv == CauseInv /\ [Next]_vars => CauseInv'
  <1> SUFFICES ASSUME CauseInv, [Next]_vars PROVE CauseInv'  OBVIOUS
  <1>1. ToldInv'
    BY NextToldInv DEF CauseInv
  <1>2. CASE Tick \/ (\E d \in Devices, o \in Owners : Subscribe(d, o)) \/ UNCHANGED vars
    <2>1. UNCHANGED <<channels, created, notified, pc, work, notice, history>>
      BY <1>2 DEF Tick, Subscribe, vars, rows
    <2>2. now \in Nat /\ now' \in Nat /\ now <= now'
      BY <1>2, LimitAssumption DEF Tick, Subscribe, vars, CauseInv, ToldInv, TypeOK
    <2>3. PassedHasCause'
      BY <2>1 DEF CauseInv, PassedHasCause, Passed, work, notice, history
    <2>4. \A h \in Hits : created'[h] # Absent => created'[h] <= now'
      BY <2>1, <2>2, LimitAssumption DEF CauseInv, ToldInv, TypeOK, DeferredByNotice
    <2>5. DeferredByNotice'
      BY <2>1, <2>4 DEF CauseInv, DeferredByNotice, Of, work, history
    <2>6. QED BY <1>1, <2>3, <2>5 DEF CauseInv
  <1>3. ASSUME NEW e \in Execs, ProcessarAposColeta(e) PROVE CauseInv'
    BY <1>1, <1>3, PassedStep, DeferredStep DEF CauseInv
  <1>4. QED BY <1>2, <1>3 DEF Next

(* A hit that was not told on a channel of its alert is still in hand, was   *)
(* left out because a notice closed the channel, or nobody could be seen to  *)
(* take it.                                                                  *)
THEOREM SilenceIsExplained == Spec => []SilenceHasCause
  <1>1. CauseInv => SilenceHasCause
    <2> SUFFICES ASSUME CauseInv, NEW ch \in Configured, NEW h \in Hits PROVE
                   /\ created[h] # Absent /\ ch \in channels[h[1]] /\ h \notin notified[ch]
                        => InHand(h) \/ h \in deferred[ch] \cup givenUp[ch]
                   /\ h \in deferred[ch] =>
                        \E g \in notified[ch] : g[1] = h[1] /\ created[h] < created[g] + Window[ch]
      BY DEF SilenceHasCause
    <2>1. ch \in Channels
      BY ChannelAssumption
    <2>2. ASSUME created[h] # Absent, ch \in channels[h[1]], h \notin notified[ch], ~InHand(h)
          PROVE  h \in deferred[ch] \cup givenUp[ch]
      <3>1. PICK e \in Execs : h \in fired[e]
        BY <2>2 DEF CauseInv, ToldInv, HitsOwned
      <3>2. Passed(e, ch, h)
        BY <2>2, <3>1 DEF InHand, Passed
      <3>3. QED BY <2>2, <3>1, <3>2 DEF CauseInv, PassedHasCause
    <2>3. QED BY <2>1, <2>2 DEF CauseInv, DeferredByNotice
  <1>2. Spec => []CauseInv
    BY InitCauseInv, NextCauseInv, PTL DEF Spec
  <1>3. QED BY <1>1, <1>2, PTL

-----------------------------------------------------------------------------
(* The promise.  What a step of e tells, marks, leaves out or gives up is    *)
(* e's own.                                                                  *)
Fates(ch) == notified[ch] \cup deferred[ch] \cup givenUp[ch]

LEMMA OwnFates ==
  ASSUME TypeOK, FatesKept, NEW e \in Execs, ProcessarAposColeta(e)
  PROVE  /\ \A ch \in Channels : Fates(ch)' \subseteq Fates(ch) \cup fired[e]
         /\ \A ch \in Channels : notified'[ch] \subseteq notified[ch] \cup fired[e]
         /\ \A ch \in Channels : deferred'[ch] \subseteq deferred[ch] \cup fired[e]
         /\ \A ch \in Channels : givenUp'[ch] \subseteq givenUp[ch] \cup fired[e]
  <1> DEFINE Own == /\ \A ch \in Channels : notified'[ch] \subseteq notified[ch] \cup fired[e]
                    /\ \A ch \in Channels : deferred'[ch] \subseteq deferred[ch] \cup fired[e]
                    /\ \A ch \in Channels : givenUp'[ch] \subseteq givenUp[ch] \cup fired[e]
  <1>1. /\ notified \in [Channels -> SUBSET Hits] /\ deferred \in [Channels -> SUBSET Hits]
        /\ givenUp \in [Channels -> SUBSET Hits]
    BY DEF TypeOK
  <1>2. \A a : Of(e, a) \subseteq fired[e]
    BY DEF Of
  <1>3. unmarked[e] \subseteq fired[e]
    BY <1>2 DEF FatesKept, FateKept
  <1>4. CASE \/ \E S \in SUBSET Lots, daily \in BOOLEAN : Start(e, S, daily)
             \/ AvaliarAlertas(e) \/ Break(e) \/ List(e) \/ Pushed(e) \/ Mailed(e)
             \/ \E d \in Devices : Push(e, d) \/ PushGone(e, d) \/ PushFails(e, d)
             \/ \E a \in Alerts : Mail(e, a)
    <2>1. UNCHANGED <<notified, deferred, givenUp>>
      BY <1>4 DEF Start, AvaliarAlertas, Evaluated, Evaluate, Break, List, Pushed, Mailed, Push,
                  PushGone, PushFails, Sent, Tells, Mail, MailOf, rows, history
    <2>2. Own  BY <2>1
    <2>3. QED BY <2>2 DEF Fates
  <1>5. ASSUME NEW a \in Alerts, NEW ch \in Channels, Ask(e, a, ch) PROVE Own
    BY <1>1, <1>2, <1>5 DEF Ask, rows
  <1>6. ASSUME NEW h \in Hits, Mark(e, h) PROVE Own
    BY <1>1, <1>3, <1>6 DEF Mark, history
  <1>7. CASE \/ EndPush(e) \/ MailMarkFails(e)
             \/ \E a \in Alerts : BeginPush(e, a) \/ MailFails(e, a)
    <2>1. /\ UNCHANGED <<notified, deferred>>
          /\ givenUp' = givenUp \/ \E ch \in Channels : \E S \in SUBSET fired[e] : GivesUp(ch, S)
      BY <1>2, <1>3, <1>7 DEF EndPush, MailMarkFails, BeginPush, MailFails, MailOf, rows, Channels
    <2>2. Own  BY <1>1, <2>1 DEF GivesUp
    <2>3. QED BY <2>2 DEF Fates
  <1>8. QED
    BY <1>4, <1>5, <1>6, <1>7
    DEF ProcessarAposColeta, AplicarLimites, EnviarPush, EnviarEmail, Fates

(* So the other executions' fates are not disturbed.                         *)
LEMMA OthersFates ==
  ASSUME TypeOK, HitsOwned, FatesKept, NEW e \in Execs, ProcessarAposColeta(e),
         NEW f \in Execs, f # e
  PROVE  FateKept(f)'
  <1>1. /\ pc'[f] = pc[f] /\ todo'[f] = todo[f] /\ fired'[f] = fired[f] /\ shut'[f] = shut[f]
        /\ alert'[f] = alert[f] /\ reached'[f] = reached[f] /\ unmarked'[f] = unmarked[f]
    BY WorkTyped, OthersStay DEF Others
  <1>2. \A ch \in Channels : \A h \in fired[f] :
          /\ h \in notified'[ch] => h \in notified[ch]
          /\ h \in deferred'[ch] => h \in deferred[ch]
          /\ h \in givenUp'[ch]  => h \in givenUp[ch]
    BY OwnFates DEF HitsOwned
  <1>3. \A a : Of(f, a)' = Of(f, a) /\ Of(f, a) \subseteq fired[f]
    BY <1>1 DEF Of
  <1>4. \A ch, a : Untold(f, ch, a)' <=> Untold(f, ch, a)
    BY <1>1 DEF Untold
  <1>5. FateKept(f)
    BY DEF FatesKept
  <1>6. "push" \in Channels
    BY DEF Channels
  <1>7. QED BY <1>1, <1>2, <1>3, <1>4, <1>5, <1>6 DEF FateKept

(* What is given up has a row.                                               *)
LEMMA GivenUpCreated ==
  ASSUME TypeOK, HitsOwned, FatesKept, NEW e \in Execs, ProcessarAposColeta(e)
  PROVE  \A ch \in Channels : \A h \in givenUp'[ch] : created'[h] # Absent
  <1>1. \A h \in Hits : created[h] # Absent => created'[h] # Absent
    <2>1. CASE UNCHANGED created
      BY <2>1
    <2>2. ASSUME NEW a \in Alerts, Evaluate(e, a)
          PROVE  \A h \in Hits : created[h] # Absent => created'[h] # Absent
      BY <2>2, EvaluateInserts
    <2>3. QED BY <2>1, <2>2, HitsKept
  <1>2. \A h \in fired[e] : h \in Hits /\ created[h] # Absent
    BY DEF HitsOwned, TypeOK
  <1>3. \A ch \in Channels : givenUp[ch] \subseteq Hits
    BY DEF TypeOK
  <1>4. QED BY <1>1, <1>2, <1>3, OwnFates DEF FatesKept

(* The steps of e before it tells, and those that end it.                    *)
LEMMA BeforeFates ==
  ASSUME CauseInv, FatesKept, NEW e \in Execs,
         \/ \E S \in SUBSET Lots, daily \in BOOLEAN : Start(e, S, daily)
         \/ Evaluated(e) \/ Mailed(e) \/ Break(e)
  PROVE  FateKept(e)'
  <1> USE DEF CauseInv, ToldInv
  <1>0. WorkTypeOK /\ FateKept(e)
    BY WorkTyped DEF FatesKept
  <1>1. UNCHANGED <<notified, deferred, givenUp, fired, shut, alert, unmarked>>
    BY DEF Start, Evaluated, Mailed, Break, rows, work, notice, history
  <1>2. /\ pc'[e] \in {"evaluating", "limiting", "ended", "broken"}
        /\ \/ fired[e] = {}
           \/ pc'[e] = "limiting" /\ pc[e] = "evaluating"
           \/ pc'[e] \in {"ended", "broken"}
    BY <1>0 DEF Start, Evaluated, Mailed, Break, Go, WorkTypeOK, HitsOwned
  <1>3. \A ch \in Channels : \A h \in fired[e] : Untold(e, ch, h[1])' => Untold(e, ch, h[1])
    BY <1>2 DEF Untold, Channels
  <1>4. pc'[e] \notin Channels
    BY <1>2 DEF Channels
  <1>5. QED BY <1>0, <1>1, <1>3, <1>4 DEF FateKept, Of, Channels

(* What an evaluation inserts nobody has left out or given up.               *)
LEMMA EvaluateFates ==
  ASSUME CauseInv, FatesKept, NEW e \in Execs, NEW a \in Alerts, Evaluate(e, a)
  PROVE  FateKept(e)'
  <1> USE DEF CauseInv, ToldInv
  <1>0. WorkTypeOK /\ FateKept(e)
    BY WorkTyped DEF FatesKept
  <1>1. PICK S \in SUBSET Hits :
          /\ \A h \in S : created[h] = Absent /\ \A f \in Execs : h \notin fired[f]
          /\ fired' = [fired EXCEPT ![e] = @ \cup S]
          /\ \A h \in Hits : created'[h] = IF h \in S THEN now ELSE created[h]
          /\ now # Absent /\ now \in Nat
    BY EvaluateInserts
  <1>2. /\ UNCHANGED <<notified, deferred, givenUp, pc, shut, alert, unmarked>>
        /\ pc[e] = "evaluating"
    BY DEF Evaluate, notice, history
  <1>3. unmarked[e] = {}
    BY <1>2 DEF NoticeShape
  <1>4. fired'[e] = fired[e] \cup S
    BY <1>0, <1>1 DEF WorkTypeOK
  <1>5. \A ch \in Channels : \A h \in S : h \notin deferred[ch] /\ h \notin givenUp[ch]
    BY <1>1 DEF DeferredByNotice, FatesKept
  <1>6. \A ch \in Channels : \A h \in fired[e] :
          (h \in deferred[ch] => <<h[1], ch>> \in shut[e]) /\ h \notin givenUp[ch]
    BY <1>0, <1>2 DEF FateKept, Untold
  <1>7. pc'[e] \notin Channels /\ pc'[e] # "push"
    BY <1>2 DEF Channels
  <1>8. QED BY <1>2, <1>3, <1>4, <1>5, <1>6, <1>7 DEF FateKept

LEMMA AskFates ==
  ASSUME CauseInv, FatesKept, NEW e \in Execs, NEW a \in Alerts, NEW ch \in Channels, Ask(e, a, ch)
  PROVE  FateKept(e)'
  <1> USE DEF CauseInv, ToldInv
  <1>0. WorkTypeOK /\ FateKept(e) /\ deferred \in [Channels -> SUBSET Hits]
    BY WorkTyped DEF FatesKept, TypeOK
  <1>1. /\ UNCHANGED <<notified, givenUp, pc, fired, alert, unmarked>> /\ pc[e] = "limiting"
        /\ \/ UNCHANGED <<shut, deferred>>
           \/ /\ shut' = [shut EXCEPT ![e] = @ \cup {<<a, ch>>}]
              /\ deferred' = [deferred EXCEPT ![ch] = @ \cup Of(e, a)]
    BY DEF Ask, rows, notice
  <1>2. \A c \in Channels : \A h \in fired[e] : h \in deferred'[c] => <<h[1], c>> \in shut'[e]
    <2>1. CASE UNCHANGED <<shut, deferred>>
      BY <1>0, <2>1 DEF FateKept
    <2>2. CASE /\ shut' = [shut EXCEPT ![e] = @ \cup {<<a, ch>>}]
               /\ deferred' = [deferred EXCEPT ![ch] = @ \cup Of(e, a)]
      <3>1. \A c \in Channels : \A h \in deferred'[c] : h \in deferred[c] \/ (c = ch /\ h[1] = a)
        BY <1>0, <2>2 DEF Of
      <3>2. shut'[e] = shut[e] \cup {<<a, ch>>}
        BY <1>0, <2>2 DEF WorkTypeOK
      <3>3. QED BY <1>0, <3>1, <3>2 DEF FateKept
    <2>3. QED BY <1>1, <2>1, <2>2
  <1>3. pc'[e] \notin Channels
    BY <1>1 DEF Channels
  <1>4. \A c \in Channels : \A h \in fired[e] : h \notin givenUp[c]
    BY <1>0, <1>1 DEF FateKept, Untold
  <1>5. QED BY <1>0, <1>1, <1>2, <1>3, <1>4 DEF FateKept, Of, Channels

(* A channel is entered with the alerts that are not shut on it.             *)
LEMMA OpenFates ==
  ASSUME CauseInv, FatesKept, NEW e \in Execs, List(e) \/ Pushed(e)
  PROVE  FateKept(e)'
  <1> USE DEF CauseInv, ToldInv
  <1>0. WorkTypeOK /\ FateKept(e)
    BY WorkTyped DEF FatesKept
  <1>1. /\ UNCHANGED <<notified, deferred, givenUp, fired, shut, alert, unmarked, reached>>
        /\ alert[e] = Absent
    BY DEF List, Pushed, rows, notice, history, NoticeShape
  <1>2. PICK ch \in Channels : pc'[e] = ch /\ todo'[e] = Open(e, ch)
    BY <1>0 DEF List, Pushed, Go, WorkTypeOK, Channels
  <1>3. unmarked[e] = {} /\ ~reached[e]
    BY <1>1 DEF NoticeShape
  <1>4. \A c \in Channels : \A h \in fired[e] : Untold(e, c, h[1])' => Untold(e, c, h[1])
    BY <1>0, <1>1 DEF List, Pushed, Go, WorkTypeOK, Untold, Channels
  <1>5. \A a \in todo'[e] \cup {alert'[e]} : <<a, ch>> \notin shut[e]
    BY <1>0, <1>1, <1>2, AbsentIsNothing DEF Open, WorkTypeOK
  <1>6. QED BY <1>0, <1>1, <1>2, <1>3, <1>4, <1>5 DEF FateKept

(* Of what e has still to tell on the channel nothing is known there.        *)
LEMMA UntoldIsFree ==
  ASSUME CauseInv, FatesKept, NEW e \in Execs, NEW ch \in Channels, NEW a \in Alerts,
         Untold(e, ch, a), NEW h \in Of(e, a)
  PROVE  /\ h \in Hits /\ h \in fired[e] /\ h[1] = a /\ created[h] # Absent
         /\ copies[ch][h] = 0 /\ h \notin notified[ch] \cup givenUp[ch]
         /\ <<a, ch>> \notin shut[e] => h \notin deferred[ch]
  <1>1. h \in fired[e] /\ h[1] = a /\ h \in Hits
    BY WorkTyped DEF Of, WorkTypeOK, CauseInv, ToldInv
  <1>2. created[h] # Absent
    BY <1>1 DEF CauseInv, ToldInv, HitsOwned
  <1>3. copies[ch][h] = 0
    BY <1>1 DEF CauseInv, ToldInv, CopiesCounted
  <1>4. h \notin notified[ch]
    BY <1>1, <1>3 DEF CauseInv, ToldInv, ToldOnce
  <1>5. FateKept(e)
    BY DEF FatesKept
  <1>6. /\ h \notin givenUp[ch]
        /\ <<a, ch>> \notin shut[e] => h \notin deferred[ch]
    BY <1>1, <1>5 DEF FateKept
  <1>7. QED BY <1>1, <1>2, <1>3, <1>4, <1>6

LEMMA PushFates ==
  ASSUME CauseInv, FatesKept, NEW e \in Execs, EnviarPush(e), ~List(e), ~Pushed(e)
  PROVE  FateKept(e)'
  <1> USE DEF CauseInv, ToldInv
  <1>0. WorkTypeOK /\ FateKept(e) /\ givenUp \in [Channels -> SUBSET Hits] /\ "push" \in Channels
    BY WorkTyped DEF FatesKept, TypeOK, Channels
  <1>1. /\ pc[e] = "push"
        /\ UNCHANGED <<fired, pc, shut, notified, deferred>>
    BY DEF EnviarPush, EndPush, BeginPush, Push, PushGone, PushFails, Sent, rows, work
  <1>2. /\ alert[e] \notin todo[e]
        /\ \A a \in todo[e] \cup {alert[e]} : <<a, "push">> \notin shut[e]
        /\ <<Absent, "push">> \notin shut[e]
    BY <1>0, <1>1, AbsentIsNothing DEF NoticeShape, FateKept, WorkTypeOK
  <1>3. \A h \in fired[e] : h[1] \in Alerts /\ h[1] # Absent
    BY <1>0, AbsentIsNothing DEF WorkTypeOK, Hits
  <1>4. ASSUME NEW a \in Alerts, BeginPush(e, a) PROVE FateKept(e)'
    <2>1. /\ UNCHANGED <<unmarked, reached>> /\ alert[e] = Absent
          /\ todo'[e] = todo[e] \ {a} /\ a \in todo[e]
          /\ \/ alert'[e] = a /\ GivesUp("push", {})
             \/ alert'[e] = Absent /\ GivesUp("push", Of(e, a))
      BY <1>0, <1>4 DEF BeginPush, WorkTypeOK
    <2>2. unmarked[e] = {} /\ ~reached[e]
      BY <2>1 DEF NoticeShape
    <2>3. \A c \in Channels : \A h \in fired[e] : Untold(e, c, h[1])' => Untold(e, c, h[1])
      BY <1>1, <1>3, <2>1, <2>2 DEF Untold
    <2>4. ASSUME NEW c \in Channels, NEW h \in fired[e], Untold(e, c, h[1])' PROVE h \notin givenUp'[c]
      <3>1. h \notin givenUp[c]
        BY <1>0, <2>3, <2>4 DEF FateKept
      <3>2. CASE alert'[e] = a /\ GivesUp("push", {})
        BY <1>0, <3>1, <3>2 DEF GivesUp
      <3>3. CASE alert'[e] = Absent /\ GivesUp("push", Of(e, a))
        <4>1. ~(c = "push" /\ h \in Of(e, a))
          BY <1>1, <1>3, <2>1, <2>4, <3>3 DEF Untold, Of
        <4>2. QED BY <1>0, <3>1, <3>3, <4>1 DEF GivesUp
      <3>4. QED BY <2>1, <3>2, <3>3
    <2>5. \A b \in todo'[e] \cup {alert'[e]} : <<b, "push">> \notin shut[e]
      BY <1>2, <2>1
    <2>6. QED BY <1>0, <1>1, <2>1, <2>2, <2>4, <2>5 DEF FateKept
  <1>5. ASSUME NEW d \in Devices, Push(e, d) \/ PushGone(e, d) \/ PushFails(e, d) PROVE FateKept(e)'
    <2>1. /\ UNCHANGED <<todo, alert, unmarked, givenUp>> /\ left[e] # {}
          /\ reached'[e] => reached[e] \/ (reached'[e] = TRUE /\ Push(e, d))
      BY <1>0, <1>5 DEF Push, PushGone, PushFails, Sent, work, WorkTypeOK
    <2>2. \A c \in Channels : \A h \in fired[e] : Untold(e, c, h[1])' => Untold(e, c, h[1])
      <3>1. reached[e] => reached'[e]
        BY <1>0, <1>5 DEF Push, PushGone, PushFails, WorkTypeOK
      <3>2. QED BY <1>1, <2>1, <3>1 DEF Untold
    <2>3. unmarked[e] = {} /\ alert[e] # Absent
      BY <2>1 DEF NoticeShape
    <2>4. \A h \in Of(e, alert[e]) : h \notin notified["push"] \cup givenUp["push"]
      <3>1. CASE reached[e]
        BY <1>0, <1>1, <3>1 DEF FateKept
      <3>2. CASE ~reached[e]
        <4>1. alert[e] \in Alerts
          BY <1>0, <2>3 DEF WorkTypeOK
        <4>2. Untold(e, "push", alert[e])
          BY <1>1, <2>3, <3>2 DEF Untold
        <4>3. QED BY <1>0, <4>1, <4>2, UntoldIsFree
      <3>3. QED BY <3>1, <3>2
    <2>5. QED BY <1>0, <1>1, <1>2, <2>1, <2>2, <2>3, <2>4 DEF FateKept, Of
  <1>6. CASE EndPush(e)
    <2>1. /\ UNCHANGED todo /\ alert[e] \in Alerts /\ reached'[e] = FALSE
          /\ \/ /\ reached[e] /\ unmarked'[e] = Of(e, alert[e])
                /\ alert'[e] = alert[e] /\ UNCHANGED givenUp
             \/ /\ unmarked'[e] = {} /\ alert'[e] = Absent
                /\ GivesUp("push", Of(e, alert[e]))
      BY <1>0, <1>6 DEF EndPush, work, WorkTypeOK
    <2>2. \A c \in Channels : \A h \in fired[e] : Untold(e, c, h[1])' => Untold(e, c, h[1])
      <3>1. \A h \in fired[e] : h[1] = alert[e] => h \in Of(e, alert[e])
        BY DEF Of
      <3>2. QED BY <1>1, <1>3, <2>1, <3>1 DEF Untold
    <2>3. ASSUME NEW c \in Channels, NEW h \in fired[e], Untold(e, c, h[1])' PROVE h \notin givenUp'[c]
      <3>1. h \notin givenUp[c]
        BY <1>0, <2>2, <2>3 DEF FateKept
      <3>2. CASE UNCHANGED givenUp
        BY <3>1, <3>2
      <3>3. CASE alert'[e] = Absent /\ GivesUp("push", Of(e, alert[e]))
        <4>1. ~(c = "push" /\ h \in Of(e, alert[e]))
          BY <1>1, <1>2, <1>3, <2>1, <2>3, <3>3 DEF Untold, Of
        <4>2. QED BY <1>0, <3>1, <3>3, <4>1 DEF GivesUp
      <3>4. QED BY <2>1, <3>2, <3>3
    <2>4. \A h \in unmarked'[e] : h \notin notified["push"] \cup givenUp'["push"]
      BY <1>0, <1>1, <2>1 DEF FateKept
    <2>5. unmarked'[e] \subseteq Of(e, alert[e])' /\ ~reached'[e]
      BY <1>1, <2>1 DEF Of
    <2>6. \A b \in todo'[e] \cup {alert'[e]} : <<b, "push">> \notin shut[e]
      BY <1>2, <2>1
    <2>7. QED BY <1>0, <1>1, <2>3, <2>4, <2>5, <2>6 DEF FateKept
  <1>7. QED BY <1>4, <1>5, <1>6 DEF EnviarPush

LEMMA MailFates ==
  ASSUME CauseInv, FatesKept, NEW e \in Execs, EnviarEmail(e), ~Mailed(e)
  PROVE  FateKept(e)'
  <1> USE DEF CauseInv, ToldInv
  <1>0. WorkTypeOK /\ FateKept(e) /\ givenUp \in [Channels -> SUBSET Hits] /\ "email" \in Channels
    BY WorkTyped DEF FatesKept, TypeOK, Channels
  <1>1. /\ pc[e] = "email"
        /\ UNCHANGED <<fired, pc, shut, notified, deferred>>
    BY DEF EnviarEmail, MailMarkFails, Mail, MailFails, MailOf, rows, work
  <1>2. /\ alert[e] \notin todo[e]
        /\ \A a \in todo[e] \cup {alert[e]} : <<a, "email">> \notin shut[e]
        /\ <<Absent, "email">> \notin shut[e]
    BY <1>0, <1>1, AbsentIsNothing DEF NoticeShape, FateKept, WorkTypeOK
  <1>3. ASSUME NEW a \in Alerts, Mail(e, a) \/ MailFails(e, a) PROVE FateKept(e)'
    <2>1. /\ todo'[e] = todo[e] \ {a} /\ a \in todo[e] /\ alert[e] = Absent
          /\ \/ alert'[e] = a /\ unmarked'[e] = Of(e, a) /\ UNCHANGED givenUp
             \/ UNCHANGED <<alert, unmarked>> /\ GivesUp("email", Of(e, a))
      BY <1>0, <1>3 DEF Mail, MailFails, MailOf, WorkTypeOK
    <2>2. unmarked[e] = {}
      BY <2>1 DEF NoticeShape
    <2>3. \A c \in Channels : \A h \in fired[e] :
            Untold(e, c, h[1])' => Untold(e, c, h[1]) /\ ~(c = "email" /\ h \in Of(e, a))
      BY <1>1, <2>1 DEF Untold, Of
    <2>4. \A c \in Channels : \A h \in fired[e] : Untold(e, c, h[1])' => h \notin givenUp'[c]
      BY <1>0, <2>1, <2>3 DEF FateKept, GivesUp
    <2>5. \A h \in Of(e, a) : h \notin notified["email"] \cup givenUp["email"]
      <3>1. Untold(e, "email", a)
        BY <1>1, <2>1 DEF Untold
      <3>2. QED BY <1>0, <3>1, UntoldIsFree
    <2>6. /\ unmarked'[e] \subseteq Of(e, alert[e])'
          /\ \A h \in unmarked'[e] : h \notin notified'["email"] \cup givenUp'["email"]
      BY <1>1, <2>1, <2>2, <2>5 DEF Of
    <2>7. \A b \in todo'[e] \cup {alert'[e]} : <<b, "email">> \notin shut[e]
      BY <1>2, <2>1
    <2>8. QED BY <1>0, <1>1, <2>4, <2>6, <2>7 DEF FateKept
  <1>4. CASE MailMarkFails(e)
    <2>1. /\ UNCHANGED todo /\ unmarked'[e] = {} /\ alert'[e] = Absent
          /\ GivesUp("email", unmarked[e])
      BY <1>0, <1>4 DEF MailMarkFails, work, WorkTypeOK
    <2>2. \A c \in Channels : \A h \in fired[e] :
            Untold(e, c, h[1])' => Untold(e, c, h[1]) /\ ~(c = "email" /\ h \in unmarked[e])
      <3>1. \A h \in unmarked[e] : h[1] = alert[e]
        BY <1>0 DEF FateKept, Of
      <3>2. QED BY <1>1, <1>2, <2>1, <3>1 DEF Untold
    <2>3. \A c \in Channels : \A h \in fired[e] : Untold(e, c, h[1])' => h \notin givenUp'[c]
      BY <1>0, <2>1, <2>2 DEF FateKept, GivesUp
    <2>4. \A b \in todo'[e] \cup {alert'[e]} : <<b, "email">> \notin shut[e]
      BY <1>2, <2>1
    <2>5. QED BY <1>0, <1>1, <2>1, <2>3, <2>4 DEF FateKept
  <1>5. QED BY <1>3, <1>4 DEF EnviarEmail

LEMMA MarkFates ==
  ASSUME CauseInv, FatesKept, NEW e \in Execs, NEW h \in Hits, Mark(e, h)
  PROVE  FateKept(e)'
  <1> USE DEF CauseInv, ToldInv
  <1>0. WorkTypeOK /\ FateKept(e) /\ notified \in [Channels -> SUBSET Hits]
    BY WorkTyped DEF FatesKept, TypeOK
  <1>1. /\ h \in unmarked[e] /\ pc[e] \in Channels
        /\ notified' = [notified EXCEPT ![pc[e]] = @ \cup {h}]
        /\ unmarked'[e] = unmarked[e] \ {h}
        /\ alert'[e] = IF unmarked[e] = {h} THEN Absent ELSE alert[e]
        /\ UNCHANGED <<created, fired, shut, copies, pc, todo, reached, deferred, givenUp>>
    BY <1>0 DEF Mark, work, history, WorkTypeOK
  <1>2. ~reached[e]
    BY <1>1 DEF NoticeShape
  <1>3. \A ch \in Channels : \A g \in fired[e] : Untold(e, ch, g[1])' => Untold(e, ch, g[1])
    <2>1. \A g \in fired[e] : g[1] # Absent
      BY <1>0, AbsentIsNothing DEF WorkTypeOK, Hits
    <2>2. unmarked'[e] = {} => alert'[e] = Absent
      BY <1>1
    <2>3. QED BY <1>1, <2>1, <2>2 DEF Untold
  <1>4. unmarked'[e] \subseteq Of(e, alert[e])'
    BY <1>0, <1>1 DEF FateKept, Of
  <1>5. \A g \in unmarked'[e] : g \notin notified'[pc[e]] \cup givenUp[pc[e]]
    BY <1>0, <1>1 DEF FateKept
  <1>6. \A b \in todo[e] \cup {alert'[e]} : <<b, pc[e]>> \notin shut[e]
    BY <1>0, <1>1, AbsentIsNothing DEF FateKept, WorkTypeOK
  <1>7. QED BY <1>0, <1>1, <1>2, <1>3, <1>4, <1>5, <1>6 DEF FateKept

LEMMA InitNoticeInv == Init => NoticeInv
  <1> SUFFICES ASSUME Init PROVE NoticeInv  OBVIOUS
  <1>1. FatesKept
    BY DEF Init, FatesKept, FateKept, Channels
  <1>2. QED BY <1>1, InitCauseInv DEF NoticeInv

LEMMA NextNoticeInv == NoticeInv /\ [Next]_vars => NoticeInv'
  <1> SUFFICES ASSUME NoticeInv, [Next]_vars PROVE NoticeInv'  OBVIOUS
  <1>1. CauseInv'
    BY NextCauseInv DEF NoticeInv
  <1>2. CASE Tick \/ (\E d \in Devices, o \in Owners : Subscribe(d, o)) \/ UNCHANGED vars
    <2>1. UNCHANGED <<created, notified, pc, work, notice, history>>
      BY <1>2 DEF Tick, Subscribe, vars, rows
    <2>2. QED
      BY <1>1, <2>1 DEF NoticeInv, FatesKept, FateKept, Untold, Of, work, notice, history
  <1>3. ASSUME NEW e \in Execs, ProcessarAposColeta(e) PROVE NoticeInv'
    <2> USE DEF NoticeInv
    <2>1. TypeOK /\ HitsOwned
      BY DEF CauseInv, ToldInv
    <2>2. FateKept(e)'
      BY <1>3, BeforeFates, EvaluateFates, AskFates, OpenFates, PushFates, MailFates, MarkFates
      DEF ProcessarAposColeta, AvaliarAlertas, AplicarLimites
    <2>3. \A f \in Execs : f # e => FateKept(f)'
      BY <1>3, <2>1, OthersFates
    <2>4. QED BY <1>1, <1>3, <2>1, <2>2, <2>3, GivenUpCreated DEF FatesKept
  <1>4. QED BY <1>2, <1>3 DEF Next

-----------------------------------------------------------------------------
(* Each step is one of the promise, or leaves it alone.                      *)
Kept == [Promise!NNext]_(Promise!nvars)

LEMMA InitPromise == Init => Promise!NInit
  <1>1. QED BY DEF Init, Promise!NInit, Promise!Matches, Hits

LEMMA OfIsOneAlerts ==
  ASSUME WorkTypeOK, NEW e \in Execs, NEW a \in Alerts
  PROVE  /\ Of(e, a) \in SUBSET Promise!Matches
         /\ Of(e, a) \subseteq {a} \X Lots
         /\ Promise!OfOneAlert(Of(e, a))
  <1>1. \A h \in Of(e, a) : h \in Alerts \X Lots /\ h[1] = a
    BY DEF Of, WorkTypeOK, Hits
  <1>2. Of(e, a) \subseteq {a} \X Lots
    BY <1>1
  <1>3. QED BY <1>1, <1>2 DEF Promise!OfOneAlert, Promise!Matches

LEMMA QuietKept ==
  ASSUME UNCHANGED <<now, created, copies, notified, deferred, givenUp>>
  PROVE  Kept
  <1>1. QED BY DEF Kept, Promise!nvars

(* A notice of what e has still to tell, in a channel that is not shut.      *)
LEMMA NoticeKept ==
  ASSUME NoticeInv, NEW e \in Execs, NEW ch \in Channels, NEW a \in Alerts,
         Untold(e, ch, a), <<a, ch>> \notin shut[e], Tells(ch, Of(e, a)),
         givenUp' = givenUp \/ GivesUp(ch, Of(e, a)),
         UNCHANGED <<now, created, notified, deferred>>
  PROVE  Kept
  <1>1. WorkTypeOK
    BY WorkTyped DEF NoticeInv, CauseInv, ToldInv
  <1>2. \A h \in Of(e, a) : Promise!Due(ch, h)
    BY UntoldIsFree DEF NoticeInv, Promise!Due
  <1>3. Promise!Notice(ch, Of(e, a))
    BY <1>1, <1>2, OfIsOneAlerts DEF Promise!Notice, Promise!Matches, Tells, GivesUp, Hits
  <1>4. QED BY <1>1, <1>3, OfIsOneAlerts DEF Kept, Promise!NNext

(* What e has still to tell is given up.                                     *)
LEMMA LossKept ==
  ASSUME NoticeInv, NEW e \in Execs, NEW ch \in Channels, NEW a \in Alerts,
         NEW S \in SUBSET Of(e, a), <<a, ch>> \notin shut[e],
         \A h \in S : h \notin notified[ch] \cup givenUp[ch],
         GivesUp(ch, S), UNCHANGED <<now, created, copies, notified, deferred>>
  PROVE  Kept
  <1>1. WorkTypeOK
    BY WorkTyped DEF NoticeInv, CauseInv, ToldInv
  <1>2. \A h \in S : h \in fired[e] /\ h \in Hits /\ h[1] = a
    BY <1>1 DEF Of, WorkTypeOK
  <1>3. \A h \in S : created[h] # Absent /\ h \notin deferred[ch]
    BY <1>2 DEF NoticeInv, CauseInv, ToldInv, HitsOwned, FatesKept, FateKept
  <1>4. S \in SUBSET Promise!Matches /\ Promise!OfOneAlert(S)
    BY <1>1, OfIsOneAlerts DEF Promise!OfOneAlert
  <1>5. Promise!Lose(ch, S)
    BY <1>3, <1>4 DEF Promise!Lose, GivesUp
  <1>6. QED BY <1>4, <1>5 DEF Kept, Promise!NNext

LEMMA EvaluateKept ==
  ASSUME NoticeInv, NEW e \in Execs, NEW a \in Alerts, Evaluate(e, a)
  PROVE  Kept
  <1>1. PICK found \in SUBSET novos[e] :
          created' = [h \in Hits |-> IF h \in Fires(e, a, found) THEN now ELSE created[h]]
    BY DEF Evaluate
  <1>2. UNCHANGED <<now, copies, notified, deferred, givenUp>>
    BY DEF Evaluate, history
  <1>3. /\ Fires(e, a, found) \in SUBSET Promise!Matches
        /\ \A h \in Fires(e, a, found) : created[h] = Absent
    BY DEF Fires, NoticeInv, CauseInv, ToldInv, TypeOK, Promise!Matches
  <1>4. Promise!Find(Fires(e, a, found))
    BY <1>1, <1>2, <1>3 DEF Promise!Find, Promise!Matches, Hits
  <1>5. QED BY <1>3, <1>4 DEF Kept, Promise!NNext

LEMMA AskKept ==
  ASSUME NoticeInv, NEW e \in Execs, NEW a \in Alerts, NEW ch \in Channels, Ask(e, a, ch)
  PROVE  Kept
  <1>0. WorkTypeOK
    BY WorkTyped DEF NoticeInv, CauseInv, ToldInv
  <1>1. UNCHANGED <<now, created, copies, notified, givenUp>> /\ pc[e] = "limiting"
    BY DEF Ask, rows
  <1>2. CASE UNCHANGED deferred
    BY <1>1, <1>2, QuietKept
  <1>3. CASE Closed(a, ch) /\ deferred' = [deferred EXCEPT ![ch] = @ \cup Of(e, a)]
    <2>1. PICK g \in notified[ch] : g[1] = a /\ now < created[g] + Window[ch]
      BY <1>3 DEF Closed
    <2>2. Untold(e, ch, a)
      BY <1>1 DEF Untold
    <2>3. CASE <<a, ch>> \notin shut[e]
      <3>1. \A h \in Of(e, a) : Promise!Due(ch, h)
        BY <2>2, <2>3, UntoldIsFree DEF NoticeInv, Promise!Due
      <3>2. Promise!LeaveOut(ch, a, Of(e, a))
        BY <1>0, <1>1, <1>3, <2>1, <3>1, OfIsOneAlerts DEF Promise!LeaveOut
      <3>3. QED BY <1>0, <3>2, OfIsOneAlerts DEF Kept, Promise!NNext
    <2>4. CASE <<a, ch>> \in shut[e]
      <3>1. Of(e, a) \subseteq deferred[ch] /\ deferred \in [Channels -> SUBSET Hits]
        <4>1. PICK p \in shut[e] : p[1] = a /\ p[2] = ch
          BY <2>4
        <4>2. Of(e, p[1]) \subseteq deferred[p[2]]
          BY DEF NoticeInv, CauseInv, DeferredByNotice
        <4>3. QED BY <4>1, <4>2 DEF NoticeInv, CauseInv, ToldInv, TypeOK, Of
      <3>2. deferred' = deferred
        BY <1>3, <3>1
      <3>3. QED BY <1>1, <3>2, QuietKept
    <2>5. QED BY <2>3, <2>4
  <1>4. QED BY <1>2, <1>3 DEF Ask

LEMMA PushKept ==
  ASSUME NoticeInv, NEW e \in Execs, EnviarPush(e)
  PROVE  Kept
  <1> USE DEF NoticeInv
  <1>0. WorkTypeOK /\ FateKept(e) /\ "push" \in Channels
    BY WorkTyped DEF CauseInv, ToldInv, FatesKept, Channels
  <1>1. CASE List(e) \/ Pushed(e)
    BY <1>1, QuietKept DEF List, Pushed, rows, history
  <1>2. ASSUME NEW a \in Alerts, BeginPush(e, a) PROVE Kept
    <2>1. /\ UNCHANGED <<now, created, copies, notified, deferred>>
          /\ pc[e] = "push" /\ a \in todo[e]
          /\ \E S \in {{}, Of(e, a)} : GivesUp("push", S)
      BY <1>2 DEF BeginPush, rows
    <2>2. PICK S \in SUBSET Of(e, a) : GivesUp("push", S)
      BY <2>1
    <2>3. <<a, "push">> \notin shut[e] /\ Untold(e, "push", a)
      BY <1>0, <2>1 DEF FateKept, Untold
    <2>4. \A h \in S : h \notin notified["push"] \cup givenUp["push"]
      BY <1>0, <2>3, UntoldIsFree
    <2>5. QED BY <1>0, <2>1, <2>2, <2>3, <2>4, LossKept
  <1>3. ASSUME NEW d \in Devices, Push(e, d) \/ PushGone(e, d) \/ PushFails(e, d) PROVE Kept
    <2>1. /\ UNCHANGED <<now, created, notified, deferred, givenUp>>
          /\ pc[e] = "push" /\ d \in left[e]
          /\ UNCHANGED copies \/ (~reached[e] /\ Tells("push", Of(e, alert[e])))
      BY <1>3 DEF Push, PushGone, PushFails, Sent
    <2>2. CASE UNCHANGED copies
      BY <2>1, <2>2, QuietKept
    <2>3. CASE ~reached[e] /\ Tells("push", Of(e, alert[e]))
      <3>1. unmarked[e] = {} /\ alert[e] # Absent
        BY <2>1 DEF CauseInv, ToldInv, NoticeShape
      <3>2. PICK a \in Alerts : a = alert[e]
        BY <1>0, <3>1 DEF WorkTypeOK
      <3>3. <<a, "push">> \notin shut[e] /\ Untold(e, "push", a) /\ Tells("push", Of(e, a))
        BY <1>0, <2>1, <2>3, <3>1, <3>2 DEF FateKept, Untold
      <3>4. QED BY <1>0, <2>1, <3>3, NoticeKept
    <2>4. QED BY <2>1, <2>2, <2>3
  <1>4. CASE EndPush(e)
    <2>1. /\ UNCHANGED <<now, created, copies, notified, deferred>>
          /\ pc[e] = "push" /\ alert[e] # Absent /\ unmarked[e] = {}
          /\ UNCHANGED givenUp \/ (~reached[e] /\ GivesUp("push", Of(e, alert[e])))
      BY <1>4 DEF EndPush, rows
    <2>2. CASE UNCHANGED givenUp
      BY <2>1, <2>2, QuietKept
    <2>3. CASE ~reached[e] /\ GivesUp("push", Of(e, alert[e]))
      <3>1. PICK a \in Alerts : a = alert[e]
        BY <1>0, <2>1 DEF WorkTypeOK
      <3>2. <<a, "push">> \notin shut[e] /\ Untold(e, "push", a) /\ GivesUp("push", Of(e, a))
        BY <1>0, <2>1, <2>3, <3>1 DEF FateKept, Untold
      <3>3. \A h \in Of(e, a) : h \notin notified["push"] \cup givenUp["push"]
        BY <1>0, <3>2, UntoldIsFree
      <3>4. PICK S \in SUBSET Of(e, a) : S = Of(e, a)
        OBVIOUS
      <3>5. GivesUp("push", S) /\ \A h \in S : h \notin notified["push"] \cup givenUp["push"]
        BY <3>2, <3>3, <3>4
      <3>6. QED BY <1>0, <2>1, <3>2, <3>5, LossKept
    <2>4. QED BY <2>1, <2>2, <2>3
  <1>5. QED BY <1>1, <1>2, <1>3, <1>4 DEF EnviarPush

LEMMA MailKept ==
  ASSUME NoticeInv, NEW e \in Execs, EnviarEmail(e)
  PROVE  Kept
  <1> USE DEF NoticeInv
  <1>0. WorkTypeOK /\ FateKept(e) /\ "email" \in Channels
    BY WorkTyped DEF CauseInv, ToldInv, FatesKept, Channels
  <1>1. CASE Mailed(e)
    BY <1>1, QuietKept DEF Mailed, rows, history
  <1>2. ASSUME NEW a \in Alerts, Mail(e, a) \/ MailFails(e, a) PROVE Kept
    <2>1. /\ UNCHANGED <<now, created, notified, deferred>>
          /\ pc[e] = "email" /\ a \in todo[e]
          /\ \/ Tells("email", Of(e, a)) /\ (UNCHANGED givenUp \/ GivesUp("email", Of(e, a)))
             \/ UNCHANGED copies /\ GivesUp("email", Of(e, a))
      BY <1>2 DEF Mail, MailFails, MailOf, rows
    <2>2. <<a, "email">> \notin shut[e] /\ Untold(e, "email", a)
      BY <1>0, <2>1 DEF FateKept, Untold
    <2>3. CASE Tells("email", Of(e, a))
      BY <1>0, <2>1, <2>2, <2>3, NoticeKept
    <2>4. CASE UNCHANGED copies /\ GivesUp("email", Of(e, a))
      <3>1. PICK S \in SUBSET Of(e, a) : S = Of(e, a)
        OBVIOUS
      <3>2. \A h \in S : h \notin notified["email"] \cup givenUp["email"]
        BY <1>0, <2>2, <3>1, UntoldIsFree
      <3>3. QED BY <1>0, <2>1, <2>2, <2>4, <3>1, <3>2, LossKept
    <2>5. QED BY <2>1, <2>3, <2>4
  <1>3. CASE MailMarkFails(e)
    <2>1. /\ UNCHANGED <<now, created, copies, notified, deferred>>
          /\ pc[e] = "email" /\ unmarked[e] # {} /\ GivesUp("email", unmarked[e])
      BY <1>3 DEF MailMarkFails, rows
    <2>2. alert[e] # Absent
      BY <2>1 DEF CauseInv, ToldInv, NoticeShape
    <2>3. PICK a \in Alerts : a = alert[e]
      BY <1>0, <2>2 DEF WorkTypeOK
    <2>4. PICK S \in SUBSET Of(e, a) : S = unmarked[e]
      BY <1>0, <2>3 DEF FateKept
    <2>5. /\ <<a, "email">> \notin shut[e] /\ GivesUp("email", S)
          /\ \A h \in S : h \notin notified["email"] \cup givenUp["email"]
      BY <1>0, <2>1, <2>3, <2>4 DEF FateKept
    <2>6. QED BY <1>0, <2>1, <2>5, LossKept
  <1>4. QED BY <1>1, <1>2, <1>3 DEF EnviarEmail

LEMMA MarkKept ==
  ASSUME NoticeInv, NEW e \in Execs, NEW h \in Hits, Mark(e, h)
  PROVE  Kept
  <1> USE DEF NoticeInv
  <1>0. WorkTypeOK /\ FateKept(e)
    BY WorkTyped DEF CauseInv, ToldInv, FatesKept
  <1>1. PICK ch \in Channels : ch = pc[e]
    BY DEF Mark
  <1>2. /\ h \in unmarked[e]
        /\ notified' = [notified EXCEPT ![ch] = @ \cup {h}]
        /\ UNCHANGED <<now, created, copies, deferred, givenUp>>
    BY <1>1 DEF Mark, history
  <1>3. copies[ch][h] = 1
    BY <1>1, <1>2 DEF CauseInv, ToldInv, CopiesCounted
  <1>4. h \notin givenUp[ch]
    BY <1>0, <1>1, <1>2 DEF FateKept
  <1>5. h \notin deferred[ch]
    <2>1. h \in fired[e] /\ h[1] = alert[e]
      BY <1>0, <1>2 DEF FateKept, Of
    <2>2. <<alert[e], ch>> \notin shut[e]
      BY <1>0, <1>1 DEF FateKept
    <2>3. QED BY <1>0, <2>1, <2>2 DEF FateKept
  <1>6. Promise!MarkTold(ch, h) /\ h \in Promise!Matches
    BY <1>2, <1>3, <1>4, <1>5 DEF Promise!MarkTold, Promise!Matches, Hits
  <1>7. QED BY <1>6 DEF Kept, Promise!NNext

(* Every step of the executions is a step of the one source of notices the   *)
(* subscriber sees, or leaves what he sees alone.                            *)
THEOREM StepKeepsNoticePromise == NoticeInv /\ [Next]_vars => [Promise!NNext]_(Promise!nvars)
  <1> SUFFICES ASSUME NoticeInv, [Next]_vars PROVE Kept  BY DEF Kept
  <1>1. CASE Tick
    BY <1>1 DEF Tick, rows, history, Kept, Promise!NNext, Promise!Pass
  <1>2. CASE (\E d \in Devices, o \in Owners : Subscribe(d, o)) \/ UNCHANGED vars
    BY <1>2, QuietKept DEF Subscribe, vars, rows, history
  <1>3. ASSUME NEW e \in Execs, ProcessarAposColeta(e) PROVE Kept
    <2>1. CASE (\E S \in SUBSET Lots, daily \in BOOLEAN : Start(e, S, daily)) \/ Evaluated(e) \/ Break(e)
      BY <2>1, QuietKept DEF Start, Evaluated, Break, rows, history
    <2>2. QED
      BY <1>3, <2>1, EvaluateKept, AskKept, PushKept, MailKept, MarkKept
      DEF ProcessarAposColeta, AvaliarAlertas, AplicarLimites
  <1>4. QED BY <1>1, <1>2, <1>3 DEF Next

(* To a subscriber the executions are one source of notices: no notice       *)
(* repeats a match, none brings one that was left out or lost, and a channel *)
(* is closed only by a notice marked on it within the window.                *)
THEOREM AlertsKeepPromise == Spec => KeepsNoticePromise
  <1>1. Spec => []NoticeInv
    BY InitNoticeInv, NextNoticeInv, PTL DEF Spec
  <1>2. QED
    BY <1>1, InitPromise, StepKeepsNoticePromise, PTL DEF Spec, KeepsNoticePromise, Promise!NSpec
=============================================================================
