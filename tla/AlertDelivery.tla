----------------------------- MODULE AlertDelivery -----------------------------
(***************************************************************************)
(* What follows the collection of new lots: alerts are evaluated against   *)
(* them, each match is a row of alert_hits, and the hits an execution has  *)
(* inserted are told by push and by e-mail, one notice per alert.          *)
(*                                                                         *)
(* Executions overlap, and what they hold to be new may overlap too (see   *)
(* LotCollection).  The daily coverage is limited: a notice on a channel   *)
(* keeps that channel of the alert closed for a window of time, counted    *)
(* from the creation of the latest hit marked as notified on it.  Nothing  *)
(* here is in a transaction, every statement may throw, and a throw or a   *)
(* crash leaves what was done.                                             *)
(*                                                                         *)
(* A hit is a pair of an alert and a lot; which lots match is left open.   *)
(* `copies', `deferred' and `givenUp' are history: what the transports     *)
(* took, and why a hit was not told on a channel.                          *)
(*                                                                         *)
(* A name with an underscore and a suffix is the definition before the     *)
(* underscore with a plausible mistake in it; no behaviour uses it.        *)
(***************************************************************************)
EXTENDS Naturals

CONSTANTS
  Alerts, Lots, Owners,
  OwnerOf,     (* alerts.owner_id                                            *)
  Devices,     (* push endpoints                                             *)
  Execs,       (* executions of what follows a collection                    *)
  Configured,  (* channels the process can use: VAPID keys, SMTP host        *)
  Window,      (* minutes between notices of the daily coverage, by channel  *)
  FailureLimit,(* failures after which a device is left alone (5)            *)
  MaxTime,     (* bound on the clock                                         *)
  Absent       (* no row, no alert                                           *)

Channels == {"push", "email"}
Hits     == Alerts \X Lots

ASSUME OwnerAssumption  == OwnerOf \in [Alerts -> Owners]
ASSUME ChannelAssumption == Configured \subseteq Channels
ASSUME WindowAssumption == Window \in [Channels -> Nat]
ASSUME LimitAssumption  == FailureLimit \in Nat /\ MaxTime \in Nat
ASSUME AbsentAssumption == Absent \notin Nat \cup Alerts \cup Owners
                             \cup [owner : Owners, failures : Nat]

VARIABLES
  now,         (* minutes                                                    *)
  channels,    (* alerts.channels, the bell apart                            *)
  device,      (* push_subscriptions                                         *)
  created,     (* alert_hits.created_at                                      *)
  notified,    (* alert_hits.notified, by channel                            *)
  pc, limited, (* where each execution stands; whether it is a daily one     *)
  novos,       (* lots it holds to be new                                    *)
  todo,        (* alerts it has yet to evaluate, or to tell                  *)
  fired,       (* hits it has inserted                                       *)
  asking, shut,(* channels of alerts it has yet to ask about; found closed   *)
  list,        (* owner of each device when it listed them                   *)
  alert,       (* the alert it tells                                         *)
  left,        (* devices it has yet to send to                              *)
  reached,     (* whether some device took the notice                        *)
  unmarked,    (* hits of the notice it has yet to mark                      *)
  copies,      (* notices with the hit that a transport took, by channel     *)
  deferred,    (* hits left out because the channel was closed               *)
  givenUp      (* hits that nobody was there to take, or was seen to take    *)

rows    == <<channels, device, created, notified>>
work    == <<limited, novos, todo, fired, asking, shut, list>>
notice  == <<alert, left, reached, unmarked>>
history == <<copies, deferred, givenUp>>
vars    == <<now, rows, pc, work, notice, history>>

Places  == {"idle", "evaluating", "limiting", "push", "email", "ended", "broken"}

TypeOK ==
  /\ now      \in 0..MaxTime
  /\ channels \in [Alerts -> SUBSET Channels]
  /\ device   \in [Devices -> [owner : Owners, failures : Nat] \cup {Absent}]
  /\ created  \in [Hits -> (0..MaxTime) \cup {Absent}]
  /\ notified \in [Channels -> SUBSET Hits]
  /\ pc       \in [Execs -> Places]
  /\ limited  \in [Execs -> BOOLEAN]
  /\ novos    \in [Execs -> SUBSET Lots]
  /\ todo     \in [Execs -> SUBSET Alerts]
  /\ fired    \in [Execs -> SUBSET Hits]
  /\ asking   \in [Execs -> SUBSET (Alerts \X Channels)]
  /\ shut     \in [Execs -> SUBSET (Alerts \X Channels)]
  /\ list     \in [Execs -> [Devices -> Owners \cup {Absent}]]
  /\ alert    \in [Execs -> Alerts \cup {Absent}]
  /\ left     \in [Execs -> SUBSET Devices]
  /\ reached  \in [Execs -> BOOLEAN]
  /\ unmarked \in [Execs -> SUBSET Hits]
  /\ copies   \in [Channels -> [Hits -> Nat]]
  /\ deferred \in [Channels -> SUBSET Hits]
  /\ givenUp  \in [Channels -> SUBSET Hits]

Init ==
  /\ now      = 0
  /\ channels \in [Alerts -> SUBSET Channels]
  /\ device   \in [Devices -> [owner : Owners, failures : {0}] \cup {Absent}]
  /\ created  = [h \in Hits |-> Absent]
  /\ notified = [ch \in Channels |-> {}]
  /\ pc       = [e \in Execs |-> "idle"]
  /\ limited  = [e \in Execs |-> FALSE]
  /\ novos    = [e \in Execs |-> {}]
  /\ todo     = [e \in Execs |-> {}]
  /\ fired    = [e \in Execs |-> {}]
  /\ asking   = [e \in Execs |-> {}]
  /\ shut     = [e \in Execs |-> {}]
  /\ list     = [e \in Execs |-> [d \in Devices |-> Absent]]
  /\ alert    = [e \in Execs |-> Absent]
  /\ left     = [e \in Execs |-> {}]
  /\ reached  = [e \in Execs |-> FALSE]
  /\ unmarked = [e \in Execs |-> {}]
  /\ copies   = [ch \in Channels |-> [h \in Hits |-> 0]]
  /\ deferred = [ch \in Channels |-> {}]
  /\ givenUp  = [ch \in Channels |-> {}]

-----------------------------------------------------------------------------
Tick ==
  /\ now < MaxTime
  /\ now' = now + 1
  /\ UNCHANGED <<rows, pc, work, notice, history>>

(* A browser registers its endpoint, anew or for whoever is signed in now.   *)
Subscribe(d, o) ==
  /\ device' = [device EXCEPT ![d] = [owner |-> o, failures |-> 0]]
  /\ UNCHANGED <<now, channels, created, notified, pc, work, notice, history>>

-----------------------------------------------------------------------------
(* Evaluation.                                                               *)

Go(e, place) == pc' = [pc EXCEPT ![e] = place]

Start(e, S, daily) ==
  /\ pc[e] = "idle"
  /\ S # {}
  /\ novos'   = [novos EXCEPT ![e] = S]
  /\ limited' = [limited EXCEPT ![e] = daily]
  /\ todo'    = [todo EXCEPT ![e] = Alerts]
  /\ Go(e, "evaluating")
  /\ UNCHANGED <<now, rows, fired, asking, shut, list, notice, history>>

Fires_EveryMatch(e, a, found) == {a} \X found

(* INSERT ... ON CONFLICT DO NOTHING RETURNING: the matches with no row yet. *)
Fires(e, a, found) == {h \in {a} \X found : created[h] = Absent}

Evaluate(e, a) ==
  /\ pc[e] = "evaluating"
  /\ a \in todo[e]
  /\ \E found \in SUBSET novos[e] :
       /\ fired'   = [fired EXCEPT ![e] = @ \cup Fires(e, a, found)]
       /\ created' = [h \in Hits |-> IF h \in Fires(e, a, found) THEN now ELSE created[h]]
  /\ todo' = [todo EXCEPT ![e] = @ \ {a}]
  /\ UNCHANGED <<now, channels, device, notified, pc, limited, novos, asking, shut, list,
                 notice, history>>

(* The channels on which an alert that fired is to be told.                  *)
Asked(e) == {p \in Alerts \X Channels :
               /\ \E l \in Lots : <<p[1], l>> \in fired[e]
               /\ p[2] \in channels[p[1]]
               /\ Window[p[2]] > 0}

Evaluated(e) ==
  /\ pc[e] = "evaluating"
  /\ todo[e] = {}
  /\ Go(e, IF fired[e] = {} THEN "ended" ELSE "limiting")
  /\ asking' = [asking EXCEPT ![e] = IF limited[e] THEN Asked(e) ELSE {}]
  /\ UNCHANGED <<now, rows, limited, novos, todo, fired, shut, list, notice, history>>

-----------------------------------------------------------------------------
(* The limits of the daily coverage.                                         *)

Closed_AnyChannel(a, ch) ==
  \E h \in Hits : h[1] = a /\ (\E c \in Channels : h \in notified[c]) /\ now < created[h] + Window[ch]

(* The latest hit marked on the channel is within the window.                *)
Closed(a, ch) == \E h \in notified[ch] : h[1] = a /\ now < created[h] + Window[ch]

Of(e, a) == {h \in fired[e] : h[1] = a}

(* The first hit of an alert asks the database, the others share the answer. *)
Ask(e, a, ch) ==
  /\ pc[e] = "limiting"
  /\ <<a, ch>> \in asking[e]
  /\ asking' = [asking EXCEPT ![e] = @ \ {<<a, ch>>}]
  /\ IF Closed(a, ch)
     THEN /\ shut'     = [shut EXCEPT ![e] = @ \cup {<<a, ch>>}]
          /\ deferred' = [deferred EXCEPT ![ch] = @ \cup Of(e, a)]
     ELSE UNCHANGED <<shut, deferred>>
  /\ UNCHANGED <<now, rows, pc, limited, novos, todo, fired, list, notice, copies, givenUp>>

-----------------------------------------------------------------------------
(* Delivery: one notice per alert and channel with all the hits that fired.  *)

(* Forgets which channels were found closed.                                 *)
Open_DespiteLimit(e, ch) == {a \in Alerts : Of(e, a) # {} /\ ch \in channels[a] \cap Configured}

Open(e, ch) == {a \in Alerts : Of(e, a) # {} /\ ch \in channels[a] \cap Configured
                                 /\ <<a, ch>> \notin shut[e]}

(* Devices are listed once, for all the pushes of the execution.             *)
List(e) ==
  /\ pc[e] = "limiting"
  /\ asking[e] = {}
  /\ list' = [list EXCEPT ![e] = [d \in Devices |->
                IF device[d] # Absent /\ device[d].failures < FailureLimit
                THEN device[d].owner ELSE Absent]]
  /\ todo' = [todo EXCEPT ![e] = Open(e, "push")]
  /\ Go(e, "push")
  /\ UNCHANGED <<now, rows, limited, novos, fired, asking, shut, notice, history>>

GivesUp(ch, S) == givenUp' = [givenUp EXCEPT ![ch] = @ \cup S]

(* Devices of the owner, as listed; without one the group is passed over.    *)
BeginPush(e, a) ==
  /\ pc[e] = "push"
  /\ alert[e] = Absent
  /\ a \in todo[e]
  /\ LET targets == {d \in Devices : list[e][d] = OwnerOf[a]}
     IN  /\ left'  = [left EXCEPT ![e] = targets]
         /\ alert' = [alert EXCEPT ![e] = IF targets = {} THEN Absent ELSE a]
         /\ GivesUp("push", IF targets = {} THEN Of(e, a) ELSE {})
  /\ todo' = [todo EXCEPT ![e] = @ \ {a}]
  /\ UNCHANGED <<now, rows, pc, limited, novos, fired, asking, shut, list, reached, unmarked,
                 copies, deferred>>

Tells(ch, S) == copies' = [copies EXCEPT ![ch] = [h \in Hits |-> @[h] + (IF h \in S THEN 1 ELSE 0)]]

Sent(e, d) ==
  /\ pc[e] = "push"
  /\ d \in left[e]
  /\ left' = [left EXCEPT ![e] = @ \ {d}]
  /\ UNCHANGED <<now, channels, created, notified, pc, work, alert, unmarked, deferred, givenUp>>

(* The push service takes the notice; a group counts once.                   *)
Push(e, d) ==
  /\ Sent(e, d)
  /\ reached' = [reached EXCEPT ![e] = TRUE]
  /\ IF reached[e] THEN UNCHANGED copies ELSE Tells("push", Of(e, alert[e]))
  /\ UNCHANGED device

(* 404 or 410: the subscription is dead.                                     *)
PushGone(e, d) ==
  /\ Sent(e, d)
  /\ device' = [device EXCEPT ![d] = Absent]
  /\ UNCHANGED <<reached, copies>>

(* An UPDATE: another execution may have removed the row.                    *)
IncrementarFalhas(d) ==
  device' = [device EXCEPT ![d] = IF @ = Absent THEN Absent ELSE [owner |-> @.owner, failures |-> @.failures + 1]]

PushFails(e, d) ==
  /\ Sent(e, d)
  /\ IncrementarFalhas(d)
  /\ UNCHANGED <<reached, copies>>

EndPush(e) ==
  /\ pc[e] = "push"
  /\ alert[e] # Absent
  /\ left[e] = {}
  /\ unmarked[e] = {}
  /\ IF reached[e]
     THEN unmarked' = [unmarked EXCEPT ![e] = Of(e, alert[e])] /\ UNCHANGED <<alert, givenUp>>
     ELSE /\ alert' = [alert EXCEPT ![e] = Absent]
          /\ GivesUp("push", Of(e, alert[e]))
          /\ UNCHANGED unmarked
  /\ reached' = [reached EXCEPT ![e] = FALSE]
  /\ UNCHANGED <<now, rows, pc, work, left, copies, deferred>>

(* One statement per hit of the notice; after the last the alert is done.    *)
Mark(e, h) ==
  /\ h \in unmarked[e]
  /\ pc[e] \in Channels
  /\ notified' = [notified EXCEPT ![pc[e]] = @ \cup {h}]
  /\ unmarked' = [unmarked EXCEPT ![e] = @ \ {h}]
  /\ alert'    = [alert EXCEPT ![e] = IF unmarked[e] = {h} THEN Absent ELSE @]
  /\ UNCHANGED <<now, channels, device, created, pc, work, left, reached, history>>

Pushed(e) ==
  /\ pc[e] = "push"
  /\ todo[e] = {}
  /\ alert[e] = Absent
  /\ todo' = [todo EXCEPT ![e] = Open(e, "email")]
  /\ Go(e, "email")
  /\ UNCHANGED <<now, rows, limited, novos, fired, asking, shut, list, notice, history>>

MailOf(e, a) ==
  /\ pc[e] = "email"
  /\ alert[e] = Absent
  /\ a \in todo[e]
  /\ todo' = [todo EXCEPT ![e] = @ \ {a}]
  /\ UNCHANGED <<now, rows, pc, limited, novos, fired, asking, shut, list, left, reached, deferred>>

Mail(e, a) ==
  /\ MailOf(e, a)
  /\ alert'    = [alert EXCEPT ![e] = a]
  /\ unmarked' = [unmarked EXCEPT ![e] = Of(e, a)]
  /\ Tells("email", Of(e, a))
  /\ UNCHANGED givenUp

(* The transport throws, whether or not the mail went out; the next group.   *)
MailFails(e, a) ==
  /\ MailOf(e, a)
  /\ GivesUp("email", Of(e, a))
  /\ \/ Tells("email", Of(e, a))
     \/ UNCHANGED copies
  /\ UNCHANGED <<alert, unmarked>>

(* A mark that throws counts the mail as pending, with the marks after it.   *)
MailMarkFails(e) ==
  /\ pc[e] = "email"
  /\ unmarked[e] # {}
  /\ GivesUp("email", unmarked[e])
  /\ unmarked' = [unmarked EXCEPT ![e] = {}]
  /\ alert'    = [alert EXCEPT ![e] = Absent]
  /\ UNCHANGED <<now, rows, pc, work, left, reached, copies, deferred>>

Mailed(e) ==
  /\ pc[e] = "email"
  /\ todo[e] = {}
  /\ alert[e] = Absent
  /\ Go(e, "ended")
  /\ UNCHANGED <<now, rows, work, notice, history>>

(* A statement outside the e-mail of a group throws, and the collection goes *)
(* on without its alerts; or the process dies.                               *)
Break(e) ==
  /\ pc[e] \in {"evaluating", "limiting", "push", "email"}
  /\ Go(e, "broken")
  /\ UNCHANGED <<now, rows, work, notice, history>>

-----------------------------------------------------------------------------
AvaliarAlertas(e) == Evaluated(e) \/ \E a \in Alerts : Evaluate(e, a)

AplicarLimites(e) == \E a \in Alerts, ch \in Channels : Ask(e, a, ch)

EnviarPush(e) ==
  \/ List(e) \/ EndPush(e) \/ Pushed(e)
  \/ \E a \in Alerts : BeginPush(e, a)
  \/ \E d \in Devices : Push(e, d) \/ PushGone(e, d) \/ PushFails(e, d)

EnviarEmail(e) ==
  \/ MailMarkFails(e) \/ Mailed(e)
  \/ \E a \in Alerts : Mail(e, a) \/ MailFails(e, a)

ProcessarAposColeta(e) ==
  \/ \E S \in SUBSET Lots, daily \in BOOLEAN : Start(e, S, daily)
  \/ AvaliarAlertas(e) \/ AplicarLimites(e) \/ EnviarPush(e) \/ EnviarEmail(e)
  \/ \E h \in Hits : Mark(e, h)
  \/ Break(e)

Next ==
  \/ Tick
  \/ \E d \in Devices, o \in Owners : Subscribe(d, o)
  \/ \E e \in Execs : ProcessarAposColeta(e)

Spec == Init /\ [][Next]_vars

-----------------------------------------------------------------------------
(* However many executions bring a lot as new, a subscriber hears of it at   *)
(* most once on a channel; and what is marked as told was told (the UNIQUE   *)
(* of alert_hits, avaliarAlertas, and the marks that follow a transport).    *)
ToldOnce ==
  \A ch \in Channels, h \in Hits :
    /\ copies[ch][h] <= 1
    /\ h \in notified[ch] => copies[ch][h] = 1

(* A hit still belongs to an execution that runs, or whose alerts broke.     *)
InHand(h) == \E e \in Execs : h \in fired[e] /\ pc[e] # "ended"

(* A hit that was not told on a channel of its alert has a cause: someone    *)
(* works on it or broke off, nobody could be seen to take it, or the channel *)
(* was closed, and then by a notice on that very channel within its window   *)
(* (aplicarLimitesDeEntrega, enviarPush, enviarEmail).                       *)
SilenceHasCause ==
  \A ch \in Configured, h \in Hits :
    /\ created[h] # Absent /\ ch \in channels[h[1]] /\ h \notin notified[ch]
         => InHand(h) \/ h \in deferred[ch] \cup givenUp[ch]
    /\ h \in deferred[ch] =>
         \E g \in notified[ch] : g[1] = h[1] /\ created[h] < created[g] + Window[ch]

Promise == INSTANCE NoticePromise WITH
  clock <- now, since <- created, told <- copies, marked <- notified,
  leftOut <- deferred, lost <- givenUp

(* Whatever executions overlap or break, to a subscriber they are one source *)
(* of notices: none repeats what another told, left out or lost, and a       *)
(* channel is closed only by a notice that was marked on it.                 *)
KeepsNoticePromise == Promise!NSpec

(* Comments of the service and of the daily worker: the notice that follows  *)
(* a closed window has all that came in meanwhile.  (The code forgets it.)   *)
NextNoticeJoinsDeferred ==
  [][\A ch \in Channels, a \in Alerts :
       (\E h \in Hits : h[1] = a /\ copies'[ch][h] > copies[ch][h])
         => \A h \in deferred[ch] : h[1] = a => copies'[ch][h] > 0]_vars

-----------------------------------------------------------------------------
(* The inductive invariant.                                                  *)

NoticeShape ==
  \A e \in Execs :
    /\ pc[e] \in {"idle", "evaluating", "limiting"} => alert[e] = Absent
    /\ alert[e] = Absent => left[e] = {} /\ unmarked[e] = {} /\ ~reached[e]
    /\ left[e] # {} \/ reached[e] => unmarked[e] = {}
    /\ pc[e] = "email" => left[e] = {} /\ ~reached[e]
    /\ pc[e] \in Channels => alert[e] \notin todo[e]

(* A hit is of the one execution that inserted it.                           *)
HitsOwned ==
  /\ \A h \in Hits : created[h] # Absent <=> \E e \in Execs : h \in fired[e]
  /\ \A e, f \in Execs : fired[e] \cap fired[f] # {} => e = f
  /\ \A e \in Execs : pc[e] = "idle" => fired[e] = {}

(* Execution e has still to tell alert a on the channel.                     *)
Untold(e, ch, a) ==
  \/ pc[e] \in {"evaluating", "limiting"}
  \/ ch = "email" /\ pc[e] = "push"
  \/ pc[e] = ch /\ a \in todo[e]
  \/ ch = "push" /\ pc[e] = "push" /\ alert[e] = a /\ ~reached[e] /\ unmarked[e] = {}

CopiesCounted ==
  /\ \A ch \in Channels, h \in Hits : created[h] = Absent => copies[ch][h] = 0
  /\ \A ch \in Channels, e \in Execs : \A h \in fired[e] : Untold(e, ch, h[1]) => copies[ch][h] = 0
  /\ \A e \in Execs : pc[e] \in Channels => \A h \in unmarked[e] : copies[pc[e]][h] = 1
  /\ \A e \in Execs : pc[e] = "push" /\ reached[e] => \A h \in Of(e, alert[e]) : copies["push"][h] = 1

(* Execution e is done with hit h on the channel.                            *)
Passed(e, ch, h) ==
  \/ pc[e] = "ended"
  \/ ch = "push" /\ pc[e] = "email"
  \/ /\ pc[e] = ch /\ h[1] \notin todo[e]
     /\ alert[e] # h[1] \/ (unmarked[e] # {} /\ h \notin unmarked[e])

PassedHasCause ==
  \A e \in Execs : \A h \in fired[e] : \A ch \in Configured \cap channels[h[1]] :
    Passed(e, ch, h) => h \in notified[ch] \cup deferred[ch] \cup givenUp[ch]

DeferredByNotice ==
  /\ \A h \in Hits : created[h] # Absent => created[h] <= now
  /\ \A ch \in Channels : \A h \in notified[ch] \cup deferred[ch] : created[h] # Absent
  /\ \A ch \in Channels : \A h \in deferred[ch] :
       \E g \in notified[ch] : g[1] = h[1] /\ created[h] < created[g] + Window[ch]
  /\ \A e \in Execs : pc[e] \in {"idle", "evaluating"} => shut[e] = {}
  /\ \A e \in Execs : \A p \in shut[e] : Of(e, p[1]) \subseteq deferred[p[2]]

ToldInv  == TypeOK /\ NoticeShape /\ HitsOwned /\ CopiesCounted /\ ToldOnce

CauseInv == ToldInv /\ PassedHasCause /\ DeferredByNotice

(* What keeps an execution from telling what it has left out or given up.    *)
FateKept(e) ==
  /\ unmarked[e] \subseteq Of(e, alert[e])
  /\ \A ch \in Channels : \A h \in fired[e] :
       /\ h \in deferred[ch] => <<h[1], ch>> \in shut[e]
       /\ Untold(e, ch, h[1]) => h \notin givenUp[ch]
  /\ pc[e] \in Channels =>
       /\ \A a \in todo[e] \cup {alert[e]} : <<a, pc[e]>> \notin shut[e]
       /\ \A h \in unmarked[e] : h \notin notified[pc[e]] \cup givenUp[pc[e]]
  /\ pc[e] = "push" /\ reached[e] =>
       \A h \in Of(e, alert[e]) : h \notin notified["push"] \cup givenUp["push"]

FatesKept ==
  /\ \A ch \in Channels : \A h \in givenUp[ch] : created[h] # Absent
  /\ \A e \in Execs : FateKept(e)

NoticeInv == CauseInv /\ FatesKept
=============================================================================
