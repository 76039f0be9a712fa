---------------------------- MODULE CollectionQueue ----------------------------
(***************************************************************************)
(* How the jobs of the collection share one worker process.                *)
(*                                                                         *)
(* The queue hands jobs out up to a number of each kind.  A collection (of *)
(* the agenda or of the hot refresh) first asks the brake, which lets a    *)
(* source that failed several times in a row rest; a daily one goes        *)
(* straight to its run.  The gate chains operations one after the other:   *)
(* in serial mode the whole of a collection, and in any mode the connector *)
(* of a daily site that needs a browser.  A run is given up at a deadline  *)
(* or when the lock of its job is lost, while its connector may go on.     *)
(*                                                                         *)
(* What a run writes is LotCollection's matter.  A refresh is seen as the  *)
(* collections it makes, one at a time.  The brake is seen with the whole  *)
(* history of a source, of which the code reads the latest 20 runs.        *)
(*                                                                         *)
(* A name with an underscore and a suffix is the definition before the     *)
(* underscore with a plausible mistake in it; no behaviour uses it.        *)
(***************************************************************************)
EXTENDS Naturals, FiniteSets

CONSTANTS
  Jobs,
  Sources,
  KindOf, SourceOf,
  Browser,     (* daily jobs of sources that need a browser                  *)
  Slots,       (* how many jobs of a kind the worker takes at a time         *)
  Hangs,       (* jobs whose connector may never settle                      *)
  Falhas,      (* failures in a row after which a source rests (5)           *)
  Descanso,    (* hours of rest (6)                                          *)
  MaxTime, MaxCrashes

Kinds == {"collect", "refresh", "daily"}

ASSUME JobsAssumption  == KindOf \in [Jobs -> Kinds] /\ SourceOf \in [Jobs -> Sources]
ASSUME SlotsAssumption == Slots \in [Kinds -> Nat \ {0}]
ASSUME BrakeAssumption == Falhas \in Nat \ {0} /\ Descanso \in Nat \ {0}
ASSUME BoundAssumption == MaxTime \in Nat /\ MaxCrashes \in Nat
ASSUME GroupAssumption == Browser \subseteq {j \in Jobs : KindOf[j] = "daily"} /\ Hangs \subseteq Jobs

VARIABLES
  serial,      (* WORKER_SERIAL_COLLECTIONS                                  *)
  now,         (* hours                                                      *)
  crashes,
  pc,          (* where each job stands                                      *)
  busy,        (* its connector is at work                                   *)
  gate,        (* its operation in the gate                                  *)
  ticket,      (* the place of the operation in the chain                    *)
  tail,        (* the place of the latest, on which the next is chained      *)
  ok, at, nth, (* its run, if the brake reads it: the outcome, and the hour  *)
               (* and the order it started in                                *)
  started      (* runs started                                               *)

work   == <<pc, busy>>
chain  == <<gate, ticket, tail>>
runs   == <<ok, at, nth, started>>
vars   == <<serial, now, crashes, work, chain, runs>>

TypeOK ==
  /\ serial  \in BOOLEAN
  /\ now     \in 0..MaxTime
  /\ crashes \in 0..MaxCrashes
  /\ pc      \in [Jobs -> {"queued", "taken", "entered", "allowed", "running", "ended"}]
  /\ busy    \in [Jobs -> BOOLEAN]
  /\ gate    \in [Jobs -> {"out", "waiting", "in", "done", "threw"}]
  /\ ticket  \in [Jobs -> Nat]
  /\ tail    \in Nat
  /\ ok      \in [Jobs -> {"none", "null", "ok", "failed"}]
  /\ at      \in [Jobs -> 0..MaxTime]
  /\ nth     \in [Jobs -> Nat]
  /\ started \in Nat
  /\ \A j \in Jobs : ok[j] = "null" => pc[j] = "running" \/ crashes > 0

Init ==
  /\ serial  \in BOOLEAN
  /\ now     = 0
  /\ crashes = 0
  /\ pc      = [j \in Jobs |-> "queued"]
  /\ busy    = [j \in Jobs |-> FALSE]
  /\ gate    = [j \in Jobs |-> "out"]
  /\ ticket  = [j \in Jobs |-> 0]
  /\ tail    = 0
  /\ ok      = [j \in Jobs |-> "none"]
  /\ at      = [j \in Jobs |-> 0]
  /\ nth     = [j \in Jobs |-> 0]
  /\ started = 0

Active(j) == pc[j] \notin {"queued", "ended"}

(* An hour passes.  A run the brake reads is over within the hour, by its    *)
(* deadline; between the brake and the run there is but a statement.         *)
Tick ==
  /\ now < MaxTime
  /\ \A j \in Jobs : pc[j] # "allowed" /\ (ok[j] = "null" /\ pc[j] = "running" => at[j] = now)
  /\ now' = now + 1
  /\ UNCHANGED <<serial, crashes, work, chain, runs>>

-----------------------------------------------------------------------------
(* The gate: a chain of promises.                                            *)

Join_KeepsTail(j) ==
  /\ gate'   = [gate EXCEPT ![j] = "waiting"]
  /\ ticket' = [ticket EXCEPT ![j] = tail + 1]
  /\ tail'   = IF tail = 0 THEN 1 ELSE tail

Join(j) ==
  /\ gate'   = [gate EXCEPT ![j] = "waiting"]
  /\ ticket' = [ticket EXCEPT ![j] = tail + 1]
  /\ tail'   = tail + 1

Before(j) == {k \in Jobs : ticket[k] > 0 /\ ticket[k] + 1 = ticket[j]}

Turn_NobodyIn(j) == gate[j] = "waiting" /\ \A k \in Jobs : gate[k] # "in"

Turn_AfterSuccess(j) == gate[j] = "waiting" /\ \A k \in Before(j) : gate[k] = "done"

(* The operation before has settled, whether it returned or threw.           *)
Turn(j) == gate[j] = "waiting" /\ \A k \in Before(j) : gate[k] \in {"done", "threw"}

Go(j, place) == pc' = [pc EXCEPT ![j] = place]

-----------------------------------------------------------------------------
(* Jobs and runs.                                                            *)

Gated(j) == serial /\ KindOf[j] # "daily"

Take(j) ==
  /\ pc[j] = "queued"
  /\ Cardinality({k \in Jobs : KindOf[k] = KindOf[j] /\ Active(k)}) < Slots[KindOf[j]]
  /\ Go(j, "taken")
  /\ IF Gated(j) THEN Join(j) ELSE UNCHANGED chain
  /\ UNCHANGED <<serial, now, crashes, busy, runs>>

(* The end of a job; in serial mode the end of its operation as well.        *)
Ends(j, result) ==
  /\ Go(j, "ended")
  /\ gate' = [gate EXCEPT ![j] = IF Gated(j) THEN result ELSE @]
  /\ UNCHANGED <<serial, now, crashes, ticket, tail>>

Enters(j) ==
  /\ pc[j] = "taken"
  /\ KindOf[j] # "daily"
  /\ serial => Turn(j)

(* A collection begins.                                                      *)
Enter(j) ==
  /\ Enters(j)
  /\ Go(j, "entered")
  /\ gate' = [gate EXCEPT ![j] = IF serial THEN "in" ELSE @]
  /\ UNCHANGED <<serial, now, crashes, busy, ticket, tail, runs>>

(* It was cancelled while it waited (the lock of the job is lost, the worker *)
(* closes): nothing is recorded.                                             *)
Refuse(j) ==
  /\ Enters(j)
  /\ Ends(j, "threw")
  /\ UNCHANGED <<busy, runs>>

Counted(s) == {j \in Jobs : KindOf[j] # "daily" /\ SourceOf[j] = s /\ ok[j] # "none"}

Seguidas_UnfinishedCounts(s) ==
  {j \in Counted(s) : ok[j] = "failed" /\ \A k \in Counted(s) : ok[k] # "failed" => nth[k] < nth[j]}

(* Failures since the last success, in the order of their start; runs that   *)
(* have not ended are passed over.                                           *)
Seguidas(s) ==
  {j \in Counted(s) : ok[j] = "failed" /\ \A k \in Counted(s) : ok[k] = "ok" => nth[k] < nth[j]}

(* After the rest a probe may go, and any other until one of them has ended. *)
Permite(s) ==
  \/ Cardinality(Seguidas(s)) < Falhas
  \/ \A j \in Seguidas(s) : now >= at[j] + Descanso

ConsultaFreio(j) ==
  /\ pc[j] = "entered"
  /\ Permite(SourceOf[j])
  /\ Go(j, "allowed")
  /\ UNCHANGED <<serial, now, crashes, busy, chain, runs>>

Freado(j) ==
  /\ pc[j] = "entered"
  /\ ~Permite(SourceOf[j])
  /\ Ends(j, "done")
  /\ UNCHANGED <<busy, runs>>

(* A statement before the run fails.                                         *)
Breaks(j) ==
  /\ pc[j] \in {"entered", "allowed"}
  /\ Ends(j, "threw")
  /\ UNCHANGED <<busy, runs>>

StartRun(j) ==
  /\ pc[j] = IF KindOf[j] = "daily" THEN "taken" ELSE "allowed"
  /\ Go(j, "running")
  /\ IF KindOf[j] = "daily" THEN UNCHANGED runs
     ELSE /\ ok'      = [ok EXCEPT ![j] = "null"]
          /\ at'      = [at EXCEPT ![j] = now]
          /\ nth'     = [nth EXCEPT ![j] = started + 1]
          /\ started' = started + 1
  /\ IF j \in Browser THEN Join(j) ELSE UNCHANGED chain
  /\ busy' = [busy EXCEPT ![j] = j \notin Browser]
  /\ UNCHANGED <<serial, now, crashes>>

(* The gate lets the connector of a daily site begin, or finds that its run  *)
(* was given up while it waited.                                             *)
OpenBrowser(j) ==
  /\ j \in Browser
  /\ Turn(j)
  /\ gate' = [gate EXCEPT ![j] = IF pc[j] = "running" THEN "in" ELSE "threw"]
  /\ busy' = [busy EXCEPT ![j] = pc[j] = "running"]
  /\ UNCHANGED <<serial, now, crashes, pc, ticket, tail, runs>>

Finish(j, outcome) == ok' = [ok EXCEPT ![j] = IF KindOf[j] = "daily" THEN @ ELSE outcome]

(* The connector returns or throws, and with it what it does in the gate; if *)
(* the run still waits for it, the rest of the run decides how it ended.     *)
Settle(j) ==
  /\ busy[j]
  /\ busy' = [busy EXCEPT ![j] = FALSE]
  /\ \E result \in {"done", "threw"}, outcome \in {"ok", "failed"} :
       /\ outcome = "ok" => result = "done"
       /\ Gated(j) /\ outcome = "failed" => result = "threw"
       /\ gate' = [gate EXCEPT ![j] = IF @ = "in" THEN result ELSE @]
       /\ IF pc[j] = "running" THEN Finish(j, outcome) /\ Go(j, "ended") ELSE UNCHANGED <<pc, ok>>
  /\ UNCHANGED <<serial, now, crashes, ticket, tail, at, nth, started>>

(* The deadline passes, the lock of the job is lost or the worker closes:    *)
(* the run does not wait for its connector.                                  *)
Abandon(j) ==
  /\ pc[j] = "running"
  /\ Finish(j, "failed")
  /\ Ends(j, "threw")
  /\ UNCHANGED <<busy, at, nth, started>>

(* The process dies.  The queue gives its jobs to the next one, or fails     *)
(* them; their runs are never finished.                                      *)
Crash ==
  /\ crashes < MaxCrashes
  /\ crashes' = crashes + 1
  /\ \E S \in SUBSET {j \in Jobs : Active(j)} :
       /\ pc' = [j \in Jobs |-> IF j \in S THEN "queued" ELSE IF Active(j) THEN "ended" ELSE pc[j]]
  /\ busy'    = [j \in Jobs |-> FALSE]
  /\ gate'    = [j \in Jobs |-> "out"]
  /\ ticket'  = [j \in Jobs |-> 0]
  /\ tail'    = 0
  /\ UNCHANGED <<serial, now, runs>>

-----------------------------------------------------------------------------
RunCollect(j) == Enter(j) \/ Refuse(j) \/ ConsultaFreio(j) \/ Freado(j) \/ StartRun(j)

Next ==
  \/ Tick \/ Crash
  \/ \E j \in Jobs : Take(j) \/ RunCollect(j) \/ Breaks(j) \/ OpenBrowser(j)
                       \/ Settle(j) \/ Abandon(j)

(* Timers and promises go on; a connector settles, some day, unless it is    *)
(* one of those that hang.                                                   *)
Fairness ==
  \A j \in Jobs :
    /\ WF_vars(Take(j)) /\ WF_vars(RunCollect(j)) /\ WF_vars(OpenBrowser(j)) /\ WF_vars(Abandon(j))
    /\ j \notin Hangs => WF_vars(Settle(j))

Spec == Init /\ [][Next]_vars /\ Fairness

-----------------------------------------------------------------------------
(* At most one operation is inside the gate, and the browser of a daily site *)
(* keeps it closed until it is really gone, even if its run was given up     *)
(* (createCollectionGate and the browser gate of the daily worker).          *)
GateIsExclusive ==
  /\ \A j, k \in Jobs : gate[j] = "in" /\ gate[k] = "in" => j = k
  /\ \A j \in Browser : busy[j] => gate[j] = "in"

Callers == IF serial THEN 1 ELSE Slots["collect"] + Slots["refresh"]

(* What the gate shows of an operation, and those it still has before it.    *)
stage == [j \in Jobs |-> IF gate[j] \in {"done", "threw"} THEN "left" ELSE gate[j]]

ahead ==
  [j \in Jobs |->
     {k \in Jobs : gate[j] = "waiting" /\ gate[k] \in {"waiting", "in"} /\ ticket[k] < ticket[j]}]

(* Each operation looks only at the one it is chained on, yet nobody is let  *)
(* in beside another or before its turn (createCollectionGate).              *)
Promise == INSTANCE GatePromise WITH
             Operations <- Jobs,
             stage      <- stage,
             ahead      <- ahead

KeepsGatePromise == Promise!GSpec

(* A source that only fails is not tried more than the brake allows within   *)
(* its rest, give or take the callers that asked before the last failure     *)
(* was known (decideFreio, runCollect): runs in progress do not open it.     *)
BrakeBoundsFailures ==
  \A s \in Sources :
    LET recent == {j \in Counted(s) : at[j] + Descanso > now /\ (ok[j] = "null" => pc[j] = "running")}
    IN  (\A j \in recent : ok[j] # "ok") => Cardinality(recent) < Falhas + Callers

(* Every job that was queued comes to an end: a collection that hangs, fails *)
(* or is cancelled at any point does not take the others with it, whatever   *)
(* is chained on it (deployment.ts, worker.ts, daily-worker.ts).             *)
EveryJobEnds == \A j \in Jobs : <>(pc[j] = "ended")

-----------------------------------------------------------------------------
(* The inductive invariant.  An operation that entered or left has only      *)
(* settled ones before it; an operation in the chain has a place of its own, *)
(* and no place is without its operation.                                    *)
ChainInOrder ==
  /\ \A j \in Jobs : gate[j] = "out" <=> ticket[j] = 0
  /\ \A j \in Jobs : ticket[j] <= tail
  /\ \A n \in 1..tail : \E j \in Jobs : ticket[j] = n
  /\ \A j, k \in Jobs : ticket[j] = ticket[k] /\ ticket[j] > 0 => j = k
  /\ \A j, k \in Jobs :
       0 < ticket[j] /\ ticket[j] < ticket[k] /\ gate[k] # "waiting" => gate[j] \in {"done", "threw"}

JobsInGate ==
  \A j \in Jobs :
    /\ pc[j] = "queued" => gate[j] = "out"
    /\ busy[j] => pc[j] \in {"running", "ended"}
    /\ KindOf[j] = "daily" => ok[j] = "none" /\ (pc[j] = "taken" => gate[j] = "out")
    /\ KindOf[j] # "daily" /\ ~serial => gate[j] = "out"
    /\ Gated(j) /\ pc[j] \in {"entered", "allowed", "running"} => gate[j] = "in"
    /\ Gated(j) /\ pc[j] = "taken" => gate[j] = "waiting"
    /\ j \in Browser /\ busy[j] => gate[j] = "in"

IInv == TypeOK /\ ChainInOrder /\ JobsInGate

-----------------------------------------------------------------------------
(* The inductive invariant of the brake, on top of the other.  The slots     *)
(* bound who may call at once, and a run that started later is later in the  *)
(* order.  What counts is whoever the brake let go and does not know the end *)
(* of, together with the failures since the last success that have not had   *)
(* their rest: the recent failures alone grow without a permission, and      *)
(* those of before a success would count again once it is no longer recent.  *)
SlotsHold ==
  \A kind \in Kinds : Cardinality({k \in Jobs : KindOf[k] = kind /\ Active(k)}) <= Slots[kind]

RunsInOrder ==
  /\ \A j \in Jobs : at[j] <= now /\ nth[j] <= started
  /\ \A j \in Jobs : ok[j] \in {"ok", "failed"} => pc[j] = "ended"
  /\ \A j, k \in Jobs : at[j] < at[k] => nth[j] < nth[k]

Pending(s) == {j \in Jobs : KindOf[j] # "daily" /\ SourceOf[j] = s /\ pc[j] \in {"allowed", "running"}}

Unrested(s) == {j \in Seguidas(s) : at[j] + Descanso > now}

TriesBounded ==
  \A s \in Sources : Cardinality(Pending(s) \cup Unrested(s)) < Falhas + Callers

(* However many jobs there are, finitely many were ever taken.               *)
Touched == {j \in Jobs : pc[j] # "queued" \/ ok[j] # "none"}

BrakeInv == IsFiniteSet(Touched) /\ SlotsHold /\ RunsInOrder /\ TriesBounded
================================================================================
