----------------------------- MODULE LotCollection -----------------------------
(***************************************************************************)
(* Collections of one auction site writing the lots table.                 *)
(*                                                                         *)
(* A queue job (a scheduled collection, a refresh, the collection of one   *)
(* tenant) is executed by a worker that holds the job's lock in Redis.     *)
(* The lock can lapse under a worker that is alive: the queue then gives   *)
(* the job to another worker, and both execute it.  Two jobs of one site   *)
(* run at the same time as a matter of course.  An execution opens a run,  *)
(* reads the site, and writes all its lots in one READ COMMITTED           *)
(* transaction: for each lot a SELECT that locks nothing, then an upsert   *)
(* that takes the row's lock until the commit.  The transaction asks Redis *)
(* for the job's lock when it begins and when it is done, but the commit   *)
(* that follows is not fenced.  The reader of live bids updates the same   *)
(* rows, and writes the history of bids in a statement of its own.         *)
(*                                                                         *)
(* A lot is its row's current bid (0 is NULL) and the rows of its bid      *)
(* history.  A page names a lot once.  Each execution happens once; the    *)
(* executions of the model are those whose lifetimes overlap.  Signals     *)
(* (shutdown, lost lock, lost Redis) are cooperative, so that a cancelled  *)
(* execution is one that fails at its next checkpoint.                     *)
(*                                                                         *)
(* A name with an underscore and a suffix is the definition before the     *)
(* underscore with a plausible mistake in it; no behaviour uses it.        *)
(***************************************************************************)
EXTENDS Naturals

CONSTANTS
  Lots,        (* lots of the site, by external id                           *)
  Jobs,        (* queue jobs that collect the site                           *)
  Execs,       (* executions by workers                                      *)
  MaxBid,      (* bound: the bids a site shows are 0 (none) up to MaxBid     *)
  Absent,      (* no row, no entry in a page                                 *)
  NoOne        (* no execution, no job, no lot                               *)

ASSUME MaxBidAssumption == MaxBid \in Nat
ASSUME AbsentAssumption == Absent \notin Nat
ASSUME NoOneAssumption  == NoOne \notin Execs \cup Jobs \cup Lots \cup {"closed"}
ASSUME ClosedAssumption == "closed" \notin Execs

VARIABLES
  lock,        (* holder of each job's lock; `closed' when the job is over   *)
  job, before, (* the job of each execution, and who took that job before it *)
  pc,          (* where each execution stands                                *)
  run,         (* its row of collection_runs                                 *)
  counted,     (* ... and whether that row counts lots as upserted           *)
  page,        (* what it read from the site                                 *)
  lot, prev,   (* the lot it works on, and the row it saw                    *)
  wrote,       (* lots it has upserted, and so keeps locked                  *)
  noted,       (* ... those with a new row of history                        *)
  novos,       (* ... those it believes to be new                            *)
  row,         (* lots.current_bid                                           *)
  history,     (* number of rows of bid_history by lot and bid               *)
  writer,      (* the execution that last committed each lot                 *)
  committed,   (* executions whose batch is committed                        *)
  alert,       (* lots given to the alert, or lost to them by a failure     *)
  live,        (* lot and bid the live reader wrote and has yet to record    *)
  lost         (* lots for which the reader died between its two statements  *)

queue  == <<lock, job, before>>
runs   == <<run, counted>>
batch  == <<page, lot, prev, wrote, noted, novos>>
table  == <<row, history, writer, committed>>
reader == <<live, lost>>
vars   == <<queue, pc, runs, batch, table, alert, reader>>

Bids   == 0..MaxBid
Places == {"idle", "taken", "collecting", "collected", "writing", "upserting", "committing",
           "posting", "finishing", "failing", "unwinding", "ended"}

Blank  == [l \in Lots |-> Absent]
AtRest == [lot |-> NoOne, bid |-> 0]

TypeOK ==
  /\ lock      \in [Jobs -> Execs \cup {NoOne, "closed"}]
  /\ job       \in [Execs -> Jobs \cup {NoOne}]
  /\ before    \in [Execs -> SUBSET Execs]
  /\ pc        \in [Execs -> Places]
  /\ run       \in [Execs -> {"none", "open", "ok", "failed"}]
  /\ counted   \in [Execs -> BOOLEAN]
  /\ page      \in [Execs -> [Lots -> Bids \cup {Absent}]]
  /\ lot       \in [Execs -> Lots \cup {NoOne}]
  /\ prev      \in [Execs -> Bids \cup {Absent}]
  /\ wrote     \in [Execs -> SUBSET Lots]
  /\ noted     \in [Execs -> SUBSET Lots]
  /\ novos     \in [Execs -> SUBSET Lots]
  /\ row       \in [Lots -> Bids \cup {Absent}]
  /\ history   \in [Lots -> [Bids -> Nat]]
  /\ writer    \in [Lots -> Execs \cup {NoOne}]
  /\ committed \in SUBSET Execs
  /\ alert     \in [Lots -> {"none", "given", "dropped"}]
  /\ live      \in [lot : Lots, bid : Bids] \cup {AtRest}
  /\ lost      \in SUBSET Lots

(* Some lots are known already, with the history earlier collections left.   *)
Init ==
  /\ row       \in [Lots -> Bids \cup {Absent}]
  /\ lock      = [j \in Jobs |-> NoOne]
  /\ job       = [e \in Execs |-> NoOne]
  /\ before    = [e \in Execs |-> {}]
  /\ pc        = [e \in Execs |-> "idle"]
  /\ run       = [e \in Execs |-> "none"]
  /\ counted   = [e \in Execs |-> FALSE]
  /\ page      = [e \in Execs |-> Blank]
  /\ lot       = [e \in Execs |-> NoOne]
  /\ prev      = [e \in Execs |-> Absent]
  /\ wrote     = [e \in Execs |-> {}]
  /\ noted     = [e \in Execs |-> {}]
  /\ novos     = [e \in Execs |-> {}]
  /\ history   = [l \in Lots |-> [b \in Bids |-> IF b > 0 /\ row[l] = b THEN 1 ELSE 0]]
  /\ writer    = [l \in Lots |-> NoOne]
  /\ committed = {}
  /\ alert     = [l \in Lots |-> IF row[l] = Absent THEN "none" ELSE "given"]
  /\ live      = AtRest
  /\ lost      = {}

-----------------------------------------------------------------------------
(* The queue.                                                                *)

(* Renewals fail for longer than the lock lives, or the worker is dead: the  *)
(* queue finds the job stalled and gives it out again.                       *)
Lapse(j) ==
  /\ lock[j] \in Execs
  /\ lock' = [lock EXCEPT ![j] = NoOne]
  /\ UNCHANGED <<job, before, pc, runs, batch, table, alert, reader>>

-----------------------------------------------------------------------------
(* One execution.                                                            *)

Go(e, place) == pc' = [pc EXCEPT ![e] = place]

Holds(e) == lock[job[e]] = e

(* A worker takes a job and starts to track it.                              *)
Take(e, j) ==
  /\ pc[e] = "idle"
  /\ lock[j] = NoOne
  /\ lock'   = [lock EXCEPT ![j] = e]
  /\ job'    = [job EXCEPT ![e] = j]
  /\ before' = [before EXCEPT ![e] = {f \in Execs : job[f] = j}]
  /\ Go(e, "taken")
  /\ UNCHANGED <<runs, batch, table, alert, reader>>

(* The job is over, well or badly; a holder that lost it cannot say so.      *)
Close(e) ==
  /\ Go(e, "ended")
  /\ lock' = IF Holds(e) THEN [lock EXCEPT ![job[e]] = "closed"] ELSE lock
  /\ UNCHANGED <<job, before>>

StartRun(e) ==
  /\ pc[e] = "taken"
  /\ run' = [run EXCEPT ![e] = "open"]
  /\ Go(e, "collecting")
  /\ UNCHANGED <<queue, counted, batch, table, alert, reader>>

(* The source is switched off or resting, the service is closing, or the     *)
(* run cannot be opened.                                                     *)
Refuse(e) ==
  /\ pc[e] = "taken"
  /\ Close(e)
  /\ UNCHANGED <<runs, batch, table, alert, reader>>

(* The connector answers with some of the site's lots, whose bids rise and   *)
(* are withdrawn there as they may.                                          *)
Collect(e) ==
  /\ pc[e] = "collecting"
  /\ \E answer \in [Lots -> Bids \cup {Absent}] : page' = [page EXCEPT ![e] = answer]
  /\ Go(e, "collected")
  /\ UNCHANGED <<queue, runs, lot, prev, wrote, noted, novos, table, alert, reader>>

(* The transaction begins, with its first question for the job's lock.       *)
Begin(e) ==
  /\ pc[e] = "collected"
  /\ Holds(e)
  /\ Go(e, "writing")
  /\ UNCHANGED <<queue, runs, batch, table, alert, reader>>

(* The row as committed: the SELECT neither locks nor waits.                 *)
ReadPrev(e, l) ==
  /\ pc[e] = "writing"
  /\ page[e][l] # Absent
  /\ l \notin wrote[e]
  /\ lot'  = [lot  EXCEPT ![e] = l]
  /\ prev' = [prev EXCEPT ![e] = row[l]]
  /\ Go(e, "upserting")
  /\ UNCHANGED <<queue, runs, page, wrote, noted, novos, table, alert, reader>>

RowIsFree(l) == \A f \in Execs : l \notin wrote[f]

(* A bid that differs from the one read is history; NULL compares as 0.      *)
Changes_KnownOnly(e) == prev[e] # Absent /\ page[e][lot[e]] # prev[e]

Changes(e) ==
  LET old == IF prev[e] = Absent THEN 0 ELSE prev[e]
  IN  page[e][lot[e]] # 0 /\ page[e][lot[e]] # old

IsNew_WithBid(e) == prev[e] = Absent /\ Changes(e)

IsNew(e) == prev[e] = Absent

Upsert(e) ==
  /\ pc[e] = "upserting"
  /\ RowIsFree(lot[e])
  /\ wrote' = [wrote EXCEPT ![e] = wrote[e] \cup {lot[e]}]
  /\ noted' = IF Changes(e) THEN [noted EXCEPT ![e] = noted[e] \cup {lot[e]}] ELSE noted
  /\ novos' = IF IsNew(e) THEN [novos EXCEPT ![e] = novos[e] \cup {lot[e]}] ELSE novos
  /\ lot'   = [lot  EXCEPT ![e] = NoOne]
  /\ prev'  = [prev EXCEPT ![e] = Absent]
  /\ Go(e, "writing")
  /\ UNCHANGED <<queue, runs, page, table, alert, reader>>

Complete(e) == \A l \in Lots : page[e][l] = Absent \/ l \in wrote[e]

(* All is written: the second question for the lock.                         *)
Authorize_Once(e) ==
  /\ pc[e] = "writing"
  /\ Complete(e)
  /\ Go(e, "committing")
  /\ UNCHANGED <<queue, runs, batch, table, alert, reader>>

Authorize(e) ==
  /\ pc[e] = "writing"
  /\ Complete(e)
  /\ Holds(e)
  /\ Go(e, "committing")
  /\ UNCHANGED <<queue, runs, batch, table, alert, reader>>

(* Nobody evaluates the alerts of these lots again.                          *)
Drop(L) == alert' = [l \in Lots |-> IF l \in L /\ alert[l] = "none" THEN "dropped" ELSE alert[l]]

(* The rows, their history and the end of their locks, all at once.          *)
Apply(e) ==
  /\ row'       = [l \in Lots |-> IF l \in wrote[e] THEN page[e][l] ELSE row[l]]
  /\ writer'    = [l \in Lots |-> IF l \in wrote[e] THEN e ELSE writer[l]]
  /\ history'   = [l \in Lots |-> [b \in Bids |->
                     IF l \in noted[e] /\ b = page[e][l] THEN history[l][b] + 1 ELSE history[l][b]]]
  /\ committed' = committed \cup {e}
  /\ wrote'     = [wrote EXCEPT ![e] = {}]
  /\ noted'     = [noted EXCEPT ![e] = {}]
  /\ page'      = [page  EXCEPT ![e] = Blank]
  /\ UNCHANGED <<lot, prev>>

Commit(e) ==
  /\ pc[e] = "committing"
  /\ Apply(e)
  /\ Go(e, "posting")
  /\ UNCHANGED <<queue, runs, novos, alert, reader>>

(* The connection breaks on the commit, which the database has done.         *)
CommitUnheard(e) ==
  /\ pc[e] = "committing"
  /\ Apply(e)
  /\ Drop(novos[e])
  /\ novos'   = [novos EXCEPT ![e] = {}]
  /\ Go(e, "failing")
  /\ UNCHANGED <<queue, runs, reader>>

(* What is new goes to the alerts, whose errors are swallowed.               *)
PostCollect(e) ==
  /\ pc[e] = "posting"
  /\ \/ alert' = [l \in Lots |-> IF l \in novos[e] THEN "given" ELSE alert[l]]
     \/ Drop(novos[e])
  /\ novos' = [novos EXCEPT ![e] = {}]
  /\ Go(e, "finishing")
  /\ UNCHANGED <<queue, runs, page, lot, prev, wrote, noted, table, reader>>

FinishRun(e) ==
  /\ pc[e] = "finishing"
  /\ run'     = [run EXCEPT ![e] = "ok"]
  /\ counted' = [counted EXCEPT ![e] = TRUE]
  /\ Close(e)
  /\ UNCHANGED <<batch, table, alert, reader>>

(* finishRun throws, and is not tried again: the run stays open.             *)
LeaveOpen(e) ==
  /\ pc[e] \in {"finishing", "failing", "unwinding"}
  /\ Close(e)
  /\ UNCHANGED <<runs, batch, table, alert, reader>>

(* The observer of a tenant's attempt throws, the batch being committed.     *)
ObserverFails(e) ==
  /\ pc[e] = "finishing"
  /\ Go(e, "unwinding")
  /\ UNCHANGED <<queue, runs, batch, table, alert, reader>>

-----------------------------------------------------------------------------
(* How an execution fails.                                                   *)

RollBack(e) ==
  /\ page'  = [page  EXCEPT ![e] = Blank]
  /\ lot'   = [lot   EXCEPT ![e] = NoOne]
  /\ prev'  = [prev  EXCEPT ![e] = Absent]
  /\ wrote' = [wrote EXCEPT ![e] = {}]
  /\ noted' = [noted EXCEPT ![e] = {}]
  /\ novos' = [novos EXCEPT ![e] = {}]

Give_ToFinish(e) == Go(e, "finishing")

Give(e) == Go(e, "failing")

Break(e) ==
  /\ RollBack(e)
  /\ Give(e)
  /\ UNCHANGED <<queue, runs, table, alert, reader>>

(* The deadline of the collection, which holds whatever the connector does.  *)
Deadline_Never(e) == FALSE /\ Break(e)

Deadline(e) == pc[e] = "collecting" /\ Break(e)

(* The connector throws, the site answers with an error and no lots, the     *)
(* signal is raised, or Redis cannot vouch for the job.                      *)
Cancel(e) == pc[e] \in {"collecting", "collected", "writing"} /\ Break(e)

(* The database refuses a statement or the commit, or the connection breaks. *)
Refused(e) == pc[e] \in {"writing", "upserting", "committing"} /\ Break(e)

(* A statement that waits for a row: a deadlock, or the transaction's limit. *)
WaitTooLong(e) == pc[e] = "upserting" /\ ~RowIsFree(lot[e]) /\ Break(e)

(* The job's lock is another's, or nobody's.                                 *)
Dispossessed(e) ==
  /\ \/ pc[e] = "collected"
     \/ pc[e] = "writing" /\ Complete(e)
  /\ ~Holds(e)
  /\ Break(e)

(* The run tells how many lots were written, none unless the batch is in.    *)
FailRun(e) ==
  /\ pc[e] \in {"failing", "unwinding"}
  /\ run'     = [run EXCEPT ![e] = "failed"]
  /\ counted' = [counted EXCEPT ![e] = pc[e] = "unwinding"]
  /\ Close(e)
  /\ UNCHANGED <<batch, table, alert, reader>>

(* The worker dies; the database rolls back what it had not committed.       *)
Crash(e) ==
  /\ pc[e] \notin {"idle", "ended"}
  /\ RollBack(e)
  /\ IF pc[e] = "posting" THEN Drop(novos[e]) ELSE UNCHANGED alert
  /\ Go(e, "ended")
  /\ UNCHANGED <<queue, runs, table, reader>>

-----------------------------------------------------------------------------
(* The reader of live bids: what it read of a lot that has a row, however    *)
(* long ago, it writes there if the bid is another ...                       *)
UpdateLive(l) ==
  /\ live = AtRest
  /\ row[l] # Absent
  /\ RowIsFree(l)
  /\ \E b \in Bids \ {0, row[l]} :
       /\ live' = [lot |-> l, bid |-> b]
       /\ row'  = [row EXCEPT ![l] = b]
  /\ writer' = [writer EXCEPT ![l] = NoOne]
  /\ UNCHANGED <<queue, pc, runs, batch, history, committed, alert, lost>>

(* ... and then records the change.                                          *)
RecordLive ==
  /\ live # AtRest
  /\ history' = [history EXCEPT ![live.lot][live.bid] = history[live.lot][live.bid] + 1]
  /\ live'    = AtRest
  /\ UNCHANGED <<queue, pc, runs, batch, row, writer, committed, alert, lost>>

(* It fails or dies between the two statements.                              *)
AbandonLive ==
  /\ live # AtRest
  /\ lost' = lost \cup {live.lot}
  /\ live' = AtRest
  /\ UNCHANGED <<queue, pc, runs, batch, table, alert>>

-----------------------------------------------------------------------------

Write(e) ==
  \/ Begin(e)
  \/ \E l \in Lots : ReadPrev(e, l)
  \/ Upsert(e)
  \/ Authorize(e)
  \/ Commit(e)

Conclude(e) == FinishRun(e) \/ FailRun(e)

Fail(e) ==
  \/ Refuse(e)
  \/ CommitUnheard(e)
  \/ LeaveOpen(e)
  \/ ObserverFails(e)
  \/ Cancel(e)
  \/ Refused(e)
  \/ Crash(e)

Execute(e) ==
  \/ StartRun(e)
  \/ Collect(e)
  \/ Write(e)
  \/ PostCollect(e)
  \/ Conclude(e)
  \/ Deadline(e)
  \/ WaitTooLong(e)
  \/ Dispossessed(e)
  \/ Fail(e)

ReadLiveBids == (\E l \in Lots : UpdateLive(l)) \/ RecordLive \/ AbandonLive

Next ==
  \/ \E j \in Jobs : Lapse(j)
  \/ \E e \in Execs, j \in Jobs : Take(e, j)
  \/ \E e \in Execs : Execute(e)
  \/ ReadLiveBids

Spec == Init /\ [][Next]_vars

(* A worker that is alive takes its next step, timers fire, and the database *)
(* ends a wait for a row.  A connector need not ever answer, and neither     *)
(* need the service that alerts are pushed to, which is given no deadline.   *)
Fairness ==
  \A e \in Execs :
    /\ WF_vars(StartRun(e))
    /\ WF_vars(Write(e))
    /\ WF_vars(Conclude(e))
    /\ WF_vars(Deadline(e))
    /\ WF_vars(WaitTooLong(e))
    /\ WF_vars(Dispossessed(e))

FairSpec == Spec /\ Fairness

-----------------------------------------------------------------------------
(* Safety.                                                                   *)

(* A worker that lost its job never overwrites what a worker that took the   *)
(* job over has committed, although the commit itself is not fenced: the     *)
(* rows it locked before it last asked for the job keep the other one        *)
(* waiting.                                                                  *)
SuccessorWins ==
  [][\A l \in Lots, e, f \in Execs :
       writer[l] = f /\ writer'[l] = e /\ e # f => e \notin before[f]]_vars

(* A bid that is current is a bid that is in the history, whichever of       *)
(* several overlapping batches and live readings wrote it last; a live       *)
(* reader is the exception, between its two statements and if it dies there. *)
CurrentBidRecorded ==
  \A l \in Lots :
    \/ row[l] = Absent \/ row[l] = 0
    \/ history[l][row[l]] > 0
    \/ l \in lost
    \/ live.lot = l

(* A run that says it went well, or counts lots as upserted, has its batch   *)
(* in the table, whatever failed after the commit.                           *)
RunTellsTruth ==
  \A e \in Execs : run[e] = "ok" \/ counted[e] => e \in committed

(* A lot that enters the table is given to the alerts by the execution that  *)
(* brought it, even if several saw it as new; only a crash after the commit  *)
(* or a failing alert loses it.                                              *)
NewLotsAreAnnounced ==
  \A l \in Lots :
    \/ row[l] = Absent
    \/ alert[l] # "none"
    \/ \E e \in Execs : pc[e] = "posting" /\ l \in novos[e]

-----------------------------------------------------------------------------
(* The inductive invariant.                                                  *)

(* Who holds a job is the last to have taken it.                             *)
JobsAreHeld ==
  /\ \A e \in Execs : pc[e] = "idle" <=> job[e] = NoOne
  /\ \A j \in Jobs : lock[j] \in Execs =>
       /\ job[lock[j]] = j
       /\ \A f \in Execs : lock[j] \notin before[f]
  /\ \A e, f \in Execs : e \in before[f] => job[e] # NoOne

(* Upserted rows are locked, by one transaction in progress; what such a     *)
(* transaction is about to commit is not yet its successors'.                *)
RowsAreLocked ==
  /\ \A e \in Execs : wrote[e] # {} => pc[e] \in {"writing", "upserting", "committing"}
  /\ \A e, f \in Execs : e # f => wrote[e] \cap wrote[f] = {}
  /\ \A l \in Lots : writer[l] # NoOne => writer[l] \in committed
  /\ \A e \in committed : pc[e] \in {"posting", "finishing", "failing", "unwinding", "ended"}
  /\ \A e, f \in Execs, l \in Lots :
       pc[e] = "committing" /\ e \in before[f] /\ l \in wrote[e] => writer[l] # f

(* A bid that needs no row of history any more, or will never get one.       *)
Recorded(l, b) ==
  \/ b = 0
  \/ history[l][b] > 0
  \/ l \in lost
  \/ live = [lot |-> l, bid |-> b]

BidsAreRecorded ==
  /\ \A l \in Lots : row[l] # Absent => Recorded(l, row[l])
  /\ \A e \in Execs : pc[e] = "upserting" =>
       /\ lot[e] \in Lots /\ page[e][lot[e]] # Absent
       /\ prev[e] # Absent => Recorded(lot[e], prev[e])
  /\ \A e \in Execs : \A l \in wrote[e] :
       page[e][l] # Absent /\ (l \in noted[e] \/ Recorded(l, page[e][l]))

CommitsAreKnown == \A e \in Execs : pc[e] \in {"posting", "finishing", "unwinding"} => e \in committed

(* A lot that is not taken for new has a row.                                *)
NovosAreNew ==
  /\ \A e \in Execs : pc[e] = "upserting" /\ prev[e] # Absent => row[lot[e]] # Absent
  /\ \A e \in Execs : \A l \in wrote[e] : l \in novos[e] \/ row[l] # Absent

IInv ==
  /\ TypeOK
  /\ JobsAreHeld
  /\ RowsAreLocked
  /\ BidsAreRecorded
  /\ CommitsAreKnown
  /\ RunTellsTruth
  /\ NovosAreNew
  /\ NewLotsAreAnnounced

-----------------------------------------------------------------------------
(* What the source says of upsertLots: when the bid changes, it records      *)
(* history.  A batch that overlaps another one, or a live reading, between   *)
(* its SELECT and its upsert of a lot breaks it.                             *)
BatchChangeIsRecorded ==
  [][\A l \in Lots :
       row[l] # Absent /\ row'[l] # row[l] /\ row'[l] # 0 /\ writer'[l] # NoOne
         => history'[l] # history[l]]_vars

-----------------------------------------------------------------------------
(* Liveness.                                                                 *)

(* An execution comes to its commit or to an end, although the connector     *)
(* hangs, and although batches wait for each other's rows in a circle; once  *)
(* the alerts are out of its hands it ends.                                  *)
EveryRunEnds ==
  \A e \in Execs :
    /\ pc[e] = "taken" ~> pc[e] \in {"posting", "ended"}
    /\ pc[e] = "finishing" ~> pc[e] = "ended"
================================================================================
